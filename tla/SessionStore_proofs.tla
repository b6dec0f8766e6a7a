------------------------- MODULE SessionStore_proofs -------------------------
(* The session store, for any number of entries, failed appends and crashes. *)
EXTENDS SessionStore, FiniteSetTheorems, SequenceTheorems, TLAPS

-----------------------------------------------------------------------------
(* Sequences: what a filter keeps, and joining.                             *)

\* Rank numbers the positions that stay, from 1 and without a gap.
LEMMA RankFacts ==
    ASSUME NEW at, IsFiniteSet(at), at \subseteq Nat
    PROVE  /\ Cardinality(at) \in Nat
           /\ \A i \in at : Rank(at, i) \in 1 .. Cardinality(at)
           /\ \A i, h \in at : i < h => Rank(at, i) < Rank(at, h)
           /\ \A k \in 1 .. Cardinality(at) : \E i \in at : Rank(at, i) = k
<1> DEFINE Below(i) == {h \in at : h <= i}
           c == Cardinality(at)
<1>1. c \in Nat
  BY FS_CardinalityType
<1>2. ASSUME NEW i \in at
      PROVE  /\ IsFiniteSet(Below(i)) /\ Cardinality(Below(i)) \in 1 .. c
             /\ Rank(at, i) = Cardinality(Below(i))
  <2>1. Below(i) \in SUBSET at
    OBVIOUS
  <2>2. IsFiniteSet(Below(i)) /\ Cardinality(Below(i)) <= c /\ Cardinality(Below(i)) \in Nat
    BY <2>1, FS_Subset, FS_CardinalityType
  <2>3. i \in Below(i)
    OBVIOUS
  <2>4. Cardinality(Below(i)) # 0
    BY <2>2, <2>3, FS_EmptySet
  <2> QED BY <1>1, <2>2, <2>4 DEF Rank
<1>3. ASSUME NEW i \in at, NEW h \in at, i < h
      PROVE  Rank(at, i) < Rank(at, h)
  <2>1. \A g \in at : g <= i => g <= h /\ g # h
    BY <1>3
  <2>6. Below(i) \in SUBSET (Below(h) \ {h})
    BY <2>1
  <2>2. h \in Below(h)
    OBVIOUS
  <2>3. IsFiniteSet(Below(h)) /\ IsFiniteSet(Below(h) \ {h})
        /\ Cardinality(Below(h) \ {h}) = Cardinality(Below(h)) - 1
    BY <1>2, <2>2, FS_RemoveElement
  <2>4. Cardinality(Below(i)) <= Cardinality(Below(h) \ {h})
    BY <2>3, <2>6, FS_Subset
  <2>5. Cardinality(Below(i)) \in 1 .. c /\ Cardinality(Below(h)) \in 1 .. c
        /\ Rank(at, i) = Cardinality(Below(i)) /\ Rank(at, h) = Cardinality(Below(h))
    BY <1>2
  <2> QED BY <1>1, <2>3, <2>4, <2>5
<1>4. \A i, h \in at : Rank(at, i) = Rank(at, h) => i = h
  <2> SUFFICES ASSUME NEW i \in at, NEW h \in at, Rank(at, i) = Rank(at, h), i # h
               PROVE  FALSE
    OBVIOUS
  <2>1. i \in Nat /\ h \in Nat /\ (i < h \/ h < i)
    OBVIOUS
  <2>2. Rank(at, i) \in 1 .. c
    BY <1>2
  <2> QED BY <1>1, <1>3, <2>1, <2>2
<1>5. \A i \in at : Rank(at, i) \in 1 .. c
  BY <1>2
<1> DEFINE f == [i \in at |-> Rank(at, i)]
<1>6. f \in Injection(at, 1 .. c)
  BY <1>4, <1>5 DEF Injection, IsInjective
<1>7. IsFiniteSet(1 .. c) /\ Cardinality(1 .. c) = c
  BY <1>1, FS_Interval
<1>8. f \in Surjection(at, 1 .. c)
  BY <1>6, <1>7, FS_Injection
<1>9. \A k \in 1 .. c : \E i \in at : Rank(at, i) = k
  BY <1>8 DEF Surjection
<1> QED BY <1>1, <1>3, <1>5, <1>9

\* Each element that is asked for is there once, at a place of its own.
LEMMA OnlyFacts ==
    ASSUME NEW T, NEW s \in Seq(T), NEW S
    PROVE  /\ Only(s, S) \in Seq(T)
           /\ Range(Only(s, S)) = Range(s) \cap S
           /\ \A k, l \in DOMAIN Only(s, S) : k < l =>
                \E i, h \in DOMAIN s :
                    i < h /\ Only(s, S)[k] = s[i] /\ Only(s, S)[l] = s[h]
<1> DEFINE at == Stays(s, S)
           c == Cardinality(at)
           P(k) == CHOOSE i \in at : Rank(at, i) = k
<1>1. DOMAIN s = 1 .. Len(s) /\ Len(s) \in Nat /\ \A i \in DOMAIN s : s[i] \in T
  OBVIOUS
<1>2. at \subseteq DOMAIN s /\ at \subseteq Nat /\ \A i \in DOMAIN s : i \in at <=> s[i] \in S
  BY <1>1 DEF Stays
<1> HIDE DEF at
<1>3. IsFiniteSet(at)
  <2>1. IsFiniteSet(1 .. Len(s))
    BY <1>1, FS_Interval
  <2>2. at \in SUBSET (1 .. Len(s))
    BY <1>1, <1>2
  <2> QED BY <2>1, <2>2, FS_Subset
<1>4. /\ c \in Nat
      /\ \A i \in at : Rank(at, i) \in 1 .. c
      /\ \A i, h \in at : i < h => Rank(at, i) < Rank(at, h)
      /\ \A k \in 1 .. c : \E i \in at : Rank(at, i) = k
  BY <1>2, <1>3, RankFacts
<1>5. \A k \in 1 .. c : P(k) \in at /\ Rank(at, P(k)) = k
  BY <1>4
<1>6. Only(s, S) = [k \in 1 .. c |-> s[P(k)]]
  BY DEF Only, at
<1> HIDE DEF P, c
<1>7. DOMAIN Only(s, S) = 1 .. c /\ \A k \in 1 .. c : Only(s, S)[k] = s[P(k)]
  BY <1>6
<1>8. Only(s, S) \in Seq(T)
  BY <1>1, <1>2, <1>4, <1>5, <1>6
<1>9. Range(Only(s, S)) \subseteq Range(s) \cap S
  BY <1>2, <1>5, <1>7 DEF Range
<1>10. ASSUME NEW i \in DOMAIN s, s[i] \in S
       PROVE  s[i] \in Range(Only(s, S))
  <2>1. i \in at
    BY <1>2, <1>10
  <2>2. Rank(at, i) \in 1 .. c
    BY <1>4, <2>1
  <2>3. P(Rank(at, i)) = i
    <3>1. P(Rank(at, i)) \in at /\ Rank(at, P(Rank(at, i))) = Rank(at, i)
      BY <1>5, <2>2
    <3>2. \A x, y \in at : x \in Nat /\ y \in Nat /\ Rank(at, x) \in Nat
                             /\ (x < y => Rank(at, x) < Rank(at, y))
      BY <1>2, <1>4
    <3> QED BY <2>1, <3>1, <3>2
  <2> QED BY <1>7, <2>2, <2>3 DEF Range
<1>11. Range(s) \cap S \subseteq Range(Only(s, S))
  BY <1>10 DEF Range
<1>12. ASSUME NEW k \in 1 .. c, NEW l \in 1 .. c, k < l
       PROVE  \E i, h \in DOMAIN s :
                  i < h /\ Only(s, S)[k] = s[i] /\ Only(s, S)[l] = s[h]
  <2>1. P(k) \in at /\ P(l) \in at /\ Rank(at, P(k)) = k /\ Rank(at, P(l)) = l
    BY <1>5
  <2>2. P(k) \in Nat /\ P(l) \in Nat /\ (P(l) < P(k) => Rank(at, P(l)) < Rank(at, P(k)))
    BY <1>2, <1>4, <2>1
  <2>3. P(k) < P(l)
    BY <1>4, <1>12, <2>1, <2>2
  <2>4. P(k) \in DOMAIN s /\ P(l) \in DOMAIN s
    BY <1>2, <2>1
  <2> QED BY <1>7, <2>3, <2>4
<1>13. Range(Only(s, S)) = Range(s) \cap S
  BY <1>9, <1>11
<1> QED BY <1>7, <1>8, <1>12, <1>13


\* The elements of a joined sequence.
LEMMA ConcatFacts ==
    ASSUME NEW T, NEW s \in Seq(T), NEW u \in Seq(T)
    PROVE  /\ s \o u \in Seq(T) /\ Range(s \o u) = Range(s) \cup Range(u)
           /\ DOMAIN (s \o u) = 1 .. Len(s) + Len(u)
           /\ \A i \in DOMAIN s : (s \o u)[i] = s[i]
           /\ \A k \in DOMAIN (s \o u) : k \notin DOMAIN s =>
                k - Len(s) \in DOMAIN u /\ (s \o u)[k] = u[k - Len(s)]
<1>1. /\ s \o u \in Seq(T) /\ DOMAIN s = 1 .. Len(s) /\ DOMAIN u = 1 .. Len(u)
      /\ Len(s) \in Nat /\ Len(u) \in Nat /\ DOMAIN (s \o u) = 1 .. Len(s) + Len(u)
  OBVIOUS
<1>2. \A i \in 1 .. Len(s) : (s \o u)[i] = s[i]
  OBVIOUS
<1>3. ASSUME NEW k \in 1 .. Len(s) + Len(u), k \notin 1 .. Len(s)
      PROVE  k - Len(s) \in 1 .. Len(u) /\ (s \o u)[k] = u[k - Len(s)]
  BY <1>1, <1>3
<1>4. ASSUME NEW i \in 1 .. Len(u)
      PROVE  /\ Len(s) + i \in 1 .. Len(s) + Len(u) /\ (s \o u)[Len(s) + i] = u[i]
  BY <1>1
<1> DEFINE w == s \o u
<1>5. \A i \in 1 .. Len(u) : Len(s) + i \in DOMAIN w /\ w[Len(s) + i] = u[i]
  BY <1>1, <1>4
<1>6. DOMAIN w = 1 .. Len(s) + Len(u) /\ \A i \in 1 .. Len(s) : w[i] = s[i]
  BY <1>1, <1>2
<1>7. \A k \in DOMAIN w : k \notin 1 .. Len(s) => k - Len(s) \in 1 .. Len(u) /\ w[k] = u[k - Len(s)]
  BY <1>3, <1>6
<1> HIDE DEF w
<1>8. Range(u) \subseteq Range(w)
  BY <1>1, <1>5 DEF Range
<1>9. Range(s) \subseteq Range(w)
  <2>1. \A i \in 1 .. Len(s) : i \in DOMAIN w
    BY <1>1, <1>6
  <2> QED BY <1>1, <1>6, <2>1 DEF Range
<1>10. Range(w) \subseteq Range(s) \cup Range(u)
  BY <1>1, <1>6, <1>7 DEF Range
<1>11. Range(w) = Range(s) \cup Range(u)
  BY <1>8, <1>9, <1>10
<1> QED BY <1>1, <1>6, <1>7, <1>11 DEF w

-----------------------------------------------------------------------------
(* Lines.                                                                   *)

Items == Entries \cup {Header}
Lines == Items \cup {Garbage}
EntriesIn(s) == Range(s) \cap Entries

\* Nothing but torn lines stands before a header.
OneHeaderIn(s) ==
    \A i \in DOMAIN s : s[i] = Header => \A j \in 1..(i - 1) : s[j] = Garbage

Tidy(s) == s \in Seq(Lines) /\ InOrder(s) /\ OneHeaderIn(s)

\* What s and t have to do with one another for t to follow s.
Before(s, t) ==
    /\ \A a \in EntriesIn(s), b \in EntriesIn(t) : a.id < b.id
    /\ Header \in Range(t) => Range(s) \subseteq {Garbage}

\* Entries are the lines that have an id.
LEMMA LineFacts ==
    /\ MaxId \in Nat
    /\ Header \in Items /\ Header \notin Entries /\ Header # Garbage /\ Header.id = 0
    /\ Garbage \in Lines /\ Garbage \notin Items /\ Garbage.id = 0
    /\ \A a \in Lines : a.id \in 0..MaxId /\ (a \in Entries <=> a.id # 0)
    /\ \A e \in Entries : e.id \in 1..MaxId /\ e.parent \in 0..MaxId
<1>1. MaxId \in Nat
  BY StoreAssumption
<1>2. \A e \in Entries : e.id \in 1..MaxId /\ e.parent \in 0..MaxId /\ e.kind \in Kinds
  BY DEF Entries
<1>3. Header.id = 0 /\ Garbage.id = 0 /\ Header.kind = "header" /\ Garbage.kind = "garbage"
  BY DEF Header, Garbage, Entry
<1>4. Header \notin Entries /\ Garbage \notin Entries
  BY <1>1, <1>2, <1>3
<1> QED BY <1>1, <1>2, <1>3, <1>4 DEF Items, Lines

\* Order is a matter of the entries.
LEMMA OrderFacts ==
    ASSUME NEW s \in Seq(Lines)
    PROVE  InOrder(s) <=> \A i, j \in DOMAIN s :
               i < j /\ s[i] \in Entries /\ s[j] \in Entries => s[i].id < s[j].id
<1>1. \A i \in DOMAIN s : s[i] \in Lines
  OBVIOUS
<1>2. \A i \in DOMAIN s : s[i] \in Entries <=> s[i].id # 0
  BY <1>1, LineFacts
<1> QED BY <1>2 DEF InOrder

LEMMA IdsFacts ==
    ASSUME NEW s \in Seq(Lines)
    PROVE  Ids(s) = {e.id : e \in EntriesIn(s)} /\ Ids(s) \subseteq 1..MaxId
<1>1. \A i \in DOMAIN s : s[i] \in Lines
  OBVIOUS
<1>2. \A i \in DOMAIN s : s[i] \in Entries <=> s[i].id # 0
  BY <1>1, LineFacts
<1>3. Ids(s) = {e.id : e \in EntriesIn(s)}
  BY <1>2 DEF Ids, EntriesIn, Range
<1>4. \A e \in EntriesIn(s) : e.id \in 1..MaxId
  BY LineFacts DEF EntriesIn
<1> QED BY <1>3, <1>4

\* An id names one entry.
LEMMA SameEntry ==
    ASSUME NEW s \in Seq(Lines), InOrder(s),
           NEW a \in EntriesIn(s), NEW b \in EntriesIn(s), a.id = b.id
    PROVE  a = b
<1>1. PICK i \in DOMAIN s : a = s[i]
  BY DEF EntriesIn, Range
<1>2. PICK j \in DOMAIN s : b = s[j]
  BY DEF EntriesIn, Range
<1>3. i \in Nat /\ j \in Nat /\ a.id \in Nat /\ a \in Entries /\ b \in Entries
  BY LineFacts DEF EntriesIn
<1>4. i < j => a.id < b.id
  BY <1>1, <1>2, <1>3, OrderFacts
<1>5. j < i => b.id < a.id
  BY <1>1, <1>2, <1>3, OrderFacts
<1> QED BY <1>1, <1>2, <1>3, <1>4, <1>5

LEMMA EntriesConcat ==
    ASSUME NEW s \in Seq(Lines), NEW t \in Seq(Lines)
    PROVE  EntriesIn(s \o t) = EntriesIn(s) \cup EntriesIn(t)
BY ConcatFacts DEF EntriesIn

\* A joined sequence is tidy when its parts are and one may follow the other.
LEMMA TidyConcat ==
    ASSUME NEW s \in Seq(Lines), NEW t \in Seq(Lines)
    PROVE  Tidy(s \o t) <=> Tidy(s) /\ Tidy(t) /\ Before(s, t)
<1> DEFINE w == s \o t
           m == Len(s)
<1>1. /\ DOMAIN s = 1..m /\ DOMAIN t = 1..Len(t) /\ m \in Nat /\ Len(t) \in Nat
      /\ \A i \in DOMAIN s : s[i] \in Lines
      /\ \A i \in DOMAIN t : t[i] \in Lines
  OBVIOUS
<1>2. /\ w \in Seq(Lines) /\ DOMAIN w = 1..(m + Len(t))
      /\ \A i \in DOMAIN s : i \in DOMAIN w /\ w[i] = s[i]
      /\ \A k \in DOMAIN w : k \notin DOMAIN s => k - m \in DOMAIN t /\ w[k] = t[k - m]
  BY <1>1, ConcatFacts
<1> HIDE DEF w
<1>3. \A i \in DOMAIN t : /\ m + i \in DOMAIN w /\ w[m + i] = t[i]
                          /\ \A h \in DOMAIN s : h < m + i
  <2> SUFFICES ASSUME NEW i \in DOMAIN t
               PROVE  /\ m + i \in DOMAIN w /\ w[m + i] = t[i]
                      /\ \A h \in DOMAIN s : h < m + i
    OBVIOUS
  <2>1. m + i \in 1..(m + Len(t)) /\ m + i \notin 1..m /\ (m + i) - m = i
        /\ \A h \in 1..m : h < m + i
    BY <1>1
  <2> QED BY <1>1, <1>2, <2>1
<1> DEFINE Ord(u) == \A i, j \in DOMAIN u :
                         i < j /\ u[i] \in Entries /\ u[j] \in Entries => u[i].id < u[j].id
<1>4. (InOrder(w) <=> Ord(w)) /\ (InOrder(s) <=> Ord(s)) /\ (InOrder(t) <=> Ord(t))
  BY <1>2, OrderFacts
<1>5. Ord(w) => Ord(s)
  BY <1>1, <1>2
<1>6. Ord(w) => Ord(t)
  <2> SUFFICES ASSUME Ord(w), NEW i \in DOMAIN t, NEW j \in DOMAIN t,
                      i < j, t[i] \in Entries, t[j] \in Entries
               PROVE  t[i].id < t[j].id
    OBVIOUS
  <2>1. m + i < m + j
    BY <1>1
  <2> QED BY <1>3, <2>1
<1>7. Ord(w) => \A a \in EntriesIn(s), b \in EntriesIn(t) : a.id < b.id
  <2> SUFFICES ASSUME Ord(w), NEW i \in DOMAIN s, NEW j \in DOMAIN t,
                      s[i] \in Entries, t[j] \in Entries
               PROVE  s[i].id < t[j].id
    BY DEF EntriesIn, Range
  <2> QED BY <1>2, <1>3
<1>8. ASSUME Ord(s), Ord(t), \A a \in EntriesIn(s), b \in EntriesIn(t) : a.id < b.id
      PROVE  Ord(w)
  <2> SUFFICES ASSUME NEW i \in DOMAIN w, NEW j \in DOMAIN w,
                      i < j, w[i] \in Entries, w[j] \in Entries
               PROVE  w[i].id < w[j].id
    OBVIOUS
  <2>1. CASE i \in DOMAIN s /\ j \in DOMAIN s
    BY <1>2, <1>8, <2>1
  <2>2. CASE i \in DOMAIN s /\ j \notin DOMAIN s
    <3>1. w[i] \in EntriesIn(s) /\ w[j] \in EntriesIn(t)
      BY <1>2, <2>2 DEF EntriesIn, Range
    <3> QED BY <1>8, <3>1
  <2>3. CASE i \notin DOMAIN s
    <3>1. j \notin DOMAIN s /\ i - m < j - m
      BY <1>1, <1>2, <2>3
    <3> QED BY <1>2, <1>8, <2>3, <3>1
  <2> QED BY <2>1, <2>2, <2>3
<1>9. OneHeaderIn(w) => OneHeaderIn(s)
  <2> SUFFICES ASSUME OneHeaderIn(w), NEW i \in DOMAIN s, s[i] = Header,
                      NEW j \in 1..(i - 1)
               PROVE  s[j] = Garbage
    BY DEF OneHeaderIn
  <2>1. j \in DOMAIN s
    BY <1>1
  <2> QED BY <1>2, <2>1 DEF OneHeaderIn
<1>10. OneHeaderIn(w) => OneHeaderIn(t) /\ (Header \in Range(t) => Range(s) \subseteq {Garbage})
  <2> SUFFICES ASSUME OneHeaderIn(w), NEW i \in DOMAIN t, t[i] = Header
               PROVE  /\ \A j \in 1..(i - 1) : t[j] = Garbage
                      /\ Range(s) \subseteq {Garbage}
    BY DEF OneHeaderIn, Range
  <2>1. w[m + i] = Header /\ m + i \in DOMAIN w
    BY <1>3
  <2>2. \A h \in 1..(m + i - 1) : w[h] = Garbage
    BY <2>1 DEF OneHeaderIn
  <2>3. \A j \in 1..(i - 1) : j \in DOMAIN t /\ m + j \in 1..(m + i - 1)
    BY <1>1
  <2>4. \A j \in DOMAIN s : j \in 1..(m + i - 1)
    BY <1>1
  <2>5. \A j \in 1..(i - 1) : t[j] = Garbage
    BY <1>3, <2>2, <2>3
  <2>6. \A j \in DOMAIN s : s[j] = Garbage
    BY <1>2, <2>2, <2>4
  <2> QED BY <2>5, <2>6 DEF Range
<1>11. ASSUME OneHeaderIn(s), OneHeaderIn(t), Header \in Range(t) => Range(s) \subseteq {Garbage}
       PROVE  OneHeaderIn(w)
  <2> SUFFICES ASSUME NEW i \in DOMAIN w, w[i] = Header, NEW j \in 1..(i - 1)
               PROVE  w[j] = Garbage
    BY DEF OneHeaderIn
  <2>1. i \in 1..(m + Len(t)) /\ j \in 1..(m + Len(t)) /\ j < i
    BY <1>1, <1>2
  <2>2. CASE i \in DOMAIN s
    <3>1. j \in DOMAIN s
      BY <1>1, <2>1, <2>2
    <3> QED BY <1>2, <1>11, <2>2, <3>1 DEF OneHeaderIn
  <2>3. CASE i \notin DOMAIN s /\ j \notin DOMAIN s
    <3>1. i - m \in DOMAIN t /\ t[i - m] = Header /\ j - m \in DOMAIN t /\ w[j] = t[j - m]
      BY <1>2, <2>1, <2>3
    <3>2. j - m \in 1..((i - m) - 1)
      BY <1>1, <2>1, <2>3
    <3> QED BY <1>11, <3>1, <3>2 DEF OneHeaderIn
  <2>4. CASE i \notin DOMAIN s /\ j \in DOMAIN s
    <3>1. Header \in Range(t) /\ s[j] \in Range(s)
      BY <1>2, <2>4 DEF Range
    <3> QED BY <1>2, <1>11, <2>4, <3>1
  <2> QED BY <2>2, <2>3, <2>4
<1>12. Tidy(w) <=> Ord(w) /\ OneHeaderIn(w)
  BY <1>2, <1>4 DEF Tidy
<1>13. Tidy(s) <=> Ord(s) /\ OneHeaderIn(s)
  BY <1>4 DEF Tidy
<1>14. Tidy(t) <=> Ord(t) /\ OneHeaderIn(t)
  BY <1>4 DEF Tidy
<1> HIDE DEF Ord
<1>15. Tidy(w) => Tidy(s) /\ Tidy(t) /\ Before(s, t)
  BY <1>5, <1>6, <1>7, <1>9, <1>10, <1>12, <1>13, <1>14 DEF Before
<1>16. Tidy(s) /\ Tidy(t) /\ Before(s, t) => Tidy(w)
  BY <1>8, <1>11, <1>12, <1>13, <1>14 DEF Before
<1> QED BY <1>15, <1>16 DEF w

-----------------------------------------------------------------------------
(* Appending to a file.                                                     *)

LEMMA SplitFacts ==
    ASSUME NEW S, NEW s \in Seq(S), s # <<>>
    PROVE  /\ Front(s) \in Seq(S) /\ Last(s) \in S /\ s = Front(s) \o <<Last(s)>>
           /\ Tail(s) \in Seq(S) /\ Head(s) \in S /\ s = <<Head(s)>> \o Tail(s)
<1>1. Len(s) \in Nat /\ Len(s) # 0
  OBVIOUS
<1>2. Front(s) \in Seq(S) /\ Last(s) \in S
  BY <1>1 DEF Front, Last
<1>3. s = Front(s) \o <<Last(s)>>
  BY <1>1 DEF Front, Last
<1>4. Tail(s) \in Seq(S) /\ Head(s) \in S
  BY <1>1
<1>5. s = <<Head(s)>> \o Tail(s)
  BY <1>1
<1> QED BY <1>2, <1>3, <1>4, <1>5

LEMMA SingleFacts ==
    ASSUME NEW a \in Lines
    PROVE  <<a>> \in Seq(Lines) /\ Range(<<a>>) = {a} /\ Tidy(<<a>>)
<1>1. <<a>> \in Seq(Lines) /\ Range(<<a>>) = {a}
  BY DEF Range
<1>2. InOrder(<<a>>)
  BY DEF InOrder
<1>3. OneHeaderIn(<<a>>)
  BY DEF OneHeaderIn
<1> QED BY <1>1, <1>2, <1>3 DEF Tidy

LEMMA EmptyFacts ==
    /\ <<>> \in Seq(Lines) /\ Range(<<>>) = {} /\ EntriesIn(<<>>) = {} /\ Ids(<<>>) = {}
    /\ Tidy(<<>>)
    /\ \A s : Before(s, <<>>) /\ Before(<<>>, s)
    /\ \A s \in Seq(Lines) : s \o <<>> = s /\ <<>> \o s = s
<1>1. <<>> \in Seq(Lines) /\ Range(<<>>) = {}
  BY DEF Range
<1>2. EntriesIn(<<>>) = {} /\ Ids(<<>>) = {}
  BY <1>1 DEF EntriesIn, Ids
<1>3. Tidy(<<>>)
  BY <1>1 DEF Tidy, InOrder, OneHeaderIn
<1>4. \A s : Before(s, <<>>) /\ Before(<<>>, s)
  BY <1>1, <1>2 DEF Before
<1>5. \A s \in Seq(Lines) : s \o <<>> = s /\ <<>> \o s = s
  OBVIOUS
<1> QED BY <1>1, <1>2, <1>3, <1>4, <1>5

LEMMA JoinFacts ==
    ASSUME NEW s \in Seq(Lines), NEW t \in Seq(Lines)
    PROVE  s \o t \in Seq(Lines) /\ Range(s \o t) = Range(s) \cup Range(t)
BY ConcatFacts

LEMMA JoinAgain ==
    ASSUME NEW s \in Seq(Lines), NEW t \in Seq(Lines), NEW u \in Seq(Lines)
    PROVE  (s \o t) \o u = s \o (t \o u)
BY ConcatAssociative

\* Lines u are the lines v with one garbled line for l and h.
Merges(v, u, l, h) ==
    /\ Tidy(u) /\ Garbage \in Range(u) /\ {l, h} \subseteq Range(v)
    /\ Range(u) \subseteq Range(v) \cup {Garbage}
    /\ EntriesIn(u) = {e \in EntriesIn(v) : e.id \notin {l.id, h.id} \ {0}}

\* A torn line l and the line h that is written into it become one garbled line.
LEMMA MergeFacts ==
    ASSUME NEW s \in Seq(Lines), NEW l \in Lines, NEW h \in Lines, NEW t \in Seq(Lines),
           Tidy((s \o <<l>>) \o (<<h>> \o t))
    PROVE  Merges((s \o <<l>>) \o (<<h>> \o t), (s \o <<Garbage>>) \o t, l, h)
<1>1. /\ <<l>> \in Seq(Lines) /\ <<h>> \in Seq(Lines) /\ <<Garbage>> \in Seq(Lines)
      /\ Range(<<l>>) = {l} /\ Range(<<h>>) = {h} /\ Range(<<Garbage>>) = {Garbage}
      /\ Tidy(<<Garbage>>)
  BY LineFacts, SingleFacts
<1>2. /\ s \o <<l>> \in Seq(Lines) /\ Range(s \o <<l>>) = Range(s) \cup {l}
      /\ <<h>> \o t \in Seq(Lines) /\ Range(<<h>> \o t) = {h} \cup Range(t)
      /\ s \o <<Garbage>> \in Seq(Lines) /\ Range(s \o <<Garbage>>) = Range(s) \cup {Garbage}
  <2>1. s \o <<l>> \in Seq(Lines) /\ Range(s \o <<l>>) = Range(s) \cup Range(<<l>>)
    BY <1>1, JoinFacts
  <2>2. <<h>> \o t \in Seq(Lines) /\ Range(<<h>> \o t) = Range(<<h>>) \cup Range(t)
    BY <1>1, JoinFacts
  <2>3. /\ s \o <<Garbage>> \in Seq(Lines)
        /\ Range(s \o <<Garbage>>) = Range(s) \cup Range(<<Garbage>>)
    BY <1>1, JoinFacts
  <2> QED BY <1>1, <2>1, <2>2, <2>3
<1>3. Range((s \o <<l>>) \o (<<h>> \o t)) = Range(s) \cup {l, h} \cup Range(t)
  <2>1. Range((s \o <<l>>) \o (<<h>> \o t)) = Range(s \o <<l>>) \cup Range(<<h>> \o t)
    BY <1>2, JoinFacts
  <2> QED BY <1>2, <2>1
<1>4. Range((s \o <<Garbage>>) \o t) = Range(s) \cup {Garbage} \cup Range(t)
  <2>1. Range((s \o <<Garbage>>) \o t) = Range(s \o <<Garbage>>) \cup Range(t)
    BY <1>2, JoinFacts
  <2> QED BY <1>2, <2>1
<1>5. /\ Tidy(s \o <<l>>) /\ Tidy(<<h>> \o t) /\ Before(s \o <<l>>, <<h>> \o t)
  BY <1>2, TidyConcat
<1>6. Tidy(s) /\ Before(s, <<l>>) /\ Tidy(t) /\ Before(<<h>>, t)
  BY <1>1, <1>5, TidyConcat
<1>7. Before(s, <<Garbage>>)
  BY <1>1, LineFacts DEF Before, EntriesIn
<1>8. Tidy(s \o <<Garbage>>)
  BY <1>1, <1>6, <1>7, TidyConcat
<1>9. Before(s \o <<Garbage>>, t)
  <2>1. \A a \in EntriesIn(s \o <<Garbage>>) : a \in EntriesIn(s \o <<l>>)
    BY <1>2, LineFacts DEF EntriesIn
  <2>2. \A b \in EntriesIn(t) : b \in EntriesIn(<<h>> \o t)
    BY <1>2 DEF EntriesIn
  <2>3. Header \in Range(t) => Range(s \o <<Garbage>>) \subseteq {Garbage}
    BY <1>2, <1>5 DEF Before
  <2>4. \A a \in EntriesIn(s \o <<l>>), b \in EntriesIn(<<h>> \o t) : a.id < b.id
    BY <1>5 DEF Before
  <2> QED BY <2>1, <2>2, <2>3, <2>4 DEF Before
<1>10. Tidy((s \o <<Garbage>>) \o t)
  BY <1>2, <1>6, <1>8, <1>9, TidyConcat
<1>11. ASSUME NEW e \in EntriesIn(s) \cup EntriesIn(t)
       PROVE  e.id \notin {l.id, h.id}
  <2>1. e \in Entries /\ e.id \in 1..MaxId /\ l.id \in 0..MaxId /\ h.id \in 0..MaxId /\ MaxId \in Nat
        /\ (l.id # 0 => l \in Entries) /\ (h.id # 0 => h \in Entries)
    BY LineFacts DEF EntriesIn
  <2>2. CASE e \in EntriesIn(s)
    <3>1. l \in Entries => e.id < l.id
      BY <1>1, <1>6, <2>2 DEF Before, EntriesIn
    <3>2. h \in Entries => e.id < h.id
      BY <1>2, <1>5, <2>2 DEF Before, EntriesIn
    <3> QED BY <2>1, <3>1, <3>2
  <2>3. CASE e \in EntriesIn(t)
    <3>1. h \in Entries => h.id < e.id
      BY <1>1, <1>6, <2>3 DEF Before, EntriesIn
    <3>2. l \in Entries => l.id < e.id
      BY <1>2, <1>5, <2>3 DEF Before, EntriesIn
    <3> QED BY <2>1, <3>1, <3>2
  <2> QED BY <2>2, <2>3
<1>12. EntriesIn((s \o <<Garbage>>) \o t) = EntriesIn(s) \cup EntriesIn(t)
  BY <1>4, LineFacts DEF EntriesIn
<1>13. EntriesIn((s \o <<l>>) \o (<<h>> \o t)) = EntriesIn(s) \cup EntriesIn(t) \cup ({l, h} \cap Entries)
  BY <1>3 DEF EntriesIn
<1>14. \A e \in {l, h} \cap Entries : e.id \in {l.id, h.id} \ {0}
  BY LineFacts
<1> DEFINE u == (s \o <<Garbage>>) \o t
           v == (s \o <<l>>) \o (<<h>> \o t)
<1>15. /\ EntriesIn(u) = EntriesIn(s) \cup EntriesIn(t) /\ Tidy(u)
       /\ EntriesIn(v) = EntriesIn(s) \cup EntriesIn(t) \cup ({l, h} \cap Entries)
       /\ Range(u) = Range(s) \cup {Garbage} \cup Range(t)
       /\ Range(v) = Range(s) \cup {l, h} \cup Range(t)
  BY <1>3, <1>4, <1>10, <1>12, <1>13
<1> HIDE DEF u, v
<1>16. EntriesIn(u) = {e \in EntriesIn(v) : e.id \notin {l.id, h.id} \ {0}}
  BY <1>11, <1>14, <1>15
<1>17. Merges(v, u, l, h)
  BY <1>15, <1>16 DEF Merges
<1> QED BY <1>17 DEF u, v

\* What an append leaves in the file, whole or not, after a torn line or not.
LEMMA WrittenFacts ==
    ASSUME NEW f, f.lines \in Seq(Lines), f.lines = <<>> => f.clean,
           NEW lines \in Seq(Lines), NEW whole, Tidy(f.lines \o lines)
    PROVE  /\ Tidy(Written(f, lines, whole).lines)
           /\ Range(Written(f, lines, whole).lines) \subseteq Range(f.lines \o lines) \cup {Garbage}
           /\ EntriesIn(Written(f, lines, whole).lines) =
                {e \in EntriesIn(f.lines \o lines) : e.id \notin Swallowed(f, lines)}
           /\ Swallowed(f, lines) \subseteq Ids(f.lines \o lines)
           /\ lines # <<>> => Written(f, lines, whole).lines # <<>>
<1> DEFINE w == Written(f, lines, whole).lines
           g == Swallowed(f, lines)
<1>1. CASE f.clean \/ lines = <<>>
  <2>1. w = f.lines \o lines /\ g = {}
    BY <1>1 DEF Written, Swallowed
  <2>2. lines # <<>> => f.lines \o lines # <<>>
    OBVIOUS
  <2> QED BY <2>1, <2>2
<1>2. CASE ~ (f.clean \/ lines = <<>>)
  <2> DEFINE s == Front(f.lines)
             l == Last(f.lines)
             h == Head(lines)
             t == Tail(lines)
  <2>1. /\ w = (s \o <<Garbage>>) \o t /\ g = {l.id, h.id} \ {0}
    BY <1>2 DEF Written, Swallowed
  <2>2. /\ s \in Seq(Lines) /\ l \in Lines /\ f.lines = s \o <<l>>
        /\ t \in Seq(Lines) /\ h \in Lines /\ lines = <<h>> \o t
    BY <1>2, SplitFacts
  <2> HIDE DEF s, l, h, t, w, g
  <2>3. f.lines \o lines = (s \o <<l>>) \o (<<h>> \o t)
    BY <2>2
  <2>4. /\ Tidy(w) /\ Garbage \in Range(w) /\ {l, h} \subseteq Range(f.lines \o lines)
        /\ Range(w) \subseteq Range(f.lines \o lines) \cup {Garbage}
        /\ EntriesIn(w) = {e \in EntriesIn(f.lines \o lines) : e.id \notin g}
    <3>1. Tidy((s \o <<l>>) \o (<<h>> \o t))
      BY <2>3
    <3>2. Merges((s \o <<l>>) \o (<<h>> \o t), (s \o <<Garbage>>) \o t, l, h)
      BY <2>2, <3>1, MergeFacts
    <3>3. Merges(f.lines \o lines, w, l, h)
      BY <2>1, <2>3, <3>2
    <3> QED BY <2>1, <3>3 DEF Merges
  <2>5. g \subseteq Ids(f.lines \o lines)
    <3>1. f.lines \o lines \in Seq(Lines)
      BY JoinFacts
    <3>2. Ids(f.lines \o lines) = {e.id : e \in EntriesIn(f.lines \o lines)}
      BY <3>1, IdsFacts
    <3>3. l.id # 0 => l \in EntriesIn(f.lines \o lines)
      BY <2>2, <2>4, LineFacts DEF EntriesIn
    <3>4. h.id # 0 => h \in EntriesIn(f.lines \o lines)
      BY <2>2, <2>4, LineFacts DEF EntriesIn
    <3> QED BY <2>1, <3>2, <3>3, <3>4
  <2>6. w # <<>>
    <3>1. Garbage \in Range(w)
      BY <2>4
    <3> QED BY <3>1, EmptyFacts
  <2> QED BY <2>4, <2>5, <2>6 DEF w, g
<1> QED BY <1>1, <1>2

-----------------------------------------------------------------------------
(* The file, memory, and what of memory is still to be written.             *)

\* A parent is older than its children, and all are older than n.
Sound(s, n) == \A e \in EntriesIn(s) : e.parent < e.id /\ e.id < n

HasParents(s, lost) == \A e \in EntriesIn(s) : e.parent \in {0} \cup lost \cup Ids(s)

FileOK(lines, lost, n) ==
    /\ Tidy(lines) /\ Sound(lines, n) /\ HasParents(lines, lost)
    /\ Ids(lines) \cap lost = {}

MemOK(es, lost, n) ==
    /\ es \in Seq(Items) /\ es # <<>> /\ es[1] = Header
    /\ \A i \in DOMAIN es : i # 1 => es[i] \in Entries
    /\ InOrder(es) /\ Sound(es, n) /\ HasParents(es, lost)

\* The file and what is still to be written are the entries in memory, in
\* order, but for those that are lost.
Backed(lines, rest, es, lost) ==
    /\ lines \in Seq(Lines) /\ rest \in Seq(Lines)
    /\ Tidy(lines \o rest)
    /\ EntriesIn(lines \o rest) = {e \in EntriesIn(es) : e.id \notin lost}

LEMMA ItemSeqs ==
    /\ \A s \in Seq(Items) : s \in Seq(Lines)
    /\ \A s \in Seq(Entries) : s \in Seq(Items) /\ s \in Seq(Lines)
BY DEF Items, Lines

LEMMA IdMembers ==
    ASSUME NEW s \in Seq(Lines)
    PROVE  \A i : i \in Ids(s) <=> \E e \in EntriesIn(s) : e.id = i
<1>1. Ids(s) = {e.id : e \in EntriesIn(s)}
  BY IdsFacts
<1> QED BY <1>1

\* A new entry at the end of s.
LEMMA AppendFacts ==
    ASSUME NEW s \in Seq(Lines), NEW e \in Entries
    PROVE  /\ Append(s, e) \in Seq(Lines) /\ Append(s, e) = s \o <<e>>
           /\ <<e>> \in Seq(Lines) /\ Tidy(<<e>>) /\ Range(<<e>>) = {e}
           /\ Range(Append(s, e)) = Range(s) \cup {e}
           /\ EntriesIn(Append(s, e)) = EntriesIn(s) \cup {e}
           /\ Ids(Append(s, e)) = Ids(s) \cup {e.id}
<1>1. e \in Lines
  BY DEF Items, Lines
<1>2. Append(s, e) = s \o <<e>>
  BY <1>1, AppendIsConcat
<1>3. <<e>> \in Seq(Lines) /\ Tidy(<<e>>) /\ Range(<<e>>) = {e}
  BY <1>1, SingleFacts
<1>4. s \o <<e>> \in Seq(Lines) /\ Range(s \o <<e>>) = Range(s) \cup Range(<<e>>)
  BY <1>3, JoinFacts
<1>5. EntriesIn(Append(s, e)) = EntriesIn(s) \cup {e}
  BY <1>2, <1>3, <1>4 DEF EntriesIn
<1>6. Ids(s) = {d.id : d \in EntriesIn(s)}
  BY IdsFacts
<1>7. Ids(Append(s, e)) = {d.id : d \in EntriesIn(Append(s, e))}
  BY <1>2, <1>4, IdsFacts
<1> QED BY <1>2, <1>3, <1>4, <1>5, <1>6, <1>7

LEMMA SoundIds ==
    ASSUME NEW s \in Seq(Lines), NEW n \in Nat, Sound(s, n)
    PROVE  Ids(s) \subseteq 1..(n - 1)
<1>1. Ids(s) = {d.id : d \in EntriesIn(s)}
  BY IdsFacts
<1>2. \A d \in EntriesIn(s) : d.id \in 1..MaxId /\ d.id < n /\ MaxId \in Nat
  BY LineFacts DEF Sound, EntriesIn
<1>3. \A d \in EntriesIn(s) : d.id \in 1..(n - 1)
  BY <1>2
<1> QED BY <1>1, <1>3

\* Memory grows by an entry below one of its own.
LEMMA MemGrows ==
    ASSUME NEW es, NEW lost, NEW n \in 1..MaxId, MemOK(es, lost, n),
           NEW e \in Entries, e.id = n, e.parent \in {0} \cup Ids(es)
    PROVE  MemOK(Append(es, e), lost, n + 1)
<1> DEFINE u == Append(es, e)
<1>1. es \in Seq(Lines) /\ es \in Seq(Items) /\ n \in Nat /\ MaxId \in Nat
  BY ItemSeqs, LineFacts DEF MemOK
<1>2. /\ u \in Seq(Lines) /\ EntriesIn(u) = EntriesIn(es) \cup {e} /\ Ids(u) = Ids(es) \cup {n}
      /\ u = es \o <<e>> /\ <<e>> \in Seq(Lines) /\ Tidy(<<e>>)
  BY <1>1, AppendFacts
<1>3. Len(es) \in Nat /\ Len(es) # 0
  BY <1>1 DEF MemOK
<1>4. /\ u \in Seq(Items) /\ u # <<>> /\ u[1] = Header
      /\ \A i \in DOMAIN u : i # 1 => u[i] \in Entries
  <2>1. e \in Items
    BY DEF Items
  <2>2. u \in Seq(Items) /\ u # <<>>
    BY <1>1, <2>1, AppendProperties
  <2>3. /\ DOMAIN u = 1..(Len(es) + 1) /\ DOMAIN es = 1..Len(es) /\ u[Len(es) + 1] = e
        /\ \A i \in 1..Len(es) : u[i] = es[i]
    BY <1>1, <2>1
  <2>4. u[1] = Header
    BY <1>3, <2>3 DEF MemOK
  <2>5. \A i \in DOMAIN u : i # 1 => u[i] \in Entries
    <3> SUFFICES ASSUME NEW i \in 1..(Len(es) + 1), i # 1 PROVE u[i] \in Entries
      BY <2>3
    <3>1. CASE i = Len(es) + 1
      BY <2>3, <3>1
    <3>2. CASE i # Len(es) + 1
      <4>1. i \in 1..Len(es)
        BY <1>3, <3>2
      <4> QED BY <2>3, <4>1 DEF MemOK
    <3> QED BY <3>1, <3>2
  <2> QED BY <2>2, <2>4, <2>5
<1>5. Ids(es) \subseteq 1..(n - 1)
  BY <1>1, SoundIds DEF MemOK
<1>6. e.parent < n /\ e.parent \in Nat
  BY <1>1, <1>5
<1> HIDE DEF u
<1>7. Sound(u, n + 1)
  <2>1. \A d \in EntriesIn(es) : d.parent < d.id /\ d.id < n /\ d.id \in Nat
    BY LineFacts DEF MemOK, Sound, EntriesIn
  <2> QED BY <1>1, <1>2, <1>6, <2>1 DEF Sound
<1>8. HasParents(u, lost)
  BY <1>2 DEF HasParents, MemOK
<1>9. InOrder(u)
  <2> SUFFICES ASSUME NEW i \in DOMAIN u, NEW j \in DOMAIN u, i < j,
                      u[i] \in Entries, u[j] \in Entries
               PROVE  u[i].id < u[j].id
    BY <1>2, OrderFacts
  <2>1. /\ DOMAIN u = 1..(Len(es) + 1) /\ DOMAIN es = 1..Len(es) /\ u[Len(es) + 1] = e
        /\ \A k \in 1..Len(es) : u[k] = es[k]
    BY <1>1 DEF u
  <2>2. i \in DOMAIN es /\ u[i] = es[i]
    BY <1>3, <2>1
  <2>3. CASE j \in DOMAIN es
    <3>1. u[j] = es[j]
      BY <2>1, <2>3
    <3> QED BY <1>1, <2>2, <2>3, <3>1, OrderFacts DEF MemOK
  <2>4. CASE j \notin DOMAIN es
    <3>1. j = Len(es) + 1
      BY <1>3, <2>1, <2>4
    <3>2. u[i] \in EntriesIn(es)
      BY <2>2 DEF EntriesIn, Range
    <3> QED BY <2>1, <3>1, <3>2 DEF MemOK, Sound
  <2> QED BY <2>3, <2>4
<1> QED BY <1>4, <1>7, <1>8, <1>9 DEF MemOK, u

\* The new entry is still to be written.
LEMMA BackedGrows ==
    ASSUME NEW es, NEW lost, NEW n \in 1..MaxId, MemOK(es, lost, n), lost \subseteq 1..(n - 1),
           NEW lines, NEW rest, Backed(lines, rest, es, lost),
           NEW e \in Entries, e.id = n
    PROVE  Backed(lines, Append(rest, e), Append(es, e), lost)
<1>1. /\ es \in Seq(Lines) /\ lines \in Seq(Lines) /\ rest \in Seq(Lines)
      /\ n \in Nat /\ MaxId \in Nat
  BY ItemSeqs, LineFacts DEF MemOK, Backed
<1>2. /\ Append(rest, e) \in Seq(Lines) /\ Append(rest, e) = rest \o <<e>>
      /\ <<e>> \in Seq(Lines) /\ Tidy(<<e>>) /\ Range(<<e>>) = {e}
  BY <1>1, AppendFacts
<1>3. EntriesIn(Append(es, e)) = EntriesIn(es) \cup {e}
  BY <1>1, AppendFacts
<1> DEFINE u == lines \o rest
<1>4. u \in Seq(Lines) /\ Tidy(u) /\ EntriesIn(u) = {d \in EntriesIn(es) : d.id \notin lost}
  BY <1>1, JoinFacts DEF Backed
<1>5. lines \o Append(rest, e) = u \o <<e>>
  BY <1>1, <1>2, JoinAgain
<1> HIDE DEF u
<1>6. EntriesIn(u \o <<e>>) = EntriesIn(u) \cup {e}
  <2>1. EntriesIn(u \o <<e>>) = EntriesIn(u) \cup EntriesIn(<<e>>)
    BY <1>2, <1>4, EntriesConcat
  <2>2. EntriesIn(<<e>>) = {e}
    BY <1>2 DEF EntriesIn
  <2> QED BY <2>1, <2>2
<1>7. Before(u, <<e>>)
  <2>1. \A d \in EntriesIn(u) : d.id < n
    BY <1>4 DEF MemOK, Sound
  <2>2. \A d \in EntriesIn(<<e>>) : d = e
    BY <1>2 DEF EntriesIn
  <2>3. Header \notin Range(<<e>>)
    BY <1>2, LineFacts
  <2> QED BY <2>1, <2>2, <2>3 DEF Before
<1>8. Tidy(u \o <<e>>)
  BY <1>2, <1>4, <1>7, TidyConcat
<1>9. n \notin lost
  BY <1>1
<1>10. EntriesIn(u \o <<e>>) = {d \in EntriesIn(Append(es, e)) : d.id \notin lost}
  BY <1>3, <1>4, <1>6, <1>9
<1> QED BY <1>1, <1>2, <1>5, <1>8, <1>10 DEF Backed

\* An append of a batch of what is still to be written.
Lands(f, batch, whole, rest, es, lost, n) ==
    LET w == Written(f, batch, whole).lines
        g == lost \cup Swallowed(f, batch)
    IN  /\ FileOK(w, g, n) /\ Backed(w, rest, es, g)
        /\ Ids(f.lines) \ g \subseteq Ids(w)
        /\ Swallowed(f, batch) \subseteq 1..(n - 1)
        /\ batch # <<>> => w # <<>>

LEMMA BackedWritten ==
    ASSUME NEW f, f.lines = <<>> => f.clean, NEW whole,
           NEW batch \in Seq(Lines), NEW rest \in Seq(Lines),
           NEW es, NEW lost, NEW n \in Nat, MemOK(es, lost, n),
           Backed(f.lines, batch \o rest, es, lost)
    PROVE  Lands(f, batch, whole, rest, es, lost, n)
<1> DEFINE v == f.lines \o batch
           w == Written(f, batch, whole).lines
           sw == Swallowed(f, batch)
           g == lost \cup sw
<1>1. /\ es \in Seq(Lines) /\ f.lines \in Seq(Lines) /\ InOrder(es)
      /\ Sound(es, n) /\ HasParents(es, lost)
  BY ItemSeqs DEF MemOK, Backed
<1>2. v \in Seq(Lines) /\ f.lines \o (batch \o rest) = v \o rest
  <2>1. v \in Seq(Lines)
    BY <1>1, JoinFacts
  <2>2. (f.lines \o batch) \o rest = f.lines \o (batch \o rest)
    BY <1>1, JoinAgain
  <2> QED BY <2>1, <2>2
<1>3. /\ Tidy(v \o rest)
      /\ EntriesIn(v \o rest) = {e \in EntriesIn(es) : e.id \notin lost}
  BY <1>2 DEF Backed
<1>4. Tidy(v) /\ Tidy(rest) /\ Before(v, rest)
  BY <1>2, <1>3, TidyConcat
<1>5. EntriesIn(v \o rest) = EntriesIn(v) \cup EntriesIn(rest)
  BY <1>2, EntriesConcat
<1>6. /\ Tidy(w) /\ Range(w) \subseteq Range(v) \cup {Garbage}
      /\ EntriesIn(w) = {e \in EntriesIn(v) : e.id \notin sw}
      /\ sw \subseteq Ids(v)
      /\ batch # <<>> => w # <<>>
  BY <1>1, <1>4, WrittenFacts
<1>7. Range(f.lines) \subseteq Range(v)
  BY <1>1, JoinFacts
<1> HIDE DEF v, w, sw
<1>8. w \in Seq(Lines)
  BY <1>6 DEF Tidy
<1>9. /\ \A i : i \in Ids(v) <=> \E e \in EntriesIn(v) : e.id = i
      /\ \A i : i \in Ids(w) <=> \E e \in EntriesIn(w) : e.id = i
      /\ \A i : i \in Ids(es) <=> \E e \in EntriesIn(es) : e.id = i
      /\ \A i : i \in Ids(f.lines) <=> \E e \in EntriesIn(f.lines) : e.id = i
  BY <1>1, <1>2, <1>8, IdMembers
<1> HIDE DEF g
<1>a. \A i \in sw : \E a \in EntriesIn(v) : a.id = i
  BY <1>6, <1>9
<1>g. \A i : i \in g <=> i \in lost \/ i \in sw
  BY DEF g
<1>10. Before(w, rest)
  <2>1. \A a \in EntriesIn(w), b \in EntriesIn(rest) : a.id < b.id
    BY <1>4, <1>6 DEF Before
  <2>2. Header \in Range(rest) => Range(w) \subseteq {Garbage}
    BY <1>4, <1>6 DEF Before
  <2> QED BY <2>1, <2>2 DEF Before
<1>11. Tidy(w \o rest)
  BY <1>4, <1>6, <1>8, <1>10, TidyConcat
<1>12. \A e \in EntriesIn(rest) : e.id \notin sw
  <2> SUFFICES ASSUME NEW e \in EntriesIn(rest), NEW a \in EntriesIn(v), e.id = a.id
               PROVE  FALSE
    BY <1>a
  <2>1. a.id < e.id /\ a.id \in Nat
    BY <1>4, LineFacts DEF Before, EntriesIn
  <2> QED BY <2>1
<1>13. EntriesIn(w \o rest) = EntriesIn(w) \cup EntriesIn(rest)
  BY <1>8, EntriesConcat
<1>14. EntriesIn(w \o rest) = {e \in EntriesIn(es) : e.id \notin g}
  BY <1>3, <1>5, <1>6, <1>12, <1>13, <1>g
<1>15. Sound(w, n)
  BY <1>3, <1>5, <1>6 DEF MemOK, Sound
<1>16. HasParents(w, g)
  <2> SUFFICES ASSUME NEW e \in EntriesIn(w), e.parent # 0, e.parent \notin g
               PROVE  e.parent \in Ids(w)
    BY DEF HasParents
  <2>1. e \in EntriesIn(es) /\ e \in EntriesIn(v)
    BY <1>3, <1>5, <1>6
  <2>2. e.parent \in Ids(es)
    BY <1>1, <1>g, <2>1 DEF HasParents
  <2>3. PICK p \in EntriesIn(es) : p.id = e.parent
    BY <1>9, <2>2
  <2>4. p \in EntriesIn(v) \cup EntriesIn(rest)
    BY <1>3, <1>5, <1>g, <2>3
  <2>5. p \notin EntriesIn(rest)
    <3> SUFFICES ASSUME p \in EntriesIn(rest) PROVE FALSE
      OBVIOUS
    <3>1. e.id < p.id
      BY <1>4, <2>1 DEF Before
    <3>2. e.parent < e.id
      BY <2>1 DEF MemOK, Sound
    <3>3. e.id \in Nat /\ p.id \in Nat
      BY <2>1, <2>3, LineFacts DEF EntriesIn
    <3> QED BY <2>3, <3>1, <3>2, <3>3
  <2>6. p \in EntriesIn(w)
    BY <1>6, <1>g, <2>3, <2>4, <2>5
  <2> QED BY <1>9, <2>3, <2>6
<1>17. Ids(w) \cap g = {}
  BY <1>3, <1>5, <1>6, <1>9, <1>g
<1>18. Ids(f.lines) \ g \subseteq Ids(w)
  <2>1. EntriesIn(f.lines) \subseteq EntriesIn(v)
    BY <1>7 DEF EntriesIn
  <2> QED BY <1>6, <1>9, <1>g, <2>1
<1>19. sw \subseteq 1..(n - 1)
  <2>1. EntriesIn(v) \subseteq EntriesIn(es)
    BY <1>3, <1>5
  <2>2. Ids(es) \subseteq 1..(n - 1)
    BY <1>1, SoundIds DEF MemOK
  <2> SUFFICES ASSUME NEW i \in sw PROVE i \in 1..(n - 1)
    OBVIOUS
  <2>3. PICK a \in EntriesIn(v) : a.id = i
    BY <1>a
  <2>4. a.id \in Ids(es)
    BY <1>9, <2>1
  <2> QED BY <2>2, <2>3, <2>4
<1>20. FileOK(w, g, n) /\ Backed(w, rest, es, g)
  BY <1>6, <1>8, <1>11, <1>14, <1>15, <1>16, <1>17 DEF FileOK, Backed
<1>21. Lands(f, batch, whole, rest, es, lost, n) <=>
         /\ FileOK(w, g, n) /\ Backed(w, rest, es, g)
         /\ Ids(f.lines) \ g \subseteq Ids(w)
         /\ sw \subseteq 1..(n - 1)
         /\ batch # <<>> => w # <<>>
  BY DEF Lands, w, sw, g
<1>22. batch # <<>> => w # <<>>
  BY <1>6
<1> QED BY <1>18, <1>19, <1>20, <1>21, <1>22

-----------------------------------------------------------------------------
(* Reading a file.                                                          *)

\* What a session finds in a tidy file: the header first, then every entry.
LEMMA ReadableFacts ==
    ASSUME NEW f, Tidy(f.lines)
    PROVE  /\ Readable(f) \in Seq(Items) /\ Readable(f) \in Seq(Lines)
           /\ Range(Readable(f)) = Range(f.lines) \cap Items
           /\ EntriesIn(Readable(f)) = EntriesIn(f.lines)
           /\ Ids(Readable(f)) = Ids(f.lines)
           /\ InOrder(Readable(f))
           /\ \A i \in DOMAIN Readable(f) : i # 1 => Readable(f)[i] \in Entries
           /\ Header \in Range(f.lines) => Readable(f) # <<>> /\ Readable(f)[1] = Header
<1> DEFINE r == Readable(f)
           s == f.lines
<1>1. s \in Seq(Lines) /\ InOrder(s) /\ OneHeaderIn(s)
  BY DEF Tidy
<1>2. r = Only(s, Items)
  BY DEF Readable, Items
<1> HIDE DEF r, s
<1>3. /\ r \in Seq(Lines) /\ Range(r) = Range(s) \cap Items
      /\ \A k, l \in DOMAIN r : k < l =>
            \E i, h \in DOMAIN s : i < h /\ r[k] = s[i] /\ r[l] = s[h]
  BY <1>1, <1>2, OnlyFacts
<1>4. \A i \in DOMAIN r : r[i] \in Items
  BY <1>3 DEF Range
<1>5. r \in Seq(Items)
  BY <1>3, <1>4
<1>6. EntriesIn(r) = EntriesIn(s)
  BY <1>3 DEF EntriesIn, Items
<1>7. Ids(r) = Ids(s)
  <2>1. Ids(r) = {e.id : e \in EntriesIn(r)}
    BY <1>3, IdsFacts
  <2>2. Ids(s) = {e.id : e \in EntriesIn(s)}
    BY <1>1, IdsFacts
  <2> QED BY <1>6, <2>1, <2>2
<1>8. InOrder(r)
  <2> SUFFICES ASSUME NEW k \in DOMAIN r, NEW l \in DOMAIN r, k < l,
                      r[k] \in Entries, r[l] \in Entries
               PROVE  r[k].id < r[l].id
    BY <1>3, OrderFacts
  <2>1. PICK i \in DOMAIN s, h \in DOMAIN s : i < h /\ r[k] = s[i] /\ r[l] = s[h]
    BY <1>3
  <2> QED BY <1>1, <2>1, OrderFacts
<1>9. \A k, l \in DOMAIN r : k < l => r[l] # Header
  <2> SUFFICES ASSUME NEW k \in DOMAIN r, NEW l \in DOMAIN r, k < l, r[l] = Header
               PROVE  FALSE
    OBVIOUS
  <2>1. PICK i \in DOMAIN s, h \in DOMAIN s : i < h /\ r[k] = s[i] /\ r[l] = s[h]
    BY <1>3
  <2>2. i \in 1..(h - 1)
    BY <1>1, <2>1
  <2>3. r[k] = Garbage
    BY <1>1, <2>1, <2>2 DEF OneHeaderIn
  <2> QED BY <1>4, <2>3, LineFacts
<1>10. DOMAIN r = 1..Len(r) /\ Len(r) \in Nat
  BY <1>3
<1>11. ASSUME NEW i \in DOMAIN r, i # 1
       PROVE  r[i] \in Entries
  <2>1. 1 \in DOMAIN r /\ 1 < i
    BY <1>10, <1>11
  <2>2. r[i] # Header
    BY <1>9, <2>1
  <2> QED BY <1>4, <2>2 DEF Items
<1>12. ASSUME Header \in Range(s)
       PROVE  r # <<>> /\ r[1] = Header
  <2>1. Header \in Range(r)
    BY <1>3, <1>12, LineFacts
  <2>2. PICK i \in DOMAIN r : r[i] = Header
    BY <2>1 DEF Range
  <2>3. i = 1
    BY <1>11, <2>2, LineFacts
  <2>4. r # <<>>
    BY <1>10, <2>2
  <2> QED BY <2>2, <2>3, <2>4
<1> QED BY <1>3, <1>5, <1>6, <1>7, <1>8, <1>11, <1>12 DEF r, s

\* A file that can be loaded is what its session has in memory.
LEMMA LoadFacts ==
    ASSUME NEW f, NEW lost, NEW n, FileOK(f.lines, lost, n), Load(f) # <<>>
    PROVE  /\ MemOK(Load(f), lost, n) /\ Backed(f.lines, <<>>, Load(f), lost)
           /\ Ids(Load(f)) = Ids(f.lines) /\ Load(f) \in Seq(Lines)
           /\ EntriesIn(Load(f)) = EntriesIn(f.lines)
<1>1. Load(f) = Readable(f) /\ Readable(f) # <<>> /\ Readable(f)[1] = Header
  BY DEF Load
<1> DEFINE r == Readable(f)
<1>2. /\ Tidy(f.lines) /\ Sound(f.lines, n) /\ HasParents(f.lines, lost)
      /\ Ids(f.lines) \cap lost = {} /\ f.lines \in Seq(Lines)
  BY DEF FileOK, Tidy
<1>3. /\ r \in Seq(Items) /\ r \in Seq(Lines)
      /\ EntriesIn(r) = EntriesIn(f.lines) /\ Ids(r) = Ids(f.lines) /\ InOrder(r)
      /\ \A i \in DOMAIN r : i # 1 => r[i] \in Entries
  BY <1>2, ReadableFacts
<1>4. r # <<>> /\ r[1] = Header /\ Load(f) = r
  BY <1>1
<1> HIDE DEF r
<1>5. Sound(r, n) /\ HasParents(r, lost)
  BY <1>2, <1>3 DEF Sound, HasParents
<1>6. MemOK(r, lost, n)
  BY <1>3, <1>4, <1>5 DEF MemOK
<1>7. f.lines \o <<>> = f.lines /\ <<>> \in Seq(Lines)
  BY <1>2, EmptyFacts
<1>8. \A i : i \in Ids(f.lines) <=> \E e \in EntriesIn(f.lines) : e.id = i
  BY <1>2, IdMembers
<1>9. \A e \in EntriesIn(f.lines) : e.id \notin lost
  BY <1>2, <1>8
<1>10. EntriesIn(f.lines) = {e \in EntriesIn(r) : e.id \notin lost}
  BY <1>3, <1>9
<1>11. Backed(f.lines, <<>>, r, lost)
  BY <1>2, <1>7, <1>10 DEF Backed
<1> QED BY <1>3, <1>4, <1>6, <1>11

LEMMA LoadsHeader ==
    ASSUME NEW f, Tidy(f.lines)
    PROVE  Load(f) # <<>> <=> Header \in Range(f.lines)
<1>1. Header \in Range(f.lines) => Readable(f) # <<>> /\ Readable(f)[1] = Header
  BY ReadableFacts
<1>2. ASSUME Load(f) # <<>>
      PROVE  Header \in Range(f.lines)
  <2>1. Readable(f) # <<>> /\ Readable(f)[1] = Header
    BY <1>2 DEF Load
  <2>2. Readable(f) \in Seq(Items) /\ Range(Readable(f)) = Range(f.lines) \cap Items
    BY ReadableFacts
  <2>3. Header \in Range(Readable(f))
    BY <2>1, <2>2 DEF Range
  <2> QED BY <2>2, <2>3
<1> QED BY <1>1, <1>2 DEF Load

\* A session that has nothing but its header.
LEMMA HeaderFacts ==
    ASSUME NEW lost, NEW n
    PROVE  /\ FileOK(<<>>, lost, n) /\ FileOK(<<Header>>, lost, n)
           /\ MemOK(<<Header>>, lost, n)
           /\ Backed(<<>>, <<Header>>, <<Header>>, lost)
           /\ Backed(<<Header>>, <<>>, <<Header>>, lost)
<1> DEFINE h == <<Header>>
<1>1. /\ h \in Seq(Lines) /\ Range(h) = {Header} /\ Tidy(h)
  BY LineFacts, SingleFacts DEF Lines
<1>2. h \in Seq(Items) /\ h # <<>> /\ h[1] = Header /\ DOMAIN h = {1}
  BY LineFacts
<1> HIDE DEF h
<1>3. EntriesIn(h) = {}
  BY <1>1, LineFacts DEF EntriesIn
<1>4. Ids(h) = {}
  BY <1>1, <1>3, IdMembers
<1>5. FileOK(h, lost, n)
  BY <1>1, <1>3, <1>4 DEF FileOK, Sound, HasParents
<1>6. FileOK(<<>>, lost, n)
  BY EmptyFacts DEF FileOK, Sound, HasParents
<1>7. MemOK(h, lost, n)
  BY <1>1, <1>2, <1>3 DEF MemOK, Sound, HasParents, Tidy
<1>8. <<>> \in Seq(Lines) /\ <<>> \o h = h /\ h \o <<>> = h
  BY <1>1, EmptyFacts
<1>9. Backed(<<>>, h, h, lost) /\ Backed(h, <<>>, h, lost)
  BY <1>1, <1>3, <1>8 DEF Backed
<1> QED BY <1>5, <1>6, <1>7, <1>9 DEF h

-----------------------------------------------------------------------------
(* The inductive invariant.                                                 *)

\* What of memory is still to be written: the queue or, before the initial
\* flush has succeeded, what lies beyond the persisted entries.
Rest == IF durable /\ flushed THEN queue ELSE SubSeq(mem, onDisk + 1, Len(mem))

CountInv ==
    /\ up \in BOOLEAN /\ durable \in BOOLEAN /\ flushed \in BOOLEAN /\ flushing \in BOOLEAN
    /\ failures \in Nat /\ faults \in 0..MaxFaults /\ failures <= faults
    /\ crashes \in 0..MaxCrashes

FileShape ==
    /\ file.made \in BOOLEAN /\ file.clean \in BOOLEAN
    /\ ~ file.made => file.lines = <<>>
    /\ file.lines = <<>> => file.clean
    /\ FileOK(file.lines, gone, nextId)
    /\ nextId \in 1..(MaxId + 1) /\ gone \subseteq 1..(nextId - 1)

SavedInv == saved \subseteq 1..(nextId - 1) /\ saved \ gone \subseteq Ids(file.lines)

FileInv == FileShape /\ SavedInv

MemInv ==
    /\ MemOK(mem, gone, nextId)
    /\ Backed(file.lines, Rest, mem, gone)
    /\ leaf \in {0} \cup Ids(mem)
    /\ onDisk \in 0..Len(mem)
    /\ queue \in Seq(Entries) /\ pending \in 0..Len(queue)
    /\ ~ (durable /\ flushed) => queue = <<>>
    /\ ~ durable /\ flushed => onDisk = Len(mem)

DownInv == mem = <<>> /\ leaf = 0 /\ queue = <<>> /\ pending = 0 /\ onDisk = 0

Inv == CountInv /\ FileInv /\ (up => MemInv) /\ (~ up => DownInv)

\* What a file has to be for a session to be opened on it.
Adoptable(f) ==
    /\ f.made \in BOOLEAN /\ f.clean \in BOOLEAN /\ Tidy(f.lines)
    /\ (~ f.made => f.lines = <<>>) /\ (f.lines = <<>> => f.clean)
    /\ nextId' \in 1..(MaxId + 1) /\ saved' \subseteq 1..(nextId' - 1)
    /\ gone' \subseteq 1..(nextId' - 1)
    /\ (Load(f) = <<>> => saved' \subseteq gone')
    /\ (Load(f) # <<>> => FileOK(f.lines, gone', nextId') /\ saved' \ gone' \subseteq Ids(f.lines))

\* Whatever file a session is opened on, it starts in a state of the invariant.
LEMMA AdoptKeeps == ASSUME NEW f, Adoptable(f), Adopt(f) PROVE FileInv' /\ MemInv'
<1>0. /\ f.made \in BOOLEAN /\ f.clean \in BOOLEAN /\ Tidy(f.lines)
      /\ (~ f.made => f.lines = <<>>) /\ (f.lines = <<>> => f.clean)
      /\ nextId' \in 1..(MaxId + 1) /\ saved' \subseteq 1..(nextId' - 1)
      /\ gone' \subseteq 1..(nextId' - 1)
      /\ (Load(f) = <<>> => saved' \subseteq gone')
      /\ (Load(f) # <<>> => FileOK(f.lines, gone', nextId') /\ saved' \ gone' \subseteq Ids(f.lines))
  BY DEF Adoptable
<1>1. queue' = <<>> /\ pending' = 0 /\ queue' \in Seq(Entries) /\ pending' \in 0..Len(queue')
  BY DEF Adopt
<1>2. CASE ~ f.made /\ AdoptMissing
  <2>1. /\ mem' = <<Header>> /\ leaf' = 0 /\ durable' = FALSE /\ flushed' = FALSE /\ onDisk' = 0
        /\ file'.made = FALSE /\ file'.lines = <<>> /\ file'.clean = TRUE
    BY <1>2 DEF AdoptMissing, NoFile
  <2>2. Load(f) = <<>>
    <3>1. Range(f.lines) = {}
      BY <1>0, <1>2, EmptyFacts
    <3> QED BY <1>0, <3>1, LoadsHeader
  <2>3. Rest' = <<Header>>
    <3>1. <<Header>> \in Seq(Lines)
      BY LineFacts, SingleFacts DEF Lines
    <3>2. SubSeq(<<Header>>, 1, Len(<<Header>>)) = <<Header>>
      BY <3>1, SubSeqFull
    <3>3. Rest' = SubSeq(mem', onDisk' + 1, Len(mem'))
      BY <2>1 DEF Rest
    <3> QED BY <2>1, <3>2, <3>3
  <2>4. onDisk' \in 0..Len(mem')
    BY <2>1
  <2>5. FileInv'
    BY <1>0, <2>1, <2>2, HeaderFacts DEF FileInv, FileShape, SavedInv
  <2>6. MemInv'
    BY <1>1, <2>1, <2>3, <2>4, HeaderFacts DEF MemInv
  <2> QED BY <2>5, <2>6
<1>3. CASE f.made /\ Load(f) = <<>> /\ AdoptCorrupt
  <2>1. /\ mem' = <<Header>> /\ leaf' = 0 /\ durable' = FALSE /\ flushed' = TRUE /\ onDisk' = 1
        /\ file'.made = TRUE /\ file'.lines = <<Header>> /\ file'.clean = TRUE
    BY <1>3 DEF AdoptCorrupt, Whole
  <2>2. Rest' = <<>>
    BY <2>1 DEF Rest
  <2>3. onDisk' \in 0..Len(mem') /\ onDisk' = Len(mem') /\ <<Header>> # <<>>
    BY <2>1
  <2>4. FileInv'
    BY <1>0, <1>3, <2>1, <2>3, HeaderFacts DEF FileInv, FileShape, SavedInv
  <2>5. MemInv'
    BY <1>1, <2>1, <2>2, <2>3, HeaderFacts DEF MemInv
  <2> QED BY <2>4, <2>5
<1>4. CASE f.made /\ Load(f) # <<>> /\ AdoptValid(f)
  <2> DEFINE es == Load(f)
  <2>1. /\ mem' = es /\ leaf' = LeafOf(es) /\ flushed' = TRUE /\ onDisk' = Len(es) /\ file' = f
    BY <1>4 DEF AdoptValid
  <2>2. /\ MemOK(es, gone', nextId') /\ Backed(f.lines, <<>>, es, gone') /\ es \in Seq(Lines)
    BY <1>0, <1>4, LoadFacts
  <2> HIDE DEF es
  <2>3. Len(es) \in Nat /\ Len(es) # 0 /\ SubSeq(es, Len(es) + 1, Len(es)) = <<>>
    <3>1. Len(es) \in Nat /\ es # <<>>
      BY <2>2 DEF MemOK
    <3> QED BY <2>2, <3>1, SubSeqEmpty
  <2>4. Rest' = <<>>
    BY <1>1, <2>1, <2>3 DEF Rest
  <2>5. LeafOf(es) \in {0} \cup Ids(es)
    <3>1. Len(es) \in DOMAIN es
      BY <2>2, <2>3
    <3> QED BY <3>1 DEF LeafOf, Last, Ids
  <2>6. onDisk' \in 0..Len(mem') /\ onDisk' = Len(mem')
    BY <2>1, <2>3
  <2>7. FileInv'
    BY <1>0, <1>4, <2>1 DEF FileInv, FileShape, SavedInv
  <2>8. MemInv'
    BY <1>1, <2>1, <2>2, <2>4, <2>5, <2>6 DEF MemInv
  <2> QED BY <2>7, <2>8
<1> QED BY <1>2, <1>3, <1>4 DEF Adopt

-----------------------------------------------------------------------------
(* What the steps share.                                                    *)

\* More lost entries, or more ids given out, keep what holds.
LEMMA Later ==
    ASSUME NEW s, NEW lost, NEW more, lost \subseteq more, NEW n \in Nat, NEW m \in Nat, n <= m
    PROVE  /\ MemOK(s, lost, n) => MemOK(s, more, m)
           /\ FileOK(s, lost, n) => FileOK(s, lost, m)
<1>1. Sound(s, n) => Sound(s, m)
  <2>1. \A e \in EntriesIn(s) : e.id \in Nat
    BY LineFacts DEF EntriesIn
  <2> QED BY <2>1 DEF Sound
<1>2. HasParents(s, lost) => HasParents(s, more)
  BY DEF HasParents
<1> QED BY <1>1, <1>2 DEF MemOK, FileOK

\* When nothing is left to write, the file has every entry that is not lost.
LEMMA AllWritten ==
    ASSUME NEW lines, NEW es \in Seq(Lines), NEW lost, Backed(lines, <<>>, es, lost)
    PROVE  Ids(es) \ lost \subseteq Ids(lines)
<1>1. lines \in Seq(Lines) /\ lines \o <<>> = lines
  BY EmptyFacts DEF Backed
<1>2. EntriesIn(lines) = {e \in EntriesIn(es) : e.id \notin lost}
  BY <1>1 DEF Backed
<1>3. \A i : i \in Ids(es) <=> \E e \in EntriesIn(es) : e.id = i
  BY IdMembers
<1>4. \A i : i \in Ids(lines) <=> \E e \in EntriesIn(lines) : e.id = i
  BY <1>1, IdMembers
<1> QED BY <1>2, <1>3, <1>4

\* The lines of an append land in the file.
LEMMA Landing ==
    ASSUME FileInv, NEW batch \in Seq(Lines), NEW rest \in Seq(Lines), NEW whole \in BOOLEAN,
           NEW es, NEW n \in 1..(MaxId + 1), nextId <= n, MemOK(es, gone, n),
           Backed(file.lines, batch \o rest, es, gone),
           file' = Written(file, batch, whole), gone' = gone \cup Swallowed(file, batch),
           nextId' = n
    PROVE  /\ FileShape' /\ MemOK(es, gone', n) /\ Backed(file'.lines, rest, es, gone')
           /\ saved \subseteq 1..(n - 1) /\ saved \ gone' \subseteq Ids(file'.lines)
<1> DEFINE w == Written(file, batch, whole).lines
<1>1. /\ file.made \in BOOLEAN /\ file.clean \in BOOLEAN /\ (file.lines = <<>> => file.clean)
      /\ FileOK(file.lines, gone, nextId) /\ file.lines \in Seq(Lines)
      /\ nextId \in Nat /\ n \in Nat /\ MaxId \in Nat
      /\ gone \subseteq 1..(nextId - 1) /\ saved \subseteq 1..(nextId - 1)
      /\ saved \ gone \subseteq Ids(file.lines)
  BY LineFacts DEF FileInv, FileShape, SavedInv, FileOK, Tidy
<1>2. Lands(file, batch, whole, rest, es, gone, n)
  BY <1>1, BackedWritten
<1>3. /\ FileOK(w, gone', n) /\ Backed(w, rest, es, gone')
      /\ Ids(file.lines) \ gone' \subseteq Ids(w)
      /\ Swallowed(file, batch) \subseteq 1..(n - 1)
      /\ batch # <<>> => w # <<>>
  BY <1>2 DEF Lands
<1>4. /\ file'.made = TRUE /\ file'.lines = w
      /\ file'.clean = IF batch = <<>> THEN file.clean ELSE whole
  BY DEF Written
<1>5. batch = <<>> => w = file.lines
  <2>1. batch = <<>> => w = file.lines \o <<>>
    BY DEF Written
  <2> QED BY <1>1, <2>1, EmptyFacts
<1> HIDE DEF w
<1>6. file'.lines = <<>> => file'.clean
  BY <1>1, <1>3, <1>4, <1>5
<1>7. file'.clean \in BOOLEAN
  BY <1>1, <1>4
<1>8. 1..(nextId - 1) \subseteq 1..(n - 1)
  BY <1>1
<1>9. gone' \subseteq 1..(n - 1)
  BY <1>1, <1>3, <1>8
<1>10. FileShape'
  BY <1>3, <1>4, <1>6, <1>7, <1>9 DEF FileShape
<1>11. MemOK(es, gone', n)
  BY <1>1, Later
<1>12. saved \subseteq 1..(n - 1)
  BY <1>1, <1>8
<1>13. saved \ gone' \subseteq Ids(file'.lines)
  BY <1>1, <1>3, <1>4
<1> QED BY <1>3, <1>4, <1>10, <1>11, <1>12, <1>13

\* A garbled line makes no difference to what is in a file.
LEMMA GarbageBetween ==
    ASSUME NEW lines, NEW b \in Seq(Lines), NEW r \in Seq(Lines), NEW es, NEW lost,
           Backed(lines, b \o r, es, lost)
    PROVE  Backed(lines, Append(b, Garbage) \o r, es, lost)
<1> DEFINE g == <<Garbage>>
           v == lines \o b
<1>1. /\ g \in Seq(Lines) /\ Range(g) = {Garbage} /\ Tidy(g) /\ lines \in Seq(Lines)
  BY LineFacts, SingleFacts DEF Backed
<1>2. Append(b, Garbage) = b \o g
  BY LineFacts, AppendIsConcat
<1> HIDE DEF g
<1>3. b \o g \in Seq(Lines) /\ (b \o g) \o r \in Seq(Lines) /\ v \in Seq(Lines)
      /\ v \o g \in Seq(Lines) /\ Range(v \o g) = Range(v) \cup {Garbage}
  BY <1>1, JoinFacts
<1>4. lines \o (b \o r) = v \o r
  BY <1>1, JoinAgain
<1>5. lines \o ((b \o g) \o r) = (v \o g) \o r
  <2>1. lines \o ((b \o g) \o r) = (lines \o (b \o g)) \o r
    BY <1>1, <1>3, JoinAgain
  <2>2. lines \o (b \o g) = v \o g
    BY <1>1, JoinAgain
  <2> QED BY <2>1, <2>2
<1>6. Tidy(v \o r) /\ EntriesIn(v \o r) = {e \in EntriesIn(es) : e.id \notin lost}
  BY <1>4 DEF Backed
<1> HIDE DEF v
<1>7. Tidy(v) /\ Tidy(r) /\ Before(v, r)
  BY <1>3, <1>6, TidyConcat
<1>8. EntriesIn(g) = {}
  BY <1>1, LineFacts DEF EntriesIn
<1>9. Before(v, g)
  BY <1>1, <1>8, LineFacts DEF Before
<1>10. Tidy(v \o g)
  BY <1>1, <1>3, <1>7, <1>9, TidyConcat
<1>11. EntriesIn(v \o g) = EntriesIn(v)
  <2>1. EntriesIn(v \o g) = EntriesIn(v) \cup EntriesIn(g)
    BY <1>1, <1>3, EntriesConcat
  <2> QED BY <1>8, <2>1
<1>12. Before(v \o g, r)
  BY <1>3, <1>7, <1>11 DEF Before
<1>13. Tidy((v \o g) \o r)
  BY <1>3, <1>7, <1>10, <1>12, TidyConcat
<1>14. EntriesIn((v \o g) \o r) = EntriesIn(v \o r)
  <2>1. EntriesIn((v \o g) \o r) = EntriesIn(v \o g) \cup EntriesIn(r)
    BY <1>3, EntriesConcat
  <2>2. EntriesIn(v \o r) = EntriesIn(v) \cup EntriesIn(r)
    BY <1>3, EntriesConcat
  <2> QED BY <1>11, <2>1, <2>2
<1> QED BY <1>1, <1>2, <1>3, <1>5, <1>6, <1>13, <1>14 DEF Backed

\* A sequence and its parts.
LEMMA CutFacts ==
    ASSUME NEW S, NEW s \in Seq(S), NEW k \in 0..Len(s)
    PROVE  /\ SubSeq(s, 1, k) \in Seq(S) /\ SubSeq(s, k + 1, Len(s)) \in Seq(S)
           /\ s = SubSeq(s, 1, k) \o SubSeq(s, k + 1, Len(s))
           /\ Len(SubSeq(s, 1, k)) = k
<1>1. Len(s) \in Nat /\ \A i \in 1..Len(s) : s[i] \in S
  OBVIOUS
<1>2. SubSeq(s, 1, k) \in Seq(S) /\ Len(SubSeq(s, 1, k)) = k
  BY <1>1, SubSeqProperties
<1>3. SubSeq(s, k + 1, Len(s)) \in Seq(S)
  BY <1>1, SubSeqProperties
<1>4. SubSeq(s, 1, k) \o SubSeq(s, k + 1, Len(s)) = SubSeq(s, 1, Len(s))
  <2>1. /\ 1 \in 1 .. Len(s) + 1 /\ k \in (1 - 1) .. Len(s) /\ Len(s) \in k .. Len(s)
    BY <1>1
  <2> QED BY <2>1, ConcatAdjacentSubSeq
<1>5. SubSeq(s, 1, Len(s)) = s
  BY SubSeqFull
<1> QED BY <1>2, <1>3, <1>4, <1>5

\* The process dies in the middle of an append of batch.
LEMMA KilledKeeps ==
    ASSUME FileInv, CountInv, NEW batch \in Seq(Lines), NEW rest \in Seq(Lines),
           NEW es, NEW n \in 1..(MaxId + 1), nextId <= n, MemOK(es, gone, n),
           Backed(file.lines, batch \o rest, es, gone),
           Killed(batch), nextId' = n
    PROVE  Inv'
<1>1. /\ up' = FALSE /\ mem' = <<>> /\ leaf' = 0 /\ durable' = FALSE /\ flushed' = FALSE
      /\ onDisk' = 0 /\ queue' = <<>> /\ pending' = 0 /\ flushing' = FALSE
      /\ failures' = 0 /\ faults' = faults /\ saved' = saved /\ crashes' = crashes + 1
      /\ crashes < MaxCrashes
  BY DEF Killed
<1>2. DownInv'
  BY <1>1 DEF DownInv
<1>3. CountInv'
  <2>1. crashes' \in 0..MaxCrashes
    BY <1>1, StoreAssumption DEF CountInv
  <2>2. failures' \in Nat /\ failures' <= faults' /\ faults' \in 0..MaxFaults
    BY <1>1, StoreAssumption DEF CountInv
  <2> QED BY <1>1, <2>1, <2>2 DEF CountInv
<1>4. FileInv'
  <2>1. PICK part \in PartsOf(batch) :
           /\ file' = IF batch = <<>> THEN file ELSE Written(file, part.lines, part.whole)
           /\ gone' = gone \cup Swallowed(file, part.lines)
    BY DEF Killed
  <2>2. /\ part.whole \in BOOLEAN
        /\ part.lines \in Seq(Lines)
        /\ batch = <<>> => part.lines = <<>>
        /\ \E r \in Seq(Lines) : Backed(file.lines, part.lines \o r, es, gone)
    <3>1. ASSUME NEW k \in 0..Len(batch)
          PROVE  /\ SubSeq(batch, 1, k) \in Seq(Lines)
                 /\ \E r \in Seq(Lines) : Backed(file.lines, SubSeq(batch, 1, k) \o r, es, gone)
      <4> DEFINE a == SubSeq(batch, 1, k)
                 b == SubSeq(batch, k + 1, Len(batch))
      <4>1. a \in Seq(Lines) /\ b \in Seq(Lines) /\ batch = a \o b
        BY CutFacts
      <4> HIDE DEF a, b
      <4>2. b \o rest \in Seq(Lines) /\ batch \o rest = a \o (b \o rest)
        BY <4>1, JoinFacts, JoinAgain
      <4> QED BY <4>1, <4>2 DEF a
    <3>2. CASE \E k \in 0..Len(batch) : part = [lines |-> SubSeq(batch, 1, k), whole |-> TRUE]
      <4>1. PICK k \in 0..Len(batch) : part = [lines |-> SubSeq(batch, 1, k), whole |-> TRUE]
        BY <3>2
      <4>2. part.lines = SubSeq(batch, 1, k) /\ part.whole = TRUE
        BY <4>1
      <4>3. batch = <<>> => part.lines = <<>>
        BY <4>2
      <4> QED BY <3>1, <4>2, <4>3
    <3>3. ASSUME NEW k \in DOMAIN batch, NEW line \in {batch[k], Garbage},
                 part = [lines |-> Append(SubSeq(batch, 1, k - 1), line), whole |-> FALSE]
          PROVE  /\ part.whole \in BOOLEAN
                 /\ part.lines \in Seq(Lines)
                 /\ batch # <<>>
                 /\ \E r \in Seq(Lines) : Backed(file.lines, part.lines \o r, es, gone)
      <4>1. /\ part.whole = FALSE /\ part.lines = Append(SubSeq(batch, 1, k - 1), line)
            /\ k \in 1..Len(batch) /\ k - 1 \in 0..Len(batch) /\ k \in 0..Len(batch)
            /\ batch # <<>>
        BY <3>3
      <4>2. CASE line = batch[k]
        <5>1. SubSeq(batch, 1, k) = SubSeq(batch, 1, k - 1) \o <<batch[k]>>
          <6>1. 1 \in 1..Len(batch) /\ k \in 1..Len(batch)
            BY <4>1
          <6> QED BY <6>1, SubSeqRecursiveSecond
        <5>2. SubSeq(batch, 1, k - 1) \in Seq(Lines) /\ batch[k] \in Lines
          BY <3>1, <4>1, ElementOfSeq
        <5>3. Append(SubSeq(batch, 1, k - 1), line) = SubSeq(batch, 1, k)
          BY <4>2, <5>1, <5>2, AppendIsConcat
        <5> QED BY <3>1, <4>1, <5>3
      <4>3. CASE line = Garbage
        <5>1. /\ SubSeq(batch, 1, k - 1) \in Seq(Lines)
              /\ \E r \in Seq(Lines) : Backed(file.lines, SubSeq(batch, 1, k - 1) \o r, es, gone)
          BY <3>1, <4>1
        <5>2. \E r \in Seq(Lines) :
                 Backed(file.lines, Append(SubSeq(batch, 1, k - 1), Garbage) \o r, es, gone)
          BY <5>1, GarbageBetween
        <5>3. Append(SubSeq(batch, 1, k - 1), Garbage) \in Seq(Lines)
          BY <5>1, LineFacts, AppendProperties
        <5> QED BY <4>1, <4>3, <5>2, <5>3
      <4> QED BY <4>2, <4>3
    <3>4. CASE ~ (\E k \in 0..Len(batch) : part = [lines |-> SubSeq(batch, 1, k), whole |-> TRUE])
      <4>1. \E k \in DOMAIN batch : \E line \in {batch[k], Garbage} :
               part = [lines |-> Append(SubSeq(batch, 1, k - 1), line), whole |-> FALSE]
        BY <3>4 DEF PartsOf
      <4> QED BY <3>3, <4>1
    <3> QED BY <3>2, <3>4
  <2>3. PICK r \in Seq(Lines) : Backed(file.lines, part.lines \o r, es, gone)
    BY <2>2
  <2>4. CASE batch # <<>>
    <3>1. file' = Written(file, part.lines, part.whole)
      BY <2>1, <2>4
    <3>2. /\ FileShape' /\ saved \subseteq 1..(n - 1)
          /\ saved \ gone' \subseteq Ids(file'.lines)
      BY <2>1, <2>2, <2>3, <3>1, Landing
    <3> QED BY <1>1, <3>2 DEF FileInv, SavedInv
  <2>5. CASE batch = <<>>
    <3>1. file' = file /\ gone' = gone
      BY <2>1, <2>2, <2>5 DEF Swallowed
    <3>2. nextId \in Nat /\ n \in Nat
      BY LineFacts DEF FileInv, FileShape
    <3>3. FileOK(file.lines, gone, n)
      BY <3>2, Later DEF FileInv, FileShape
    <3>4. 1..(nextId - 1) \subseteq 1..(n - 1)
      BY <3>2
    <3> QED BY <1>1, <3>1, <3>3, <3>4 DEF FileInv, FileShape, SavedInv
  <2> QED BY <2>4, <2>5
<1> QED BY <1>1, <1>2, <1>3, <1>4 DEF Inv


-----------------------------------------------------------------------------
(* The steps of a running session.                                          *)

\* What memory is, and what of the file a session knows.
LEMMA Start == Init => Inv
<1> SUFFICES ASSUME Init PROVE Inv
  OBVIOUS
<1>1. /\ file.made = FALSE /\ file.lines = <<>> /\ file.clean = TRUE /\ up = TRUE
      /\ mem = <<Header>> /\ leaf = 0 /\ durable = FALSE /\ flushed = FALSE /\ onDisk = 0
      /\ queue = <<>> /\ pending = 0 /\ flushing = FALSE /\ failures = 0
      /\ nextId = 1 /\ faults = 0 /\ crashes = 0 /\ saved = {} /\ gone = {}
  BY DEF Init, NoFile
<1>2. CountInv
  <2>1. up \in BOOLEAN /\ durable \in BOOLEAN /\ flushed \in BOOLEAN /\ flushing \in BOOLEAN
    BY <1>1
  <2>2. failures \in Nat /\ faults \in 0..MaxFaults /\ failures <= faults
    BY <1>1, StoreAssumption
  <2>3. crashes \in 0..MaxCrashes
    BY <1>1, StoreAssumption
  <2> QED BY <2>1, <2>2, <2>3 DEF CountInv
<1>3. nextId \in 1..(MaxId + 1) /\ gone \subseteq 1..(nextId - 1) /\ saved \subseteq 1..(nextId - 1)
  BY <1>1, StoreAssumption
<1>4. FileInv
  BY <1>1, <1>3, HeaderFacts DEF FileInv, FileShape, SavedInv
<1>5. Rest = <<Header>>
  <2>1. <<Header>> \in Seq(Lines)
    BY LineFacts, SingleFacts DEF Lines
  <2>2. SubSeq(<<Header>>, 1, Len(<<Header>>)) = <<Header>>
    BY <2>1, SubSeqFull
  <2>3. Rest = SubSeq(mem, onDisk + 1, Len(mem))
    BY <1>1 DEF Rest
  <2> QED BY <1>1, <2>2, <2>3
<1>6. onDisk \in 0..Len(mem) /\ queue \in Seq(Entries) /\ pending \in 0..Len(queue)
  BY <1>1
<1>7. MemInv
  BY <1>1, <1>3, <1>5, <1>6, HeaderFacts DEF MemInv
<1> QED BY <1>1, <1>2, <1>4, <1>7 DEF Inv

LEMMA NewEntryFacts ==
    ASSUME Inv, up, NEW e \in NewEntries, nextId <= MaxId
    PROVE  /\ e \in Entries /\ e.id = nextId /\ e.parent \in {0} \cup Ids(mem)
           /\ nextId \in 1..MaxId
<1>1. /\ leaf \in {0} \cup Ids(mem) /\ Ids(mem) \subseteq 1..MaxId /\ MaxId \in Nat
      /\ nextId \in 1..MaxId
  <2>1. mem \in Seq(Lines)
    BY ItemSeqs DEF Inv, MemInv, MemOK
  <2> QED BY <2>1, IdsFacts, LineFacts DEF Inv, MemInv, FileInv, FileShape
<1>2. leaf \in 0..MaxId
  BY <1>1
<1>3. CASE \E kind \in Kinds \ {"label"} : e = Entry(nextId, leaf, kind, 0)
  BY <1>1, <1>2, <1>3 DEF Entry, Entries
<1>4. CASE \E target \in Ids(mem) : e = Entry(nextId, leaf, "label", target)
  <2>1. PICK target \in Ids(mem) : e = Entry(nextId, leaf, "label", target)
    BY <1>4
  <2>2. target \in 0..MaxId /\ "label" \in Kinds
    BY <1>1, <2>1 DEF Kinds
  <2> QED BY <1>1, <1>2, <2>1, <2>2 DEF Entry, Entries
<1> QED BY <1>3, <1>4 DEF NewEntries

\* What the invariant says of a session that appends e.
Grows(e) ==
    /\ MemOK(Append(mem, e), gone, nextId + 1)
    /\ Backed(file.lines, Append(Rest, e), Append(mem, e), gone)
    /\ Append(mem, e) \in Seq(Lines) /\ Ids(Append(mem, e)) = Ids(mem) \cup {nextId}
    /\ Len(Append(mem, e)) = Len(mem) + 1 /\ Len(mem) \in Nat
    /\ Rest \in Seq(Lines) /\ Append(Rest, e) \in Seq(Lines) /\ mem \in Seq(Lines)
    /\ nextId + 1 \in 1..(MaxId + 1) /\ nextId <= nextId + 1
    /\ e \in Entries /\ e.id = nextId

LEMMA GrowFacts ==
    ASSUME Inv, up, NEW e \in NewEntries, nextId <= MaxId
    PROVE  Grows(e)
<1>1. /\ e \in Entries /\ e.id = nextId /\ e.parent \in {0} \cup Ids(mem)
      /\ nextId \in 1..MaxId
  BY NewEntryFacts
<1>2. /\ MemOK(mem, gone, nextId) /\ Backed(file.lines, Rest, mem, gone)
      /\ gone \subseteq 1..(nextId - 1) /\ MaxId \in Nat
  BY LineFacts DEF Inv, MemInv, FileInv, FileShape
<1>3. mem \in Seq(Lines) /\ Rest \in Seq(Lines)
  BY <1>2, ItemSeqs DEF MemOK, Backed
<1>4. MemOK(Append(mem, e), gone, nextId + 1)
  BY <1>1, <1>2, MemGrows
<1>5. Backed(file.lines, Append(Rest, e), Append(mem, e), gone)
  BY <1>1, <1>2, BackedGrows
<1>6. Append(mem, e) \in Seq(Lines) /\ Ids(Append(mem, e)) = Ids(mem) \cup {nextId}
  BY <1>1, <1>3, AppendFacts
<1>7. Append(Rest, e) \in Seq(Lines)
  BY <1>1, <1>3, AppendFacts
<1>8. Len(Append(mem, e)) = Len(mem) + 1 /\ Len(mem) \in Nat
  BY <1>3
<1>9. nextId + 1 \in 1..(MaxId + 1) /\ nextId <= nextId + 1
  BY <1>1, <1>2
<1> QED BY <1>1, <1>3, <1>4, <1>5, <1>6, <1>7, <1>8, <1>9 DEF Grows

LEMMA AfterFacts ==
    ASSUME Inv, up, NEW e \in Entries
    PROVE  SubSeq(Append(mem, e), onDisk + 1, Len(mem) + 1) \in Seq(Lines)
<1> DEFINE u == Append(mem, e)
<1>1. mem \in Seq(Lines) /\ onDisk \in 0..Len(mem) /\ Len(mem) \in Nat
  BY ItemSeqs DEF Inv, MemInv, MemOK
<1>2. u \in Seq(Lines) /\ Len(u) = Len(mem) + 1
  <2>1. e \in Lines
    BY DEF Items, Lines
  <2> QED BY <1>1, <2>1, AppendProperties
<1> HIDE DEF u
<1>3. \A i \in onDisk + 1 .. Len(mem) + 1 : u[i] \in Lines
  BY <1>1, <1>2
<1>4. onDisk + 1 \in Int /\ Len(mem) + 1 \in Int
  BY <1>1
<1> QED BY <1>3, <1>4, SubSeqProperties DEF u

\* The synchronous append writes what is not on disk, and the new entry.
LEMMA UnwrittenFacts ==
    ASSUME Inv, up, NEW e \in Entries, ~ (durable /\ flushed)
    PROVE  Unwritten(e) = Append(Rest, e) /\ (flushed => Rest = <<>>)
<1> DEFINE u == Append(mem, e)
           k == onDisk
           m == Len(mem)
<1>1. /\ mem \in Seq(Lines) /\ e \in Lines /\ k \in 0..m /\ m \in Nat /\ queue = <<>>
      /\ (flushed => k = m)
  BY ItemSeqs DEF Inv, MemInv, MemOK, Items, Lines
<1>2. /\ u \in Seq(Lines) /\ Len(u) = m + 1 /\ u[m + 1] = e /\ u = mem \o <<e>>
      /\ <<e>> \in Seq(Lines)
  BY <1>1, AppendFacts, AppendProperties
<1>3. Rest = SubSeq(mem, k + 1, m)
  BY <1>1 DEF Rest
<1>4. Unwritten(e) = SubSeq(u, k + 1, m + 1)
  <2>1. SubSeq(u, k + 1, m + 1) \in Seq(Lines)
    BY AfterFacts
  <2>2. Unwritten(e) = <<>> \o SubSeq(u, k + 1, m + 1)
    BY <1>1 DEF Unwritten
  <2> QED BY <2>1, <2>2, EmptyFacts
<1> HIDE DEF u, k, m
<1>5. SubSeq(u, k + 1, m + 1) = SubSeq(u, k + 1, m) \o <<e>>
  <2>1. k + 1 \in 1..Len(u) /\ m + 1 \in k + 1 .. Len(u) /\ (m + 1) - 1 = m
    BY <1>1, <1>2
  <2> QED BY <1>2, <2>1, SubSeqRecursiveSecond
<1>6. SubSeq(u, k + 1, m) = SubSeq(mem, k + 1, m)
  <2>1. CASE k = m
    <3>1. m < k + 1 /\ k + 1 \in Int /\ m \in Int
      BY <1>1, <2>1
    <3> QED BY <3>1, SubSeqEmpty
  <2>2. CASE k # m
    <3>1. k + 1 \in 1..Len(mem) /\ m \in 1..Len(mem)
      BY <1>1, <2>2 DEF m
    <3> QED BY <1>1, <1>2, <3>1, SubSeqOfConcat1
  <2> QED BY <2>1, <2>2
<1>7. Rest \in Seq(Lines)
  BY DEF Inv, MemInv, Backed
<1>8. Append(Rest, e) = Rest \o <<e>>
  BY <1>1, <1>7, AppendIsConcat
<1>9. flushed => Rest = <<>>
  <2>1. flushed => m < k + 1 /\ k + 1 \in Int /\ m \in Int
    BY <1>1
  <2> QED BY <1>3, <2>1, SubSeqEmpty
<1> QED BY <1>3, <1>4, <1>5, <1>6, <1>8, <1>9

\* The counters of a step that fails, or not.
LEMMA Counts ==
    ASSUME CountInv, up' \in BOOLEAN, durable' \in BOOLEAN, flushed' \in BOOLEAN,
           flushing' \in BOOLEAN, crashes' = crashes,
           \/ faults' = faults /\ failures' \in {0, failures}
           \/ faults < MaxFaults /\ faults' = faults + 1 /\ failures' \in {failures, failures + 1, 0}
    PROVE  CountInv'
<1>1. failures' \in Nat /\ faults' \in 0..MaxFaults /\ failures' <= faults'
  BY StoreAssumption DEF CountInv
<1>2. crashes' \in 0..MaxCrashes
  BY DEF CountInv
<1> QED BY <1>1, <1>2 DEF CountInv

\* An append that writes nothing: the file and what is lost stay.
LEMMA SameFile ==
    ASSUME Inv, file' = file, gone' = gone, saved' = saved, nextId' \in 1..(MaxId + 1),
           nextId <= nextId'
    PROVE  FileInv'
<1>1. nextId \in Nat /\ nextId' \in Nat /\ 1..(nextId - 1) \subseteq 1..(nextId' - 1)
  <2>1. nextId \in Nat /\ nextId' \in Nat
    BY LineFacts DEF Inv, FileInv, FileShape
  <2>2. \A n, m \in Nat : n <= m => 1..(n - 1) \subseteq 1..(m - 1)
    OBVIOUS
  <2> QED BY <2>1, <2>2
<1>2. FileOK(file.lines, gone, nextId')
  BY <1>1, Later DEF Inv, FileInv, FileShape
<1>3. gone \subseteq 1..(nextId' - 1) /\ saved \subseteq 1..(nextId' - 1)
  BY <1>1 DEF Inv, FileInv, FileShape, SavedInv
<1> QED BY <1>2, <1>3 DEF Inv, FileInv, FileShape, SavedInv

\* An entry that joins memory and waits.
LEMMA WaitsKeeps ==
    ASSUME Inv, NEW e \in NewEntries, Grow(e),
           file' = file, gone' = gone, saved' = saved, up' = up,
           CountInv', Rest' = Append(Rest, e),
           queue' \in Seq(Entries), pending' \in 0..Len(queue'),
           ~ (durable' /\ flushed') => queue' = <<>>, ~ (~ durable' /\ flushed'),
           onDisk' = onDisk
    PROVE  Inv'
<1>1. /\ up /\ nextId <= MaxId /\ mem' = Append(mem, e) /\ leaf' = e.id /\ nextId' = nextId + 1
  BY DEF Grow
<1>2. Grows(e)
  BY <1>1, GrowFacts
<1>3. FileInv'
  BY <1>1, <1>2, SameFile DEF Grows
<1>4. MemOK(mem', gone', nextId') /\ Backed(file'.lines, Rest', mem', gone')
  BY <1>1, <1>2 DEF Grows
<1>5. leaf' \in {0} \cup Ids(mem')
  BY <1>1, <1>2 DEF Grows
<1>6. onDisk' \in 0..Len(mem')
  <2>1. onDisk \in 0..Len(mem)
    BY <1>1 DEF Inv, MemInv
  <2> QED BY <1>1, <1>2, <2>1 DEF Grows
<1>7. MemInv'
  BY <1>4, <1>5, <1>6 DEF MemInv
<1> QED BY <1>1, <1>3, <1>7 DEF Inv

LEMMA DeferredKeeps == ASSUME Inv, NEW e \in NewEntries, AppendDeferred(e) PROVE Inv'
<1>1. /\ Grow(e) /\ up /\ nextId <= MaxId /\ mem' = Append(mem, e)
      /\ durable = FALSE /\ durable' = FALSE /\ flushed' = FALSE /\ onDisk' = onDisk
      /\ file' = file /\ faults' = faults /\ crashes' = crashes /\ up' = up
      /\ queue' = queue /\ pending' = pending /\ flushing' = flushing
      /\ saved' = saved /\ gone' = gone /\ failures' = failures
  BY DEF AppendDeferred, Grow, fileVars, queueVars, ghosts, Inv, CountInv
<1>2. CountInv'
  BY <1>1, Counts DEF Inv, CountInv
<1>3. Grows(e)
  BY <1>1, GrowFacts
<1>4. e \in Entries /\ queue = <<>> /\ queue \in Seq(Entries) /\ pending \in 0..Len(queue)
  BY <1>1, <1>3 DEF Grows, Inv, MemInv
<1>5. Rest' = Append(Rest, e)
  <2>1. Unwritten(e) = Append(Rest, e)
    BY <1>1, <1>4, UnwrittenFacts
  <2>2. Rest' = SubSeq(mem', onDisk' + 1, Len(mem'))
    BY <1>1 DEF Rest
  <2>3. SubSeq(mem', onDisk' + 1, Len(mem')) = SubSeq(Append(mem, e), onDisk + 1, Len(mem) + 1)
    BY <1>1, <1>3 DEF Grows
  <2>4. Unwritten(e) = <<>> \o SubSeq(Append(mem, e), onDisk + 1, Len(mem) + 1)
    BY <1>4 DEF Unwritten
  <2>5. SubSeq(Append(mem, e), onDisk + 1, Len(mem) + 1) \in Seq(Lines)
    BY <1>1, <1>4, AfterFacts
  <2> QED BY <2>1, <2>2, <2>3, <2>4, <2>5, EmptyFacts
<1> QED BY <1>1, <1>2, <1>4, <1>5, WaitsKeeps

LEMMA FailsKeeps == ASSUME Inv, NEW e \in NewEntries, AppendFails(e) PROVE Inv'
<1>1. /\ Grow(e) /\ Synchronous(e) /\ up /\ nextId <= MaxId /\ mem' = Append(mem, e)
      /\ durable' = TRUE /\ flushed' = FALSE /\ onDisk' = onDisk
      /\ file' = file /\ crashes' = crashes /\ up' = up
      /\ faults < MaxFaults /\ faults' = faults + 1 /\ failures' = failures + 1
      /\ queue' = queue /\ pending' = pending /\ flushing' = flushing
      /\ saved' = saved /\ gone' = gone
  BY DEF AppendFails, Grow, queueVars, ghosts
<1>2. CountInv'
  BY <1>1, Counts DEF Inv, CountInv
<1>3. ~ (durable /\ flushed)
  BY <1>1 DEF Synchronous
<1>4. Grows(e)
  BY <1>1, GrowFacts
<1>5. e \in Entries /\ queue = <<>> /\ queue \in Seq(Entries) /\ pending \in 0..Len(queue)
  BY <1>1, <1>3, <1>4 DEF Grows, Inv, MemInv
<1>6. Rest' = Append(Rest, e)
  <2>1. Unwritten(e) = Append(Rest, e)
    BY <1>1, <1>3, <1>5, UnwrittenFacts
  <2>2. Rest' = SubSeq(mem', onDisk' + 1, Len(mem'))
    BY <1>1 DEF Rest
  <2>3. SubSeq(mem', onDisk' + 1, Len(mem')) = SubSeq(Append(mem, e), onDisk + 1, Len(mem) + 1)
    BY <1>1, <1>4 DEF Grows
  <2>4. Unwritten(e) = <<>> \o SubSeq(Append(mem, e), onDisk + 1, Len(mem) + 1)
    BY <1>5 DEF Unwritten
  <2>5. SubSeq(Append(mem, e), onDisk + 1, Len(mem) + 1) \in Seq(Lines)
    BY <1>1, <1>5, AfterFacts
  <2> QED BY <2>1, <2>2, <2>3, <2>4, <2>5, EmptyFacts
<1> QED BY <1>1, <1>2, <1>5, <1>6, WaitsKeeps

LEMMA QueuedKeeps == ASSUME Inv, NEW e \in NewEntries, AppendQueued(e) PROVE Inv'
<1>1. /\ Grow(e) /\ up /\ nextId <= MaxId /\ durable = TRUE /\ flushed = TRUE
      /\ durable' = TRUE /\ flushed' = TRUE /\ onDisk' = onDisk
      /\ queue' = Append(queue, e)
      /\ pending' = IF pending = 0 THEN Len(queue') ELSE pending
      /\ file' = file /\ faults' = faults /\ crashes' = crashes /\ up' = up
      /\ flushing' = flushing /\ saved' = saved /\ gone' = gone /\ failures' = failures
  BY DEF AppendQueued, Grow, fileVars, flushVars, ghosts, Inv, CountInv
<1>2. CountInv'
  BY <1>1, Counts DEF Inv, CountInv
<1>3. e \in Entries /\ queue \in Seq(Entries) /\ pending \in 0..Len(queue)
  BY <1>1, NewEntryFacts DEF Inv, MemInv
<1>4. queue' \in Seq(Entries) /\ Len(queue') = Len(queue) + 1
  BY <1>1, <1>3, AppendProperties
<1>5. pending' \in 0..Len(queue')
  BY <1>1, <1>3, <1>4
<1>6. Rest' = Append(Rest, e)
  BY <1>1 DEF Rest
<1> QED BY <1>1, <1>2, <1>4, <1>5, <1>6, WaitsKeeps

\* The synchronous append leaves nothing to be written.
LEMMA FlushedKeeps == ASSUME Inv, NEW e \in NewEntries, AppendFlushed(e) PROVE Inv'
<1>1. /\ Grow(e) /\ Synchronous(e) /\ up /\ nextId <= MaxId
      /\ mem' = Append(mem, e) /\ leaf' = e.id /\ nextId' = nextId + 1
      /\ file' = Written(file, Unwritten(e), TRUE)
      /\ durable' = TRUE /\ flushed' = TRUE /\ onDisk' = Len(mem') /\ queue' = <<>>
      /\ failures' = 0 /\ saved' = saved \cup Ids(mem')
      /\ gone' = gone \cup Swallowed(file, Unwritten(e))
      /\ faults' = faults /\ crashes' = crashes /\ up' = up
      /\ pending' = pending /\ flushing' = flushing
  BY DEF AppendFlushed, Grow
<1>2. CountInv'
  BY <1>1, Counts DEF Inv, CountInv
<1>3. ~ (durable /\ flushed)
  BY <1>1 DEF Synchronous
<1>4. Grows(e)
  BY <1>1, GrowFacts
<1>5. queue = <<>> /\ pending = 0
  <2>1. queue = <<>> /\ pending \in 0..Len(queue)
    BY <1>1, <1>3 DEF Inv, MemInv
  <2> QED BY <2>1
<1>6. Unwritten(e) = Append(Rest, e)
  BY <1>1, <1>3, <1>4, UnwrittenFacts DEF Grows
<1> DEFINE u == Unwritten(e)
           es == Append(mem, e)
<1>7. /\ u \in Seq(Lines) /\ u \o <<>> = u /\ Backed(file.lines, u \o <<>>, es, gone)
      /\ MemOK(es, gone, nextId + 1) /\ es \in Seq(Lines)
      /\ nextId + 1 \in 1..(MaxId + 1) /\ nextId <= nextId + 1
  BY <1>4, <1>6, EmptyFacts DEF Grows
<1>8. mem' = es /\ file' = Written(file, u, TRUE) /\ gone' = gone \cup Swallowed(file, u)
  BY <1>1
<1> HIDE DEF u, es
<1>9. /\ FileShape' /\ MemOK(es, gone', nextId + 1) /\ Backed(file'.lines, <<>>, es, gone')
      /\ saved \subseteq 1..((nextId + 1) - 1) /\ saved \ gone' \subseteq Ids(file'.lines)
  <2>1. FileInv /\ <<>> \in Seq(Lines) /\ TRUE \in BOOLEAN
    BY EmptyFacts DEF Inv
  <2> QED BY <1>1, <1>7, <1>8, <2>1, Landing
<1>10. Ids(es) \ gone' \subseteq Ids(file'.lines)
  BY <1>7, <1>9, AllWritten
<1>11. Ids(es) \subseteq 1..((nextId + 1) - 1)
  <2>1. Sound(es, nextId + 1) /\ nextId + 1 \in Nat
    BY <1>7, LineFacts DEF MemOK
  <2> QED BY <1>7, <2>1, SoundIds
<1>12. SavedInv'
  BY <1>1, <1>8, <1>9, <1>10, <1>11 DEF SavedInv
<1>13. Rest' = <<>>
  BY <1>1 DEF Rest
<1>14. /\ queue' \in Seq(Entries) /\ pending' \in 0..Len(queue')
       /\ leaf' \in {0} \cup Ids(mem') /\ onDisk' \in 0..Len(mem')
  <2>1. queue' \in Seq(Entries) /\ pending' \in 0..Len(queue')
    BY <1>1, <1>5
  <2>2. leaf' \in Ids(mem')
    BY <1>1, <1>4 DEF Grows
  <2>3. onDisk' \in 0..Len(mem')
    BY <1>1, <1>4 DEF Grows
  <2> QED BY <2>1, <2>2, <2>3
<1>15. MemInv'
  BY <1>1, <1>8, <1>9, <1>13, <1>14 DEF MemInv
<1> QED BY <1>1, <1>2, <1>9, <1>12, <1>15 DEF Inv, FileInv

\* Steps that leave memory, the file and what is lost alone.
LEMMA SameMemory ==
    ASSUME Inv, up, file' = file, gone' = gone, nextId' = nextId, mem' = mem,
           durable' = durable, flushed' = flushed, onDisk' = onDisk, queue' = queue
    PROVE  /\ FileShape' /\ MemOK(mem', gone', nextId') /\ Backed(file'.lines, Rest', mem', gone')
           /\ onDisk' \in 0..Len(mem') /\ queue' \in Seq(Entries)
           /\ (~ (durable' /\ flushed') => queue' = <<>>)
           /\ (~ durable' /\ flushed' => onDisk' = Len(mem'))
           /\ (leaf' \in {0} \cup Ids(mem) /\ pending' \in 0..Len(queue) => MemInv')
<1>1. FileShape'
  BY DEF Inv, FileInv, FileShape
<1>2. Rest' = Rest
  BY DEF Rest
<1>3. MemInv
  BY DEF Inv
<1>4. MemOK(mem', gone', nextId') /\ Backed(file'.lines, Rest', mem', gone')
  BY <1>2, <1>3 DEF MemInv
<1>5. onDisk' \in 0..Len(mem') /\ queue' \in Seq(Entries)
  BY <1>3 DEF MemInv
<1>6. ~ (durable' /\ flushed') => queue' = <<>>
  BY <1>3 DEF MemInv
<1>7. ~ durable' /\ flushed' => onDisk' = Len(mem')
  BY <1>3 DEF MemInv
<1>8. leaf' \in {0} \cup Ids(mem) /\ pending' \in 0..Len(queue) => MemInv'
  BY <1>4, <1>5, <1>6, <1>7 DEF MemInv
<1> QED BY <1>1, <1>4, <1>5, <1>6, <1>7, <1>8

LEMMA BranchKeeps == ASSUME Inv, Branch PROVE Inv'
<1>1. /\ up /\ leaf' \in {0} \cup Ids(mem)
      /\ file' = file /\ faults' = faults /\ crashes' = crashes /\ up' = up /\ mem' = mem
      /\ nextId' = nextId /\ durable' = durable /\ flushed' = flushed /\ onDisk' = onDisk
      /\ queue' = queue /\ pending' = pending /\ flushing' = flushing /\ failures' = failures
      /\ saved' = saved /\ gone' = gone
  BY DEF Branch, fileVars, flushVars, queueVars, ghosts
<1>2. CountInv' /\ SavedInv'
  BY <1>1 DEF Inv, CountInv, FileInv, SavedInv
<1>3. pending \in 0..Len(queue)
  BY <1>1 DEF Inv, MemInv
<1>4. FileShape' /\ MemInv'
  BY <1>1, <1>3, SameMemory
<1> QED BY <1>1, <1>2, <1>4 DEF Inv, FileInv

LEMMA DrainFailsKeeps == ASSUME Inv, up, DrainFails PROVE Inv'
<1>1. /\ pending' = 0 /\ faults < MaxFaults /\ faults' = faults + 1 /\ failures' = failures + 1
      /\ flushing' = FALSE
      /\ file' = file /\ crashes' = crashes /\ up' = up /\ mem' = mem /\ leaf' = leaf
      /\ nextId' = nextId /\ durable' = durable /\ flushed' = flushed /\ onDisk' = onDisk
      /\ queue' = queue /\ saved' = saved /\ gone' = gone
  BY DEF DrainFails, memVars, flushVars, ghosts
<1>2. CountInv'
  BY <1>1, Counts DEF Inv, CountInv
<1>3. SavedInv'
  BY <1>1 DEF Inv, FileInv, SavedInv
<1>4. leaf' \in {0} \cup Ids(mem) /\ pending' \in 0..Len(queue)
  BY <1>1 DEF Inv, MemInv
<1>5. FileShape' /\ MemInv'
  BY <1>1, <1>4, SameMemory
<1> QED BY <1>1, <1>2, <1>3, <1>5 DEF Inv, FileInv

LEMMA FlushWaitsKeeps == ASSUME Inv, FlushWaits PROVE Inv'
<1>1. /\ up /\ pending' = (IF pending = 0 THEN Len(queue) ELSE pending) /\ flushing' = TRUE
      /\ file' = file /\ faults' = faults /\ crashes' = crashes /\ up' = up /\ mem' = mem
      /\ leaf' = leaf /\ failures' = failures
      /\ nextId' = nextId /\ durable' = durable /\ flushed' = flushed /\ onDisk' = onDisk
      /\ queue' = queue /\ saved' = saved /\ gone' = gone
  BY DEF FlushWaits, fileVars, memVars, flushVars, ghosts
<1>2. CountInv' /\ SavedInv'
  BY <1>1 DEF Inv, CountInv, FileInv, SavedInv
<1>3. leaf' \in {0} \cup Ids(mem) /\ pending' \in 0..Len(queue)
  BY <1>1 DEF Inv, MemInv
<1>4. FileShape' /\ MemInv'
  BY <1>1, <1>3, SameMemory
<1> QED BY <1>1, <1>2, <1>4 DEF Inv, FileInv

\* What an answered flush vouches for is in the file.
LEMMA VouchedFacts ==
    ASSUME flushed, flushed \in BOOLEAN, durable \in BOOLEAN,
           NEW s, NEW lost, NEW n \in Nat, MemOK(mem, lost, n), Backed(s, <<>>, mem, lost),
           saved \subseteq 1..(n - 1), saved \ lost \subseteq Ids(s)
    PROVE  Vouched \subseteq 1..(n - 1) /\ Vouched \ lost \subseteq Ids(s)
<1>1. mem \in Seq(Lines)
  BY ItemSeqs DEF MemOK
<1>2. Ids(mem) \subseteq 1..(n - 1)
  BY <1>1, SoundIds DEF MemOK
<1>3. Ids(mem) \ lost \subseteq Ids(s)
  BY <1>1, AllWritten
<1>4. Vouched = saved \cup Ids(mem)
  BY DEF Vouched
<1> QED BY <1>2, <1>3, <1>4

\* With the initial flush behind, an empty queue leaves nothing to write.
LEMMA NothingLeft ==
    ASSUME Inv, up, queue = <<>>, flushed
    PROVE  Rest = <<>>
<1>1. CASE durable
  BY <1>1 DEF Rest
<1>2. CASE ~ durable
  <2>1. onDisk = Len(mem) /\ mem \in Seq(Items)
    BY <1>2 DEF Inv, MemInv, MemOK
  <2>2. Len(mem) \in Int /\ onDisk + 1 \in Int /\ Len(mem) < onDisk + 1
    BY <2>1
  <2>3. Rest = SubSeq(mem, onDisk + 1, Len(mem))
    BY <1>2 DEF Rest
  <2> QED BY <2>2, <2>3, SubSeqEmpty
<1> QED BY <1>1, <1>2

LEMMA FlushReturnsKeeps == ASSUME Inv, FlushReturns PROVE Inv'
<1>1. /\ up /\ queue = <<>> /\ saved' = Vouched
      /\ file' = file /\ faults' = faults /\ crashes' = crashes /\ up' = up /\ mem' = mem
      /\ leaf' = leaf /\ failures' = failures /\ flushing' = flushing /\ pending' = pending
      /\ nextId' = nextId /\ durable' = durable /\ flushed' = flushed /\ onDisk' = onDisk
      /\ queue' = queue /\ gone' = gone
  BY DEF FlushReturns, fileVars, memVars, flushVars, queueVars
<1>2. CountInv'
  BY <1>1 DEF Inv, CountInv
<1>3. leaf' \in {0} \cup Ids(mem) /\ pending' \in 0..Len(queue)
  BY <1>1 DEF Inv, MemInv
<1>4. FileShape' /\ MemInv'
  BY <1>1, <1>3, SameMemory
<1>5. /\ saved \subseteq 1..(nextId - 1) /\ saved \ gone \subseteq Ids(file.lines)
      /\ nextId \in Nat /\ flushed \in BOOLEAN /\ durable \in BOOLEAN
  BY LineFacts DEF Inv, CountInv, FileInv, FileShape, SavedInv
<1>6. SavedInv'
  <2>1. CASE flushed
    <3>1. MemOK(mem, gone, nextId) /\ Backed(file.lines, <<>>, mem, gone)
      BY <1>1, <2>1, NothingLeft DEF Inv, MemInv
    <3>2. Vouched \subseteq 1..(nextId - 1) /\ Vouched \ gone \subseteq Ids(file.lines)
      BY <1>5, <2>1, <3>1, VouchedFacts
    <3> QED BY <1>1, <3>2 DEF SavedInv
  <2>2. CASE ~ flushed
    BY <1>1, <1>5, <2>2 DEF Vouched, SavedInv
  <2> QED BY <2>1, <2>2
<1> QED BY <1>1, <1>2, <1>4, <1>6 DEF Inv, FileInv

\* One batch of the queue lands in the file.
LEMMA DrainWritesKeeps == ASSUME Inv, up, DrainWrites PROVE Inv'
<1> DEFINE batch == SubSeq(queue, 1, pending)
           rest == SubSeq(queue, pending + 1, Len(queue))
<1>1. /\ pending > 0 /\ file' = Written(file, batch, TRUE) /\ gone' = gone \cup Swallowed(file, batch)
      /\ queue' = rest /\ pending' = Len(rest) /\ flushing' = (flushing /\ rest # <<>>)
      /\ saved' = (IF flushing /\ rest = <<>> THEN Vouched ELSE saved)
      /\ failures' = 0
      /\ faults' = faults /\ crashes' = crashes /\ up' = up /\ mem' = mem /\ leaf' = leaf
      /\ nextId' = nextId /\ durable' = durable /\ flushed' = flushed /\ onDisk' = onDisk
  BY DEF DrainWrites, memVars, flushVars
<1>2. queue \in Seq(Entries) /\ pending \in 0..Len(queue)
  BY DEF Inv, MemInv
<1>3. /\ batch \in Seq(Entries) /\ rest \in Seq(Entries) /\ queue = batch \o rest
  BY <1>2, CutFacts
<1> HIDE DEF batch, rest
<1>4. batch \in Seq(Lines) /\ rest \in Seq(Lines)
  BY <1>3, ItemSeqs
<1>5. durable /\ flushed
  <2>1. queue # <<>>
    BY <1>1, <1>2
  <2> QED BY <2>1 DEF Inv, MemInv
<1>6. /\ MemOK(mem, gone, nextId) /\ Backed(file.lines, batch \o rest, mem, gone)
      /\ nextId \in 1..(MaxId + 1) /\ nextId \in Nat /\ nextId <= nextId /\ FileInv
  <2>1. Rest = batch \o rest
    BY <1>3, <1>5 DEF Rest
  <2>2. nextId \in 1..(MaxId + 1) /\ nextId \in Nat
    BY LineFacts DEF Inv, FileInv, FileShape
  <2> QED BY <2>1, <2>2 DEF Inv, MemInv
<1>7. /\ FileShape' /\ MemOK(mem, gone', nextId) /\ Backed(file'.lines, rest, mem, gone')
      /\ saved \subseteq 1..(nextId - 1) /\ saved \ gone' \subseteq Ids(file'.lines)
  <2>1. TRUE \in BOOLEAN
    OBVIOUS
  <2> QED BY <1>1, <1>4, <1>6, <2>1, Landing
<1>8. CountInv'
  <2>1. flushing' \in BOOLEAN
    BY <1>1
  <2> QED BY <1>1, <2>1, Counts DEF Inv, CountInv
<1>9. SavedInv'
  <2>1. CASE flushing /\ rest = <<>>
    <3>1. saved' = Vouched
      BY <1>1, <2>1
    <3>2. flushed \in BOOLEAN /\ durable \in BOOLEAN
      BY DEF Inv, CountInv
    <3>3. Backed(file'.lines, <<>>, mem, gone')
      BY <1>7, <2>1
    <3>4. Vouched \subseteq 1..(nextId - 1) /\ Vouched \ gone' \subseteq Ids(file'.lines)
      BY <1>5, <1>6, <1>7, <3>2, <3>3, VouchedFacts
    <3> QED BY <1>1, <3>1, <3>4 DEF SavedInv
  <2>2. CASE ~ (flushing /\ rest = <<>>)
    BY <1>1, <1>7, <2>2 DEF SavedInv
  <2> QED BY <2>1, <2>2
<1>10. Rest' = rest
  BY <1>1, <1>5 DEF Rest
<1>11. /\ leaf' \in {0} \cup Ids(mem') /\ onDisk' \in 0..Len(mem')
       /\ queue' \in Seq(Entries) /\ pending' \in 0..Len(queue')
  <2>1. Len(rest) \in 0..Len(rest)
    BY <1>3
  <2> QED BY <1>1, <1>3, <2>1 DEF Inv, MemInv
<1>12. MemInv'
  BY <1>1, <1>5, <1>7, <1>10, <1>11 DEF MemInv
<1> QED BY <1>1, <1>7, <1>8, <1>9, <1>12 DEF Inv, FileInv

\* A crash, with or without an append under way.
LEMMA CrashKeeps == ASSUME Inv, Crash PROVE Inv'
<1> DEFINE batch == SubSeq(queue, 1, pending)
           rest == SubSeq(queue, pending + 1, Len(queue))
<1>1. up /\ Killed(batch) /\ nextId' = nextId
  BY DEF Crash
<1>2. queue \in Seq(Entries) /\ pending \in 0..Len(queue)
  BY <1>1 DEF Inv, MemInv
<1>3. /\ batch \in Seq(Entries) /\ rest \in Seq(Entries) /\ queue = batch \o rest
      /\ Len(batch) = pending
  BY <1>2, CutFacts
<1> HIDE DEF batch, rest
<1>4. batch \in Seq(Lines) /\ rest \in Seq(Lines)
  BY <1>3, ItemSeqs
<1>5. /\ MemOK(mem, gone, nextId) /\ Backed(file.lines, Rest, mem, gone) /\ Rest \in Seq(Lines)
      /\ nextId \in 1..(MaxId + 1) /\ nextId <= nextId /\ FileInv /\ CountInv
  <2>1. nextId \in 1..(MaxId + 1) /\ nextId \in Nat
    BY LineFacts DEF Inv, FileInv, FileShape
  <2> QED BY <1>1, <2>1 DEF Inv, MemInv, Backed
<1>6. PICK r \in Seq(Lines) : Rest = batch \o r
  <2>1. CASE durable /\ flushed
    BY <1>3, <1>4, <2>1 DEF Rest
  <2>2. CASE ~ (durable /\ flushed)
    <3>1. queue = <<>>
      BY <1>1, <2>2 DEF Inv, MemInv
    <3>2. Len(batch) = 0
      BY <1>2, <1>3, <3>1
    <3>3. batch = <<>>
      BY <1>3, <3>2
    <3> QED BY <1>5, <3>3, EmptyFacts
  <2> QED BY <2>1, <2>2
<1>7. Backed(file.lines, batch \o r, mem, gone)
  BY <1>5, <1>6
<1> QED BY <1>1, <1>4, <1>5, <1>7, KilledKeeps

LEMMA CrashInFlushKeeps == ASSUME Inv, CrashInFlush PROVE Inv'
<1>1. PICK e \in NewEntries :
         up /\ nextId <= MaxId /\ Synchronous(e) /\ Killed(Unwritten(e)) /\ nextId' = nextId + 1
  BY DEF CrashInFlush
<1>2. Grows(e)
  BY <1>1, GrowFacts
<1>3. Unwritten(e) = Append(Rest, e)
  <2>1. ~ (durable /\ flushed)
    BY <1>1 DEF Synchronous
  <2> QED BY <1>1, <1>2, <2>1, UnwrittenFacts DEF Grows
<1> DEFINE u == Unwritten(e)
           es == Append(mem, e)
<1>4. /\ u \in Seq(Lines) /\ u \o <<>> = u /\ <<>> \in Seq(Lines)
      /\ Backed(file.lines, u \o <<>>, es, gone)
      /\ MemOK(es, gone, nextId + 1)
      /\ nextId + 1 \in 1..(MaxId + 1) /\ nextId <= nextId + 1
  BY <1>2, <1>3, EmptyFacts DEF Grows
<1>5. Killed(u)
  BY <1>1
<1> HIDE DEF u, es
<1>6. FileInv /\ CountInv
  BY DEF Inv
<1> QED BY <1>1, <1>4, <1>5, <1>6, KilledKeeps

-----------------------------------------------------------------------------
(* A session on a file.                                                     *)

LEMMA AdoptCounts ==
    ASSUME CountInv, NEW f, Adopt(f), up' = TRUE, faults' = faults, crashes' = crashes
    PROVE  CountInv'
<1>1. failures' = 0 /\ flushing' = FALSE
  BY DEF Adopt
<1>2. durable' \in BOOLEAN /\ flushed' \in BOOLEAN
  BY DEF Adopt, AdoptMissing, AdoptCorrupt, AdoptValid
<1> QED BY <1>1, <1>2, Counts

LEMMA OpenKeeps == ASSUME Inv, Open PROVE Inv'
<1>1. /\ up' = TRUE /\ Adopt(file) /\ nextId' = nextId /\ faults' = faults
      /\ crashes' = crashes /\ saved' = saved
      /\ gone' = IF Load(file) = <<>> THEN gone \cup Ids(file.lines) ELSE gone
  BY DEF Open
<1>2. /\ file.made \in BOOLEAN /\ file.clean \in BOOLEAN
      /\ (~ file.made => file.lines = <<>>) /\ (file.lines = <<>> => file.clean)
      /\ FileOK(file.lines, gone, nextId) /\ Tidy(file.lines)
      /\ nextId \in 1..(MaxId + 1) /\ gone \subseteq 1..(nextId - 1)
      /\ saved \subseteq 1..(nextId - 1) /\ saved \ gone \subseteq Ids(file.lines)
  BY DEF Inv, FileInv, FileShape, SavedInv, FileOK
<1>3. Ids(file.lines) \subseteq 1..(nextId - 1)
  <2>1. file.lines \in Seq(Lines) /\ Sound(file.lines, nextId) /\ nextId \in Nat
    BY <1>2, LineFacts DEF FileOK, Tidy
  <2> QED BY <2>1, SoundIds
<1>4. gone' \subseteq 1..(nextId' - 1) /\ saved' \subseteq 1..(nextId' - 1)
      /\ nextId' \in 1..(MaxId + 1)
  BY <1>1, <1>2, <1>3
<1>5. Load(file) = <<>> => saved' \subseteq gone'
  BY <1>1, <1>2
<1>6. Load(file) # <<>> => /\ FileOK(file.lines, gone', nextId')
                           /\ saved' \ gone' \subseteq Ids(file.lines)
  BY <1>1, <1>2
<1>7. FileInv' /\ MemInv'
  <2>1. Adoptable(file)
    BY <1>2, <1>4, <1>5, <1>6 DEF Adoptable
  <2> QED BY <1>1, <2>1, AdoptKeeps
<1>8. CountInv'
  BY <1>1, AdoptCounts DEF Inv
<1> QED BY <1>1, <1>7, <1>8 DEF Inv

-----------------------------------------------------------------------------
(* A session forked from another.                                           *)

LEMMA FilterFacts ==
    ASSUME NEW s \in Seq(Lines), InOrder(s), NEW S
    PROVE  /\ Only(s, S) \in Seq(Lines) /\ Range(Only(s, S)) = Range(s) \cap S
           /\ InOrder(Only(s, S))
<1> DEFINE r == Only(s, S)
<1>1. /\ r \in Seq(Lines) /\ Range(r) = Range(s) \cap S
      /\ \A k, l \in DOMAIN r : k < l =>
            \E i, h \in DOMAIN s : i < h /\ r[k] = s[i] /\ r[l] = s[h]
  BY OnlyFacts
<1> HIDE DEF r
<1>2. InOrder(r)
  <2> SUFFICES ASSUME NEW k \in DOMAIN r, NEW l \in DOMAIN r, k < l,
                      r[k] \in Entries, r[l] \in Entries
               PROVE  r[k].id < r[l].id
    BY <1>1, OrderFacts
  <2>1. PICK i \in DOMAIN s, h \in DOMAIN s : i < h /\ r[k] = s[i] /\ r[l] = s[h]
    BY <1>1
  <2> QED BY <2>1, OrderFacts
<1> QED BY <1>1, <1>2 DEF r

\* The way from an entry to its root holds the parents of its entries.
LEMMA PathFacts ==
    ASSUME NEW es \in Seq(Lines), InOrder(es), NEW id \in Ids(es)
    PROVE  /\ Path(es, id) \in Seq(Lines) /\ InOrder(Path(es, id))
           /\ Range(Path(es, id)) \subseteq EntriesIn(es)
           /\ Ids(Path(es, id)) \subseteq Ids(es)
           /\ \A e \in Range(Path(es, id)) :
                e.parent \in Ids(es) => e.parent \in Ids(Path(es, id))
<1> DEFINE above == Above(es, id)
           path == Path(es, id)
           S == {e \in Range(es) : e.id \in above}
<1>1. above \subseteq Ids(es)
  BY DEF Above
<1>2. /\ Range(es) \subseteq Lines
      /\ \A i : i \in Ids(es) <=> \E e \in EntriesIn(es) : e.id = i
  BY IdMembers DEF Range
<1>3. \A e \in Range(es) : e.id \in Ids(es) => e \in EntriesIn(es)
  <2>1. Ids(es) \subseteq 1..MaxId
    BY IdsFacts
  <2> QED BY <1>2, <2>1, LineFacts DEF EntriesIn
<1>4. ASSUME NEW e \in Range(es), e.id \in above, e.parent \in Ids(es)
      PROVE  e.parent \in above
  <2> SUFFICES ASSUME NEW ids \in SUBSET Ids(es), id \in ids, HoldsParents(es, ids)
               PROVE  e.parent \in ids
    BY <1>4 DEF Above
  <2>1. e.id \in ids
    BY <1>4 DEF Above
  <2> QED BY <1>4, <2>1 DEF HoldsParents
<1>5. path = Only(es, S)
  BY DEF Path
<1>6. path \in Seq(Lines) /\ Range(path) = Range(es) \cap S /\ InOrder(path)
  BY <1>5, FilterFacts
<1>7. \A i : i \in Ids(path) <=> \E e \in EntriesIn(path) : e.id = i
  BY <1>6, IdMembers
<1>8. \A e : e \in Range(path) <=> e \in Range(es) /\ e.id \in above
  BY <1>6
<1> HIDE DEF above, path, S
<1>9. Range(path) \subseteq EntriesIn(es)
  BY <1>1, <1>3, <1>8
<1>10. \A e : e \in EntriesIn(path) <=> e \in EntriesIn(es) /\ e.id \in above
  BY <1>8 DEF EntriesIn
<1>11. \A i : i \in Ids(path) <=> i \in above
  BY <1>1, <1>2, <1>7, <1>10
<1> QED BY <1>1, <1>4, <1>6, <1>8, <1>9, <1>11 DEF path

\* SetToSeq lists the elements of a set.
LEMMA ListedFacts ==
    ASSUME NEW targets, IsFiniteSet(targets)
    PROVE  /\ Cardinality(targets) \in Nat
           /\ \A i \in 1..Cardinality(targets) : SetToSeq(targets)[i] \in targets
<1> DEFINE c == Cardinality(targets)
<1>1. c \in Nat /\ ExistsBijection(1..c, targets)
  BY FS_CardinalityType
<1>2. PICK f \in Bijection(1..c, targets) : TRUE
  BY <1>1 DEF ExistsBijection
<1>3. f \in [1..c -> targets] /\ IsInjective(f)
  BY <1>2 DEF Bijection, Injection
<1>4. SetToSeq(targets) \in [1..c -> targets]
  BY <1>3 DEF SetToSeq
<1> QED BY <1>1, <1>4

\* The labels of the fork: a chain of c new entries below p.
Chain(r, p, c) ==
    /\ c \in Nat /\ DOMAIN r = 1..c /\ r \in Seq(Range(r))
    /\ \A i \in 1..c : r[i] = Entry(nextId + i - 1, IF i = 1 THEN p ELSE nextId + i - 2,
                                    "label", r[i].target)
    /\ \A i \in 1..c : r[i].target \in 1..MaxId
    /\ Ids(r) = nextId..(nextId + c - 1)
    /\ Cardinality(nextId..(nextId + c - 1)) = c

LEMMA RelabelFacts ==
    ASSUME NEW targets, targets \subseteq 1..MaxId, NEW p, nextId \in Nat \ {0}
    PROVE  Chain(Relabels(targets, p), p, Cardinality(targets))
<1> DEFINE c == Cardinality(targets)
           r == Relabels(targets, p)
<1>1. IsFiniteSet(targets)
  <2>1. IsFiniteSet(1..MaxId) /\ MaxId \in Nat
    BY LineFacts, FS_Interval
  <2> QED BY <2>1, FS_Subset
<1>2. c \in Nat /\ \A i \in 1..c : SetToSeq(targets)[i] \in 1..MaxId
  BY <1>1, ListedFacts
<1>3. r = [i \in 1..c |-> Entry(nextId + i - 1, IF i = 1 THEN p ELSE nextId + i - 2, "label",
                                SetToSeq(targets)[i])]
  BY DEF Relabels
<1>4. DOMAIN r = 1..c
  BY <1>3
<1>5. ASSUME NEW i \in 1..c
      PROVE  /\ r[i] = Entry(nextId + i - 1, IF i = 1 THEN p ELSE nextId + i - 2,
                             "label", r[i].target)
             /\ r[i].target \in 1..MaxId /\ r[i].id = nextId + i - 1
  <2>1. r[i] = Entry(nextId + i - 1, IF i = 1 THEN p ELSE nextId + i - 2,
                     "label", SetToSeq(targets)[i])
    BY <1>3
  <2>2. r[i].target = SetToSeq(targets)[i] /\ r[i].id = nextId + i - 1
    BY <2>1 DEF Entry
  <2> QED BY <1>2, <2>1, <2>2
<1>6. r \in Seq(Range(r))
  <2>1. \A i \in 1..c : r[i] \in Range(r)
    BY <1>4 DEF Range
  <2>2. r \in [1..c -> Range(r)]
    BY <1>3, <2>1
  <2> QED BY <1>2, <2>2
<1>7. Ids(r) = nextId..(nextId + c - 1)
  <2>1. \A i \in 1..c : nextId + i - 1 \in nextId..(nextId + c - 1) /\ nextId + i - 1 # 0
    BY <1>2
  <2>2. \A k \in nextId..(nextId + c - 1) : k - nextId + 1 \in 1..c
                                            /\ nextId + (k - nextId + 1) - 1 = k
    BY <1>2
  <2>3. Ids(r) \subseteq nextId..(nextId + c - 1)
    BY <1>4, <1>5, <2>1 DEF Ids
  <2>4. ASSUME NEW k \in nextId..(nextId + c - 1)
        PROVE  k \in Ids(r)
    <3>1. k - nextId + 1 \in DOMAIN r /\ r[k - nextId + 1].id = k /\ k # 0
      BY <1>4, <1>5, <2>2
    <3> QED BY <3>1 DEF Ids
  <2> QED BY <2>3, <2>4
<1>8. Cardinality(nextId..(nextId + c - 1)) = c
  <2>1. nextId \in Int /\ nextId + c - 1 \in Int
    BY <1>2
  <2>2. Cardinality(nextId..(nextId + c - 1)) =
          IF nextId > nextId + c - 1 THEN 0 ELSE (nextId + c - 1) - nextId + 1
    BY <2>1, FS_Interval
  <2> QED BY <1>2, <2>2
<1> HIDE DEF c, r
<1>9. Chain(r, p, c)
  BY <1>2, <1>4, <1>5, <1>6, <1>7, <1>8 DEF Chain
<1> QED BY <1>9 DEF c, r

\* The labels, as lines of a file.
LabelLines(r, p, c) ==
    /\ r \in Seq(Lines) /\ Tidy(r) /\ Header \notin Range(r)
    /\ EntriesIn(r) = Range(r) /\ Ids(r) = nextId..(nextId + c - 1)
    /\ \A e \in Range(r) : /\ nextId <= e.id /\ e.id < nextId + c
                           /\ e.parent < e.id /\ e.parent \in {p} \cup Ids(r)

LEMMA LabelLinesFacts ==
    ASSUME nextId \in Nat \ {0}, NEW p \in 0..(nextId - 1), NEW r, NEW c, Chain(r, p, c),
           nextId + c <= MaxId + 1
    PROVE  LabelLines(r, p, c)
<1>1. /\ c \in Nat /\ DOMAIN r = 1..c
      /\ \A i \in 1..c : r[i] = Entry(nextId + i - 1, IF i = 1 THEN p ELSE nextId + i - 2,
                                      "label", r[i].target)
      /\ \A i \in 1..c : r[i].target \in 1..MaxId
      /\ Ids(r) = nextId..(nextId + c - 1) /\ r \in Seq(Range(r)) /\ MaxId \in Nat
  BY LineFacts DEF Chain
<1>2. ASSUME NEW i \in 1..c
      PROVE  /\ r[i].id = nextId + i - 1
             /\ r[i].parent = IF i = 1 THEN p ELSE nextId + i - 2
             /\ r[i].kind = "label"
  BY <1>1 DEF Entry
<1>3. ASSUME NEW i \in 1..c
      PROVE  r[i] \in Entries
  <2>1. /\ nextId + i - 1 \in 1..MaxId
        /\ (IF i = 1 THEN p ELSE nextId + i - 2) \in 0..MaxId
    BY <1>1
  <2>2. r[i].target \in 0..MaxId /\ "label" \in Kinds
    BY <1>1 DEF Kinds
  <2>3. r[i] = Entry(nextId + i - 1, IF i = 1 THEN p ELSE nextId + i - 2, "label", r[i].target)
    BY <1>1
  <2> QED BY <2>1, <2>2, <2>3 DEF Entry, Entries
<1>4. \A e \in Range(r) : \E i \in 1..c : e = r[i]
  BY <1>1 DEF Range
<1>5. Range(r) \subseteq Entries
  BY <1>3, <1>4
<1>6. r \in Seq(Lines) /\ EntriesIn(r) = Range(r) /\ Header \notin Range(r)
  <2>1. Range(r) \subseteq Lines
    BY <1>5 DEF Lines, Items
  <2>2. r \in Seq(Lines)
    BY <1>1, <2>1
  <2> QED BY <1>5, <2>2, LineFacts DEF EntriesIn
<1>7. \A i, j \in 1..c : i < j => r[i].id < r[j].id
  BY <1>1, <1>2
<1>8. Tidy(r)
  <2>1. InOrder(r)
    BY <1>1, <1>7 DEF InOrder
  <2>2. OneHeaderIn(r)
    BY <1>6 DEF OneHeaderIn, Range
  <2> QED BY <1>6, <2>1, <2>2 DEF Tidy
<1>9. ASSUME NEW i \in 1..c
      PROVE  /\ nextId <= r[i].id /\ r[i].id < nextId + c
             /\ r[i].parent < r[i].id /\ r[i].parent \in {p} \cup Ids(r)
  <2>1. i = 1 => r[i].id = nextId /\ r[i].parent = p /\ p < nextId
    BY <1>2
  <2>2. i # 1 => r[i].parent = nextId + i - 2 /\ nextId + i - 2 \in nextId..(nextId + c - 1)
                 /\ nextId + i - 2 < nextId + i - 1
    BY <1>1, <1>2
  <2>3. nextId <= nextId + i - 1 /\ nextId + i - 1 < nextId + c
    BY <1>1
  <2> QED BY <1>1, <1>2, <2>1, <2>2, <2>3
<1> QED BY <1>1, <1>4, <1>6, <1>8, <1>9 DEF LabelLines

\* The file of the fork: its header, the path without labels, the new labels.
Forks(forked, lost, n) ==
    /\ nextId <= n /\ n \in 1..(MaxId + 1)
    /\ Tidy(forked) /\ Header \in Range(forked) /\ Ids(forked) \subseteq 1..(n - 1)
    /\ lost \subseteq 1..(n - 1)
    /\ FileOK(forked, lost, n)

LEMMA ForkFacts ==
    ASSUME nextId \in 1..(MaxId + 1), gone \subseteq 1..(nextId - 1),
           NEW es, MemOK(es, gone, nextId), Ids(es) \cap gone = {},
           NEW id \in Ids(es), NEW forked, forked = Forked(es, id),
           NEW n, n = nextId + Cardinality(Ids(forked) \ Ids(es)), n <= MaxId + 1,
           NEW lost, lost = gone \cup (Ids(Path(es, id)) \ Ids(forked))
    PROVE  Forks(forked, lost, n)
<1> DEFINE all == Path(es, id)
           path == Only(all, {e \in Range(es) : e.kind # "label"})
           p == IF path = <<>> THEN 0 ELSE Last(path).id
           targets == Labelled(es) \cap Ids(path)
           c == Cardinality(targets)
           r == Relabels(targets, p)
           h == <<Header>>
<1>1. /\ es \in Seq(Lines) /\ InOrder(es) /\ Sound(es, nextId) /\ HasParents(es, gone)
      /\ MaxId \in Nat /\ nextId \in Nat \ {0}
  BY ItemSeqs, LineFacts DEF MemOK
<1>2. Ids(es) \subseteq 1..(nextId - 1) /\ Ids(es) \subseteq 1..MaxId
  BY <1>1, SoundIds, IdsFacts
<1>3. /\ all \in Seq(Lines) /\ InOrder(all) /\ Range(all) \subseteq EntriesIn(es)
      /\ Ids(all) \subseteq Ids(es)
      /\ \A e \in Range(all) : e.parent \in Ids(es) => e.parent \in Ids(all)
  BY <1>1, PathFacts
<1> HIDE DEF all
<1>4. /\ path \in Seq(Lines) /\ Range(path) \subseteq Range(all) /\ InOrder(path)
  BY <1>3, FilterFacts
<1>5. forked = (h \o path) \o r
  BY DEF Forked, all
<1> HIDE DEF path
<1>6. Range(path) \subseteq EntriesIn(es) /\ EntriesIn(path) = Range(path)
  BY <1>3, <1>4 DEF EntriesIn
<1>7. Ids(path) \subseteq Ids(es)
  <2>1. \A i : i \in Ids(path) <=> \E e \in EntriesIn(path) : e.id = i
    BY <1>4, IdMembers
  <2>2. \A i : i \in Ids(es) <=> \E e \in EntriesIn(es) : e.id = i
    BY <1>1, IdMembers
  <2> QED BY <1>6, <2>1, <2>2
<1>8. Header \notin Range(path) /\ Tidy(path)
  <2>1. Header \notin Range(path)
    BY <1>6, LineFacts DEF EntriesIn
  <2>2. OneHeaderIn(path)
    BY <2>1 DEF OneHeaderIn, Range
  <2> QED BY <1>4, <2>1, <2>2 DEF Tidy
<1>9. p \in {0} \cup Ids(path) /\ p \in 0..(nextId - 1)
  <2>1. CASE path = <<>>
    BY <1>1, <2>1
  <2>2. CASE path # <<>>
    <3>1. p = path[Len(path)].id
      BY <2>2 DEF Last
    <3>2. Len(path) \in DOMAIN path
      BY <1>4, <2>2
    <3>3. path[Len(path)] \in EntriesIn(path)
      BY <1>6, <3>2 DEF Range
    <3>4. p \in Ids(path)
      BY <1>4, <3>1, <3>3, IdMembers
    <3> QED BY <1>2, <1>7, <3>4
  <2> QED BY <2>1, <2>2
<1>10. targets \subseteq 1..MaxId
  BY <1>2, <1>7
<1> HIDE DEF p, targets
<1> HIDE DEF c, r
<1>c. Chain(r, p, c)
  BY <1>1, <1>10, RelabelFacts DEF c, r
<1>11. /\ c \in Nat /\ r \in Seq(Range(r)) /\ Ids(r) = nextId..(nextId + c - 1)
       /\ Cardinality(nextId..(nextId + c - 1)) = c
  BY <1>c DEF Chain
<1>12. h \in Seq(Lines) /\ Range(h) = {Header} /\ Tidy(h)
  BY LineFacts, SingleFacts DEF Lines
<1> HIDE DEF h
<1>13. h \o path \in Seq(Lines) /\ Range(h \o path) = {Header} \cup Range(path)
  BY <1>4, <1>12, JoinFacts
<1>14. Range(forked) = {Header} \cup Range(path) \cup Range(r)
  <2> DEFINE T == Lines \cup Range(r)
             hp == h \o path
  <2>1. hp \in Seq(T) /\ r \in Seq(T)
    <3>1. \A s \in Seq(Lines) : s \in Seq(T)
      OBVIOUS
    <3>2. \A s \in Seq(Range(r)) : s \in Seq(T)
      OBVIOUS
    <3> QED BY <1>11, <1>13, <3>1, <3>2
  <2> HIDE DEF T, hp
  <2>2. Range(hp \o r) = Range(hp) \cup Range(r)
    BY <2>1, ConcatFacts
  <2> QED BY <1>5, <1>13, <2>2 DEF hp
<1>15. Ids(forked) = Ids(path) \cup (nextId..(nextId + c - 1))
  <2>1. \A s : Ids(s) = {e.id : e \in Range(s)} \ {0}
    BY DEF Ids, Range
  <2>2. Ids(forked) = {e.id : e \in Range(forked)} \ {0}
    BY <2>1
  <2>3. Ids(path) = {e.id : e \in Range(path)} \ {0}
    BY <2>1
  <2>4. Ids(r) = {e.id : e \in Range(r)} \ {0}
    BY <2>1
  <2>5. Header.id = 0
    BY LineFacts
  <2>6. Ids(forked) = Ids(path) \cup Ids(r)
    BY <1>14, <2>2, <2>3, <2>4, <2>5
  <2> QED BY <1>11, <2>6
<1>16. Ids(forked) \ Ids(es) = nextId..(nextId + c - 1)
  <2>1. \A i \in nextId..(nextId + c - 1) : i \notin 1..(nextId - 1)
    BY <1>1, <1>11
  <2> QED BY <1>2, <1>7, <1>15, <2>1
<1>17. n = nextId + c /\ nextId <= n /\ n \in 1..(MaxId + 1) /\ n \in Nat
  <2>1. n = nextId + c
    BY <1>11, <1>16
  <2> QED BY <1>1, <1>11, <2>1
<1>19. LabelLines(r, p, c)
  <2>1. nextId + c <= MaxId + 1
    BY <1>17
  <2> QED BY <1>1, <1>9, <1>c, <2>1, LabelLinesFacts
<1>20. /\ r \in Seq(Lines) /\ Tidy(r) /\ Header \notin Range(r)
       /\ EntriesIn(r) = Range(r)
       /\ \A e \in Range(r) : /\ nextId <= e.id /\ e.id < n
                              /\ e.parent < e.id /\ e.parent \in {p} \cup Ids(r)
  BY <1>17, <1>19 DEF LabelLines
<1>21. EntriesIn(h \o path) = EntriesIn(path) /\ EntriesIn(forked) = EntriesIn(path) \cup EntriesIn(r)
  BY <1>13, <1>14, LineFacts DEF EntriesIn
<1>22. Tidy(h \o path)
  <2>1. Before(h, path)
    BY <1>8, <1>12, LineFacts DEF Before, EntriesIn
  <2> QED BY <1>4, <1>8, <1>12, <2>1, TidyConcat
<1>23. Tidy(forked)
  <2>1. \A a \in EntriesIn(path) : a.id < nextId /\ a.id \in Nat
    BY <1>1, <1>6, LineFacts DEF Sound, EntriesIn
  <2>2. \A b \in EntriesIn(r) : nextId <= b.id /\ b.id \in Nat
    BY <1>20, LineFacts DEF EntriesIn
  <2>3. \A a \in EntriesIn(path), b \in EntriesIn(r) : a.id < b.id
    BY <1>1, <2>1, <2>2
  <2>4. Before(h \o path, r)
    BY <1>20, <1>21, <2>3 DEF Before
  <2> QED BY <1>5, <1>13, <1>20, <1>22, <2>4, TidyConcat
<1>24. Sound(forked, n)
  <2>1. \A e \in EntriesIn(path) : e.parent < e.id /\ e.id < nextId /\ e.id \in Nat
    BY <1>1, <1>6, LineFacts DEF Sound, EntriesIn
  <2>2. \A e \in EntriesIn(path) : e.parent < e.id /\ e.id < n
    BY <1>1, <1>17, <2>1
  <2> QED BY <1>20, <1>21, <2>2 DEF Sound
<1>25. HasParents(forked, lost)
  <2> SUFFICES ASSUME NEW e \in EntriesIn(path) \cup EntriesIn(r), e.parent # 0
               PROVE  e.parent \in lost \cup Ids(forked)
    BY <1>21 DEF HasParents
  <2>1. CASE e \in EntriesIn(path)
    <3>1. e \in EntriesIn(es) /\ e \in Range(all)
      BY <1>4, <1>6, <2>1
    <3>2. e.parent \in gone \cup Ids(es)
      BY <1>1, <3>1 DEF HasParents
    <3>3. CASE e.parent \in Ids(es)
      <4>1. e.parent \in Ids(all)
        BY <1>3, <3>1, <3>3
      <4> QED BY <4>1 DEF all
    <3> QED BY <3>2, <3>3
  <2>2. CASE e \in EntriesIn(r)
    BY <1>9, <1>11, <1>15, <1>20, <2>2
  <2> QED BY <2>1, <2>2
<1>26. lost \subseteq 1..(n - 1) /\ Ids(forked) \subseteq 1..(n - 1)
  <2>1. 1..(nextId - 1) \subseteq 1..(n - 1) /\ nextId..(nextId + c - 1) \subseteq 1..(n - 1)
    <3>1. \A a \in Nat \ {0}, b \in Nat :
             1..(a - 1) \subseteq 1..(a + b - 1) /\ a..(a + b - 1) \subseteq 1..(a + b - 1)
      OBVIOUS
    <3>2. n - 1 = nextId + c - 1
      BY <1>1, <1>11, <1>17
    <3> QED BY <1>1, <1>11, <3>1, <3>2
  <2>2. lost \subseteq gone \cup Ids(all)
    BY DEF all
  <2> QED BY <1>2, <1>3, <1>7, <1>15, <2>1, <2>2
<1>27. Ids(forked) \cap lost = {}
  <2>1. Ids(forked) \cap gone = {}
    <3>1. \A i \in nextId..(nextId + c - 1) : i \notin 1..(nextId - 1)
      BY <1>1, <1>11
    <3> QED BY <1>7, <1>15, <3>1
  <2> QED BY <2>1
<1>28. FileOK(forked, lost, n)
  BY <1>23, <1>24, <1>25, <1>27 DEF FileOK
<1> QED BY <1>14, <1>17, <1>23, <1>26, <1>28 DEF Forks

LEMMA ForkKeeps == ASSUME Inv, Fork PROVE Inv'
<1> DEFINE es == Load(file)
<1>1. PICK id \in Ids(es) :
        /\ nextId' = nextId + Cardinality(Ids(Forked(es, id)) \ Ids(es))
        /\ nextId' <= MaxId + 1
        /\ IF \E e \in Range(Forked(es, id)) : IsDurable(e)
           THEN Adopt(Whole(Forked(es, id))) /\ saved' = Ids(Forked(es, id))
           ELSE Adopt(NoFile) /\ saved' = {}
        /\ gone' = gone \cup (Ids(Path(es, id)) \ Ids(Forked(es, id)))
  BY DEF Fork
<1>2. up' = TRUE /\ faults' = faults /\ crashes' = crashes
  BY DEF Fork, Inv, CountInv
<1>3. es # <<>>
  <2>1. es = <<>> => Ids(es) = {}
    BY EmptyFacts
  <2> QED BY <1>1, <2>1
<1>4. /\ nextId \in 1..(MaxId + 1) /\ gone \subseteq 1..(nextId - 1)
      /\ FileOK(file.lines, gone, nextId)
  BY DEF Inv, FileInv, FileShape
<1>5. MemOK(es, gone, nextId) /\ Ids(es) \cap gone = {}
  BY <1>3, <1>4, LoadFacts DEF FileOK
<1> HIDE DEF es
<1> DEFINE forked == Forked(es, id)
<1>6. Forks(forked, gone', nextId')
  BY <1>1, <1>4, <1>5, ForkFacts
<1>7. /\ nextId' \in 1..(MaxId + 1) /\ gone' \subseteq 1..(nextId' - 1)
      /\ Tidy(forked) /\ Header \in Range(forked) /\ Ids(forked) \subseteq 1..(nextId' - 1)
      /\ FileOK(forked, gone', nextId')
  BY <1>6 DEF Forks
<1>8. \/ Adopt(Whole(forked)) /\ saved' = Ids(forked)
      \/ Adopt(NoFile) /\ saved' = {}
  BY <1>1
<1> HIDE DEF forked
<1>9. CASE Adopt(Whole(forked)) /\ saved' = Ids(forked)
  <2>1. Whole(forked).made = TRUE /\ Whole(forked).clean = TRUE /\ Whole(forked).lines = forked
    BY DEF Whole
  <2>2. PICK f : f.made = TRUE /\ f.clean = TRUE /\ f.lines = forked /\ Adopt(f)
    BY <1>9, <2>1
  <2>3. Load(f) # <<>>
    BY <1>7, <2>2, LoadsHeader
  <2>4. FileInv' /\ MemInv'
    <3>1. /\ f.made \in BOOLEAN /\ f.clean \in BOOLEAN /\ Tidy(f.lines)
          /\ (~ f.made => f.lines = <<>>) /\ (f.lines = <<>> => f.clean)
          /\ saved' \subseteq 1..(nextId' - 1)
      BY <1>7, <1>9, <2>2
    <3>2. Load(f) = <<>> => saved' \subseteq gone'
      BY <2>3
    <3>3. Load(f) # <<>> => FileOK(f.lines, gone', nextId') /\ saved' \ gone' \subseteq Ids(f.lines)
      BY <1>7, <1>9, <2>2
    <3>4. nextId' \in 1..(MaxId + 1) /\ gone' \subseteq 1..(nextId' - 1)
      BY <1>7
    <3>5. Adopt(f)
      BY <2>2
    <3> QED BY <3>1, <3>2, <3>3, <3>4, <3>5, AdoptKeeps DEF Adoptable
  <2>5. CountInv'
    BY <1>2, <2>2, AdoptCounts DEF Inv
  <2> QED BY <1>2, <2>4, <2>5 DEF Inv
<1>10. CASE Adopt(NoFile) /\ saved' = {}
  <2>1. NoFile.made = FALSE /\ NoFile.clean = TRUE /\ NoFile.lines = <<>>
    BY DEF NoFile
  <2>2. PICK f : f.made = FALSE /\ f.clean = TRUE /\ f.lines = <<>> /\ Adopt(f)
    BY <1>10, <2>1
  <2>3. Load(f) = <<>> /\ Tidy(f.lines)
    <3>1. Tidy(f.lines) /\ Range(f.lines) = {}
      BY <2>2, EmptyFacts
    <3> QED BY <3>1, LoadsHeader
  <2>4. FileInv' /\ MemInv'
    <3>1. /\ f.made \in BOOLEAN /\ f.clean \in BOOLEAN
          /\ (~ f.made => f.lines = <<>>) /\ (f.lines = <<>> => f.clean)
          /\ saved' \subseteq 1..(nextId' - 1)
      BY <1>10, <2>2
    <3>2. Load(f) = <<>> => saved' \subseteq gone'
      BY <1>10
    <3>3. Load(f) # <<>> => FileOK(f.lines, gone', nextId') /\ saved' \ gone' \subseteq Ids(f.lines)
      BY <2>3
    <3>4. nextId' \in 1..(MaxId + 1) /\ gone' \subseteq 1..(nextId' - 1)
      BY <1>7
    <3>5. Adopt(f) /\ Tidy(f.lines)
      BY <2>2, <2>3
    <3> QED BY <3>1, <3>2, <3>3, <3>4, <3>5, AdoptKeeps DEF Adoptable
  <2>5. CountInv'
    BY <1>2, <2>2, AdoptCounts DEF Inv
  <2> QED BY <1>2, <2>4, <2>5 DEF Inv
<1> QED BY <1>8, <1>9, <1>10

-----------------------------------------------------------------------------
(* The theorems.                                                            *)

LEMMA Preserved == Inv /\ [Next]_vars => Inv'
<1> SUFFICES ASSUME Inv, [Next]_vars PROVE Inv'
  OBVIOUS
<1>1. ASSUME NEW e \in NewEntries, AppendDeferred(e) PROVE Inv'
  BY <1>1, DeferredKeeps
<1>2. ASSUME NEW e \in NewEntries, AppendFlushed(e) PROVE Inv'
  BY <1>2, FlushedKeeps
<1>3. ASSUME NEW e \in NewEntries, AppendFails(e) PROVE Inv'
  BY <1>3, FailsKeeps
<1>4. ASSUME NEW e \in NewEntries, AppendQueued(e) PROVE Inv'
  BY <1>4, QueuedKeeps
<1>5. CASE AppendEntry
  BY <1>1, <1>2, <1>3, <1>4, <1>5 DEF AppendEntry
<1>6. CASE Branch
  BY <1>6, BranchKeeps
<1>7. pending > 0 => up
  <2>1. up \in BOOLEAN /\ (~ up => pending = 0)
    BY DEF Inv, CountInv, DownInv
  <2> QED BY <2>1
<1>8. CASE DrainWrites
  <2>1. up
    BY <1>7, <1>8 DEF DrainWrites
  <2> QED BY <1>8, <2>1, DrainWritesKeeps
<1>9. CASE DrainFails
  <2>1. up
    BY <1>7, <1>9 DEF DrainFails
  <2> QED BY <1>9, <2>1, DrainFailsKeeps
<1>10. CASE FlushWaits
  BY <1>10, FlushWaitsKeeps
<1>11. CASE FlushReturns
  BY <1>11, FlushReturnsKeeps
<1>12. CASE Crash
  BY <1>12, CrashKeeps
<1>13. CASE CrashInFlush
  BY <1>13, CrashInFlushKeeps
<1>14. CASE Open
  BY <1>14, OpenKeeps
<1>15. CASE Fork
  BY <1>15, ForkKeeps
<1>16. CASE UNCHANGED vars
  <2>1. /\ file' = file /\ faults' = faults /\ crashes' = crashes /\ up' = up /\ mem' = mem
        /\ leaf' = leaf /\ nextId' = nextId /\ durable' = durable /\ flushed' = flushed
        /\ onDisk' = onDisk /\ queue' = queue /\ pending' = pending /\ flushing' = flushing
        /\ failures' = failures /\ saved' = saved /\ gone' = gone
    BY <1>16 DEF vars, fileVars, memVars, flushVars, queueVars, ghosts
  <2>2. CountInv'
    BY <2>1 DEF Inv, CountInv
  <2>3. SavedInv' /\ FileShape'
    BY <2>1 DEF Inv, FileInv, SavedInv, FileShape
  <2>4. CASE up
    <3>1. leaf' \in {0} \cup Ids(mem) /\ pending' \in 0..Len(queue)
      BY <2>1, <2>4 DEF Inv, MemInv
    <3>2. MemInv'
      BY <2>1, <2>4, <3>1, SameMemory
    <3> QED BY <2>1, <2>2, <2>3, <2>4, <3>2 DEF Inv, FileInv
  <2>5. CASE ~ up
    <3>1. DownInv'
      BY <2>1, <2>5 DEF Inv, DownInv
    <3> QED BY <2>1, <2>2, <2>3, <2>5, <3>1 DEF Inv, FileInv
  <2> QED BY <2>4, <2>5
<1> QED BY <1>5, <1>6, <1>8, <1>9, <1>10, <1>11, <1>12, <1>13, <1>14, <1>15, <1>16 DEF Next

\* A session, its queue and its file keep to one another through appends that
\* fail, crashes in the middle of a write, resumed and forked sessions.
THEOREM Invariance == Spec => []Inv
<1>1. Init => Inv
  BY Start
<1>2. Inv /\ [Next]_vars => Inv'
  BY Preserved
<1> QED BY <1>1, <1>2, PTL DEF Spec

\* SessionManager: every field keeps its type, and the drain takes lines of
\* the queue.
THEOREM TypeCorrect == Spec => []TypeOK
<1>1. ASSUME Inv
      PROVE  TypeOK
  <2>1. /\ file.made \in BOOLEAN /\ file.clean \in BOOLEAN
        /\ file.lines \in Seq(Entries \cup {Header, Garbage})
    <3>1. Lines = Entries \cup {Header, Garbage}
      BY DEF Lines, Items
    <3> QED BY <1>1, <3>1 DEF Inv, FileInv, FileShape, FileOK, Tidy
  <2>2. /\ {up, durable, flushed, flushing} \subseteq BOOLEAN
        /\ faults \in 0..MaxFaults /\ crashes \in 0..MaxCrashes
    BY <1>1 DEF Inv, CountInv
  <2>3. failures \in 0..MaxFaults
    BY <1>1, StoreAssumption DEF Inv, CountInv
  <2>4. nextId \in 1..(MaxId + 1) /\ saved \subseteq 1..MaxId /\ gone \subseteq 1..MaxId
    <3>1. /\ nextId \in 1..(MaxId + 1) /\ saved \subseteq 1..(nextId - 1)
          /\ gone \subseteq 1..(nextId - 1)
      BY <1>1 DEF Inv, FileInv, FileShape, SavedInv
    <3>2. 1..(nextId - 1) \subseteq 1..MaxId
      BY <3>1, StoreAssumption
    <3> QED BY <3>1, <3>2
  <2>5. /\ mem \in Seq(Items) /\ leaf \in 0..MaxId /\ queue \in Seq(Entries)
        /\ pending \in 0..Len(queue) /\ onDisk \in Nat
    <3>1. CASE up
      <4>1. MemInv
        BY <1>1, <3>1 DEF Inv
      <4>2. mem \in Seq(Items) /\ mem \in Seq(Lines)
        BY <4>1, ItemSeqs DEF MemInv, MemOK
      <4>3. Ids(mem) \subseteq 1..MaxId /\ MaxId \in Nat
        BY <4>2, IdsFacts, LineFacts
      <4>4. leaf \in 0..MaxId
        BY <4>1, <4>3 DEF MemInv
      <4>5. onDisk \in Nat
        BY <4>1, <4>2 DEF MemInv
      <4> QED BY <4>1, <4>2, <4>4, <4>5 DEF MemInv
    <3>2. CASE ~ up
      <4>1. mem = <<>> /\ leaf = 0 /\ queue = <<>> /\ pending = 0 /\ onDisk = 0
        BY <1>1, <3>2 DEF Inv, DownInv
      <4> QED BY <4>1, StoreAssumption
    <3> QED BY <3>1, <3>2
  <2> QED BY <2>1, <2>2, <2>3, <2>4, <2>5 DEF TypeOK, Items
<1> QED BY <1>1, Invariance, PTL

\* _persist, _drainQueue and setSessionFile: once the initial flush has
\* succeeded, the file followed by the queue is memory, every entry once and
\* in order, but for what a torn line swallowed; and there is one header.
THEOREM FileFollowsMemory == Spec => []WrittenOnceInOrder
<1>1. ASSUME Inv
      PROVE  WrittenOnceInOrder
  <2>1. OneHeader
    BY <1>1 DEF Inv, FileInv, FileShape, FileOK, Tidy, OneHeaderIn, OneHeader
  <2>2. ASSUME up, flushed, durable
        PROVE  /\ InOrder(mem) /\ InOrder(file.lines \o queue)
               /\ {e \in Range(file.lines \o queue) : e.id \notin gone \cup {0}} =
                    {e \in Range(mem) : e.id \notin gone \cup {0}}
    <3> DEFINE w == file.lines \o queue
    <3>1. /\ mem \in Seq(Lines) /\ InOrder(mem) /\ file.lines \in Seq(Lines)
          /\ queue \in Seq(Lines) /\ Backed(file.lines, queue, mem, gone)
      <4>1. Rest = queue
        BY <2>2 DEF Rest
      <4> QED BY <1>1, <2>2, <4>1, ItemSeqs DEF Inv, MemInv, MemOK, Backed
    <3>2. w \in Seq(Lines)
      BY <3>1, JoinFacts
    <3>3. InOrder(w) /\ EntriesIn(w) = {e \in EntriesIn(mem) : e.id \notin gone}
      BY <3>1 DEF Backed, Tidy
    <3> HIDE DEF w
    <3>4. \A s \in Seq(Lines) : \A e \in Range(s) : e \in Lines
      BY DEF Range
    <3>5. \A s \in Seq(Lines) : \A e \in Range(s) : e \in EntriesIn(s) <=> e.id # 0
      BY <3>4, LineFacts DEF EntriesIn
    <3>6. \A e : e \in EntriesIn(w) => e \in Range(w) /\ e.id # 0
      BY <3>2, <3>5 DEF EntriesIn
    <3>7. \A e : e \in EntriesIn(mem) => e \in Range(mem) /\ e.id # 0
      BY <3>1, <3>5 DEF EntriesIn
    <3>8. ASSUME NEW e
          PROVE  e \in Range(w) /\ e.id \notin gone \cup {0} <=>
                   e \in Range(mem) /\ e.id \notin gone \cup {0}
      BY <3>1, <3>2, <3>3, <3>5, <3>6, <3>7
    <3>9. {e \in Range(w) : e.id \notin gone \cup {0}} =
            {e \in Range(mem) : e.id \notin gone \cup {0}}
      BY <3>8
    <3> QED BY <3>1, <3>3, <3>9 DEF w
  <2> QED BY <2>1, <2>2 DEF WrittenOnceInOrder
<1> QED BY <1>1, Invariance, PTL

\* prompt() awaits flushWrites(): what an answered flush covered is in the
\* file ever after, but for a line that a torn one swallowed.
THEOREM AnsweredIsKept == Spec => []SavedSurvives
<1>1. ASSUME Inv
      PROVE  SavedSurvives
  <2>1. Tidy(file.lines) /\ saved \ gone \subseteq Ids(file.lines)
    BY <1>1 DEF Inv, FileInv, FileShape, SavedInv, FileOK
  <2>2. Ids(Readable(file)) = Ids(file.lines)
    BY <2>1, ReadableFacts
  <2> QED BY <2>1, <2>2 DEF SavedSurvives
<1> QED BY <1>1, Invariance, PTL

\* A running or resumed session has the parent of every entry before it,
\* but for what a torn line swallowed and what a fork left out.
THEOREM TreeIsKept == Spec => []ParentsKept
<1>1. ASSUME Inv
      PROVE  ParentsKept
  <2> SUFFICES ASSUME NEW i \in DOMAIN mem,
                      mem[i].parent # 0, mem[i].parent \notin gone
               PROVE  mem[i].parent \in Ids(SubSeq(mem, 1, i - 1))
    BY DEF ParentsKept
  <2>1. up
    <3>1. ~ up => mem = <<>>
      BY <1>1 DEF Inv, DownInv
    <3> QED BY <3>1
  <2>2. MemOK(mem, gone, nextId)
    BY <1>1, <2>1 DEF Inv, MemInv
  <2>3. mem \in Seq(Lines) /\ mem \in Seq(Items) /\ DOMAIN mem = 1..Len(mem) /\ Len(mem) \in Nat
    BY <2>2, ItemSeqs DEF MemOK
  <2>4. mem[i] \in EntriesIn(mem)
    <3>1. Header.parent = 0
      BY DEF Header, Entry
    <3>2. mem[i] # Header /\ mem[i] \in Items
      BY <2>3, <3>1
    <3> QED BY <3>2 DEF EntriesIn, Range, Items
  <2>5. mem[i].parent \in Ids(mem)
    BY <2>2, <2>4 DEF MemOK, HasParents
  <2>6. PICK j \in DOMAIN mem : mem[j].id = mem[i].parent
    BY <2>5 DEF Ids
  <2>7. mem[j] \in Entries
    <3>1. mem[j] \in Items /\ mem[j].id # 0
      BY <2>3, <2>6
    <3> QED BY <3>1, LineFacts DEF Items
  <2>8. mem[j].id < mem[i].id
    BY <2>2, <2>4, <2>6 DEF MemOK, Sound
  <2>9. j < i
    <3>1. i < j => mem[i].id < mem[j].id
      BY <2>2, <2>3, <2>4, <2>7, OrderFacts DEF MemOK, EntriesIn
    <3>2. i # j
      BY <2>4, <2>6, <2>8, LineFacts DEF EntriesIn
    <3>3. mem[i].id \in Nat /\ mem[j].id \in Nat
      BY <2>4, <2>7, LineFacts DEF EntriesIn
    <3> QED BY <2>3, <2>8, <3>1, <3>2, <3>3
  <2>10. j \in 1..(i - 1) /\ i - 1 \in 0..Len(mem)
    BY <2>3, <2>9
  <2> DEFINE s == SubSeq(mem, 1, i - 1)
  <2>11. Len(s) = i - 1 /\ s[j] = mem[j] /\ s \in Seq(Lines)
    <3>1. 1 \in Int /\ i - 1 \in Int /\ \A k \in 1..(i - 1) : mem[k] \in Lines
      BY <2>3
    <3>2. j \in 1..((i - 1) - 1 + 1)
      BY <2>3, <2>10
    <3>3. s[j] = mem[1 + j - 1]
      BY <3>1, <3>2, SubSeqProperties
    <3>4. Len(s) = i - 1
      BY <2>3, <2>10, CutFacts
    <3>5. s \in Seq(Lines)
      BY <3>1, SubSeqProperties
    <3>6. 1 + j - 1 = j
      BY <2>10
    <3> QED BY <3>3, <3>4, <3>5, <3>6
  <2> HIDE DEF s
  <2>12. j \in DOMAIN s
    BY <2>10, <2>11
  <2>13. s[j].id \in Ids(s)
    BY <2>11, <2>12, <2>6 DEF Ids
  <2> QED BY <2>6, <2>11, <2>13 DEF s
<1> QED BY <1>1, Invariance, PTL
=============================================================================
