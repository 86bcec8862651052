----------------------------- MODULE ReplayProofs -----------------------------
(***************************************************************************)
(* Theorems about Replay: every request of the loop is paired, and replay  *)
(* loses nothing, for conversations, replies and lists of calls of any     *)
(* length.  First come lemmas about the operators that filter and join     *)
(* lists, by induction over their length.                                  *)
(***************************************************************************)
EXTENDS Replay, SequenceTheorems, WellFoundedInduction, TLAPS

-----------------------------------------------------------------------------
\* A set that holds 0 and with a number the next one holds all of them.
LEMMA Induction ==
    ASSUME NEW S, 0 \in S, \A n \in Nat : n \in S => n + 1 \in S
    PROVE  \A n \in Nat : n \in S
<1> DEFINE R == OpToRel(<, Nat)
<1>1. \A a, b \in Nat : a < b => <<a, b>> \in R
    BY DEF OpToRel
<1>2. IsWellFoundedOn(R, Nat)
    BY NatLessThanWellFounded
<1> HIDE DEF R
<1>3. SUFFICES ASSUME Nat \ S # {} PROVE FALSE
    OBVIOUS
<1>4. PICK x \in Nat \ S : \A y \in Nat \ S : ~(<<y, x>> \in R)
    BY <1>2, <1>3, WFMin
<1>5. x # 0 /\ x - 1 \in Nat /\ (x - 1) + 1 = x /\ x - 1 < x
    BY <1>4
<1>6. x - 1 \in S
    BY <1>1, <1>4, <1>5
<1> QED
    BY <1>4, <1>5, <1>6

\* Induction over sequences.
LEMMA SeqInduction ==
    ASSUME NEW T, NEW S, <<>> \in S,
           \A s \in Seq(T), e \in T : s \in S => Append(s, e) \in S
    PROVE  \A s \in Seq(T) : s \in S
<1> DEFINE P == {n \in Nat : \A s \in Seq(T) : Len(s) = n => s \in S}
<1>1. 0 \in P
    <2> SUFFICES ASSUME NEW s \in Seq(T), Len(s) = 0 PROVE s \in S
        OBVIOUS
    <2> QED
        BY EmptySeq
<1>2. \A n \in Nat : n \in P => n + 1 \in P
    <2> SUFFICES ASSUME NEW n \in Nat, n \in P, NEW s \in Seq(T), Len(s) = n + 1
                 PROVE  s \in S
        OBVIOUS
    <2>1. PICK e : e = s[n + 1]
        OBVIOUS
    <2>2. e \in T
        BY <2>1
    <2>3. PICK front : front = SubSeq(s, 1, n)
        OBVIOUS
    <2>4. front \in Seq(T) /\ Len(front) = n /\ \A i \in 1 .. n : front[i] = s[i]
        BY <2>3
    <2>5. s = Append(front, e)
        BY <2>1, <2>2, <2>4
    <2>6. front \in S
        BY <2>4
    <2> QED
        BY <2>2, <2>4, <2>5, <2>6
<1> HIDE DEF P
<1>3. \A n \in Nat : n \in P
    BY <1>1, <1>2, Induction
<1> QED
    <2> SUFFICES ASSUME NEW s \in Seq(T) PROVE s \in S
        OBVIOUS
    <2>1. Len(s) \in P
        BY <1>3
    <2> QED
        BY <2>1 DEF P

-----------------------------------------------------------------------------
\* f has what Kept keeps of the first n members, for every n up to last.
KeptUpTo(s, field, values, last, f) ==
    f = [n \in 0 .. last |->
            IF n = 0 THEN <<>>
            ELSE IF s[n][field] \in values THEN Append(f[n - 1], s[n])
            ELSE f[n - 1]]

\* There is such a function for a list of any length.
LEMMA KeptExists ==
    ASSUME NEW s, NEW field, NEW values
    PROVE  \A n \in Nat : \E f : KeptUpTo(s, field, values, n, f)
<1> DEFINE P == {n \in Nat : \E f : KeptUpTo(s, field, values, n, f)}
<1>1. 0 \in P
    <2>1. KeptUpTo(s, field, values, 0, [n \in 0 .. 0 |-> <<>>])
        BY DEF KeptUpTo
    <2> QED
        BY <2>1
<1>2. ASSUME NEW n \in Nat, n \in P PROVE n + 1 \in P
    <2>1. PICK f : KeptUpTo(s, field, values, n, f)
        BY <1>2
    <2>2. PICK x : x = IF s[n + 1][field] \in values THEN Append(f[n], s[n + 1]) ELSE f[n]
        OBVIOUS
    <2> DEFINE g == [i \in 0 .. n + 1 |-> IF i = n + 1 THEN x ELSE f[i]]
    <2>3. \A i \in 0 .. n : f[i] = IF i = 0 THEN <<>>
                                   ELSE IF s[i][field] \in values THEN Append(f[i - 1], s[i])
                                   ELSE f[i - 1]
        BY <2>1 DEF KeptUpTo
    <2>4. ASSUME NEW i \in 0 .. n + 1
          PROVE  g[i] = IF i = 0 THEN <<>>
                        ELSE IF s[i][field] \in values THEN Append(g[i - 1], s[i])
                        ELSE g[i - 1]
        BY <2>2, <2>3
    <2>5. KeptUpTo(s, field, values, n + 1, g)
        BY <2>4 DEF KeptUpTo
    <2> QED
        BY <2>5
<1> HIDE DEF P
<1>3. \A n \in Nat : n \in P
    BY <1>1, <1>2, Induction
<1> QED
    BY <1>3 DEF P

\* Lists that agree up to a place keep the same up to there.
LEMMA KeptAgrees ==
    ASSUME NEW s, NEW t, NEW field, NEW values, NEW m \in Nat, NEW n \in Nat, NEW f, NEW g,
           m <= n, KeptUpTo(s, field, values, m, f), KeptUpTo(t, field, values, n, g),
           \A i \in 1 .. m : s[i] = t[i]
    PROVE  f[m] = g[m]
<1> DEFINE P == {k \in Nat : k <= m => f[k] = g[k]}
<1>1. 0 \in P
    BY DEF KeptUpTo
<1>2. ASSUME NEW k \in Nat, k \in P PROVE k + 1 \in P
    <2> SUFFICES ASSUME k + 1 <= m PROVE f[k + 1] = g[k + 1]
        OBVIOUS
    <2>1. f[k] = g[k] /\ s[k + 1] = t[k + 1]
        BY <1>2
    <2>2. f[k + 1] = IF s[k + 1][field] \in values THEN Append(f[k], s[k + 1]) ELSE f[k]
        <3>1. \A i \in 0 .. m : f[i] = IF i = 0 THEN <<>>
                                       ELSE IF s[i][field] \in values THEN Append(f[i - 1], s[i])
                                       ELSE f[i - 1]
            BY DEF KeptUpTo
        <3>2. k + 1 \in 0 .. m /\ k + 1 # 0 /\ (k + 1) - 1 = k
            OBVIOUS
        <3> QED
            BY <3>1, <3>2
    <2>3. g[k + 1] = IF t[k + 1][field] \in values THEN Append(g[k], t[k + 1]) ELSE g[k]
        <3>1. \A i \in 0 .. n : g[i] = IF i = 0 THEN <<>>
                                       ELSE IF t[i][field] \in values THEN Append(g[i - 1], t[i])
                                       ELSE g[i - 1]
            BY DEF KeptUpTo
        <3>2. k + 1 \in 0 .. n /\ k + 1 # 0 /\ (k + 1) - 1 = k
            OBVIOUS
        <3> QED
            BY <3>1, <3>2
    <2> QED
        BY <2>1, <2>2, <2>3
<1> HIDE DEF P
<1>3. \A k \in Nat : k \in P
    BY <1>1, <1>2, Induction
<1> QED
    BY <1>3 DEF P

\* Nothing is kept of the empty list.
LEMMA KeptOfEmpty ==
    ASSUME NEW field, NEW values
    PROVE  Kept(<<>>, field, values) = <<>>
<1>1. Kept(<<>>, field, values)
        = (CHOOSE f : KeptUpTo(<<>>, field, values, Len(<<>>), f))[Len(<<>>)]
    BY DEF Kept, KeptUpTo
<1>2. PICK f : f = CHOOSE g : KeptUpTo(<<>>, field, values, Len(<<>>), g)
    OBVIOUS
<1>3. KeptUpTo(<<>>, field, values, Len(<<>>), f)
    BY <1>2, KeptExists
<1> QED
    BY <1>1, <1>2, <1>3 DEF KeptUpTo

\* A last record is kept or not, after what was kept.
LEMMA KeptOfAppend ==
    ASSUME NEW T, NEW s \in Seq(T), NEW e \in T, NEW field, NEW values
    PROVE  Kept(Append(s, e), field, values)
             = IF e[field] \in values THEN Append(Kept(s, field, values), e)
               ELSE Kept(s, field, values)
<1>1. PICK n \in Nat : n = Len(s)
    OBVIOUS
<1>2. PICK t : t = Append(s, e)
    OBVIOUS
<1>3. Len(t) = n + 1 /\ t[n + 1] = e /\ \A i \in 1 .. n : s[i] = t[i]
    BY <1>1, <1>2
<1>4. PICK f : f = CHOOSE g : KeptUpTo(s, field, values, Len(s), g)
    OBVIOUS
<1>5. KeptUpTo(s, field, values, n, f) /\ Kept(s, field, values) = f[n]
    <2>1. Kept(s, field, values) = (CHOOSE g : KeptUpTo(s, field, values, Len(s), g))[Len(s)]
        BY DEF Kept, KeptUpTo
    <2> QED
        BY <2>1, <1>1, <1>4, KeptExists
<1>6. PICK h : h = CHOOSE g : KeptUpTo(t, field, values, Len(t), g)
    OBVIOUS
<1>7. KeptUpTo(t, field, values, n + 1, h) /\ Kept(t, field, values) = h[n + 1]
    <2>1. Kept(t, field, values) = (CHOOSE g : KeptUpTo(t, field, values, Len(t), g))[Len(t)]
        BY DEF Kept, KeptUpTo
    <2>2. KeptUpTo(t, field, values, n + 1, h)
        BY <1>3, <1>6, KeptExists
    <2> QED
        BY <2>1, <2>2, <1>3, <1>6
<1>8. f[n] = h[n]
    <2>1. n + 1 \in Nat /\ n <= n + 1
        OBVIOUS
    <2> QED
        BY <2>1, <1>3, <1>5, <1>7, KeptAgrees
<1>9. h[n + 1] = IF t[n + 1][field] \in values THEN Append(h[n], t[n + 1]) ELSE h[n]
    <2>1. \A i \in 0 .. n + 1 : h[i] = IF i = 0 THEN <<>>
                                       ELSE IF t[i][field] \in values THEN Append(h[i - 1], t[i])
                                       ELSE h[i - 1]
        BY <1>7 DEF KeptUpTo
    <2>2. n + 1 \in 0 .. n + 1 /\ n + 1 # 0 /\ (n + 1) - 1 = n
        OBVIOUS
    <2> QED
        BY <2>1, <2>2
<1> QED
    BY <1>2, <1>3, <1>5, <1>7, <1>8, <1>9

\* What is kept is a sequence of members that qualify.
LEMMA KeptIsSeq ==
    ASSUME NEW T, NEW field, NEW values
    PROVE  \A s \in Seq(T) : /\ Kept(s, field, values) \in Seq({e \in T : e[field] \in values})
                             /\ Kept(s, field, values) \in Seq(T)
<1>1. PICK U : U = {e \in T : e[field] \in values}
    OBVIOUS
<1> DEFINE P == {s \in Seq(T) : Kept(s, field, values) \in Seq(U)}
<1>2. <<>> \in P
    <2>1. <<>> \in Seq(T) /\ <<>> \in Seq(U)
        OBVIOUS
    <2> QED
        BY <2>1, KeptOfEmpty
<1>3. ASSUME NEW s \in Seq(T), NEW e \in T, s \in P PROVE Append(s, e) \in P
    <2>1. PICK k \in Seq(U) : k = Kept(s, field, values)
        BY <1>3
    <2>2. e[field] \in values => Append(k, e) \in Seq(U)
        BY <1>1
    <2> QED
        BY <2>1, <2>2, KeptOfAppend
<1> HIDE DEF P
<1>4. \A s \in Seq(T) : s \in P
    BY <1>2, <1>3, SeqInduction
<1>5. \A s \in Seq(T) : Kept(s, field, values) \in Seq(U)
    BY <1>4 DEF P
<1>6. \A s \in Seq(U) : s \in Seq(T)
    BY <1>1, SeqMonotonic
<1> QED
    BY <1>1, <1>5, <1>6

\* Every member that qualifies is kept.
LEMMA KeptRange ==
    ASSUME NEW T, NEW field, NEW values
    PROVE  \A s \in Seq(T) : Range(Kept(s, field, values)) = {e \in Range(s) : e[field] \in values}
<1> DEFINE P == {s \in Seq(T) : Range(Kept(s, field, values)) = {e \in Range(s) : e[field] \in values}}
<1>0. Range(<<>>) = {}
    BY DEF Range
<1>1. <<>> \in P
    BY <1>0, KeptOfEmpty
<1>2. ASSUME NEW S, NEW s \in Seq(S), NEW e \in S
      PROVE  Range(Append(s, e)) = Range(s) \cup {e}
    <2>1. DOMAIN Append(s, e) = (DOMAIN s) \cup {Len(s) + 1}
        OBVIOUS
    <2>2. Append(s, e)[Len(s) + 1] = e /\ \A i \in DOMAIN s : Append(s, e)[i] = s[i]
        OBVIOUS
    <2> QED
        BY <2>1, <2>2 DEF Range
<1>3. ASSUME NEW s \in Seq(T), NEW e \in T, s \in P PROVE Append(s, e) \in P
    <2>1. Range(Append(s, e)) = Range(s) \cup {e}
        BY <1>2
    <2>2. CASE e[field] \in values
        <3>1. PICK k \in Seq(T) : k = Kept(s, field, values)
            BY KeptIsSeq
        <3>2. Range(Append(k, e)) = Range(k) \cup {e}
            BY <1>2, <3>1
        <3>3. Kept(Append(s, e), field, values) = Append(k, e)
            BY <2>2, <3>1, KeptOfAppend
        <3>4. Range(k) = {x \in Range(s) : x[field] \in values}
            BY <1>3, <3>1
        <3>5. {x \in Range(s) \cup {e} : x[field] \in values}
                = {x \in Range(s) : x[field] \in values} \cup {e}
            BY <2>2
        <3>6. Range(Kept(Append(s, e), field, values))
                = {x \in Range(Append(s, e)) : x[field] \in values}
            BY <2>1, <3>2, <3>3, <3>4, <3>5
        <3> QED
            BY <3>6
    <2>3. CASE e[field] \notin values
        BY <1>3, <2>1, <2>3, KeptOfAppend
    <2> QED
        BY <2>2, <2>3
<1> HIDE DEF P
<1>4. \A s \in Seq(T) : s \in P
    BY <1>1, <1>3, SeqInduction
<1> QED
    BY <1>4 DEF P

\* When all members qualify the whole list is kept.
LEMMA KeptAll ==
    ASSUME NEW T, NEW field, NEW values, \A e \in T : e[field] \in values
    PROVE  \A s \in Seq(T) : Kept(s, field, values) = s
<1> DEFINE P == {s \in Seq(T) : Kept(s, field, values) = s}
<1>1. <<>> \in P
    BY KeptOfEmpty
<1>2. \A s \in Seq(T), e \in T : s \in P => Append(s, e) \in P
    BY KeptOfAppend
<1> HIDE DEF P
<1>3. \A s \in Seq(T) : s \in P
    BY <1>1, <1>2, SeqInduction
<1> QED
    BY <1>3 DEF P

\* When none qualifies nothing is kept.
LEMMA KeptNone ==
    ASSUME NEW T, NEW field, NEW values, \A e \in T : e[field] \notin values
    PROVE  \A s \in Seq(T) : Kept(s, field, values) = <<>>
<1> DEFINE P == {s \in Seq(T) : Kept(s, field, values) = <<>>}
<1>1. <<>> \in P
    BY KeptOfEmpty
<1>2. \A s \in Seq(T), e \in T : s \in P => Append(s, e) \in P
    BY KeptOfAppend
<1> HIDE DEF P
<1>3. \A s \in Seq(T) : s \in P
    BY <1>1, <1>2, SeqInduction
<1> QED
    BY <1>3 DEF P

\* Two filters, one after the other, are one filter.
LEMMA KeptOfKept ==
    ASSUME NEW T, NEW field, NEW some, NEW others
    PROVE  \A s \in Seq(T) : Kept(Kept(s, field, some), field, others)
                               = Kept(s, field, some \cap others)
<1> DEFINE P == {s \in Seq(T) : Kept(Kept(s, field, some), field, others)
                                  = Kept(s, field, some \cap others)}
<1>1. <<>> \in P
    BY KeptOfEmpty
<1>2. ASSUME NEW s \in Seq(T), NEW e \in T, s \in P PROVE Append(s, e) \in P
    <2>1. PICK k \in Seq(T) : k = Kept(s, field, some)
        BY KeptIsSeq
    <2>2. Kept(k, field, others) = Kept(s, field, some \cap others)
        BY <1>2, <2>1
    <2>3. Kept(Append(k, e), field, others)
            = IF e[field] \in others THEN Append(Kept(k, field, others), e)
              ELSE Kept(k, field, others)
        BY <2>1, KeptOfAppend
    <2>4. Kept(Append(s, e), field, some) = IF e[field] \in some THEN Append(k, e) ELSE k
        BY <2>1, KeptOfAppend
    <2>5. Kept(Append(s, e), field, some \cap others)
            = IF e[field] \in some \cap others THEN Append(Kept(k, field, others), e)
              ELSE Kept(k, field, others)
        <3>1. Kept(Append(s, e), field, some \cap others)
                = IF e[field] \in some \cap others
                  THEN Append(Kept(s, field, some \cap others), e)
                  ELSE Kept(s, field, some \cap others)
            BY KeptOfAppend
        <3> QED
            BY <2>2, <3>1
    <2>6. Kept(Kept(Append(s, e), field, some), field, others)
            = Kept(Append(s, e), field, some \cap others)
        <3>1. CASE e[field] \in some
            <4>1. Kept(Append(s, e), field, some) = Append(k, e)
                BY <2>4, <3>1
            <4>2. e[field] \in some \cap others <=> e[field] \in others
                BY <3>1
            <4> QED
                BY <2>3, <2>5, <4>1, <4>2
        <3>2. CASE e[field] \notin some
            BY <2>4, <2>5, <3>2
        <3> QED
            BY <3>1, <3>2
    <2> QED
        BY <2>6
<1> HIDE DEF P
<1>3. \A s \in Seq(T) : s \in P
    BY <1>1, <1>2, SeqInduction
<1> QED
    BY <1>3 DEF P

\* The filter of two lists joined is the two filters joined.
LEMMA KeptOfConcat ==
    ASSUME NEW T, NEW s \in Seq(T), NEW field, NEW values
    PROVE  \A t \in Seq(T) : Kept(s \o t, field, values)
                               = Kept(s, field, values) \o Kept(t, field, values)
<1> DEFINE P == {t \in Seq(T) : Kept(s \o t, field, values)
                                  = Kept(s, field, values) \o Kept(t, field, values)}
<1>0. PICK k \in Seq(T) : k = Kept(s, field, values)
    BY KeptIsSeq
<1>1. <<>> \in P
    <2>1. s \o <<>> = s /\ k \o <<>> = k
        OBVIOUS
    <2>2. <<>> \in Seq(T)
        OBVIOUS
    <2> QED
        BY <1>0, <2>1, <2>2, KeptOfEmpty
<1>2. ASSUME NEW t \in Seq(T), NEW e \in T, t \in P PROVE Append(t, e) \in P
    <2>1. PICK l \in Seq(T) : l = Kept(t, field, values)
        BY KeptIsSeq
    <2>2. PICK st : st = s \o t
        OBVIOUS
    <2>3. st \in Seq(T) /\ s \o Append(t, e) = Append(st, e)
        BY <2>2
    <2>4. Kept(st, field, values) = k \o l
        BY <1>0, <1>2, <2>1, <2>2
    <2>5. Kept(Append(st, e), field, values)
            = IF e[field] \in values THEN Append(k \o l, e) ELSE k \o l
        <3>1. Kept(Append(st, e), field, values)
                = IF e[field] \in values THEN Append(Kept(st, field, values), e)
                  ELSE Kept(st, field, values)
            BY <2>3, KeptOfAppend
        <3> QED
            BY <2>4, <3>1
    <2>6. k \o Append(l, e) = Append(k \o l, e)
        OBVIOUS
    <2>7. Kept(Append(t, e), field, values) = IF e[field] \in values THEN Append(l, e) ELSE l
        BY <2>1, KeptOfAppend
    <2>8. Kept(s \o Append(t, e), field, values) = k \o Kept(Append(t, e), field, values)
        BY <2>5, <2>6, <2>7, <2>3
    <2> QED
        BY <1>0, <2>8
<1> HIDE DEF P
<1>3. \A t \in Seq(T) : t \in P
    BY <1>1, <1>2, SeqInduction
<1> QED
    BY <1>3 DEF P

-----------------------------------------------------------------------------
\* f has the first n lists joined, for every n from 1 to last.
FlatUpTo(ss, last, f) ==
    f = [i \in 1 .. last |-> IF i = 1 THEN ss[i] ELSE f[i - 1] \o ss[i]]

\* The partial joins of FlattenSeq exist for any number of lists.
LEMMA FlatExists ==
    ASSUME NEW ss
    PROVE  \A n \in Nat : \E f : FlatUpTo(ss, n, f)
<1> DEFINE P == {n \in Nat : \E f : FlatUpTo(ss, n, f)}
<1>1. 0 \in P
    <2>1. FlatUpTo(ss, 0, [i \in 1 .. 0 |-> <<>>])
        BY DEF FlatUpTo
    <2> QED
        BY <2>1
<1>2. ASSUME NEW n \in Nat, n \in P PROVE n + 1 \in P
    <2>1. PICK f : FlatUpTo(ss, n, f)
        BY <1>2
    <2>2. PICK x : x = IF n + 1 = 1 THEN ss[n + 1] ELSE f[n] \o ss[n + 1]
        OBVIOUS
    <2> DEFINE g == [i \in 1 .. n + 1 |-> IF i = n + 1 THEN x ELSE f[i]]
    <2>3. \A i \in 1 .. n : f[i] = IF i = 1 THEN ss[i] ELSE f[i - 1] \o ss[i]
        BY <2>1 DEF FlatUpTo
    <2>4. ASSUME NEW i \in 1 .. n + 1
          PROVE  g[i] = IF i = 1 THEN ss[i] ELSE g[i - 1] \o ss[i]
        BY <2>2, <2>3
    <2>5. FlatUpTo(ss, n + 1, g)
        BY <2>4 DEF FlatUpTo
    <2> QED
        BY <2>5
<1> HIDE DEF P
<1>3. \A n \in Nat : n \in P
    BY <1>1, <1>2, Induction
<1> QED
    BY <1>3 DEF P

\* Two such functions agree where their lists do.
LEMMA FlatAgrees ==
    ASSUME NEW ss, NEW tt, NEW m \in Nat, NEW n \in Nat, NEW f, NEW g,
           m <= n, FlatUpTo(ss, m, f), FlatUpTo(tt, n, g),
           \A i \in 1 .. m : ss[i] = tt[i]
    PROVE  m >= 1 => f[m] = g[m]
<1> DEFINE P == {k \in Nat : 1 <= k /\ k <= m => f[k] = g[k]}
<1>1. 0 \in P
    OBVIOUS
<1>2. ASSUME NEW k \in Nat, k \in P PROVE k + 1 \in P
    <2> SUFFICES ASSUME k + 1 <= m PROVE f[k + 1] = g[k + 1]
        OBVIOUS
    <2>1. k # 0 => f[k] = g[k]
        BY <1>2
    <2>2. ss[k + 1] = tt[k + 1]
        OBVIOUS
    <2>3. k + 1 \in 1 .. m /\ k + 1 \in 1 .. n /\ (k + 1 = 1 <=> k = 0) /\ (k + 1) - 1 = k
        OBVIOUS
    <2>4. \A i \in 1 .. m : f[i] = IF i = 1 THEN ss[i] ELSE f[i - 1] \o ss[i]
        BY DEF FlatUpTo
    <2>5. \A i \in 1 .. n : g[i] = IF i = 1 THEN tt[i] ELSE g[i - 1] \o tt[i]
        BY DEF FlatUpTo
    <2>6. f[k + 1] = IF k = 0 THEN ss[k + 1] ELSE f[k] \o ss[k + 1]
        BY <2>3, <2>4
    <2>7. g[k + 1] = IF k = 0 THEN tt[k + 1] ELSE g[k] \o tt[k + 1]
        BY <2>3, <2>5
    <2> QED
        BY <2>1, <2>2, <2>6, <2>7
<1> HIDE DEF P
<1>3. \A k \in Nat : k \in P
    BY <1>1, <1>2, Induction
<1> QED
    BY <1>3 DEF P

\* No lists are joined to the empty one.
LEMMA FlattenOfEmpty == FlattenSeq(<<>>) = <<>>
BY DEF FlattenSeq

\* A last list is joined after the others.
LEMMA FlattenOfAppend ==
    ASSUME NEW T, NEW ss \in Seq(Seq(T)), NEW t \in Seq(T)
    PROVE  FlattenSeq(Append(ss, t)) = FlattenSeq(ss) \o t
<1>1. PICK n \in Nat : n = Len(ss)
    OBVIOUS
<1>2. PICK tt : tt = Append(ss, t)
    OBVIOUS
<1>3. Len(tt) = n + 1 /\ tt[n + 1] = t /\ \A i \in 1 .. n : ss[i] = tt[i]
    BY <1>1, <1>2
<1>4. PICK f : f = CHOOSE g : FlatUpTo(ss, Len(ss), g)
    OBVIOUS
<1>5. FlatUpTo(ss, n, f) /\ FlattenSeq(ss) = IF n = 0 THEN ss ELSE f[n]
    <2>1. FlattenSeq(ss) = IF Len(ss) = 0 THEN ss
                           ELSE (CHOOSE g : FlatUpTo(ss, Len(ss), g))[Len(ss)]
        BY DEF FlattenSeq, FlatUpTo
    <2> QED
        BY <2>1, <1>1, <1>4, FlatExists
<1>6. PICK h : h = CHOOSE g : FlatUpTo(tt, Len(tt), g)
    OBVIOUS
<1>7. FlatUpTo(tt, n + 1, h) /\ FlattenSeq(tt) = h[n + 1]
    <2>1. FlattenSeq(tt) = IF Len(tt) = 0 THEN tt
                           ELSE (CHOOSE g : FlatUpTo(tt, Len(tt), g))[Len(tt)]
        BY DEF FlattenSeq, FlatUpTo
    <2>2. FlatUpTo(tt, n + 1, h)
        BY <1>3, <1>6, FlatExists
    <2> QED
        BY <2>1, <2>2, <1>3, <1>6
<1>8. n # 0 => f[n] = h[n]
    <2>1. n + 1 \in Nat /\ n <= n + 1 /\ (n # 0 => n >= 1)
        OBVIOUS
    <2> QED
        BY <2>1, <1>3, <1>5, <1>7, FlatAgrees
<1>9. h[n + 1] = IF n = 0 THEN t ELSE h[n] \o t
    <2>1. \A i \in 1 .. n + 1 : h[i] = IF i = 1 THEN tt[i] ELSE h[i - 1] \o tt[i]
        BY <1>7 DEF FlatUpTo
    <2>2. n + 1 \in 1 .. n + 1 /\ (n + 1 = 1 <=> n = 0) /\ (n + 1) - 1 = n
        OBVIOUS
    <2> QED
        BY <2>1, <2>2, <1>3
<1>10. n = 0 => ss \o t = t
    <2>1. n = 0 => ss = <<>>
        BY <1>1, EmptySeq
    <2>2. <<>> \o t = t
        OBVIOUS
    <2> QED
        BY <2>1, <2>2
<1> QED
    BY <1>2, <1>5, <1>7, <1>8, <1>9, <1>10

\* Lists over T are joined to a list over T.
LEMMA FlattenIsSeq ==
    ASSUME NEW T
    PROVE  \A ss \in Seq(Seq(T)) : FlattenSeq(ss) \in Seq(T)
<1> DEFINE P == {ss \in Seq(Seq(T)) : FlattenSeq(ss) \in Seq(T)}
<1>1. <<>> \in P
    <2>1. <<>> \in Seq(Seq(T)) /\ <<>> \in Seq(T)
        OBVIOUS
    <2> QED
        BY <2>1, FlattenOfEmpty
<1>2. ASSUME NEW ss \in Seq(Seq(T)), NEW t \in Seq(T), ss \in P PROVE Append(ss, t) \in P
    <2>1. PICK k \in Seq(T) : k = FlattenSeq(ss)
        BY <1>2
    <2>2. FlattenSeq(Append(ss, t)) = k \o t
        BY <2>1, FlattenOfAppend
    <2>3. k \o t \in Seq(T) /\ Append(ss, t) \in Seq(Seq(T))
        OBVIOUS
    <2> QED
        BY <2>2, <2>3
<1> HIDE DEF P
<1>3. \A ss \in Seq(Seq(T)) : ss \in P
    BY <1>1, <1>2, SeqInduction
<1> QED
    BY <1>3 DEF P

-----------------------------------------------------------------------------
\* f has what requestPayload has gathered after n blocks, for every n up to last.
GatheredUpTo(content, last, f) ==
    f = [n \in 0 .. last |->
            IF n = 0 THEN [texts |-> <<>>, out |-> <<>>] ELSE AddBlock(f[n - 1], content[n])]

\* The partial results of UserMessages exist for content of any length.
LEMMA GatheredExists ==
    ASSUME NEW content
    PROVE  \A n \in Nat : \E f : GatheredUpTo(content, n, f)
<1> DEFINE P == {n \in Nat : \E f : GatheredUpTo(content, n, f)}
<1>1. 0 \in P
    <2>1. GatheredUpTo(content, 0, [n \in 0 .. 0 |-> [texts |-> <<>>, out |-> <<>>]])
        BY DEF GatheredUpTo
    <2> QED
        BY <2>1
<1>2. ASSUME NEW n \in Nat, n \in P PROVE n + 1 \in P
    <2>1. PICK f : GatheredUpTo(content, n, f)
        BY <1>2
    <2>2. PICK x : x = AddBlock(f[n], content[n + 1])
        OBVIOUS
    <2> DEFINE g == [i \in 0 .. n + 1 |-> IF i = n + 1 THEN x ELSE f[i]]
    <2>3. \A i \in 0 .. n : f[i] = IF i = 0 THEN [texts |-> <<>>, out |-> <<>>]
                                   ELSE AddBlock(f[i - 1], content[i])
        BY <2>1 DEF GatheredUpTo
    <2>4. ASSUME NEW i \in 0 .. n + 1
          PROVE  g[i] = IF i = 0 THEN [texts |-> <<>>, out |-> <<>>]
                        ELSE AddBlock(g[i - 1], content[i])
        BY <2>2, <2>3
    <2>5. GatheredUpTo(content, n + 1, g)
        BY <2>4 DEF GatheredUpTo
    <2> QED
        BY <2>5
<1> HIDE DEF P
<1>3. \A n \in Nat : n \in P
    BY <1>1, <1>2, Induction
<1> QED
    BY <1>3 DEF P

\* UserMessages is the last of them, flushed.
LEMMA UserMessagesIs ==
    ASSUME NEW content, Len(content) \in Nat
    PROVE  \E f : GatheredUpTo(content, Len(content), f)
                  /\ UserMessages(content) = FlushText(f[Len(content)])
<1>1. UserMessages(content)
        = FlushText((CHOOSE f : GatheredUpTo(content, Len(content), f))[Len(content)])
    BY DEF UserMessages, GatheredUpTo
<1>2. PICK f : f = CHOOSE g : GatheredUpTo(content, Len(content), g)
    OBVIOUS
<1>3. GatheredUpTo(content, Len(content), f)
    BY <1>2, GatheredExists
<1> QED
    BY <1>1, <1>2, <1>3

\* A list of one.
LEMMA Singleton ==
    ASSUME NEW e
    PROVE  /\ <<e>> \in Seq({e}) /\ <<e>> # <<>>
           /\ <<>> \o <<e>> = <<e>> /\ Append(<<>>, e) = <<e>>
<1>1. <<e>> \in Seq({e}) /\ Len(<<e>>) = 1
    OBVIOUS
<1>2. <<e>> # <<>>
    BY <1>1, EmptySeq
<1>3. <<>> \o <<e>> = <<e>>
    BY <1>1, ConcatEmptySeq
<1>4. Append(<<>>, e) = <<e>>
    OBVIOUS
<1> QED
    BY <1>1, <1>2, <1>3, <1>4

\* Content of one text becomes one message of the user.
LEMMA TextIsOneMessage ==
    ASSUME NEW b, b.type = "text"
    PROVE  UserMessages(<<b>>) = <<WireMessage("user", <<b.text>>, <<>>, FALSE, "")>>
<1>1. Len(<<b>>) = 1 /\ <<b>>[1] = b
    OBVIOUS
<1>2. PICK f : GatheredUpTo(<<b>>, 1, f) /\ UserMessages(<<b>>) = FlushText(f[1])
    BY <1>1, UserMessagesIs
<1>3. f[0] = [texts |-> <<>>, out |-> <<>>] /\ f[1] = AddBlock(f[0], b)
    BY <1>1, <1>2 DEF GatheredUpTo
<1>4. f[1] = [texts |-> <<b.text>>, out |-> <<>>]
    BY <1>3 DEF AddBlock
<1>5. PICK texts : texts = <<b.text>>
    OBVIOUS
<1>6. PICK m : m = WireMessage("user", texts, <<>>, FALSE, "")
    OBVIOUS
<1>7. texts # <<>> /\ <<>> \o <<m>> = <<m>>
    BY <1>5, Singleton
<1>8. f[1].texts = texts /\ f[1].out = <<>>
    BY <1>4, <1>5
<1>9. Optional(f[1].texts # <<>>, m) = <<m>>
    BY <1>7, <1>8 DEF Optional
<1>10. FlushText(f[1]) = <<>> \o Optional(f[1].texts # <<>>, m)
    BY <1>6, <1>8 DEF FlushText
<1> QED
    BY <1>2, <1>5, <1>6, <1>7, <1>9, <1>10

\* results are one tool message each.
ToolMessage(b) == WireMessage("tool", <<b.content>>, <<>>, FALSE, b.callId)

\* Content of results only: each becomes a message of its own, in order.
LEMMA ResultsAreMessages ==
    ASSUME NEW T, NEW content \in Seq(T), \A b \in T : b.type = "tool_result"
    PROVE  UserMessages(content) = [i \in DOMAIN content |-> ToolMessage(content[i])]
<1>1. PICK f : /\ GatheredUpTo(content, Len(content), f)
               /\ UserMessages(content) = FlushText(f[Len(content)])
    BY UserMessagesIs
<1>2. \A i \in 0 .. Len(content) :
          f[i] = IF i = 0 THEN [texts |-> <<>>, out |-> <<>>] ELSE AddBlock(f[i - 1], content[i])
    BY <1>1 DEF GatheredUpTo
<1> DEFINE Out(n) == [i \in 1 .. n |-> ToolMessage(content[i])]
           P == {n \in Nat : n <= Len(content) => f[n] = [texts |-> <<>>, out |-> Out(n)]}
<1>3. 0 \in P
    BY <1>2
<1>4. ASSUME NEW n \in Nat, n \in P PROVE n + 1 \in P
    <2> SUFFICES ASSUME n + 1 <= Len(content)
                 PROVE  f[n + 1] = [texts |-> <<>>, out |-> Out(n + 1)]
        OBVIOUS
    <2>1. f[n] = [texts |-> <<>>, out |-> Out(n)]
        BY <1>4
    <2>2. f[n + 1] = AddBlock(f[n], content[n + 1]) /\ content[n + 1] \in T
        BY <1>2
    <2>3. FlushText(f[n]) = Out(n)
        BY <2>1 DEF FlushText, Optional
    <2>4. AddBlock(f[n], content[n + 1])
            = [texts |-> <<>>, out |-> Append(Out(n), ToolMessage(content[n + 1]))]
        BY <2>2, <2>3 DEF AddBlock, ToolMessage
    <2>5. Append(Out(n), ToolMessage(content[n + 1])) = Out(n + 1)
        OBVIOUS
    <2> QED
        BY <2>2, <2>4, <2>5
<1> HIDE DEF P
<1>5. \A n \in Nat : n \in P
    BY <1>3, <1>4, Induction
<1>6. f[Len(content)] = [texts |-> <<>>, out |-> Out(Len(content))]
    BY <1>5 DEF P
<1> QED
    BY <1>1, <1>6 DEF FlushText, Optional

-----------------------------------------------------------------------------
\* The parts of a decoded choice.
TextBlock(choice) == [type |-> "text", text |-> choice.text]
Metadata          == [type |-> "provider_metadata"]
UseBlocks(choice) == [i \in DOMAIN choice.calls |->
                         [type |-> "tool_use", id |-> choice.calls[i].id,
                          input |-> ToolArguments(choice.calls[i].args)]]

CallType == [id : STRING, args : STRING]
UseType  == [type : {"tool_use"}, id : STRING, input : STRING \cup {"{}"}]
FullUses == {b \in UseType : b.input # ""}

\* Decode, in the names of this module.
LEMMA DecodeIs ==
    ASSUME NEW body, NEW choice, choice = body.choices[1]
    PROVE  /\ Decode(body).stop = StopReason(choice)
           /\ Decode(body).content = Optional(choice.text # "", TextBlock(choice))
                                     \o UseBlocks(choice) \o Optional(choice.details, Metadata)
BY DEF Decode, TextBlock, UseBlocks, Metadata

\* Absent arguments are the empty object, also when translated twice.
LEMMA ArgumentsAreStrings ==
    ASSUME NEW a \in STRING
    PROVE  /\ ToolArguments(a) \in STRING \cup {"{}"} /\ ToolArguments(a) # ""
           /\ ToolArguments(ToolArguments(a)) = ToolArguments(a)
<1>1. "{}" # ""
    OBVIOUS
<1> QED
    BY <1>1 DEF ToolArguments

\* Each call of a choice becomes a tool use with arguments.
LEMMA UseBlocksAre ==
    ASSUME NEW choice, choice.calls \in Seq(CallType)
    PROVE  /\ UseBlocks(choice) \in Seq(UseType) /\ UseBlocks(choice) \in Seq(FullUses)
           /\ Len(UseBlocks(choice)) = Len(choice.calls)
<1>1. \A i \in DOMAIN choice.calls :
          [type |-> "tool_use", id |-> choice.calls[i].id,
           input |-> ToolArguments(choice.calls[i].args)] \in FullUses
    <2> SUFFICES ASSUME NEW i \in DOMAIN choice.calls
                 PROVE  [type |-> "tool_use", id |-> choice.calls[i].id,
                         input |-> ToolArguments(choice.calls[i].args)] \in FullUses
        OBVIOUS
    <2>1. PICK c \in CallType : c = choice.calls[i]
        OBVIOUS
    <2>2. c.id \in STRING /\ c.args \in STRING
        BY DEF CallType
    <2>3. PICK args : args = ToolArguments(c.args)
        OBVIOUS
    <2>4. args \in STRING \cup {"{}"} /\ args # ""
        BY <2>2, <2>3, ArgumentsAreStrings
    <2>5. PICK b : b = [type |-> "tool_use", id |-> c.id, input |-> args]
        OBVIOUS
    <2>6. b \in UseType /\ b.input # ""
        BY <2>2, <2>4, <2>5 DEF UseType
    <2> QED
        BY <2>1, <2>3, <2>5, <2>6 DEF FullUses
<1>2. PICK n \in Nat : n = Len(choice.calls) /\ DOMAIN choice.calls = 1 .. n
    OBVIOUS
<1>3. UseBlocks(choice) \in [1 .. n -> FullUses]
    BY <1>1, <1>2 DEF UseBlocks
<1>4. FullUses \subseteq UseType
    BY DEF FullUses
<1> HIDE DEF UseBlocks
<1>5. UseBlocks(choice) \in Seq(FullUses) /\ Len(UseBlocks(choice)) = n
    BY <1>3
<1> QED
    BY <1>2, <1>4, <1>5, SeqMonotonic

\* An optional block is a list of at most one.
LEMMA OptionalIsSeq ==
    ASSUME NEW c \in BOOLEAN, NEW T, NEW b \in T
    PROVE  Optional(c, b) \in Seq(T)
BY DEF Optional

\* An optional block is kept if it is there and its field has one of the values.
LEMMA KeptOfOptional ==
    ASSUME NEW c \in BOOLEAN, NEW b, NEW field, NEW values
    PROVE  Kept(Optional(c, b), field, values) = Optional(c /\ b[field] \in values, b)
<1>1. PICK T : T = {b} /\ b \in T
    OBVIOUS
<1>2. ASSUME NEW s \in Seq(T)
      PROVE  Kept(Append(s, b), field, values)
               = IF b[field] \in values THEN Append(Kept(s, field, values), b)
                 ELSE Kept(s, field, values)
    BY <1>1, KeptOfAppend
<1>3. <<>> \in Seq(T) /\ Append(<<>>, b) = <<b>>
    BY Singleton
<1>4. Kept(<<b>>, field, values) = IF b[field] \in values THEN <<b>> ELSE <<>>
    BY <1>2, <1>3, KeptOfEmpty
<1>5. CASE c
    BY <1>4, <1>5 DEF Optional
<1>6. CASE ~c
    BY <1>6, KeptOfEmpty DEF Optional
<1> QED
    BY <1>5, <1>6

\* What is kept of a decoded body, part by part.
LEMMA KeptOfDecoded ==
    ASSUME NEW choice, choice.calls \in Seq(CallType), choice.details \in BOOLEAN,
           NEW body, choice = body.choices[1], NEW values
    PROVE  Kept(Decode(body).content, "type", values)
             = Optional(choice.text # "" /\ "text" \in values, TextBlock(choice))
               \o (IF "tool_use" \in values THEN UseBlocks(choice) ELSE <<>>)
               \o Optional(choice.details /\ "provider_metadata" \in values, Metadata)
<1>1. PICK U : U = UseBlocks(choice)
    OBVIOUS
<1>2. PICK t : t = TextBlock(choice)
    OBVIOUS
<1>3. PICK T : T = {t, Metadata} \cup UseType
    OBVIOUS
<1>4. PICK hasText \in BOOLEAN : hasText = (choice.text # "")
    OBVIOUS
<1>5. PICK A : A = Optional(hasText, t)
    OBVIOUS
<1>6. PICK B : B = Optional(choice.details, Metadata)
    OBVIOUS
<1>12. U \in Seq(UseType) /\ U \in Seq(T) /\ A \in Seq(T) /\ B \in Seq(T)
    <2>1. U \in Seq(UseType)
        BY <1>1, UseBlocksAre
    <2>2. UseType \subseteq T /\ t \in T /\ Metadata \in T
        BY <1>3
    <2>3. U \in Seq(T)
        BY <2>1, <2>2, SeqMonotonic
    <2> QED
        BY <2>1, <2>2, <2>3, <1>5, <1>6, OptionalIsSeq
<1>7. Decode(body).content = A \o U \o B
    BY <1>1, <1>2, <1>4, <1>5, <1>6, DecodeIs
<1>8. Kept(A \o U \o B, "type", values)
        = Kept(A, "type", values) \o Kept(U, "type", values) \o Kept(B, "type", values)
    <2>1. PICK AU : AU = A \o U
        OBVIOUS
    <2>2. AU \in Seq(T)
        BY <2>1, <1>12, ConcatProperties
    <2>3. Kept(AU, "type", values) = Kept(A, "type", values) \o Kept(U, "type", values)
        BY <2>1, <1>12, KeptOfConcat
    <2>4. Kept(AU \o B, "type", values) = Kept(AU, "type", values) \o Kept(B, "type", values)
        BY <2>2, <1>12, KeptOfConcat
    <2> QED
        BY <2>1, <2>3, <2>4
<1>9. Kept(A, "type", values) = Optional(hasText /\ "text" \in values, t)
    <2>1. t["type"] = "text"
        BY <1>2 DEF TextBlock
    <2> QED
        BY <2>1, <1>5, KeptOfOptional
<1>10. Kept(B, "type", values)
         = Optional(choice.details /\ "provider_metadata" \in values, Metadata)
    <2>1. Metadata["type"] = "provider_metadata"
        BY DEF Metadata
    <2> QED
        BY <2>1, <1>6, KeptOfOptional
<1>11. Kept(U, "type", values) = IF "tool_use" \in values THEN U ELSE <<>>
    <2>1. \A b \in UseType : b["type"] = "tool_use"
        BY DEF UseType
    <2>2. CASE "tool_use" \in values
        BY <2>1, <2>2, <1>12, KeptAll
    <2>3. CASE "tool_use" \notin values
        BY <2>1, <2>3, <1>12, KeptNone
    <2> QED
        BY <2>2, <2>3
<1> QED
    BY <1>1, <1>2, <1>4, <1>7, <1>8, <1>9, <1>10, <1>11

\* The parts the two requests are built from.
LEMMA PartsOfDecoded ==
    ASSUME NEW choice, choice.calls \in Seq(CallType), choice.details \in BOOLEAN,
           NEW body, choice = body.choices[1]
    PROVE  LET D == Decode(body).content
           IN  /\ ToolUses(D) = UseBlocks(choice)
               /\ Kept(D, "type", {"text"}) = Optional(choice.text # "", TextBlock(choice))
               /\ Kept(D, "type", {"provider_metadata"}) = Optional(choice.details, Metadata)
               /\ Kept(D, "type", SentTypes) = Optional(choice.text # "", TextBlock(choice))
                                               \o UseBlocks(choice)
<1>1. PICK U \in Seq(UseType) : U = UseBlocks(choice)
    BY UseBlocksAre
<1>2. PICK t : t = TextBlock(choice)
    OBVIOUS
<1>3. PICK D : D = Decode(body).content
    OBVIOUS
<1>4. ASSUME NEW T, NEW s \in Seq(T) PROVE <<>> \o s = s /\ s \o <<>> = s
    BY ConcatEmptySeq
<1>5. \A c \in BOOLEAN : Optional(c, t) \in Seq({t}) /\ Optional(c, Metadata) \in Seq({Metadata})
    BY OptionalIsSeq
<1>6. Optional(FALSE, t) = <<>> /\ Optional(FALSE, Metadata) = <<>>
    BY DEF Optional
<1>7. ASSUME NEW values
      PROVE  Kept(D, "type", values)
               = Optional(choice.text # "" /\ "text" \in values, t)
                 \o (IF "tool_use" \in values THEN U ELSE <<>>)
                 \o Optional(choice.details /\ "provider_metadata" \in values, Metadata)
    <2>1. Kept(Decode(body).content, "type", values)
            = Optional(choice.text # "" /\ "text" \in values, TextBlock(choice))
              \o (IF "tool_use" \in values THEN UseBlocks(choice) ELSE <<>>)
              \o Optional(choice.details /\ "provider_metadata" \in values, Metadata)
        BY KeptOfDecoded DEF Optional
    <2> QED
        BY <2>1, <1>1, <1>2, <1>3, Zenon
<1>8. ToolUses(D) = U
    <2>1. "text" \notin {"tool_use"} /\ "provider_metadata" \notin {"tool_use"}
        OBVIOUS
    <2>2. Kept(D, "type", {"tool_use"}) = <<>> \o U \o <<>>
        BY <2>1, <1>7 DEF Optional
    <2> QED
        BY <2>2, <1>4 DEF ToolUses
<1>9. Kept(D, "type", {"text"}) = Optional(choice.text # "", t)
    <2>1. "tool_use" \notin {"text"} /\ "provider_metadata" \notin {"text"}
        OBVIOUS
    <2>2. PICK k : k = Optional(choice.text # "", t)
        OBVIOUS
    <2>3. k \in Seq({t}) /\ k = Optional(choice.text # "" /\ "text" \in {"text"}, t)
        BY <2>2, <1>5 DEF Optional
    <2>4. Kept(D, "type", {"text"}) = k \o <<>> \o <<>>
        BY <2>1, <2>3, <1>7 DEF Optional
    <2> QED
        BY <2>2, <2>3, <2>4, <1>4
<1>10. Kept(D, "type", {"provider_metadata"}) = Optional(choice.details, Metadata)
    <2>1. "tool_use" \notin {"provider_metadata"} /\ "text" \notin {"provider_metadata"}
        OBVIOUS
    <2>2. PICK k : k = Optional(choice.details, Metadata)
        OBVIOUS
    <2>3. /\ k \in Seq({Metadata})
          /\ k = Optional(choice.details /\ "provider_metadata" \in {"provider_metadata"}, Metadata)
        BY <2>2, <1>5 DEF Optional
    <2>4. Kept(D, "type", {"provider_metadata"}) = <<>> \o <<>> \o k
        BY <2>1, <2>3, <1>7 DEF Optional
    <2> QED
        BY <2>2, <2>3, <2>4, <1>4
<1>11. Kept(D, "type", SentTypes) = Optional(choice.text # "", t) \o U
    <2>1. "tool_use" \in SentTypes /\ "text" \in SentTypes /\ "provider_metadata" \notin SentTypes
        BY DEF SentTypes, DecodedTypes, ThinkingTypes
    <2>2. PICK k : k = Optional(choice.text # "", t)
        OBVIOUS
    <2>3. PICK T : T = {t} \cup UseType
        OBVIOUS
    <2>4. k \in Seq({t}) /\ k = Optional(choice.text # "" /\ "text" \in SentTypes, t)
        BY <2>1, <2>2, <1>5 DEF Optional
    <2>5. k \in Seq(T) /\ U \in Seq(T)
        BY <2>3, <2>4, SeqMonotonic
    <2>6. k \o U \in Seq(T)
        BY <2>5, ConcatProperties
    <2>7. Kept(D, "type", SentTypes) = k \o U \o <<>>
        BY <2>1, <2>4, <1>7 DEF Optional
    <2> QED
        BY <2>2, <2>6, <2>7, <1>4
<1> QED
    BY <1>1, <1>2, <1>3, <1>8, <1>9, <1>10, <1>11

\* A filter keeps something if a member qualifies.
LEMMA KeptNotEmpty ==
    ASSUME NEW T, NEW s \in Seq(T), NEW field, NEW values
    PROVE  (\E i \in DOMAIN s : s[i][field] \in values) <=> Kept(s, field, values) # <<>>
<1>1. PICK k \in Seq(T) : k = Kept(s, field, values)
    BY KeptIsSeq
<1>2. Range(k) = {e \in Range(s) : e[field] \in values}
    BY <1>1, KeptRange
<1>3. k # <<>> <=> Range(k) # {}
    <2>1. k # <<>> => 1 \in DOMAIN k
        BY <1>1, EmptySeq
    <2>2. k = <<>> => DOMAIN k = {}
        OBVIOUS
    <2> QED
        BY <2>1, <2>2 DEF Range
<1>4. (\E i \in DOMAIN s : s[i][field] \in values) <=> {e \in Range(s) : e[field] \in values} # {}
    BY DEF Range
<1> QED
    BY <1>1, <1>2, <1>3, <1>4

-----------------------------------------------------------------------------
\* What an assistant may have said: no results, and uses with all they need.
IsSaid(content) ==
    /\ content \in Seq(Range(content))
    /\ \A b \in Range(content) : /\ b.type # "tool_result"
                                 /\ b.type = "tool_use" => b \in UseType

\* A decoded body of OpenRouter has no results, and uses with all they need.
LEMMA ChatReplyIsSaid ==
    ASSUME NEW choice, choice.calls \in Seq(CallType), choice.details \in BOOLEAN,
           NEW body, choice = body.choices[1]
    PROVE  IsSaid(Decode(body).content)
<1>1. PICK U \in Seq(UseType) : U = UseBlocks(choice)
    BY UseBlocksAre
<1>2. PICK t : t = TextBlock(choice)
    OBVIOUS
<1>3. PICK T : T = {t, Metadata} \cup UseType
    OBVIOUS
<1>4. PICK A : A = Optional(choice.text # "", t)
    OBVIOUS
<1>5. PICK B : B = Optional(choice.details, Metadata)
    OBVIOUS
<1>6. PICK D : D = Decode(body).content
    OBVIOUS
<1>7. D = A \o U \o B
    BY <1>1, <1>2, <1>4, <1>5, <1>6, DecodeIs
<1>8. A \in Seq(T) /\ U \in Seq(T) /\ B \in Seq(T)
    <2>1. UseType \subseteq T /\ t \in T /\ Metadata \in T
        BY <1>3
    <2>2. A \in Seq(T)
        BY <2>1, <1>4, OptionalIsSeq
    <2>3. B \in Seq(T)
        BY <2>1, <1>5, OptionalIsSeq
    <2> QED
        BY <2>1, <2>2, <2>3, SeqMonotonic
<1>9. D \in Seq(T)
    <2>1. A \o U \in Seq(T)
        BY <1>8, ConcatProperties
    <2> QED
        BY <2>1, <1>7, <1>8, ConcatProperties
<1>10. D \in Seq(Range(D)) /\ Range(D) \subseteq T
    <2>1. Range(D) \subseteq T
        BY <1>9 DEF Range
    <2> QED
        BY <2>1, <1>9, SeqOfRange
<1>11. \A b \in T : b.type # "tool_result" /\ (b.type = "tool_use" => b \in UseType)
    <2>1. t.type = "text" /\ Metadata.type = "provider_metadata"
        BY <1>2 DEF TextBlock, Metadata
    <2>2. \A b \in UseType : b.type = "tool_use"
        BY DEF UseType
    <2> QED
        BY <2>1, <2>2, <1>3
<1> QED
    BY <1>6, <1>10, <1>11 DEF IsSaid

\* To OpenRouter goes what it sent.
LEMMA ChatReplyInChat ==
    ASSUME NEW choice, choice.calls \in Seq(CallType), choice.details \in BOOLEAN,
           NEW body, choice = body.choices[1]
    PROVE  AssistantMessage(Decode(body).content)
             = InChat([from |-> "openrouter", choice |-> choice])
<1>1. PICK U \in Seq(UseType) : U = UseBlocks(choice)
    BY UseBlocksAre
<1>2. PICK D : D = Decode(body).content
    OBVIOUS
<1>3. /\ ToolUses(D) = U
      /\ Kept(D, "type", {"text"}) = Optional(choice.text # "", TextBlock(choice))
      /\ Kept(D, "type", {"provider_metadata"}) = Optional(choice.details, Metadata)
    BY <1>1, <1>2, PartsOfDecoded
<1>4. Texts(D) = Optional(choice.text # "", choice.text)
    <2>1. PICK k : k = Kept(D, "type", {"text"})
        OBVIOUS
    <2>2. Texts(D) = [i \in DOMAIN k |-> k[i].text]
        BY <2>1 DEF Texts
    <2>3. CASE choice.text # ""
        <3>1. PICK t : t = TextBlock(choice)
            OBVIOUS
        <3>2. t.text = choice.text
            BY <3>1 DEF TextBlock
        <3>3. k = <<t>>
            BY <2>1, <2>3, <3>1, <1>3 DEF Optional
        <3>4. [i \in DOMAIN k |-> k[i].text] = <<t.text>>
            BY <3>3
        <3> QED
            BY <2>2, <2>3, <3>2, <3>4 DEF Optional
    <2>4. CASE choice.text = ""
        <3>1. k = <<>>
            BY <2>1, <2>4, <1>3 DEF Optional
        <3>2. [i \in DOMAIN k |-> k[i].text] = <<>>
            BY <3>1
        <3> QED
            BY <2>2, <2>4, <3>2 DEF Optional
    <2> QED
        BY <2>3, <2>4
<1>5. Calls(D) = Arguments(choice.calls)
    <2>1. DOMAIN U = DOMAIN choice.calls
        BY <1>1 DEF UseBlocks
    <2>2. ASSUME NEW i \in DOMAIN choice.calls
          PROVE  [id |-> U[i].id, args |-> ToolArguments(U[i].input)]
                   = [choice.calls[i] EXCEPT !.args = ToolArguments(@)]
        <3>1. PICK c \in CallType : c = choice.calls[i]
            OBVIOUS
        <3>2. U[i].id = c.id /\ U[i].input = ToolArguments(c.args)
            BY <1>1, <3>1 DEF UseBlocks
        <3>3. ToolArguments(ToolArguments(c.args)) = ToolArguments(c.args)
            BY ArgumentsAreStrings DEF CallType
        <3>4. [id |-> c.id, args |-> ToolArguments(c.args)] = [c EXCEPT !.args = ToolArguments(@)]
            BY DEF CallType
        <3> QED
            BY <3>1, <3>2, <3>3, <3>4
    <2> QED
        BY <2>1, <2>2, <1>3 DEF Calls, Arguments
<1>6. (\E i \in DOMAIN D : D[i].type = "provider_metadata") <=> choice.details
    <2>1. PICK T : D \in Seq(T)
        BY <1>2, ChatReplyIsSaid DEF IsSaid
    <2>2. (\E i \in DOMAIN D : D[i]["type"] \in {"provider_metadata"})
            <=> Kept(D, "type", {"provider_metadata"}) # <<>>
        BY <2>1, KeptNotEmpty
    <2>3. Optional(choice.details, Metadata) # <<>> <=> choice.details
        BY Singleton DEF Optional
    <2> QED
        BY <2>2, <2>3, <1>3
<1>7. PICK d \in BOOLEAN : d = choice.details
    OBVIOUS
<1>8. AssistantMessage(D) = WireMessage("assistant", Texts(D), Calls(D), d, "")
    <2>1. (\E i \in DOMAIN D : D[i].type = "provider_metadata") = d
        BY <1>6, <1>7
    <2> QED
        BY <2>1 DEF AssistantMessage
<1>9. InChat([from |-> "openrouter", choice |-> choice])
        = WireMessage("assistant", Optional(choice.text # "", choice.text),
                      Arguments(choice.calls), d, "")
    BY <1>7 DEF InChat
<1> QED
    BY <1>2, <1>4, <1>5, <1>8, <1>9

\* The blocks of toMessageParam.
ConvertBlock(b) == IF b.type = "tool_use" /\ b.input = "" THEN [b EXCEPT !.input = "{}"] ELSE b

\* ToMessageParam, in the names of this module.
LEMMA ToMessageParamIs ==
    ASSUME NEW role, NEW content, NEW sent, sent = Kept(content, "type", SentTypes)
    PROVE  ToMessageParam([role |-> role, content |-> content])
             = MessageParam(role, [i \in DOMAIN sent |-> ConvertBlock(sent[i])])
BY DEF ToMessageParam, ConvertBlock

\* To Anthropic goes what OpenRouter sent, but for its metadata.
LEMMA ChatReplyInMessages ==
    ASSUME NEW choice, choice.calls \in Seq(CallType), choice.details \in BOOLEAN,
           NEW body, choice = body.choices[1]
    PROVE  ToMessageParam([role |-> "assistant", content |-> Decode(body).content])
             = InMessages([from |-> "openrouter", choice |-> choice])
<1>1. PICK U \in Seq(FullUses) : U = UseBlocks(choice)
    BY UseBlocksAre
<1>2. PICK t : t = TextBlock(choice)
    OBVIOUS
<1>3. PICK A : A = Optional(choice.text # "", t)
    OBVIOUS
<1>4. PICK sent : sent = A \o U
    OBVIOUS
<1>5. Kept(Decode(body).content, "type", SentTypes) = sent
    BY <1>1, <1>2, <1>3, <1>4, PartsOfDecoded
<1>6. PICK T : T = {t} \cup FullUses
    OBVIOUS
<1>7. sent \in Seq(T)
    <2>1. t \in T /\ FullUses \subseteq T
        BY <1>6
    <2>2. A \in Seq(T)
        BY <2>1, <1>3, OptionalIsSeq
    <2>3. U \in Seq(T)
        BY <2>1, SeqMonotonic
    <2> QED
        BY <2>2, <2>3, <1>4, ConcatProperties
<1>8. ASSUME NEW b \in T PROVE ConvertBlock(b) = b
    <2>1. CASE b = t
        BY <2>1, <1>2 DEF ConvertBlock, TextBlock
    <2>2. CASE b \in FullUses
        BY <2>2 DEF ConvertBlock, FullUses
    <2> QED
        BY <2>1, <2>2, <1>6
<1>9. [i \in DOMAIN sent |-> ConvertBlock(sent[i])] = sent
    BY <1>7, <1>8
<1>10. PICK calls : calls = Arguments(choice.calls)
    OBVIOUS
<1>11. [i \in DOMAIN calls |-> [type |-> "tool_use", id |-> calls[i].id, input |-> calls[i].args]]
         = U
    <2>1. DOMAIN calls = DOMAIN choice.calls
        BY <1>10 DEF Arguments
    <2>2. ASSUME NEW i \in DOMAIN choice.calls
          PROVE  calls[i].id = choice.calls[i].id
                 /\ calls[i].args = ToolArguments(choice.calls[i].args)
        <3>1. PICK c \in CallType : c = choice.calls[i]
            OBVIOUS
        <3>2. calls[i] = [c EXCEPT !.args = ToolArguments(c.args)]
            BY <3>1, <1>10 DEF Arguments
        <3> QED
            BY <3>1, <3>2 DEF CallType
    <2> QED
        BY <2>1, <2>2, <1>1 DEF UseBlocks
<1>12. InMessages([from |-> "openrouter", choice |-> choice]) = MessageParam("assistant", A \o U)
    <2>1. PICK r : r = [from |-> "openrouter", choice |-> choice]
        OBVIOUS
    <2>2. r.from # "anthropic" /\ r.choice = choice
        BY <2>1
    <2>3. A = Optional(r.choice.text # "", [type |-> "text", text |-> r.choice.text])
        BY <2>2, <1>2, <1>3 DEF TextBlock
    <2>4. InMessages(r) = MessageParam("assistant", A \o U)
        BY <2>2, <2>3, <1>10, <1>11 DEF InMessages
    <2> QED
        BY <2>1, <2>4
<1>13. ToMessageParam([role |-> "assistant", content |-> Decode(body).content])
         = MessageParam("assistant", [i \in DOMAIN sent |-> ConvertBlock(sent[i])])
    BY <1>5, ToMessageParamIs
<1> QED
    BY <1>4, <1>9, <1>12, <1>13

\* A message of Anthropic, to Anthropic and to OpenRouter.
LEMMA MessagesReplyIs ==
    ASSUME NEW body, body.blocks \in Seq(Range(body.blocks)),
           \A b \in Range(body.blocks) : b.type = "tool_use" => b \in UseType
    PROVE  LET D == DecodeMessage(body).content
           IN  /\ IsSaid(D)
               /\ ToolUses(D) = ToolUses(body.blocks)
               /\ AssistantMessage(D) = InChat([from |-> "anthropic", blocks |-> body.blocks])
               /\ ToMessageParam([role |-> "assistant", content |-> D])
                    = InMessages([from |-> "anthropic", blocks |-> body.blocks])
<1>1. PICK s : s = body.blocks
    OBVIOUS
<1>2. PICK T : T = Range(s)
    OBVIOUS
<1>3. s \in Seq(T)
    BY <1>1, <1>2
<1>4. PICK D : D = DecodeMessage(body).content
    OBVIOUS
<1>5. D = Kept(s, "type", DecodedTypes)
    BY <1>1, <1>4 DEF DecodeMessage
<1>6. D \in Seq(T) /\ Range(D) = {b \in T : b["type"] \in DecodedTypes}
    <2>1. D \in Seq(T)
        BY <1>3, <1>5, KeptIsSeq
    <2>2. Range(D) = {b \in Range(s) : b["type"] \in DecodedTypes}
        BY <1>3, <1>5, KeptRange
    <2> QED
        BY <2>1, <2>2, <1>2
<1>7. IsSaid(D)
    <2>1. D \in Seq(Range(D))
        BY <1>6, SeqOfRange
    <2>2. ASSUME NEW b \in Range(D)
          PROVE  b.type # "tool_result" /\ (b.type = "tool_use" => b \in UseType)
        BY <1>1, <1>2, <1>6 DEF DecodedTypes, ThinkingTypes
    <2> QED
        BY <2>1, <2>2 DEF IsSaid
<1>8. ASSUME NEW values PROVE Kept(D, "type", values) = Kept(s, "type", DecodedTypes \cap values)
    BY <1>3, <1>5, KeptOfKept
<1>9. ToolUses(D) = ToolUses(s)
    <2>1. DecodedTypes \cap {"tool_use"} = {"tool_use"}
        BY DEF DecodedTypes
    <2> QED
        BY <2>1, <1>8 DEF ToolUses
<1>10. Texts(D) = Texts(s)
    <2>1. DecodedTypes \cap {"text"} = {"text"}
        BY DEF DecodedTypes
    <2> QED
        BY <2>1, <1>8 DEF Texts
<1>11. Calls(D) = Calls(s)
    BY <1>9 DEF Calls
<1>12. ~(\E i \in DOMAIN D : D[i].type = "provider_metadata")
    BY <1>6 DEF DecodedTypes, ThinkingTypes, Range
<1>13. AssistantMessage(D) = WireMessage("assistant", Texts(s), Calls(s), FALSE, "")
    <2>1. (\E i \in DOMAIN D : D[i].type = "provider_metadata") = FALSE
        BY <1>12
    <2> QED
        BY <2>1, <1>10, <1>11 DEF AssistantMessage
<1>14. PICK r : r = [from |-> "anthropic", blocks |-> s]
    OBVIOUS
<1>15. r.from = "anthropic" /\ r.from # "openrouter" /\ r.blocks = s
    BY <1>14
<1>16. AssistantMessage(D) = InChat(r)
    BY <1>13, <1>15 DEF InChat
<1>17. Kept(D, "type", SentTypes) = D
    <2>1. DecodedTypes \cap SentTypes = DecodedTypes
        BY DEF SentTypes
    <2> QED
        BY <2>1, <1>5, <1>8
<1>18. ToMessageParam([role |-> "assistant", content |-> D])
         = MessageParam("assistant", [i \in DOMAIN D |-> ConvertBlock(D[i])])
    BY <1>17, ToMessageParamIs
<1>19. ASSUME NEW b \in Range(D)
       PROVE  ConvertBlock(b) = IF b.type = "tool_use" THEN [b EXCEPT !.input = ToolArguments(@)]
                                ELSE b
    <2>1. CASE b.type = "tool_use"
        <3>1. b \in UseType
            BY <2>1, <1>7 DEF IsSaid
        <3>2. CASE b.input = ""
            BY <2>1, <3>1, <3>2 DEF ConvertBlock, ToolArguments
        <3>3. CASE b.input # ""
            BY <2>1, <3>1, <3>3 DEF ConvertBlock, ToolArguments, UseType
        <3> QED
            BY <3>2, <3>3
    <2>2. CASE b.type # "tool_use"
        BY <2>2 DEF ConvertBlock
    <2> QED
        BY <2>1, <2>2
<1>20. [i \in DOMAIN D |-> ConvertBlock(D[i])]
         = [i \in DOMAIN D |-> IF D[i].type = "tool_use" THEN [D[i] EXCEPT !.input = ToolArguments(@)]
                               ELSE D[i]]
    BY <1>19 DEF Range
<1>21. {"text", "thinking", "redacted_thinking", "tool_use"} = DecodedTypes
    BY DEF DecodedTypes, ThinkingTypes
<1>22. InMessages(r)
         = MessageParam("assistant",
               [i \in DOMAIN D |-> IF D[i].type = "tool_use" THEN [D[i] EXCEPT !.input = ToolArguments(@)]
                                   ELSE D[i]])
    BY <1>5, <1>15, <1>21 DEF InMessages
<1> QED
    BY <1>1, <1>4, <1>7, <1>9, <1>14, <1>16, <1>18, <1>20, <1>22

-----------------------------------------------------------------------------
\* Two paired requests of Chat Completions are paired when joined.
LEMMA ChatPairedJoin ==
    ASSUME NEW M, \A m \in M : DOMAIN m.calls \subseteq Nat,
           NEW P \in Seq(M), NEW Q \in Seq(M), ChatPaired(P), ChatPaired(Q)
    PROVE  ChatPaired(P \o Q)
<1>1. PICK R : R = P \o Q
    OBVIOUS
<1>2. PICK p \in Nat : p = Len(P)
    OBVIOUS
<1>3. /\ R \in Seq(M) /\ Len(R) = p + Len(Q)
      /\ \A i \in 1 .. p : i \in DOMAIN P /\ R[i] = P[i]
      /\ \A i \in DOMAIN Q : p + i \in DOMAIN R /\ R[p + i] = Q[i]
    BY <1>1, <1>2
<1>4. \A i \in DOMAIN R : i \in 1 .. p \/ (i - p \in DOMAIN Q /\ p + (i - p) = i)
    BY <1>3
<1>5. ASSUME NEW i \in DOMAIN R, R[i].role = "tool"
      PROVE  \E a \in 1 .. i - 1 : /\ R[a].role = "assistant" /\ i - a \in DOMAIN R[a].calls
                                   /\ R[i].callId = R[a].calls[i - a].id
    <2>1. CASE i \in 1 .. p
        <3>1. i \in DOMAIN P /\ P[i] = R[i]
            BY <2>1, <1>3
        <3>2. PICK a \in 1 .. i - 1 : /\ P[a].role = "assistant" /\ i - a \in DOMAIN P[a].calls
                                      /\ P[i].callId = P[a].calls[i - a].id
            BY <3>1, <1>5 DEF ChatPaired
        <3>3. a \in 1 .. p
            BY <2>1
        <3>4. R[a] = P[a]
            BY <3>3, <1>3
        <3> QED
            BY <3>1, <3>2, <3>4
    <2>2. CASE i - p \in DOMAIN Q /\ p + (i - p) = i
        <3>1. PICK j \in DOMAIN Q : j = i - p /\ i = p + j
            BY <2>2
        <3>2. Q[j] = R[i]
            BY <3>1, <1>3
        <3>3. PICK b \in 1 .. j - 1 : /\ Q[b].role = "assistant" /\ j - b \in DOMAIN Q[b].calls
                                      /\ Q[j].callId = Q[b].calls[j - b].id
            BY <3>2, <1>5 DEF ChatPaired
        <3>4. b \in DOMAIN Q /\ p + b \in 1 .. i - 1 /\ i - (p + b) = j - b
            BY <3>1
        <3>5. R[p + b] = Q[b]
            BY <3>4, <1>3
        <3>6. PICK a \in 1 .. i - 1 : a = p + b
            BY <3>4
        <3> QED
            BY <3>2, <3>3, <3>4, <3>5, <3>6
    <2> QED
        BY <2>1, <2>2, <1>4
<1>6. ASSUME NEW a \in DOMAIN R, NEW k \in DOMAIN R[a].calls
      PROVE  /\ a + k \in DOMAIN R /\ (a + k) - a \in DOMAIN R[a].calls
             /\ R[a + k].role = "tool" /\ R[a + k].callId = R[a].calls[(a + k) - a].id
    <2>0. k \in Nat /\ (a + k) - a = k
        BY <1>3
    <2>1. CASE a \in 1 .. p
        <3>1. a \in DOMAIN P /\ P[a] = R[a]
            BY <2>1, <1>3
        <3>2. /\ a + k \in DOMAIN P /\ P[a + k].role = "tool"
              /\ P[a + k].callId = P[a].calls[(a + k) - a].id
            BY <3>1 DEF ChatPaired
        <3>3. a + k \in 1 .. p
            BY <3>2, <1>2
        <3>4. R[a + k] = P[a + k] /\ a + k \in DOMAIN R
            BY <3>3, <1>3
        <3> QED
            BY <2>0, <3>1, <3>2, <3>4
    <2>2. CASE a - p \in DOMAIN Q /\ p + (a - p) = a
        <3>1. PICK b \in DOMAIN Q : b = a - p /\ a = p + b
            BY <2>2
        <3>2. Q[b] = R[a]
            BY <3>1, <1>3
        <3>3. /\ b + k \in DOMAIN Q /\ Q[b + k].role = "tool"
              /\ Q[b + k].callId = Q[b].calls[(b + k) - b].id
            BY <3>2 DEF ChatPaired
        <3>4. (b + k) - b = k /\ p + (b + k) = a + k
            BY <2>0, <3>1
        <3>5. R[a + k] = Q[b + k] /\ a + k \in DOMAIN R
            BY <3>3, <3>4, <1>3
        <3> QED
            BY <2>0, <3>2, <3>3, <3>4, <3>5
    <2> QED
        BY <2>1, <2>2, <1>4
<1>7. ChatPaired(R)
    BY <1>5, <1>6 DEF ChatPaired
<1> QED
    BY <1>1, <1>7

\* So are two paired requests of the Messages API.
LEMMA MessagesPairedJoin ==
    ASSUME NEW M, NEW P \in Seq(M), NEW Q \in Seq(M), MessagesPaired(P), MessagesPaired(Q)
    PROVE  MessagesPaired(P \o Q)
<1> DEFINE Uses(m)    == {b.id : b \in {c \in Range(m.blocks) : c.type = "tool_use"}}
           Results(m) == {b.callId : b \in {c \in Range(m.blocks) : c.type = "tool_result"}}
           Asked(S, i)    == IF i = 0 THEN {} ELSE Uses(S[i])
           Answered(S, i) == IF i = Len(S) THEN {} ELSE Results(S[i + 1])
<1>1. PICK R : R = P \o Q
    OBVIOUS
<1>2. PICK p \in Nat : p = Len(P)
    OBVIOUS
<1>3. PICK q \in Nat : q = Len(Q)
    OBVIOUS
<1>4. /\ Len(R) = p + q
      /\ \A i \in 1 .. p : R[i] = P[i]
      /\ \A i \in 1 .. q : R[p + i] = Q[i]
    BY <1>1, <1>2, <1>3
<1>5. \A i \in 0 .. p : Asked(P, i) = Answered(P, i)
    BY <1>2 DEF MessagesPaired
<1>6. \A i \in 0 .. q : Asked(Q, i) = Answered(Q, i)
    BY <1>3 DEF MessagesPaired
<1> HIDE DEF Uses, Results
<1>7. ASSUME NEW i \in 0 .. p + q PROVE Asked(R, i) = Answered(R, i)
    <2>1. CASE i < p
        <3>1. i + 1 \in 1 .. p /\ i # Len(R) /\ i # Len(P) /\ (i # 0 => i \in 1 .. p)
            BY <2>1, <1>2, <1>4
        <3>2. Asked(R, i) = Asked(P, i) /\ Answered(R, i) = Answered(P, i)
            BY <3>1, <1>4
        <3> QED
            BY <2>1, <3>2, <1>5
    <2>2. CASE i = p
        <3>1. Answered(P, p) = {} /\ Asked(Q, 0) = {}
            BY <1>2
        <3>2. Asked(P, p) = {} /\ Answered(Q, 0) = {}
            <4>1. p \in 0 .. p /\ 0 \in 0 .. q
                OBVIOUS
            <4> HIDE DEF Asked, Answered
            <4> QED
                BY <4>1, <3>1, <1>5, <1>6
        <3>3. Asked(R, p) = Asked(P, p)
            <4>1. p # 0 => p \in 1 .. p
                OBVIOUS
            <4> QED
                BY <4>1, <1>4
        <3>4. Answered(R, p) = Answered(Q, 0)
            <4>1. CASE q = 0
                BY <4>1, <1>3, <1>4
            <4>2. CASE q # 0
                <5>1. 1 \in 1 .. q /\ p # Len(R) /\ Len(Q) # 0
                    BY <4>2, <1>3, <1>4
                <5>2. R[p + 1] = Q[0 + 1]
                    BY <5>1, <1>4
                <5> QED
                    BY <5>1, <5>2
            <4> QED
                BY <4>1, <4>2
        <3> QED
            BY <2>2, <3>2, <3>3, <3>4
    <2>3. CASE i > p
        <3>1. PICK j \in 1 .. q : i = p + j
            <4>1. i - p \in 1 .. q /\ i = p + (i - p)
                BY <2>3
            <4> QED
                BY <4>1
        <3>2. Asked(R, i) = Asked(Q, j)
            BY <2>3, <3>1, <1>4
        <3>3. Answered(R, i) = Answered(Q, j)
            <4>1. CASE j = q
                BY <4>1, <3>1, <1>3, <1>4
            <4>2. CASE j # q
                <5>1. j + 1 \in 1 .. q /\ i # Len(R) /\ j # Len(Q) /\ i + 1 = p + (j + 1)
                    BY <4>2, <3>1, <1>3, <1>4
                <5>2. PICK k \in 1 .. q : k = j + 1
                    BY <5>1
                <5>3. R[p + k] = Q[k]
                    BY <1>4
                <5> QED
                    BY <5>1, <5>2, <5>3
            <4> QED
                BY <4>1, <4>2
        <3> QED
            BY <3>1, <3>2, <3>3, <1>6
    <2> QED
        BY <2>1, <2>2, <2>3
<1>8. MessagesPaired(R)
    BY <1>4, <1>7 DEF MessagesPaired, Uses, Results
<1> QED
    BY <1>1, <1>8

-----------------------------------------------------------------------------
\* An assistant's message and the results of its calls are a paired request.
LEMMA ChatExchange ==
    ASSUME NEW am, NEW C, NEW M, NEW R \in Seq(M), am.role = "assistant", am.calls \in Seq(C),
           Len(R) = Len(am.calls),
           \A i \in DOMAIN R : /\ R[i].role = "tool" /\ R[i].calls = <<>>
                               /\ R[i].callId = am.calls[i].id
    PROVE  ChatPaired(Optional(~IsEmpty(am), am) \o R)
<1>1. CASE IsEmpty(am)
    <2>1. Len(R) = 0
        BY <1>1 DEF IsEmpty
    <2>2. R = <<>>
        BY <2>1, EmptySeq
    <2>3. Optional(~IsEmpty(am), am) = <<>>
        BY <1>1 DEF Optional
    <2>4. <<>> \o <<>> = <<>>
        OBVIOUS
    <2>5. ChatPaired(<<>>)
        BY DEF ChatPaired
    <2> QED
        BY <2>2, <2>3, <2>4, <2>5
<1>2. CASE ~IsEmpty(am)
    <2>1. PICK n \in Nat : n = Len(R)
        OBVIOUS
    <2>2. PICK Q : Q = <<am>> \o R
        OBVIOUS
    <2>3. Optional(~IsEmpty(am), am) \o R = Q
        BY <1>2, <2>2 DEF Optional
    <2>4. Len(Q) = n + 1 /\ DOMAIN Q = 1 .. n + 1
        BY <2>1, <2>2
    <2>5. Q[1] = am /\ \A i \in 1 .. n : Q[1 + i] = R[i]
        BY <2>1, <2>2
    <2>6. DOMAIN am.calls = 1 .. n /\ DOMAIN R = 1 .. n
        BY <2>1
    <2>7. ASSUME NEW i \in 1 .. n
          PROVE  /\ Q[1 + i].role = "tool" /\ Q[1 + i].calls = <<>>
                 /\ Q[1 + i].callId = am.calls[i].id
        <3>1. Q[1 + i] = R[i] /\ i \in DOMAIN R
            BY <2>5, <2>6
        <3> QED
            BY <3>1
    <2>8. ASSUME NEW i \in DOMAIN Q, Q[i].role = "tool"
          PROVE  \E a \in 1 .. i - 1 : /\ Q[a].role = "assistant" /\ i - a \in DOMAIN Q[a].calls
                                       /\ Q[i].callId = Q[a].calls[i - a].id
        <3>1. i # 1
            BY <2>5, <2>8
        <3>2. PICK j \in 1 .. n : i = 1 + j /\ j = i - 1
            <4>1. i - 1 \in 1 .. n /\ i = 1 + (i - 1)
                BY <3>1, <2>4
            <4> QED
                BY <4>1
        <3>3. Q[i].callId = am.calls[j].id /\ j \in DOMAIN am.calls
            BY <3>2, <2>6, <2>7
        <3>4. 1 \in 1 .. i - 1
            BY <3>2
        <3> QED
            BY <3>2, <3>3, <3>4, <2>5
    <2>9. ASSUME NEW a \in DOMAIN Q, NEW k \in DOMAIN Q[a].calls
          PROVE  /\ a + k \in DOMAIN Q /\ (a + k) - a \in DOMAIN Q[a].calls
                 /\ Q[a + k].role = "tool" /\ Q[a + k].callId = Q[a].calls[(a + k) - a].id
        <3>1. CASE a = 1
            <4>1. k \in 1 .. n /\ (1 + k) - 1 = k
                BY <3>1, <2>5, <2>6
            <4>2. 1 + k \in DOMAIN Q
                BY <4>1, <2>4
            <4> QED
                BY <3>1, <4>1, <4>2, <2>5, <2>6, <2>7
        <3>2. CASE a # 1
            <4>1. PICK j \in 1 .. n : a = 1 + j
                <5>1. a - 1 \in 1 .. n /\ a = 1 + (a - 1)
                    BY <3>2, <2>4
                <5> QED
                    BY <5>1
            <4>2. Q[a].calls = <<>>
                BY <4>1, <2>7
            <4>3. DOMAIN <<>> = {}
                OBVIOUS
            <4> QED
                BY <4>2, <4>3
        <3> QED
            BY <3>1, <3>2
    <2>10. ChatPaired(Q)
        BY <2>8, <2>9 DEF ChatPaired
    <2> QED
        BY <2>3, <2>10
<1> QED
    BY <1>1, <1>2

\* In the Messages API these are one message each.
UsesIn(blocks)    == {b.id : b \in {c \in Range(blocks) : c.type = "tool_use"}}
ResultsIn(blocks) == {b.callId : b \in {c \in Range(blocks) : c.type = "tool_result"}}

\* Tool uses and the results that answer them, in the form of Anthropic.
LEMMA MessagesExchange ==
    ASSUME NEW A, NEW B, ResultsIn(A.blocks) = {}, UsesIn(B.blocks) = {},
           UsesIn(A.blocks) = ResultsIn(B.blocks)
    PROVE  MessagesPaired(<<A, B>>)
<1>1. PICK P : P = <<A, B>>
    OBVIOUS
<1>2. Len(P) = 2 /\ P[1] = A /\ P[2] = B
    BY <1>1
<1>3. ASSUME NEW i \in 0 .. 2
      PROVE  (IF i = 0 THEN {} ELSE UsesIn(P[i].blocks))
               = (IF i = 2 THEN {} ELSE ResultsIn(P[i + 1].blocks))
    <2>1. i = 0 \/ i = 1 \/ i = 2
        OBVIOUS
    <2> QED
        BY <2>1, <1>2
<1>4. MessagesPaired(P)
    BY <1>2, <1>3 DEF MessagesPaired, UsesIn, ResultsIn
<1> QED
    BY <1>1, <1>4

\* A message with neither, in the form of Anthropic.
LEMMA MessagesAlone ==
    ASSUME NEW A, ResultsIn(A.blocks) = {}, UsesIn(A.blocks) = {}
    PROVE  MessagesPaired(<<A>>)
<1>1. PICK P : P = <<A>>
    OBVIOUS
<1>2. Len(P) = 1 /\ P[1] = A
    BY <1>1
<1>3. ASSUME NEW i \in 0 .. 1
      PROVE  (IF i = 0 THEN {} ELSE UsesIn(P[i].blocks))
               = (IF i = 1 THEN {} ELSE ResultsIn(P[i + 1].blocks))
    <2>1. i = 0 \/ i = 1
        OBVIOUS
    <2> QED
        BY <2>1, <1>2
<1>4. MessagesPaired(P)
    BY <1>2, <1>3 DEF MessagesPaired, UsesIn, ResultsIn
<1> QED
    BY <1>1, <1>4

-----------------------------------------------------------------------------
\* The messages of a history: a user's words, what an assistant said, and the
\* answers to its calls.
Hello             == [role |-> "user", content |-> <<[type |-> "text", text |-> "hello"]>>]
Says(content)     == [role |-> "assistant", content |-> content]
ResultBlock(use)  == [type |-> "tool_result", callId |-> use.id, content |-> "result"]
ResultBlocks(content) ==
    LET calls == ToolUses(content) IN [i \in DOMAIN calls |-> ResultBlock(calls[i])]
Answers(content)  == [role |-> "user", content |-> ResultBlocks(content)]

\* The calls of what was said, and the results that answer them.
LEMMA CallsOfSaid ==
    ASSUME NEW content, IsSaid(content)
    PROVE  /\ ToolUses(content) \in Seq(UseType)
           /\ Range(ToolUses(content)) = {b \in Range(content) : b.type = "tool_use"}
<1>1. PICK T : T = Range(content)
    OBVIOUS
<1>2. content \in Seq(T)
    BY <1>1 DEF IsSaid
<1>3. PICK k : k = ToolUses(content)
    OBVIOUS
<1>4. k \in Seq(T)
    BY <1>2, <1>3, KeptIsSeq DEF ToolUses
<1>5. Range(k) = {b \in Range(content) : b["type"] \in {"tool_use"}}
    BY <1>2, <1>3, KeptRange DEF ToolUses
<1>6. Range(k) \subseteq UseType
    BY <1>5 DEF IsSaid
<1>7. k \in Seq(Range(k))
    BY <1>4, SeqOfRange
<1>8. k \in Seq(UseType)
    BY <1>6, <1>7, SeqMonotonic
<1> QED
    BY <1>3, <1>5, <1>8

\* One result for each call, in its place.
LEMMA ResultsOfSaid ==
    ASSUME NEW content, IsSaid(content)
    PROVE  /\ ResultBlocks(content) \in Seq({ResultBlock(u) : u \in UseType})
           /\ DOMAIN ResultBlocks(content) = DOMAIN ToolUses(content)
           /\ \A i \in DOMAIN ToolUses(content) :
                 ResultBlocks(content)[i] = ResultBlock(ToolUses(content)[i])
<1>1. PICK k \in Seq(UseType) : k = ToolUses(content)
    BY CallsOfSaid
<1>2. PICK S : S = {ResultBlock(u) : u \in UseType}
    OBVIOUS
<1>3. PICK n \in Nat : n = Len(k) /\ DOMAIN k = 1 .. n
    OBVIOUS
<1>4. \A i \in 1 .. n : ResultBlock(k[i]) \in S
    BY <1>2, <1>3
<1>5. PICK r : r = [i \in 1 .. n |-> ResultBlock(k[i])]
    OBVIOUS
<1>6. r \in Seq(S)
    BY <1>4, <1>5
<1>7. ResultBlocks(content) = r
    BY <1>1, <1>3, <1>5 DEF ResultBlocks
<1> QED
    BY <1>1, <1>2, <1>3, <1>5, <1>6, <1>7

\* For OpenRouter every call is answered by a tool message in its place.
LEMMA AnswersInChat ==
    ASSUME NEW content, IsSaid(content)
    PROVE  LET R == Converted(Answers(content))
           IN  /\ R \in Seq({ToolMessage(b) : b \in {ResultBlock(u) : u \in UseType}})
               /\ DOMAIN R = DOMAIN ToolUses(content)
               /\ \A i \in DOMAIN R : R[i] = ToolMessage(ResultBlock(ToolUses(content)[i]))
<1>1. PICK S : S = {ResultBlock(u) : u \in UseType}
    OBVIOUS
<1>2. PICK r \in Seq(S) : r = ResultBlocks(content)
    BY <1>1, ResultsOfSaid
<1>3. \A b \in S : b.type = "tool_result"
    BY <1>1 DEF ResultBlock
<1>4. UserMessages(r) = [i \in DOMAIN r |-> ToolMessage(r[i])]
    BY <1>3, ResultsAreMessages
<1>5. Converted(Answers(content)) = UserMessages(r)
    BY <1>2 DEF Converted, Answers
<1>6. PICK n \in Nat : n = Len(r) /\ DOMAIN r = 1 .. n
    OBVIOUS
<1>7. PICK W : W = {ToolMessage(b) : b \in S}
    OBVIOUS
<1>8. PICK R : R = [i \in 1 .. n |-> ToolMessage(r[i])]
    OBVIOUS
<1>9. R \in Seq(W)
    <2>1. \A i \in 1 .. n : ToolMessage(r[i]) \in W
        BY <1>6, <1>7
    <2> QED
        BY <2>1, <1>8
<1>10. Converted(Answers(content)) = R
    BY <1>4, <1>5, <1>6, <1>8
<1>11. /\ DOMAIN r = DOMAIN ToolUses(content)
       /\ \A i \in DOMAIN r : r[i] = ResultBlock(ToolUses(content)[i])
    BY <1>2, ResultsOfSaid
<1> QED
    BY <1>1, <1>6, <1>7, <1>8, <1>9, <1>10, <1>11

\* What was said and the answers to it are paired for OpenRouter.
LEMMA SaidIsPairedInChat ==
    ASSUME NEW content, IsSaid(content)
    PROVE  /\ ChatPaired(Converted(Says(content)) \o Converted(Answers(content)))
           /\ ToolUses(content) = <<>> => ChatPaired(Converted(Says(content)))
<1>1. PICK am : am = AssistantMessage(content)
    OBVIOUS
<1>2. Converted(Says(content)) = Optional(~IsEmpty(am), am)
    BY <1>1 DEF Converted, Says
<1>3. PICK k \in Seq(UseType) : k = ToolUses(content)
    BY CallsOfSaid
<1>4. PICK n \in Nat : n = Len(k) /\ DOMAIN k = 1 .. n
    OBVIOUS
<1>5. am.role = "assistant" /\ am.calls = Calls(content)
    BY <1>1 DEF AssistantMessage, WireMessage
<1>6. am.calls = [i \in 1 .. n |-> [id |-> k[i].id, args |-> ToolArguments(k[i].input)]]
    BY <1>3, <1>4, <1>5 DEF Calls
<1>7. PICK C : am.calls \in Seq(C) /\ Len(am.calls) = n
    <2>1. PICK C : C = {[id |-> k[i].id, args |-> ToolArguments(k[i].input)] : i \in 1 .. n}
        OBVIOUS
    <2>2. am.calls \in Seq(C) /\ Len(am.calls) = n
        BY <2>1, <1>6
    <2> QED
        BY <2>2
<1>8. PICK M : Converted(Answers(content)) \in Seq(M)
    BY AnswersInChat
<1>9. PICK R : R = Converted(Answers(content))
    OBVIOUS
<1>10. R \in Seq(M) /\ DOMAIN R = 1 .. n
    BY <1>3, <1>4, <1>8, <1>9, AnswersInChat
<1>11. ASSUME NEW i \in DOMAIN R
       PROVE  /\ R[i].role = "tool" /\ R[i].calls = <<>>
              /\ R[i].callId = am.calls[i].id
    <2>1. R[i] = ToolMessage(ResultBlock(k[i]))
        BY <1>3, <1>9, AnswersInChat
    <2>2. am.calls[i].id = k[i].id
        BY <1>6, <1>10
    <2> QED
        BY <2>1, <2>2 DEF ToolMessage, ResultBlock, WireMessage
<1>12. Len(R) = Len(am.calls)
    BY <1>7, <1>10
<1>13. ChatPaired(Optional(~IsEmpty(am), am) \o R)
    BY <1>5, <1>7, <1>10, <1>11, <1>12, ChatExchange
<1>14. ASSUME k = <<>> PROVE ChatPaired(Converted(Says(content)))
    <2>1. n = 0
        BY <1>4, <1>14
    <2>2. R = <<>>
        BY <2>1, <1>10, EmptySeq
    <2>3. PICK o \in Seq({am}) : o = Optional(~IsEmpty(am), am)
        BY OptionalIsSeq DEF IsEmpty
    <2>4. o \o <<>> = o
        BY <2>3, ConcatEmptySeq
    <2> QED
        BY <2>2, <2>3, <2>4, <1>2, <1>13
<1> QED
    BY <1>2, <1>3, <1>9, <1>13, <1>14

\* For Anthropic what was said is an assistant's message with its uses, no result.
LEMMA SaysInMessages ==
    ASSUME NEW content, IsSaid(content)
    PROVE  LET A == ToMessageParam(Says(content))
           IN  /\ A.role = "assistant"
               /\ ResultsIn(A.blocks) = {}
               /\ UsesIn(A.blocks) = {u.id : u \in Range(ToolUses(content))}
<1>1. PICK T : T = Range(content)
    OBVIOUS
<1>2. content \in Seq(T)
    BY <1>1 DEF IsSaid
<1>3. PICK sent : sent = Kept(content, "type", SentTypes)
    OBVIOUS
<1>4. sent \in Seq(T) /\ Range(sent) = {b \in Range(content) : b["type"] \in SentTypes}
    <2>1. sent \in Seq(T)
        BY <1>2, <1>3, KeptIsSeq
    <2>2. Range(sent) = {b \in Range(content) : b["type"] \in SentTypes}
        BY <1>2, <1>3, KeptRange
    <2> QED
        BY <2>1, <2>2
<1>5. PICK blocks : blocks = [i \in DOMAIN sent |-> ConvertBlock(sent[i])]
    OBVIOUS
<1>6. PICK A : A = ToMessageParam(Says(content))
    OBVIOUS
<1>7. A = MessageParam("assistant", blocks)
    BY <1>3, <1>5, <1>6, ToMessageParamIs DEF Says
<1>8. A.role = "assistant" /\ A.blocks = blocks
    BY <1>7 DEF MessageParam
<1>9. Range(blocks) = {ConvertBlock(b) : b \in Range(sent)}
    BY <1>5 DEF Range
<1>10. ASSUME NEW b \in Range(sent)
       PROVE  /\ ConvertBlock(b).type = b.type /\ b.type # "tool_result"
              /\ b.type = "tool_use" => ConvertBlock(b).id = b.id
    <2>1. b.type # "tool_result" /\ (b.type = "tool_use" => b \in UseType)
        BY <1>4 DEF IsSaid
    <2>2. CASE b.type = "tool_use" /\ b.input = ""
        <3>1. b \in UseType
            BY <2>1, <2>2
        <3>2. ConvertBlock(b) = [b EXCEPT !.input = "{}"]
            BY <2>2 DEF ConvertBlock
        <3> QED
            BY <2>1, <3>1, <3>2 DEF UseType
    <2>3. CASE ~(b.type = "tool_use" /\ b.input = "")
        BY <2>1, <2>3 DEF ConvertBlock
    <2> QED
        BY <2>2, <2>3
<1>11. ResultsIn(blocks) = {}
    BY <1>9, <1>10 DEF ResultsIn
<1>12. {b \in Range(sent) : b.type = "tool_use"} = Range(ToolUses(content))
    <2>1. "tool_use" \in SentTypes
        BY DEF SentTypes, DecodedTypes
    <2> QED
        BY <2>1, <1>4, CallsOfSaid
<1>13. UsesIn(blocks) = {u.id : u \in {b \in Range(sent) : b.type = "tool_use"}}
    <2>1. \A x \in UsesIn(blocks) : \E b \in Range(sent) : b.type = "tool_use" /\ x = b.id
        BY <1>9, <1>10 DEF UsesIn
    <2>2. \A b \in Range(sent) : b.type = "tool_use" => b.id \in UsesIn(blocks)
        <3> SUFFICES ASSUME NEW b \in Range(sent), b.type = "tool_use"
                     PROVE  b.id \in UsesIn(blocks)
            OBVIOUS
        <3>1. PICK c : c = ConvertBlock(b)
            OBVIOUS
        <3>2. c \in Range(blocks) /\ c.type = "tool_use" /\ c.id = b.id
            BY <3>1, <1>9, <1>10
        <3>3. c \in {d \in Range(blocks) : d.type = "tool_use"}
            BY <3>2
        <3>4. c.id \in UsesIn(blocks)
            BY <3>3 DEF UsesIn
        <3> QED
            BY <3>2, <3>4
    <2> QED
        BY <2>1, <2>2
<1> QED
    BY <1>6, <1>8, <1>11, <1>12, <1>13

\* The answers in the form of Anthropic: results of every use and no use.
LEMMA AnswersInMessages ==
    ASSUME NEW content, IsSaid(content)
    PROVE  LET B == ToMessageParam(Answers(content))
           IN  /\ B.role = "user"
               /\ UsesIn(B.blocks) = {}
               /\ ResultsIn(B.blocks) = {u.id : u \in Range(ToolUses(content))}
<1>1. PICK S : S = {ResultBlock(u) : u \in UseType}
    OBVIOUS
<1>2. PICK r \in Seq(S) : r = ResultBlocks(content)
    BY <1>1, ResultsOfSaid
<1>3. PICK k \in Seq(UseType) : k = ToolUses(content)
    BY CallsOfSaid
<1>4. DOMAIN r = DOMAIN k /\ \A i \in DOMAIN k : r[i] = ResultBlock(k[i])
    BY <1>2, <1>3, ResultsOfSaid
<1>5. \A b \in S : b["type"] = "tool_result" /\ b["type"] \in SentTypes
    BY <1>1 DEF ResultBlock, SentTypes
<1>6. Kept(r, "type", SentTypes) = r
    BY <1>5, KeptAll
<1>7. PICK B : B = ToMessageParam(Answers(content))
    OBVIOUS
<1>8. B = MessageParam("user", [i \in DOMAIN r |-> ConvertBlock(r[i])])
    BY <1>2, <1>6, <1>7, ToMessageParamIs DEF Answers
<1>9. [i \in DOMAIN r |-> ConvertBlock(r[i])] = r
    <2>1. \A b \in S : ConvertBlock(b) = b
        BY <1>5 DEF ConvertBlock
    <2> QED
        BY <2>1
<1>10. B.role = "user" /\ B.blocks = r
    BY <1>8, <1>9 DEF MessageParam
<1>11. Range(r) = {ResultBlock(u) : u \in Range(k)}
    BY <1>4 DEF Range
<1>12. \A u : ResultBlock(u).type = "tool_result" /\ ResultBlock(u).callId = u.id
    BY DEF ResultBlock
<1>13. UsesIn(r) = {}
    BY <1>11, <1>12 DEF UsesIn
<1>14. ResultsIn(r) = {u.id : u \in Range(k)}
    <2>1. \A x \in ResultsIn(r) : x \in {u.id : u \in Range(k)}
        BY <1>11, <1>12 DEF ResultsIn
    <2>2. ASSUME NEW u \in Range(k) PROVE u.id \in ResultsIn(r)
        <3>1. PICK b : b = ResultBlock(u)
            OBVIOUS
        <3>2. b \in {c \in Range(r) : c.type = "tool_result"} /\ b.callId = u.id
            BY <3>1, <1>11, <1>12
        <3> QED
            BY <3>2 DEF ResultsIn
    <2> QED
        BY <2>1, <2>2
<1> QED
    BY <1>3, <1>7, <1>10, <1>13, <1>14

\* What was said and the answers to it are paired for Anthropic.
LEMMA SaidIsPairedInMessages ==
    ASSUME NEW content, IsSaid(content)
    PROVE  /\ MessagesPaired(<<ToMessageParam(Says(content)), ToMessageParam(Answers(content))>>)
           /\ ToolUses(content) = <<>> => MessagesPaired(<<ToMessageParam(Says(content))>>)
<1>1. PICK A : A = ToMessageParam(Says(content))
    OBVIOUS
<1>2. PICK B : B = ToMessageParam(Answers(content))
    OBVIOUS
<1>3. /\ ResultsIn(A.blocks) = {} /\ UsesIn(B.blocks) = {}
      /\ UsesIn(A.blocks) = ResultsIn(B.blocks)
      /\ UsesIn(A.blocks) = {u.id : u \in Range(ToolUses(content))}
    BY <1>1, <1>2, SaysInMessages, AnswersInMessages
<1>4. MessagesPaired(<<A, B>>)
    BY <1>3, MessagesExchange
<1>5. ASSUME ToolUses(content) = <<>> PROVE MessagesPaired(<<A>>)
    <2>1. Range(<<>>) = {}
        BY DEF Range
    <2>2. UsesIn(A.blocks) = {}
        BY <2>1, <1>3, <1>5
    <2> QED
        BY <2>2, <1>3, MessagesAlone
<1> QED
    BY <1>1, <1>2, <1>4, <1>5

\* The user's words ask nothing and answer nothing.
LEMMA HelloIsPaired ==
    /\ Converted(Hello) = <<WireMessage("user", <<"hello">>, <<>>, FALSE, "")>>
    /\ ChatPaired(Converted(Hello))
    /\ ToMessageParam(Hello).role = "user"
    /\ MessagesPaired(<<ToMessageParam(Hello)>>)
<1>1. PICK b : b = [type |-> "text", text |-> "hello"]
    OBVIOUS
<1>2. b.type = "text" /\ b.text = "hello" /\ b["type"] \in SentTypes
    BY <1>1 DEF SentTypes, DecodedTypes
<1>3. PICK c : c = <<b>>
    OBVIOUS
<1>4. Hello.role = "user" /\ Hello.content = c /\ Hello = [role |-> "user", content |-> c]
    BY <1>1, <1>3 DEF Hello
<1>5. PICK m : m = WireMessage("user", <<"hello">>, <<>>, FALSE, "")
    OBVIOUS
<1>6. Converted(Hello) = <<m>>
    BY <1>2, <1>3, <1>4, <1>5, TextIsOneMessage DEF Converted
<1>7. ChatPaired(<<m>>)
    <2>1. PICK P : P = <<m>>
        OBVIOUS
    <2>2. DOMAIN P = {1} /\ P[1] = m
        BY <2>1
    <2>3. m.role = "user" /\ m.calls = <<>>
        BY <1>5 DEF WireMessage
    <2>4. DOMAIN <<>> = {}
        OBVIOUS
    <2>5. ChatPaired(P)
        BY <2>2, <2>3, <2>4 DEF ChatPaired
    <2> QED
        BY <2>1, <2>5
<1>8. c \in Seq({b})
    BY <1>3, Singleton
<1>9. Kept(c, "type", SentTypes) = c
    BY <1>2, <1>8, KeptAll
<1>10. PICK A : A = ToMessageParam(Hello)
    OBVIOUS
<1>11. A = MessageParam("user", [i \in DOMAIN c |-> ConvertBlock(c[i])])
    BY <1>4, <1>9, <1>10, ToMessageParamIs
<1>12. [i \in DOMAIN c |-> ConvertBlock(c[i])] = c
    <2>1. ConvertBlock(b) = b
        BY <1>2 DEF ConvertBlock
    <2> QED
        BY <2>1, <1>8
<1>13. A.role = "user" /\ A.blocks = c
    BY <1>11, <1>12 DEF MessageParam
<1>14. \A d \in Range(c) : d.type = "text"
    BY <1>2, <1>8 DEF Range
<1>15. UsesIn(A.blocks) = {} /\ ResultsIn(A.blocks) = {}
    BY <1>13, <1>14 DEF UsesIn, ResultsIn
<1>16. MessagesPaired(<<A>>)
    BY <1>15, MessagesAlone
<1> QED
    BY <1>5, <1>6, <1>7, <1>10, <1>13, <1>16

-----------------------------------------------------------------------------
\* What the models may have said, and what is behind it.
Spoken == {Decode(b).content : b \in {c \in Bodies : Decodable(c)}}
          \cup {DecodeMessage(b).content : b \in Messages}

Originals == {[from |-> "openrouter", choice |-> b.choices[1]] : b \in {c \in Bodies : Decodable(c)}}
             \cup {[from |-> "anthropic", blocks |-> b.blocks] : b \in Messages}

Turns == {Hello} \cup {Says(c) : c \in Spoken} \cup {Answers(c) : c \in Spoken}

\* The assumption on bodies, in the terms of this module.
LEMMA BodyTypes ==
    /\ \A b \in Bodies : Decodable(b) => /\ b.choices[1].calls \in Seq(CallType)
                                         /\ b.choices[1].details \in BOOLEAN
    /\ \A b \in Messages : /\ b.blocks \in Seq(Range(b.blocks))
                           /\ \A u \in Range(b.blocks) : u.type = "tool_use" => u \in UseType
<1>1. \A b \in Bodies : Decodable(b) => /\ b.choices[1].calls \in Seq(CallType)
                                        /\ b.choices[1].details \in BOOLEAN
    BY ReplayAssumption DEF ReplayAssumption, CallType
<1>2. [type : {"tool_use"}, id : STRING, input : STRING] \subseteq UseType
    BY DEF UseType
<1> QED
    BY <1>1, <1>2, ReplayAssumption DEF ReplayAssumption

\* Whatever a model may have said is of that kind.
LEMMA SpokenIsSaid == \A c \in Spoken : IsSaid(c)
<1>1. ASSUME NEW b \in Bodies, Decodable(b) PROVE IsSaid(Decode(b).content)
    BY <1>1, BodyTypes, ChatReplyIsSaid
<1>2. ASSUME NEW b \in Messages PROVE IsSaid(DecodeMessage(b).content)
    BY BodyTypes, MessagesReplyIs
<1> QED
    BY <1>1, <1>2 DEF Spoken

\* The messages a history is made of, as requests hold them.
Wire   == UNION {Range(Converted(m)) : m \in Turns}
Params == {ToMessageParam(m) : m \in Turns}

\* Every message of a history becomes a list over Wire, with calls in places.
LEMMA TurnsOnWire ==
    /\ \A m \in Turns : Converted(m) \in Seq(Wire)
    /\ \A w \in Wire : DOMAIN w.calls \subseteq Nat
<1>1. ASSUME NEW m \in Turns
      PROVE  \E M : Converted(m) \in Seq(M) /\ \A w \in M : DOMAIN w.calls \subseteq Nat
    <2>0. DOMAIN <<>> = {}
        OBVIOUS
    <2>1. CASE m = Hello
        <3>1. PICK w : w = WireMessage("user", <<"hello">>, <<>>, FALSE, "")
            OBVIOUS
        <3>2. w.calls = <<>>
            BY <3>1 DEF WireMessage
        <3>3. Converted(m) \in Seq({w})
            BY <2>1, <3>1, HelloIsPaired, Singleton
        <3> QED
            BY <2>0, <3>2, <3>3
    <2>2. ASSUME NEW c \in Spoken, m = Says(c)
          PROVE  \E M : Converted(m) \in Seq(M) /\ \A w \in M : DOMAIN w.calls \subseteq Nat
        <3>1. PICK am : am = AssistantMessage(c)
            OBVIOUS
        <3>2. Converted(m) = Optional(~IsEmpty(am), am)
            BY <2>2, <3>1 DEF Converted, Says
        <3>3. Converted(m) \in Seq({am})
            BY <3>2, OptionalIsSeq DEF IsEmpty
        <3>4. ToolUses(c) \in Seq(UseType)
            BY SpokenIsSaid, CallsOfSaid
        <3>5. am.calls = Calls(c) /\ DOMAIN Calls(c) = DOMAIN ToolUses(c)
            BY <3>1 DEF AssistantMessage, WireMessage, Calls
        <3>6. DOMAIN am.calls \subseteq Nat
            BY <3>4, <3>5
        <3> QED
            BY <3>3, <3>6
    <2>3. ASSUME NEW c \in Spoken, m = Answers(c)
          PROVE  \E M : Converted(m) \in Seq(M) /\ \A w \in M : DOMAIN w.calls \subseteq Nat
        <3>1. PICK M : M = {ToolMessage(b) : b \in {ResultBlock(u) : u \in UseType}}
            OBVIOUS
        <3>2. Converted(m) \in Seq(M)
            BY <2>3, <3>1, SpokenIsSaid, AnswersInChat
        <3>3. \A w \in M : w.calls = <<>>
            BY <3>1 DEF ToolMessage, WireMessage
        <3> QED
            BY <2>0, <3>2, <3>3
    <2> QED
        BY <2>1, <2>2, <2>3 DEF Turns
<1>2. ASSUME NEW m \in Turns
      PROVE  Converted(m) \in Seq(Wire) /\ \A w \in Range(Converted(m)) : DOMAIN w.calls \subseteq Nat
    <2>1. PICK M : Converted(m) \in Seq(M) /\ \A w \in M : DOMAIN w.calls \subseteq Nat
        BY <1>1
    <2>2. PICK s : s = Converted(m)
        OBVIOUS
    <2>3. Range(s) \subseteq M
        BY <2>1, <2>2, RangeOfSeq
    <2>4. s \in Seq(Range(s))
        BY <2>1, <2>2, SeqOfRange
    <2>5. Range(s) \subseteq Wire
        BY <2>2 DEF Wire
    <2>6. s \in Seq(Wire)
        BY <2>4, <2>5, SeqMonotonic
    <2> QED
        BY <2>1, <2>2, <2>3, <2>6
<1> QED
    BY <1>2 DEF Wire

\* A list that is another one and then e.
LEMMA IsAppend ==
    ASSUME NEW T, NEW s \in Seq(T), NEW e \in T, NEW n \in Nat, n = Len(s), NEW f,
           f = [i \in 1 .. n + 1 |-> f[i]], \A i \in 1 .. n : f[i] = s[i], f[n + 1] = e
    PROVE  f = Append(s, e)
<1>1. PICK k \in Nat : k = n + 1
    OBVIOUS
<1>2. PICK g : g = [i \in 1 .. k |-> IF i = k THEN e ELSE s[i]]
    OBVIOUS
<1>3. \A i \in 1 .. k : i = k \/ i \in 1 .. n
    BY <1>1
<1>4. f = g
    BY <1>1, <1>2, <1>3
<1>5. \A i \in 1 .. k : g[i] \in T
    BY <1>2, <1>3
<1>6. g \in [1 .. k -> T]
    BY ONLY <1>2, <1>5
<1>7. g \in Seq(T) /\ Len(g) = k
    <2>1. g \in Seq(T)
        BY ONLY <1>6, k \in Nat
    <2>2. Len(g) = k
        BY ONLY <1>6, k \in Nat
    <2> QED
        BY <2>1, <2>2
<1>8. PICK u \in Seq(T) : u = Append(s, e)
    BY ONLY s \in Seq(T), e \in T, AppendProperties
<1>9. Len(u) = k /\ u[k] = e /\ \A i \in 1 .. n : u[i] = s[i]
    BY <1>1, <1>8
<1>10. \A i \in 1 .. k : g[i] = u[i]
    BY <1>1, <1>2, <1>3, <1>9
<1> QED
    BY <1>4, <1>7, <1>8, <1>9, <1>10, SeqEqual

\* A request is built message by message.
LEMMA PayloadGrows ==
    ASSUME NEW h \in Seq(Turns), NEW m \in Turns
    PROVE  /\ Payload(h) \in Seq(Wire)
           /\ Payload(Append(h, m)) = Payload(h) \o Converted(m)
<1>1. PICK n \in Nat : n = Len(h) /\ DOMAIN h = 1 .. n
    OBVIOUS
<1>2. PICK hh : hh = Append(h, m)
    OBVIOUS
<1>3. DOMAIN hh = 1 .. n + 1 /\ hh[n + 1] = m /\ \A i \in 1 .. n : hh[i] = h[i]
    BY <1>1, <1>2
<1>4. PICK ss : ss = [i \in 1 .. n |-> Converted(h[i])]
    OBVIOUS
<1>5. ss \in Seq(Seq(Wire)) /\ Len(ss) = n
    <2>1. \A i \in 1 .. n : Converted(h[i]) \in Seq(Wire)
        BY <1>1, TurnsOnWire
    <2> QED
        BY <2>1, <1>4
<1>6. PICK t \in Seq(Wire) : t = Converted(m)
    BY TurnsOnWire
<1>7. PICK tt : tt = [i \in 1 .. n + 1 |-> Converted(hh[i])]
    OBVIOUS
<1>8. tt = Append(ss, t)
    BY <1>3, <1>4, <1>5, <1>6, <1>7, IsAppend
<1>9. Payload(h) = FlattenSeq(ss) /\ Payload(hh) = FlattenSeq(tt)
    BY <1>1, <1>3, <1>4, <1>7 DEF Payload
<1>10. FlattenSeq(ss) \in Seq(Wire)
    BY <1>5, FlattenIsSeq
<1> QED
    BY <1>2, <1>5, <1>6, <1>8, <1>9, <1>10, FlattenOfAppend

\* The same of a request to Anthropic, one message for each.
LEMMA ParamsGrow ==
    ASSUME NEW h \in Seq(Turns), NEW m \in Turns
    PROVE  /\ MessageParams(h) \in Seq(Params)
           /\ MessageParams(Append(h, m)) = Append(MessageParams(h), ToMessageParam(m))
           /\ MessageParams(Append(h, m)) = MessageParams(h) \o <<ToMessageParam(m)>>
<1>1. PICK n \in Nat : n = Len(h) /\ DOMAIN h = 1 .. n
    OBVIOUS
<1>2. PICK hh : hh = Append(h, m)
    OBVIOUS
<1>3. DOMAIN hh = 1 .. n + 1 /\ hh[n + 1] = m /\ \A i \in 1 .. n : hh[i] = h[i]
    BY <1>1, <1>2
<1>4. PICK p : p = [i \in 1 .. n |-> ToMessageParam(h[i])]
    OBVIOUS
<1>5. p \in Seq(Params) /\ Len(p) = n
    <2>1. \A i \in 1 .. n : ToMessageParam(h[i]) \in Params
        BY <1>1 DEF Params
    <2> QED
        BY <2>1, <1>4
<1>6. PICK t \in Params : t = ToMessageParam(m)
    BY DEF Params
<1>7. PICK pp : pp = [i \in 1 .. n + 1 |-> ToMessageParam(hh[i])]
    OBVIOUS
<1>8. pp = Append(p, t)
    BY <1>3, <1>4, <1>5, <1>6, <1>7, IsAppend
<1>9. MessageParams(h) = p /\ MessageParams(hh) = pp
    BY <1>1, <1>3, <1>4, <1>7 DEF MessageParams
<1>10. Append(p, t) = p \o <<t>>
    BY <1>5
<1> QED
    BY <1>2, <1>5, <1>6, <1>8, <1>9, <1>10

\* The same of what was received.
InChatOrNothing(r) == Optional(~IsEmpty(InChat(r)), InChat(r))

ReceivedInChat(rs)     == FlattenSeq([i \in DOMAIN rs |-> InChatOrNothing(rs[i])])
ReceivedInMessages(rs) == [i \in DOMAIN rs |-> InMessages(rs[i])]

\* A response is added last to what was received, in either form.
LEMMA ReceivedGrows ==
    ASSUME NEW rs \in Seq(Originals), NEW r \in Originals
    PROVE  /\ ReceivedInChat(Append(rs, r)) = ReceivedInChat(rs) \o InChatOrNothing(r)
           /\ ReceivedInMessages(Append(rs, r)) = Append(ReceivedInMessages(rs), InMessages(r))
<1>1. PICK n \in Nat : n = Len(rs) /\ DOMAIN rs = 1 .. n
    OBVIOUS
<1>2. PICK qs : qs = Append(rs, r)
    OBVIOUS
<1>3. DOMAIN qs = 1 .. n + 1 /\ qs[n + 1] = r /\ \A i \in 1 .. n : qs[i] = rs[i]
    BY <1>1, <1>2
<1>4. ReceivedInChat(qs) = ReceivedInChat(rs) \o InChatOrNothing(r)
    <2>1. PICK T : T = {InChat(q) : q \in Originals}
        OBVIOUS
    <2>2. \A q \in Originals : InChatOrNothing(q) \in Seq(T)
        BY <2>1, OptionalIsSeq DEF InChatOrNothing, IsEmpty
    <2>3. PICK ss : ss = [i \in 1 .. n |-> InChatOrNothing(rs[i])]
        OBVIOUS
    <2>4. ss \in Seq(Seq(T)) /\ Len(ss) = n
        <3>1. \A i \in 1 .. n : InChatOrNothing(rs[i]) \in Seq(T)
            BY <1>1, <2>2
        <3> QED
            BY <3>1, <2>3
    <2>5. PICK t \in Seq(T) : t = InChatOrNothing(r)
        BY <2>2
    <2>6. PICK tt : tt = [i \in 1 .. n + 1 |-> InChatOrNothing(qs[i])]
        OBVIOUS
    <2>7. tt = Append(ss, t)
        BY <1>3, <2>3, <2>4, <2>5, <2>6, IsAppend
    <2>8. ReceivedInChat(qs) = FlattenSeq(tt) /\ ReceivedInChat(rs) = FlattenSeq(ss)
        BY <1>1, <1>3, <2>3, <2>6 DEF ReceivedInChat
    <2> QED
        BY <2>4, <2>5, <2>7, <2>8, FlattenOfAppend
<1>5. ReceivedInMessages(qs) = Append(ReceivedInMessages(rs), InMessages(r))
    <2>1. PICK T : T = {InMessages(q) : q \in Originals}
        OBVIOUS
    <2>2. PICK ms : ms = [i \in 1 .. n |-> InMessages(rs[i])]
        OBVIOUS
    <2>3. ms \in Seq(T) /\ Len(ms) = n
        <3>1. \A i \in 1 .. n : InMessages(rs[i]) \in T
            BY <1>1, <2>1
        <3> QED
            BY <3>1, <2>2
    <2>4. PICK x \in T : x = InMessages(r)
        BY <2>1
    <2>5. PICK tt : tt = [i \in 1 .. n + 1 |-> InMessages(qs[i])]
        OBVIOUS
    <2>6. tt = Append(ms, x)
        BY <1>3, <2>2, <2>3, <2>4, <2>5, IsAppend
    <2>7. ReceivedInMessages(qs) = tt /\ ReceivedInMessages(rs) = ms
        BY <1>1, <1>3, <2>2, <2>5 DEF ReceivedInMessages
    <2> QED
        BY <2>4, <2>6, <2>7
<1> QED
    BY <1>2, <1>4, <1>5

-----------------------------------------------------------------------------
(***************************************************************************)
(* The two invariants.  The lists both forms of a request keep of the      *)
(* assistant are those of what the providers sent: LosslessInv is about    *)
(* both forms, whichever is sent, because a restart may change it.  And    *)
(* PairInv is about what is paired at every step, not only when a request  *)
(* is sent: the history, or, while calls run, what stands before them.     *)
(***************************************************************************)
BothPaired(h) == ChatPaired(Payload(h)) /\ MessagesPaired(MessageParams(h))

IsLossless(h, rs) ==
    /\ Kept(Payload(h), "role", {"assistant"}) = ReceivedInChat(rs)
    /\ Kept(MessageParams(h), "role", {"assistant"}) = ReceivedInMessages(rs)

TypeInv ==
    /\ history \in Seq(Turns)
    /\ received \in Seq(Originals)
    /\ provider \in {"openrouter", "anthropic"}
    /\ pc \in {"user", "model", "tools"}

LosslessInv ==
    /\ TypeInv
    /\ pc = "tools" => \E h \in Seq(Turns), c \in Spoken : history = Append(h, Says(c))
    /\ IsLossless(history, received)

PairInv ==
    /\ TypeInv
    /\ pc # "tools" => BothPaired(history)
    /\ pc = "tools" => \E h \in Seq(Turns), c \in Spoken :
                           history = Append(h, Says(c)) /\ BothPaired(h)

\* c is what the program keeps of o.
Keeps(c, o) ==
    /\ c \in Spoken /\ o \in Originals
    /\ AssistantMessage(c) = InChat(o)
    /\ ToMessageParam(Says(c)) = InMessages(o)

\* A decoded body of OpenRouter keeps what it held, and its stop reason is
\* "tool_use" when it holds calls.
LEMMA ChatReplyKeeps ==
    ASSUME NEW b \in Bodies, Decodable(b)
    PROVE  /\ Keeps(Decode(b).content, [from |-> "openrouter", choice |-> b.choices[1]])
           /\ Decode(b).stop # "tool_use" => ToolUses(Decode(b).content) = <<>>
<1>1. PICK choice : choice = b.choices[1]
    OBVIOUS
<1>2. choice.calls \in Seq(CallType) /\ choice.details \in BOOLEAN
    BY <1>1, BodyTypes
<1>3. PICK c : c = Decode(b).content
    OBVIOUS
<1>4. PICK o : o = [from |-> "openrouter", choice |-> choice]
    OBVIOUS
<1>5. c \in Spoken /\ o \in Originals
    BY <1>1, <1>3, <1>4 DEF Spoken, Originals
<1>6. AssistantMessage(c) = InChat(o)
    BY <1>1, <1>2, <1>3, <1>4, ChatReplyInChat
<1>7. ToMessageParam(Says(c)) = InMessages(o)
    BY <1>1, <1>2, <1>3, <1>4, ChatReplyInMessages DEF Says
<1>8. ToolUses(c) = UseBlocks(choice)
    BY <1>1, <1>2, <1>3, PartsOfDecoded
<1>9. choice.calls = <<>> => UseBlocks(choice) = <<>>
    BY DEF UseBlocks
<1>10. Decode(b).stop = StopReason(choice)
    BY <1>1, DecodeIs
<1>11. choice.calls # <<>> => StopReason(choice) = "tool_use"
    BY DEF StopReason
<1> QED
    BY <1>1, <1>3, <1>4, <1>5, <1>6, <1>7, <1>8, <1>9, <1>10, <1>11 DEF Keeps

\* So does a message of Anthropic, the blocks of unknown types apart.
LEMMA MessagesReplyKeeps ==
    ASSUME NEW b \in Messages
    PROVE  /\ Keeps(DecodeMessage(b).content, [from |-> "anthropic", blocks |-> b.blocks])
           /\ WholeMessages /\ DecodeMessage(b).stop # "tool_use"
              => ToolUses(DecodeMessage(b).content) = <<>>
<1>1. PICK c : c = DecodeMessage(b).content
    OBVIOUS
<1>2. PICK o : o = [from |-> "anthropic", blocks |-> b.blocks]
    OBVIOUS
<1>3. c \in Spoken /\ o \in Originals
    BY <1>1, <1>2 DEF Spoken, Originals
<1>4. /\ ToolUses(c) = ToolUses(b.blocks)
      /\ AssistantMessage(c) = InChat(o)
      /\ ToMessageParam([role |-> "assistant", content |-> c]) = InMessages(o)
    BY <1>1, <1>2, BodyTypes, MessagesReplyIs
<1>5. ToMessageParam(Says(c)) = InMessages(o)
    BY <1>4 DEF Says
<1>6. DecodeMessage(b).stop = b.stop
    BY DEF DecodeMessage
<1>7. WholeMessages /\ b.stop # "tool_use" => ToolUses(b.blocks) = <<>>
    BY DEF WholeMessages
<1> QED
    BY <1>1, <1>2, <1>3, <1>4, <1>5, <1>6, <1>7 DEF Keeps

\* A response adds a message that keeps what was received and, of whole
\* messages, ends the turn only if it holds no call.
LEMMA ModelSaysIs ==
    ASSUME ModelSays
    PROVE  \E c, o : /\ Keeps(c, o)
                     /\ history' = Append(history, Says(c))
                     /\ received' = Append(received, o)
                     /\ pc' \in {"tools", "user"}
                     /\ WholeMessages /\ pc' = "user" => ToolUses(c) = <<>>
<1>1. ASSUME NEW b \in Bodies, Decodable(b),
             Responds(Decode(b), [from |-> "openrouter", choice |-> b.choices[1]])
      PROVE  \E c, o : /\ Keeps(c, o)
                       /\ history' = Append(history, Says(c))
                       /\ received' = Append(received, o)
                       /\ pc' \in {"tools", "user"}
                       /\ WholeMessages /\ pc' = "user" => ToolUses(c) = <<>>
    BY <1>1, ChatReplyKeeps DEF Responds, Said, Says
<1>2. ASSUME NEW b \in Messages,
             Responds(DecodeMessage(b), [from |-> "anthropic", blocks |-> b.blocks])
      PROVE  \E c, o : /\ Keeps(c, o)
                       /\ history' = Append(history, Says(c))
                       /\ received' = Append(received, o)
                       /\ pc' \in {"tools", "user"}
                       /\ WholeMessages /\ pc' = "user" => ToolUses(c) = <<>>
    BY <1>2, MessagesReplyKeeps DEF Responds, Said, Says
<1> QED
    BY <1>1, <1>2 DEF ModelSays

\* The tools answer the last message.
LEMMA ToolsRunIs ==
    ASSUME ToolsRun, NEW h \in Seq(Turns), NEW c \in Spoken, history = Append(h, Says(c))
    PROVE  history' = Append(history, Answers(c))
<1>1. PICK n \in Nat : n = Len(h) + 1
    OBVIOUS
<1>2. Len(history) = n
    <2>1. PICK m \in Turns : m = Says(c)
        BY DEF Turns
    <2> QED
        BY <1>1, <2>1
<1>3. history[n] = Says(c)
    <2>1. PICK m \in Turns : m = Says(c)
        BY DEF Turns
    <2> QED
        BY <1>1, <2>1
<1>4. history[Len(history)].content = c
    BY <1>2, <1>3 DEF Says
<1> QED
    BY <1>4 DEF ToolsRun, Said, Answers, ResultBlocks, ResultBlock
-----------------------------------------------------------------------------
\* What user and results add to a request is not the assistant's.
LEMMA OthersAreNotKept ==
    ASSUME NEW m \in Turns, m = Hello \/ \E c \in Spoken : m = Answers(c)
    PROVE  /\ Kept(Converted(m), "role", {"assistant"}) = <<>>
           /\ ToMessageParam(m).role # "assistant"
<1>1. CASE m = Hello
    <2>1. PICK w : w = WireMessage("user", <<"hello">>, <<>>, FALSE, "")
        OBVIOUS
    <2>2. w["role"] \notin {"assistant"}
        BY <2>1 DEF WireMessage
    <2>3. Converted(m) \in Seq({w})
        BY <1>1, <2>1, HelloIsPaired, Singleton
    <2>4. \A e \in {w} : e["role"] \notin {"assistant"}
        BY <2>2
    <2>5. Kept(Converted(m), "role", {"assistant"}) = <<>>
        BY <2>3, <2>4, KeptNone
    <2> QED
        BY <1>1, <2>5, HelloIsPaired
<1>2. ASSUME NEW c \in Spoken, m = Answers(c)
      PROVE  /\ Kept(Converted(m), "role", {"assistant"}) = <<>>
             /\ ToMessageParam(m).role # "assistant"
    <2>1. PICK M : M = {ToolMessage(b) : b \in {ResultBlock(u) : u \in UseType}}
        OBVIOUS
    <2>2. Converted(m) \in Seq(M)
        BY <1>2, <2>1, SpokenIsSaid, AnswersInChat
    <2>3. \A w \in M : w["role"] \notin {"assistant"}
        BY <2>1 DEF ToolMessage, WireMessage
    <2>4. Kept(Converted(m), "role", {"assistant"}) = <<>>
        BY <2>2, <2>3, KeptNone
    <2>5. ToMessageParam(m).role = "user"
        BY <1>2, SpokenIsSaid, AnswersInMessages
    <2> QED
        BY <2>4, <2>5
<1> QED
    BY <1>1, <1>2

\* What the assistant adds is what was received.
LEMMA SaysIsKept ==
    ASSUME NEW c, NEW o, Keeps(c, o)
    PROVE  /\ Kept(Converted(Says(c)), "role", {"assistant"}) = InChatOrNothing(o)
           /\ ToMessageParam(Says(c)) = InMessages(o)
           /\ ToMessageParam(Says(c)).role = "assistant"
<1>1. PICK am : am = AssistantMessage(c)
    OBVIOUS
<1>2. Converted(Says(c)) = Optional(~IsEmpty(am), am)
    BY <1>1 DEF Converted, Says
<1>3. InChatOrNothing(o) = Optional(~IsEmpty(am), am)
    BY <1>1 DEF Keeps, InChatOrNothing
<1>4. \A e \in {am} : e["role"] \in {"assistant"}
    <2>1. am.role = "assistant"
        BY <1>1 DEF AssistantMessage, WireMessage
    <2> QED
        BY <2>1
<1>5. Optional(~IsEmpty(am), am) \in Seq({am})
    BY OptionalIsSeq DEF IsEmpty
<1>6. Kept(Optional(~IsEmpty(am), am), "role", {"assistant"}) = Optional(~IsEmpty(am), am)
    BY <1>4, <1>5, KeptAll
<1> QED
    BY <1>2, <1>3, <1>6, SpokenIsSaid, SaysInMessages DEF Keeps

\* A user message or an answer leaves what the assistant said.
LEMMA LosslessWithOthers ==
    ASSUME NEW h \in Seq(Turns), NEW rs \in Seq(Originals), IsLossless(h, rs),
           NEW m \in Turns, m = Hello \/ \E c \in Spoken : m = Answers(c)
    PROVE  IsLossless(Append(h, m), rs)
<1>1. PICK hh : hh = Append(h, m)
    OBVIOUS
<1>2. PICK p \in Seq(Wire) : p = Payload(h)
    BY PayloadGrows
<1>3. PICK w \in Seq(Wire) : w = Converted(m)
    BY TurnsOnWire
<1>4. Payload(hh) = p \o w
    BY <1>1, <1>2, <1>3, PayloadGrows
<1>5. Kept(w, "role", {"assistant"}) = <<>>
    BY <1>3, OthersAreNotKept
<1>6. Kept(p \o w, "role", {"assistant"}) = Kept(p, "role", {"assistant"}) \o <<>>
    <2>1. Kept(p \o w, "role", {"assistant"})
            = Kept(p, "role", {"assistant"}) \o Kept(w, "role", {"assistant"})
        BY KeptOfConcat
    <2> QED
        BY <1>5, <2>1
<1>7. Kept(p, "role", {"assistant"}) \in Seq(Wire)
    BY KeptIsSeq
<1>8. Kept(Payload(hh), "role", {"assistant"}) = Kept(Payload(h), "role", {"assistant"})
    BY <1>2, <1>4, <1>6, <1>7
<1>9. PICK q \in Seq(Params) : q = MessageParams(h)
    BY ParamsGrow
<1>10. PICK x \in Params : x = ToMessageParam(m)
    BY DEF Params
<1>11. MessageParams(hh) = Append(q, x)
    BY <1>1, <1>9, <1>10, ParamsGrow
<1>12. x["role"] \notin {"assistant"}
    BY <1>10, OthersAreNotKept
<1>13. Kept(MessageParams(hh), "role", {"assistant"}) = Kept(MessageParams(h), "role", {"assistant"})
    BY <1>9, <1>11, <1>12, KeptOfAppend
<1> QED
    BY <1>1, <1>8, <1>13 DEF IsLossless

\* A response is added to both lists.
LEMMA LosslessWithResponse ==
    ASSUME NEW h \in Seq(Turns), NEW rs \in Seq(Originals), IsLossless(h, rs),
           NEW c, NEW o, Keeps(c, o)
    PROVE  IsLossless(Append(h, Says(c)), Append(rs, o))
<1>1. PICK m \in Turns : m = Says(c)
    BY DEF Keeps, Turns
<1>2. PICK hh : hh = Append(h, m)
    OBVIOUS
<1>3. PICK qs : qs = Append(rs, o)
    OBVIOUS
<1>4. o \in Originals
    BY DEF Keeps
<1>5. PICK p \in Seq(Wire) : p = Payload(h)
    BY PayloadGrows
<1>6. PICK w \in Seq(Wire) : w = Converted(m)
    BY TurnsOnWire
<1>7. Payload(hh) = p \o w
    BY <1>2, <1>5, <1>6, PayloadGrows
<1>8. Kept(p \o w, "role", {"assistant"})
        = Kept(p, "role", {"assistant"}) \o Kept(w, "role", {"assistant"})
    BY KeptOfConcat
<1>9. Kept(w, "role", {"assistant"}) = InChatOrNothing(o)
    BY <1>1, <1>6, SaysIsKept
<1>10. Kept(p, "role", {"assistant"}) = ReceivedInChat(rs)
    BY <1>5 DEF IsLossless
<1>11. ReceivedInChat(qs) = ReceivedInChat(rs) \o InChatOrNothing(o)
    BY <1>3, <1>4, ReceivedGrows
<1>12. Kept(Payload(hh), "role", {"assistant"}) = ReceivedInChat(qs)
    BY <1>7, <1>8, <1>9, <1>10, <1>11
<1>13. PICK q \in Seq(Params) : q = MessageParams(h)
    BY ParamsGrow
<1>14. PICK x \in Params : x = ToMessageParam(m)
    BY DEF Params
<1>15. MessageParams(hh) = Append(q, x)
    BY <1>2, <1>13, <1>14, ParamsGrow
<1>16. x["role"] \in {"assistant"} /\ x = InMessages(o)
    BY <1>1, <1>14, SaysIsKept
<1>17. Kept(Append(q, x), "role", {"assistant"}) = Append(Kept(q, "role", {"assistant"}), x)
    BY <1>16, KeptOfAppend
<1>18. Kept(q, "role", {"assistant"}) = ReceivedInMessages(rs)
    BY <1>13 DEF IsLossless
<1>19. ReceivedInMessages(qs) = Append(ReceivedInMessages(rs), InMessages(o))
    BY <1>3, <1>4, ReceivedGrows
<1>20. Kept(MessageParams(hh), "role", {"assistant"}) = ReceivedInMessages(qs)
    BY <1>15, <1>16, <1>17, <1>18, <1>19
<1> QED
    BY <1>1, <1>2, <1>3, <1>12, <1>20 DEF IsLossless

\* An empty history: nothing said, nothing received.
LEMMA EmptyIsLossless == IsLossless(<<>>, <<>>) /\ BothPaired(<<>>)
<1>1. PICK e : e = <<>>
    OBVIOUS
<1>2. e = [i \in DOMAIN e |-> Converted(e[i])] /\ e = [i \in DOMAIN e |-> InChatOrNothing(e[i])]
    BY <1>1
<1>3. e = [i \in DOMAIN e |-> ToMessageParam(e[i])] /\ e = [i \in DOMAIN e |-> InMessages(e[i])]
    BY <1>1
<1>4. Payload(e) = FlattenSeq(e) /\ ReceivedInChat(e) = FlattenSeq(e)
    BY <1>2 DEF Payload, ReceivedInChat
<1>5. FlattenSeq(e) = <<>>
    BY <1>1, FlattenOfEmpty
<1>6. MessageParams(e) = <<>> /\ ReceivedInMessages(e) = <<>>
    BY <1>1, <1>3 DEF MessageParams, ReceivedInMessages
<1>7. Kept(<<>>, "role", {"assistant"}) = <<>>
    BY KeptOfEmpty
<1>8. IsLossless(e, e)
    BY <1>4, <1>5, <1>6, <1>7 DEF IsLossless
<1>9. ChatPaired(e)
    <2>1. DOMAIN e = {}
        BY <1>1
    <2> QED
        BY <2>1 DEF ChatPaired
<1>10. MessagesPaired(e)
    <2>1. Len(e) = 0
        BY <1>1
    <2>2. \A i \in 0 .. Len(e) : i = 0 /\ i = Len(e)
        BY <2>1
    <2> QED
        BY <2>2 DEF MessagesPaired
<1> QED
    BY <1>1, <1>4, <1>5, <1>6, <1>8, <1>9, <1>10 DEF BothPaired
-----------------------------------------------------------------------------
\* Lists of one and of two.
LEMMA ShortLists ==
    ASSUME NEW T, NEW x \in T, NEW y \in T
    PROVE  /\ <<x>> \in Seq(T) /\ <<y>> \in Seq(T)
           /\ <<x>> \o <<y>> = <<x, y>>
           /\ <<x, y>> \in Seq(T)
<1>1. <<x>> \in Seq(T) /\ <<y>> \in Seq(T)
    BY ONLY x \in T, y \in T
<1>2. <<x, y>> \in Seq(T)
    BY ONLY x \in T, y \in T
<1>3. <<x>> \o <<y>> = <<x, y>>
    <2>1. PICK a \in Seq(T), b \in Seq(T) : a = <<x>> /\ b = <<y>>
        BY <1>1
    <2>2. PICK d \in Seq(T) : d = <<x, y>>
        BY <1>2
    <2>3. Len(a) = 1 /\ a[1] = x /\ Len(b) = 1 /\ b[1] = y
        BY <2>1
    <2>4. Len(d) = 2 /\ d[1] = x /\ d[2] = y
        BY <2>2
    <2>5. PICK c \in Seq(T) : c = a \o b
        BY ConcatProperties
    <2>6. Len(c) = 2 /\ c[1] = x /\ c[2] = y
        BY <2>3, <2>5, ConcatProperties
    <2>7. \A i \in 1 .. 2 : c[i] = d[i]
        BY <2>4, <2>6
    <2> QED
        BY <2>1, <2>2, <2>4, <2>5, <2>6, <2>7, SeqEqual
<1> QED
    BY <1>1, <1>2, <1>3

\* Two records appended are a list of two joined.
LEMMA AppendTwice ==
    ASSUME NEW T, NEW q \in Seq(T), NEW x \in T, NEW y \in T
    PROVE  Append(Append(q, x), y) = q \o <<x, y>>
<1>1. PICK n \in Nat : n = Len(q)
    OBVIOUS
<1>2. PICK qx \in Seq(T) : qx = Append(q, x)
    BY AppendProperties
<1>3. Len(qx) = n + 1 /\ qx[n + 1] = x /\ \A i \in 1 .. n : qx[i] = q[i]
    BY <1>1, <1>2
<1>4. PICK a \in Seq(T) : a = Append(qx, y)
    BY AppendProperties
<1>5. Len(a) = n + 2 /\ a[n + 2] = y /\ \A i \in 1 .. n + 1 : a[i] = qx[i]
    BY <1>3, <1>4
<1>6. PICK xy \in Seq(T) : xy = <<x, y>>
    BY ShortLists
<1>7. Len(xy) = 2 /\ xy[1] = x /\ xy[2] = y
    BY <1>6
<1>8. PICK b \in Seq(T) : b = q \o xy
    BY ConcatProperties
<1>9. Len(b) = n + 2 /\ \A i \in 1 .. n + 2 : b[i] = IF i <= n THEN q[i] ELSE xy[i - n]
    <2>1. Len(b) = Len(q) + Len(xy)
        BY <1>8
    <2>2. \A i \in 1 .. Len(q) + Len(xy) : b[i] = IF i <= Len(q) THEN q[i] ELSE xy[i - Len(q)]
        BY <1>8
    <2>3. Len(q) + Len(xy) = n + 2
        BY <1>1, <1>7
    <2> QED
        BY <1>1, <2>1, <2>2, <2>3
<1>10. b[n + 1] = x /\ b[n + 2] = y /\ \A i \in 1 .. n : b[i] = q[i]
    <2>1. n + 1 \in 1 .. n + 2 /\ n + 2 \in 1 .. n + 2 /\ ~(n + 1 <= n) /\ ~(n + 2 <= n)
          /\ (n + 1) - n = 1 /\ (n + 2) - n = 2
        OBVIOUS
    <2>2. \A i \in 1 .. n : i \in 1 .. n + 2 /\ i <= n
        OBVIOUS
    <2> QED
        BY <1>7, <1>9, <2>1, <2>2
<1>11. \A i \in 1 .. n + 2 : a[i] = b[i]
    <2>1. \A i \in 1 .. n + 2 : i = n + 2 \/ i = n + 1 \/ i \in 1 .. n
        OBVIOUS
    <2>2. n + 1 \in 1 .. n + 1 /\ \A i \in 1 .. n : i \in 1 .. n + 1
        OBVIOUS
    <2> QED
        BY <1>3, <1>5, <1>10, <2>1, <2>2
<1> QED
    BY <1>2, <1>4, <1>5, <1>6, <1>8, <1>9, <1>11, SeqEqual

\* A message that is paired by itself.
LEMMA PairedWithMessage ==
    ASSUME NEW h \in Seq(Turns), BothPaired(h), NEW m \in Turns,
           ChatPaired(Converted(m)), MessagesPaired(<<ToMessageParam(m)>>)
    PROVE  BothPaired(Append(h, m))
<1>1. PICK hh : hh = Append(h, m)
    OBVIOUS
<1>2. PICK p \in Seq(Wire) : p = Payload(h)
    BY PayloadGrows
<1>3. PICK w \in Seq(Wire) : w = Converted(m)
    BY TurnsOnWire
<1>4. Payload(hh) = p \o w
    BY <1>1, <1>2, <1>3, PayloadGrows
<1>5. ChatPaired(p) /\ ChatPaired(w)
    BY <1>2, <1>3 DEF BothPaired
<1>6. ChatPaired(p \o w)
    BY <1>5, TurnsOnWire, ChatPairedJoin
<1>7. PICK q \in Seq(Params) : q = MessageParams(h)
    BY ParamsGrow
<1>8. PICK x \in Params : x = ToMessageParam(m)
    BY DEF Params
<1>9. PICK xs \in Seq(Params) : xs = <<x>>
    BY ShortLists
<1>10. MessageParams(hh) = q \o xs
    BY <1>1, <1>7, <1>8, <1>9, ParamsGrow
<1>11. MessagesPaired(q) /\ MessagesPaired(xs)
    BY <1>7, <1>8, <1>9 DEF BothPaired
<1>12. MessagesPaired(q \o xs)
    BY <1>11, MessagesPairedJoin
<1> QED
    BY <1>1, <1>4, <1>6, <1>10, <1>12 DEF BothPaired

\* What the assistant said and the answers to it.
LEMMA PairedWithExchange ==
    ASSUME NEW h \in Seq(Turns), BothPaired(h), NEW c \in Spoken
    PROVE  BothPaired(Append(Append(h, Says(c)), Answers(c)))
<1>1. PICK m \in Turns : m = Says(c)
    BY DEF Turns
<1>2. PICK r \in Turns : r = Answers(c)
    BY DEF Turns
<1>3. PICK hm \in Seq(Turns) : hm = Append(h, m)
    BY AppendProperties
<1>4. PICK hh : hh = Append(hm, r)
    OBVIOUS
<1>5. PICK p \in Seq(Wire) : p = Payload(h)
    BY PayloadGrows
<1>6. PICK v \in Seq(Wire) : v = Converted(m)
    BY TurnsOnWire
<1>7. PICK w \in Seq(Wire) : w = Converted(r)
    BY TurnsOnWire
<1>8. Payload(hm) = p \o v
    BY <1>3, <1>5, <1>6, PayloadGrows
<1>9. Payload(hh) = Payload(hm) \o w
    BY <1>4, <1>7, PayloadGrows
<1>10. Payload(hh) = p \o (v \o w)
    <2>1. (p \o v) \o w = p \o (v \o w)
        BY ConcatAssociative
    <2> QED
        BY <1>8, <1>9, <2>1
<1>11. PICK vw \in Seq(Wire) : vw = v \o w
    BY ConcatProperties
<1>12. ChatPaired(p) /\ ChatPaired(vw)
    BY <1>1, <1>2, <1>5, <1>6, <1>7, <1>11, SpokenIsSaid, SaidIsPairedInChat DEF BothPaired
<1>13. ChatPaired(p \o vw)
    BY <1>12, TurnsOnWire, ChatPairedJoin
<1>14. PICK q \in Seq(Params) : q = MessageParams(h)
    BY ParamsGrow
<1>15. PICK x \in Params : x = ToMessageParam(m)
    BY DEF Params
<1>16. PICK y \in Params : y = ToMessageParam(r)
    BY DEF Params
<1>17. MessageParams(hh) = Append(Append(q, x), y)
    BY <1>3, <1>4, <1>14, <1>15, <1>16, ParamsGrow
<1>18. PICK xy \in Seq(Params) : xy = <<x, y>>
    BY ShortLists
<1>19. MessageParams(hh) = q \o xy
    BY <1>17, <1>18, AppendTwice
<1>20. MessagesPaired(q) /\ MessagesPaired(xy)
    BY <1>1, <1>2, <1>14, <1>15, <1>16, <1>18, SpokenIsSaid, SaidIsPairedInMessages DEF BothPaired
<1>21. MessagesPaired(q \o xy)
    BY <1>20, MessagesPairedJoin
<1> QED
    BY <1>1, <1>2, <1>3, <1>4, <1>10, <1>11, <1>13, <1>19, <1>21 DEF BothPaired

\* The user's message and a response without a call are paired by themselves.
LEMMA PairedAlone ==
    ASSUME NEW h \in Seq(Turns), BothPaired(h)
    PROVE  /\ BothPaired(Append(h, Hello))
           /\ \A c \in Spoken : ToolUses(c) = <<>> => BothPaired(Append(h, Says(c)))
<1>1. BothPaired(Append(h, Hello))
    <2>1. Hello \in Turns
        BY DEF Turns
    <2> QED
        BY <2>1, HelloIsPaired, PairedWithMessage
<1>2. ASSUME NEW c \in Spoken, ToolUses(c) = <<>>
      PROVE  BothPaired(Append(h, Says(c)))
    <2>1. Says(c) \in Turns
        BY DEF Turns
    <2>2. ChatPaired(Converted(Says(c))) /\ MessagesPaired(<<ToMessageParam(Says(c))>>)
        BY <1>2, SpokenIsSaid, SaidIsPairedInChat, SaidIsPairedInMessages
    <2> QED
        BY <2>1, <2>2, PairedWithMessage
<1> QED
    BY <1>1, <1>2

\* Types hold on, whoever speaks.
LEMMA TypesHold ==
    ASSUME TypeInv, [ReplayNext]_replayVars,
           pc = "tools" => \E h \in Seq(Turns), c \in Spoken : history = Append(h, Says(c))
    PROVE  TypeInv'
<1>1. \A m \in Turns : Append(history, m) \in Seq(Turns)
    BY AppendProperties DEF TypeInv
<1>2. CASE UserSays
    <2>1. history' = Append(history, Hello)
        BY <1>2 DEF UserSays, Said, Hello
    <2>2. history' \in Seq(Turns)
        BY <1>1, <2>1 DEF Turns
    <2> QED
        BY <1>2, <2>2 DEF UserSays, TypeInv
<1>3. CASE Restart
    BY <1>3 DEF Restart, TypeInv
<1>4. CASE ModelIsSilent
    BY <1>4 DEF ModelIsSilent, TypeInv
<1>5. CASE ModelSays
    <2>1. PICK c, o : /\ Keeps(c, o) /\ history' = Append(history, Says(c))
                      /\ received' = Append(received, o) /\ pc' \in {"tools", "user"}
        BY <1>5, ModelSaysIs
    <2>2. history' \in Seq(Turns)
        BY <1>1, <2>1 DEF Turns, Keeps
    <2>3. received' \in Seq(Originals)
        BY <2>1, AppendProperties DEF TypeInv, Keeps
    <2> QED
        BY <1>5, <2>1, <2>2, <2>3 DEF ModelSays, TypeInv
<1>6. CASE ToolsRun
    <2>1. PICK h \in Seq(Turns), c \in Spoken : history = Append(h, Says(c))
        BY <1>6 DEF ToolsRun
    <2>2. history' = Append(history, Answers(c))
        BY <1>6, <2>1, ToolsRunIs
    <2>3. history' \in Seq(Turns)
        BY <1>1, <2>2 DEF Turns
    <2> QED
        BY <1>6, <2>3 DEF ToolsRun, TypeInv
<1>7. CASE UNCHANGED replayVars
    BY <1>7 DEF replayVars, TypeInv
<1> QED
    BY <1>2, <1>3, <1>4, <1>5, <1>6, <1>7 DEF ReplayNext
-----------------------------------------------------------------------------
\* Every step keeps the assistant's lists those of what was received.
LEMMA LosslessStep == LosslessInv /\ [ReplayNext]_replayVars => LosslessInv'
<1> SUFFICES ASSUME LosslessInv, [ReplayNext]_replayVars PROVE LosslessInv'
    OBVIOUS
<1>1. history \in Seq(Turns) /\ received \in Seq(Originals) /\ IsLossless(history, received)
    BY DEF LosslessInv, TypeInv
<1>2. TypeInv'
    BY TypesHold DEF LosslessInv
<1>3. CASE UserSays
    <2>1. history' = Append(history, Hello) /\ received' = received /\ pc' = "model"
        BY <1>3 DEF UserSays, Said, Hello
    <2>2. IsLossless(Append(history, Hello), received)
        BY <1>1, LosslessWithOthers DEF Turns
    <2>3. IsLossless(history', received')
        BY <2>1, <2>2
    <2> QED
        BY <1>2, <2>1, <2>3 DEF LosslessInv
<1>4. CASE Restart \/ ModelIsSilent \/ UNCHANGED replayVars
    <2>1. history' = history /\ received' = received /\ (pc' = "tools" => pc = "tools")
        BY <1>4 DEF Restart, ModelIsSilent, replayVars
    <2>2. IsLossless(history', received')
        BY <1>1, <2>1
    <2> QED
        BY <1>2, <2>1, <2>2 DEF LosslessInv
<1>5. CASE ModelSays
    <2>1. PICK c, o : /\ Keeps(c, o) /\ history' = Append(history, Says(c))
                      /\ received' = Append(received, o)
        BY <1>5, ModelSaysIs
    <2>2. IsLossless(Append(history, Says(c)), Append(received, o))
        BY <1>1, <2>1, LosslessWithResponse
    <2>3. IsLossless(history', received')
        BY <2>1, <2>2
    <2>4. \E h \in Seq(Turns), d \in Spoken : history' = Append(h, Says(d))
        BY <1>1, <2>1 DEF Keeps
    <2> QED
        BY <1>2, <2>3, <2>4 DEF LosslessInv
<1>6. CASE ToolsRun
    <2>1. PICK h \in Seq(Turns), c \in Spoken : history = Append(h, Says(c))
        BY <1>6 DEF ToolsRun, LosslessInv
    <2>2. history' = Append(history, Answers(c)) /\ received' = received /\ pc' = "model"
        BY <1>6, <2>1, ToolsRunIs DEF ToolsRun
    <2>3. IsLossless(Append(history, Answers(c)), received)
        BY <1>1, LosslessWithOthers DEF Turns
    <2>4. IsLossless(history', received')
        BY <2>2, <2>3
    <2> QED
        BY <1>2, <2>2, <2>4 DEF LosslessInv
<1> QED
    BY <1>3, <1>4, <1>5, <1>6 DEF ReplayNext

\* Both invariants hold of an empty history.
LEMMA InitHolds == ReplayInit => LosslessInv /\ PairInv
<1> SUFFICES ASSUME ReplayInit PROVE LosslessInv /\ PairInv
    OBVIOUS
<1>1. TypeInv /\ pc = "user"
    BY DEF ReplayInit, TypeInv
<1>2. IsLossless(history, received) /\ BothPaired(history)
    BY EmptyIsLossless DEF ReplayInit
<1> QED
    BY <1>1, <1>2 DEF LosslessInv, PairInv

(***************************************************************************)
(* ReplayLossless, for every set of bodies and messages and a history of   *)
(* any length: requestPayload and Complete (internal/llm) tell a provider  *)
(* that the assistant said what it sent, in its order, less unknown blocks *)
(* and, to OpenRouter, less empty messages - also after LLM_PROVIDER was   *)
(* changed.                                                                *)
(***************************************************************************)
THEOREM LosslessTheorem == ReplaySpec => []ReplayLossless
<1>1. LosslessInv => ReplayLossless
    BY DEF LosslessInv, IsLossless, ReplayLossless, ReceivedInChat, ReceivedInMessages,
           InChatOrNothing
<1> QED
    BY <1>1, InitHolds, LosslessStep, PTL DEF ReplaySpec

-----------------------------------------------------------------------------
\* Every step keeps the history paired, but for the calls that run.
LEMMA PairStep ==
    ASSUME WholeMessages
    PROVE  PairInv /\ [ReplayNext]_replayVars => PairInv'
<1> SUFFICES ASSUME PairInv, [ReplayNext]_replayVars PROVE PairInv'
    OBVIOUS
<1>1. history \in Seq(Turns)
    BY DEF PairInv, TypeInv
<1>2. TypeInv'
    BY TypesHold DEF PairInv
<1>3. CASE UserSays
    <2>1. history' = Append(history, Hello) /\ pc = "user" /\ pc' = "model"
        BY <1>3 DEF UserSays, Said, Hello
    <2>2. BothPaired(Append(history, Hello))
        BY <1>1, <2>1, PairedAlone DEF PairInv
    <2>3. BothPaired(history')
        BY <2>1, <2>2
    <2> QED
        BY <1>2, <2>1, <2>3 DEF PairInv
<1>4. CASE Restart \/ ModelIsSilent
    <2>1. history' = history /\ pc # "tools" /\ pc' # "tools"
        BY <1>4 DEF Restart, ModelIsSilent
    <2>2. BothPaired(history')
        BY <2>1 DEF PairInv
    <2> QED
        BY <1>2, <2>1, <2>2 DEF PairInv
<1>5. CASE ModelSays
    <2>1. PICK c, o : /\ Keeps(c, o) /\ history' = Append(history, Says(c))
                      /\ pc' \in {"tools", "user"}
                      /\ pc' = "user" => ToolUses(c) = <<>>
        BY <1>5, ModelSaysIs
    <2>2. c \in Spoken /\ BothPaired(history)
        BY <1>5, <2>1 DEF Keeps, ModelSays, PairInv
    <2>3. CASE pc' = "tools"
        BY <1>1, <1>2, <2>1, <2>2, <2>3 DEF PairInv
    <2>4. CASE pc' = "user"
        <3>1. BothPaired(Append(history, Says(c)))
            BY <1>1, <2>1, <2>2, <2>4, PairedAlone
        <3>2. BothPaired(history')
            BY <2>1, <3>1
        <3> QED
            BY <1>2, <2>4, <3>2 DEF PairInv
    <2> QED
        BY <2>1, <2>3, <2>4
<1>6. CASE ToolsRun
    <2>1. PICK h \in Seq(Turns), c \in Spoken : history = Append(h, Says(c)) /\ BothPaired(h)
        BY <1>6 DEF ToolsRun, PairInv
    <2>2. history' = Append(history, Answers(c)) /\ pc' = "model"
        BY <1>6, <2>1, ToolsRunIs DEF ToolsRun
    <2>3. BothPaired(Append(Append(h, Says(c)), Answers(c)))
        BY <2>1, PairedWithExchange
    <2>4. BothPaired(history')
        BY <2>1, <2>2, <2>3
    <2> QED
        BY <1>2, <2>2, <2>4 DEF PairInv
<1>7. CASE UNCHANGED replayVars
    <2>1. history' = history /\ pc' = pc
        BY <1>7 DEF replayVars
    <2>2. BothPaired(history') = BothPaired(history)
        BY <2>1
    <2> QED
        BY <1>2, <2>1, <2>2 DEF PairInv
<1> QED
    BY <1>3, <1>4, <1>5, <1>6, <1>7 DEF ReplayNext

(***************************************************************************)
(* RequestPaired, for every set of bodies and whole messages and a history *)
(* of any length: each request of runToolLoop (internal/harness) answers   *)
(* every call it holds in the message after it, and nothing else, in the   *)
(* form of either API.  The hypothesis is the one the code needs: the loop *)
(* runs no tool when a message that holds calls was cut at max_tokens.     *)
(***************************************************************************)
THEOREM RequestPairedTheorem ==
    ASSUME WholeMessages
    PROVE  ReplaySpec => []RequestPaired
<1>1. PairInv => RequestPaired
    BY DEF PairInv, BothPaired, RequestPaired
<1>2. PairInv /\ [ReplayNext]_replayVars => PairInv'
    BY PairStep
<1> QED
    BY <1>1, <1>2, InitHolds, PTL DEF ReplaySpec

-----------------------------------------------------------------------------
\* What the loop gets from either client.
Decoded == {Decode(b) : b \in {c \in Bodies : Decodable(c)}}
           \cup {DecodeMessage(b) : b \in Messages}

(***************************************************************************)
(* The pipeline is told the truth: what either client (Complete of         *)
(* internal/llm) makes of a reply is, in outline, a response as Harness    *)
(* has them, and one that uses tools has the stop reason "tool_use", the   *)
(* hypothesis WholeTools of the theorems about turns - of OpenRouter       *)
(* always, of Anthropic if no message was cut after a call.                *)
(***************************************************************************)
THEOREM WholeToolsTheorem ==
    ASSUME WholeMessages
    PROVE  \A response \in Decoded :
               /\ Outline(response) \in ResponseType
               /\ Outline(response).uses => Outline(response).stop = "tool_use"
<1>1. ASSUME NEW r, IsSaid(r.content), r.stop # "tool_use" => ToolUses(r.content) = <<>>
      PROVE  /\ Outline(r) \in ResponseType
             /\ Outline(r).uses => Outline(r).stop = "tool_use"
    <2>1. PICK c : c = r.content /\ c \in Seq(Range(c))
        BY <1>1 DEF IsSaid
    <2>2. (\E i \in DOMAIN c : c[i]["type"] \in {"tool_use"}) <=> Kept(c, "type", {"tool_use"}) # <<>>
        BY <2>1, KeptNotEmpty
    <2>3. (\E i \in DOMAIN c : c[i].type = "tool_use") => r.stop = "tool_use"
        BY <1>1, <2>1, <2>2 DEF ToolUses
    <2>4. Outline(r) \in ResponseType
        BY DEF Outline, ResponseType
    <2> QED
        BY <2>1, <2>3, <2>4 DEF Outline
<1>2. ASSUME NEW b \in Bodies, Decodable(b)
      PROVE  /\ IsSaid(Decode(b).content)
             /\ Decode(b).stop # "tool_use" => ToolUses(Decode(b).content) = <<>>
    BY <1>2, ChatReplyKeeps, SpokenIsSaid DEF Keeps
<1>3. ASSUME NEW b \in Messages
      PROVE  /\ IsSaid(DecodeMessage(b).content)
             /\ DecodeMessage(b).stop # "tool_use" => ToolUses(DecodeMessage(b).content) = <<>>
    BY MessagesReplyKeeps, SpokenIsSaid DEF Keeps
<1> QED
    BY <1>1, <1>2, <1>3 DEF Decoded
==============================================================================
