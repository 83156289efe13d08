----------------------------- MODULE FilterProofs -----------------------------
(* What Filter keeps of a sequence, and the induction over the naturals the  *)
(* facts rest on.                                                            *)
EXTENDS Filter, Functions, FiniteSetTheorems, WellFoundedInduction, TLAPS

(* A bounded set of naturals has a greatest member.                         *)
LEMMA GreatestMember ==
    ASSUME NEW S, S \subseteq Nat, S # {}, NEW n \in Nat, \A x \in S : x <= n
    PROVE  \E m \in S : \A x \in S : x <= m
<1> DEFINE Above(x) == {k \in 0 .. n : x <= k}
           T == {Above(x) : x \in S}
<1>1. IsWellFoundedOn(StrictSubsetOrdering(0 .. n), SUBSET (0 .. n))
  <2>1. IsFiniteSet(0 .. n)
    BY FS_Interval
  <2>2. FiniteSubsetsOf(0 .. n) = SUBSET (0 .. n)
    BY <2>1, FS_FiniteSubsetsOfFinite, Zenon
  <2> QED BY <2>2, FS_StrictSubsetOrderingWellFounded, Zenon
<1>2. T \subseteq SUBSET (0 .. n) /\ T # {}
  OBVIOUS
<1>3. PICK t \in T : \A u \in T : ~(<<u, t>> \in StrictSubsetOrdering(0 .. n))
  <2> HIDE DEF T
  <2> QED BY <1>1, <1>2, WFMin
<1>4. PICK m \in S : t = Above(m)
  BY <1>3
<1>5. ASSUME NEW x \in S PROVE x <= m
  <2>1. SUFFICES ASSUME m < x PROVE FALSE
    OBVIOUS
  <2>2. Above(x) \in T /\ Above(x) \in SUBSET (0 .. n) /\ t \in SUBSET (0 .. n)
    BY <1>2, <1>3
  <2>3. Above(x) \subseteq t /\ Above(x) # t
    <3>1. m \in Above(m) /\ m \notin Above(x)
      BY <2>1
    <3> QED BY <3>1, <2>1, <1>4
  <2> HIDE DEF T, Above
  <2>4. <<Above(x), t>> \in StrictSubsetOrdering(0 .. n)
    BY <2>2, <2>3 DEF StrictSubsetOrdering
  <2> QED BY <1>3, <2>2, <2>4
<1> QED BY <1>5

(* Induction, for a set of naturals.                                        *)
LEMMA NatSetInduction ==
    ASSUME NEW I, 0 \in I, \A n \in Nat : n \in I => n + 1 \in I
    PROVE  \A n \in Nat : n \in I
<1> SUFFICES ASSUME NEW n \in Nat, n \notin I PROVE FALSE
  OBVIOUS
<1> DEFINE S == {m \in 0 .. n : m \in I}
<1>1. S \subseteq Nat /\ S # {} /\ \A x \in S : x <= n
  OBVIOUS
<1>2. PICK m \in S : \A x \in S : x <= m
  <2> HIDE DEF S
  <2> QED BY <1>1, GreatestMember
<1>3. m \in Nat /\ m \in I /\ m <= n /\ m # n
  BY <1>2
<1>4. m + 1 \in S
  BY <1>3
<1> QED BY <1>2, <1>3, <1>4

(* What is kept of the first n elements                                     *)
Grows(g, s, S, m) ==
    g = [n \in 0 .. m |->
            IF n = 0 THEN <<>>
            ELSE g[n - 1] \o (IF s[n] \in S THEN <<s[n]>> ELSE <<>>)]

LEMMA KeptExists ==
    ASSUME NEW s, NEW S
    PROVE  \A m \in Nat : \E g : Grows(g, s, S, m)
<1> DEFINE I == {m \in Nat : \E g : Grows(g, s, S, m)}
<1>1. 0 \in I
  <2> DEFINE g == [n \in 0 .. 0 |-> <<>>]
  <2>1. Grows(g, s, S, 0)
    BY DEF Grows
  <2> QED BY <2>1
<1>2. ASSUME NEW m \in Nat, m \in I PROVE m + 1 \in I
  <2>1. PICK g : Grows(g, s, S, m)
    BY <1>2
  <2> DEFINE next == g[m] \o (IF s[m + 1] \in S THEN <<s[m + 1]>> ELSE <<>>)
             h == [n \in 0 .. m + 1 |-> IF n <= m THEN g[n] ELSE next]
             k == [n \in 0 .. m + 1 |->
                     IF n = 0 THEN <<>>
                     ELSE h[n - 1] \o (IF s[n] \in S THEN <<s[n]>> ELSE <<>>)]
  <2>2. ASSUME NEW n \in 0 .. m + 1 PROVE h[n] = k[n]
    <3>1. CASE n = 0
      BY <2>1, <3>1 DEF Grows
    <3>2. CASE n # 0 /\ n <= m
      <4>1. n \in 0 .. m /\ n - 1 \in 0 .. m + 1 /\ n - 1 <= m /\ n - 1 \in 0 .. m
        BY <3>2
      <4>2. h[n] = g[n] /\ h[n - 1] = g[n - 1]
        BY <4>1, <3>2
      <4>3. g[n] = g[n - 1] \o (IF s[n] \in S THEN <<s[n]>> ELSE <<>>)
        BY <2>1, <3>2, <4>1 DEF Grows
      <4>4. k[n] = h[n - 1] \o (IF s[n] \in S THEN <<s[n]>> ELSE <<>>)
        <5> HIDE DEF h
        <5> QED BY <3>2
      <4> QED BY <4>2, <4>3, <4>4
    <3>3. CASE n = m + 1
      <4>1. n - 1 = m /\ n # 0 /\ ~(n <= m) /\ m \in 0 .. m + 1
        BY <3>3
      <4>2. h[n] = next /\ h[n - 1] = g[m]
        <5> HIDE DEF next
        <5> QED BY <4>1
      <4>3. k[n] = h[n - 1] \o (IF s[n] \in S THEN <<s[n]>> ELSE <<>>)
        <5> HIDE DEF h
        <5> QED BY <4>1
      <4> QED BY <3>3, <4>2, <4>3
    <3> QED BY <3>1, <3>2, <3>3
  <2>3. h = k
    <3>1. DOMAIN h = 0 .. m + 1 /\ DOMAIN k = 0 .. m + 1
      OBVIOUS
    <3>2. h = [n \in 0 .. m + 1 |-> h[n]] /\ k = [n \in 0 .. m + 1 |-> k[n]]
      OBVIOUS
    <3> HIDE DEF h, k
    <3> QED BY <2>2, <3>2
  <2>4. Grows(h, s, S, m + 1)
    <3> HIDE DEF h
    <3> QED BY <2>3 DEF Grows
  <2> QED BY <2>4
<1>3. \A m \in Nat : m \in I
  <2> HIDE DEF I
  <2> QED BY <1>1, <1>2, NatSetInduction
<1> QED BY <1>3

LEMMA OnlyKept ==
    ASSUME NEW s, Len(s) \in Nat, NEW S
    PROVE  \E g : Grows(g, s, S, Len(s)) /\ Only(s, S) = g[Len(s)]
<1> DEFINE kept == CHOOSE g : Grows(g, s, S, Len(s))
<1>1. Grows(kept, s, S, Len(s))
  BY KeptExists
<1>2. Only(s, S) = kept[Len(s)]
  BY DEF Only, Grows
<1> QED BY <1>1, <1>2

(* One more element on a sequence                                           *)
LEMMA Appended ==
    ASSUME NEW T, NEW s \in Seq(T), NEW x \in T
    PROVE  /\ Append(s, x) \in Seq(T) /\ Len(Append(s, x)) = Len(s) + 1
           /\ Range(Append(s, x)) = Range(s) \cup {x}
           /\ IsInjective(s) /\ x \notin Range(s) => IsInjective(Append(s, x))
<1> DEFINE a == Append(s, x)
<1>1. /\ a \in Seq(T) /\ Len(a) = Len(s) + 1 /\ Len(s) \in Nat
      /\ \A k \in 1 .. Len(s) : a[k] = s[k]
      /\ a[Len(s) + 1] = x
      /\ DOMAIN a = 1 .. Len(s) + 1 /\ DOMAIN s = 1 .. Len(s)
  OBVIOUS
<1> HIDE DEF a
<1>2. Range(a) = Range(s) \cup {x}
  <2>1. ASSUME NEW y \in Range(a) PROVE y \in Range(s) \cup {x}
    <3>1. PICK k \in 1 .. Len(s) + 1 : y = a[k]
      BY <1>1 DEF Range
    <3>2. CASE k = Len(s) + 1
      BY <1>1, <3>1, <3>2
    <3>3. CASE k # Len(s) + 1
      <4>1. k \in 1 .. Len(s)
        BY <1>1, <3>3
      <4> QED BY <1>1, <3>1, <4>1 DEF Range
    <3> QED BY <3>2, <3>3
  <2>2. ASSUME NEW y \in Range(s) PROVE y \in Range(a)
    <3>1. PICK k \in 1 .. Len(s) : y = s[k]
      BY <1>1 DEF Range
    <3>2. k \in DOMAIN a /\ a[k] = y
      BY <1>1, <3>1
    <3> QED BY <3>2 DEF Range
  <2>3. x \in Range(a)
    <3>1. Len(s) + 1 \in DOMAIN a
      BY <1>1
    <3> QED BY <1>1, <3>1 DEF Range
  <2> QED BY <2>1, <2>2, <2>3
<1>3. ASSUME IsInjective(s), x \notin Range(s) PROVE IsInjective(a)
  <2>1. \A k \in 1 .. Len(s) : s[k] # x
    BY <1>1, <1>3 DEF Range
  <2>2. ASSUME NEW k \in 1 .. Len(s) + 1, NEW l \in 1 .. Len(s) + 1, a[k] = a[l]
        PROVE  k = l
    <3>1. k \in 1 .. Len(s) \/ k = Len(s) + 1
      BY <1>1
    <3>2. l \in 1 .. Len(s) \/ l = Len(s) + 1
      BY <1>1
    <3>3. CASE k \in 1 .. Len(s) /\ l \in 1 .. Len(s)
      BY <1>1, <1>3, <2>2, <3>3 DEF IsInjective
    <3>4. CASE k = Len(s) + 1 /\ l \in 1 .. Len(s)
      BY <1>1, <2>1, <2>2, <3>4
    <3>5. CASE l = Len(s) + 1 /\ k \in 1 .. Len(s)
      BY <1>1, <2>1, <2>2, <3>5
    <3> QED BY <3>1, <3>2, <3>3, <3>4, <3>5
  <2> QED BY <1>1, <2>2 DEF IsInjective
<1> QED BY <1>1, <1>2, <1>3 DEF a

(* Only keeps the members of S, each once and in their order.               *)
KeptOf(t, T, s, S, n) ==
    /\ t \in Seq(T) /\ Len(t) <= n
    /\ Range(t) = {s[k] : k \in 1 .. n} \cap S
    /\ IsInjective(s) => IsInjective(t)

LEMMA OnlyKeeps ==
    ASSUME NEW T, NEW s \in Seq(T), NEW S
    PROVE  /\ Only(s, S) \in Seq(T) /\ Len(Only(s, S)) <= Len(s)
           /\ Range(Only(s, S)) = Range(s) \cap S
           /\ IsInjective(s) => IsInjective(Only(s, S))
<1>1. Len(s) \in Nat /\ DOMAIN s = 1 .. Len(s) /\ \A n \in 1 .. Len(s) : s[n] \in T
  OBVIOUS
<1>2. PICK g : Grows(g, s, S, Len(s)) /\ Only(s, S) = g[Len(s)]
  BY <1>1, OnlyKept
<1> DEFINE I == {n \in Nat : n <= Len(s) => KeptOf(g[n], T, s, S, n)}
<1>3. 0 \in I
  <2>1. g[0] = <<>>
    BY <1>1, <1>2 DEF Grows
  <2>2. Range(<<>>) = {} /\ IsInjective(<<>>) /\ <<>> \in Seq(T) /\ Len(<<>>) = 0
    BY DEF Range, IsInjective
  <2>3. {s[k] : k \in 1 .. 0} = {}
    OBVIOUS
  <2>4. KeptOf(<<>>, T, s, S, 0)
    <3>1. Len(<<>>) <= 0
      BY <2>2
    <3> QED BY <2>2, <2>3, <3>1, Zenon DEF KeptOf
  <2>5. KeptOf(g[0], T, s, S, 0)
    BY <2>1, <2>4
  <2> QED BY <2>5
<1>4. ASSUME NEW n \in Nat, n \in I PROVE n + 1 \in I
  <2>1. SUFFICES ASSUME n + 1 <= Len(s) PROVE KeptOf(g[n + 1], T, s, S, n + 1)
    BY <1>4
  <2>2. KeptOf(g[n], T, s, S, n)
    BY <1>1, <1>4, <2>1
  <2>3. n + 1 \in 1 .. Len(s) /\ s[n + 1] \in T
    BY <1>1, <2>1
  <2>4. g[n + 1] = IF s[n + 1] \in S THEN Append(g[n], s[n + 1]) ELSE g[n]
    <3>1. n + 1 \in 0 .. Len(s) /\ n + 1 # 0 /\ (n + 1) - 1 = n
      BY <1>1, <2>1
    <3>2. g[n + 1] = g[(n + 1) - 1] \o (IF s[n + 1] \in S THEN <<s[n + 1]>> ELSE <<>>)
      BY <1>2, <3>1 DEF Grows
    <3>3. g[n + 1] = g[n] \o (IF s[n + 1] \in S THEN <<s[n + 1]>> ELSE <<>>)
      BY <3>1, <3>2
    <3>4. g[n] \in Seq(T)
      BY <2>2 DEF KeptOf
    <3>5. s[n + 1] \in S => g[n + 1] = Append(g[n], s[n + 1])
      <4>1. g[n] \o <<s[n + 1]>> = Append(g[n], s[n + 1])
        BY <2>3, <3>4
      <4> QED BY <3>3, <4>1
    <3>6. s[n + 1] \notin S => g[n + 1] = g[n]
      <4>1. g[n] \o <<>> = g[n]
        BY <3>4
      <4> QED BY <3>3, <4>1
    <3> QED BY <3>5, <3>6
  <2>5. {s[k] : k \in 1 .. n + 1} = {s[k] : k \in 1 .. n} \cup {s[n + 1]}
    <3>1. 1 .. n + 1 = (1 .. n) \cup {n + 1}
      OBVIOUS
    <3> QED BY <3>1
  <2>6. IsInjective(s) => s[n + 1] \notin {s[k] : k \in 1 .. n}
    BY <1>1, <2>1 DEF IsInjective
  <2>7. CASE s[n + 1] \in S
    <3>1. g[n + 1] = Append(g[n], s[n + 1])
      BY <2>4, <2>7
    <3>2. /\ g[n + 1] \in Seq(T) /\ Len(g[n + 1]) = Len(g[n]) + 1
          /\ Range(g[n + 1]) = Range(g[n]) \cup {s[n + 1]}
          /\ IsInjective(g[n]) /\ s[n + 1] \notin Range(g[n]) => IsInjective(g[n + 1])
      BY <2>2, <2>3, <3>1, Appended DEF KeptOf
    <3>3. Len(g[n + 1]) <= n + 1
      BY <2>2, <3>2 DEF KeptOf
    <3>4. Range(g[n + 1]) = {s[k] : k \in 1 .. n + 1} \cap S
      BY <2>2, <2>5, <2>7, <3>2 DEF KeptOf
    <3> QED BY <2>2, <2>6, <3>2, <3>3, <3>4 DEF KeptOf
  <2>8. CASE s[n + 1] \notin S
    <3>1. Range(g[n]) = {s[k] : k \in 1 .. n + 1} \cap S
      BY <2>2, <2>5, <2>8 DEF KeptOf
    <3>2. Len(g[n]) <= n + 1
      BY <2>2 DEF KeptOf
    <3> QED BY <2>2, <2>4, <2>8, <3>1, <3>2 DEF KeptOf
  <2> QED BY <2>7, <2>8
<1>5. Len(s) \in I
  <2> HIDE DEF I
  <2> QED BY <1>1, <1>3, <1>4, NatSetInduction
<1>6. KeptOf(Only(s, S), T, s, S, Len(s))
  BY <1>1, <1>2, <1>5
<1>7. Range(s) = {s[k] : k \in 1 .. Len(s)}
  BY <1>1 DEF Range
<1> QED BY <1>6, <1>7 DEF KeptOf

LEMMA EmptyRange ==
    ASSUME NEW T, NEW s \in Seq(T)
    PROVE  (s = <<>>) <=> (Range(s) = {})
<1>1. s # <<>> => 1 \in DOMAIN s
  OBVIOUS
<1> QED BY <1>1 DEF Range

(* The first of a sequence, and the rest of one without repetition          *)
LEMMA HeadAndTail ==
    ASSUME NEW T, NEW s \in Seq(T), s # <<>>
    PROVE  /\ Head(s) \in T /\ Head(s) \in Range(s)
           /\ Tail(s) \in Seq(T) /\ Range(Tail(s)) \subseteq Range(s)
           /\ Len(Tail(s)) = Len(s) - 1
           /\ IsInjective(s) => IsInjective(Tail(s)) /\ Head(s) \notin Range(Tail(s))
<1> DEFINE t == Tail(s)
<1>1. /\ t \in Seq(T) /\ Len(t) = Len(s) - 1 /\ Len(s) \in Nat /\ Len(s) > 0
      /\ \A k \in 1 .. Len(s) - 1 : t[k] = s[k + 1]
      /\ DOMAIN t = 1 .. Len(s) - 1 /\ DOMAIN s = 1 .. Len(s)
      /\ Head(s) = s[1] /\ s[1] \in T
  OBVIOUS
<1> HIDE DEF t
<1>2. \A k \in DOMAIN t : k + 1 \in DOMAIN s /\ t[k] = s[k + 1] /\ k + 1 # 1 /\ k \in Nat
  BY <1>1
<1>3. 1 \in DOMAIN s
  BY <1>1
<1>4. Range(t) \subseteq Range(s)
  BY <1>2 DEF Range
<1>5. IsInjective(s) => IsInjective(t)
  <2>1. ASSUME IsInjective(s), NEW k \in DOMAIN t, NEW l \in DOMAIN t, t[k] = t[l]
        PROVE  k = l
    <3>1. k + 1 = l + 1
      BY <1>2, <2>1 DEF IsInjective
    <3> QED BY <1>2, <2>1, <3>1
  <2> QED BY <2>1 DEF IsInjective
<1>6. IsInjective(s) => s[1] \notin Range(t)
  BY <1>2, <1>3 DEF IsInjective, Range
<1> QED BY <1>1, <1>3, <1>4, <1>5, <1>6 DEF Range, t

(* Two sequences with nothing in common, one after the other                *)
LEMMA Concatenated ==
    ASSUME NEW T, NEW s \in Seq(T), NEW t \in Seq(T)
    PROVE  /\ s \o t \in Seq(T) /\ Len(s \o t) = Len(s) + Len(t)
           /\ Range(s \o t) = Range(s) \cup Range(t)
           /\ IsInjective(s) /\ IsInjective(t) /\ Range(s) \cap Range(t) = {}
                => IsInjective(s \o t)
<1> DEFINE c == s \o t
<1>1. /\ c \in Seq(T) /\ Len(c) = Len(s) + Len(t) /\ Len(s) \in Nat /\ Len(t) \in Nat
      /\ DOMAIN c = 1 .. Len(s) + Len(t) /\ DOMAIN s = 1 .. Len(s) /\ DOMAIN t = 1 .. Len(t)
  OBVIOUS
<1>2. \A k \in 1 .. Len(s) : c[k] = s[k]
  OBVIOUS
<1>3. \A k \in 1 .. Len(t) : c[k + Len(s)] = t[k]
  <2> SUFFICES ASSUME NEW k \in 1 .. Len(t) PROVE c[k + Len(s)] = t[k]
    OBVIOUS
  <2>1. c[k + Len(s)] = t[(k + Len(s)) - Len(s)]
    BY <1>1
  <2>2. (k + Len(s)) - Len(s) = k
    BY <1>1
  <2> QED BY <2>1, <2>2
<1> HIDE DEF c
<1>4. ASSUME NEW k \in DOMAIN c
      PROVE  \/ k \in DOMAIN s /\ c[k] = s[k]
             \/ k - Len(s) \in DOMAIN t /\ c[k] = t[k - Len(s)]
  <2>1. CASE k <= Len(s)
    BY <1>1, <1>2, <2>1
  <2>2. CASE ~(k <= Len(s))
    <3>1. k - Len(s) \in 1 .. Len(t) /\ (k - Len(s)) + Len(s) = k
      BY <1>1, <2>2
    <3> QED BY <1>1, <1>3, <3>1
  <2> QED BY <2>1, <2>2
<1>5. Range(c) = Range(s) \cup Range(t)
  <2>1. Range(c) \subseteq Range(s) \cup Range(t)
    BY <1>4 DEF Range
  <2>2. ASSUME NEW k \in DOMAIN s PROVE s[k] \in Range(c)
    <3>1. k \in DOMAIN c /\ c[k] = s[k]
      BY <1>1, <1>2, <2>2
    <3> QED BY <3>1 DEF Range
  <2>3. ASSUME NEW k \in DOMAIN t PROVE t[k] \in Range(c)
    <3>1. k + Len(s) \in DOMAIN c /\ c[k + Len(s)] = t[k]
      BY <1>1, <1>3, <2>3
    <3> QED BY <3>1 DEF Range
  <2> QED BY <2>1, <2>2, <2>3 DEF Range
<1>6. ASSUME IsInjective(s), IsInjective(t), Range(s) \cap Range(t) = {},
             NEW k \in DOMAIN c, NEW l \in DOMAIN c, c[k] = c[l]
      PROVE  k = l
  <2>1. \A a \in DOMAIN s, b \in DOMAIN t : s[a] # t[b]
    BY <1>6 DEF Range
  <2>2. k \in Int /\ l \in Int
    BY <1>1
  <2>3. CASE k \in DOMAIN s /\ c[k] = s[k] /\ l \in DOMAIN s /\ c[l] = s[l]
    BY <1>6, <2>3 DEF IsInjective
  <2>4. CASE /\ k - Len(s) \in DOMAIN t /\ c[k] = t[k - Len(s)]
             /\ l - Len(s) \in DOMAIN t /\ c[l] = t[l - Len(s)]
    <3>1. k - Len(s) = l - Len(s)
      BY <1>6, <2>4 DEF IsInjective
    <3> QED BY <1>1, <2>2, <3>1
  <2> QED BY <1>4, <1>6, <2>1, <2>3, <2>4
<1> QED BY <1>1, <1>5, <1>6 DEF IsInjective, c
=============================================================================
