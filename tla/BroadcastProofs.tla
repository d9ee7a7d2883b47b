--------------------------- MODULE BroadcastProofs ---------------------------
(* Proofs about Broadcast, for any clients, any number of workers and of     *)
(* messages.                                                                *)
EXTENDS Broadcast, SequenceTheorems, FiniteSetTheorems, TLAPS

(* The members of a sequence. *)
LEMMA RangeOf ==
  ASSUME NEW S, NEW s \in Seq(S)
  PROVE  /\ Range(s) \subseteq S
         /\ \A x : x \in Range(s) <=> \E i \in 1 .. Len(s) : s[i] = x
         /\ IsInjective(s) <=> \A i, j \in 1 .. Len(s) : s[i] = s[j] => i = j
<1>1. DOMAIN s = 1 .. Len(s) /\ \A i \in 1 .. Len(s) : s[i] \in S
  BY LenProperties, ElementOfSeq
<1> QED
  BY <1>1 DEF Range, IsInjective

(* A sequence grows at its end. *)
LEMMA RangeAppend ==
  ASSUME NEW S, NEW s \in Seq(S), NEW x \in S
  PROVE  /\ Append(s, x) \in Seq(S)
         /\ Range(Append(s, x)) = Range(s) \cup {x}
         /\ IsInjective(s) /\ x \notin Range(s) => IsInjective(Append(s, x))
         /\ \A y, z : Before(Append(s, x), y, z) => \/ Before(s, y, z)
                                                    \/ y \in Range(s) /\ z = x
<1> DEFINE t == Append(s, x)
           n == Len(s)
<1>1. /\ t \in Seq(S) /\ n \in Nat /\ Len(t) = n + 1
      /\ \A i \in 1 .. n : t[i] = s[i]
      /\ t[n + 1] = x
      /\ DOMAIN s = 1 .. n /\ DOMAIN t = 1 .. Len(t)
  <2>1. t \in Seq(S)
    BY AppendProperties
  <2> QED
    BY <2>1, AppendProperties, LenProperties
<1>2. Range(s) = {s[i] : i \in 1 .. n} /\ Range(t) = {t[i] : i \in 1 .. n + 1}
  BY <1>1 DEF Range
<1> HIDE DEF t, n
<1>3. \A i \in 1 .. n + 1 : i \in 1 .. n \/ i = n + 1
  BY <1>1
<1>4. Range(t) = Range(s) \cup {x}
  <2>1. ASSUME NEW y \in Range(t) PROVE y \in Range(s) \cup {x}
    BY <1>1, <1>2, <1>3
  <2>2. x \in Range(t) /\ \A y \in Range(s) : y \in Range(t)
    BY <1>1, <1>2
  <2> QED
    BY <2>1, <2>2
<1>5. ASSUME IsInjective(s), x \notin Range(s) PROVE IsInjective(t)
  BY <1>1, <1>2, <1>3, <1>5 DEF IsInjective
<1>6. ASSUME NEW y, NEW z, Before(t, y, z) PROVE Before(s, y, z) \/ (y \in Range(s) /\ z = x)
  <2>1. PICK i \in 1 .. n + 1 : \E j \in 1 .. n + 1 : i < j /\ t[i] = y /\ t[j] = z
    BY <1>1, <1>6 DEF Before
  <2>2. PICK j \in 1 .. n + 1 : i < j /\ t[i] = y /\ t[j] = z
    BY <2>1
  <2>3. i \in 1 .. n
    BY <1>1, <2>2
  <2>4. CASE j \in 1 .. n
    BY <1>1, <2>2, <2>3, <2>4 DEF Before
  <2>5. CASE j = n + 1
    BY <1>1, <1>2, <2>2, <2>3, <2>5
  <2> QED
    BY <1>3, <2>4, <2>5
<1> QED
  BY <1>1, <1>4, <1>5, <1>6 DEF t

(* It shrinks at its front. *)
LEMMA RangeTail ==
  ASSUME NEW S, NEW s \in Seq(S), s # << >>
  PROVE  /\ Head(s) \in S /\ Tail(s) \in Seq(S)
         /\ Range(s) = Range(Tail(s)) \cup {Head(s)}
         /\ IsInjective(s) => Head(s) \notin Range(Tail(s)) /\ IsInjective(Tail(s))
<1> DEFINE t == Tail(s)
           n == Len(t)
<1>1. /\ t \in Seq(S) /\ Head(s) \in S /\ n \in Nat /\ Len(s) = n + 1
      /\ \A i \in 1 .. n : t[i] = s[i + 1]
      /\ s[1] = Head(s)
      /\ DOMAIN t = 1 .. n /\ DOMAIN s = 1 .. n + 1
  <2>1. /\ t \in Seq(S) /\ Head(s) \in S /\ Len(t) = Len(s) - 1
        /\ \A i \in 1 .. Len(t) : t[i] = s[i + 1]
    BY HeadTailProperties
  <2>2. Len(s) \in Nat /\ DOMAIN s = 1 .. Len(s) /\ Len(t) \in Nat /\ DOMAIN t = 1 .. Len(t)
    BY <2>1, LenProperties
  <2> QED
    BY <2>1, <2>2
<1>2. Range(t) = {t[i] : i \in 1 .. n} /\ Range(s) = {s[i] : i \in 1 .. n + 1}
  BY <1>1 DEF Range
<1> HIDE DEF t, n
<1>3. \A i \in 1 .. n + 1 : i = 1 \/ (i - 1 \in 1 .. n /\ (i - 1) + 1 = i)
  BY <1>1
<1>4. 1 \in 1 .. n + 1 /\ \A i \in 1 .. n : i + 1 \in 1 .. n + 1 /\ i + 1 # 1
  BY <1>1
<1>5. Range(s) = Range(t) \cup {Head(s)}
  <2>1. ASSUME NEW y \in Range(s) PROVE y \in Range(t) \cup {Head(s)}
    <3>1. PICK i \in 1 .. n + 1 : y = s[i]
      BY <1>2
    <3>2. CASE i = 1
      BY <1>1, <3>1, <3>2
    <3>3. CASE i - 1 \in 1 .. n /\ (i - 1) + 1 = i
      <4>1. y = t[i - 1]
        BY <1>1, <3>1, <3>3
      <4> QED
        BY <1>2, <3>3, <4>1
    <3> QED
      BY <1>3, <3>2, <3>3
  <2>2. Head(s) \in Range(s) /\ \A y \in Range(t) : y \in Range(s)
    BY <1>1, <1>2, <1>4
  <2> QED
    BY <2>1, <2>2
<1>6. ASSUME IsInjective(s) PROVE Head(s) \notin Range(t) /\ IsInjective(t)
  <2>1. \A i, j \in 1 .. n + 1 : s[i] = s[j] => i = j
    BY <1>1, <1>6 DEF IsInjective
  <2>2. \A i \in 1 .. n : t[i] # Head(s)
    BY <1>1, <1>4, <2>1
  <2>3. ASSUME NEW i \in 1 .. n, NEW j \in 1 .. n, t[i] = t[j] PROVE i = j
    <3>1. i + 1 = j + 1
      BY <1>1, <1>4, <2>1, <2>3
    <3> QED
      BY <3>1
  <2> QED
    BY <1>1, <1>2, <2>2, <2>3 DEF IsInjective
<1> QED
  BY <1>1, <1>5, <1>6 DEF t

(* std::find and erase, in a list without duplicates. *)
LEMMA RangeRemove ==
  ASSUME NEW S, NEW s \in Seq(S), IsInjective(s), NEW x \in Range(s)
  PROVE  /\ RemoveFirst(s, x) \in Seq(S)
         /\ IsInjective(RemoveFirst(s, x))
         /\ Range(RemoveFirst(s, x)) = Range(s) \ {x}
<1> DEFINE n == Len(s)
           r == RemoveFirst(s, x)
<1>1. n \in Nat /\ DOMAIN s = 1 .. n /\ \A i \in 1 .. n : s[i] \in S
  BY LenProperties, ElementOfSeq
<1>2. PICK k \in 1 .. n : s[k] = x
  BY <1>1 DEF Range
<1>3. {i \in 1 .. n : s[i] = x} = {k}
  BY <1>1, <1>2 DEF IsInjective
<1>4. r = SubSeq(s, 1, k - 1) \o SubSeq(s, k + 1, n)
  <2>1. Min({k}) = k
    BY <1>1 DEF Min
  <2>2. SelectInSeq(s, LAMBDA v : v = x) = k
    BY <1>2, <1>3, <2>1 DEF SelectInSeq
  <2> QED
    BY <1>2, <2>2 DEF RemoveFirst, RemoveAt
<1> DEFINE a == SubSeq(s, 1, k - 1)
           b == SubSeq(s, k + 1, n)
<1>5. /\ a \in Seq(S) /\ Len(a) = k - 1 /\ \A i \in 1 .. k - 1 : a[i] = s[i]
      /\ b \in Seq(S) /\ Len(b) = n - k /\ \A i \in 1 .. n - k : b[i] = s[k + i]
  <2>1. /\ 1 \in Int /\ k - 1 \in Int /\ k + 1 \in Int /\ n \in Int
        /\ \A i \in 1 .. k - 1 : s[i] \in S
        /\ \A i \in k + 1 .. n : s[i] \in S
    BY <1>1
  <2>2. /\ a \in Seq(S) /\ Len(a) = IF 1 <= k - 1 THEN (k - 1) - 1 + 1 ELSE 0
        /\ \A i \in 1 .. (k - 1) - 1 + 1 : a[i] = s[1 + i - 1]
    BY <2>1, SubSeqProperties
  <2>3. /\ b \in Seq(S) /\ Len(b) = IF k + 1 <= n THEN n - (k + 1) + 1 ELSE 0
        /\ \A i \in 1 .. n - (k + 1) + 1 : b[i] = s[(k + 1) + i - 1]
    BY <2>1, SubSeqProperties
  <2> HIDE DEF a, b, n
  <2>4. \A i \in 1 .. k - 1 : 1 + i - 1 = i /\ i \in 1 .. (k - 1) - 1 + 1
    BY <1>1
  <2>5. \A i \in 1 .. n - k : (k + 1) + i - 1 = k + i /\ i \in 1 .. n - (k + 1) + 1
    BY <1>1
  <2>6. Len(a) = k - 1 /\ Len(b) = n - k
    BY <1>1, <2>2, <2>3
  <2> QED
    BY <2>2, <2>3, <2>4, <2>5, <2>6
<1> HIDE DEF a, b, n, r
<1>6. /\ r \in Seq(S) /\ Len(r) = n - 1
      /\ \A i \in 1 .. n - 1 : r[i] = IF i < k THEN s[i] ELSE s[i + 1]
  <2>1. /\ a \o b \in Seq(S) /\ Len(a \o b) = Len(a) + Len(b)
        /\ \A i \in 1 .. Len(a) + Len(b) :
               (a \o b)[i] = IF i <= Len(a) THEN a[i] ELSE b[i - Len(a)]
    BY <1>5, ConcatProperties
  <2>2. r = a \o b /\ Len(a) + Len(b) = n - 1
    <3>1. r = a \o b
      BY <1>4 DEF a, b
    <3> QED
      BY <1>1, <1>5, <3>1
  <2>3. ASSUME NEW i \in 1 .. n - 1 PROVE r[i] = IF i < k THEN s[i] ELSE s[i + 1]
    <3>1. CASE i < k
      BY <1>1, <1>5, <2>1, <2>2, <3>1
    <3>2. CASE ~ (i < k)
      <4>1. i - (k - 1) \in 1 .. n - k /\ ~ (i <= k - 1) /\ k + (i - (k - 1)) = i + 1
        BY <1>1, <3>2
      <4>2. r[i] = b[i - (k - 1)]
        BY <1>5, <2>1, <2>2, <4>1
      <4> QED
        BY <1>5, <3>2, <4>1, <4>2
    <3> QED
      BY <3>1, <3>2
  <2> QED
    BY <2>1, <2>2, <2>3
<1>7. DOMAIN r = 1 .. n - 1
  BY <1>6, LenProperties
<1> DEFINE old(i) == IF i < k THEN i ELSE i + 1
<1>8. /\ \A i \in 1 .. n - 1 : old(i) \in 1 .. n /\ old(i) # k /\ r[i] = s[old(i)]
      /\ \A i, j \in 1 .. n - 1 : old(i) = old(j) => i = j
  BY <1>1, <1>6
<1>9. ASSUME NEW i \in 1 .. n, i # k PROVE \E j \in 1 .. n - 1 : old(j) = i
  <2>1. CASE i < k
    BY <1>1, <2>1
  <2>2. CASE i > k
    <3>1. i - 1 \in 1 .. n - 1 /\ old(i - 1) = i
      BY <1>1, <2>2
    <3> QED
      BY <3>1
  <2> QED
    BY <1>1, <1>9, <2>1, <2>2
<1> HIDE DEF old
<1>10. IsInjective(r)
  BY <1>1, <1>7, <1>8 DEF IsInjective
<1>11. Range(r) = Range(s) \ {x}
  <2>1. ASSUME NEW y \in Range(r) PROVE y \in Range(s) /\ y # x
    BY <1>1, <1>2, <1>7, <1>8, <2>1 DEF Range, IsInjective
  <2>2. ASSUME NEW y \in Range(s), y # x PROVE y \in Range(r)
    <3>1. PICK i \in 1 .. n : y = s[i]
      BY <1>1 DEF Range
    <3>2. PICK j \in 1 .. n - 1 : old(j) = i
      BY <1>2, <1>9, <2>2, <3>1
    <3> QED
      BY <1>7, <1>8, <3>1, <3>2 DEF Range
  <2> QED
    BY <2>1, <2>2
<1> QED
  BY <1>6, <1>10, <1>11 DEF r

(* The kernel gets to the oldest send: what was posted stays what it was, *)
LEMMA PostedTransmit ==
  ASSUME NEW S, NEW d \in Seq(S), NEW p \in Seq(S), p # << >>
  PROVE  Append(d, Head(p)) \o Tail(p) = d \o p
<1> DEFINE h == Head(p)
           t == Tail(p)
           e == Append(d, h)
           n == Len(d)
           k == Len(t)
<1>1. /\ h \in S /\ t \in Seq(S) /\ k \in Nat /\ Len(p) = k + 1 /\ n \in Nat
      /\ \A i \in 1 .. k : t[i] = p[i + 1]
      /\ p[1] = h
  <2>1. /\ t \in Seq(S) /\ h \in S /\ Len(t) = Len(p) - 1
        /\ \A i \in 1 .. Len(t) : t[i] = p[i + 1]
    BY HeadTailProperties
  <2>2. Len(p) \in Nat /\ Len(t) \in Nat /\ Len(d) \in Nat
    BY <2>1, LenProperties
  <2> QED
    BY <2>1, <2>2
<1> HIDE DEF h, t
<1>2. e \in Seq(S) /\ Len(e) = n + 1 /\ (\A i \in 1 .. n : e[i] = d[i]) /\ e[n + 1] = h
  BY <1>1, AppendProperties
<1> HIDE DEF e
<1>3. /\ e \o t \in Seq(S) /\ Len(e \o t) = Len(e) + Len(t)
      /\ \A i \in 1 .. Len(e) + Len(t) : (e \o t)[i] = IF i <= Len(e) THEN e[i] ELSE t[i - Len(e)]
      /\ d \o p \in Seq(S) /\ Len(d \o p) = Len(d) + Len(p)
      /\ \A i \in 1 .. Len(d) + Len(p) : (d \o p)[i] = IF i <= Len(d) THEN d[i] ELSE p[i - Len(d)]
  BY <1>1, <1>2, ConcatProperties
<1> HIDE DEF n, k
<1>4. Len(e) + Len(t) = n + k + 1 /\ Len(d) + Len(p) = n + k + 1 /\ Len(e) = n + 1 /\ Len(d) = n
  BY <1>1, <1>2 DEF n, k
<1>5. ASSUME NEW i \in 1 .. n + k + 1 PROVE (e \o t)[i] = (d \o p)[i]
  <2>1. CASE i <= n
    BY <1>1, <1>2, <1>3, <1>4, <2>1
  <2>2. CASE i = n + 1
    BY <1>1, <1>2, <1>3, <1>4, <2>2
  <2>3. CASE i > n + 1
    <3>1. /\ i - (n + 1) \in 1 .. k /\ (i - (n + 1)) + 1 = i - n
          /\ ~ (i <= n + 1) /\ ~ (i <= n)
      BY <1>1, <2>3
    <3>2. (e \o t)[i] = t[i - (n + 1)] /\ (d \o p)[i] = p[i - n]
      BY <1>3, <1>4, <3>1
    <3> QED
      BY <1>1, <3>1, <3>2
  <2>4. i <= n \/ i = n + 1 \/ i > n + 1
    BY <1>1
  <2> QED
    BY <2>1, <2>2, <2>3, <2>4
<1>6. e \o t = d \o p
  BY <1>3, <1>4, <1>5, SeqEqual
<1> QED
  BY <1>6 DEF e, h, t

(* or, if the send fails, loses it. *)
LEMMA PostedFail ==
  ASSUME NEW S, NEW d \in Seq(S), NEW p \in Seq(S), p # << >>
  PROVE  /\ Range(d \o Tail(p)) \subseteq Range(d \o p)
         /\ IsInjective(d \o p) => IsInjective(d \o Tail(p))
         /\ \A y, z : Before(d \o Tail(p), y, z) => Before(d \o p, y, z)
<1> DEFINE t == Tail(p)
           n == Len(d)
           k == Len(t)
           u == d \o p
           v == d \o t
<1>1. /\ t \in Seq(S) /\ k \in Nat /\ Len(p) = k + 1 /\ n \in Nat
      /\ \A i \in 1 .. k : t[i] = p[i + 1]
  <2>1. t \in Seq(S) /\ Len(t) = Len(p) - 1 /\ \A i \in 1 .. Len(t) : t[i] = p[i + 1]
    BY HeadTailProperties
  <2>2. Len(p) \in Nat /\ Len(t) \in Nat /\ Len(d) \in Nat
    BY <2>1, LenProperties
  <2> QED
    BY <2>1, <2>2
<1> HIDE DEF t
<1>2. /\ v \in Seq(S) /\ Len(v) = n + Len(t)
      /\ \A i \in 1 .. n + Len(t) : v[i] = IF i <= n THEN d[i] ELSE t[i - n]
      /\ u \in Seq(S) /\ Len(u) = n + Len(p)
      /\ \A i \in 1 .. n + Len(p) : u[i] = IF i <= n THEN d[i] ELSE p[i - n]
  BY <1>1, ConcatProperties
<1>3. DOMAIN v = 1 .. n + k /\ DOMAIN u = 1 .. n + k + 1
  <2>1. DOMAIN v = 1 .. Len(v) /\ DOMAIN u = 1 .. Len(u)
    BY <1>2, LenProperties
  <2> QED
    BY <1>1, <1>2, <2>1
<1> HIDE DEF n, u, v
<1> DEFINE old(i) == IF i <= n THEN i ELSE i + 1
<1>4. ASSUME NEW i \in 1 .. n + k PROVE old(i) \in 1 .. n + k + 1 /\ v[i] = u[old(i)]
  <2>1. CASE i <= n
    BY <1>1, <1>2, <2>1
  <2>2. CASE ~ (i <= n)
    <3>1. /\ i - n \in 1 .. k /\ i + 1 \in 1 .. n + k + 1 /\ ~ (i + 1 <= n)
          /\ (i - n) + 1 = (i + 1) - n
      BY <1>1, <2>2
    <3> QED
      BY <1>1, <1>2, <2>2, <3>1
  <2> QED
    BY <2>1, <2>2
<1>5. \A i, j \in 1 .. n + k : (i < j => old(i) < old(j)) /\ (old(i) = old(j) => i = j)
  BY <1>1
<1> HIDE DEF old, k
<1>6. Range(v) \subseteq Range(u)
  BY <1>3, <1>4 DEF Range
<1>7. IsInjective(u) => IsInjective(v)
  BY <1>3, <1>4, <1>5 DEF IsInjective
<1>8. \A y, z : Before(v, y, z) => Before(u, y, z)
  BY <1>3, <1>4, <1>5 DEF Before
<1> QED
  BY <1>6, <1>7, <1>8 DEF u, v, t

(* A send is posted behind the others. *)
LEMMA PostedAppend ==
  ASSUME NEW S, NEW d \in Seq(S), NEW p \in Seq(S), NEW x \in S
  PROVE  d \o Append(p, x) = Append(d \o p, x)
<1>1. /\ d \o p \in Seq(S) /\ <<x>> \in Seq(S)
      /\ Append(p, x) = p \o <<x>>
  BY AppendIsConcat, ConcatProperties
<1>2. Append(d \o p, x) = (d \o p) \o <<x>>
  BY <1>1, AppendIsConcat
<1>3. d \o (p \o <<x>>) = (d \o p) \o <<x>>
  BY <1>1, ConcatAssociative
<1> QED
  BY <1>1, <1>2, <1>3

(* Both parts of what was posted. *)
LEMMA PostedRange ==
  ASSUME NEW S, NEW d \in Seq(S), NEW p \in Seq(S)
  PROVE  /\ d \o p \in Seq(S)
         /\ Range(d \o p) = Range(d) \cup Range(p)
         /\ \A y, z : Before(d, y, z) => Before(d \o p, y, z)
         /\ IsInjective(d \o p) => IsInjective(d)
<1> DEFINE n == Len(d)
           k == Len(p)
           u == d \o p
<1>1. n \in Nat /\ k \in Nat /\ DOMAIN d = 1 .. n /\ DOMAIN p = 1 .. k
  BY LenProperties
<1>2. /\ u \in Seq(S) /\ Len(u) = n + k
      /\ \A i \in 1 .. n + k : u[i] = IF i <= n THEN d[i] ELSE p[i - n]
  BY ConcatProperties
<1>3. DOMAIN u = 1 .. n + k
  BY <1>2, LenProperties
<1> HIDE DEF n, k, u
<1>4. \A i \in 1 .. n : i \in 1 .. n + k /\ u[i] = d[i]
  BY <1>1, <1>2
<1>5. ASSUME NEW i \in 1 .. k PROVE n + i \in 1 .. n + k /\ u[n + i] = p[i]
  <2>1. n + i \in 1 .. n + k /\ ~ (n + i <= n) /\ (n + i) - n = i
    BY <1>1
  <2> QED
    BY <1>2, <2>1
<1>6. ASSUME NEW i \in 1 .. n + k
      PROVE  (i \in 1 .. n /\ u[i] = d[i]) \/ (i - n \in 1 .. k /\ u[i] = p[i - n])
  BY <1>1, <1>2
<1>7. Range(u) = Range(d) \cup Range(p)
  <2>1. Range(u) \subseteq Range(d) \cup Range(p)
    BY <1>1, <1>3, <1>6 DEF Range
  <2>2. Range(d) \subseteq Range(u)
    BY <1>1, <1>3, <1>4 DEF Range
  <2>3. Range(p) \subseteq Range(u)
    BY <1>1, <1>3, <1>5 DEF Range
  <2> QED
    BY <2>1, <2>2, <2>3
<1>8. \A y, z : Before(d, y, z) => Before(u, y, z)
  BY <1>1, <1>3, <1>4 DEF Before
<1>9. IsInjective(u) => IsInjective(d)
  BY <1>1, <1>3, <1>4 DEF IsInjective
<1> QED
  BY <1>2, <1>7, <1>8, <1>9 DEF u

------------------------------------------------------------------------------
(* Most steps leave the sends and the workers that count them down alone. *)
LEMMA SendsKept ==
  ASSUME UNCHANGED <<pending, done>>,
         \A v \in Workers : worker'[v].at = "sent" \/ worker[v].at = "sent"
                                => worker'[v] = worker[v]
  PROVE  /\ \A b : Outstanding(b)' = Outstanding(b)
         /\ OnceInv => OnceInv'
         /\ UNCHANGED <<refCount, delivered>>
               => \A b : Unsent(b) /\ b \notin refused' => Unsent(b)'
<1>1. \A b : Outstanding(b)' = Outstanding(b)
  BY DEF Outstanding
<1>2. ASSUME OnceInv PROVE OnceInv'
  <2>1. \A c \in Clients : /\ IsInjective(pending'[c])
                           /\ \A b \in Range(pending'[c]) : <<b, c>> \notin done'
    BY <1>2 DEF OnceInv
  <2> QED
    BY <1>2, <2>1 DEF OnceInv
<1>3. UNCHANGED <<refCount, delivered>> => \A b : Unsent(b) /\ b \notin refused' => Unsent(b)'
  BY DEF Unsent
<1> QED
  BY <1>1, <1>2, <1>3

(* The loop of one worker goes on as it was. *)
LEMMA LoopKept ==
  ASSUME LoopInv, UNCHANGED clientList,
         \A v \in Workers : worker'[v].at = "sending" => worker'[v] = worker[v]
  PROVE  LoopInv'
BY DEF LoopInv

(* A count stays right while its sends stay, and starts right with none. *)
LEMMA CountsKept ==
  ASSUME CountsSends, TypeOK, UNCHANGED refCount, refused \subseteq refused',
         \A b \in Blocks : Outstanding(b)' = Outstanding(b),
         \A b \in Blocks : block'[b] = "live" =>
             block[b] = "live" \/ (Outstanding(b) = {} /\ refCount[b] = 0)
  PROVE  CountsSends'
<1> SUFFICES ASSUME NEW b \in Blocks, block'[b] = "live"
             PROVE  LET n == Cardinality(Outstanding(b))
                    IN  IF b \in refused' THEN refCount[b] >= n ELSE refCount[b] = n
  BY DEF CountsSends
<1>1. Outstanding(b) \subseteq Clients
  BY DEF Outstanding
<1>2. Cardinality(Outstanding(b)) \in Nat
  BY <1>1, ClientAssumption, FS_Subset, FS_CardinalityType
<1>3. CASE block[b] = "live"
  BY <1>2, <1>3 DEF CountsSends
<1>4. CASE Outstanding(b) = {} /\ refCount[b] = 0
  BY <1>4, FS_EmptySet
<1> QED
  BY <1>3, <1>4

(* The order depends on what was posted and on the loop. *)
LEMMA OrderKept ==
  ASSUME OrderInv,
         \A c \in Clients : Posted(c)' = Posted(c),
         \A w \in Workers : worker'[w].at = "sending" =>
             /\ worker[w].at = "sending"
             /\ worker'[w].block = worker[w].block
             /\ Range(worker'[w].todo) \subseteq Range(worker[w].todo)
  PROVE  OrderInv'
<1>1. \A c \in Clients : IsInjective(Posted(c)')
  BY DEF OrderInv
<1>2. \A c, d \in Clients : \A x, y \in Blocks :
         ~ (Before(Posted(c)', x, y) /\ Before(Posted(d)', y, x))
  BY DEF OrderInv
<1>3. ASSUME NEW w \in Workers, worker'[w].at = "sending", NEW c \in Clients
      PROVE  /\ c \in Range(worker'[w].todo) => worker'[w].block \notin Range(Posted(c)')
             /\ \A y \in Blocks : ~ Before(Posted(c)', worker'[w].block, y)
  BY <1>3 DEF OrderInv
<1> QED
  BY <1>1, <1>2, <1>3 DEF OrderInv, Before

(* The sets BoundInv counts. *)
LEMMA CardinalityTypes ==
  ASSUME BoundInv
  PROVE  /\ Cardinality(Listened) \in Nat /\ Cardinality(Listened) <= Cardinality(Clients)
         /\ Cardinality(Clients) \in Nat /\ Cardinality(Reposting) \in Nat
<1>1. Listened \subseteq Clients
  BY DEF Listened
<1> QED
  BY <1>1, ClientAssumption, FS_Subset, FS_CardinalityType DEF BoundInv

(* The next block to be allocated is nobody's. *)
LEMMA FreshBlock ==
  ASSUME BroadcastInv, NEW b \in Blocks, b = allocated + 1
  PROVE  /\ block[b] = "none" /\ Unsent(b) /\ Outstanding(b) = {}
         /\ refCount[b] = 0 /\ b \notin refused
         /\ \A w \in Workers : worker[w].block # b
         /\ \A c \in Clients : reading[c] # b
<1> USE ClientAssumption, BoundAssumption DEF BroadcastInv
<1>1. allocated \in Nat /\ b > allocated
  BY FS_CardinalityType DEF TypeOK, Blocks
<1>2. block[b] = "none" /\ Unsent(b)
  BY <1>1 DEF BlockInv
<1>3. \A w \in Workers : worker[w].block # b
  BY <1>1 DEF WorkerInv
<1>4. \A c \in Clients : reading[c] # b
  BY <1>1 DEF BlockInv, ReadInv
<1>5. Outstanding(b) = {}
  BY <1>2, <1>3 DEF Outstanding, Unsent
<1> QED
  BY <1>2, <1>3, <1>4, <1>5 DEF Unsent

(* Blocks have numbers from 1. *)
LEMMA BlocksType == Blocks \subseteq Nat \ {0}
BY ClientAssumption, BoundAssumption, FS_CardinalityType DEF Blocks

(* A worker that does something has a block that was allocated. *)
LEMMA WorkersBlock ==
  ASSUME BroadcastInv, NEW w \in Workers, worker[w].at # "wait"
  PROVE  /\ worker[w].block \in Blocks /\ worker[w].block <= allocated
         /\ worker[w].client \in Clients
<1>1. worker[w].block \in 1 .. allocated /\ worker[w].client \in Clients
  BY DEF BroadcastInv, WorkerInv
<1>2. worker[w].block \in Blocks \cup {0}
  BY DEF BroadcastInv, TypeOK, Jobs
<1>3. allocated \in Nat
  BY BlocksType DEF BroadcastInv, TypeOK
<1> QED
  BY <1>1, <1>2, <1>3

(* A worker that goes on with what it does. *)
LEMMA JobsUpdate ==
  ASSUME NEW j \in Jobs, NEW t \in Seq(Clients),
         NEW a \in {"wait", "message", "sending", "repost", "leave", "sent", "test"}
  PROVE  /\ [j EXCEPT !.at = a] \in Jobs
         /\ [j EXCEPT !.todo = t] \in Jobs
         /\ [j EXCEPT !.at = a, !.todo = t] \in Jobs
BY DEF Jobs

(* What was posted is a sequence of blocks. *)
LEMMA PostedType ==
  ASSUME TypeOK, NEW c \in Clients
  PROVE  /\ delivered[c] \in Seq(Blocks) /\ pending[c] \in Seq(Blocks)
         /\ Posted(c) \in Seq(Blocks)
         /\ Range(Posted(c)) = Range(delivered[c]) \cup Range(pending[c])
         /\ Range(Posted(c)) \subseteq Blocks
         /\ \A x, y : Before(Posted(c), x, y) => x \in Range(Posted(c)) /\ y \in Range(Posted(c))
<1>1. delivered[c] \in Seq(Blocks) /\ pending[c] \in Seq(Blocks)
  BY DEF TypeOK
<1>2. /\ Posted(c) \in Seq(Blocks)
      /\ Range(Posted(c)) = Range(delivered[c]) \cup Range(pending[c])
  BY <1>1, PostedRange DEF Posted
<1>3. Range(Posted(c)) \subseteq Blocks
  BY <1>2, RangeOf
<1>4. \A x, y : Before(Posted(c), x, y) => x \in Range(Posted(c)) /\ y \in Range(Posted(c))
  BY DEF Before, Range
<1> QED
  BY <1>1, <1>2, <1>3, <1>4

(* The loop goes on to the next client of the list. *)
LEMMA EndsWithTail ==
  ASSUME NEW l \in Seq(Clients), NEW s \in Seq(Clients), s # << >>, EndsWith(l, s)
  PROVE  EndsWith(l, Tail(s))
<1> DEFINE t == Tail(s)
<1>1. /\ Len(s) \in Nat /\ Len(l) \in Nat /\ Len(t) = Len(s) - 1 /\ Len(t) \in Nat
      /\ \A i \in 1 .. Len(t) : t[i] = s[i + 1]
  <2>1. t \in Seq(Clients) /\ Len(t) = Len(s) - 1 /\ \A i \in 1 .. Len(t) : t[i] = s[i + 1]
    BY HeadTailProperties
  <2> QED
    BY <2>1, LenProperties
<1> HIDE DEF t
<1>2. Len(t) <= Len(l)
  BY <1>1 DEF EndsWith
<1>3. ASSUME NEW i \in 1 .. Len(t) PROVE t[i] = l[Len(l) - Len(t) + i]
  <2>1. i + 1 \in 1 .. Len(s) /\ Len(l) - Len(s) + (i + 1) = Len(l) - Len(t) + i
    BY <1>1
  <2>2. s[i + 1] = l[Len(l) - Len(s) + (i + 1)]
    BY <2>1 DEF EndsWith
  <2> QED
    BY <1>1, <2>1, <2>2
<1> QED
  BY <1>2, <1>3 DEF EndsWith, t

(* There are as many as are ever allocated. *)
LEMMA AllocatedBlocks == TypeOK => 1 .. allocated \subseteq Blocks
BY ClientAssumption, BoundAssumption, FS_CardinalityType DEF TypeOK, Blocks

(* The rest of the loop is a suffix of the list. *)
LEMMA EndsWithSuffix ==
  ASSUME NEW l \in Seq(Clients), NEW s \in Seq(Clients), EndsWith(l, s)
  PROVE  IsSuffix(s, l) /\ Range(s) \subseteq Range(l)
<1> DEFINE n == Len(s)
           m == Len(l)
           rs == Reverse(s)
           rl == Reverse(l)
<1>1. n \in Nat /\ m \in Nat /\ n <= m
  BY LenProperties DEF EndsWith
<1>2. /\ rs \in Seq(Clients) /\ Len(rs) = n /\ \A i \in 1 .. n : rs[i] = s[(n - i) + 1]
      /\ rl \in Seq(Clients) /\ Len(rl) = m /\ \A i \in 1 .. m : rl[i] = l[(m - i) + 1]
  <2>1. /\ rs = [i \in 1 .. n |-> s[(n - i) + 1]]
        /\ rl = [i \in 1 .. m |-> l[(m - i) + 1]]
    BY DEF Reverse
  <2>2. /\ \A i \in 1 .. n : s[(n - i) + 1] \in Clients
        /\ \A i \in 1 .. m : l[(m - i) + 1] \in Clients
    <3>1. /\ \A i \in 1 .. n : (n - i) + 1 \in 1 .. n
          /\ \A i \in 1 .. m : (m - i) + 1 \in 1 .. m
      BY <1>1
    <3> QED
      BY <3>1, ElementOfSeq
  <2> HIDE DEF n, m, rs, rl
  <2>3. /\ rs \in [1 .. n -> Clients] /\ \A i \in 1 .. n : rs[i] = s[(n - i) + 1]
        /\ rl \in [1 .. m -> Clients] /\ \A i \in 1 .. m : rl[i] = l[(m - i) + 1]
    BY <2>1, <2>2
  <2>4. rs \in Seq(Clients) /\ rl \in Seq(Clients)
    BY <1>1, <2>3, IsASeq
  <2>5. Len(rs) = n /\ Len(rl) = m
    BY <1>1, <2>3, <2>4, LenProperties
  <2> QED
    BY <2>3, <2>4, <2>5
<1> HIDE DEF n, m, rs, rl
<1>3. \A i \in 1 .. n : i \in 1 .. m /\ rs[i] = rl[i]
  <2>1. ASSUME NEW i \in 1 .. n PROVE i \in 1 .. m /\ rs[i] = rl[i]
    <3>1. (n - i) + 1 \in 1 .. n /\ i \in 1 .. m /\ m - n + ((n - i) + 1) = (m - i) + 1
      BY <1>1
    <3>2. s[(n - i) + 1] = l[m - n + ((n - i) + 1)]
      BY <3>1 DEF EndsWith, n, m
    <3> QED
      BY <1>2, <3>1, <3>2
  <2> QED
    BY <2>1
<1>4. SubSeq(rs, 1, n) = SubSeq(rl, 1, n)
  <2> DEFINE u == SubSeq(rs, 1, n)
             v == SubSeq(rl, 1, n)
  <2>1. /\ 1 \in Int /\ n \in Int /\ n - 1 + 1 = n
        /\ \A i \in 1 .. n : rs[i] \in Clients /\ rl[i] \in Clients
    BY <1>1, <1>2, <1>3, ElementOfSeq
  <2>2. /\ u \in Seq(Clients) /\ Len(u) = IF 1 <= n THEN n - 1 + 1 ELSE 0
        /\ \A i \in 1 .. n - 1 + 1 : u[i] = rs[1 + i - 1]
    BY <2>1, SubSeqProperties
  <2>3. /\ v \in Seq(Clients) /\ Len(v) = IF 1 <= n THEN n - 1 + 1 ELSE 0
        /\ \A i \in 1 .. n - 1 + 1 : v[i] = rl[1 + i - 1]
    BY <2>1, SubSeqProperties
  <2> HIDE DEF u, v
  <2>4. \A i \in 1 .. n : 1 + i - 1 = i /\ u[i] = v[i]
    BY <1>1, <1>3, <2>2, <2>3
  <2>5. Len(u) = n /\ Len(v) = n
    BY <1>1, <2>2, <2>3
  <2>6. u = v
    BY <2>2, <2>3, <2>4, <2>5, SeqEqual
  <2> QED
    BY <2>6 DEF u, v
<1>5. IsSuffix(s, l)
  BY <1>1, <1>2, <1>4 DEF IsSuffix, IsPrefix, rs, rl
<1>6. Range(s) \subseteq Range(l)
  <2>1. ASSUME NEW x \in Range(s) PROVE x \in Range(l)
    <3>1. PICK i \in 1 .. n : s[i] = x
      BY RangeOf DEF n
    <3>2. m - n + i \in 1 .. m /\ l[m - n + i] = x
      BY <1>1, <3>1 DEF EndsWith, n, m
    <3> QED
      BY <3>2, RangeOf DEF m
  <2> QED
    BY <2>1
<1> QED
  BY <1>5, <1>6

(* Accept: the list grows by a client that was not in it. *)
LEMMA AcceptStep ==
  ASSUME BroadcastInv, NEW c \in Clients, Accept(c)
  PROVE  BroadcastInv'
<1> USE ClientAssumption, LockAssumption, BoundAssumption DEF BroadcastInv
<1>1. /\ UNCHANGED <<crt, reading, pending, done, broken, delivered, allocated, block, refCount,
                     refused, worker, messages, fault>>
      /\ accepting = NoClient /\ accepting' = c
      /\ handle[c] = "none" /\ handle' = [handle EXCEPT ![c] = "live"]
      /\ crt = Free /\ clientList' = Append(clientList, c)
  BY DEF Accept, CrtIsFree, listVars, sendVars, blockVars
<1>2. \A d \in Clients : handle'[d] = IF d = c THEN "live" ELSE handle[d]
  BY <1>1 DEF TypeOK
<1>3. /\ \A w \in Workers : worker'[w] = worker[w] /\ worker[w].at # "sending"
      /\ clientList \in Seq(Clients)
  BY <1>1 DEF LockInv, TypeOK
<1>5. TypeOK'
  <2>1. clientList' \in Seq(Clients)
    BY <1>1, <1>3, AppendProperties
  <2> QED
    BY <1>1, <2>1 DEF TypeOK
<1>6. LockInv'
  BY <1>1, <1>3 DEF LockInv
<1>7. WorkerInv'
  BY <1>1, <1>3 DEF WorkerInv
<1>8. ListInv'
  <2>1. c \notin Range(clientList)
    BY <1>1 DEF ListInv
  <2> QED
    BY <1>1, <1>2, <1>3, <2>1, RangeAppend DEF ListInv
<1>9. LoopInv'
  BY <1>1, <1>3 DEF LoopInv
<1>10. ReceiveInv'
  <2>1. /\ reading[c] = 0
        /\ \A w \in Workers : Receiving(w) => worker[w].client # c
    BY <1>1 DEF ReceiveInv
  <2>2. \A w \in Workers : Receiving(w)' = Receiving(w)
    BY <1>1 DEF Receiving
  <2>3. \A w \in Workers : Receiving(w) => worker[w].client \in Clients
    BY DEF Receiving, WorkerInv
  <2> QED
    BY <1>1, <1>2, <2>1, <2>2, <2>3 DEF ReceiveInv
<1>11. BoundInv'
  <2>1. Listened' = Listened
    BY <1>1, <1>2 DEF Listened
  <2> QED
    BY <1>1, <2>1 DEF BoundInv, Reposting
<1>12. \A x : Outstanding(x)' = Outstanding(x) /\ (Unsent(x) => Unsent(x)')
  <2>1. \A x : Outstanding(x)' = Outstanding(x)
    BY <1>1, <1>3, SendsKept
  <2>2. \A x : Unsent(x) /\ x \notin refused' => Unsent(x)'
    BY <1>1, <1>3, SendsKept
  <2> QED
    BY <1>1, <2>1, <2>2 DEF Unsent
<1>13. BlockInv'
  BY <1>1, <1>12 DEF BlockInv, ReadInv, TakenInv, SendingInv
<1>14. OnceInv'
  BY <1>1, <1>3, SendsKept
<1>15. KeptInv'
  BY <1>1, <1>12 DEF KeptInv
<1>16. CountsSends'
  BY <1>1, <1>12, CountsKept
<1>17. FreedAfterLastSend'
  BY <1>1, <1>3 DEF FreedAfterLastSend
<1>18. OrderInv'
  BY <1>1, <1>3, OrderKept DEF Posted
<1> QED
  BY <1>5, <1>6, <1>7, <1>8, <1>9, <1>10, <1>11, <1>13, <1>14, <1>15, <1>16, <1>17, <1>18

(* Listen: a block that was nobody's, and the first receive on it. *)
LEMMA ListenStep ==
  ASSUME BroadcastInv, Listen
  PROVE  BroadcastInv'
<1> USE ClientAssumption, LockAssumption, BoundAssumption DEF BroadcastInv
<1>0. PICK c, new : c = accepting /\ new = allocated + 1
  OBVIOUS
<1>1. /\ UNCHANGED <<clientList, crt, handle, pending, done, broken, delivered, refCount, worker,
                     messages, fault>>
      /\ allocated' = new /\ block' = [block EXCEPT ![new] = "live"]
      /\ \/ reading' = [reading EXCEPT ![c] = new] /\ refused' = refused
         \/ refused' = refused \cup {new} /\ reading' = reading
      /\ c \in Clients /\ accepting' = NoClient
  BY <1>0 DEF Listen, PostRead, TypeOK, listVars, sendVars
<1>2. /\ Listened' = Listened \cup {c} /\ c \notin Listened
      /\ Listened' \subseteq Clients /\ Reposting' = Reposting
  BY <1>0, <1>1 DEF Listened, Reposting, ReceiveInv
<1>3. /\ reading[c] = 0 /\ \A w \in Workers : worker'[w] = worker[w]
      /\ \A w \in Workers : Receiving(w) => worker[w].client # c
  BY <1>0, <1>1 DEF ReceiveInv, TypeOK
<1>4. /\ allocated \in Nat /\ new = allocated + 1 /\ new \in Blocks
      /\ allocated' = Cardinality(Listened') + messages - Cardinality(Reposting)
      /\ block[new] = "none" /\ Unsent(new) /\ Outstanding(new) = {} /\ refCount[new] = 0
      /\ \A w \in Workers : worker[w].block # new
      /\ \A d \in Clients : reading[d] # new
  <2>1. /\ Cardinality(Listened') = Cardinality(Listened) + 1
        /\ Cardinality(Listened') <= Cardinality(Clients)
    <3>1. IsFiniteSet(Listened) /\ Listened \subseteq Clients
      BY FS_Subset DEF Listened
    <3> QED
      BY <1>2, <3>1, FS_AddElement, FS_Subset
  <2>2. allocated' = Cardinality(Listened') + messages - Cardinality(Reposting)
    BY <1>0, <1>1, <2>1, CardinalityTypes DEF BoundInv, TypeOK
  <2>3. allocated \in Nat /\ new \in Blocks
    BY <1>0, <1>1, <2>1, <2>2, CardinalityTypes DEF TypeOK, Blocks
  <2> QED
    BY <1>0, <2>2, <2>3, FreshBlock
<1>5. TypeOK'
  <2>1. reading' \in [Clients -> Blocks \cup {0}] /\ refused' \subseteq Blocks
    BY ZenonT(40), <1>1, <1>4 DEF TypeOK
  <2>2. block' \in [Blocks -> {"none", "live", "freed"}] /\ allocated' \in Blocks \cup {0}
    BY <1>1, <1>4 DEF TypeOK
  <2> QED
    BY <1>1, <2>1, <2>2 DEF TypeOK
<1>6. LockInv'
  BY <1>1, <1>3 DEF LockInv
<1>7. WorkerInv'
  BY <1>1, <1>3, <1>4 DEF WorkerInv
<1>8. ListInv'
  BY <1>1 DEF ListInv
<1>9. LoopInv'
  BY <1>1, <1>3, LoopKept
<1>10. ReceiveInv'
  <2>1. handle[c] = "live" /\ c # NoClient
    BY <1>0, <1>1 DEF ReceiveInv
  <2>2. \A d \in Clients : reading'[d] # 0 => reading[d] # 0 \/ d = c
    BY <1>1 DEF TypeOK
  <2>3. \A d \in Clients : d # c => reading'[d] = reading[d]
    BY <1>1 DEF TypeOK
  <2>4. \A w \in Workers : /\ Receiving(w)' = Receiving(w)
                           /\ Receiving(w) => worker[w].client \in Clients
    BY <1>1 DEF Receiving, WorkerInv
  <2> QED
    BY <1>1, <1>3, <2>1, <2>2, <2>3, <2>4 DEF ReceiveInv
<1>11. BoundInv'
  BY <1>1, <1>2, <1>4 DEF BoundInv
<1>12. /\ \A x : Outstanding(x)' = Outstanding(x)
       /\ \A x : Unsent(x) /\ x \notin refused' => Unsent(x)'
  BY <1>1, <1>3, SendsKept
<1>13. BlockInv'
  <2>1. \A x \in Blocks : x <= allocated => x # new
    BY <1>4, BlocksType
  <2>2. /\ block'[new] = "live"
        /\ \A x \in Blocks : x # new => block'[x] = block[x]
    BY <1>1, <1>4 DEF TypeOK
  <2>3. /\ \A x \in Blocks : Unsent(x) /\ x # new => Unsent(x)'
        /\ new \in refused' \/ Unsent(new)'
    <3>1. \A x \in Blocks : Unsent(x) /\ x # new => x \notin refused'
      BY <1>1 DEF Unsent
    <3> QED
      BY <1>4, <1>12, <3>1
  <2>4. \A d \in Clients : \/ reading'[d] = reading[d]
                           \/ d = c /\ reading'[d] = new /\ Unsent(new)'
    <3>1. new \notin refused
      BY <1>4 DEF Unsent
    <3>2. CASE reading' = [reading EXCEPT ![c] = new] /\ refused' = refused
      BY <2>3, <3>1, <3>2 DEF TypeOK
    <3>3. CASE reading' = reading
      BY <3>3
    <3> QED
      BY <1>1, <3>2, <3>3
  <2>5. /\ allocated' = allocated + 1 /\ allocated \in Nat /\ new = allocated + 1
        /\ new # 0 /\ new <= allocated'
        /\ \A x \in Blocks : x <= allocated => x <= allocated'
    BY <1>1, <1>4, BlocksType
  <2>6. \A v \in Workers : \/ worker'[v] = worker[v]
                           \/ worker'[v].at = "wait" /\ worker'[v].block = 0
    BY <1>3
  <2>7. \A v \in Workers : worker[v].at # "wait" =>
            worker[v].block \in Blocks /\ worker[v].block # new /\ worker[v].block # 0
    BY <2>1, WorkersBlock, BlocksType
  <2>8. ReadInv'
    <3>1. \A d \in Clients : reading[d] # 0 =>
              /\ reading[d] \in Blocks /\ reading[d] <= allocated /\ reading[d] # new
              /\ block[reading[d]] = "live" /\ Unsent(reading[d])
              /\ \A v \in Workers : worker[v].block # reading[d]
      BY <2>1 DEF BlockInv, ReadInv, TypeOK
    <3>2. ASSUME NEW d \in Clients, NEW x, x = reading'[d], x # 0
          PROVE  /\ x <= allocated' /\ block'[x] = "live" /\ Unsent(x)'
                 /\ \A v \in Workers : worker'[v].block # x
      <4>1. CASE d = c /\ reading'[d] = new /\ Unsent(new)'
        <5>1. \A v \in Workers : worker'[v].block # new
          BY <1>4, <2>5, <2>6
        <5> QED
          BY <2>2, <2>5, <3>2, <4>1, <5>1
      <4>2. CASE reading'[d] = reading[d]
        <5>1. \A v \in Workers : worker'[v].block # reading[d]
          BY <2>6, <3>1, <3>2, <4>2
        <5> QED
          BY <2>2, <2>3, <2>5, <3>1, <3>2, <4>2, <5>1
      <4> QED
        BY <2>4, <4>1, <4>2
    <3>3. ASSUME NEW d \in Clients, NEW e \in Clients, reading'[d] # 0, reading'[e] = reading'[d]
          PROVE  e = d
      <4>1. reading'[d] = new => d = c
        BY <1>4, <2>4
      <4>2. reading'[e] = new => e = c
        BY <1>4, <2>4
      <4>3. reading'[d] # new => reading[e] = reading[d] /\ reading[d] # 0
        BY <2>4, <3>3
      <4> QED
        BY <3>3, <4>1, <4>2, <4>3 DEF BlockInv, ReadInv
    <3> QED
      BY <3>2, <3>3 DEF ReadInv
  <2>9. TakenInv'
    <3>1. ASSUME NEW v \in Workers, NEW x, worker'[v].at \in {"message", "leave"},
                 x = worker'[v].block
          PROVE  /\ block'[x] = "live" /\ Unsent(x)'
                 /\ \A u \in Workers : worker'[u].block = x => u = v
      <4>1. worker'[v] = worker[v]
        BY <2>6, <3>1
      <4>2. worker[v].at \in {"message", "leave"} /\ worker[v].at # "wait"
        BY <3>1, <4>1
      <4>3. /\ block[worker[v].block] = "live" /\ Unsent(worker[v].block)
            /\ \A u \in Workers : worker[u].block = worker[v].block => u = v
        BY <4>2 DEF BlockInv, TakenInv
      <4> QED
        BY <2>2, <2>3, <2>6, <2>7, <3>1, <4>1, <4>2, <4>3
    <3> QED
      BY <3>1 DEF TakenInv
  <2>10. SendingInv'
    <3>1. ASSUME NEW v \in Workers, NEW x, worker'[v].at = "sending", x = worker'[v].block
          PROVE  /\ block'[x] = "live"
                 /\ \A u \in Workers : worker'[u].block = x => u = v \/ worker'[u].at = "sent"
                 /\ Range(worker'[v].todo) \cap Outstanding(x)' = {}
      <4>1. worker'[v] = worker[v]
        BY <2>6, <3>1
      <4>2. worker[v].at = "sending" /\ worker[v].at # "wait"
        BY <3>1, <4>1
      <4>3. /\ block[worker[v].block] = "live"
            /\ \A u \in Workers : worker[u].block = worker[v].block
                                      => u = v \/ worker[u].at = "sent"
            /\ Range(worker[v].todo) \cap Outstanding(worker[v].block) = {}
        BY <4>2 DEF BlockInv, SendingInv
      <4> QED
        BY <1>12, <2>2, <2>6, <2>7, <3>1, <4>1, <4>2, <4>3
    <3> QED
      BY <3>1 DEF SendingInv
  <2>11. \A x \in Blocks : IF x > allocated' THEN block'[x] = "none" /\ Unsent(x)'
                                             ELSE block'[x] # "none"
    <3>1. \A x \in Blocks : x > allocated' => x > allocated /\ x # new
      BY <2>5, BlocksType
    <3>2. \A x \in Blocks : ~ (x > allocated') => ~ (x > allocated) \/ x = new
      BY <2>5, BlocksType
    <3> QED
      BY <2>2, <2>3, <3>1, <3>2 DEF BlockInv
  <2> QED
    BY <2>8, <2>9, <2>10, <2>11 DEF BlockInv
<1>14. OnceInv'
  BY <1>1, <1>3, SendsKept
<1>15. KeptInv'
  <2> SUFFICES ASSUME NEW x \in 1 .. allocated', block'[x] = "live", x \notin refused'
               PROVE  \/ \E d \in Clients : reading'[d] = x
                      \/ \E v \in Workers :
                            /\ worker'[v].block = x
                            /\ \/ worker'[v].at \in {"message", "leave", "test"}
                               \/ /\ worker'[v].at = "sending"
                                  /\ worker'[v].client \in Range(worker'[v].todo)
                      \/ Outstanding(x) # {}
    BY <1>12 DEF KeptInv
  <2>1. CASE x = new
    BY <1>1, <1>3, <1>4, <2>1 DEF TypeOK
  <2>2. CASE x # new
    <3>1. x \in 1 .. allocated /\ block[x] = "live" /\ x \notin refused
      BY <1>1, <1>4, <2>2 DEF TypeOK
    <3>2. \A d \in Clients : reading[d] = x => reading'[d] = x
      BY <1>1, <1>3, <1>4, <3>1 DEF TypeOK
    <3> QED
      BY <1>1, <1>3, <3>1, <3>2 DEF KeptInv
  <2> QED
    BY <2>1, <2>2
<1>16. CountsSends'
  <2>1. /\ refused \subseteq refused'
        /\ \A x \in Blocks : block'[x] = "live" => block[x] = "live" \/ x = new
    BY <1>1 DEF TypeOK
  <2> QED
    BY <1>1, <1>4, <1>12, <2>1, CountsKept
<1>17. FreedAfterLastSend'
  <2>1. \A x \in Blocks : block'[x] = "freed" => block[x] = "freed"
    BY <1>1 DEF TypeOK
  <2> QED
    BY <1>1, <2>1 DEF FreedAfterLastSend
<1>18. OrderInv'
  BY <1>1, <1>3, OrderKept DEF Posted
<1> QED
  BY <1>5, <1>6, <1>7, <1>8, <1>9, <1>10, <1>11, <1>13, <1>14, <1>15, <1>16, <1>17, <1>18

(* Repost: the worker gives the client back, to a receive on another such block. *)
LEMMA RepostStep ==
  ASSUME BroadcastInv, NEW w \in Workers, Repost(w)
  PROVE  BroadcastInv'
<1> USE ClientAssumption, LockAssumption, BoundAssumption DEF BroadcastInv
<1>0. PICK c, new : c = worker[w].client /\ new = allocated + 1
  OBVIOUS
<1>1. /\ UNCHANGED <<clientList, crt, accepting, handle, pending, done, broken, delivered, refCount,
                     messages, fault>>
      /\ allocated' = new /\ block' = [block EXCEPT ![new] = "live"]
      /\ \/ reading' = [reading EXCEPT ![c] = new] /\ refused' = refused
         \/ refused' = refused \cup {new} /\ reading' = reading
      /\ worker' = [worker EXCEPT ![w] = Resting]
      /\ worker[w].at = "repost"
      /\ c \in Clients
  BY <1>0, WorkersBlock DEF Repost, PostRead, Done, listVars, sendVars
<1>2. /\ worker[w].at = "repost"
      /\ worker'[w] = Resting /\ worker'[w].at = "wait" /\ worker'[w].block = 0
      /\ worker'[w].client = NoClient
      /\ \A v \in Workers : v # w => worker'[v] = worker[v]
  BY <1>1 DEF TypeOK, Resting
<1>3. /\ worker[w].at = "repost"
      /\ worker'[w] = Resting /\ worker'[w].at = "wait" /\ worker'[w].block = 0
      /\ \A v \in Workers : v # w => worker'[v] = worker[v]
      /\ reading[c] = 0 /\ handle[c] = "live" /\ c # accepting
      /\ \A v \in Workers : Receiving(v) /\ v # w => worker[v].client # c
      /\ Listened' = Listened /\ Reposting' = Reposting \ {w} /\ w \in Reposting
  <2>1. Receiving(w)
    BY <1>2 DEF Receiving
  <2>2. Listened' = Listened
    BY <1>1 DEF Listened
  <2>3. Reposting' = Reposting \ {w} /\ w \in Reposting
    BY <1>2 DEF Reposting
  <2> QED
    BY <1>0, <1>2, <2>1, <2>2, <2>3 DEF ReceiveInv
<1>4. /\ allocated \in Nat /\ new = allocated + 1 /\ new \in Blocks
      /\ IsFiniteSet(Reposting')
      /\ allocated' = Cardinality(Listened') + messages - Cardinality(Reposting')
      /\ block[new] = "none" /\ Unsent(new) /\ Outstanding(new) = {} /\ refCount[new] = 0
      /\ \A v \in Workers : worker[v].block # new
      /\ \A d \in Clients : reading[d] # new
  <2>1. IsFiniteSet(Reposting) /\ IsFiniteSet(Reposting')
    BY <1>3, FS_RemoveElement DEF BoundInv
  <2>2. Cardinality(Reposting') = Cardinality(Reposting) - 1 /\ Cardinality(Reposting') \in Nat
    BY <1>3, <2>1, FS_RemoveElement, FS_CardinalityType
  <2>3. allocated' = Cardinality(Listened') + messages - Cardinality(Reposting')
    BY <1>0, <1>1, <1>3, <2>2, CardinalityTypes DEF BoundInv, TypeOK
  <2>4. allocated \in Nat
    <3>1. allocated \in Blocks \cup {0}
      BY DEF TypeOK
    <3> QED
      BY <3>1, BlocksType
  <2>5. new \in Blocks
    BY <1>0, <1>1, <1>3, <2>2, <2>3, <2>4, CardinalityTypes DEF TypeOK, Blocks
  <2> QED
    BY <1>0, <2>1, <2>3, <2>4, <2>5, FreshBlock
<1>5. TypeOK'
  <2>1. reading' \in [Clients -> Blocks \cup {0}] /\ refused' \subseteq Blocks
    BY ZenonT(40), <1>1, <1>4 DEF TypeOK
  <2>2. block' \in [Blocks -> {"none", "live", "freed"}] /\ allocated' \in Blocks \cup {0}
    BY <1>1, <1>4 DEF TypeOK
  <2>3. worker' \in [Workers -> Jobs]
    <3>1. Resting \in Jobs
      BY DEF Resting, Jobs
    <3> QED
      BY <1>1, <3>1 DEF TypeOK
  <2> QED
    BY <1>1, <2>1, <2>2, <2>3 DEF TypeOK
<1>6. LockInv'
  BY <1>1, <1>3 DEF LockInv
<1>7. WorkerInv'
  <2>1. 1 .. allocated \subseteq 1 .. allocated'
    BY <1>1, <1>4
  <2> QED
    BY <1>2, <2>1 DEF WorkerInv
<1>8. ListInv'
  BY <1>1 DEF ListInv
<1>9. LoopInv'
  BY <1>1, <1>2, LoopKept
<1>10. ReceiveInv'
  <2>1. \A d \in Clients : d # c => reading'[d] = reading[d]
    BY <1>1 DEF TypeOK
  <2>2. \A v \in Workers : v # w => /\ Receiving(v)' = Receiving(v)
                                    /\ Receiving(v) => worker[v].client \in Clients
    BY <1>2 DEF Receiving, WorkerInv
  <2>3. ~ Receiving(w)'
    BY <1>2 DEF Receiving
  <2> QED
    BY <1>1, <1>2, <1>3, <2>1, <2>2, <2>3 DEF ReceiveInv
<1>11. BoundInv'
  BY <1>1, <1>4 DEF BoundInv
<1>12. /\ \A x : Outstanding(x)' = Outstanding(x)
       /\ \A x : Unsent(x) /\ x \notin refused' => Unsent(x)'
  BY <1>1, <1>3, SendsKept
<1>13. BlockInv'
  <2>1. \A x \in Blocks : x <= allocated => x # new
    BY <1>4, BlocksType
  <2>2. /\ block'[new] = "live"
        /\ \A x \in Blocks : x # new => block'[x] = block[x]
    BY <1>1, <1>4 DEF TypeOK
  <2>3. /\ \A x \in Blocks : Unsent(x) /\ x # new => Unsent(x)'
        /\ new \in refused' \/ Unsent(new)'
    <3>1. \A x \in Blocks : Unsent(x) /\ x # new => x \notin refused'
      BY <1>1 DEF Unsent
    <3> QED
      BY <1>4, <1>12, <3>1
  <2>4. \A d \in Clients : \/ reading'[d] = reading[d]
                           \/ d = c /\ reading'[d] = new /\ Unsent(new)'
    <3>1. new \notin refused
      BY <1>4 DEF Unsent
    <3>2. CASE reading' = [reading EXCEPT ![c] = new] /\ refused' = refused
      BY <2>3, <3>1, <3>2 DEF TypeOK
    <3>3. CASE reading' = reading
      BY <3>3
    <3> QED
      BY <1>1, <3>2, <3>3
  <2>5. /\ allocated' = allocated + 1 /\ allocated \in Nat /\ new = allocated + 1
        /\ new # 0 /\ new <= allocated'
        /\ \A x \in Blocks : x <= allocated => x <= allocated'
    BY <1>1, <1>4, BlocksType
  <2>6. \A v \in Workers : \/ worker'[v] = worker[v]
                           \/ worker'[v].at = "wait" /\ worker'[v].block = 0
    BY <1>3
  <2>7. \A v \in Workers : worker[v].at # "wait" =>
            worker[v].block \in Blocks /\ worker[v].block # new /\ worker[v].block # 0
    BY <2>1, WorkersBlock, BlocksType
  <2>8. ReadInv'
    <3>1. \A d \in Clients : reading[d] # 0 =>
              /\ reading[d] \in Blocks /\ reading[d] <= allocated /\ reading[d] # new
              /\ block[reading[d]] = "live" /\ Unsent(reading[d])
              /\ \A v \in Workers : worker[v].block # reading[d]
      BY <2>1 DEF BlockInv, ReadInv, TypeOK
    <3>2. ASSUME NEW d \in Clients, NEW x, x = reading'[d], x # 0
          PROVE  /\ x <= allocated' /\ block'[x] = "live" /\ Unsent(x)'
                 /\ \A v \in Workers : worker'[v].block # x
      <4>1. CASE d = c /\ reading'[d] = new /\ Unsent(new)'
        <5>1. \A v \in Workers : worker'[v].block # new
          BY <1>4, <2>5, <2>6
        <5> QED
          BY <2>2, <2>5, <3>2, <4>1, <5>1
      <4>2. CASE reading'[d] = reading[d]
        <5>1. \A v \in Workers : worker'[v].block # reading[d]
          BY <2>6, <3>1, <3>2, <4>2
        <5> QED
          BY <2>2, <2>3, <2>5, <3>1, <3>2, <4>2, <5>1
      <4> QED
        BY <2>4, <4>1, <4>2
    <3>3. ASSUME NEW d \in Clients, NEW e \in Clients, reading'[d] # 0, reading'[e] = reading'[d]
          PROVE  e = d
      <4>1. reading'[d] = new => d = c
        BY <1>4, <2>4
      <4>2. reading'[e] = new => e = c
        BY <1>4, <2>4
      <4>3. reading'[d] # new => reading[e] = reading[d] /\ reading[d] # 0
        BY <2>4, <3>3
      <4> QED
        BY <3>3, <4>1, <4>2, <4>3 DEF BlockInv, ReadInv
    <3> QED
      BY <3>2, <3>3 DEF ReadInv
  <2>9. TakenInv'
    <3>1. ASSUME NEW v \in Workers, NEW x, worker'[v].at \in {"message", "leave"},
                 x = worker'[v].block
          PROVE  /\ block'[x] = "live" /\ Unsent(x)'
                 /\ \A u \in Workers : worker'[u].block = x => u = v
      <4>1. worker'[v] = worker[v]
        BY <2>6, <3>1
      <4>2. worker[v].at \in {"message", "leave"} /\ worker[v].at # "wait"
        BY <3>1, <4>1
      <4>3. /\ block[worker[v].block] = "live" /\ Unsent(worker[v].block)
            /\ \A u \in Workers : worker[u].block = worker[v].block => u = v
        BY <4>2 DEF BlockInv, TakenInv
      <4> QED
        BY <2>2, <2>3, <2>6, <2>7, <3>1, <4>1, <4>2, <4>3
    <3> QED
      BY <3>1 DEF TakenInv
  <2>10. SendingInv'
    <3>1. ASSUME NEW v \in Workers, NEW x, worker'[v].at = "sending", x = worker'[v].block
          PROVE  /\ block'[x] = "live"
                 /\ \A u \in Workers : worker'[u].block = x => u = v \/ worker'[u].at = "sent"
                 /\ Range(worker'[v].todo) \cap Outstanding(x)' = {}
      <4>1. worker'[v] = worker[v]
        BY <2>6, <3>1
      <4>2. worker[v].at = "sending" /\ worker[v].at # "wait"
        BY <3>1, <4>1
      <4>3. /\ block[worker[v].block] = "live"
            /\ \A u \in Workers : worker[u].block = worker[v].block
                                      => u = v \/ worker[u].at = "sent"
            /\ Range(worker[v].todo) \cap Outstanding(worker[v].block) = {}
        BY <4>2 DEF BlockInv, SendingInv
      <4> QED
        BY <1>12, <2>2, <2>6, <2>7, <3>1, <4>1, <4>2, <4>3
    <3> QED
      BY <3>1 DEF SendingInv
  <2>11. \A x \in Blocks : IF x > allocated' THEN block'[x] = "none" /\ Unsent(x)'
                                             ELSE block'[x] # "none"
    <3>1. \A x \in Blocks : x > allocated' => x > allocated /\ x # new
      BY <2>5, BlocksType
    <3>2. \A x \in Blocks : ~ (x > allocated') => ~ (x > allocated) \/ x = new
      BY <2>5, BlocksType
    <3> QED
      BY <2>2, <2>3, <3>1, <3>2 DEF BlockInv
  <2> QED
    BY <2>8, <2>9, <2>10, <2>11 DEF BlockInv
<1>14. OnceInv'
  BY <1>1, <1>3, SendsKept
<1>15. KeptInv'
  <2> SUFFICES ASSUME NEW x \in 1 .. allocated', block'[x] = "live", x \notin refused'
               PROVE  \/ \E d \in Clients : reading'[d] = x
                      \/ \E v \in Workers :
                            /\ worker'[v].block = x
                            /\ \/ worker'[v].at \in {"message", "leave", "test"}
                               \/ /\ worker'[v].at = "sending"
                                  /\ worker'[v].client \in Range(worker'[v].todo)
                      \/ Outstanding(x) # {}
    BY <1>12 DEF KeptInv
  <2>1. CASE x = new
    BY <1>1, <1>3, <1>4, <2>1 DEF TypeOK
  <2>2. CASE x # new
    <3>1. x \in 1 .. allocated /\ block[x] = "live" /\ x \notin refused
      BY SMTT(30), <1>1, <1>4, <2>2 DEF TypeOK
    <3>2. \A d \in Clients : reading[d] = x => reading'[d] = x
      BY <1>1, <1>3, <1>4, <3>1 DEF TypeOK
    <3> QED
      BY <1>1, <1>3, <3>1, <3>2 DEF KeptInv
  <2> QED
    BY <2>1, <2>2
<1>16. CountsSends'
  <2>1. /\ refused \subseteq refused'
        /\ \A x \in Blocks : block'[x] = "live" => block[x] = "live" \/ x = new
    BY <1>1 DEF TypeOK
  <2> QED
    BY <1>1, <1>4, <1>12, <2>1, CountsKept
<1>17. FreedAfterLastSend'
  <2>1. \A x \in Blocks : block'[x] = "freed" => block[x] = "freed"
    BY <1>1 DEF TypeOK
  <2> QED
    BY <1>1, <1>2, <2>1 DEF FreedAfterLastSend
<1>18. OrderInv'
  BY <1>1, <1>2, OrderKept DEF Posted
<1> QED
  BY <1>5, <1>6, <1>7, <1>8, <1>9, <1>10, <1>11, <1>13, <1>14, <1>15, <1>16, <1>17, <1>18

(* TakeMessage: the block goes from the receive to the worker. *)
LEMMA TakeMessageStep ==
  ASSUME BroadcastInv, NEW w \in Workers, NEW c \in Clients, TakeMessage(w, c)
  PROVE  BroadcastInv'
<1> USE ClientAssumption, LockAssumption, BoundAssumption DEF BroadcastInv
<1>0. PICK b : b = reading[c]
  OBVIOUS
<1>1. /\ UNCHANGED <<clientList, crt, accepting, handle, pending, done, broken, delivered,
                     allocated, block, refCount, refused>>
      /\ messages < MaxMessages /\ messages' = messages + 1
      /\ reading' = [reading EXCEPT ![c] = 0]
      /\ fault' \in {fault, "usedFreed"}
      /\ worker' = [worker EXCEPT ![w] = [at |-> "message", client |-> c, block |-> b,
                                            todo |-> << >>]]
      /\ worker[w].at = "wait" /\ b # 0
  BY <1>0 DEF TakeMessage, Takes, ReadHandle, listVars, sendVars, blockVars
<1>2. /\ b \in Blocks /\ b \in 1 .. allocated
      /\ block[b] = "live" /\ Unsent(b)
      /\ \A v \in Workers : worker[v].block # b
      /\ \A d \in Clients : reading[d] = b => d = c
      /\ handle[c] = "live" /\ c # accepting
      /\ \A v \in Workers : Receiving(v) => worker[v].client # c
  <2>1. b \in Blocks /\ b <= allocated
    BY <1>0, <1>1 DEF BlockInv, ReadInv, TypeOK
  <2>2. b \in 1 .. allocated
    BY <2>1, BlocksType DEF TypeOK
  <2> QED
    BY <1>0, <1>1, <2>1, <2>2 DEF BlockInv, ReadInv, ReceiveInv
<1>3. /\ worker[w].at = "wait"
      /\ worker'[w].at = "message" /\ worker'[w].client = c /\ worker'[w].block = b
      /\ \A v \in Workers : v # w => worker'[v] = worker[v]
      /\ \A d \in Clients : reading'[d] = IF d = c THEN 0 ELSE reading[d]
  BY <1>1 DEF TypeOK
<1>5. TypeOK'
  <2>1. worker' \in [Workers -> Jobs]
    BY <1>1, <1>2 DEF TypeOK, Jobs
  <2>2. messages' \in 0 .. MaxMessages
    BY <1>1 DEF TypeOK
  <2> QED
    BY <1>1, <2>1, <2>2 DEF TypeOK
<1>6. LockInv'
  BY <1>1, <1>3 DEF LockInv
<1>7. WorkerInv'
  BY <1>1, <1>2, <1>3 DEF WorkerInv
<1>8. ListInv'
  BY <1>1 DEF ListInv
<1>9. LoopInv'
  BY <1>1, <1>3, LoopKept
<1>10. ReceiveInv'
  <2>1. \A v \in Workers : v # w => Receiving(v)' = Receiving(v)
    BY <1>3 DEF Receiving
  <2> QED
    BY <1>1, <1>2, <1>3, <2>1 DEF ReceiveInv
<1>11. BoundInv'
  <2>1. Listened' = Listened
    BY <1>1 DEF Listened
  <2>2. w \notin Reposting /\ Reposting' = Reposting \cup {w}
    BY <1>3 DEF Reposting
  <2>3. IsFiniteSet(Reposting') /\ Cardinality(Reposting') = Cardinality(Reposting) + 1
    BY <2>2, FS_AddElement DEF BoundInv
  <2> QED
    BY <1>1, <2>1, <2>3, CardinalityTypes DEF BoundInv, TypeOK
<1>12. \A x : Outstanding(x)' = Outstanding(x) /\ (Unsent(x) => Unsent(x)')
  <2>1. \A x : Outstanding(x)' = Outstanding(x)
    BY <1>1, <1>3, SendsKept
  <2>2. \A x : Unsent(x) /\ x \notin refused' => Unsent(x)'
    BY <1>1, <1>3, SendsKept
  <2> QED
    BY <1>1, <2>1, <2>2 DEF Unsent
<1>13. BlockInv'
  <2>1. ReadInv'
    BY <1>1, <1>2, <1>3, <1>12 DEF BlockInv, ReadInv
  <2>2. TakenInv'
    BY <1>1, <1>2, <1>3, <1>12 DEF BlockInv, TakenInv
  <2>3. SendingInv'
    BY <1>1, <1>2, <1>3, <1>12 DEF BlockInv, SendingInv
  <2> QED
    BY <1>1, <1>12, <2>1, <2>2, <2>3 DEF BlockInv
<1>14. OnceInv'
  BY <1>1, <1>3, SendsKept
<1>15. KeptInv'
  <2> SUFFICES ASSUME NEW x \in 1 .. allocated, block[x] = "live", x \notin refused
               PROVE  \/ \E d \in Clients : reading'[d] = x
                      \/ \E v \in Workers :
                            /\ worker'[v].block = x
                            /\ \/ worker'[v].at \in {"message", "leave", "test"}
                               \/ /\ worker'[v].at = "sending"
                                  /\ worker'[v].client \in Range(worker'[v].todo)
                      \/ Outstanding(x) # {}
    BY <1>1, <1>12 DEF KeptInv
  <2>1. CASE x = b
    BY <1>3, <2>1
  <2>2. CASE x # b
    <3>1. \A d \in Clients : reading[d] = x => reading'[d] = x
      BY <1>0, <1>3, <2>2
    <3> QED
      BY <1>1, <1>3, <3>1 DEF KeptInv
  <2> QED
    BY <2>1, <2>2
<1>16. CountsSends'
  BY <1>1, <1>12, CountsKept
<1>17. FreedAfterLastSend'
  BY <1>1, <1>2, <1>3 DEF FreedAfterLastSend
<1>18. OrderInv'
  BY <1>1, <1>3, OrderKept DEF Posted
<1> QED
  BY <1>5, <1>6, <1>7, <1>8, <1>9, <1>10, <1>11, <1>13, <1>14, <1>15, <1>16, <1>17, <1>18

(* TakeLeave: so it does when the client has left. *)
LEMMA TakeLeaveStep ==
  ASSUME BroadcastInv, NEW w \in Workers, NEW c \in Clients, TakeLeave(w, c)
  PROVE  BroadcastInv'
<1> USE ClientAssumption, LockAssumption, BoundAssumption DEF BroadcastInv
<1>0. PICK b : b = reading[c]
  OBVIOUS
<1>1. /\ UNCHANGED <<clientList, crt, accepting, handle, pending, done, broken, delivered,
                     allocated, block, refCount, refused, messages>>
      /\ reading' = [reading EXCEPT ![c] = 0]
      /\ fault' \in {fault, "usedFreed"}
      /\ worker' = [worker EXCEPT ![w] = [at |-> "leave", client |-> c, block |-> b,
                                            todo |-> << >>]]
      /\ worker[w].at = "wait" /\ b # 0
  BY <1>0 DEF TakeLeave, Takes, ReadHandle, listVars, sendVars, blockVars
<1>2. /\ b \in Blocks /\ b \in 1 .. allocated
      /\ block[b] = "live" /\ Unsent(b)
      /\ \A v \in Workers : worker[v].block # b
      /\ \A d \in Clients : reading[d] = b => d = c
      /\ handle[c] = "live" /\ c # accepting
      /\ \A v \in Workers : Receiving(v) => worker[v].client # c
  <2>1. b \in Blocks /\ b <= allocated
    BY <1>0, <1>1 DEF BlockInv, ReadInv, TypeOK
  <2>2. b \in 1 .. allocated
    BY <2>1, BlocksType DEF TypeOK
  <2> QED
    BY <1>0, <1>1, <2>1, <2>2 DEF BlockInv, ReadInv, ReceiveInv
<1>3. /\ worker[w].at = "wait"
      /\ worker'[w].at = "leave" /\ worker'[w].client = c /\ worker'[w].block = b
      /\ \A v \in Workers : v # w => worker'[v] = worker[v]
      /\ \A d \in Clients : reading'[d] = IF d = c THEN 0 ELSE reading[d]
  BY <1>1 DEF TypeOK
<1>5. TypeOK'
  <2>1. worker' \in [Workers -> Jobs]
    BY <1>1, <1>2 DEF TypeOK, Jobs
  <2> QED
    BY <1>1, <2>1 DEF TypeOK
<1>6. LockInv'
  BY <1>1, <1>3 DEF LockInv
<1>7. WorkerInv'
  BY <1>1, <1>2, <1>3 DEF WorkerInv
<1>8. ListInv'
  BY <1>1 DEF ListInv
<1>9. LoopInv'
  BY <1>1, <1>3, LoopKept
<1>10. ReceiveInv'
  <2>1. \A v \in Workers : v # w => Receiving(v)' = Receiving(v)
    BY <1>3 DEF Receiving
  <2> QED
    BY <1>1, <1>2, <1>3, <2>1 DEF ReceiveInv
<1>11. BoundInv'
  <2>1. Listened' = Listened /\ Reposting' = Reposting
    BY <1>1, <1>3 DEF Listened, Reposting
  <2> QED
    BY <1>1, <2>1 DEF BoundInv
<1>12. \A x : Outstanding(x)' = Outstanding(x) /\ (Unsent(x) => Unsent(x)')
  <2>1. \A x : Outstanding(x)' = Outstanding(x)
    BY <1>1, <1>3, SendsKept
  <2>2. \A x : Unsent(x) /\ x \notin refused' => Unsent(x)'
    BY <1>1, <1>3, SendsKept
  <2> QED
    BY <1>1, <2>1, <2>2 DEF Unsent
<1>13. BlockInv'
  <2>1. ReadInv'
    BY <1>1, <1>2, <1>3, <1>12 DEF BlockInv, ReadInv
  <2>2. TakenInv'
    BY <1>1, <1>2, <1>3, <1>12 DEF BlockInv, TakenInv
  <2>3. SendingInv'
    BY <1>1, <1>2, <1>3, <1>12 DEF BlockInv, SendingInv
  <2> QED
    BY <1>1, <1>12, <2>1, <2>2, <2>3 DEF BlockInv
<1>14. OnceInv'
  BY <1>1, <1>3, SendsKept
<1>15. KeptInv'
  <2> SUFFICES ASSUME NEW x \in 1 .. allocated, block[x] = "live", x \notin refused
               PROVE  \/ \E d \in Clients : reading'[d] = x
                      \/ \E v \in Workers :
                            /\ worker'[v].block = x
                            /\ \/ worker'[v].at \in {"message", "leave", "test"}
                               \/ /\ worker'[v].at = "sending"
                                  /\ worker'[v].client \in Range(worker'[v].todo)
                      \/ Outstanding(x) # {}
    BY <1>1, <1>12 DEF KeptInv
  <2>1. CASE x = b
    BY <1>3, <2>1
  <2>2. CASE x # b
    <3>1. \A d \in Clients : reading[d] = x => reading'[d] = x
      BY <1>0, <1>3, <2>2
    <3> QED
      BY <1>1, <1>3, <3>1 DEF KeptInv
  <2> QED
    BY <2>1, <2>2
<1>16. CountsSends'
  BY <1>1, <1>12, CountsKept
<1>17. FreedAfterLastSend'
  BY <1>1, <1>2, <1>3 DEF FreedAfterLastSend
<1>18. OrderInv'
  BY <1>1, <1>3, OrderKept DEF Posted
<1> QED
  BY <1>5, <1>6, <1>7, <1>8, <1>9, <1>10, <1>11, <1>13, <1>14, <1>15, <1>16, <1>17, <1>18

(* StartBroadcast: the block has not been sent to anybody, and the sender is in the list. *)
LEMMA StartBroadcastStep ==
  ASSUME BroadcastInv, NEW w \in Workers, StartBroadcast(w)
  PROVE  BroadcastInv'
<1> USE ClientAssumption, LockAssumption, BoundAssumption DEF BroadcastInv
<1>0. PICK b : b = worker[w].block
  OBVIOUS
<1>1. /\ UNCHANGED <<clientList, accepting, handle, reading, pending, done, broken, delivered,
                     allocated, block, refCount, refused, messages, fault>>
      /\ worker' = [worker EXCEPT ![w].at = "sending", ![w].todo = clientList]
      /\ worker[w].at = "message" /\ crt = Free /\ crt' = w
  BY DEF StartBroadcast, CrtIsFree, sendVars, blockVars
<1>2. /\ worker[w].at = "message"
      /\ worker'[w].at = "sending" /\ worker'[w].client = worker[w].client
      /\ worker'[w].block = b /\ worker'[w].todo = clientList
      /\ \A v \in Workers : v # w => worker'[v] = worker[v]
      /\ \A v \in Workers : worker[v].at # "sending"
  <2>1. worker' = [worker EXCEPT ![w] =
                       [worker[w] EXCEPT !.at = "sending", !.todo = clientList]]
    BY <1>1 DEF TypeOK, Jobs
  <2>2. \A v \in Workers : worker[v].at # "sending"
    BY <1>1 DEF LockInv
  <2> QED
    BY <1>0, <1>1, <2>1, <2>2 DEF TypeOK, Jobs
<1>3. /\ b \in Blocks /\ b <= allocated /\ worker[w].client \in Clients
      /\ block[b] = "live" /\ Unsent(b)
      /\ \A v \in Workers : worker[v].block = b => v = w
      /\ handle[worker[w].client] = "live"
      /\ Outstanding(b) = {}
  <2>1. /\ b \in Blocks /\ b <= allocated /\ worker[w].client \in Clients
        /\ block[b] = "live" /\ Unsent(b)
        /\ \A v \in Workers : worker[v].block = b => v = w
    BY <1>0, <1>1, WorkersBlock DEF BlockInv, TakenInv
  <2>2. handle[worker[w].client] = "live"
    BY <1>1 DEF ReceiveInv, Receiving
  <2>3. Outstanding(b) = {}
    BY <1>1, <2>1 DEF Outstanding, Unsent
  <2> QED
    BY <2>1, <2>2, <2>3
<1>4. /\ clientList \in Seq(Clients) /\ IsInjective(clientList)
      /\ worker[w].client \in Range(clientList)
  BY <1>3 DEF TypeOK, ListInv
<1>5. TypeOK'
  <2>1. worker' \in [Workers -> Jobs]
    <3>1. worker[w] \in Jobs /\ worker \in [Workers -> Jobs]
      BY DEF TypeOK
    <3>2. [worker[w] EXCEPT !.at = "sending", !.todo = clientList] \in Jobs
      BY <1>4, <3>1, JobsUpdate
    <3> QED
      BY <1>1, <3>1, <3>2
  <2> QED
    BY <1>1, <2>1 DEF TypeOK
<1>6. LockInv'
  BY <1>1, <1>2 DEF LockInv
<1>7. WorkerInv'
  BY <1>0, <1>1, <1>2 DEF WorkerInv
<1>8. ListInv'
  BY <1>1 DEF ListInv
<1>9. LoopInv'
  <2>1. EndsWith(clientList, clientList)
    BY <1>4, LenProperties DEF EndsWith
  <2>2. ASSUME NEW v \in Workers, worker'[v].at = "sending"
        PROVE  EndsWith(clientList', worker'[v].todo) /\ IsInjective(worker'[v].todo)
    BY <1>1, <1>2, <1>4, <2>1, <2>2
  <2> QED
    BY <2>2 DEF LoopInv, EndsWith
<1>10. ReceiveInv'
  <2>1. \A v \in Workers : /\ worker'[v].client = worker[v].client
                           /\ Receiving(v)' = Receiving(v)
    BY <1>2 DEF Receiving
  <2> QED
    BY ZenonT(40), <1>1, <2>1 DEF ReceiveInv
<1>11. BoundInv'
  <2>1. Listened' = Listened /\ Reposting' = Reposting
    BY <1>1, <1>2 DEF Listened, Reposting
  <2> QED
    BY <1>1, <2>1 DEF BoundInv
<1>12. \A x : Outstanding(x)' = Outstanding(x) /\ (Unsent(x) => Unsent(x)')
  <2>1. \A x : Outstanding(x)' = Outstanding(x)
    BY <1>1, <1>2, SendsKept
  <2>2. \A x : Unsent(x) /\ x \notin refused' => Unsent(x)'
    BY <1>1, <1>2, SendsKept
  <2> QED
    BY <1>1, <2>1, <2>2 DEF Unsent
<1>13. BlockInv'
  <2>0. \A v \in Workers : worker'[v].block = worker[v].block
    BY <1>0, <1>2
  <2>1. ReadInv'
    BY ZenonT(40), <1>1, <1>12, <2>0 DEF BlockInv, ReadInv
  <2>2. TakenInv'
    <3>1. ASSUME NEW v \in Workers, NEW x, worker'[v].at \in {"message", "leave"},
                 x = worker'[v].block
          PROVE  /\ block'[x] = "live" /\ Unsent(x)'
                 /\ \A u \in Workers : worker'[u].block = x => u = v
      <4>1. worker'[v] = worker[v]
        BY <1>2, <3>1
      <4> QED
        BY ZenonT(40), <1>1, <1>12, <2>0, <3>1, <4>1 DEF BlockInv, TakenInv
    <3> QED
      BY <3>1 DEF TakenInv
  <2>3. SendingInv'
    <3>1. ASSUME NEW v \in Workers, NEW x, worker'[v].at = "sending", x = worker'[v].block
          PROVE  /\ block'[x] = "live"
                 /\ \A u \in Workers : worker'[u].block = x => u = v \/ worker'[u].at = "sent"
                 /\ Range(worker'[v].todo) \cap Outstanding(x)' = {}
      <4>1. v = w /\ x = b
        BY <1>2, <3>1
      <4> QED
        BY <1>1, <1>2, <1>3, <1>12, <2>0, <4>1
    <3> QED
      BY <3>1 DEF SendingInv
  <2> QED
    BY <1>1, <1>12, <2>1, <2>2, <2>3 DEF BlockInv
<1>14. OnceInv'
  BY <1>1, <1>2, SendsKept
<1>15. KeptInv'
  <2> SUFFICES ASSUME NEW x \in 1 .. allocated, block[x] = "live", x \notin refused
               PROVE  \/ \E d \in Clients : reading'[d] = x
                      \/ \E v \in Workers :
                            /\ worker'[v].block = x
                            /\ \/ worker'[v].at \in {"message", "leave", "test"}
                               \/ /\ worker'[v].at = "sending"
                                  /\ worker'[v].client \in Range(worker'[v].todo)
                      \/ Outstanding(x) # {}
    BY <1>1, <1>12 DEF KeptInv
  <2>1. CASE x = b
    BY <1>2, <1>4, <2>1
  <2>2. CASE x # b
    BY <1>0, <1>1, <1>2, <2>2 DEF KeptInv
  <2> QED
    BY <2>1, <2>2
<1>16. CountsSends'
  BY <1>1, <1>12, CountsKept
<1>17. FreedAfterLastSend'
  BY ZenonT(40), <1>0, <1>1, <1>2, <1>3 DEF FreedAfterLastSend
<1>18. OrderInv'
  <2>1. \A c \in Clients : Posted(c)' = Posted(c)
    BY <1>1 DEF Posted
  <2>2. \A c \in Clients : b \notin Range(Posted(c))
    BY <1>3, PostedType DEF Unsent
  <2>3. \A c \in Clients : \A y : ~ Before(Posted(c), b, y)
    BY <2>2, PostedType
  <2>4. ASSUME NEW v \in Workers, worker'[v].at = "sending", NEW c \in Clients
        PROVE  /\ worker'[v].block \notin Range(Posted(c)')
               /\ \A y \in Blocks : ~ Before(Posted(c)', worker'[v].block, y)
    BY <1>2, <2>1, <2>2, <2>3, <2>4
  <2>5. \A c \in Clients : IsInjective(Posted(c)')
    BY <2>1 DEF OrderInv
  <2>6. \A c, d \in Clients : \A x, y \in Blocks :
           ~ (Before(Posted(c)', x, y) /\ Before(Posted(d)', y, x))
    BY <2>1 DEF OrderInv
  <2> QED
    BY <2>4, <2>5, <2>6 DEF OrderInv, Before
<1> QED
  BY <1>5, <1>6, <1>7, <1>8, <1>9, <1>10, <1>11, <1>13, <1>14, <1>15, <1>16, <1>17, <1>18

(* EndBroadcast: the loop is at the end of the list. *)
LEMMA EndBroadcastStep ==
  ASSUME BroadcastInv, NEW w \in Workers, EndBroadcast(w)
  PROVE  BroadcastInv'
<1> USE ClientAssumption, LockAssumption, BoundAssumption DEF BroadcastInv
<1>1. /\ UNCHANGED <<clientList, accepting, handle, reading, pending, done, broken, delivered,
                     allocated, block, refCount, refused, messages, fault>>
      /\ worker' = [worker EXCEPT ![w].at = "repost"]
      /\ worker[w].at = "sending" /\ worker[w].todo = << >> /\ crt' = Free
  BY DEF EndBroadcast, GoesTo, sendVars, blockVars
<1>2. crt = w /\ \A v \in Workers : worker[v].at = "sending" => v = w
  BY <1>1 DEF LockInv
<1>3. /\ worker[w].at = "sending"
      /\ worker'[w].at = "repost" /\ worker'[w].client = worker[w].client
      /\ worker'[w].block = worker[w].block
      /\ \A v \in Workers : v # w => worker'[v] = worker[v] /\ worker[v].at # "sending"
  <2>1. worker' = [worker EXCEPT ![w] = [worker[w] EXCEPT !.at = "repost"]]
    BY <1>1 DEF TypeOK, Jobs
  <2> QED
    BY <1>1, <1>2, <2>1 DEF TypeOK, Jobs
<1>5. TypeOK'
  <2>1. worker' \in [Workers -> Jobs]
    <3>1. worker[w] \in Jobs /\ worker \in [Workers -> Jobs]
      BY DEF TypeOK
    <3>2. << >> \in Seq(Clients)
      BY EmptySeq
    <3>3. [worker[w] EXCEPT !.at = "repost"] \in Jobs
      BY <3>1, <3>2, JobsUpdate
    <3> QED
      BY <1>1, <3>1, <3>3
  <2> QED
    BY <1>1, <2>1 DEF TypeOK
<1>6. LockInv'
  BY <1>1, <1>3 DEF LockInv
<1>7. WorkerInv'
  BY <1>1, <1>3 DEF WorkerInv
<1>8. ListInv'
  BY <1>1 DEF ListInv
<1>9. LoopInv'
  BY <1>1, <1>3, LoopKept
<1>10. ReceiveInv'
  BY <1>1, <1>3 DEF ReceiveInv, Receiving
<1>11. BoundInv'
  <2>1. Listened' = Listened /\ Reposting' = Reposting
    BY <1>1, <1>3 DEF Listened, Reposting
  <2> QED
    BY <1>1, <2>1 DEF BoundInv
<1>12. \A x : Outstanding(x)' = Outstanding(x) /\ (Unsent(x) => Unsent(x)')
  <2>1. \A x : Outstanding(x)' = Outstanding(x)
    BY <1>1, <1>3, SendsKept
  <2>2. \A x : Unsent(x) /\ x \notin refused' => Unsent(x)'
    BY <1>1, <1>3, SendsKept
  <2> QED
    BY <1>1, <2>1, <2>2 DEF Unsent
<1>13. BlockInv'
  <2>0. \A v \in Workers : worker'[v].block = worker[v].block
    BY <1>3
  <2>1. ReadInv'
    BY <1>1, <1>12, <2>0 DEF BlockInv, ReadInv
  <2>2. TakenInv'
    BY <1>1, <1>3, <1>12, <2>0 DEF BlockInv, TakenInv
  <2>3. SendingInv'
    BY <1>3 DEF SendingInv
  <2> QED
    BY <1>1, <1>12, <2>1, <2>2, <2>3 DEF BlockInv
<1>14. OnceInv'
  BY <1>1, <1>3, SendsKept
<1>15. KeptInv'
  <2>1. Range(worker[w].todo) = {}
    BY <1>1 DEF Range
  <2>2. \A v \in Workers : /\ worker[v].at \in {"message", "leave", "test"} 
                                   => worker'[v] = worker[v]
                           /\ worker[v].at = "sending"
                                   => worker[v].client \notin Range(worker[v].todo)
    BY <1>3, <2>1
  <2> QED
    BY <1>1, <1>12, <2>2 DEF KeptInv
<1>16. CountsSends'
  BY <1>1, <1>12, CountsKept
<1>17. FreedAfterLastSend'
  BY <1>1, <1>3 DEF FreedAfterLastSend
<1>18. OrderInv'
  BY <1>1, <1>3, OrderKept DEF Posted
<1> QED
  BY <1>5, <1>6, <1>7, <1>8, <1>9, <1>10, <1>11, <1>13, <1>14, <1>15, <1>16, <1>17, <1>18

(* SendToNext: one more send, and one more in the count. *)
LEMMA SendToNextStep ==
  ASSUME BroadcastInv, NEW w \in Workers, SendToNext(w)
  PROVE  BroadcastInv'
<1> USE ClientAssumption, LockAssumption, BoundAssumption DEF BroadcastInv
<1>0. PICK b, e, t : /\ b = worker[w].block
                     /\ e = Head(worker[w].todo) /\ t = Tail(worker[w].todo)
  OBVIOUS
<1>1. /\ UNCHANGED <<clientList, crt, accepting, handle, reading, done, broken, delivered,
                     allocated, block, messages, fault>>
      /\ worker' = [worker EXCEPT ![w] = [worker[w] EXCEPT !.todo = t]]
      /\ refCount' = [refCount EXCEPT ![b] = refCount[b] + 1]
      /\ \/ pending' = [pending EXCEPT ![e] = Append(pending[e], b)] /\ refused' = refused
         \/ refused' = refused \cup {b} /\ pending' = pending
      /\ worker[w].at = "sending" /\ worker[w].todo # << >>
  <2>1. worker' = [worker EXCEPT ![w].todo = Tail(@)]
    BY DEF SendToNext
  <2>2. worker' = [worker EXCEPT ![w] = [worker[w] EXCEPT !.todo = t]]
    BY <1>0, <2>1
  <2> QED
    BY <1>0, <2>2 DEF SendToNext, listVars
<1>2. /\ e \in Clients /\ t \in Seq(Clients)
      /\ Range(worker[w].todo) = Range(t) \cup {e} /\ e \notin Range(t) /\ IsInjective(t)
      /\ worker[w] \in Jobs /\ [worker[w] EXCEPT !.todo = t] \in Jobs
  <2>1. worker[w] \in Jobs /\ worker[w].todo \in Seq(Clients)
    BY DEF TypeOK, Jobs
  <2>2. IsInjective(worker[w].todo)
    BY <1>1 DEF LoopInv
  <2>3. /\ e \in Clients /\ t \in Seq(Clients)
        /\ Range(worker[w].todo) = Range(t) \cup {e} /\ e \notin Range(t) /\ IsInjective(t)
    BY <1>0, <1>1, <2>1, <2>2, RangeTail
  <2>4. [worker[w] EXCEPT !.todo = t] \in Jobs
    BY <2>1, <2>3 DEF Jobs
  <2> QED
    BY <2>1, <2>3, <2>4
<1>3. /\ worker[w].at = "sending"
      /\ worker'[w].at = "sending" /\ worker'[w].client = worker[w].client
      /\ worker'[w].block = b /\ worker'[w].todo = t
      /\ \A v \in Workers : v # w => worker'[v] = worker[v] /\ worker[v].at # "sending"
      /\ \A v \in Workers : worker'[v].block = worker[v].block /\ worker'[v].at = worker[v].at
  <2>1. \A v \in Workers : v # w => worker[v].at # "sending"
    BY <1>1 DEF LockInv
  <2>2. worker'[w] = [worker[w] EXCEPT !.todo = t]
    BY <1>1 DEF TypeOK
  <2>3. \A v \in Workers : v # w => worker'[v] = worker[v]
    BY <1>1 DEF TypeOK
  <2>4. /\ worker'[w].at = worker[w].at /\ worker'[w].client = worker[w].client
        /\ worker'[w].block = worker[w].block /\ worker'[w].todo = t
    BY <1>2, <2>2 DEF Jobs
  <2> QED
    BY <1>0, <1>1, <2>1, <2>3, <2>4
<1>4. /\ b \in Blocks /\ b <= allocated /\ block[b] = "live" /\ refCount[b] \in Nat
      /\ \A v \in Workers : worker[v].block = b => v = w \/ worker[v].at = "sent"
      /\ Range(worker[w].todo) \cap Outstanding(b) = {}
      /\ b \notin Range(pending[e]) /\ <<b, e>> \notin done
      /\ \A v \in Workers : worker[v].at = "sent" /\ worker[v].block = b => worker[v].client # e
      /\ \A d \in Clients : reading[d] # b
      /\ \A d \in Clients : d # e => pending'[d] = pending[d]
      /\ \/ /\ pending'[e] = Append(pending[e], b)
            /\ Range(pending'[e]) = Range(pending[e]) \cup {b}
            /\ refused' = refused
         \/ pending' = pending /\ b \in refused'
      /\ \A x \in Blocks : x # b => refCount'[x] = refCount[x]
      /\ refCount'[b] = refCount[b] + 1
  <2>1. /\ b \in Blocks /\ b <= allocated /\ block[b] = "live" /\ refCount[b] \in Nat
        /\ \A v \in Workers : worker[v].block = b => v = w \/ worker[v].at = "sent"
        /\ Range(worker[w].todo) \cap Outstanding(b) = {}
    BY <1>0, <1>1, WorkersBlock DEF BlockInv, SendingInv, TypeOK
  <2>2. e \notin Outstanding(b)
    BY <1>2, <2>1
  <2>3. /\ b \notin Range(pending[e]) /\ <<b, e>> \notin done
        /\ \A v \in Workers : worker[v].at = "sent" /\ worker[v].block = b => worker[v].client # e
    BY <1>2, <2>2 DEF Outstanding
  <2>4. \A d \in Clients : reading[d] # b
    BY <1>0, <2>1, BlocksType DEF BlockInv, ReadInv
  <2>5. \A d \in Clients : d # e => pending'[d] = pending[d]
    BY <1>1 DEF TypeOK
  <2>6. \/ /\ pending'[e] = Append(pending[e], b) /\ Range(pending'[e]) = Range(pending[e]) \cup {b}
           /\ refused' = refused
        \/ pending' = pending /\ b \in refused'
    <3>1. pending[e] \in Seq(Blocks) /\ pending \in [Clients -> Seq(Blocks)]
      BY <1>2 DEF TypeOK
    <3>2. Range(Append(pending[e], b)) = Range(pending[e]) \cup {b}
      BY <2>1, <3>1, RangeAppend
    <3> QED
      BY <1>1, <1>2, <3>1, <3>2
  <2>7. /\ \A x \in Blocks : x # b => refCount'[x] = refCount[x]
        /\ refCount'[b] = refCount[b] + 1
    BY <1>1, <2>1 DEF TypeOK
  <2> QED
    BY <2>1, <2>3, <2>4, <2>5, <2>6, <2>7
<1>5. TypeOK'
  <2>1. worker' \in [Workers -> Jobs]
    BY <1>1, <1>2 DEF TypeOK
  <2>2. refCount' \in [Blocks -> Nat] /\ refused' \subseteq Blocks
    BY <1>1, <1>4 DEF TypeOK
  <2>3. pending' \in [Clients -> Seq(Blocks)]
    <3>1. pending[e] \in Seq(Blocks) /\ pending \in [Clients -> Seq(Blocks)]
      BY <1>2 DEF TypeOK
    <3>2. Append(pending[e], b) \in Seq(Blocks)
      BY <1>4, <3>1, AppendProperties
    <3> QED
      BY <1>1, <3>1, <3>2
  <2> QED
    BY <1>1, <2>1, <2>2, <2>3 DEF TypeOK
<1>6. LockInv'
  BY <1>1, <1>3 DEF LockInv
<1>7. WorkerInv'
  BY <1>0, <1>1, <1>3 DEF WorkerInv
<1>8. ListInv'
  BY <1>1 DEF ListInv
<1>9. LoopInv'
  <2>1. EndsWith(clientList, t)
    <3>1. /\ worker[w].todo \in Seq(Clients) /\ clientList \in Seq(Clients)
          /\ EndsWith(clientList, worker[w].todo)
      BY <1>1, <1>2 DEF TypeOK, Jobs, LoopInv
    <3> QED
      BY <1>0, <1>1, <3>1, EndsWithTail
  <2>2. ASSUME NEW v \in Workers, worker'[v].at = "sending"
        PROVE  EndsWith(clientList', worker'[v].todo) /\ IsInjective(worker'[v].todo)
    BY <1>1, <1>2, <1>3, <2>1, <2>2
  <2> QED
    BY <2>2 DEF LoopInv, EndsWith
<1>10. ReceiveInv'
  <2>1. \A v \in Workers : /\ worker'[v].client = worker[v].client
                           /\ Receiving(v)' = Receiving(v)
    BY <1>3 DEF Receiving
  <2> QED
    BY <1>1, <2>1 DEF ReceiveInv
<1>11. BoundInv'
  <2>1. Listened' = Listened /\ Reposting' = Reposting
    BY <1>1, <1>3 DEF Listened, Reposting
  <2> QED
    BY <1>1, <2>1 DEF BoundInv
<1>12. /\ \A x : x # b => Outstanding(x)' = Outstanding(x)
       /\ \A x \in Blocks : x # b /\ Unsent(x) => Unsent(x)'
       /\ \/ Outstanding(b)' = Outstanding(b) \cup {e} /\ refused' = refused
          \/ Outstanding(b)' = Outstanding(b) /\ b \in refused'
  <2>1. \A v \in Workers : /\ worker'[v].client = worker[v].client
                           /\ worker'[v].at = worker[v].at /\ worker'[v].block = worker[v].block
    BY <1>3
  <2>2. \A x : x # b => \A d \in Clients : x \in Range(pending'[d]) <=> x \in Range(pending[d])
    BY <1>4
  <2>3. ASSUME NEW x, x # b PROVE Outstanding(x)' = Outstanding(x)
    BY <1>1, <2>1, <2>2, <2>3 DEF Outstanding
  <2>4. ASSUME NEW x \in Blocks, x # b, Unsent(x) PROVE Unsent(x)'
    <3>1. x \notin refused' /\ refCount'[x] = 0
      BY <1>1, <1>4, <2>4 DEF Unsent
    <3> QED
      BY <1>1, <2>2, <2>4, <3>1 DEF Unsent
  <2>5. CASE /\ pending'[e] = Append(pending[e], b)
             /\ Range(pending'[e]) = Range(pending[e]) \cup {b}
             /\ refused' = refused
    <3>1. \A d \in Clients : b \in Range(pending'[d]) <=> b \in Range(pending[d]) \/ d = e
      BY <1>4, <2>5
    <3>2. Outstanding(b)' = Outstanding(b) \cup {e}
      BY <1>1, <1>2, <2>1, <3>1 DEF Outstanding
    <3> QED
      BY <2>3, <2>4, <2>5, <3>2
  <2>6. CASE pending' = pending /\ b \in refused'
    <3>1. Outstanding(b)' = Outstanding(b)
      BY <1>1, <2>1, <2>6 DEF Outstanding
    <3> QED
      BY <2>3, <2>4, <2>6, <3>1
  <2> QED
    BY <1>4, <2>5, <2>6
<1>13. BlockInv'
  <2>1. ReadInv'
    BY <1>1, <1>3, <1>4, <1>12 DEF BlockInv, ReadInv, TypeOK
  <2>2. TakenInv'
    <3>1. ASSUME NEW v \in Workers, NEW x, worker'[v].at \in {"message", "leave"},
                 x = worker'[v].block
          PROVE  /\ block'[x] = "live" /\ Unsent(x)'
                 /\ \A u \in Workers : worker'[u].block = x => u = v
      <4>1. worker[v].at \in {"message", "leave"} /\ worker[v].block = x
        BY <1>3, <3>1
      <4>2. /\ block[x] = "live" /\ Unsent(x)
            /\ \A u \in Workers : worker[u].block = x => u = v
        BY <4>1 DEF BlockInv, TakenInv
      <4>3. x # b /\ x \in Blocks
        BY <1>3, <1>4, <4>1, WorkersBlock
      <4> QED
        BY <1>1, <1>3, <1>12, <4>2, <4>3
    <3> QED
      BY <3>1 DEF TakenInv
  <2>3. SendingInv'
    <3>1. ASSUME NEW v \in Workers, NEW x, worker'[v].at = "sending", x = worker'[v].block
          PROVE  /\ block'[x] = "live"
                 /\ \A u \in Workers : worker'[u].block = x => u = v \/ worker'[u].at = "sent"
                 /\ Range(worker'[v].todo) \cap Outstanding(x)' = {}
      <4>1. v = w /\ x = b
        BY <1>3, <3>1
      <4>2. Range(t) \cap Outstanding(b)' = {}
        BY <1>2, <1>4, <1>12
      <4> QED
        BY <1>1, <1>3, <1>4, <4>1, <4>2
    <3> QED
      BY <3>1 DEF SendingInv
  <2>4. \A x \in Blocks : x > allocated => x # b
    BY <1>4, BlocksType DEF TypeOK
  <2> QED
    BY <1>1, <1>12, <2>1, <2>2, <2>3, <2>4 DEF BlockInv
<1>14. OnceInv'
  <2>1. \A v \in Workers : /\ worker'[v].client = worker[v].client
                           /\ worker'[v].at = worker[v].at /\ worker'[v].block = worker[v].block
    BY <1>3
  <2>2. CASE pending' = pending
    BY <1>1, <2>1, <2>2 DEF OnceInv
  <2>3. CASE pending'[e] = Append(pending[e], b) /\ Range(pending'[e]) = Range(pending[e]) \cup {b}
    <3>1. IsInjective(pending'[e])
      <4>1. pending[e] \in Seq(Blocks) /\ IsInjective(pending[e])
        BY <1>2 DEF TypeOK, OnceInv
      <4> QED
        BY <1>4, <2>3, <4>1, RangeAppend
    <3>2. \A d \in Clients : /\ IsInjective(pending'[d])
                             /\ \A x \in Range(pending'[d]) : <<x, d>> \notin done
      BY <1>4, <2>3, <3>1 DEF OnceInv
    <3>3. ASSUME NEW v \in Workers, worker[v].at = "sent"
          PROVE  worker[v].block \notin Range(pending'[worker[v].client])
      <4>1. worker[v].client \in Clients /\ worker[v].block \notin Range(pending[worker[v].client])
        BY <3>3, WorkersBlock DEF OnceInv
      <4> QED
        BY <1>4, <2>3, <3>3, <4>1
    <3> QED
      BY <1>1, <2>1, <3>2, <3>3 DEF OnceInv
  <2> QED
    BY <1>4, <2>2, <2>3
<1>15. KeptInv'
  <2> SUFFICES ASSUME NEW x \in 1 .. allocated, block[x] = "live", x \notin refused'
               PROVE  \/ \E d \in Clients : reading'[d] = x
                      \/ \E v \in Workers :
                            /\ worker'[v].block = x
                            /\ \/ worker'[v].at \in {"message", "leave", "test"}
                               \/ /\ worker'[v].at = "sending"
                                  /\ worker'[v].client \in Range(worker'[v].todo)
                      \/ Outstanding(x)' # {}
    BY <1>1 DEF KeptInv
  <2>1. x \notin refused
    BY <1>1
  <2>2. CASE x = b
    <3>1. Outstanding(b)' = Outstanding(b) \cup {e}
      BY <1>12, <2>2
    <3> QED
      BY <2>2, <3>1
  <2>3. CASE x # b
    BY <1>0, <1>1, <1>3, <1>12, <2>1, <2>3 DEF KeptInv
  <2> QED
    BY <2>2, <2>3
<1>16. CountsSends'
  <2> SUFFICES ASSUME NEW x \in Blocks, block[x] = "live"
               PROVE  LET n == Cardinality(Outstanding(x)')
                      IN  IF x \in refused' THEN refCount'[x] >= n ELSE refCount'[x] = n
    BY <1>1 DEF CountsSends
  <2>1. CASE x # b
    <3>1. Outstanding(x)' = Outstanding(x) /\ refCount'[x] = refCount[x]
      BY <1>4, <1>12, <2>1
    <3>2. x \in refused' <=> x \in refused
      BY <1>1, <2>1
    <3> QED
      BY <3>1, <3>2 DEF CountsSends
  <2>2. CASE x = b
    <3>1. Outstanding(b) \subseteq Clients /\ IsFiniteSet(Outstanding(b))
      BY FS_Subset DEF Outstanding
    <3>2. Cardinality(Outstanding(b)) \in Nat
      BY <3>1, FS_CardinalityType
    <3>3. CASE Outstanding(b)' = Outstanding(b) \cup {e} /\ refused' = refused
      <4>1. e \notin Outstanding(b)
        BY <1>2, <1>4
      <4>2. Cardinality(Outstanding(b)') = Cardinality(Outstanding(b)) + 1
        BY <3>1, <3>3, <4>1, FS_AddElement
      <4>3. IF b \in refused THEN refCount[b] >= Cardinality(Outstanding(b))
                             ELSE refCount[b] = Cardinality(Outstanding(b))
        BY <1>4 DEF CountsSends
      <4> QED
        BY <1>4, <2>2, <3>2, <3>3, <4>2, <4>3
    <3>4. CASE Outstanding(b)' = Outstanding(b) /\ b \in refused'
      <4>1. refCount[b] >= Cardinality(Outstanding(b))
        BY <1>4, <3>2 DEF CountsSends
      <4> QED
        BY <1>4, <2>2, <3>2, <3>4, <4>1
    <3> QED
      BY <1>12, <3>3, <3>4
  <2> QED
    BY <2>1, <2>2
<1>17. FreedAfterLastSend'
  <2>1. \A x : x # b => \A d \in Clients : x \in Range(pending'[d]) <=> x \in Range(pending[d])
    BY <1>4
  <2>2. \A x \in Blocks : block[x] = "freed" => x # b
    BY <1>4
  <2> QED
    BY <1>1, <1>3, <2>1, <2>2 DEF FreedAfterLastSend
<1>18. OrderInv'
  <2>1. \A d \in Clients : d # e => Posted(d)' = Posted(d)
    BY <1>1, <1>4 DEF Posted
  <2>2. \/ Posted(e)' = Append(Posted(e), b)
        \/ Posted(e)' = Posted(e)
    <3>1. b \in Blocks /\ delivered[e] \in Seq(Blocks) /\ pending[e] \in Seq(Blocks)
      BY <1>2, <1>4, PostedType
    <3>2. delivered[e] \o Append(pending[e], b) = Append(delivered[e] \o pending[e], b)
      <4> DEFINE d == delivered[e]
                 p == pending[e]
      <4>1. b \in Blocks /\ d \in Seq(Blocks) /\ p \in Seq(Blocks)
        BY <3>1
      <4> HIDE DEF d, p
      <4>2. d \o Append(p, b) = Append(d \o p, b)
        BY <4>1, PostedAppend
      <4> QED
        BY <4>2 DEF d, p
    <3> QED
      BY <1>1, <1>4, <3>2 DEF Posted
  <2>3. /\ b \notin Range(Posted(e))
        /\ \A d \in Clients : /\ d \in Range(t) => b \notin Range(Posted(d))
                              /\ \A y \in Blocks : ~ Before(Posted(d), b, y)
    BY <1>0, <1>1, <1>2 DEF OrderInv
  <2>4. /\ \A x, y : Before(Append(Posted(e), b), x, y)
                        => Before(Posted(e), x, y) \/ (x \in Range(Posted(e)) /\ y = b)
        /\ IsInjective(Append(Posted(e), b))
    <3>1. Posted(e) \in Seq(Blocks) /\ IsInjective(Posted(e))
      BY <1>2, PostedType DEF OrderInv
    <3> QED
      BY <1>4, <2>3, <3>1, RangeAppend
  <2>5. ASSUME NEW d \in Clients, NEW x, NEW y, Before(Posted(d)', x, y)
        PROVE  Before(Posted(d), x, y) \/ (x # b /\ y = b)
    BY <2>1, <2>2, <2>3, <2>4, <2>5
  <2>6. \A d \in Clients : IsInjective(Posted(d)')
    BY <2>1, <2>2, <2>4 DEF OrderInv
  <2>7. \A d \in Clients : \A y \in Blocks : ~ Before(Posted(d)', b, y)
    BY <2>3, <2>5
  <2>8. ASSUME NEW c \in Clients, NEW d \in Clients, NEW x \in Blocks, NEW y \in Blocks,
               Before(Posted(c)', x, y), Before(Posted(d)', y, x)
        PROVE  FALSE
    <3>1. x # b /\ y # b
      BY <2>7, <2>8
    <3>2. Before(Posted(c), x, y) /\ Before(Posted(d), y, x)
      BY <2>5, <2>8, <3>1
    <3> QED
      BY <3>2 DEF OrderInv
  <2>9. ASSUME NEW v \in Workers, worker'[v].at = "sending", NEW c \in Clients
        PROVE  /\ c \in Range(worker'[v].todo) => worker'[v].block \notin Range(Posted(c)')
               /\ \A y \in Blocks : ~ Before(Posted(c)', worker'[v].block, y)
    <3>1. v = w
      BY <1>3, <2>9
    <3>2. c \in Range(t) => b \notin Range(Posted(c)')
      BY <1>2, <2>1, <2>3
    <3> QED
      BY <1>3, <2>7, <3>1, <3>2
  <2> QED
    BY <2>6, <2>8, <2>9 DEF OrderInv, Before
<1> QED
  BY <1>5, <1>6, <1>7, <1>8, <1>9, <1>10, <1>11, <1>13, <1>14, <1>15, <1>16, <1>17, <1>18

(* Decrement: one send less, one less in the count, and a test to come. *)
LEMMA DecrementStep ==
  ASSUME BroadcastInv, NEW w \in Workers, Decrement(w)
  PROVE  BroadcastInv'
<1> USE ClientAssumption, LockAssumption, BoundAssumption DEF BroadcastInv
<1>0. PICK b, c : b = worker[w].block /\ c = worker[w].client
  OBVIOUS
<1>1. /\ UNCHANGED <<clientList, crt, accepting, handle, reading, pending, done, broken, delivered,
                     allocated, block, refused, messages, fault>>
      /\ worker' = [worker EXCEPT ![w] = [worker[w] EXCEPT !.at = "test"]]
      /\ refCount' = [refCount EXCEPT ![b] = refCount[b] - 1]
      /\ worker[w].at = "sent" /\ crt = Free
  <2>1. worker' = [worker EXCEPT ![w] = [worker[w] EXCEPT !.at = "test"]]
    BY DEF Decrement, GoesTo
  <2>2. refCount' = [refCount EXCEPT ![worker[w].block] = refCount[worker[w].block] - 1]
    BY DEF Decrement
  <2>3. refCount' = [refCount EXCEPT ![b] = refCount[b] - 1]
    BY <1>0, <2>2
  <2>4. /\ UNCHANGED <<clientList, crt, accepting, handle, reading, pending, done, broken,
                       delivered, allocated, block, refused, messages, fault>>
        /\ worker[w].at = "sent" /\ crt = Free
    BY DEF Decrement, CrtIsFree, listVars, sendVars
  <2> QED
    BY <2>1, <2>3, <2>4
<1>2. /\ b \in Blocks /\ b <= allocated /\ c \in Clients
      /\ worker[w] \in Jobs /\ [worker[w] EXCEPT !.at = "test"] \in Jobs
      /\ \A v \in Workers : worker[v].at # "sending"
  <2>1. worker[w] \in Jobs
    BY DEF TypeOK
  <2>2. << >> \in Seq(Clients)
    BY EmptySeq
  <2>3. [worker[w] EXCEPT !.at = "test"] \in Jobs
    BY <2>1, <2>2, JobsUpdate
  <2>4. \A v \in Workers : worker[v].at # "sending"
    BY <1>1 DEF LockInv
  <2> QED
    BY <1>0, <1>1, <2>1, <2>3, <2>4, WorkersBlock
<1>3. /\ worker[w].at = "sent"
      /\ worker'[w].at = "test" /\ worker'[w].client = c /\ worker'[w].block = b
      /\ \A v \in Workers : v # w => worker'[v] = worker[v]
      /\ \A v \in Workers : worker'[v].block = worker[v].block
      /\ \A v \in Workers : worker'[v].client = worker[v].client
  <2>1. worker'[w] = [worker[w] EXCEPT !.at = "test"]
    BY <1>1 DEF TypeOK
  <2>2. \A v \in Workers : v # w => worker'[v] = worker[v]
    BY <1>1 DEF TypeOK
  <2>3. worker'[w].at = "test" /\ worker'[w].client = c /\ worker'[w].block = b
    BY <1>0, <1>2, <2>1 DEF Jobs
  <2> QED
    BY <1>0, <1>1, <2>2, <2>3
<1>4. /\ \A x \in Blocks : x # b => refCount'[x] = refCount[x]
      /\ refCount'[b] = refCount[b] - 1 /\ refCount[b] \in Nat /\ refCount[b] # 0
      /\ block[b] = "live"
      /\ IsFiniteSet(Outstanding(b)) /\ c \in Outstanding(b)
      /\ \A d \in Clients : reading[d] # b
      /\ b \notin Range(pending[c]) /\ <<b, c>> \notin done
      /\ \A v \in Workers :
             worker[v].at = "sent" /\ worker[v].block = b /\ worker[v].client = c => v = w
  <2>1. Outstanding(b) \subseteq Clients /\ IsFiniteSet(Outstanding(b)) /\ c \in Outstanding(b)
    <3>1. Outstanding(b) \subseteq Clients
      BY DEF Outstanding
    <3>2. c \in Outstanding(b)
      BY <1>0, <1>1, <1>2 DEF Outstanding
    <3> QED
      BY <3>1, <3>2, FS_Subset
  <2>2. block[b] = "live"
    <3>1. block[b] # "freed"
      BY <1>0, <1>1, <1>2 DEF FreedAfterLastSend
    <3>2. ~ (b > allocated)
      BY <1>2, BlocksType DEF TypeOK
    <3>3. block[b] # "none"
      BY <1>2, <3>2 DEF BlockInv
    <3> QED
      BY <1>2, <3>1, <3>3 DEF TypeOK
  <2>3. Cardinality(Outstanding(b)) \in Nat /\ Cardinality(Outstanding(b)) # 0
    BY <2>1, FS_CardinalityType, FS_EmptySet
  <2>4. refCount[b] \in Nat /\ refCount[b] >= Cardinality(Outstanding(b))
    BY <1>2, <2>2, <2>3 DEF CountsSends, TypeOK
  <2>5. \A d \in Clients : reading[d] # b
    BY <1>0, <1>2, BlocksType DEF BlockInv, ReadInv
  <2>6. /\ b \notin Range(pending[c]) /\ <<b, c>> \notin done
        /\ \A v \in Workers :
               worker[v].at = "sent" /\ worker[v].block = b /\ worker[v].client = c => v = w
    BY <1>0, <1>1 DEF OnceInv
  <2>7. refCount'[b] = refCount[b] - 1 /\ \A x \in Blocks : x # b => refCount'[x] = refCount[x]
    BY <1>1, <1>2 DEF TypeOK
  <2> QED
    BY <2>1, <2>2, <2>3, <2>4, <2>5, <2>6, <2>7
<1>5. TypeOK'
  <2>1. worker' \in [Workers -> Jobs]
    BY <1>1, <1>2 DEF TypeOK
  <2>2. refCount' \in [Blocks -> Nat]
    <3>1. refCount[b] - 1 \in Nat
      BY <1>4
    <3> QED
      BY <1>1, <3>1 DEF TypeOK
  <2> QED
    BY <1>1, <2>1, <2>2 DEF TypeOK
<1>6. LockInv'
  BY <1>1, <1>3 DEF LockInv
<1>7. WorkerInv'
  BY <1>0, <1>1, <1>2, <1>3 DEF WorkerInv
<1>8. ListInv'
  BY <1>1 DEF ListInv
<1>9. LoopInv'
  BY <1>1, <1>3, LoopKept
<1>10. ReceiveInv'
  <2>1. \A v \in Workers : Receiving(v)' = Receiving(v)
    BY <1>3 DEF Receiving
  <2> QED
    BY <1>1, <1>3, <2>1 DEF ReceiveInv
<1>11. BoundInv'
  <2>1. Listened' = Listened /\ Reposting' = Reposting
    BY <1>1, <1>3 DEF Listened, Reposting
  <2> QED
    BY <1>1, <2>1 DEF BoundInv
<1>12. /\ \A x : x # b => Outstanding(x)' = Outstanding(x)
       /\ \A x \in Blocks : x # b /\ Unsent(x) => Unsent(x)'
       /\ Outstanding(b)' = Outstanding(b) \ {c} /\ c \in Outstanding(b)
  <2>1. ASSUME NEW x, x # b PROVE Outstanding(x)' = Outstanding(x)
    <3>1. \A d : (\E v \in Workers : /\ worker'[v].at = "sent"
                                     /\ worker'[v].block = x
                                     /\ worker'[v].client = d)
                 <=> (\E v \in Workers : /\ worker[v].at = "sent"
                                         /\ worker[v].block = x
                                         /\ worker[v].client = d)
      BY <1>3, <2>1
    <3> QED
      BY <1>1, <3>1 DEF Outstanding
  <2>2. ASSUME NEW x \in Blocks, x # b, Unsent(x) PROVE Unsent(x)'
    BY <1>1, <1>4, <2>2 DEF Unsent
  <2>3. Outstanding(b)' = Outstanding(b) \ {c}
    <3>1. \A d : (\E v \in Workers : /\ worker'[v].at = "sent"
                                     /\ worker'[v].block = b
                                     /\ worker'[v].client = d)
                 <=> /\ \E v \in Workers : /\ worker[v].at = "sent"
                                           /\ worker[v].block = b
                                           /\ worker[v].client = d
                     /\ d # c
      BY <1>3, <1>4
    <3> QED
      BY SMTT(30), <1>1, <1>4, <3>1 DEF Outstanding
  <2> QED
    BY <1>4, <2>1, <2>2, <2>3
<1>13. BlockInv'
  <2>1. ReadInv'
    BY <1>1, <1>3, <1>4, <1>12 DEF BlockInv, ReadInv, TypeOK
  <2>2. TakenInv'
    <3>1. ASSUME NEW v \in Workers, NEW x, worker'[v].at \in {"message", "leave"},
                 x = worker'[v].block
          PROVE  /\ block'[x] = "live" /\ Unsent(x)'
                 /\ \A u \in Workers : worker'[u].block = x => u = v
      <4>1. v # w /\ worker[v].at \in {"message", "leave"} /\ worker[v].block = x
        BY <1>3, <3>1
      <4>2. /\ block[x] = "live" /\ Unsent(x)
            /\ \A u \in Workers : worker[u].block = x => u = v
        BY <4>1 DEF BlockInv, TakenInv
      <4>3. x # b /\ x \in Blocks
        BY <1>0, <4>1, <4>2, WorkersBlock
      <4> QED
        BY <1>1, <1>3, <1>12, <4>2, <4>3
    <3> QED
      BY <3>1 DEF TakenInv
  <2>3. SendingInv'
    BY <1>2, <1>3 DEF SendingInv
  <2>4. \A x \in Blocks : x > allocated => x # b
    BY <1>2, BlocksType DEF TypeOK
  <2> QED
    BY <1>1, <1>12, <2>1, <2>2, <2>3, <2>4 DEF BlockInv
<1>14. OnceInv'
  <2>1. \A v \in Workers : worker'[v].at = "sent" => worker[v].at = "sent"
    BY <1>3
  <2> QED
    BY <1>1, <1>3, <2>1 DEF OnceInv
<1>15. KeptInv'
  <2> SUFFICES ASSUME NEW x \in 1 .. allocated, block[x] = "live", x \notin refused
               PROVE  \/ \E d \in Clients : reading[d] = x
                      \/ \E v \in Workers :
                            /\ worker'[v].block = x
                            /\ \/ worker'[v].at \in {"message", "leave", "test"}
                               \/ /\ worker'[v].at = "sending"
                                  /\ worker'[v].client \in Range(worker'[v].todo)
                      \/ Outstanding(x)' # {}
    BY <1>1 DEF KeptInv
  <2>1. CASE x = b
    BY <1>3, <2>1
  <2>2. CASE x # b
    BY <1>3, <1>12, <2>2 DEF KeptInv
  <2> QED
    BY <2>1, <2>2
<1>16. CountsSends'
  <2> SUFFICES ASSUME NEW x \in Blocks, block[x] = "live"
               PROVE  LET n == Cardinality(Outstanding(x)')
                      IN  IF x \in refused THEN refCount'[x] >= n ELSE refCount'[x] = n
    BY <1>1 DEF CountsSends
  <2>1. CASE x # b
    BY <1>4, <1>12, <2>1 DEF CountsSends
  <2>2. CASE x = b
    <3>1. Cardinality(Outstanding(b)) \in Nat
      BY <1>4, FS_CardinalityType
    <3>2. Cardinality(Outstanding(b)') = Cardinality(Outstanding(b)) - 1
      BY <1>4, <1>12, FS_RemoveElement
    <3>3. IF b \in refused THEN refCount[b] >= Cardinality(Outstanding(b))
                           ELSE refCount[b] = Cardinality(Outstanding(b))
      BY <1>2, <1>4 DEF CountsSends
    <3> QED
      BY <1>4, <2>2, <3>1, <3>2, <3>3
  <2> QED
    BY <2>1, <2>2
<1>17. FreedAfterLastSend'
  BY <1>1, <1>3 DEF FreedAfterLastSend
<1>18. OrderInv'
  BY <1>1, <1>3, OrderKept DEF Posted
<1> QED
  BY <1>5, <1>6, <1>7, <1>8, <1>9, <1>10, <1>11, <1>13, <1>14, <1>15, <1>16, <1>17, <1>18

(* TestCount: a count of 0 means that no send is left. *)
LEMMA TestCountStep ==
  ASSUME BroadcastInv, NEW w \in Workers, TestCount(w)
  PROVE  BroadcastInv'
<1> USE ClientAssumption, LockAssumption, BoundAssumption DEF BroadcastInv
<1>0. PICK b : b = worker[w].block
  OBVIOUS
<1>1. /\ UNCHANGED <<clientList, crt, accepting, handle, reading, pending, done, broken, delivered,
                     allocated, refCount, refused, messages>>
      /\ worker' = [worker EXCEPT ![w] = Resting]
      /\ \/ block[b] = "live" /\ refCount[b] <= 0 /\ block' = [block EXCEPT ![b] = "freed"]
         \/ block[b] = "live" /\ ~ (refCount[b] <= 0) /\ block' = block
         \/ block[b] = "freed" /\ block' = block
      /\ fault' \in {fault, "freedTwice", "usedFreed"}
      /\ worker[w].at = "test"
  BY <1>0 DEF TestCount, LastSend, Done, listVars, sendVars
<1>2. /\ b \in Blocks /\ b <= allocated /\ b # 0
      /\ worker'[w].at = "wait" /\ worker'[w].block = 0 /\ worker'[w].client = NoClient
      /\ worker[w].at = "test" /\ worker[w].block = b
      /\ \A v \in Workers : v # w => worker'[v] = worker[v]
      /\ \A x \in Blocks : x # b => block'[x] = block[x]
      /\ \A v \in Workers : /\ worker'[v].at # "wait" => v # w /\ worker[v].at # "wait"
  <2>1. b \in Blocks /\ b <= allocated /\ b # 0
    BY <1>0, <1>1, WorkersBlock, BlocksType
  <2>2. worker'[w].at = "wait" /\ worker'[w].block = 0 /\ worker'[w].client = NoClient
    BY <1>1 DEF TypeOK, Resting
  <2>3. \A v \in Workers : v # w => worker'[v] = worker[v]
    BY <1>1 DEF TypeOK
  <2>4. \A x \in Blocks : x # b => block'[x] = block[x]
    BY <1>1 DEF TypeOK
  <2> QED
    BY <1>0, <1>1, <2>1, <2>2, <2>3, <2>4
<1>3. /\ \A v \in Workers : v # w => worker'[v] = worker[v]
      /\ worker[w].at = "test" /\ worker'[w].at = "wait"
  BY <1>1, <1>2
<1>4. \/ block'[b] = block[b]
      \/ /\ block[b] = "live" /\ block'[b] = "freed"
         /\ refCount[b] = 0 /\ Outstanding(b) = {}
  <2>1. CASE block' = block
    BY <2>1
  <2>2. CASE block[b] = "live" /\ refCount[b] <= 0 /\ block' = [block EXCEPT ![b] = "freed"]
    <3>1. Outstanding(b) \subseteq Clients /\ IsFiniteSet(Outstanding(b))
      BY FS_Subset DEF Outstanding
    <3>2. Cardinality(Outstanding(b)) \in Nat
      BY <3>1, FS_CardinalityType
    <3>3. refCount[b] = 0
      BY <1>2, <2>2 DEF TypeOK
    <3>4. Cardinality(Outstanding(b)) = 0
      BY <1>2, <2>2, <3>2, <3>3 DEF CountsSends
    <3>5. Outstanding(b) = {}
      BY <3>1, <3>4, FS_EmptySet
    <3> QED
      BY <1>2, <2>2, <3>3, <3>5 DEF TypeOK
  <2> QED
    BY <1>1, <2>1, <2>2
<1>5. TypeOK'
  <2>1. worker' \in [Workers -> Jobs]
    <3>1. Resting \in Jobs
      BY EmptySeq DEF Resting, Jobs
    <3> QED
      BY <1>1, <3>1 DEF TypeOK
  <2>2. block' \in [Blocks -> {"none", "live", "freed"}]
    BY <1>1 DEF TypeOK
  <2>3. fault' \in {"none", "usedFreed", "freedTwice", "erasedEnd"}
    BY <1>1 DEF TypeOK
  <2> QED
    BY <1>1, <2>1, <2>2, <2>3 DEF TypeOK
<1>6. LockInv'
  BY <1>1, <1>3 DEF LockInv
<1>7. WorkerInv'
  BY <1>1, <1>2 DEF WorkerInv
<1>8. ListInv'
  BY <1>1 DEF ListInv
<1>9. LoopInv'
  BY <1>1, <1>3, LoopKept
<1>10. ReceiveInv'
  <2>1. \A v \in Workers : /\ Receiving(v)' = Receiving(v)
                           /\ Receiving(v) => worker'[v] = worker[v]
    BY <1>2 DEF Receiving
  <2> QED
    BY <1>1, <2>1 DEF ReceiveInv
<1>11. BoundInv'
  <2>1. Listened' = Listened /\ Reposting' = Reposting
    BY <1>1, <1>3 DEF Listened, Reposting
  <2> QED
    BY <1>1, <2>1 DEF BoundInv
<1>12. \A x : Outstanding(x)' = Outstanding(x) /\ (Unsent(x) => Unsent(x)')
  <2>1. \A x : Outstanding(x)' = Outstanding(x)
    BY <1>1, <1>3, SendsKept
  <2>2. \A x : Unsent(x) /\ x \notin refused' => Unsent(x)'
    BY <1>1, <1>3, SendsKept
  <2> QED
    BY <1>1, <2>1, <2>2 DEF Unsent
<1>13. BlockInv'
  <2>1. ReadInv'
    <3>1. \A d \in Clients : reading[d] # 0 => reading[d] \in Blocks /\ reading[d] # b
      BY <1>0 DEF BlockInv, ReadInv, TypeOK
    <3>2. \A v \in Workers : worker'[v].block = worker[v].block \/ worker'[v].block = 0
      BY <1>2
    <3> QED
      BY <1>1, <1>2, <1>12, <3>1, <3>2 DEF BlockInv, ReadInv
  <2>2. TakenInv'
    <3>1. ASSUME NEW v \in Workers, NEW x, worker'[v].at \in {"message", "leave"},
                 x = worker'[v].block
          PROVE  /\ block'[x] = "live" /\ Unsent(x)'
                 /\ \A u \in Workers : worker'[u].block = x => u = v
      <4>1. v # w /\ worker[v].at \in {"message", "leave"} /\ worker[v].block = x
        BY <1>2, <3>1
      <4>2. /\ block[x] = "live" /\ Unsent(x)
            /\ \A u \in Workers : worker[u].block = x => u = v
        BY <4>1 DEF BlockInv, TakenInv
      <4>3. x # b /\ x \in Blocks /\ x # 0
        BY <1>2, <4>1, <4>2, WorkersBlock, BlocksType
      <4> QED
        BY <1>1, <1>2, <1>12, <4>2, <4>3
    <3> QED
      BY <3>1 DEF TakenInv
  <2>3. SendingInv'
    <3>1. ASSUME NEW v \in Workers, NEW x, worker'[v].at = "sending", x = worker'[v].block
          PROVE  /\ block'[x] = "live"
                 /\ \A u \in Workers : worker'[u].block = x => u = v \/ worker'[u].at = "sent"
                 /\ Range(worker'[v].todo) \cap Outstanding(x)' = {}
      <4>1. v # w /\ worker'[v] = worker[v]
        BY <1>2, <3>1
      <4>2. /\ block[x] = "live" /\ worker[v].at = "sending" /\ worker[v].block = x
            /\ \A u \in Workers : worker[u].block = x => u = v \/ worker[u].at = "sent"
            /\ Range(worker[v].todo) \cap Outstanding(x) = {}
        BY <3>1, <4>1 DEF BlockInv, SendingInv
      <4>3. x # b /\ x \in Blocks /\ x # 0
        BY <1>2, <4>1, <4>2, WorkersBlock, BlocksType
      <4> QED
        BY <1>1, <1>2, <1>12, <4>1, <4>2, <4>3
    <3> QED
      BY <3>1 DEF SendingInv
  <2>4. \A x \in Blocks : x > allocated => x # b
    BY <1>2, BlocksType DEF TypeOK
  <2>5. \A x \in Blocks : block[x] # "none" => block'[x] # "none"
    BY <1>2, <1>4
  <2> QED
    BY <1>1, <1>2, <1>12, <2>1, <2>2, <2>3, <2>4, <2>5 DEF BlockInv
<1>14. OnceInv'
  BY <1>1, <1>3, SendsKept
<1>15. KeptInv'
  <2> SUFFICES ASSUME NEW x \in 1 .. allocated, block'[x] = "live", x \notin refused
               PROVE  \/ \E d \in Clients : reading[d] = x
                      \/ \E v \in Workers :
                            /\ worker'[v].block = x
                            /\ \/ worker'[v].at \in {"message", "leave", "test"}
                               \/ /\ worker'[v].at = "sending"
                                  /\ worker'[v].client \in Range(worker'[v].todo)
                      \/ Outstanding(x) # {}
    BY <1>1, <1>12 DEF KeptInv
  <2>1. CASE x = b
    <3>1. block[b] = "live" /\ ~ (refCount[b] <= 0) /\ refCount[b] \in Nat
      BY <1>1, <1>2, <2>1 DEF TypeOK
    <3>2. Cardinality(Outstanding(b)) = refCount[b]
      BY <1>2, <2>1, <3>1 DEF CountsSends
    <3>3. Outstanding(b) # {}
      BY SMTT(30), <3>1, <3>2, FS_EmptySet
    <3> QED
      BY <2>1, <3>3
  <2>2. CASE x # b
    <3>1. block[x] = "live"
      BY <1>2, <2>2, AllocatedBlocks
    <3> QED
      BY <1>2, <2>2, <3>1 DEF KeptInv
  <2> QED
    BY <2>1, <2>2
<1>16. CountsSends'
  <2>1. \A x \in Blocks : block'[x] = "live" => block[x] = "live"
    BY <1>2, <1>4
  <2> QED
    BY <1>1, <1>12, <2>1, CountsKept
<1>17. FreedAfterLastSend'
  <2> SUFFICES ASSUME NEW x \in Blocks, block'[x] = "freed"
               PROVE  /\ \A c \in Clients : x \notin Range(pending[c]) /\ <<x, c>> \notin done
                      /\ \A v \in Workers : worker'[v].block = x
                            => worker'[v].at \notin {"message", "sending", "sent"}
    BY <1>1 DEF FreedAfterLastSend
  <2>1. CASE block[x] = "freed"
    BY <1>2, <2>1 DEF FreedAfterLastSend
  <2>2. CASE block[x] # "freed"
    <3>1. x = b /\ Outstanding(b) = {}
      BY <1>2, <1>4, <2>2
    <3>2. /\ \A c \in Clients : b \notin Range(pending[c]) /\ <<b, c>> \notin done
          /\ \A v \in Workers : worker[v].block = b => worker[v].at # "sent"
      BY <3>1, WorkersBlock DEF Outstanding
    <3>3. \A v \in Workers : worker[v].block = b => worker[v].at \notin {"message", "sending"}
      BY <1>2 DEF BlockInv, TakenInv, SendingInv
    <3> QED
      BY <1>2, <3>1, <3>2, <3>3
  <2> QED
    BY <2>1, <2>2
<1>18. OrderInv'
  BY <1>1, <1>3, OrderKept DEF Posted
<1> QED
  BY <1>5, <1>6, <1>7, <1>8, <1>9, <1>10, <1>11, <1>13, <1>14, <1>15, <1>16, <1>17, <1>18

(* Leave: crt is free, so no loop is on the list that loses the client. *)
LEMMA LeaveStep ==
  ASSUME BroadcastInv, NEW w \in Workers, Leave(w)
  PROVE  BroadcastInv'
<1> USE ClientAssumption, LockAssumption, BoundAssumption DEF BroadcastInv
<1>0. PICK b, c : b = worker[w].block /\ c = worker[w].client
  OBVIOUS
<1>1. /\ UNCHANGED <<crt, accepting, reading, pending, done, broken, delivered, allocated, refCount,
                     refused, messages>>
      /\ worker' = [worker EXCEPT ![w] = Resting]
      /\ clientList' = RemoveFirst(clientList, c)
      /\ handle' = [handle EXCEPT ![c] = "freed"]
      /\ block' = [block EXCEPT ![b] = "freed"]
      /\ fault' \in {fault, "erasedEnd", "freedTwice"}
      /\ worker[w].at = "leave" /\ crt = Free
  BY <1>0 DEF Leave, Done, CrtIsFree, sendVars
<1>2. /\ b \in Blocks /\ b <= allocated /\ b # 0 /\ c \in Clients
      /\ worker'[w].at = "wait" /\ worker'[w].block = 0 /\ worker'[w].client = NoClient
      /\ worker[w].at = "leave" /\ worker[w].block = b
      /\ \A v \in Workers : v # w => worker'[v] = worker[v]
      /\ \A x \in Blocks : x # b => block'[x] = block[x]
      /\ block'[b] = "freed"
      /\ \A v \in Workers : worker'[v].at # "wait" => v # w /\ worker[v].at # "wait"
      /\ \A v \in Workers : worker[v].at # "sending"
      /\ \A d \in Clients : handle'[d] = IF d = c THEN "freed" ELSE handle[d]
  <2>1. b \in Blocks /\ b <= allocated /\ b # 0 /\ c \in Clients
    BY <1>0, <1>1, WorkersBlock, BlocksType
  <2>2. worker'[w].at = "wait" /\ worker'[w].block = 0 /\ worker'[w].client = NoClient
    BY <1>1 DEF TypeOK, Resting
  <2>3. \A v \in Workers : v # w => worker'[v] = worker[v]
    BY <1>1 DEF TypeOK
  <2>4. /\ \A x \in Blocks : x # b => block'[x] = block[x]
        /\ block'[b] = "freed"
    BY <1>1, <2>1 DEF TypeOK
  <2>5. \A v \in Workers : worker[v].at # "sending"
    BY <1>1 DEF LockInv
  <2>6. \A d \in Clients : handle'[d] = IF d = c THEN "freed" ELSE handle[d]
    BY <1>1 DEF TypeOK
  <2> QED
    BY <1>0, <1>1, <2>1, <2>2, <2>3, <2>4, <2>5, <2>6
<1>3. /\ \A v \in Workers : v # w => worker'[v] = worker[v]
      /\ worker[w].at = "leave" /\ worker'[w].at = "wait"
  BY <1>1, <1>2
<1>4. /\ block[b] = "live" /\ Unsent(b)
      /\ \A v \in Workers : worker[v].block = b => v = w
      /\ handle[c] = "live" /\ reading[c] = 0 /\ c # accepting
      /\ \A v \in Workers : Receiving(v) /\ v # w => worker[v].client # c
      /\ \A d \in Clients : reading[d] # b
  <2>1. Receiving(w)
    BY <1>2 DEF Receiving
  <2>2. \A d \in Clients : reading[d] # b
    BY <1>2 DEF BlockInv, ReadInv
  <2> QED
    BY <1>0, <1>2, <2>1, <2>2 DEF BlockInv, TakenInv, ReceiveInv
<1>5. TypeOK'
  <2>1. worker' \in [Workers -> Jobs]
    <3>1. Resting \in Jobs
      BY EmptySeq DEF Resting, Jobs
    <3> QED
      BY <1>1, <3>1 DEF TypeOK
  <2>2. block' \in [Blocks -> {"none", "live", "freed"}]
    BY <1>1 DEF TypeOK
  <2>3. fault' \in {"none", "usedFreed", "freedTwice", "erasedEnd"}
    BY <1>1 DEF TypeOK
  <2>4. handle' \in [Clients -> {"none", "live", "freed"}]
    BY <1>1 DEF TypeOK
  <2>5. clientList' \in Seq(Clients)
    <3>1. clientList \in Seq(Clients) /\ IsInjective(clientList) /\ c \in Range(clientList)
      BY <1>2, <1>4 DEF TypeOK, ListInv
    <3> QED
      BY <1>1, <3>1, RangeRemove
  <2> QED
    BY <1>1, <2>1, <2>2, <2>3, <2>4, <2>5 DEF TypeOK
<1>6. LockInv'
  BY <1>1, <1>2 DEF LockInv
<1>7. WorkerInv'
  BY <1>1, <1>2 DEF WorkerInv
<1>8. ListInv'
  <2>1. clientList \in Seq(Clients) /\ IsInjective(clientList) /\ c \in Range(clientList)
    BY <1>2, <1>4 DEF TypeOK, ListInv
  <2>2. IsInjective(clientList') /\ Range(clientList') = Range(clientList) \ {c}
    BY <1>1, <2>1, RangeRemove
  <2>3. Range(clientList') = {d \in Clients : handle'[d] = "live"}
    BY <1>2, <2>2 DEF ListInv
  <2> QED
    BY <2>2, <2>3 DEF ListInv
<1>9. LoopInv'
  BY <1>2 DEF LoopInv
<1>10. ReceiveInv'
  <2>1. \A v \in Workers : /\ Receiving(v)' => v # w /\ Receiving(v)
                           /\ Receiving(v) /\ v # w => worker'[v] = worker[v]
    BY <1>2 DEF Receiving
  <2>2. \A v \in Workers : Receiving(v) => worker[v].client \in Clients
    BY DEF Receiving, WorkerInv
  <2>3. accepting # NoClient => accepting \in Clients
    BY DEF TypeOK
  <2> QED
    BY <1>1, <1>2, <1>4, <2>1, <2>2, <2>3 DEF ReceiveInv
<1>11. BoundInv'
  <2>1. Listened' = Listened /\ Reposting' = Reposting
    BY <1>1, <1>2, <1>4 DEF Listened, Reposting
  <2> QED
    BY <1>1, <2>1 DEF BoundInv
<1>12. \A x : Outstanding(x)' = Outstanding(x) /\ (Unsent(x) => Unsent(x)')
  <2>1. \A x : Outstanding(x)' = Outstanding(x)
    BY <1>1, <1>3, SendsKept
  <2>2. \A x : Unsent(x) /\ x \notin refused' => Unsent(x)'
    BY <1>1, <1>3, SendsKept
  <2> QED
    BY <1>1, <2>1, <2>2 DEF Unsent
<1>13. BlockInv'
  <2>1. ReadInv'
    <3>1. \A d \in Clients : reading[d] # 0 => reading[d] \in Blocks /\ reading[d] # b
      BY <1>0 DEF BlockInv, ReadInv, TypeOK
    <3>2. \A v \in Workers : worker'[v].block = worker[v].block \/ worker'[v].block = 0
      BY <1>2
    <3> QED
      BY <1>1, <1>2, <1>12, <3>1, <3>2 DEF BlockInv, ReadInv
  <2>2. TakenInv'
    <3>1. ASSUME NEW v \in Workers, NEW x, worker'[v].at \in {"message", "leave"},
                 x = worker'[v].block
          PROVE  /\ block'[x] = "live" /\ Unsent(x)'
                 /\ \A u \in Workers : worker'[u].block = x => u = v
      <4>1. v # w /\ worker[v].at \in {"message", "leave"} /\ worker[v].block = x
        BY <1>2, <3>1
      <4>2. /\ block[x] = "live" /\ Unsent(x)
            /\ \A u \in Workers : worker[u].block = x => u = v
        BY <4>1 DEF BlockInv, TakenInv
      <4>3. x # b /\ x \in Blocks /\ x # 0
        BY <1>2, <4>1, <4>2, WorkersBlock, BlocksType
      <4> QED
        BY <1>1, <1>2, <1>12, <4>2, <4>3
    <3> QED
      BY <3>1 DEF TakenInv
  <2>3. SendingInv'
    BY <1>2 DEF SendingInv
  <2>4. \A x \in Blocks : x > allocated => x # b
    BY <1>2, BlocksType DEF TypeOK
  <2> QED
    BY <1>1, <1>2, <1>12, <2>1, <2>2, <2>3, <2>4 DEF BlockInv
<1>14. OnceInv'
  BY <1>1, <1>3, SendsKept
<1>15. KeptInv'
  <2> SUFFICES ASSUME NEW x \in 1 .. allocated, block'[x] = "live", x \notin refused
               PROVE  \/ \E d \in Clients : reading[d] = x
                      \/ \E v \in Workers :
                            /\ worker'[v].block = x
                            /\ \/ worker'[v].at \in {"message", "leave", "test"}
                               \/ /\ worker'[v].at = "sending"
                                  /\ worker'[v].client \in Range(worker'[v].todo)
                      \/ Outstanding(x) # {}
    BY <1>1, <1>12 DEF KeptInv
  <2>1. x # b /\ block[x] = "live"
    BY <1>2, AllocatedBlocks
  <2> QED
    BY <1>2, <2>1 DEF KeptInv
<1>16. CountsSends'
  <2>1. \A x \in Blocks : block'[x] = "live" => block[x] = "live"
    BY <1>2, <1>4
  <2> QED
    BY <1>1, <1>12, <2>1, CountsKept
<1>17. FreedAfterLastSend'
  <2> SUFFICES ASSUME NEW x \in Blocks, block'[x] = "freed"
               PROVE  /\ \A d \in Clients : x \notin Range(pending[d]) /\ <<x, d>> \notin done
                      /\ \A v \in Workers : worker'[v].block = x
                            => worker'[v].at \notin {"message", "sending", "sent"}
    BY <1>1 DEF FreedAfterLastSend
  <2>1. CASE x # b
    BY <1>2, <2>1 DEF FreedAfterLastSend
  <2>2. CASE x = b
    BY <1>2, <1>4, <2>2 DEF Unsent
  <2> QED
    BY <2>1, <2>2
<1>18. OrderInv'
  BY <1>1, <1>3, OrderKept DEF Posted
<1> QED
  BY <1>5, <1>6, <1>7, <1>8, <1>9, <1>10, <1>11, <1>13, <1>14, <1>15, <1>16, <1>17, <1>18

(* TakeSent: a send goes from the port to one worker. *)
LEMMA TakeSentStep ==
  ASSUME BroadcastInv, NEW w \in Workers, NEW b \in Blocks, NEW c \in Clients,
         TakeSent(w, b, c)
  PROVE  BroadcastInv'
<1> USE ClientAssumption, LockAssumption, BoundAssumption DEF BroadcastInv
<1>1. /\ UNCHANGED <<clientList, crt, accepting, handle, reading, pending, broken, delivered,
                     allocated, block, refCount, refused, messages>>
      /\ done' = done \ {<<b, c>>} /\ <<b, c>> \in done
      /\ worker' = [worker EXCEPT ![w] = [at |-> "sent", client |-> c, block |-> b, todo |-> << >>]]
      /\ fault' \in {fault, "usedFreed"}
      /\ worker[w].at = "wait"
  BY DEF TakeSent, Takes, ReadHandle, listVars, blockVars
<1>2. /\ worker[w].at = "wait" /\ worker[w].block = 0
      /\ worker'[w].at = "sent" /\ worker'[w].block = b /\ worker'[w].client = c
      /\ \A v \in Workers : v # w => worker'[v] = worker[v]
  BY <1>1 DEF TypeOK, WorkerInv
<1>3. /\ worker[w].at = "wait" /\ worker'[w].at = "sent"
      /\ \A v \in Workers : v # w => worker'[v] = worker[v]
      /\ \A v \in Workers : worker[v].at # "wait" => worker'[v] = worker[v]
  BY <1>2
<1>4. /\ ~ Unsent(b) /\ b <= allocated /\ b \in 1 .. allocated
      /\ \A d \in Clients : reading[d] # b
      /\ \A v \in Workers : worker[v].block = b => worker[v].at \notin {"message", "leave"}
      /\ b \notin Range(pending[c])
      /\ \A v \in Workers : worker[v].at = "sent" /\ worker[v].block = b => worker[v].client # c
  <2>1. ~ Unsent(b)
    BY <1>1 DEF Unsent
  <2>2. b <= allocated /\ b \in 1 .. allocated
    <3>1. ~ (b > allocated)
      BY <2>1 DEF BlockInv
    <3> QED
      BY <3>1, BlocksType DEF TypeOK
  <2>3. \A d \in Clients : reading[d] # b
    BY <2>1, BlocksType DEF BlockInv, ReadInv
  <2>4. \A v \in Workers : worker[v].block = b => worker[v].at \notin {"message", "leave"}
    BY <2>1 DEF BlockInv, TakenInv
  <2>5. /\ b \notin Range(pending[c])
        /\ \A v \in Workers : worker[v].at = "sent" /\ worker[v].block = b => worker[v].client # c
    BY <1>1 DEF OnceInv
  <2> QED
    BY <2>1, <2>2, <2>3, <2>4, <2>5
<1>5. TypeOK'
  <2>1. worker' \in [Workers -> Jobs]
    BY <1>1, EmptySeq DEF TypeOK, Jobs
  <2>2. done' \subseteq Blocks \X Clients
    BY <1>1 DEF TypeOK
  <2> QED
    BY <1>1, <2>1, <2>2 DEF TypeOK
<1>6. LockInv'
  BY <1>1, <1>3 DEF LockInv
<1>7. WorkerInv'
  BY <1>1, <1>2, <1>4 DEF WorkerInv
<1>8. ListInv'
  BY <1>1 DEF ListInv
<1>9. LoopInv'
  BY <1>1, <1>3, LoopKept
<1>10. ReceiveInv'
  <2>1. \A v \in Workers : /\ Receiving(v)' = Receiving(v)
                           /\ Receiving(v) => worker'[v] = worker[v]
    BY <1>2 DEF Receiving
  <2> QED
    BY <1>1, <2>1 DEF ReceiveInv
<1>11. BoundInv'
  <2>1. Listened' = Listened /\ Reposting' = Reposting
    BY <1>1, <1>2 DEF Listened, Reposting
  <2> QED
    BY <1>1, <2>1 DEF BoundInv
<1>12. /\ \A x : Outstanding(x)' = Outstanding(x)
       /\ \A x : Unsent(x) => Unsent(x)'
  <2>1. ASSUME NEW x, NEW d \in Clients
        PROVE  (\/ <<x, d>> \in done'
                \/ \E v \in Workers : /\ worker'[v].at = "sent"
                                      /\ worker'[v].block = x
                                      /\ worker'[v].client = d)
               <=> (\/ <<x, d>> \in done
                    \/ \E v \in Workers : /\ worker[v].at = "sent"
                                          /\ worker[v].block = x
                                          /\ worker[v].client = d)
    <3>1. <<x, d>> \in done' <=> <<x, d>> \in done /\ ~ (x = b /\ d = c)
      BY <1>1
    <3>2. CASE x = b /\ d = c
      BY <1>1, <1>2, <3>2
    <3>3. CASE ~ (x = b /\ d = c)
      BY <1>2, <1>3, <3>1, <3>3
    <3> QED
      BY <3>2, <3>3
  <2>2. \A x : Outstanding(x)' = Outstanding(x)
    BY <1>1, <2>1 DEF Outstanding
  <2>3. \A x : Unsent(x) => Unsent(x)'
    BY <1>1 DEF Unsent
  <2> QED
    BY <2>2, <2>3
<1>13. BlockInv'
  <2>1. ReadInv'
    <3>1. \A v \in Workers : worker'[v].block = worker[v].block \/ worker'[v].block = b
      BY <1>2
    <3> QED
      BY <1>1, <1>4, <1>12, <3>1 DEF BlockInv, ReadInv
  <2>2. TakenInv'
    <3>1. ASSUME NEW v \in Workers, NEW x, worker'[v].at \in {"message", "leave"},
                 x = worker'[v].block
          PROVE  /\ block'[x] = "live" /\ Unsent(x)'
                 /\ \A u \in Workers : worker'[u].block = x => u = v
      <4>1. v # w /\ worker[v].at \in {"message", "leave"} /\ worker[v].block = x
        BY <1>2, <3>1
      <4>2. /\ block[x] = "live" /\ Unsent(x)
            /\ \A u \in Workers : worker[u].block = x => u = v
        BY <4>1 DEF BlockInv, TakenInv
      <4>3. x # b
        BY <1>4, <4>1
      <4> QED
        BY <1>1, <1>2, <1>12, <4>2, <4>3
    <3> QED
      BY <3>1 DEF TakenInv
  <2>3. SendingInv'
    <3>1. ASSUME NEW v \in Workers, NEW x, worker'[v].at = "sending", x = worker'[v].block
          PROVE  /\ block'[x] = "live"
                 /\ \A u \in Workers : worker'[u].block = x => u = v \/ worker'[u].at = "sent"
                 /\ Range(worker'[v].todo) \cap Outstanding(x)' = {}
      <4>1. v # w /\ worker'[v] = worker[v]
        BY <1>2, <3>1
      <4>2. /\ block[x] = "live" /\ worker[v].at = "sending" /\ worker[v].block = x
            /\ \A u \in Workers : worker[u].block = x => u = v \/ worker[u].at = "sent"
            /\ Range(worker[v].todo) \cap Outstanding(x) = {}
        BY <3>1, <4>1 DEF BlockInv, SendingInv
      <4> QED
        BY <1>1, <1>2, <1>12, <4>1, <4>2
    <3> QED
      BY <3>1 DEF SendingInv
  <2> QED
    BY <1>1, <1>12, <2>1, <2>2, <2>3 DEF BlockInv
<1>14. OnceInv'
  <2>1. \A d \in Clients : /\ IsInjective(pending[d])
                           /\ \A x \in Range(pending[d]) : <<x, d>> \notin done'
    BY <1>1 DEF OnceInv
  <2>2. ASSUME NEW v \in Workers, worker'[v].at = "sent", NEW x, NEW d,
               x = worker'[v].block, d = worker'[v].client
        PROVE  /\ x \notin Range(pending[d]) /\ <<x, d>> \notin done'
               /\ \A u \in Workers :
                      /\ worker'[u].at = "sent"
                      /\ worker'[u].block = x
                      /\ worker'[u].client = d
                      => u = v
    <3>1. CASE v = w
      <4>1. x = b /\ d = c
        BY <1>2, <2>2, <3>1
      <4>2. x \notin Range(pending[d]) /\ <<x, d>> \notin done'
        BY <1>1, <1>4, <4>1
      <4>3. \A u \in Workers : u # w /\ worker'[u].at = "sent" /\ worker'[u].block = b
                                   => worker'[u].client # c
        BY <1>2, <1>4
      <4> QED
        BY <3>1, <4>1, <4>2, <4>3
    <3>2. CASE v # w
      <4>1. worker[v].at = "sent" /\ x = worker[v].block /\ d = worker[v].client
        BY <1>2, <2>2, <3>2
      <4>2. /\ x \notin Range(pending[d]) /\ <<x, d>> \notin done
            /\ \A u \in Workers :
                   /\ worker[u].at = "sent"
                   /\ worker[u].block = x
                   /\ worker[u].client = d
                   => u = v
        <5>1. /\ worker[v].block \notin Range(pending[worker[v].client])
              /\ <<worker[v].block, worker[v].client>> \notin done
              /\ \A u \in Workers :
                     /\ worker[u].at = "sent"
                     /\ worker[u].block = worker[v].block
                     /\ worker[u].client = worker[v].client
                     => u = v
          BY <4>1 DEF OnceInv
        <5> QED
          BY <4>1, <5>1
      <4>3. ~ (x = b /\ d = c)
        BY <1>4, <4>1
      <4> QED
        BY <1>1, <1>2, <4>2, <4>3
    <3> QED
      BY <3>1, <3>2
  <2> QED
    BY <1>1, <2>1, <2>2 DEF OnceInv
<1>15. KeptInv'
  <2>1. \A v \in Workers : worker[v].at \in {"message", "leave", "test", "sending"}
                               => worker'[v] = worker[v]
    BY <1>3
  <2> QED
    BY <1>1, <1>12, <2>1 DEF KeptInv
<1>16. CountsSends'
  BY <1>1, <1>12, CountsKept
<1>17. FreedAfterLastSend'
  <2>1. block[b] # "freed"
    BY <1>1 DEF FreedAfterLastSend
  <2> QED
    BY <1>1, <1>2, <2>1 DEF FreedAfterLastSend
<1>18. OrderInv'
  BY <1>1, <1>3, OrderKept DEF Posted
<1> QED
  BY <1>5, <1>6, <1>7, <1>8, <1>9, <1>10, <1>11, <1>13, <1>14, <1>15, <1>16, <1>17, <1>18

(* A send is over: whatever else happens, what was posted keeps its order.  *)
LEMMA CompleteStep ==
  ASSUME BroadcastInv, NEW c \in Clients, Complete(c),
         broken' \subseteq Clients,
         delivered' \in [Clients -> Seq(Blocks)],
         \A d \in Clients : d # c => delivered'[d] = delivered[d],
         Range(delivered'[c]) \subseteq Range(delivered[c]) \cup {Head(pending[c])},
         \A d \in Clients :
             /\ Range(Posted(d)') \subseteq Range(Posted(d))
             /\ IsInjective(Posted(d)')
             /\ \A x, y : Before(Posted(d)', x, y) => Before(Posted(d), x, y)
  PROVE  BroadcastInv'
<1> USE ClientAssumption, LockAssumption, BoundAssumption DEF BroadcastInv
<1>0. PICK h : h = Head(pending[c])
  OBVIOUS
<1>1. /\ UNCHANGED <<clientList, crt, accepting, handle, reading, allocated, block, refCount,
                     worker, messages, fault>>
      /\ pending[c] # << >> /\ pending' = [pending EXCEPT ![c] = Tail(pending[c])]
      /\ \/ done' = done \cup {<<h, c>>} /\ refused' = refused
         \/ done' = done /\ refused' = refused \cup {h}
  BY <1>0 DEF Complete, listVars
<1>2. /\ h \in Blocks /\ Tail(pending[c]) \in Seq(Blocks)
      /\ pending \in [Clients -> Seq(Blocks)]
      /\ Range(pending[c]) = Range(pending'[c]) \cup {h}
      /\ h \notin Range(pending'[c]) /\ IsInjective(pending'[c])
      /\ \A d \in Clients : d # c => pending'[d] = pending[d]
  <2>1. /\ pending[c] \in Seq(Blocks) /\ pending \in [Clients -> Seq(Blocks)]
        /\ IsInjective(pending[c])
    BY DEF TypeOK, OnceInv
  <2>2. /\ h \in Blocks /\ Tail(pending[c]) \in Seq(Blocks)
        /\ Range(pending[c]) = Range(Tail(pending[c])) \cup {h}
        /\ h \notin Range(Tail(pending[c])) /\ IsInjective(Tail(pending[c]))
    BY <1>0, <1>1, <2>1, RangeTail
  <2>3. pending'[c] = Tail(pending[c]) /\ \A d \in Clients : d # c => pending'[d] = pending[d]
    BY <1>1, <2>1
  <2> QED
    BY <2>1, <2>2, <2>3
<1>3. /\ \A v \in Workers : worker'[v] = worker[v]
      /\ h \in Range(pending[c]) /\ c \in Outstanding(h) /\ ~ Unsent(h)
      /\ <<h, c>> \notin done
      /\ \A v \in Workers : worker[v].at = "sent" /\ worker[v].block = h => worker[v].client # c
  <2>1. h \in Range(pending[c])
    BY <1>2
  <2>2. c \in Outstanding(h) /\ ~ Unsent(h)
    BY <2>1 DEF Outstanding, Unsent
  <2>3. /\ <<h, c>> \notin done
        /\ \A v \in Workers : worker[v].at = "sent" /\ worker[v].block = h => worker[v].client # c
    BY <2>1 DEF OnceInv
  <2> QED
    BY <1>1, <2>1, <2>2, <2>3
<1>5. TypeOK'
  <2>1. pending' \in [Clients -> Seq(Blocks)]
    BY <1>1, <1>2
  <2>2. done' \subseteq Blocks \X Clients /\ refused' \subseteq Blocks
    BY <1>1, <1>2 DEF TypeOK
  <2> QED
    BY <1>1, <2>1, <2>2 DEF TypeOK
<1>6. LockInv'
  BY <1>1, <1>3 DEF LockInv
<1>7. WorkerInv'
  BY <1>1, <1>3 DEF WorkerInv
<1>8. ListInv'
  BY <1>1 DEF ListInv
<1>9. LoopInv'
  BY <1>1, <1>3, LoopKept
<1>10. ReceiveInv'
  BY <1>1, <1>3 DEF ReceiveInv, Receiving
<1>11. BoundInv'
  <2>1. Listened' = Listened /\ Reposting' = Reposting
    BY <1>1 DEF Listened, Reposting
  <2> QED
    BY <1>1, <2>1 DEF BoundInv
<1>12. /\ \A x \in Blocks : Unsent(x) => Unsent(x)'
       /\ \A x \in Blocks : x # h => Outstanding(x)' = Outstanding(x)
       /\ \/ Outstanding(h)' = Outstanding(h) /\ refused' = refused
          \/ /\ Outstanding(h)' = Outstanding(h) \ {c} /\ c \in Outstanding(h)
             /\ refused' = refused \cup {h}
  <2>1. ASSUME NEW x \in Blocks, Unsent(x) PROVE Unsent(x)'
    <3>1. x # h /\ x \notin refused'
      BY <1>1, <1>3, <2>1 DEF Unsent
    <3>2. \A d \in Clients : x \notin Range(pending'[d]) /\ <<x, d>> \notin done'
      BY <1>1, <1>2, <2>1, <3>1 DEF Unsent
    <3>3. \A d \in Clients : x \notin Range(delivered'[d])
      BY <1>0, <2>1, <3>1 DEF Unsent
    <3> QED
      BY <1>1, <2>1, <3>1, <3>2, <3>3 DEF Unsent
  <2>2. ASSUME NEW x \in Blocks, x # h PROVE Outstanding(x)' = Outstanding(x)
    <3>1. \A d \in Clients : /\ x \in Range(pending'[d]) <=> x \in Range(pending[d])
                             /\ <<x, d>> \in done' <=> <<x, d>> \in done
      BY <1>1, <1>2, <2>2
    <3> QED
      BY <1>3, <3>1 DEF Outstanding
  <2>3. CASE done' = done \cup {<<h, c>>} /\ refused' = refused
    <3>1. \A d \in Clients : h \in Range(pending'[d]) \/ <<h, d>> \in done'
                             <=> h \in Range(pending[d]) \/ <<h, d>> \in done
      BY <1>2, <2>3
    <3>2. Outstanding(h)' = Outstanding(h)
      BY <1>3, <3>1 DEF Outstanding
    <3> QED
      BY <2>1, <2>2, <2>3, <3>2
  <2>4. CASE done' = done /\ refused' = refused \cup {h}
    <3>1. \A d \in Clients : h \in Range(pending'[d]) <=> h \in Range(pending[d]) /\ d # c
      BY <1>2
    <3>2. \A d \in Clients : <<h, d>> \in done' <=> <<h, d>> \in done /\ d # c
      BY <1>3, <2>4
    <3>3. \A v \in Workers : worker'[v].at = "sent" /\ worker'[v].block = h
                                 => worker'[v].client # c
      BY <1>3
    <3>4. \A d : d \in Outstanding(h)' <=> d \in Outstanding(h) /\ d # c
      BY <1>3, <3>1, <3>2, <3>3 DEF Outstanding
    <3>5. Outstanding(h)' = Outstanding(h) \ {c}
      BY <3>4
    <3> QED
      BY <1>3, <2>1, <2>2, <2>4, <3>5
  <2> QED
    BY <1>1, <2>3, <2>4
<1>13. BlockInv'
  <2>1. ReadInv'
    BY SMTT(30), <1>1, <1>12 DEF BlockInv, ReadInv, TypeOK
  <2>2. TakenInv'
    <3>1. ASSUME NEW v \in Workers, NEW x, worker[v].at \in {"message", "leave"},
                 x = worker[v].block
          PROVE  /\ block[x] = "live" /\ Unsent(x)'
                 /\ \A u \in Workers : worker[u].block = x => u = v
      <4>1. x \in Blocks
        BY <3>1, WorkersBlock
      <4> QED
        BY <1>12, <3>1, <4>1 DEF BlockInv, TakenInv
    <3> QED
      BY <1>1, <3>1 DEF TakenInv
  <2>3. SendingInv'
    <3>1. ASSUME NEW v \in Workers, NEW x, worker[v].at = "sending", x = worker[v].block
          PROVE  /\ block[x] = "live"
                 /\ \A u \in Workers : worker[u].block = x => u = v \/ worker[u].at = "sent"
                 /\ Range(worker[v].todo) \cap Outstanding(x)' = {}
      <4>1. x \in Blocks
        BY <3>1, WorkersBlock
      <4>2. Outstanding(x)' \subseteq Outstanding(x)
        BY <1>12, <4>1
      <4> QED
        BY <3>1, <4>2 DEF BlockInv, SendingInv
    <3> QED
      BY ZenonT(40), <1>1, <3>1 DEF SendingInv
  <2> QED
    BY <1>1, <1>12, <2>1, <2>2, <2>3 DEF BlockInv
<1>14. OnceInv'
  <2>1. ASSUME NEW d \in Clients
        PROVE  IsInjective(pending'[d]) /\ \A x \in Range(pending'[d]) : <<x, d>> \notin done'
    <3>1. IsInjective(pending'[d])
      BY <1>2 DEF OnceInv
    <3>2. \A x \in Range(pending'[d]) : x \in Range(pending[d]) /\ ~ (x = h /\ d = c)
      BY <1>2
    <3> QED
      BY <1>1, <3>1, <3>2 DEF OnceInv
  <2>2. ASSUME NEW v \in Workers, worker[v].at = "sent", NEW x, NEW d,
               x = worker[v].block, d = worker[v].client
        PROVE  x \notin Range(pending'[d]) /\ <<x, d>> \notin done'
    <3>1. d \in Clients
      BY <2>2, WorkersBlock
    <3>2. x \notin Range(pending[d]) /\ <<x, d>> \notin done
      BY <2>2 DEF OnceInv
    <3>3. ~ (x = h /\ d = c)
      BY <1>3, <2>2
    <3> QED
      BY <1>1, <1>2, <3>1, <3>2, <3>3
  <2>3. \A v \in Workers : worker[v].at = "sent" =>
            \A u \in Workers : /\ worker[u].at = "sent"
                               /\ worker[u].block = worker[v].block
                               /\ worker[u].client = worker[v].client
                               => u = v
    BY DEF OnceInv
  <2> QED
    BY <1>1, <2>1, <2>2, <2>3 DEF OnceInv
<1>15. KeptInv'
  <2>1. \A x \in 1 .. allocated : x \notin refused'
                                      => x \notin refused /\ Outstanding(x)' = Outstanding(x)
    BY <1>12, AllocatedBlocks
  <2> QED
    BY <1>1, <2>1 DEF KeptInv
<1>16. CountsSends'
  <2> SUFFICES ASSUME NEW x \in Blocks, block[x] = "live"
               PROVE  LET n == Cardinality(Outstanding(x)')
                      IN  IF x \in refused' THEN refCount[x] >= n ELSE refCount[x] = n
    BY <1>1 DEF CountsSends
  <2>1. CASE Outstanding(x)' = Outstanding(x) /\ (x \in refused' <=> x \in refused)
    BY <2>1 DEF CountsSends
  <2>2. CASE Outstanding(x)' = Outstanding(x) \ {c} /\ c \in Outstanding(x) /\ x \in refused'
    <3>1. Outstanding(x) \subseteq Clients /\ IsFiniteSet(Outstanding(x))
      BY FS_Subset DEF Outstanding
    <3>2. Cardinality(Outstanding(x)) \in Nat
      BY <3>1, FS_CardinalityType
    <3>3. Cardinality(Outstanding(x)') = Cardinality(Outstanding(x)) - 1
      BY <2>2, <3>1, FS_RemoveElement
    <3>4. refCount[x] \in Nat /\ refCount[x] >= Cardinality(Outstanding(x))
      BY <3>2 DEF CountsSends, TypeOK
    <3> QED
      BY <2>2, <3>2, <3>3, <3>4
  <2>3. x # h => (x \in refused' <=> x \in refused)
    BY <1>12
  <2> QED
    BY <1>12, <2>1, <2>2, <2>3
<1>17. FreedAfterLastSend'
  <2>1. block[h] # "freed"
    BY <1>2, <1>3 DEF FreedAfterLastSend
  <2>2. ASSUME NEW x \in Blocks, block[x] = "freed"
        PROVE  \A d \in Clients : x \notin Range(pending'[d]) /\ <<x, d>> \notin done'
    <3>1. x # h
      BY <2>1, <2>2
    <3> QED
      BY <1>1, <1>2, <2>2, <3>1 DEF FreedAfterLastSend
  <2> QED
    BY <1>1, <2>2 DEF FreedAfterLastSend
<1>18. OrderInv'
  <2>1. ASSUME NEW d \in Clients, NEW e \in Clients, NEW x \in Blocks, NEW y \in Blocks
        PROVE  ~ (Before(Posted(d)', x, y) /\ Before(Posted(e)', y, x))
    BY DEF OrderInv
  <2>2. ASSUME NEW v \in Workers, worker[v].at = "sending", NEW d \in Clients
        PROVE  /\ d \in Range(worker[v].todo) => worker[v].block \notin Range(Posted(d)')
               /\ \A y \in Blocks : ~ Before(Posted(d)', worker[v].block, y)
    BY <2>2 DEF OrderInv
  <2>3. \A d \in Clients : IsInjective(Posted(d)')
    OBVIOUS
  <2> QED
    BY <1>1, <2>1, <2>2, <2>3 DEF OrderInv, Before
<1> QED
  BY <1>5, <1>6, <1>7, <1>8, <1>9, <1>10, <1>11, <1>13, <1>14, <1>15, <1>16, <1>17, <1>18

(* Transmit: the message goes from the end of one part of Posted to the other. *)
LEMMA TransmitStep ==
  ASSUME BroadcastInv, NEW c \in Clients, Transmit(c)
  PROVE  BroadcastInv'
<1> DEFINE d == delivered[c]
           p == pending[c]
<1>1. /\ Complete(c) /\ p # << >> /\ broken' = broken
      /\ delivered' = [delivered EXCEPT ![c] = Append(d, Head(p))]
      /\ pending' = [pending EXCEPT ![c] = Tail(p)]
  BY DEF Transmit, Complete
<1>2. /\ d \in Seq(Blocks) /\ p \in Seq(Blocks)
      /\ delivered \in [Clients -> Seq(Blocks)] /\ pending \in [Clients -> Seq(Blocks)]
      /\ broken \subseteq Clients
  BY DEF BroadcastInv, TypeOK
<1>3. /\ delivered'[c] = Append(d, Head(p)) /\ pending'[c] = Tail(p)
      /\ \A e \in Clients : e # c => delivered'[e] = delivered[e] /\ pending'[e] = pending[e]
  BY <1>1, <1>2
<1>4. Posted(c) = d \o p
  BY DEF Posted
<1> HIDE DEF d, p
<1>5. Head(p) \in Blocks
  BY <1>1, <1>2, RangeTail
<1>6. Append(d, Head(p)) \in Seq(Blocks) /\ Range(Append(d, Head(p))) = Range(d) \cup {Head(p)}
  BY <1>2, <1>5, RangeAppend
<1>7. Append(d, Head(p)) \o Tail(p) = d \o p
  BY <1>1, <1>2, PostedTransmit
<1>8. \A e \in Clients : Posted(e)' = Posted(e)
  BY <1>3, <1>4, <1>7 DEF Posted
<1>9. \A e \in Clients : IsInjective(Posted(e))
  BY DEF BroadcastInv, OrderInv
<1>10. delivered' \in [Clients -> Seq(Blocks)]
  BY <1>1, <1>2, <1>6
<1>11. \A e \in Clients : /\ Range(Posted(e)') \subseteq Range(Posted(e))
                          /\ IsInjective(Posted(e)')
                          /\ \A x, y : Before(Posted(e)', x, y) => Before(Posted(e), x, y)
  BY <1>8, <1>9
<1>12. Range(delivered'[c]) \subseteq Range(delivered[c]) \cup {Head(pending[c])}
  BY <1>3, <1>6 DEF d, p
<1> QED
  BY <1>1, <1>2, <1>3, <1>10, <1>11, <1>12, CompleteStep

(* SendFails: Posted loses the message that failed. *)
LEMMA SendFailsStep ==
  ASSUME BroadcastInv, NEW c \in Clients, SendFails(c)
  PROVE  BroadcastInv'
<1> DEFINE d == delivered[c]
           p == pending[c]
<1>1. /\ Complete(c) /\ p # << >> /\ broken' = broken \cup {c} /\ delivered' = delivered
      /\ pending' = [pending EXCEPT ![c] = Tail(p)]
  BY DEF SendFails, Complete
<1>2. /\ d \in Seq(Blocks) /\ p \in Seq(Blocks)
      /\ delivered \in [Clients -> Seq(Blocks)] /\ pending \in [Clients -> Seq(Blocks)]
      /\ broken \subseteq Clients
  BY DEF BroadcastInv, TypeOK
<1>3. pending'[c] = Tail(p) /\ \A e \in Clients : e # c => pending'[e] = pending[e]
  BY <1>1, <1>2
<1>4. Posted(c) = d \o p /\ Posted(c)' = d \o Tail(p)
  BY <1>1, <1>3 DEF Posted
<1>5. \A e \in Clients : IsInjective(Posted(e))
  BY DEF BroadcastInv, OrderInv
<1> HIDE DEF d, p
<1>6. /\ Range(d \o Tail(p)) \subseteq Range(d \o p)
      /\ IsInjective(d \o p) => IsInjective(d \o Tail(p))
      /\ \A x, y : Before(d \o Tail(p), x, y) => Before(d \o p, x, y)
  BY <1>1, <1>2, PostedFail
<1>7. \A e \in Clients : e # c => Posted(e)' = Posted(e)
  BY <1>1, <1>3 DEF Posted
<1>8. \A e \in Clients : /\ Range(Posted(e)') \subseteq Range(Posted(e))
                         /\ IsInjective(Posted(e)')
                         /\ \A x, y : Before(Posted(e)', x, y) => Before(Posted(e), x, y)
  BY <1>4, <1>5, <1>6, <1>7
<1> QED
  BY <1>1, <1>2, <1>8, CompleteStep

------------------------------------------------------------------------------
(* The invariant holds at the start, *)
LEMMA InitInv == Init => BroadcastInv
<1> SUFFICES ASSUME Init PROVE BroadcastInv
  OBVIOUS
<1> USE ClientAssumption, LockAssumption, BoundAssumption DEF Init
<1>1. 0 \in Blocks \cup {0} /\ 0 \notin Blocks /\ \A b \in Blocks : b > 0
  BY BlocksType
<1>2. << >> \in Seq(Clients) /\ << >> \in Seq(Blocks) /\ Range(<< >>) = {} /\ IsInjective(<< >>)
  BY EmptySeq DEF Range, IsInjective
<1>3. TypeOK
  <2>1. Resting \in Jobs
    BY <1>2 DEF Resting, Jobs
  <2>2. worker \in [Workers -> Jobs]
    BY <2>1
  <2> QED
    BY <1>1, <1>2, <2>2 DEF TypeOK
<1>4. \A w \in Workers : /\ worker[w].at = "wait" /\ worker[w].block = 0
                         /\ worker[w].client = NoClient
  BY DEF Resting
<1>5. LockInv /\ WorkerInv /\ LoopInv
  BY <1>4 DEF LockInv, WorkerInv, LoopInv
<1>6. ListInv
  BY <1>2 DEF ListInv
<1>7. ReceiveInv
  BY <1>4 DEF ReceiveInv, Receiving
<1>8. BoundInv
  <2>1. Listened = {} /\ Reposting = {}
    BY <1>4 DEF Listened, Reposting
  <2> QED
    BY <2>1, FS_EmptySet DEF BoundInv
<1>9. \A b \in Blocks : Unsent(b) /\ Outstanding(b) = {}
  BY <1>2, <1>4 DEF Unsent, Outstanding
<1>10. BlockInv
  <2>1. ReadInv /\ TakenInv /\ SendingInv
    BY <1>4 DEF ReadInv, TakenInv, SendingInv
  <2> QED
    BY <1>1, <1>9, <2>1 DEF BlockInv
<1>11. OnceInv
  BY <1>2, <1>4 DEF OnceInv
<1>12. KeptInv
  <2>1. 1 .. allocated = {}
    OBVIOUS
  <2> QED
    BY <2>1 DEF KeptInv
<1>13. CountsSends /\ FreedAfterLastSend
  BY DEF CountsSends, FreedAfterLastSend
<1>14. OrderInv
  <2>1. << >> \o << >> = << >>
    BY <1>2
  <2>2. \A c \in Clients : Posted(c) = << >>
    BY <2>1 DEF Posted
  <2>3. \A x, y : ~ Before(<< >>, x, y)
    BY DEF Before
  <2> QED
    BY <1>2, <1>4, <2>2, <2>3 DEF OrderInv
<1> QED
  BY <1>3, <1>5, <1>6, <1>7, <1>8, <1>10, <1>11, <1>12, <1>13, <1>14 DEF BroadcastInv

(* and every step keeps it. *)
LEMMA NextInv == BroadcastInv /\ [Next]_vars => BroadcastInv'
<1> SUFFICES ASSUME BroadcastInv, [Next]_vars PROVE BroadcastInv'
  OBVIOUS
<1>1. CASE MainStep
  BY <1>1, AcceptStep, ListenStep DEF MainStep
<1>2. CASE KernelStep
  BY <1>2, TransmitStep, SendFailsStep DEF KernelStep
<1>3. ASSUME NEW w \in Workers, WorkerStep(w) PROVE BroadcastInv'
  <2>1. ASSUME NEW c \in Clients,
               TakeMessage(w, c) \/ TakeLeave(w, c) \/ \E b \in Blocks : TakeSent(w, b, c)
        PROVE  BroadcastInv'
    BY <2>1, TakeMessageStep, TakeLeaveStep, TakeSentStep
  <2> QED
    BY <1>3, <2>1, LeaveStep, StartBroadcastStep, SendToNextStep, EndBroadcastStep, RepostStep,
       DecrementStep, TestCountStep DEF WorkerStep
<1>4. CASE UNCHANGED vars
  <2> USE DEF BroadcastInv
  <2>1. UNCHANGED <<clientList, crt, accepting, handle, reading, pending, done, broken, delivered,
                    allocated, block, refCount, refused, worker, messages, fault>>
    BY <1>4 DEF vars, listVars, sendVars, blockVars
  <2>2. TypeOK' /\ LockInv' /\ WorkerInv' /\ ListInv'
    BY <2>1 DEF TypeOK, LockInv, WorkerInv, ListInv
  <2>3. LoopInv' /\ ReceiveInv'
    BY <2>1 DEF LoopInv, ReceiveInv, Receiving
  <2>4. BoundInv'
    BY <2>1 DEF BoundInv, Listened, Reposting
  <2>5. /\ \A x : Outstanding(x)' = Outstanding(x)
        /\ \A x : Unsent(x) => Unsent(x)'
    BY <2>1 DEF Outstanding, Unsent
  <2>6. BlockInv'
    BY <2>1, <2>5 DEF BlockInv, ReadInv, TakenInv, SendingInv
  <2>7. OnceInv' /\ KeptInv' /\ FreedAfterLastSend'
    BY <2>1, <2>5 DEF OnceInv, KeptInv, FreedAfterLastSend
  <2>8. CountsSends'
    BY <2>1, <2>5, CountsKept
  <2>9. OrderInv'
    BY <2>1, OrderKept DEF Posted
  <2> QED
    BY <2>2, <2>3, <2>4, <2>6, <2>7, <2>8, <2>9
<1> QED
  BY <1>1, <1>2, <1>3, <1>4 DEF Next

(* The inductive invariant of the chat server: every message's block is      *)
(* counted, sent in the order of the list and freed by one worker.          *)
THEOREM Invariance == Spec => []BroadcastInv
<1>1. Init => BroadcastInv
  BY InitInv
<1>2. BroadcastInv /\ [Next]_vars => BroadcastInv'
  BY NextInv
<1> QED
  BY <1>1, <1>2, PTL DEF Spec

(* The reference count of a live block is the number of its sends that are   *)
(* still to be counted down, and a block without sends, receive or worker is *)
(* freed unless one of its calls was refused (main.cpp:60-62, 158-176).      *)
THEOREM CountTheorem == Spec => []CountInv
<1>1. BroadcastInv => CountInv
  <2> SUFFICES ASSUME BroadcastInv PROVE LeaksOnlyRefused
    BY DEF BroadcastInv, CountInv
  <2> QED
    BY DEF BroadcastInv, KeptInv, LeaksOnlyRefused
<1> QED
  BY <1>1, Invariance, PTL

(* No block is freed while one of its sends is outstanding. *)
THEOREM FreedAfterLastSendTheorem == Spec => []FreedAfterLastSend
<1>1. BroadcastInv => FreedAfterLastSend
  BY DEF BroadcastInv
<1> QED
  BY <1>1, Invariance, PTL

(* The loop of a broadcast walks a list nobody changes, and the sockets of   *)
(* the clients that are still to come are open.                             *)
THEOREM IterationSafeTheorem == Spec => []IterationSafe
<1>1. BroadcastInv => IterationSafe
  <2> SUFFICES ASSUME BroadcastInv, NEW w \in Workers, worker[w].at = "sending"
               PROVE  /\ IsSuffix(worker[w].todo, clientList)
                      /\ \A c \in Range(worker[w].todo) : handle[c] = "live"
    BY DEF IterationSafe
  <2>1. /\ clientList \in Seq(Clients) /\ worker[w].todo \in Seq(Clients)
        /\ EndsWith(clientList, worker[w].todo)
    BY DEF BroadcastInv, TypeOK, Jobs, LoopInv
  <2>2. IsSuffix(worker[w].todo, clientList) /\ Range(worker[w].todo) \subseteq Range(clientList)
    BY <2>1, EndsWithSuffix
  <2>3. \A c \in Range(clientList) : handle[c] = "live"
    BY DEF BroadcastInv, ListInv
  <2> QED
    BY <2>2, <2>3
<1> QED
  BY <1>1, Invariance, PTL

(* A client leaves once, while it is in the list and nobody else receives    *)
(* for it.                                                                  *)
THEOREM LeavesOnceTheorem == Spec => []LeavesOnce
<1>1. BroadcastInv => LeavesOnce
  <2> SUFFICES ASSUME BroadcastInv, NEW v \in Workers, NEW w \in Workers, worker[w].at = "leave"
               PROVE  LET c == worker[w].client
                      IN  /\ c \in Range(clientList)
                          /\ handle[c] = "live"
                          /\ reading[c] = 0
                          /\ worker[v].client = c /\ v # w => worker[v].at \in {"sent", "test"}
    BY DEF LeavesOnce
  <2>1. Receiving(w)
    BY DEF Receiving
  <2>2. worker[w].client \in Clients
    BY WorkersBlock
  <2>3. /\ handle[worker[w].client] = "live"
        /\ reading[worker[w].client] = 0
    BY <2>1 DEF BroadcastInv, ReceiveInv
  <2>4. worker[w].client \in Range(clientList)
    BY <2>2, <2>3 DEF BroadcastInv, ListInv
  <2>5. ASSUME worker[v].client = worker[w].client, v # w
        PROVE  worker[v].at \in {"sent", "test"}
    <3>1. ~ Receiving(v)
      BY <2>1, <2>5 DEF BroadcastInv, ReceiveInv
    <3>2. worker[v].at # "wait"
      BY <2>2, <2>5, ClientAssumption DEF BroadcastInv, WorkerInv
    <3>3. worker[v].at \in {"wait", "message", "sending", "repost", "leave", "sent", "test"}
      BY DEF BroadcastInv, TypeOK, Jobs
    <3> QED
      BY <3>1, <3>2, <3>3 DEF Receiving
  <2> QED
    BY <2>3, <2>4, <2>5
<1> QED
  BY <1>1, Invariance, PTL

(* Two messages reach all who get both in one order. *)
THEOREM SameOrderTheorem == Spec => []SameOrder
<1>1. BroadcastInv => SameOrder
  <2> SUFFICES ASSUME BroadcastInv, NEW c \in Clients, NEW d \in Clients,
                      NEW i \in DOMAIN delivered[c], NEW j \in DOMAIN delivered[c],
                      NEW k \in DOMAIN delivered[d], NEW l \in DOMAIN delivered[d],
                      delivered[c][i] = delivered[d][k], delivered[c][j] = delivered[d][l]
               PROVE  i < j <=> k < l
    BY DEF SameOrder
  <2> DEFINE x == delivered[c][i]
             y == delivered[c][j]
  <2>1. /\ i \in Nat /\ j \in Nat /\ k \in Nat /\ l \in Nat /\ x \in Blocks /\ y \in Blocks
    <3>1. /\ delivered[c] \in Seq(Blocks) /\ delivered[d] \in Seq(Blocks)
      BY DEF BroadcastInv, TypeOK
    <3>2. /\ DOMAIN delivered[c] = 1 .. Len(delivered[c])
          /\ DOMAIN delivered[d] = 1 .. Len(delivered[d])
      BY <3>1, LenProperties
    <3>3. x \in Blocks /\ y \in Blocks
      BY <3>1, <3>2, ElementOfSeq
    <3> QED
      BY <3>2, <3>3
  <2>2. \A e \in Clients : \A u, v : Before(delivered[e], u, v) => Before(Posted(e), u, v)
    BY PostedType, PostedRange DEF Posted, BroadcastInv
  <2>3. \A e \in Clients : \A m, n \in DOMAIN delivered[e] :
            m # n => delivered[e][m] # delivered[e][n]
    <3>1. \A e \in Clients : IsInjective(delivered[e])
      BY PostedType, PostedRange DEF Posted, BroadcastInv, OrderInv
    <3> QED
      BY <3>1 DEF IsInjective
  <2>4. /\ i < j => Before(Posted(c), x, y)
        /\ j < i => Before(Posted(c), y, x)
        /\ k < l => Before(Posted(d), x, y)
        /\ l < k => Before(Posted(d), y, x)
    BY <2>2 DEF Before
  <2>5. i = j <=> k = l
    BY <2>3
  <2>6. /\ ~ (Before(Posted(c), x, y) /\ Before(Posted(d), y, x))
        /\ ~ (Before(Posted(d), x, y) /\ Before(Posted(c), y, x))
    BY <2>1 DEF BroadcastInv, OrderInv
  <2> HIDE DEF x, y
  <2> QED
    BY <2>1, <2>4, <2>5, <2>6
<1> QED
  BY <1>1, Invariance, PTL
==============================================================================
