------------------------ MODULE InsertionMap_proofs ------------------------
(* What the operators of InsertionMap do to duplicate-free sequences. *)
EXTENDS InsertionMap, SequenceTheorems, TLAPS

\* Cutting one position out of a duplicate-free sequence (the deletion of a
\* Map key) keeps the rest, in order and without duplicates.
LEMMA CutFacts ==
    ASSUME NEW S, NEW s \in Seq(S), Distinct(s), NEW i \in 1 .. Len(s)
    PROVE  /\ Cut(s, i) \in Seq(S)
           /\ Distinct(Cut(s, i))
           /\ \A x : Occurs(Cut(s, i), x) <=> x # s[i] /\ Occurs(s, x)
<1> DEFINE r == Cut(s, i)
<1>1. Len(s) \in Nat /\ Len(s) >= 1
  OBVIOUS
<1>2. r \in Seq(S) /\ Len(r) = Len(s) - 1
      /\ \A j \in 1 .. Len(s) - 1 : r[j] = IF j < i THEN s[j] ELSE s[j + 1]
  BY <1>1 DEF Cut
<1>3. Distinct(r)
  <2> SUFFICES ASSUME NEW j \in 1 .. Len(r), NEW m \in 1 .. Len(r), r[j] = r[m]
               PROVE  j = m
    BY DEF Distinct
  <2> DEFINE f(n) == IF n < i THEN n ELSE n + 1
  <2>1. r[j] = s[f(j)] /\ r[m] = s[f(m)] /\ f(j) \in 1 .. Len(s) /\ f(m) \in 1 .. Len(s)
    BY <1>1, <1>2
  <2>2. f(j) = f(m)
    BY <2>1 DEF Distinct
  <2> QED
    BY <2>2, <1>1, <1>2
<1>4. ASSUME NEW j \in 1 .. Len(r)
      PROVE  r[j] # s[i] /\ \E m \in 1 .. Len(s) : s[m] = r[j]
  <2> DEFINE f == IF j < i THEN j ELSE j + 1
  <2>1. f \in 1 .. Len(s) /\ f # i /\ r[j] = s[f]
    BY <1>1, <1>2
  <2> QED
    BY <2>1 DEF Distinct
<1>5. ASSUME NEW m \in 1 .. Len(s), s[m] # s[i]
      PROVE  \E j \in 1 .. Len(r) : r[j] = s[m]
  <2> DEFINE f == IF m < i THEN m ELSE m - 1
  <2>1. m # i
    BY <1>5
  <2>2. f \in 1 .. Len(r) /\ r[f] = s[m]
    BY <2>1, <1>1, <1>2
  <2> QED
    BY <2>2
<1>6. ASSUME NEW x PROVE Occurs(r, x) <=> x # s[i] /\ Occurs(s, x)
  BY <1>4, <1>5 DEF Occurs
<1> QED
  BY <1>2, <1>3, <1>6

\* Map.delete removes exactly the key.
LEMMA DeleteFacts ==
    ASSUME NEW S, NEW s \in Seq(S), Distinct(s), NEW k
    PROVE  /\ Delete(s, k) \in Seq(S)
           /\ Distinct(Delete(s, k))
           /\ \A x : Occurs(Delete(s, k), x) <=> x # k /\ Occurs(s, x)
<1>1. CASE Occurs(s, k)
  <2> DEFINE i == CHOOSE i \in 1 .. Len(s) : s[i] = k
  <2>1. i \in 1 .. Len(s) /\ s[i] = k
    BY <1>1 DEF Occurs
  <2>2. Delete(s, k) = Cut(s, i)
    BY <1>1 DEF Delete
  <2> HIDE DEF i
  <2>3. /\ Cut(s, i) \in Seq(S)
        /\ Distinct(Cut(s, i))
        /\ \A x : Occurs(Cut(s, i), x) <=> x # s[i] /\ Occurs(s, x)
    BY <2>1, CutFacts, Zenon
  <2> QED
    BY <2>1, <2>2, <2>3, Zenon
<1>2. CASE ~ Occurs(s, k)
  <2>1. Delete(s, k) = s
    BY <1>2 DEF Delete
  <2> QED
    BY <1>2, <2>1
<1> QED
  BY <1>1, <1>2

\* Map.set adds exactly the key, at the end if it is new.
LEMMA SetFacts ==
    ASSUME NEW S, NEW s \in Seq(S), Distinct(s), NEW k \in S
    PROVE  /\ Set(s, k) \in Seq(S)
           /\ Distinct(Set(s, k))
           /\ \A x : Occurs(Set(s, k), x) <=> x = k \/ Occurs(s, x)
<1>1. CASE Occurs(s, k)
  BY <1>1 DEF Set, Occurs
<1>2. CASE ~ Occurs(s, k)
  <2> DEFINE r == Append(s, k)
  <2>1. Set(s, k) = r
    BY <1>2 DEF Set
  <2>2. /\ r \in Seq(S) /\ Len(r) = Len(s) + 1 /\ r[Len(s) + 1] = k
        /\ \A j \in 1 .. Len(s) : r[j] = s[j]
    OBVIOUS
  <2>3. Len(s) \in Nat
    OBVIOUS
  <2>4. Distinct(r)
    BY <1>2, <2>2, <2>3 DEF Distinct, Occurs
  <2>5. \A j \in 1 .. Len(r) : r[j] = k \/ \E m \in 1 .. Len(s) : s[m] = r[j]
    BY <2>2, <2>3
  <2>6. \A m \in 1 .. Len(s) : m \in 1 .. Len(r) /\ r[m] = s[m]
    BY <2>2, <2>3
  <2>7. Len(s) + 1 \in 1 .. Len(r)
    BY <2>2, <2>3
  <2> QED
    BY <2>1, <2>2, <2>4, <2>5, <2>6, <2>7 DEF Occurs
<1> QED
  BY <1>1, <1>2

\* What Tail does to a non-empty sequence.
LEMMA TailFacts ==
    ASSUME NEW S, NEW s \in Seq(S), s # <<>>
    PROVE  /\ Head(s) \in S /\ Head(s) = s[1]
           /\ Tail(s) \in Seq(S) /\ Len(Tail(s)) = Len(s) - 1
           /\ Len(s) \in Nat /\ Len(s) >= 1
           /\ \A j \in 1 .. Len(s) - 1 : Tail(s)[j] = s[j + 1]
  OBVIOUS

\* Appending does not change the head of a chain that has one.
LEMMA AppendFacts ==
    ASSUME NEW S, NEW s \in Seq(S), NEW x \in S, s # <<>>
    PROVE  Append(s, x) # <<>> /\ Head(Append(s, x)) = Head(s)
<1>1. Len(s) \in Nat /\ Len(s) # 0
  OBVIOUS
<1>2. Append(s, x)[1] = s[1] /\ Len(Append(s, x)) = Len(s) + 1
  BY <1>1
<1> QED
  BY <1>1, <1>2

\* Map.delete and then Map.set: the key moves to the end.
LEMMA RequeueFacts ==
    ASSUME NEW S, NEW s \in Seq(S), Distinct(s), NEW k \in S
    PROVE  /\ Append(Delete(s, k), k) \in Seq(S)
           /\ Distinct(Append(Delete(s, k), k))
           /\ \A x : Occurs(Append(Delete(s, k), k), x) <=> x = k \/ Occurs(s, x)
<1> DEFINE r == Delete(s, k)
<1>1. r \in Seq(S) /\ Distinct(r) /\ \A x : Occurs(r, x) <=> x # k /\ Occurs(s, x)
  BY DeleteFacts
<1>2. Set(r, k) = Append(r, k)
  BY <1>1 DEF Set
<1> HIDE DEF r
<1>3. /\ Set(r, k) \in Seq(S) /\ Distinct(Set(r, k))
      /\ \A x : Occurs(Set(r, k), x) <=> x = k \/ Occurs(r, x)
  BY <1>1, SetFacts, Zenon
<1>4. \A x : x = k \/ Occurs(r, x) <=> x = k \/ Occurs(s, x)
  BY <1>1
<1> QED
  BY <1>2, <1>3, <1>4 DEF r

\* Array.shift: the first key goes, the others stay in order.
LEMMA PopFacts ==
    ASSUME NEW S, NEW s \in Seq(S), Distinct(s), s # <<>>
    PROVE  /\ Tail(s) \in Seq(S) /\ Distinct(Tail(s))
           /\ \A x : Occurs(Tail(s), x) <=> x # Head(s) /\ Occurs(s, x)
<1>1. /\ Head(s) = s[1] /\ Tail(s) \in Seq(S) /\ Len(Tail(s)) = Len(s) - 1
      /\ Len(s) \in Nat /\ Len(s) >= 1
      /\ \A j \in 1 .. Len(s) - 1 : Tail(s)[j] = s[j + 1]
  BY TailFacts
<1>2. 1 \in 1 .. Len(s)
  BY <1>1
<1>3. /\ Cut(s, 1) \in Seq(S) /\ Distinct(Cut(s, 1))
      /\ \A x : Occurs(Cut(s, 1), x) <=> x # s[1] /\ Occurs(s, x)
  BY <1>2, CutFacts, Zenon
<1>4. Len(Cut(s, 1)) = Len(s) - 1 /\ \A j \in 1 .. Len(s) - 1 : Cut(s, 1)[j] = s[j + 1]
  BY <1>1 DEF Cut
<1>5. Tail(s) = Cut(s, 1)
  BY <1>1, <1>3, <1>4, SeqEqual
<1> QED
  BY <1>1, <1>3, <1>5, Zenon
=============================================================================
