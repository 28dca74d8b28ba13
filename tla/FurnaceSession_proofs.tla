------------------------ MODULE FurnaceSession_proofs ------------------------
(***************************************************************************)
(* The furnace session for every inventory, every pack of stacks, every    *)
(* cooking and burning time and every number of ticks in a frame: items    *)
(* are conserved, fuel pays for every cook, experience is given once, and  *)
(* no screen stays open over a station that has gone.                      *)
(*                                                                         *)
(* The first three have one inductive invariant, SessionInv: the types,    *)
(* the books of the four items, and the two accounts of heat and points.   *)
(* Every step either only moves items (Moved) or is a tick that cooks.     *)
(***************************************************************************)
EXTENDS FurnaceSession, SequenceTheorems, WellFoundedInduction, TLAPS

-----------------------------------------------------------------------------
(* Folds along finite sets and sequences. *)

\* Induction over the natural numbers, with a set for the property.
LEMMA SetInduction ==
    ASSUME NEW S, 0 \in S, \A n \in Nat : n \in S => n + 1 \in S
    PROVE  \A n \in Nat : n \in S
<1> DEFINE R == {ss \in Nat \X Nat : ss[1] < ss[2]}
<1> DEFINE T == {n \in Nat : n \notin S}
<1>1. SUFFICES ASSUME T # {} PROVE FALSE
  OBVIOUS
<1>2. IsWellFoundedOn(R, Nat)
  BY NatLessThanWellFounded DEF OpToRel
<1>3. \A x, y \in Nat : y < x => <<y, x>> \in R
  OBVIOUS
<1> HIDE DEF R
<1>4. PICK x \in T : \A y \in T : ~ (<<y, x>> \in R)
  <2> T \subseteq Nat
    OBVIOUS
  <2> HIDE DEF T
  <2> QED BY <1>1, <1>2, WFMin, Zenon
<1>5. x # 0 /\ x - 1 \in Nat /\ x - 1 < x
  OBVIOUS
<1>6. x - 1 \notin T
  BY <1>3, <1>4, <1>5
<1> QED BY <1>5, <1>6

\* The community modules fold a set from its greatest member down.
LEMMA MaxFacts ==
    ASSUME NEW n \in Nat, NEW s \in SUBSET (1 .. n), s # {}
    PROVE  Max(s) \in s /\ \A x \in s : x <= Max(s)
<1> DEFINE K == {k \in Nat : \A r \in SUBSET (1 .. k) : r # {} => \E x \in r : \A y \in r : x >= y}
<1>1. 0 \in K
  <2>1. 1 .. 0 = {}
    OBVIOUS
  <2> QED
    BY <2>1
<1>2. ASSUME NEW k \in Nat, k \in K PROVE k + 1 \in K
  <2> SUFFICES ASSUME NEW r \in SUBSET (1 .. k + 1), r # {}
               PROVE  \E x \in r : \A y \in r : x >= y
    OBVIOUS
  <2>1. CASE k + 1 \in r
    BY <2>1
  <2>2. CASE k + 1 \notin r
    <3>1. r \in SUBSET (1 .. k)
      BY <2>2
    <3> QED
      BY <1>2, <3>1
  <2> QED
    BY <2>1, <2>2
<1> HIDE DEF K
<1>3. n \in K
  BY <1>1, <1>2, SetInduction
<1>4. \E x \in s : \A y \in s : x >= y
  BY <1>3 DEF K
<1> QED
  BY <1>4 DEF Max

\* Induction over the sets of numbers along that order.
LEMMA SubsetInduction ==
    ASSUME NEW n \in Nat, NEW P, {} \in P,
           \A s \in SUBSET (1 .. n) : s # {} /\ s \ {Max(s)} \in P => s \in P
    PROVE  \A s \in SUBSET (1 .. n) : s \in P
<1> DEFINE K == {k \in Nat : \A s \in SUBSET (1 .. n) : s \subseteq 1 .. k => s \in P}
<1>1. 0 \in K
  <2>1. \A s : s \subseteq 1 .. 0 => s = {}
    OBVIOUS
  <2> QED
    BY <2>1
<1>2. ASSUME NEW k \in Nat, k \in K PROVE k + 1 \in K
  <2> SUFFICES ASSUME NEW s \in SUBSET (1 .. n), s \subseteq 1 .. k + 1, s # {} PROVE s \in P
    OBVIOUS
  <2>1. Max(s) \in s /\ \A x \in s : x <= Max(s)
    BY MaxFacts
  <2>2. ASSUME NEW x \in s \ {Max(s)} PROVE x \in 1 .. k
    <3>1. x \in 1 .. k + 1 /\ Max(s) \in 1 .. k + 1 /\ x <= Max(s) /\ x # Max(s)
      BY <2>1
    <3> QED
      BY <3>1
  <2>3. s \ {Max(s)} \in P
    BY <1>2, <2>2
  <2> QED
    BY <2>3
<1> HIDE DEF K
<1>3. n \in K
  BY <1>1, <1>2, SetInduction
<1> QED
  BY <1>3 DEF K

\* A fold of step along 1 .. k, as the community modules define it.
FoldOf(f, step, m, k) ==
    \A s \in SUBSET (1 .. k) :
        f[s] = IF s = {} THEN m ELSE step[<<f[s \ {Max(s)}], Max(s)>>]

\* There is a fold of step along 1 .. k.
LEMMA FoldExists ==
    ASSUME NEW n \in Nat, NEW M, NEW m \in M, NEW step \in [M \X (1 .. n) -> M]
    PROVE  \E f \in [SUBSET (1 .. n) -> M] : FoldOf(f, step, m, n)
<1> DEFINE Q(k) == k <= n => \E f \in [SUBSET (1 .. k) -> M] : FoldOf(f, step, m, k)
           K == {k \in Nat : Q(k)}
<1> HIDE DEF Q
<1>1. 0 \in K
  <2> DEFINE f == [s \in SUBSET (1 .. 0) |-> m]
  <2>1. 1 .. 0 = {}
    OBVIOUS
  <2>2. f \in [SUBSET (1 .. 0) -> M] /\ FoldOf(f, step, m, 0)
    BY <2>1 DEF FoldOf
  <2>3. Q(0)
    BY <2>2 DEF Q
  <2> QED
    BY <2>3
<1>2. ASSUME NEW k \in Nat, k \in K PROVE k + 1 \in K
  <2>q. Q(k) /\ (Q(k + 1) => k + 1 \in K)
    BY <1>2
  <2> SUFFICES ASSUME k + 1 <= n
               PROVE  \E f \in [SUBSET (1 .. k + 1) -> M] : FoldOf(f, step, m, k + 1)
    BY <2>q DEF Q
  <2>k. k <= n
    OBVIOUS
  <2>1. PICK g \in [SUBSET (1 .. k) -> M] : FoldOf(g, step, m, k)
    BY <2>q, <2>k DEF Q
  <2> DEFINE f == [s \in SUBSET (1 .. k + 1) |->
                      IF k + 1 \in s THEN step[<<g[s \ {k + 1}], k + 1>>] ELSE g[s]]
  <2>2. ASSUME NEW s \in SUBSET (1 .. k + 1)
        PROVE  f[s] \in M /\ f[s] = IF s = {} THEN m ELSE step[<<f[s \ {Max(s)}], Max(s)>>]
    <3>1. CASE k + 1 \in s
      <4>1. Max(s) \in s /\ \A x \in s : x <= Max(s)
        <5>1. k + 1 \in Nat /\ s # {}
          BY <3>1
        <5> QED
          BY <5>1, MaxFacts
      <4>2. Max(s) = k + 1
        <5>1. Max(s) \in 1 .. k + 1 /\ k + 1 <= Max(s)
          BY <3>1, <4>1
        <5> QED
          BY <5>1
      <4>3. s \ {k + 1} \in SUBSET (1 .. k) /\ k + 1 \in 1 .. n
        OBVIOUS
      <4>4. f[s \ {k + 1}] = g[s \ {k + 1}] /\ g[s \ {k + 1}] \in M
        BY <4>3
      <4>5. f[s] = step[<<g[s \ {k + 1}], k + 1>>]
        BY <3>1
      <4>6. f[s] \in M
        BY <4>3, <4>4, <4>5
      <4> HIDE DEF f
      <4> QED
        BY <3>1, <4>2, <4>4, <4>5, <4>6
    <3>2. CASE k + 1 \notin s
      <4>1. s \in SUBSET (1 .. k)
        BY <3>2
      <4>2. f[s] = g[s] /\ g[s] \in M
        BY <3>2, <4>1
      <4>3. CASE s = {}
        BY <2>1, <4>1, <4>2, <4>3 DEF FoldOf
      <4>4. CASE s # {}
        <5>1. Max(s) \in s
          BY <4>1, <4>4, MaxFacts
        <5>2. s \ {Max(s)} \in SUBSET (1 .. k) /\ k + 1 \notin s \ {Max(s)}
          BY <3>2, <4>1
        <5>3. f[s \ {Max(s)}] = g[s \ {Max(s)}]
          BY <5>2
        <5> HIDE DEF f
        <5> QED
          BY <2>1, <4>1, <4>2, <4>4, <5>3 DEF FoldOf
      <4> QED
        BY <4>3, <4>4
    <3> QED
      BY <3>1, <3>2
  <2>3. f \in [SUBSET (1 .. k + 1) -> M]
    BY <2>2
  <2> HIDE DEF f
  <2>4. FoldOf(f, step, m, k + 1)
    BY <2>2 DEF FoldOf
  <2> QED
    BY <2>3, <2>4
<1>3. n \in K
  <2> HIDE DEF K
  <2> QED
    BY <1>1, <1>2, SetInduction
<1>4. Q(n) /\ n <= n
  BY <1>3
<1> QED
  BY <1>4 DEF Q

\* What a fold keeps, whatever it keeps.
LEMMA FoldMember ==
    ASSUME NEW n \in Nat, NEW M, NEW f, f[{}] \in M,
           \A s \in SUBSET (1 .. n) : s # {} /\ f[s \ {Max(s)}] \in M => f[s] \in M
    PROVE  f[1 .. n] \in M
<1> DEFINE P == {s \in SUBSET (1 .. n) : f[s] \in M}
<1>1. {} \in P /\ \A s \in SUBSET (1 .. n) : s # {} /\ s \ {Max(s)} \in P => s \in P
  OBVIOUS
<1> HIDE DEF P
<1>2. 1 .. n \in P
  BY <1>1, SubsetInduction
<1> QED
  BY <1>2 DEF P

\* A fold of step along the sequence t, and what it keeps.
LEMMA FoldFacts ==
    ASSUME NEW T, NEW t \in Seq(T), NEW M, NEW m \in M, NEW step \in [M \X T -> M]
    PROVE  /\ \E f \in [SUBSET DOMAIN t -> M] : \A s \in SUBSET DOMAIN t :
                 f[s] = IF s = {} THEN m ELSE step[<<f[s \ {Max(s)}], t[Max(s)]>>]
           /\ \A s \in SUBSET DOMAIN t : s # {} => t[Max(s)] \in T
           /\ \A f : f[{}] \in M /\ (\A s \in SUBSET DOMAIN t :
                        s # {} /\ f[s \ {Max(s)}] \in M => f[s] \in M) => f[DOMAIN t] \in M
<1> DEFINE n == Len(t)
           along == [p \in M \X (1 .. n) |-> step[<<p[1], t[p[2]]>>]]
<1>1. n \in Nat /\ DOMAIN t = 1 .. n /\ \A k \in 1 .. n : t[k] \in T
  OBVIOUS
<1>2. along \in [M \X (1 .. n) -> M]
  BY <1>1
<1> HIDE DEF n
<1>3. \A s \in SUBSET (1 .. n) : s # {} => Max(s) \in 1 .. n
  BY <1>1, MaxFacts
<1>4. \E f \in [SUBSET (1 .. n) -> M] : \A s \in SUBSET (1 .. n) :
         f[s] = IF s = {} THEN m ELSE step[<<f[s \ {Max(s)}], t[Max(s)]>>]
  <2> HIDE DEF along
  <2>1. PICK f \in [SUBSET (1 .. n) -> M] : FoldOf(f, along, m, n)
    BY <1>1, <1>2, FoldExists
  <2>2. \A s \in SUBSET (1 .. n) : s # {} =>
           along[<<f[s \ {Max(s)}], Max(s)>>] = step[<<f[s \ {Max(s)}], t[Max(s)]>>]
    BY <1>3 DEF along
  <2>3. \A s \in SUBSET (1 .. n) :
           f[s] = IF s = {} THEN m ELSE step[<<f[s \ {Max(s)}], t[Max(s)]>>]
    BY <2>1, <2>2 DEF FoldOf
  <2> QED
    BY <2>3
<1>5. ASSUME NEW f, f[{}] \in M,
             \A s \in SUBSET (1 .. n) : s # {} /\ f[s \ {Max(s)}] \in M => f[s] \in M
      PROVE  f[1 .. n] \in M
  BY <1>1, <1>5, FoldMember
<1> QED
  BY <1>1, <1>3, <1>4, <1>5

\* A merge into the slots S is one of M when every single merge stays in M.
LEMMA MergedIn ==
    ASSUME NEW T, NEW t \in Seq(T), NEW M, NEW m \in M, NEW i,
           \A x \in M, j \in T : MergeInto(x, i, j) \in M
    PROVE  Merged(m, i, t) \in M
<1> DEFINE Eq(f) == f = [s \in SUBSET DOMAIN t |->
                            IF s = {} THEN m ELSE MergeInto(f[s \ {Max(s)}], i, t[Max(s)])]
           step == [p \in M \X T |-> MergeInto(p[1], i, p[2])]
<1>1. step \in [M \X T -> M] /\ \A x \in M, j \in T : step[<<x, j>>] = MergeInto(x, i, j)
  OBVIOUS
<1> HIDE DEF step
<1>2. /\ \E f \in [SUBSET DOMAIN t -> M] : \A s \in SUBSET DOMAIN t :
            f[s] = IF s = {} THEN m ELSE step[<<f[s \ {Max(s)}], t[Max(s)]>>]
      /\ \A s \in SUBSET DOMAIN t : s # {} => t[Max(s)] \in T
      /\ \A f : f[{}] \in M /\ (\A s \in SUBSET DOMAIN t :
                   s # {} /\ f[s \ {Max(s)}] \in M => f[s] \in M) => f[DOMAIN t] \in M
  BY <1>1, FoldFacts
<1>3. \E f : Eq(f)
  <2>1. PICK f \in [SUBSET DOMAIN t -> M] : \A s \in SUBSET DOMAIN t :
           f[s] = IF s = {} THEN m ELSE step[<<f[s \ {Max(s)}], t[Max(s)]>>]
    BY <1>2
  <2>2. \A s \in SUBSET DOMAIN t : s # {} =>
           step[<<f[s \ {Max(s)}], t[Max(s)]>>] = MergeInto(f[s \ {Max(s)}], i, t[Max(s)])
    BY <1>1, <1>2
  <2>3. Eq(f)
    BY <2>1, <2>2
  <2> QED
    BY <2>3
<1>4. \A f : Eq(f) => f[DOMAIN t] \in M
  BY <1>2
<1>5. (CHOOSE f : Eq(f))[DOMAIN t] \in M
  <2> HIDE DEF Eq
  <2> QED
    BY <1>3, <1>4
<1> QED
  BY <1>5 DEF Merged, FoldLeft, MapThenFoldSet

-----------------------------------------------------------------------------
(* What a sequence of stacks holds of an item. *)

\* What a stack holds of the item i.
Of(i, s) == IF s.item = i THEN s.count ELSE 0

\* Anything a slot of any kind can be.
Slots == [item : Items \cup {"none"}, count : Nat, rich : BOOLEAN]

\* A stack holds a natural number of any item.
LEMMA OfNat == ASSUME NEW i, NEW s \in Slots PROVE Of(i, s) \in Nat
  BY DEF Of, Slots

\* Sum is the running total of the stacks, and the only one.
LEMMA SumIs ==
    ASSUME NEW i, NEW s \in Seq(Slots), NEW f \in [0 .. Len(s) -> Nat], f[0] = 0,
           \A k \in 1 .. Len(s) : f[k] = f[k - 1] + Of(i, s[k])
    PROVE  Sum(i, s) = f[Len(s)]
<1> DEFINE Eq(g) == g = [k \in 0 .. Len(s) |->
                            IF k = 0 THEN 0
                            ELSE g[k - 1] + (IF s[k].item = i THEN s[k].count ELSE 0)]
           g == CHOOSE g : Eq(g)
<1>1. Len(s) \in Nat
  OBVIOUS
<1>2. Eq(f)
  BY <1>1 DEF Of
<1>3. Eq(g)
  <2> HIDE DEF Eq
  <2> QED
    BY <1>2
<1>4. Sum(i, s) = g[Len(s)]
  BY DEF Sum
<1> HIDE DEF g
<1> DEFINE K == {k \in Nat : k <= Len(s) => g[k] = f[k]}
<1>5. 0 \in K
  BY <1>1, <1>3
<1>6. ASSUME NEW k \in Nat, k \in K PROVE k + 1 \in K
  <2>1. ASSUME k + 1 <= Len(s) PROVE g[k + 1] = f[k + 1]
    <3>1. k + 1 \in 0 .. Len(s) /\ k + 1 # 0 /\ (k + 1) - 1 = k /\ k <= Len(s)
          /\ k + 1 \in 1 .. Len(s)
      BY <1>1, <2>1
    <3>2. g[k + 1] = g[k] + Of(i, s[k + 1])
      BY <1>3, <3>1 DEF Of
    <3> QED
      BY <1>6, <3>1, <3>2
  <2> QED
    BY <2>1
<1>7. Len(s) \in K
  <2> HIDE DEF K
  <2> QED
    BY <1>1, <1>5, <1>6, SetInduction
<1> QED
  BY <1>1, <1>4, <1>7

\* There is such a running total.
LEMMA RunningTotal ==
    ASSUME NEW i, NEW s \in Seq(Slots)
    PROVE  \E f \in [0 .. Len(s) -> Nat] :
              /\ f[0] = 0 /\ \A k \in 1 .. Len(s) : f[k] = f[k - 1] + Of(i, s[k])
              /\ Sum(i, s) = f[Len(s)]
<1> DEFINE Q(n) == n <= Len(s) => \E f \in [0 .. n -> Nat] :
              f[0] = 0 /\ \A k \in 1 .. n : f[k] = f[k - 1] + Of(i, s[k])
           K == {n \in Nat : Q(n)}
<1>1. Len(s) \in Nat /\ \A k \in 1 .. Len(s) : Of(i, s[k]) \in Nat
  BY OfNat
<1> HIDE DEF Q
<1>2. 0 \in K
  <2> DEFINE f == [k \in 0 .. 0 |-> 0]
  <2>1. f \in [0 .. 0 -> Nat] /\ f[0] = 0 /\ \A k \in 1 .. 0 : f[k] = f[k - 1] + Of(i, s[k])
    OBVIOUS
  <2>2. Q(0)
    BY <2>1 DEF Q
  <2> QED
    BY <2>2
<1>3. ASSUME NEW n \in Nat, n \in K PROVE n + 1 \in K
  <2>1. ASSUME n + 1 <= Len(s)
        PROVE  \E f \in [0 .. n + 1 -> Nat] :
                  f[0] = 0 /\ \A k \in 1 .. n + 1 : f[k] = f[k - 1] + Of(i, s[k])
    <3>1. Q(n) /\ n <= Len(s)
      BY <1>1, <1>3, <2>1
    <3>2. PICK g \in [0 .. n -> Nat] : g[0] = 0 /\ \A k \in 1 .. n : g[k] = g[k - 1] + Of(i, s[k])
      BY <3>1 DEF Q
    <3> DEFINE w == Of(i, s[n + 1])
               f == [k \in 0 .. n + 1 |-> IF k = n + 1 THEN g[n] + w ELSE g[k]]
    <3>3. w \in Nat
      BY <1>1, <2>1
    <3> HIDE DEF w
    <3>4. f \in [0 .. n + 1 -> Nat] /\ f[0] = 0
      BY <3>2, <3>3
    <3>5. ASSUME NEW k \in 1 .. n + 1 PROVE f[k] = f[k - 1] + Of(i, s[k])
      <4>1. CASE k = n + 1
        <5>1. k - 1 = n /\ f[k] = g[n] + w /\ f[n] = g[n]
          BY <4>1
        <5> QED
          BY <4>1, <5>1 DEF w
      <4>2. CASE k # n + 1
        <5>1. k \in 1 .. n /\ k - 1 \in 0 .. n + 1 /\ k - 1 # n + 1 /\ k \in 0 .. n + 1
          BY <4>2
        <5>2. f[k] = g[k] /\ f[k - 1] = g[k - 1]
          BY <5>1
        <5> QED
          BY <3>2, <5>1, <5>2
      <4> QED
        BY <4>1, <4>2
    <3> HIDE DEF f
    <3> QED
      BY <3>4, <3>5
  <2>2. Q(n + 1)
    BY <2>1 DEF Q
  <2> QED
    BY <2>2
<1>4. Len(s) \in K
  <2> HIDE DEF K
  <2> QED
    BY <1>1, <1>2, <1>3, SetInduction
<1>5. Q(Len(s)) /\ Len(s) <= Len(s)
  BY <1>1, <1>4
<1>6. PICK f \in [0 .. Len(s) -> Nat] :
         f[0] = 0 /\ \A k \in 1 .. Len(s) : f[k] = f[k - 1] + Of(i, s[k])
  BY <1>5 DEF Q
<1> QED
  BY <1>6, SumIs

\* So do stacks.
LEMMA SumNat == ASSUME NEW i, NEW s \in Seq(Slots) PROVE Sum(i, s) \in Nat
<1>1. Len(s) \in Nat
  OBVIOUS
<1> QED
  BY <1>1, RunningTotal

\* Stacks that hold the same are the same to Sum.
LEMMA SumAlike ==
    ASSUME NEW i, NEW s \in Seq(Slots), NEW t \in Seq(Slots), Len(s) = Len(t),
           \A k \in 1 .. Len(s) : Of(i, s[k]) = Of(i, t[k])
    PROVE  Sum(i, s) = Sum(i, t)
<1>1. PICK f \in [0 .. Len(s) -> Nat] :
         /\ f[0] = 0 /\ \A k \in 1 .. Len(s) : f[k] = f[k - 1] + Of(i, s[k])
         /\ Sum(i, s) = f[Len(s)]
  BY RunningTotal
<1>2. \A k \in 1 .. Len(t) : f[k] = f[k - 1] + Of(i, t[k])
  BY <1>1
<1>3. Sum(i, t) = f[Len(t)]
  BY <1>1, <1>2, SumIs
<1> QED
  BY <1>1, <1>3

\* One stack changes.
LEMMA SumExcept ==
    ASSUME NEW i, NEW s \in Seq(Slots), NEW j \in 1 .. Len(s), NEW x \in Slots
    PROVE  /\ [s EXCEPT ![j] = x] \in Seq(Slots)
           /\ Sum(i, [s EXCEPT ![j] = x]) = Sum(i, s) - Of(i, s[j]) + Of(i, x)
<1> DEFINE t == [s EXCEPT ![j] = x]
<1>1. /\ t \in Seq(Slots) /\ Len(t) = Len(s) /\ t[j] = x
      /\ \A k \in 1 .. Len(s) : k # j => t[k] = s[k]
  OBVIOUS
<1> HIDE DEF t
<1>2. PICK f \in [0 .. Len(s) -> Nat] :
         /\ f[0] = 0 /\ \A k \in 1 .. Len(s) : f[k] = f[k - 1] + Of(i, s[k])
         /\ Sum(i, s) = f[Len(s)]
  BY RunningTotal
<1>3. Of(i, x) \in Nat /\ Of(i, s[j]) \in Nat /\ Len(s) \in Nat
  BY OfNat
<1> DEFINE K == {k \in Nat : k >= j /\ k <= Len(s) => f[k] >= Of(i, s[j])}
           g == [k \in 0 .. Len(s) |-> IF k >= j THEN f[k] - Of(i, s[j]) + Of(i, x) ELSE f[k]]
<1>4. 0 \in K
  OBVIOUS
<1>5. ASSUME NEW k \in Nat, k \in K PROVE k + 1 \in K
  <2>1. ASSUME k + 1 >= j, k + 1 <= Len(s) PROVE f[k + 1] >= Of(i, s[j])
    <3>1. k + 1 \in 1 .. Len(s) /\ (k + 1) - 1 = k /\ f[k] \in Nat
      BY <1>3, <2>1
    <3>2. f[k + 1] = f[k] + Of(i, s[k + 1]) /\ Of(i, s[k + 1]) \in Nat
      BY <1>2, <3>1, OfNat
    <3>3. k >= j => f[k] >= Of(i, s[j])
      BY <1>5, <2>1, <1>3
    <3> QED
      BY <1>3, <2>1, <3>1, <3>2, <3>3
  <2> QED
    BY <2>1
<1>6. \A k \in Nat : k \in K
  <2> HIDE DEF K
  <2> QED
    BY <1>4, <1>5, SetInduction
<1>7. \A k \in 0 .. Len(s) : k >= j => f[k] - Of(i, s[j]) + Of(i, x) \in Nat
  BY <1>3, <1>6
<1>8. g \in [0 .. Len(t) -> Nat] /\ g[0] = 0
  BY <1>1, <1>2, <1>3, <1>7
<1>9. ASSUME NEW k \in 1 .. Len(t) PROVE g[k] = g[k - 1] + Of(i, t[k])
  <2>1. k \in 1 .. Len(s) /\ k - 1 \in 0 .. Len(s) /\ k \in 0 .. Len(s)
    BY <1>1, <1>3
  <2>2. f[k] = f[k - 1] + Of(i, s[k]) /\ f[k] \in Nat /\ f[k - 1] \in Nat /\ Of(i, s[k]) \in Nat
    <3>1. s[k] \in Slots
      BY <2>1
    <3>2. Of(i, s[k]) \in Nat
      BY <3>1, OfNat
    <3> QED
      BY <1>2, <2>1, <3>2
  <2>3. CASE k < j
    BY <1>1, <2>1, <2>2, <2>3
  <2>4. CASE k = j
    <3>1. g[k] = f[k] - Of(i, s[j]) + Of(i, x) /\ g[k - 1] = f[k - 1]
      BY <2>1, <2>4
    <3> QED
      BY <1>1, <1>3, <2>2, <2>4, <3>1
  <2>5. CASE k > j
    <3>1. g[k] = f[k] - Of(i, s[j]) + Of(i, x) /\ g[k - 1] = f[k - 1] - Of(i, s[j]) + Of(i, x)
      BY <2>1, <2>5
    <3> QED
      BY <1>1, <1>3, <2>1, <2>2, <2>5, <3>1
  <2> QED
    BY <2>1, <2>3, <2>4, <2>5
<1> HIDE DEF g
<1>10. Sum(i, t) = g[Len(t)]
  BY <1>1, <1>8, <1>9, SumIs
<1>11. g[Len(s)] = f[Len(s)] - Of(i, s[j]) + Of(i, x)
  BY <1>3 DEF g
<1> QED
  BY <1>1, <1>2, <1>10, <1>11 DEF t

\* What two sequences of stacks hold together.
LEMMA SumConcat ==
    ASSUME NEW i, NEW s \in Seq(Slots), NEW t \in Seq(Slots)
    PROVE  s \o t \in Seq(Slots) /\ Sum(i, s \o t) = Sum(i, s) + Sum(i, t)
<1> DEFINE r == s \o t
           m == Len(s)
           n == Len(t)
<1>1. /\ m \in Nat /\ n \in Nat /\ r \in Seq(Slots) /\ Len(r) = m + n
      /\ \A k \in 1 .. m : r[k] = s[k]
      /\ \A k \in m + 1 .. m + n : r[k] = t[k - m]
  OBVIOUS
<1>2. PICK f \in [0 .. m -> Nat] :
         /\ f[0] = 0 /\ \A k \in 1 .. m : f[k] = f[k - 1] + Of(i, s[k])
         /\ Sum(i, s) = f[m]
  BY RunningTotal
<1>3. PICK g \in [0 .. n -> Nat] :
         /\ g[0] = 0 /\ \A k \in 1 .. n : g[k] = g[k - 1] + Of(i, t[k])
         /\ Sum(i, t) = g[n]
  BY RunningTotal
<1> HIDE DEF r, m, n
<1> DEFINE h == [k \in 0 .. m + n |-> IF k <= m THEN f[k] ELSE f[m] + g[k - m]]
<1>4. h \in [0 .. m + n -> Nat] /\ h[0] = 0
  <2>1. ASSUME NEW k \in 0 .. m + n PROVE h[k] \in Nat
    <3>1. CASE k <= m
      <4>1. k \in 0 .. m
        BY <1>1, <3>1
      <4> QED
        BY <1>2, <3>1, <4>1
    <3>2. CASE ~ (k <= m)
      <4>1. k - m \in 0 .. n /\ m \in 0 .. m
        BY <1>1, <3>2
      <4> QED
        BY <1>2, <1>3, <3>2, <4>1
    <3> QED
      BY <3>1, <3>2
  <2> QED
    BY <1>1, <1>2, <2>1
<1>5. ASSUME NEW k \in 1 .. m + n PROVE h[k] = h[k - 1] + Of(i, r[k])
  <2>1. CASE k <= m
    <3>1. k \in 1 .. m /\ h[k] = f[k] /\ h[k - 1] = f[k - 1]
      BY <1>1, <2>1
    <3> QED
      BY <1>1, <1>2, <3>1
  <2>2. CASE ~ (k <= m)
    <3>1. k - m \in 1 .. n /\ k \in m + 1 .. m + n /\ k - 1 \in 0 .. m + n /\ k \in 0 .. m + n
          /\ (k - m) - 1 = (k - 1) - m /\ (k - m) \in 0 .. n /\ (k - m) - 1 \in 0 .. n
      BY <1>1, <2>2
    <3>2. h[k] = f[m] + g[k - m] /\ h[k - 1] = f[m] + g[(k - m) - 1]
      <4>1. CASE k = m + 1
        <5>1. k - 1 = m /\ (k - m) - 1 = 0 /\ f[m] \in Nat
          BY <1>1, <1>2, <4>1
        <5>2. h[k - 1] = f[m]
          BY <1>1, <3>1, <5>1
        <5> QED
          BY <1>3, <2>2, <3>1, <5>1, <5>2
      <4>2. CASE k # m + 1
        <5>1. ~ (k - 1 <= m)
          BY <1>1, <2>2, <4>2
        <5> QED
          BY <2>2, <3>1, <5>1
      <4> QED
        BY <4>1, <4>2
    <3>3. /\ g[k - m] = g[(k - m) - 1] + Of(i, t[k - m]) /\ r[k] = t[k - m]
          /\ g[(k - m) - 1] \in Nat /\ f[m] \in Nat
      BY <1>1, <1>2, <1>3, <3>1
    <3>4. Of(i, t[k - m]) \in Nat
      BY <3>1, OfNat DEF n
    <3> QED
      BY <3>2, <3>3, <3>4
  <2> QED
    BY <2>1, <2>2
<1> HIDE DEF h
<1>6. Sum(i, r) = h[m + n]
  <2>1. h \in [0 .. Len(r) -> Nat] /\ \A k \in 1 .. Len(r) : h[k] = h[k - 1] + Of(i, r[k])
    BY <1>1, <1>4, <1>5
  <2>2. r \in Seq(Slots) /\ h[0] = 0
    BY <1>1, <1>4
  <2>3. Sum(i, r) = h[Len(r)]
    BY <2>1, <2>2, SumIs
  <2> QED
    BY <1>1, <2>3
<1>7. h[m + n] = f[m] + g[n]
  <2>1. CASE n = 0
    BY <1>1, <1>2, <1>3, <2>1 DEF h
  <2>2. CASE n # 0
    <3>1. ~ (m + n <= m) /\ (m + n) - m = n /\ m + n \in 0 .. m + n
      BY <1>1, <2>2
    <3> QED
      BY <3>1 DEF h
  <2> QED
    BY <2>1, <2>2
<1> QED
  BY <1>1, <1>2, <1>3, <1>6, <1>7 DEF r

\* What one stack holds.
LEMMA SumOne == ASSUME NEW i, NEW x \in Slots PROVE Sum(i, <<x>>) = Of(i, x)
<1> DEFINE f == [k \in 0 .. 1 |-> IF k = 0 THEN 0 ELSE Of(i, x)]
<1>1. <<x>> \in Seq(Slots) /\ Len(<<x>>) = 1 /\ <<x>>[1] = x
  OBVIOUS
<1>2. Of(i, x) \in Nat
  BY OfNat
<1>3. f \in [0 .. Len(<<x>>) -> Nat] /\ f[0] = 0
      /\ \A k \in 1 .. Len(<<x>>) : f[k] = f[k - 1] + Of(i, <<x>>[k])
  BY <1>1, <1>2
<1>4. f[1] = Of(i, x)
  OBVIOUS
<1> HIDE DEF f
<1> QED
  BY <1>1, <1>3, <1>4, SumIs

-----------------------------------------------------------------------------
(* The container menu: stacks, slots, menus. *)

\* Stacks proper, and what an inventory slot may be.
Stacks == {Empty} \cup [item : Items, count : Nat \ {0}, rich : BOOLEAN]
\* A slot of the inventory: an emptied hotbar slot keeps its item.
Held == [item : Items, count : Nat, rich : BOOLEAN]

\* Where the kinds of stacks lie in one another.
LEMMA StackTypes ==
    /\ Stacks \subseteq Slots /\ Held \subseteq Slots /\ Empty \in Stacks
    /\ \A s \in Stacks : s = Empty \/ (s \in Held /\ s.count > 0)
    /\ \A s \in Held : s.count > 0 => s \in Stacks /\ s # Empty
    /\ \A i \in Items : Of(i, Empty) = 0 /\ i # "none"
    /\ Empty.count = 0 /\ Empty.item = "none"
    /\ \A s \in Stacks : s.count \in Nat /\ (s.count = 0 <=> s = Empty)
    /\ \A s \in Stacks, i \in Items : Of(i, s) = IF s.item = i THEN s.count ELSE 0
<1>1. Empty.count = 0 /\ Empty.item = "none" /\ Empty \in Slots /\ Empty \in Stacks
  BY DEF Stacks, Slots, Empty
<1>2. \A i \in Items : i # "none" /\ Of(i, Empty) = 0
  BY <1>1 DEF Of, Items
<1>3. Held \subseteq Slots
  BY DEF Held, Slots
<1>4. \A s \in Stacks : s = Empty \/ (s \in Held /\ s.count > 0)
  BY DEF Stacks, Held
<1>5. ASSUME NEW s \in Held, s.count > 0 PROVE s \in Stacks /\ s # Empty
  <2>1. s # Empty
    BY <1>1, <1>5
  <2> QED
    BY <1>5, <2>1 DEF Held, Stacks
<1>6. \A s \in Stacks : s.count \in Nat /\ (s.count = 0 <=> s = Empty)
  BY <1>1, <1>4 DEF Held
<1>7. \A s, i : Of(i, s) = IF s.item = i THEN s.count ELSE 0
  BY DEF Of
<1>8. Stacks \subseteq Slots
  BY <1>1, <1>3, <1>4
<1> QED
  BY <1>1, <1>2, <1>3, <1>4, <1>5, <1>6, <1>7, <1>8

\* What Stack makes of a stack.
LEMMA StackFacts ==
    ASSUME NEW s \in Held, NEW n \in Nat
    PROVE  /\ Stack(s, n) \in Stacks /\ Stack(s, n).count = n
           /\ \A i \in Items : Of(i, Stack(s, n)) = IF s.item = i THEN n ELSE 0
<1>1. CASE n = 0
  BY <1>1, StackTypes DEF Stack
<1>2. CASE n # 0
  <2>1. Stack(s, n) = [s EXCEPT !.count = n]
    BY <1>2 DEF Stack
  <2>2. [s EXCEPT !.count = n] \in [item : Items, count : Nat \ {0}, rich : BOOLEAN]
    BY <1>2 DEF Held
  <2>3. Stack(s, n).item = s.item /\ Stack(s, n).count = n
    BY <2>1 DEF Held
  <2> QED
    BY <2>1, <2>2, <2>3 DEF Stacks, Of
<1> QED
  BY <1>1, <1>2

\* The lesser of two numbers.
LEMMA LesserFacts ==
    ASSUME NEW m \in Int, NEW n \in Int
    PROVE  Lesser(m, n) \in {m, n} /\ Lesser(m, n) <= m /\ Lesser(m, n) <= n
  BY DEF Lesser

\* A menu as it is derived: no slot is above its capacity.
Cursors == {s \in Stacks : s.count <= Cap}

\* The menus of the screen.
Menus == [slots : [1 .. MenuSize -> Stacks], caps : [1 .. MenuSize -> 0 .. Cap],
          cursor : Cursors]

\* What validateContainerMenu accepts.
Legal == {m \in Menus : \A k \in 1 .. MenuSize : m.slots[k].count <= m.caps[k]}

\* A menu has the three slots of the station and those of the player.
LEMMA MenuSizeFacts ==
    /\ MenuSize \in Nat /\ MenuSize = 3 + Hotbar + Storage /\ MenuSize >= 4 /\ Cap \in Nat \ {0}
    /\ \A S : [1 .. MenuSize -> S] \subseteq Seq(S)
    /\ \A S, f : f \in [1 .. MenuSize -> S] => Len(f) = MenuSize
  BY SlotsAssumption, CapAssumption DEF MenuSize

\* Two slots change, and hold together what they held before.
LEMMA SumTwo ==
    ASSUME NEW i, NEW s \in Seq(Slots), NEW j \in 1 .. Len(s), NEW k \in 1 .. Len(s), j # k,
           NEW x \in Slots, NEW y \in Slots,
           Of(i, x) + Of(i, y) = Of(i, s[j]) + Of(i, s[k])
    PROVE  Sum(i, [s EXCEPT ![j] = x, ![k] = y]) = Sum(i, s)
<1> DEFINE t == [s EXCEPT ![j] = x]
<1>1. t \in Seq(Slots) /\ Sum(i, t) = Sum(i, s) - Of(i, s[j]) + Of(i, x)
  BY SumExcept
<1>2. Len(t) = Len(s) /\ t[k] = s[k]
  OBVIOUS
<1>3. [s EXCEPT ![j] = x, ![k] = y] = [t EXCEPT ![k] = y]
  OBVIOUS
<1> HIDE DEF t
<1>4. Sum(i, [t EXCEPT ![k] = y]) = Sum(i, t) - Of(i, t[k]) + Of(i, y)
  BY <1>1, <1>2, SumExcept
<1>5. /\ Of(i, x) \in Nat /\ Of(i, y) \in Nat /\ Sum(i, s) \in Nat /\ s[j] \in Slots /\ s[k] \in Slots
  BY OfNat, SumNat
<1>6. Of(i, s[j]) \in Nat /\ Of(i, s[k]) \in Nat
  BY <1>5, OfNat
<1> DEFINE u == [s EXCEPT ![j] = x, ![k] = y]
           v == [t EXCEPT ![k] = y]
<1>7. u = v /\ Sum(i, v) = Sum(i, t) - Of(i, s[k]) + Of(i, y)
  BY <1>2, <1>3, <1>4
<1> HIDE DEF u, v
<1> DEFINE a == Sum(i, s)
           b == Sum(i, t)
           c == Sum(i, v)
           oldj == Of(i, s[j])
           oldk == Of(i, s[k])
           newj == Of(i, x)
           newk == Of(i, y)
<1>8. a \in Nat /\ oldj \in Nat /\ oldk \in Nat /\ newj \in Nat /\ newk \in Nat
  BY <1>5, <1>6
<1>9. b = a - oldj + newj /\ c = b - oldk + newk /\ newj + newk = oldj + oldk
  BY <1>1, <1>7
<1> HIDE DEF a, b, c, oldj, oldk, newj, newk
<1>10. c = a
  BY <1>8, <1>9
<1> QED
  BY <1>7, <1>10 DEF u, a, c

\* Pouring moves items and no more than fit.
Poured(m) == {x \in Legal : /\ x.cursor = m.cursor
                            /\ \A i \in Items : Sum(i, x.slots) = Sum(i, m.slots)}

\* Pouring from slot to slot keeps a menu legal and every sum.
LEMMA PourFacts ==
    ASSUME NEW m \in Legal, NEW i \in 1 .. MenuSize, NEW j \in 1 .. MenuSize, i # j,
           m.slots[i] # Empty, m.slots[j] = Empty \/ Alike(m.slots[i], m.slots[j])
    PROVE  Pour(m, i, j) \in Poured(m)
<1> DEFINE s == m.slots[i]
           t == m.slots[j]
           n == Lesser(s.count, m.caps[j] - t.count)
           x == Stack(s, t.count + n)
           y == Stack(s, s.count - n)
           slots == [m.slots EXCEPT ![j] = x, ![i] = y]
<1>1. /\ m.slots \in [1 .. MenuSize -> Stacks] /\ m.caps \in [1 .. MenuSize -> 0 .. Cap]
      /\ m.cursor \in Cursors /\ \A k \in 1 .. MenuSize : m.slots[k].count <= m.caps[k]
      /\ m = [slots |-> m.slots, caps |-> m.caps, cursor |-> m.cursor]
  BY DEF Legal, Menus
<1>2. s \in Held /\ s.count \in Nat /\ t \in Stacks /\ t.count \in Nat /\ m.caps[j] \in Nat
      /\ t.count <= m.caps[j] /\ s.count <= m.caps[i] /\ m.caps[i] \in Nat
  BY <1>1, StackTypes, MenuSizeFacts DEF Held
<1>3. n \in Nat /\ n <= s.count /\ t.count + n <= m.caps[j]
  BY <1>2, LesserFacts
<1>4. Pour(m, i, j) = [m EXCEPT !.slots = slots]
  BY <1>1 DEF Pour
<1>5. t = Empty \/ t.item = s.item
  BY DEF Alike
<1> HIDE DEF n
<1>6. /\ x \in Stacks /\ x.count = t.count + n
      /\ \A k \in Items : Of(k, x) = IF s.item = k THEN t.count + n ELSE 0
  BY <1>2, <1>3, StackFacts
<1>7. /\ y \in Stacks /\ y.count = s.count - n
      /\ \A k \in Items : Of(k, y) = IF s.item = k THEN s.count - n ELSE 0
  BY <1>2, <1>3, StackFacts
<1> HIDE DEF x, y
<1>8. \A k \in Items : Of(k, x) + Of(k, y) = Of(k, t) + Of(k, s)
  <2> SUFFICES ASSUME NEW k \in Items PROVE Of(k, x) + Of(k, y) = Of(k, t) + Of(k, s)
    OBVIOUS
  <2>1. Of(k, s) = (IF s.item = k THEN s.count ELSE 0)
        /\ Of(k, t) = (IF t.item = k THEN t.count ELSE 0)
    BY DEF Of
  <2>2. CASE t = Empty
    <3>1. t.count = 0 /\ Of(k, t) = 0
      BY <2>2, StackTypes
    <3> QED
      BY <1>2, <1>3, <1>6, <1>7, <2>1, <3>1
  <2>3. CASE t.item = s.item
    BY <1>2, <1>3, <1>6, <1>7, <2>1, <2>3
  <2> QED
    BY <1>5, <2>2, <2>3
<1>9. \A k \in Items : Sum(k, slots) = Sum(k, m.slots)
  <2>1. m.slots \in Seq(Slots) /\ Len(m.slots) = MenuSize /\ x \in Slots /\ y \in Slots
    BY <1>1, <1>6, <1>7, StackTypes, MenuSizeFacts
  <2> QED
    BY <1>8, <2>1, SumTwo
<1>10. /\ slots \in [1 .. MenuSize -> Stacks]
       /\ \A k \in 1 .. MenuSize : slots[k].count <= m.caps[k]
  <2>1. slots \in [1 .. MenuSize -> Stacks] /\ slots[j] = x /\ slots[i] = y
        /\ \A k \in 1 .. MenuSize : k # i /\ k # j => slots[k] = m.slots[k]
    BY <1>1, <1>6, <1>7
  <2>2. x.count <= m.caps[j] /\ y.count <= m.caps[i]
    BY <1>2, <1>3, <1>6, <1>7
  <2> HIDE DEF slots
  <2> QED
    BY <1>1, <2>1, <2>2
<1> HIDE DEF slots
<1>11. [m EXCEPT !.slots = slots] = [slots |-> slots, caps |-> m.caps, cursor |-> m.cursor]
  BY <1>1
<1> QED
  BY <1>1, <1>4, <1>9, <1>10, <1>11 DEF Poured, Legal, Menus

-----------------------------------------------------------------------------
(* Quick moves. *)

\* Filling the empty slots stays in M when every single filling does.
LEMMA FilledIn ==
    ASSUME NEW T, NEW t \in Seq(T), NEW M, NEW m \in M, NEW i,
           \A x \in M, j \in T : FillInto(x, i, j) \in M
    PROVE  Filled(m, i, t) \in M
<1> DEFINE Eq(f) == f = [s \in SUBSET DOMAIN t |->
                            IF s = {} THEN m ELSE FillInto(f[s \ {Max(s)}], i, t[Max(s)])]
           step == [p \in M \X T |-> FillInto(p[1], i, p[2])]
<1>1. step \in [M \X T -> M] /\ \A x \in M, j \in T : step[<<x, j>>] = FillInto(x, i, j)
  OBVIOUS
<1> HIDE DEF step
<1>2. /\ \E f \in [SUBSET DOMAIN t -> M] : \A s \in SUBSET DOMAIN t :
            f[s] = IF s = {} THEN m ELSE step[<<f[s \ {Max(s)}], t[Max(s)]>>]
      /\ \A s \in SUBSET DOMAIN t : s # {} => t[Max(s)] \in T
      /\ \A f : f[{}] \in M /\ (\A s \in SUBSET DOMAIN t :
                   s # {} /\ f[s \ {Max(s)}] \in M => f[s] \in M) => f[DOMAIN t] \in M
  BY <1>1, FoldFacts
<1>3. \E f : Eq(f)
  <2>1. PICK f \in [SUBSET DOMAIN t -> M] : \A s \in SUBSET DOMAIN t :
           f[s] = IF s = {} THEN m ELSE step[<<f[s \ {Max(s)}], t[Max(s)]>>]
    BY <1>2
  <2>2. \A s \in SUBSET DOMAIN t : s # {} =>
           step[<<f[s \ {Max(s)}], t[Max(s)]>>] = FillInto(f[s \ {Max(s)}], i, t[Max(s)])
    BY <1>1, <1>2
  <2>3. Eq(f)
    BY <2>1, <2>2
  <2> QED
    BY <2>3
<1>4. \A f : Eq(f) => f[DOMAIN t] \in M
  BY <1>2
<1>5. (CHOOSE f : Eq(f))[DOMAIN t] \in M
  <2> HIDE DEF Eq
  <2> QED
    BY <1>3, <1>4
<1> QED
  BY <1>5 DEF Filled, FoldLeft, MapThenFoldSet

\* A quick move keeps a menu legal and every sum.
LEMMA QuickMoveFacts ==
    ASSUME NEW m \in Legal, NEW i \in 1 .. MenuSize, NEW first \in Nat, NEW last \in Nat,
           first .. last \subseteq (1 .. MenuSize) \ {i}, first <= last
    PROVE  QuickMove(m, i, first, last) \in Poured(m)
<1> DEFINE T == first .. last
           t == [k \in 1 .. last - first + 1 |-> first + k - 1]
<1>1. t \in Seq(T)
  OBVIOUS
<1>2. T \subseteq 1 .. MenuSize /\ i \notin T
  OBVIOUS
<1> HIDE DEF T, t
<1>3. m \in Poured(m) /\ Poured(m) \subseteq Legal
  BY DEF Poured
<1>4. ASSUME NEW x \in Poured(m), NEW j \in T
      PROVE  MergeInto(x, i, j) \in Poured(m) /\ FillInto(x, i, j) \in Poured(m)
  <2>1. x \in Legal /\ j \in 1 .. MenuSize /\ i # j
    BY <1>2, <1>3
  <2>2. ASSUME x.slots[i] # Empty, x.slots[j] = Empty \/ Alike(x.slots[i], x.slots[j])
        PROVE  Pour(x, i, j) \in Poured(m)
    <3>1. Pour(x, i, j) \in Poured(x)
      BY <2>1, <2>2, PourFacts
    <3> QED
      BY <3>1 DEF Poured
  <2> QED
    BY <2>2 DEF MergeInto, FillInto
<1>5. Merged(m, i, t) \in Poured(m)
  BY <1>1, <1>3, <1>4, MergedIn
<1>6. Filled(Merged(m, i, t), i, t) \in Poured(m)
  BY <1>1, <1>4, <1>5, FilledIn
<1> QED
  BY <1>6 DEF QuickMove, t

\* A click moves items between the slots and the cursor.
Clicked(m, x) ==
    /\ x.slots \in [1 .. MenuSize -> Stacks]
    /\ x.cursor \in Cursors
    /\ \A i \in Items : Sum(i, x.slots) + Of(i, x.cursor) = Sum(i, m.slots) + Of(i, m.cursor)

\* Slot i and the cursor change, and hold together what they held before.
LEMMA ClickedOne ==
    ASSUME NEW m \in Legal, NEW i \in 1 .. MenuSize, NEW s \in Stacks, NEW c \in Cursors,
           \A k \in Items : Of(k, s) + Of(k, c) = Of(k, m.slots[i]) + Of(k, m.cursor)
    PROVE  Clicked(m, [m EXCEPT !.slots[i] = s, !.cursor = c])
<1> DEFINE slots == [m.slots EXCEPT ![i] = s]
           x == [m EXCEPT !.slots[i] = s, !.cursor = c]
<1>1. /\ m.slots \in [1 .. MenuSize -> Stacks] /\ m.cursor \in Cursors
      /\ m = [slots |-> m.slots, caps |-> m.caps, cursor |-> m.cursor]
  BY DEF Legal, Menus
<1>2. x.slots = slots /\ x.cursor = c
  BY <1>1
<1> HIDE DEF x
<1>3. slots \in [1 .. MenuSize -> Stacks]
  BY <1>1
<1>4. ASSUME NEW k \in Items
      PROVE  Sum(k, slots) + Of(k, c) = Sum(k, m.slots) + Of(k, m.cursor)
  <2>1. m.slots \in Seq(Slots) /\ Len(m.slots) = MenuSize /\ s \in Slots /\ c \in Slots
        /\ m.slots[i] \in Slots /\ m.cursor \in Slots
    BY <1>1, StackTypes, MenuSizeFacts DEF Cursors
  <2>2. Sum(k, slots) = Sum(k, m.slots) - Of(k, m.slots[i]) + Of(k, s)
    BY <2>1, SumExcept
  <2> DEFINE new == Sum(k, slots)
             old == Sum(k, m.slots)
             a == Of(k, s)
             b == Of(k, c)
             d == Of(k, m.slots[i])
             e == Of(k, m.cursor)
  <2>3. old \in Nat /\ a \in Nat /\ b \in Nat /\ d \in Nat /\ e \in Nat
    BY <2>1, OfNat, SumNat
  <2>4. new = old - d + a /\ a + b = d + e
    BY <2>2
  <2> HIDE DEF new, old, a, b, d, e
  <2>5. new + b = old + e
    BY <2>3, <2>4
  <2> QED
    BY <2>5 DEF new, old, b, e
<1> HIDE DEF slots
<1>5. Clicked(m, x)
  BY <1>2, <1>3, <1>4 DEF Clicked
<1> QED
  BY <1>5 DEF x

-----------------------------------------------------------------------------
(* Clicks. *)

\* What a legal menu has in a slot and on its cursor.
LEMMA LegalFacts ==
    ASSUME NEW m \in Legal, NEW i \in 1 .. MenuSize
    PROVE  /\ m.slots[i] \in Stacks /\ m.cursor \in Stacks /\ m.cursor \in Cursors
           /\ m.slots[i].count \in Nat /\ m.cursor.count \in Nat /\ m.caps[i] \in Nat
           /\ m.slots[i].count <= m.caps[i] /\ m.caps[i] <= Cap /\ m.cursor.count <= Cap
           /\ m.slots[i] # Empty => m.slots[i] \in Held
           /\ m.cursor # Empty => m.cursor \in Held
           /\ Cap \in Nat /\ m.slots[i] \in Cursors
<1>1. /\ m.slots[i] \in Stacks /\ m.cursor \in Cursors /\ m.caps[i] \in 0 .. Cap
      /\ m.slots[i].count <= m.caps[i]
  BY DEF Legal, Menus
<1>2. m.cursor \in Stacks /\ m.cursor.count <= Cap
  BY <1>1 DEF Cursors
<1>3. m.slots[i].count \in Nat /\ m.cursor.count \in Nat
  BY <1>1, <1>2, StackTypes
<1>4. m.slots[i].count <= Cap /\ Cap \in Nat
  BY <1>1, <1>3, CapAssumption
<1> QED
  BY <1>1, <1>2, <1>3, <1>4, StackTypes DEF Cursors

\* Two stacks of one item share what they held.
LEMMA Shared ==
    ASSUME NEW s \in Held, NEW m \in Nat, NEW n \in Nat,
           NEW a \in Stacks, NEW b \in Stacks, m + n = a.count + b.count,
           a = Empty \/ a.item = s.item, b = Empty \/ b.item = s.item
    PROVE  \A k \in Items : Of(k, Stack(s, m)) + Of(k, Stack(s, n)) = Of(k, a) + Of(k, b)
<1>1. /\ Stack(s, m) \in Stacks /\ Stack(s, m).count = m
      /\ \A k \in Items : Of(k, Stack(s, m)) = IF s.item = k THEN m ELSE 0
  BY StackFacts
<1>2. /\ Stack(s, n) \in Stacks /\ Stack(s, n).count = n
      /\ \A k \in Items : Of(k, Stack(s, n)) = IF s.item = k THEN n ELSE 0
  BY StackFacts
<1>3. ASSUME NEW k \in Items
      PROVE  /\ Of(k, a) = IF s.item = k THEN a.count ELSE 0
             /\ Of(k, b) = IF s.item = k THEN b.count ELSE 0
  BY StackTypes DEF Of
<1>4. a.count \in Nat /\ b.count \in Nat
  BY StackTypes
<1>5. ASSUME NEW k \in Items
      PROVE  Of(k, Stack(s, m)) + Of(k, Stack(s, n)) = Of(k, a) + Of(k, b)
  BY <1>1, <1>2, <1>3, <1>4
<1> QED
  BY <1>5

\* A left click keeps the items of the menu and its cursor.
LEMMA LeftClickFacts ==
    ASSUME NEW m \in Legal, NEW i \in 1 .. MenuSize
    PROVE  Clicked(m, LeftClick(m, i))
<1> DEFINE s == m.slots[i]
           c == m.cursor
           n == Lesser(c.count, m.caps[i] - s.count)
<1>1. /\ s \in Stacks /\ c \in Stacks /\ c \in Cursors /\ s \in Cursors
      /\ s.count \in Nat /\ c.count \in Nat /\ m.caps[i] \in Nat
      /\ s.count <= m.caps[i] /\ m.caps[i] <= Cap /\ c.count <= Cap /\ Cap \in Nat
      /\ c # Empty => c \in Held
  BY LegalFacts
<1>2. CASE c # Empty /\ (s = Empty \/ Alike(s, c))
  <2>1. n \in Nat /\ n <= c.count /\ s.count + n <= m.caps[i]
    BY <1>1, LesserFacts
  <2>2. s = Empty \/ s.item = c.item
    BY <1>2 DEF Alike
  <2>3. LeftClick(m, i) =
          [m EXCEPT !.slots[i] = Stack(c, s.count + n), !.cursor = Stack(c, c.count - n)]
    BY <1>2 DEF LeftClick
  <2> HIDE DEF n, s, c
  <2>4. c \in Held /\ s.count + n \in Nat /\ c.count - n \in Nat
        /\ (s.count + n) + (c.count - n) = s.count + c.count /\ c.count - n <= Cap
    BY <1>1, <1>2, <2>1
  <2> DEFINE p == s.count + n
             q == c.count - n
  <2> HIDE DEF p, q
  <2>5. p \in Nat /\ q \in Nat /\ p + q = s.count + c.count /\ q <= Cap
    BY <2>4 DEF p, q
  <2>6. /\ Stack(c, p) \in Stacks /\ Stack(c, q) \in Stacks /\ Stack(c, q).count = q
        /\ \A k \in Items : Of(k, Stack(c, p)) + Of(k, Stack(c, q)) = Of(k, s) + Of(k, c)
    <3>1. c \in Held /\ p \in Nat /\ q \in Nat /\ s \in Stacks /\ c \in Stacks
          /\ p + q = s.count + c.count
          /\ (s = Empty \/ s.item = c.item) /\ (c = Empty \/ c.item = c.item)
      BY <1>1, <2>2, <2>4, <2>5
    <3>2. \A k \in Items : Of(k, Stack(c, p)) + Of(k, Stack(c, q)) = Of(k, s) + Of(k, c)
      BY <3>1, Shared
    <3> QED
      BY <3>1, <3>2, StackFacts
  <2>7. Stack(c, q) \in Cursors
    BY <2>5, <2>6 DEF Cursors
  <2> DEFINE x == Stack(c, p)
             y == Stack(c, q)
  <2>8. Clicked(m, [m EXCEPT !.slots[i] = x, !.cursor = y])
    <3>1. /\ x \in Stacks /\ y \in Cursors
          /\ \A k \in Items : Of(k, x) + Of(k, y) = Of(k, m.slots[i]) + Of(k, m.cursor)
      BY <2>6, <2>7 DEF s, c
    <3> HIDE DEF x, y
    <3> QED
      BY <3>1, ClickedOne
  <2> QED
    BY <2>3, <2>8 DEF p, q
<1>3. CASE ~ (c # Empty /\ (s = Empty \/ Alike(s, c)))
  <2>1. LeftClick(m, i) = [m EXCEPT !.slots[i] = c, !.cursor = s]
    BY <1>3 DEF LeftClick
  <2>2. \A k \in Items : Of(k, c) + Of(k, s) = Of(k, s) + Of(k, c)
    <3> SUFFICES ASSUME NEW k \in Items PROVE Of(k, c) + Of(k, s) = Of(k, s) + Of(k, c)
      OBVIOUS
    <3>1. Of(k, c) \in Nat /\ Of(k, s) \in Nat
      BY <1>1, StackTypes, OfNat
    <3> HIDE DEF c, s
    <3> QED
      BY <3>1
  <2>3. Clicked(m, [m EXCEPT !.slots[i] = c, !.cursor = s])
    BY <1>1, <2>2, ClickedOne
  <2> QED
    BY <2>1, <2>3
<1> QED
  BY <1>2, <1>3

\* A right click keeps the items of the menu and its cursor.
LEMMA RightClickFacts ==
    ASSUME NEW m \in Legal, NEW i \in 1 .. MenuSize
    PROVE  Clicked(m, RightClick(m, i))
<1> DEFINE s == m.slots[i]
           c == m.cursor
           n == Lesser((s.count + 1) \div 2, Cap - c.count)
<1>1. /\ s \in Stacks /\ c \in Stacks /\ c \in Cursors /\ s \in Cursors
      /\ s.count \in Nat /\ c.count \in Nat /\ m.caps[i] \in Nat
      /\ s.count <= m.caps[i] /\ m.caps[i] <= Cap /\ c.count <= Cap /\ Cap \in Nat
      /\ c # Empty => c \in Held /\ c.count > 0
      /\ s # Empty => s \in Held /\ s.count > 0
  BY LegalFacts, StackTypes
<1>2. CASE s # Empty /\ (c = Empty \/ Alike(s, c))
  <2>0. (s.count + 1) \div 2 \in Nat /\ (s.count + 1) \div 2 <= s.count
    BY <1>1, <1>2
  <2>1. n \in Nat /\ n <= s.count /\ c.count + n <= Cap
    BY <1>1, <2>0, LesserFacts
  <2>2. c = Empty \/ c.item = s.item
    BY <1>2 DEF Alike
  <2>3. RightClick(m, i) =
          [m EXCEPT !.slots[i] = Stack(s, s.count - n), !.cursor = Stack(s, c.count + n)]
    BY <1>2 DEF RightClick
  <2> HIDE DEF n, s, c
  <2> DEFINE p == s.count - n
             q == c.count + n
  <2>4. s \in Held /\ p \in Nat /\ q \in Nat /\ p + q = s.count + c.count /\ q <= Cap
    BY <1>1, <1>2, <2>1
  <2> HIDE DEF p, q
  <2>6. /\ Stack(s, p) \in Stacks /\ Stack(s, q) \in Stacks /\ Stack(s, q).count = q
        /\ \A k \in Items : Of(k, Stack(s, p)) + Of(k, Stack(s, q)) = Of(k, s) + Of(k, c)
    <3>1. s \in Held /\ p \in Nat /\ q \in Nat /\ s \in Stacks /\ c \in Stacks
          /\ p + q = s.count + c.count
          /\ (s = Empty \/ s.item = s.item) /\ (c = Empty \/ c.item = s.item)
      BY <1>1, <2>2, <2>4
    <3>2. \A k \in Items : Of(k, Stack(s, p)) + Of(k, Stack(s, q)) = Of(k, s) + Of(k, c)
      BY <3>1, Shared
    <3> QED
      BY <3>1, <3>2, StackFacts
  <2>7. Stack(s, q) \in Cursors
    BY <2>4, <2>6 DEF Cursors
  <2> DEFINE x == Stack(s, p)
             y == Stack(s, q)
  <2>8. Clicked(m, [m EXCEPT !.slots[i] = x, !.cursor = y])
    <3>1. /\ x \in Stacks /\ y \in Cursors
          /\ \A k \in Items : Of(k, x) + Of(k, y) = Of(k, m.slots[i]) + Of(k, m.cursor)
      BY <2>6, <2>7 DEF s, c
    <3> HIDE DEF x, y
    <3> QED
      BY <3>1, ClickedOne
  <2> QED
    BY <2>3, <2>8 DEF p, q
<1>3. CASE s = Empty /\ c # Empty
  <2>1. RightClick(m, i) = [m EXCEPT !.slots[i] = Stack(c, 1), !.cursor = Stack(c, c.count - 1)]
    BY <1>3 DEF RightClick
  <2> HIDE DEF s, c
  <2> DEFINE q == c.count - 1
  <2>2. c \in Held /\ q \in Nat /\ 1 + q = s.count + c.count /\ q <= Cap
    BY <1>1, <1>3, StackTypes
  <2> HIDE DEF q
  <2>3. /\ Stack(c, 1) \in Stacks /\ Stack(c, q) \in Stacks /\ Stack(c, q).count = q
        /\ \A k \in Items : Of(k, Stack(c, 1)) + Of(k, Stack(c, q)) = Of(k, s) + Of(k, c)
    <3>1. c \in Held /\ 1 \in Nat /\ q \in Nat /\ s \in Stacks /\ c \in Stacks
          /\ 1 + q = s.count + c.count
          /\ (s = Empty \/ s.item = c.item) /\ (c = Empty \/ c.item = c.item)
      BY <1>1, <1>3, <2>2
    <3>2. \A k \in Items : Of(k, Stack(c, 1)) + Of(k, Stack(c, q)) = Of(k, s) + Of(k, c)
      BY <3>1, Shared
    <3> QED
      BY <3>1, <3>2, StackFacts
  <2>4. Stack(c, q) \in Cursors
    BY <2>2, <2>3 DEF Cursors
  <2> DEFINE x == Stack(c, 1)
             y == Stack(c, q)
  <2>5. Clicked(m, [m EXCEPT !.slots[i] = x, !.cursor = y])
    <3>1. /\ x \in Stacks /\ y \in Cursors
          /\ \A k \in Items : Of(k, x) + Of(k, y) = Of(k, m.slots[i]) + Of(k, m.cursor)
      BY <2>3, <2>4 DEF s, c
    <3> HIDE DEF x, y
    <3> QED
      BY <3>1, ClickedOne
  <2> QED
    BY <2>1, <2>5 DEF q
<1>4. CASE ~ (s # Empty /\ (c = Empty \/ Alike(s, c))) /\ ~ (s = Empty /\ c # Empty)
  <2>1. RightClick(m, i) = m
    BY <1>4 DEF RightClick
  <2>2. Clicked(m, m)
    BY DEF Clicked, Legal, Menus
  <2> QED
    BY <2>1, <2>2
<1> QED
  BY <1>2, <1>3, <1>4

\* Every click keeps the items of the menu and its cursor.
LEMMA ApplyFacts ==
    ASSUME NEW m \in Legal, NEW click \in Clicks, NEW i \in 1 .. MenuSize
    PROVE  Clicked(m, Apply(click, m, i))
<1>1. CASE click = "left"
  BY <1>1, LeftClickFacts DEF Apply
<1>2. CASE click = "right"
  BY <1>2, RightClickFacts DEF Apply
<1>3. CASE click = "quick"
  <2>1. ASSUME NEW x \in Poured(m) PROVE Clicked(m, x)
    BY DEF Poured, Clicked, Legal, Menus
  <2>2. CASE i < PlayerStart
    <3>1. /\ PlayerStart \in Nat /\ MenuSize \in Nat /\ PlayerStart <= MenuSize
          /\ PlayerStart .. MenuSize \subseteq (1 .. MenuSize) \ {i}
      BY <2>2, MenuSizeFacts DEF PlayerStart
    <3>2. QuickMove(m, i, PlayerStart, MenuSize) \in Poured(m)
      BY <3>1, QuickMoveFacts
    <3> QED
      BY <1>3, <2>1, <2>2, <3>2 DEF Apply
  <2>3. CASE ~ (i < PlayerStart)
    <3>1. /\ Input \in Nat /\ Output \in Nat /\ Input <= Output
          /\ Input .. Output \subseteq (1 .. MenuSize) \ {i}
      BY <2>3, MenuSizeFacts DEF PlayerStart, Input, Output
    <3>2. QuickMove(m, i, Input, Output) \in Poured(m)
      BY <3>1, QuickMoveFacts
    <3> QED
      BY <1>3, <2>1, <2>3, <3>2 DEF Apply
  <2> QED
    BY <2>2, <2>3
<1> QED
  BY <1>1, <1>2, <1>3 DEF Clicks

-----------------------------------------------------------------------------
(* Inventory.addItem keeps to the slots. *)

\* The first n numbers in order.
LEMMA UpToFacts == ASSUME NEW n \in Nat PROVE UpTo(n) \in Seq(1 .. n)
  BY DEF UpTo

\* The first pass of addItem stays in M when every single top-up does.
LEMMA ToppedUpIn ==
    ASSUME NEW M, NEW m \in M, NEW i, Len(m.slots) \in Nat,
           \A x \in M, j \in 1 .. Len(m.slots) : TopUp(x, i, j) \in M
    PROVE  ToppedUp(m, i) \in M
<1> DEFINE T == 1 .. Len(m.slots)
           t == UpTo(Len(m.slots))
           Eq(f) == f = [s \in SUBSET DOMAIN t |->
                            IF s = {} THEN m ELSE TopUp(f[s \ {Max(s)}], i, t[Max(s)])]
           step == [p \in M \X T |-> TopUp(p[1], i, p[2])]
<1>0. t \in Seq(T)
  BY UpToFacts
<1> HIDE DEF t
<1>1. step \in [M \X T -> M] /\ \A x \in M, j \in T : step[<<x, j>>] = TopUp(x, i, j) /\ TopUp(x, i, j) \in M
  OBVIOUS
<1> HIDE DEF step, T
<1>2. /\ \E f \in [SUBSET DOMAIN t -> M] : \A s \in SUBSET DOMAIN t :
            f[s] = IF s = {} THEN m ELSE step[<<f[s \ {Max(s)}], t[Max(s)]>>]
      /\ \A s \in SUBSET DOMAIN t : s # {} => t[Max(s)] \in T
      /\ \A f : f[{}] \in M /\ (\A s \in SUBSET DOMAIN t :
                   s # {} /\ f[s \ {Max(s)}] \in M => f[s] \in M) => f[DOMAIN t] \in M
  BY <1>0, <1>1, FoldFacts
<1>3. \E f : Eq(f)
  <2>1. PICK f \in [SUBSET DOMAIN t -> M] : \A s \in SUBSET DOMAIN t :
           f[s] = IF s = {} THEN m ELSE step[<<f[s \ {Max(s)}], t[Max(s)]>>]
    BY <1>2
  <2>2. \A s \in SUBSET DOMAIN t : s # {} =>
           step[<<f[s \ {Max(s)}], t[Max(s)]>>] = TopUp(f[s \ {Max(s)}], i, t[Max(s)])
    BY <1>1, <1>2
  <2>3. Eq(f)
    BY <2>1, <2>2
  <2> QED
    BY <2>3
<1>4. \A f : Eq(f) => f[DOMAIN t] \in M
  BY <1>1, <1>2
<1>5. (CHOOSE f : Eq(f))[DOMAIN t] \in M
  <2> HIDE DEF Eq
  <2> QED
    BY <1>3, <1>4
<1> QED
  BY <1>5 DEF t, ToppedUp, FoldLeft, MapThenFoldSet

\* The second pass stays in M when every single slot does.
LEMMA InHotbarIn ==
    ASSUME NEW M, NEW m \in M, NEW i, Hotbar \in Nat,
           \A x \in M, j \in 1 .. Hotbar : TakeSlot(x, i, j) \in M
    PROVE  InHotbar(m, i) \in M
<1> DEFINE T == 1 .. Hotbar
           t == UpTo(Hotbar)
           Eq(f) == f = [s \in SUBSET DOMAIN t |->
                            IF s = {} THEN m ELSE TakeSlot(f[s \ {Max(s)}], i, t[Max(s)])]
           step == [p \in M \X T |-> TakeSlot(p[1], i, p[2])]
<1>0. t \in Seq(T)
  BY UpToFacts
<1> HIDE DEF t
<1>1. step \in [M \X T -> M] /\ \A x \in M, j \in T : step[<<x, j>>] = TakeSlot(x, i, j) /\ TakeSlot(x, i, j) \in M
  OBVIOUS
<1> HIDE DEF step, T
<1>2. /\ \E f \in [SUBSET DOMAIN t -> M] : \A s \in SUBSET DOMAIN t :
            f[s] = IF s = {} THEN m ELSE step[<<f[s \ {Max(s)}], t[Max(s)]>>]
      /\ \A s \in SUBSET DOMAIN t : s # {} => t[Max(s)] \in T
      /\ \A f : f[{}] \in M /\ (\A s \in SUBSET DOMAIN t :
                   s # {} /\ f[s \ {Max(s)}] \in M => f[s] \in M) => f[DOMAIN t] \in M
  BY <1>0, <1>1, FoldFacts
<1>3. \E f : Eq(f)
  <2>1. PICK f \in [SUBSET DOMAIN t -> M] : \A s \in SUBSET DOMAIN t :
           f[s] = IF s = {} THEN m ELSE step[<<f[s \ {Max(s)}], t[Max(s)]>>]
    BY <1>2
  <2>2. \A s \in SUBSET DOMAIN t : s # {} =>
           step[<<f[s \ {Max(s)}], t[Max(s)]>>] = TakeSlot(f[s \ {Max(s)}], i, t[Max(s)])
    BY <1>1, <1>2
  <2>3. Eq(f)
    BY <2>1, <2>2
  <2> QED
    BY <2>3
<1>4. \A f : Eq(f) => f[DOMAIN t] \in M
  BY <1>1, <1>2
<1>5. (CHOOSE f : Eq(f))[DOMAIN t] \in M
  <2> HIDE DEF Eq
  <2> QED
    BY <1>3, <1>4
<1> QED
  BY <1>5 DEF t, InHotbar, FoldLeft, MapThenFoldSet

\* The third pass stays in M when every single new stack does.
LEMMA InStorageIn ==
    ASSUME NEW M, NEW m \in M, NEW i, Storage \in Nat,
           \A x \in M, j \in 1 .. Storage : TakeStorage(x, i) \in M
    PROVE  InStorage(m, i) \in M
<1> DEFINE T == 1 .. Storage
           t == UpTo(Storage)
           Eq(f) == f = [s \in SUBSET DOMAIN t |->
                            IF s = {} THEN m ELSE TakeStorage(f[s \ {Max(s)}], i)]
           step == [p \in M \X T |-> TakeStorage(p[1], i)]
<1>0. t \in Seq(T)
  BY UpToFacts
<1> HIDE DEF t
<1>1. step \in [M \X T -> M] /\ \A x \in M, j \in T : step[<<x, j>>] = TakeStorage(x, i) /\ TakeStorage(x, i) \in M
  OBVIOUS
<1> HIDE DEF step, T
<1>2. /\ \E f \in [SUBSET DOMAIN t -> M] : \A s \in SUBSET DOMAIN t :
            f[s] = IF s = {} THEN m ELSE step[<<f[s \ {Max(s)}], t[Max(s)]>>]
      /\ \A s \in SUBSET DOMAIN t : s # {} => t[Max(s)] \in T
      /\ \A f : f[{}] \in M /\ (\A s \in SUBSET DOMAIN t :
                   s # {} /\ f[s \ {Max(s)}] \in M => f[s] \in M) => f[DOMAIN t] \in M
  BY <1>0, <1>1, FoldFacts
<1>3. \E f : Eq(f)
  <2>1. PICK f \in [SUBSET DOMAIN t -> M] : \A s \in SUBSET DOMAIN t :
           f[s] = IF s = {} THEN m ELSE step[<<f[s \ {Max(s)}], t[Max(s)]>>]
    BY <1>2
  <2>2. \A s \in SUBSET DOMAIN t : s # {} =>
           step[<<f[s \ {Max(s)}], t[Max(s)]>>] = TakeStorage(f[s \ {Max(s)}], i)
    BY <1>1, <1>2
  <2>3. Eq(f)
    BY <2>1, <2>2
  <2> QED
    BY <2>3
<1>4. \A f : Eq(f) => f[DOMAIN t] \in M
  BY <1>1, <1>2
<1>5. (CHOOSE f : Eq(f))[DOMAIN t] \in M
  <2> HIDE DEF Eq
  <2> QED
    BY <1>3, <1>4
<1> QED
  BY <1>5 DEF t, InStorage, FoldLeft, MapThenFoldSet

-----------------------------------------------------------------------------
(* What Inventory.addItem places. *)

\* The pack of a session: the hotbar is there, the storage is not overfull.
Packed(stacks) == stacks \in Seq(Held) /\ Len(stacks) \in Hotbar .. Hotbar + Storage

\* n of the item i are being placed.
Placing(i, n) ==
    {r \in [slots : Seq(Held), left : Nat] :
        /\ Len(r.slots) \in Len(inv) .. Hotbar + Storage
        /\ Sum(i, r.slots) + r.left = Sum(i, inv) + n
        /\ \A k \in Items \ {i} : Sum(k, r.slots) = Sum(k, inv)}

\* A stack size is positive and at most the largest.
LEMMA StackSizeFacts == ASSUME NEW i PROVE StackSize(i) \in Nat /\ StackSize(i) > 0 /\ StackSize(i) <= Cap
  BY CapAssumption DEF StackSize

\* What a slot gains or loses, the stacks gain or lose.
LEMMA SumChanges ==
    ASSUME NEW i, NEW s \in Seq(Slots), NEW j \in 1 .. Len(s), NEW x \in Slots, NEW n \in Nat,
           Of(i, x) = Of(i, s[j]) + n
    PROVE  Sum(i, [s EXCEPT ![j] = x]) = Sum(i, s) + n
<1> DEFINE new == Sum(i, [s EXCEPT ![j] = x])
           old == Sum(i, s)
           a == Of(i, s[j])
           b == Of(i, x)
<1>1. s[j] \in Slots
  OBVIOUS
<1>2. new = old - a + b /\ b = a + n /\ old \in Nat /\ a \in Nat
  BY <1>1, SumExcept, SumNat, OfNat
<1> HIDE DEF new, old, a, b
<1>3. new = old + n
  BY <1>2
<1> QED
  BY <1>3 DEF new, old

\* What is put into a slot leaves the rest.
LEMMA PutFacts ==
    ASSUME NEW i \in Items, NEW n \in Nat, NEW r \in Placing(i, n), NEW k \in 1 .. Len(r.slots),
           r.slots[k].item = i \/ r.slots[k].count = 0, NEW c \in Nat, c <= r.left
    PROVE  Put(r, i, k, c) \in Placing(i, n)
<1> DEFINE s == r.slots[k]
           x == [item |-> i, count |-> s.count + c, rich |-> FALSE]
           slots == [r.slots EXCEPT ![k] = x]
<1>1. /\ r.slots \in Seq(Held) /\ r.left \in Nat /\ Len(r.slots) \in Len(inv) .. Hotbar + Storage
      /\ Sum(i, r.slots) + r.left = Sum(i, inv) + n
      /\ \A j \in Items \ {i} : Sum(j, r.slots) = Sum(j, inv)
  BY DEF Placing
<1>2. s \in Held /\ s.count \in Nat
  <2>1. s \in Held
    BY <1>1
  <2> QED
    BY <2>1 DEF Held
<1>3. x \in Held
  BY <1>2 DEF Held
<1>4. slots \in Seq(Held) /\ Len(slots) = Len(r.slots) /\ r.left - c \in Nat
  <2> HIDE DEF x
  <2>1. slots \in Seq(Held) /\ Len(slots) = Len(r.slots)
    BY <1>1, <1>3
  <2>2. r.left - c \in Nat
    BY <1>1
  <2> QED
    BY <2>1, <2>2
<1>5. r.slots \in Seq(Slots) /\ x \in Slots
  BY <1>1, <1>3, StackTypes
<1>6. Sum(i, slots) = Sum(i, r.slots) + c
  <2>1. Of(i, x) = Of(i, s) + c
    BY <1>2 DEF Of
  <2> HIDE DEF x
  <2> QED
    BY <1>5, <2>1, SumChanges
<1>7. ASSUME NEW j \in Items \ {i} PROVE Sum(j, slots) = Sum(j, r.slots)
  <2>1. Of(j, x) = Of(j, s) + 0
    BY <1>2 DEF Of
  <2>2. Sum(j, r.slots) \in Nat
    BY <1>5, SumNat
  <2>3. Sum(j, slots) = Sum(j, r.slots) + 0
    <3> HIDE DEF x
    <3> QED
      BY <1>5, <2>1, SumChanges
  <2> HIDE DEF slots
  <2> QED
    BY <2>2, <2>3
<1>8. Put(r, i, k, c) = [slots |-> slots, left |-> r.left - c]
  BY DEF Put
<1> HIDE DEF slots
<1>9. Sum(i, slots) + (r.left - c) = Sum(i, inv) + n
  <2> DEFINE a == Sum(i, slots)
             b == Sum(i, r.slots)
             d == Sum(i, inv)
  <2>1. b \in Nat /\ a = b + c /\ b + r.left = d + n
    BY <1>1, <1>5, <1>6, SumNat
  <2> HIDE DEF a, b, d
  <2>2. a + (r.left - c) = d + n
    BY <1>1, <2>1
  <2> QED
    BY <2>2 DEF a, d
<1>10. Len(slots) \in Len(inv) .. Hotbar + Storage
  BY <1>1, <1>4
<1>11. \A j \in Items \ {i} : Sum(j, slots) = Sum(j, inv)
  BY <1>1, <1>7
<1> QED
  BY <1>4, <1>8, <1>9, <1>10, <1>11 DEF Placing

\* A new storage stack takes from the rest.
LEMMA TakeStorageFacts ==
    ASSUME NEW i \in Items, NEW n \in Nat, NEW r \in Placing(i, n), Len(inv) \in Nat
    PROVE  TakeStorage(r, i) \in Placing(i, n)
<1> DEFINE c == Lesser(r.left, StackSize(i))
           x == [item |-> i, count |-> c, rich |-> FALSE]
           slots == Append(r.slots, x)
<1>1. /\ r.slots \in Seq(Held) /\ r.left \in Nat /\ Len(r.slots) \in Len(inv) .. Hotbar + Storage
      /\ Sum(i, r.slots) + r.left = Sum(i, inv) + n
      /\ \A j \in Items \ {i} : Sum(j, r.slots) = Sum(j, inv)
  BY DEF Placing
<1>2. c \in Nat /\ c <= r.left
  BY <1>1, LesserFacts, StackSizeFacts
<1> HIDE DEF c
<1>3. CASE r.left > 0 /\ Len(r.slots) < Hotbar + Storage
  <2>1. TakeStorage(r, i) = [slots |-> slots, left |-> r.left - c]
    BY <1>3 DEF TakeStorage, c
  <2>2. x \in Held /\ x \in Slots /\ r.slots \in Seq(Slots) /\ <<x>> \in Seq(Slots)
        /\ slots = r.slots \o <<x>>
    <3>1. x \in Held
      BY <1>2 DEF Held
    <3>2. x \in Slots /\ r.slots \in Seq(Slots)
      BY <1>1, <3>1, StackTypes
    <3> HIDE DEF x
    <3> QED
      BY <1>1, <3>1, <3>2
  <2>3. slots \in Seq(Held) /\ Len(slots) = Len(r.slots) + 1
    BY <1>1, <2>2
  <2>4. ASSUME NEW j PROVE Sum(j, slots) = Sum(j, r.slots) + Of(j, x)
    <3> HIDE DEF x, slots
    <3>1. Sum(j, r.slots \o <<x>>) = Sum(j, r.slots) + Sum(j, <<x>>)
      BY <2>2, SumConcat
    <3>2. Sum(j, <<x>>) = Of(j, x)
      BY <2>2, SumOne
    <3> QED
      BY <2>2, <3>1, <3>2
  <2>5. Of(i, x) = c /\ \A j \in Items \ {i} : Of(j, x) = 0
    BY DEF Of
  <2> HIDE DEF x, slots
  <2>6. Sum(i, slots) + (r.left - c) = Sum(i, inv) + n
    <3> DEFINE a == Sum(i, slots)
               b == Sum(i, r.slots)
               d == Sum(i, inv)
    <3>1. b \in Nat /\ a = b + c /\ b + r.left = d + n
      BY <1>1, <2>2, <2>4, <2>5, SumNat
    <3> HIDE DEF a, b, d
    <3>2. a + (r.left - c) = d + n
      BY <1>1, <1>2, <3>1
    <3> QED
      BY <3>2 DEF a, d
  <2>7. ASSUME NEW j \in Items \ {i} PROVE Sum(j, slots) = Sum(j, inv)
    <3>1. Sum(j, slots) = Sum(j, r.slots) + 0 /\ Sum(j, r.slots) \in Nat
      BY <2>2, <2>4, <2>5, SumNat
    <3> QED
      BY <1>1, <3>1
  <2>8. Len(slots) \in Len(inv) .. Hotbar + Storage /\ r.left - c \in Nat
    BY <1>1, <1>2, <1>3, <2>3, SlotsAssumption
  <2> QED
    BY <2>1, <2>3, <2>6, <2>7, <2>8 DEF Placing
<1>4. CASE ~ (r.left > 0 /\ Len(r.slots) < Hotbar + Storage)
  BY <1>4 DEF TakeStorage
<1> QED
  BY <1>3, <1>4

\* Inventory.addItem places what it can and drops nothing.
LEMMA AddItemFacts ==
    ASSUME Packed(inv), NEW i \in Items, NEW n \in Nat
    PROVE  AddItem(i, n) \in Placing(i, n)
<1> DEFINE r == [slots |-> inv, left |-> n]
           M == Placing(i, n)
<1>1. inv \in Seq(Held) /\ Len(inv) \in Nat /\ Len(inv) >= Hotbar /\ Len(inv) <= Hotbar + Storage
      /\ Hotbar \in Nat /\ Storage \in Nat
  BY SlotsAssumption DEF Packed
<1>2. r \in M /\ r.slots = inv
  BY <1>1 DEF Placing
<1>3. ASSUME NEW x \in M
      PROVE  /\ x.slots \in Seq(Held) /\ x.left \in Nat /\ Len(x.slots) \in Nat
             /\ Len(x.slots) >= Len(inv)
             /\ \A k \in 1 .. Len(inv) : k \in 1 .. Len(x.slots) /\ x.slots[k] \in Held
                                         /\ x.slots[k].count \in Nat
  <2>1. x.slots \in Seq(Held) /\ x.left \in Nat /\ Len(x.slots) >= Len(inv)
    BY <1>1 DEF Placing
  <2>2. Len(x.slots) \in Nat
    BY <2>1
  <2>3. ASSUME NEW k \in 1 .. Len(inv)
        PROVE  k \in 1 .. Len(x.slots) /\ x.slots[k] \in Held /\ x.slots[k].count \in Nat
    <3>1. k \in 1 .. Len(x.slots)
      BY <1>1, <2>1, <2>2
    <3>2. x.slots[k] \in Held
      BY <2>1, <3>1
    <3> QED
      BY <3>1, <3>2 DEF Held
  <2> QED
    BY <2>1, <2>2, <2>3
<1>4. ASSUME NEW x \in M, NEW k \in 1 .. Len(inv)
      PROVE  TopUp(x, i, k) \in M /\ TakeSlot(x, i, k) \in M
  <2> DEFINE s == x.slots[k]
             c == Lesser(x.left, StackSize(i) - s.count)
             d == Lesser(x.left, StackSize(i))
  <2>1. /\ k \in 1 .. Len(x.slots) /\ s.count \in Nat /\ x.left \in Nat /\ StackSize(i) \in Nat
    BY <1>3, StackSizeFacts
  <2>2. d \in Nat /\ d <= x.left /\ (s.count < StackSize(i) => c \in Nat /\ c <= x.left)
    <3>1. d \in Nat /\ d <= x.left
      BY <2>1, LesserFacts
    <3>2. ASSUME s.count < StackSize(i) PROVE c \in Nat /\ c <= x.left
      <4> DEFINE room == StackSize(i) - s.count
      <4>1. room \in Nat
        BY <2>1, <3>2
      <4> HIDE DEF room
      <4>2. Lesser(x.left, room) \in Nat /\ Lesser(x.left, room) <= x.left
        BY <2>1, <4>1, LesserFacts
      <4> QED
        BY <4>2 DEF room
    <3> QED
      BY <3>1, <3>2
  <2>3. s.item = i /\ s.count < StackSize(i) => Put(x, i, k, c) \in M
    BY <2>1, <2>2, PutFacts
  <2>4. s.count = 0 => Put(x, i, k, d) \in M
    BY <2>1, <2>2, PutFacts
  <2> QED
    BY <2>3, <2>4 DEF TopUp, TakeSlot
<1>5. \A x \in M : TakeStorage(x, i) \in M
  BY <1>1, TakeStorageFacts
<1>6. \A x \in M, k \in 1 .. Hotbar : TakeSlot(x, i, k) \in M
  BY <1>1, <1>4
<1> HIDE DEF M, r
<1>7. ToppedUp(r, i) \in M
  BY <1>1, <1>2, <1>4, ToppedUpIn
<1>8. InHotbar(ToppedUp(r, i), i) \in M
  BY <1>1, <1>6, <1>7, InHotbarIn
<1>9. InStorage(InHotbar(ToppedUp(r, i), i), i) \in M
  BY <1>1, <1>5, <1>8, InStorageIn
<1> QED
  BY <1>9 DEF AddItem, r, M

-----------------------------------------------------------------------------
(* The storage stacks of writeBackPlayerSlots. *)

\* A stack is appended unless it is empty, and is then counted.
LEMMA WithStackFacts ==
    ASSUME NEW i, i \in Items, NEW stacks \in Seq(Held), NEW s \in Stacks
    PROVE  /\ WithStack(stacks, s) \in Seq(Held)
           /\ Len(WithStack(stacks, s)) \in Len(stacks) .. Len(stacks) + 1
           /\ Sum(i, WithStack(stacks, s)) = Sum(i, stacks) + Of(i, s)
<1>1. stacks \in Seq(Slots) /\ Sum(i, stacks) \in Nat /\ Len(stacks) \in Nat
  <2>1. stacks \in Seq(Slots) /\ Len(stacks) \in Nat
    BY StackTypes
  <2> QED
    BY <2>1, SumNat
<1>2. CASE s = Empty
  BY <1>1, <1>2, StackTypes DEF WithStack
<1>3. CASE s # Empty
  <2>1. s \in Held /\ s \in Slots /\ <<s>> \in Seq(Slots)
    BY <1>3, StackTypes
  <2>2. WithStack(stacks, s) = stacks \o <<s>>
    BY <1>3, <2>1 DEF WithStack
  <2>3. Sum(i, stacks \o <<s>>) = Sum(i, stacks) + Sum(i, <<s>>) /\ Sum(i, <<s>>) = Of(i, s)
    BY <1>1, <2>1, SumConcat, SumOne
  <2>4. stacks \o <<s>> \in Seq(Held) /\ Len(stacks \o <<s>>) = Len(stacks) + 1
    BY <2>1
  <2> QED
    BY <1>1, <2>2, <2>3, <2>4
<1> QED
  BY <1>2, <1>3

\* Appending the stacks of a sequence counts each of them.
LEMMA WithStacksFacts ==
    ASSUME NEW i \in Items, NEW hot \in Seq(Held), NEW n \in Nat, NEW t \in [1 .. n -> Stacks]
    PROVE  /\ WithStacks(hot, t) \in Seq(Held)
           /\ Len(WithStacks(hot, t)) \in Len(hot) .. Len(hot) + n
           /\ Sum(i, WithStacks(hot, t)) = Sum(i, hot) + Sum(i, t)
<1> DEFINE M == Seq(Held)
           Eq(f) == f = [s \in SUBSET DOMAIN t |->
                            IF s = {} THEN hot ELSE WithStack(f[s \ {Max(s)}], t[Max(s)])]
           step == [p \in M \X Stacks |-> WithStack(p[1], p[2])]
<1>1. /\ t \in Seq(Stacks) /\ t \in Seq(Slots) /\ Len(t) = n /\ DOMAIN t = 1 .. n
      /\ \A k \in 1 .. n : t[k] \in Stacks
  BY StackTypes
<1>2. /\ step \in [M \X Stacks -> M]
      /\ \A x \in M, j \in Stacks : step[<<x, j>>] = WithStack(x, j)
  <2>1. \A x \in M, j \in Stacks : WithStack(x, j) \in M
    BY WithStackFacts
  <2> HIDE DEF M
  <2> QED
    BY <2>1
<1> HIDE DEF step
<1>3. hot \in M
  OBVIOUS
<1> HIDE DEF M
<1>4. /\ \E f \in [SUBSET DOMAIN t -> M] : \A s \in SUBSET DOMAIN t :
            f[s] = IF s = {} THEN hot ELSE step[<<f[s \ {Max(s)}], t[Max(s)]>>]
      /\ \A s \in SUBSET DOMAIN t : s # {} => t[Max(s)] \in Stacks
      /\ \A f : f[{}] \in M /\ (\A s \in SUBSET DOMAIN t :
                   s # {} /\ f[s \ {Max(s)}] \in M => f[s] \in M) => f[DOMAIN t] \in M
  <2>1. t \in Seq(Stacks) /\ step \in [M \X Stacks -> M] /\ hot \in M
    BY <1>1, <1>2, <1>3
  <2> QED
    BY <2>1, FoldFacts
<1>5. \E f : Eq(f)
  <2>1. PICK f \in [SUBSET DOMAIN t -> M] : \A s \in SUBSET DOMAIN t :
           f[s] = IF s = {} THEN hot ELSE step[<<f[s \ {Max(s)}], t[Max(s)]>>]
    BY <1>4
  <2>2. \A s \in SUBSET DOMAIN t : s # {} =>
           step[<<f[s \ {Max(s)}], t[Max(s)]>>] = WithStack(f[s \ {Max(s)}], t[Max(s)])
    BY <1>2, <1>4
  <2>3. Eq(f)
    BY <2>1, <2>2
  <2> QED
    BY <2>3
<1> DEFINE f == CHOOSE f : Eq(f)
<1>6. Eq(f)
  <2> HIDE DEF Eq
  <2> QED
    BY <1>5
<1>7. WithStacks(hot, t) = f[DOMAIN t]
  BY DEF WithStacks, FoldLeft, MapThenFoldSet
<1> HIDE DEF f
<1>8. f[{}] = hot
  BY <1>6
<1>9. ASSUME NEW k \in 1 .. n PROVE f[1 .. k] = WithStack(f[1 .. k - 1], t[k])
  <2>0. k \in Nat /\ 1 <= k /\ k <= n
    OBVIOUS
  <2>1. 1 .. k \in SUBSET (1 .. n) /\ 1 .. k # {} /\ k \in 1 .. k
    <3>1. k \in 1 .. k /\ 1 .. k \subseteq 1 .. n
      BY <2>0
    <3> QED
      BY <3>1
  <2>2. Max(1 .. k) \in 1 .. k /\ k <= Max(1 .. k)
    BY <2>1, MaxFacts
  <2>3. Max(1 .. k) = k
    BY <2>2
  <2>4. (1 .. k) \ {k} = 1 .. k - 1
    OBVIOUS
  <2>5. f[1 .. k] = WithStack(f[(1 .. k) \ {Max(1 .. k)}], t[Max(1 .. k)])
    BY <1>1, <1>6, <2>1
  <2> QED
    BY <2>3, <2>4, <2>5
<1>10. PICK g \in [0 .. n -> Nat] :
         /\ g[0] = 0 /\ \A k \in 1 .. n : g[k] = g[k - 1] + Of(i, t[k])
         /\ Sum(i, t) = g[n]
  BY <1>1, RunningTotal
<1> DEFINE Q(k) == k <= n => /\ f[1 .. k] \in Seq(Held)
                            /\ Len(f[1 .. k]) \in Len(hot) .. Len(hot) + k
                            /\ Sum(i, f[1 .. k]) = Sum(i, hot) + g[k]
           K == {k \in Nat : Q(k)}
<1>11. Sum(i, hot) \in Nat /\ Len(hot) \in Nat
  <2>1. hot \in Seq(Slots)
    BY StackTypes
  <2> QED
    BY <2>1, SumNat
<1>12. Q(0)
  <2>1. 1 .. 0 = {}
    OBVIOUS
  <2> QED
    BY <1>8, <1>10, <1>11, <2>1
<1>13. ASSUME NEW k \in Nat, Q(k) PROVE Q(k + 1)
  <2> SUFFICES ASSUME k + 1 <= n
               PROVE  /\ f[1 .. k + 1] \in Seq(Held)
                      /\ Len(f[1 .. k + 1]) \in Len(hot) .. Len(hot) + (k + 1)
                      /\ Sum(i, f[1 .. k + 1]) = Sum(i, hot) + g[k + 1]
    OBVIOUS
  <2>1. k + 1 \in 1 .. n /\ (k + 1) - 1 = k /\ k <= n /\ g[k] \in Nat /\ g[k + 1] \in Nat
    OBVIOUS
  <2> DEFINE p == f[1 .. k]
             q == f[1 .. k + 1]
             s == t[k + 1]
  <2>2. q = WithStack(p, s) /\ g[k + 1] = g[k] + Of(i, s) /\ s \in Stacks
    BY <1>1, <1>9, <1>10, <2>1
  <2>3. p \in Seq(Held) /\ Len(p) \in Len(hot) .. Len(hot) + k /\ Sum(i, p) = Sum(i, hot) + g[k]
    BY <1>13, <2>1
  <2> HIDE DEF p, q, s
  <2>4. /\ q \in Seq(Held) /\ Len(q) \in Len(p) .. Len(p) + 1
        /\ Sum(i, q) = Sum(i, p) + Of(i, s)
    BY <2>2, <2>3, WithStackFacts
  <2>5. Of(i, s) \in Nat /\ s \in Slots
    BY <2>2, StackTypes, OfNat
  <2>6. Sum(i, q) = Sum(i, hot) + g[k + 1]
    BY <1>11, <2>1, <2>2, <2>3, <2>4, <2>5
  <2>7. Len(q) \in Len(hot) .. Len(hot) + (k + 1)
    BY <1>11, <2>3, <2>4
  <2> QED
    BY <2>4, <2>6, <2>7 DEF q
<1> HIDE DEF Q
<1>14. n \in K
  <2>1. 0 \in K /\ \A k \in Nat : k \in K => k + 1 \in K
    BY <1>12, <1>13
  <2> HIDE DEF K
  <2> QED
    BY <2>1, SetInduction
<1>15. Q(n) /\ n <= n
  BY <1>14
<1> QED
  BY <1>1, <1>7, <1>10, <1>15 DEF Q

-----------------------------------------------------------------------------
(* The menu the screen derives. *)

\* Functions over 1 .. m are sequences.
LEMMA Sequences ==
    ASSUME NEW S, NEW m \in Nat, NEW n \in Nat, NEW s \in [1 .. m -> S], NEW t \in [1 .. n -> S]
    PROVE  /\ s \in Seq(S) /\ Len(s) = m /\ t \in Seq(S) /\ Len(t) = n
           /\ s \o t \in Seq(S) /\ s \o t \in [1 .. m + n -> S]
<1>1. s \in Seq(S) /\ Len(s) = m /\ t \in Seq(S) /\ Len(t) = n
  OBVIOUS
<1>2. s \o t \in Seq(S) /\ Len(s \o t) = m + n
  BY <1>1, ConcatProperties
<1> QED
  BY <1>1, <1>2, LenProperties

\* Block entities.
Records == [type : {"none", "furnace", "smoker"}, input : Stacks, fuel : Stacks,
            output : Stacks, burn : Nat, smelt : Nat, xp : Nat]

\* What a record holds of the item i.
Within(i, e) == Of(i, e.input) + Of(i, e.fuel) + Of(i, e.output)

\* What three stacks hold.
LEMMA SumThree ==
    ASSUME NEW i, NEW a \in Slots, NEW b \in Slots, NEW c \in Slots
    PROVE  <<a, b, c>> \in Seq(Slots) /\ Sum(i, <<a, b, c>>) = Of(i, a) + Of(i, b) + Of(i, c)
<1> DEFINE s == <<a, b, c>>
           p == Of(i, a)
           q == Of(i, b)
           r == Of(i, c)
           f == [k \in 0 .. 3 |-> IF k = 0 THEN 0 ELSE IF k = 1 THEN p
                                  ELSE IF k = 2 THEN p + q ELSE (p + q) + r]
<1>1. s \in Seq(Slots) /\ Len(s) = 3 /\ s[1] = a /\ s[2] = b /\ s[3] = c
  OBVIOUS
<1>2. p \in Nat /\ q \in Nat /\ r \in Nat
  BY OfNat
<1> HIDE DEF s, p, q, r
<1>3. f \in [0 .. 3 -> Nat] /\ f[0] = 0 /\ f[1] = p /\ f[2] = p + q /\ f[3] = (p + q) + r
  BY <1>2
<1> HIDE DEF f
<1>4. ASSUME NEW k \in 1 .. Len(s) PROVE f[k] = f[k - 1] + Of(i, s[k])
  <2>1. k \in {1, 2, 3}
    BY <1>1
  <2>2. f[1] = f[0] + Of(i, s[1]) /\ f[2] = f[1] + Of(i, s[2]) /\ f[3] = f[2] + Of(i, s[3])
    BY <1>1, <1>2, <1>3 DEF p, q, r
  <2> QED
    BY <2>1, <2>2
<1>5. Sum(i, s) = f[Len(s)]
  BY <1>1, <1>3, <1>4, SumIs
<1> QED
  BY <1>1, <1>3, <1>5 DEF s, p, q, r

\* What the three slots of a record hold.
LEMMA ContentsFacts ==
    ASSUME NEW e \in Records
    PROVE  /\ Contents(e) \in Seq(Slots)
           /\ \A i \in Items : Sum(i, Contents(e)) = Within(i, e) /\ Within(i, e) \in Nat
<1>1. e.input \in Slots /\ e.fuel \in Slots /\ e.output \in Slots
  BY StackTypes DEF Records
<1>2. ASSUME NEW i \in Items
      PROVE  Of(i, e.input) \in Nat /\ Of(i, e.fuel) \in Nat /\ Of(i, e.output) \in Nat
  BY <1>1, OfNat
<1> QED
  BY <1>1, <1>2, SumThree DEF Contents, Within

\* Empty stacks hold nothing.
LEMMA SumEmpties ==
    ASSUME NEW i \in Items, NEW n \in Nat
    PROVE  /\ [k \in 1 .. n |-> Empty] \in Seq(Slots)
           /\ Sum(i, [k \in 1 .. n |-> Empty]) = 0
<1> DEFINE s == [k \in 1 .. n |-> Empty]
           f == [k \in 0 .. n |-> 0]
<1>1. Empty \in Slots /\ Of(i, Empty) = 0
  BY StackTypes
<1>2. s \in Seq(Slots) /\ Len(s) = n /\ \A k \in 1 .. n : s[k] = Empty
  BY <1>1
<1>3. f \in [0 .. n -> Nat] /\ f[0] = 0 /\ f[n] = 0
  OBVIOUS
<1> HIDE DEF s
<1>4. \A k \in 1 .. n : f[k] = f[k - 1] + Of(i, s[k])
  BY <1>1, <1>2
<1> HIDE DEF f
<1>5. Sum(i, s) = f[Len(s)]
  BY <1>2, <1>3, <1>4, SumIs
<1> QED
  BY <1>2, <1>3, <1>5 DEF s

\* The slots a menu shows of the inventory.
Shown == [k \in 1 .. Hotbar + Storage |-> Slot(k)]

\* The player slots of the menu hold what the inventory holds.
LEMMA ShownFacts ==
    ASSUME Packed(inv)
    PROVE  /\ Shown \in [1 .. Hotbar + Storage -> Stacks]
           /\ \A i \in Items : Sum(i, Shown) = Sum(i, inv)
<1> DEFINE N == Hotbar + Storage
           rest == [k \in 1 .. N - Len(inv) |-> Empty]
           padded == inv \o rest
<1>1. inv \in Seq(Held) /\ inv \in Seq(Slots) /\ Len(inv) \in Nat /\ Len(inv) <= N /\ N \in Nat
  BY SlotsAssumption, StackTypes DEF Packed
<1>2. ASSUME NEW k \in 1 .. N
      PROVE  /\ Slot(k) \in Stacks
             /\ \A i \in Items : Of(i, Slot(k)) = IF k <= Len(inv) THEN Of(i, inv[k]) ELSE 0
  <2>1. CASE k <= Len(inv)
    <3>1. inv[k] \in Held /\ inv[k] \in Slots
      BY <1>1, <2>1, StackTypes
    <3>2. inv[k].count \in Nat
      BY <3>1 DEF Held
    <3>3. CASE inv[k].count > 0
      BY <2>1, <3>1, <3>3, StackTypes DEF Slot
    <3>4. CASE inv[k].count = 0
      <4>1. Slot(k) = Empty
        BY <3>4 DEF Slot
      <4>2. \A i \in Items : Of(i, inv[k]) = 0
        BY <3>4 DEF Of
      <4> QED
        BY <2>1, <4>1, <4>2, StackTypes
    <3> QED
      BY <3>2, <3>3, <3>4
  <2>2. CASE ~ (k <= Len(inv))
    <3>1. Slot(k) = Empty
      BY <2>2 DEF Slot
    <3> QED
      BY <2>2, <3>1, StackTypes
  <2> QED
    BY <2>1, <2>2
<1>3. Shown \in [1 .. N -> Stacks] /\ Len(Shown) = N /\ \A k \in 1 .. N : Shown[k] = Slot(k)
  BY <1>1, <1>2 DEF Shown
<1>4. Shown \in Seq(Slots)
  BY <1>1, <1>3, StackTypes
<1>5. rest \in Seq(Slots) /\ Len(rest) = N - Len(inv) /\ \A k \in 1 .. N - Len(inv) : rest[k] = Empty
  BY <1>1, StackTypes
<1>6. ASSUME NEW i \in Items PROVE Sum(i, Shown) = Sum(i, inv)
  <2>1. Sum(i, rest) = 0
    BY <1>1, SumEmpties
  <2> HIDE DEF rest
  <2>2. padded \in Seq(Slots) /\ Sum(i, padded) = Sum(i, inv) + Sum(i, rest)
    BY <1>1, <1>5, SumConcat
  <2>3. Len(padded) = N
    BY <1>1, <1>5
  <2>4. ASSUME NEW k \in 1 .. N PROVE Of(i, Shown[k]) = Of(i, padded[k])
    <3>1. CASE k <= Len(inv)
      <4>1. padded[k] = inv[k]
        BY <1>1, <1>5, <3>1
      <4> QED
        BY <1>2, <1>3, <3>1, <4>1
    <3>2. CASE ~ (k <= Len(inv))
      <4>1. k - Len(inv) \in 1 .. N - Len(inv) /\ padded[k] = rest[k - Len(inv)]
        BY <1>1, <1>5, <3>2
      <4>2. padded[k] = Empty
        BY <1>5, <4>1
      <4> QED
        BY <1>2, <1>3, <3>2, <4>2, StackTypes
    <3> QED
      BY <3>1, <3>2
  <2> HIDE DEF padded, N
  <2>5. Sum(i, Shown) = Sum(i, padded)
    BY <1>3, <1>4, <2>2, <2>3, <2>4, SumAlike
  <2>6. Sum(i, inv) \in Nat
    BY <1>1, SumNat
  <2> QED
    BY <2>1, <2>2, <2>5, <2>6
<1> QED
  BY <1>3, <1>6

\* A menu that validates is legal and holds what the record and the
\* inventory hold.
LEMMA MenuFacts ==
    ASSUME Packed(inv), entity \in Records, cursor \in Cursors, ~ MenuThrows
    PROVE  /\ Menu \in Legal /\ Menu.cursor = cursor
           /\ \A i \in Items : Sum(i, Menu.slots) = Within(i, entity) + Sum(i, inv)
<1> DEFINE slots == Contents(entity) \o Shown
           caps == [k \in 1 .. MenuSize |-> IF k < PlayerStart \/ slots[k] = Empty THEN Cap
                                            ELSE StackSize(slots[k].item)]
<1>1. Menu = [slots |-> slots, caps |-> caps, cursor |-> cursor]
  BY DEF Menu, Shown
<1>2. Contents(entity) \in [1 .. 3 -> Stacks]
  BY DEF Contents, Records
<1>3. Shown \in [1 .. Hotbar + Storage -> Stacks]
  BY ShownFacts
<1>4. slots \in [1 .. MenuSize -> Stacks]
  <2> DEFINE N == Hotbar + Storage
  <2>1. N \in Nat /\ MenuSize = 3 + N
    BY SlotsAssumption DEF MenuSize
  <2>2. Shown \in [1 .. N -> Stacks]
    BY <1>3
  <2> HIDE DEF N
  <2> QED
    BY <1>2, <2>1, <2>2, Sequences
<1>5. \A i \in Items : Sum(i, slots) = Within(i, entity) + Sum(i, inv)
  <2>1. Shown \in Seq(Slots)
    BY <1>3, StackTypes, SlotsAssumption
  <2> QED
    BY <2>1, ContentsFacts, ShownFacts, SumConcat
<1>6. caps \in [1 .. MenuSize -> 0 .. Cap]
  <2>1. ASSUME NEW k \in 1 .. MenuSize PROVE caps[k] \in 0 .. Cap
    <3> HIDE DEF slots
    <3> QED
      BY StackSizeFacts, CapAssumption
  <2> HIDE DEF caps
  <2>2. DOMAIN caps = 1 .. MenuSize /\ caps = [k \in 1 .. MenuSize |-> caps[k]]
    BY DEF caps
  <2> QED
    BY <2>1, <2>2
<1> HIDE DEF slots, caps
<1>7. \A k \in 1 .. MenuSize : slots[k].count <= caps[k]
  <2> SUFFICES ASSUME NEW k \in 1 .. MenuSize PROVE slots[k].count <= caps[k]
    OBVIOUS
  <2>1. ~ (slots[k].count > caps[k])
    BY <1>1 DEF MenuThrows
  <2>2. slots[k].count \in Nat /\ caps[k] \in Nat
    <3>1. slots[k] \in Stacks /\ caps[k] \in 0 .. Cap
      BY <1>4, <1>6
    <3> QED
      BY <3>1, StackTypes, CapAssumption
  <2> QED
    BY <2>1, <2>2
<1> QED
  BY <1>1, <1>4, <1>5, <1>6, <1>7 DEF Legal, Menus

-----------------------------------------------------------------------------
(* What writeBackPlayerSlots writes. *)

\* A menu is its first n slots and the others.
LEMMA SumSplit ==
    ASSUME NEW i \in Items, NEW m \in Nat, NEW n \in Nat, NEW s \in [1 .. m + n -> Stacks]
    PROVE  LET left == SubSeq(s, 1, m)
               right == SubSeq(s, m + 1, m + n)
           IN  /\ left \in [1 .. m -> Stacks] /\ right \in [1 .. n -> Stacks]
               /\ \A k \in 1 .. m : left[k] = s[k]
               /\ Sum(i, s) = Sum(i, left) + Sum(i, right)
<1> DEFINE left == SubSeq(s, 1, m)
           right == SubSeq(s, m + 1, m + n)
<1>1. left \in [1 .. m -> Stacks] /\ \A k \in 1 .. m : left[k] = s[k]
  <2>1. \A x \in 1 .. m : s[x] \in Stacks
    OBVIOUS
  <2>2. /\ left \in Seq(Stacks) /\ Len(left) = (IF 1 <= m THEN m - 1 + 1 ELSE 0)
        /\ \A x \in 1 .. m - 1 + 1 : left[x] = s[1 + x - 1]
    BY <2>1, SubSeqProperties
  <2> HIDE DEF left
  <2>3. Len(left) = m /\ \A x \in 1 .. m : left[x] = s[x]
    BY <2>2
  <2> QED
    BY <2>2, <2>3, LenProperties
<1>2. right \in [1 .. n -> Stacks] /\ \A k \in 1 .. n : right[k] = s[m + k]
  <2>1. \A x \in m + 1 .. m + n : s[x] \in Stacks
    OBVIOUS
  <2>2. /\ right \in Seq(Stacks)
        /\ Len(right) = (IF m + 1 <= m + n THEN (m + n) - (m + 1) + 1 ELSE 0)
        /\ \A x \in 1 .. (m + n) - (m + 1) + 1 : right[x] = s[(m + 1) + x - 1]
    BY <2>1, SubSeqProperties
  <2> HIDE DEF right
  <2>3. Len(right) = n /\ \A x \in 1 .. n : right[x] = s[m + x]
    BY <2>2
  <2> QED
    BY <2>2, <2>3, LenProperties
<1> HIDE DEF left, right
<1>3. left \in Seq(Stacks) /\ Len(left) = m /\ right \in Seq(Stacks) /\ Len(right) = n
      /\ s \in Seq(Stacks) /\ Len(s) = m + n
  BY <1>1, <1>2, Sequences
<1>4. \A k \in 1 .. m + n : (left \o right)[k] = s[k]
  <2> SUFFICES ASSUME NEW k \in 1 .. m + n PROVE (left \o right)[k] = s[k]
    OBVIOUS
  <2>1. (left \o right)[k] = IF k <= m THEN left[k] ELSE right[k - m]
    BY <1>3, ConcatProperties
  <2>2. CASE k <= m
    BY <1>1, <2>1, <2>2
  <2>3. CASE ~ (k <= m)
    <3>1. k - m \in 1 .. n /\ m + (k - m) = k
      BY <2>3
    <3> QED
      BY <1>2, <2>1, <2>3, <3>1
  <2> QED
    BY <2>2, <2>3
<1>5. left \in Seq(Slots) /\ right \in Seq(Slots) /\ s \in Seq(Slots)
  BY <1>3, StackTypes
<1> DEFINE t == left \o right
<1>6. t \in Seq(Slots) /\ Sum(i, t) = Sum(i, left) + Sum(i, right) /\ Len(t) = m + n
  BY <1>3, <1>5, SumConcat, ConcatProperties
<1>7. \A k \in 1 .. Len(s) : Of(i, s[k]) = Of(i, t[k])
  BY <1>3, <1>4
<1> HIDE DEF t
<1>8. Sum(i, s) = Sum(i, t)
  BY <1>3, <1>5, <1>6, <1>7, SumAlike
<1> QED
  BY <1>1, <1>2, <1>6, <1>8 DEF left, right

\* The inventory written back holds what the player slots held.
LEMMA WriteBackFacts ==
    ASSUME Packed(inv), NEW slots \in [1 .. Hotbar + Storage -> Stacks]
    PROVE  /\ Packed(WriteBack(slots))
           /\ \A i \in Items : Sum(i, WriteBack(slots)) = Sum(i, slots)
<1> DEFINE hot == [k \in 1 .. Hotbar |-> IF slots[k] # Empty THEN slots[k]
                                         ELSE [inv[k] EXCEPT !.count = 0, !.rich = FALSE]]
           left == SubSeq(slots, 1, Hotbar)
           more == SubSeq(slots, Hotbar + 1, Hotbar + Storage)
<1>1. Hotbar \in Nat /\ Storage \in Nat /\ inv \in Seq(Held) /\ Len(inv) \in Nat /\ Len(inv) >= Hotbar
  BY SlotsAssumption DEF Packed
<1>2. ASSUME NEW k \in 1 .. Hotbar
      PROVE  hot[k] \in Held /\ \A i \in Items : Of(i, hot[k]) = Of(i, slots[k])
  <2>1. k \in 1 .. Hotbar + Storage /\ k \in 1 .. Len(inv)
    BY <1>1
  <2>2. slots[k] \in Stacks /\ inv[k] \in Held
    BY <1>1, <2>1
  <2>3. CASE slots[k] # Empty
    BY <2>2, <2>3, StackTypes
  <2>4. CASE slots[k] = Empty
    <3> DEFINE s == inv[k]
               x == [s EXCEPT !.count = 0, !.rich = FALSE]
    <3>1. s \in Held
      BY <2>2
    <3> HIDE DEF s
    <3>2. x \in Held /\ x.count = 0
      BY <3>1 DEF Held
    <3>3. hot[k] = x
      BY <2>4 DEF s
    <3>4. \A i \in Items : Of(i, x) = 0
      BY <3>2 DEF Of
    <3> HIDE DEF x, hot
    <3> QED
      BY <2>4, <3>2, <3>3, <3>4, StackTypes
  <2> QED
    BY <2>3, <2>4
<1>3. hot \in [1 .. Hotbar -> Held]
  <2>1. DOMAIN hot = 1 .. Hotbar /\ hot = [k \in 1 .. Hotbar |-> hot[k]]
    OBVIOUS
  <2> HIDE DEF hot
  <2> QED
    BY <1>2, <2>1
<1> HIDE DEF hot
<1>4. hot \in Seq(Held) /\ Len(hot) = Hotbar /\ hot \in Seq(Slots)
  BY <1>1, <1>3, StackTypes
<1>5. ASSUME NEW i \in Items
      PROVE  /\ left \in [1 .. Hotbar -> Stacks] /\ more \in [1 .. Storage -> Stacks]
             /\ \A k \in 1 .. Hotbar : left[k] = slots[k]
             /\ Sum(i, slots) = Sum(i, left) + Sum(i, more)
  BY <1>1, SumSplit
<1> HIDE DEF left, more
<1>6. ASSUME NEW i \in Items
      PROVE  /\ WithStacks(hot, more) \in Seq(Held)
             /\ Len(WithStacks(hot, more)) \in Hotbar .. Hotbar + Storage
             /\ Sum(i, WithStacks(hot, more)) = Sum(i, slots)
  <2>1. left \in Seq(Slots) /\ Len(left) = Hotbar
    BY <1>1, <1>5, StackTypes
  <2>2. Sum(i, hot) = Sum(i, left)
    BY <1>2, <1>4, <1>5, <2>1, SumAlike
  <2>3. /\ WithStacks(hot, more) \in Seq(Held)
        /\ Len(WithStacks(hot, more)) \in Len(hot) .. Len(hot) + Storage
        /\ Sum(i, WithStacks(hot, more)) = Sum(i, hot) + Sum(i, more)
    BY <1>1, <1>4, <1>5, WithStacksFacts
  <2> QED
    BY <1>4, <1>5, <2>2, <2>3
<1>7. "ore" \in Items
  BY DEF Items
<1> QED
  BY <1>6, <1>7 DEF WriteBack, hot, more, Packed

-----------------------------------------------------------------------------
(* One tick of a furnace. *)

\* Every station takes at least a tick.
LEMMA CookTimeFacts == ASSUME NEW t PROVE CookTime(t) \in Nat \ {0}
<1>1. (CookTicks + 1) \div 2 \in Nat \ {0}
  BY TimesAssumption
<1> QED
  BY <1>1, TimesAssumption DEF CookTime

\* A record, field by field.
RecordOf(e) == [type |-> e.type, input |-> e.input, fuel |-> e.fuel, output |-> e.output,
                burn |-> e.burn, smelt |-> e.smelt, xp |-> e.xp]

\* A record is its fields.
LEMMA RecordFacts ==
    ASSUME NEW e \in Records
    PROVE  /\ e = RecordOf(e) /\ e.type \in {"none", "furnace", "smoker"}
           /\ e.input \in Stacks /\ e.fuel \in Stacks /\ e.output \in Stacks
           /\ e.burn \in Nat /\ e.smelt \in Nat /\ e.xp \in Nat
           /\ e.input.count \in Nat /\ e.fuel.count \in Nat /\ e.output.count \in Nat
  BY StackTypes DEF Records, RecordOf

\* What one tick does to a record: f units of fuel are lit, and d items cooked.
Ticked(e, x, f, d) ==
    /\ x \in Records /\ x.type = e.type
    /\ f \in {0, 1} /\ d \in {0, 1}
    /\ x.fuel.count = e.fuel.count - f
    /\ x.input.count = e.input.count - d
    /\ x.smelt + x.burn + CookTime(e.type) * d <= e.smelt + e.burn + BurnTicks * f
    /\ x.xp = e.xp + XpPerCook * d
    /\ Within("ore", x) + d = Within("ore", e)
    /\ Within("ingot", x) = Within("ingot", e) + d
    /\ Within("coal", x) + f = Within("coal", e)
    /\ Within("tool", x) = Within("tool", e)

\* A stack that loses one item.
LEMMA LessFacts ==
    ASSUME NEW s \in Stacks, s # Empty, s.item \in Items
    PROVE  /\ Less(s) \in Stacks /\ Less(s).count = s.count - 1 /\ s.count > 0
           /\ \A i \in Items : Of(i, s) = Of(i, Less(s)) + IF s.item = i THEN 1 ELSE 0
<1>1. s \in Held /\ s.count \in Nat /\ s.count > 0 /\ s.count - 1 \in Nat
  BY StackTypes
<1>2. /\ Stack(s, s.count - 1) \in Stacks /\ Stack(s, s.count - 1).count = s.count - 1
      /\ \A i \in Items : Of(i, Stack(s, s.count - 1)) = IF s.item = i THEN s.count - 1 ELSE 0
  BY <1>1, StackFacts
<1> QED
  BY <1>1, <1>2 DEF Less, Of

\* A tick pays with fuel for heat, with heat for progress, and with
\* a cook's progress for one ore, one ingot and its experience.
LEMMA TickFacts ==
    ASSUME NEW e \in Records
    PROVE  \E f, d \in {0, 1} : Ticked(e, TickOnce(e), f, d)
<1> DEFINE lit == IF Lights(e) THEN [e EXCEPT !.fuel = Less(@), !.burn = BurnTicks] ELSE e
           C == CookTime(e.type)
           hot == [lit EXCEPT !.burn = @ - 1, !.smelt = Lesser(C, @ + 1)]
<1>1. /\ e = RecordOf(e) /\ e.type \in {"none", "furnace", "smoker"}
      /\ e.input \in Stacks /\ e.fuel \in Stacks /\ e.output \in Stacks
      /\ e.burn \in Nat /\ e.smelt \in Nat /\ e.xp \in Nat
      /\ e.input.count \in Nat /\ e.fuel.count \in Nat /\ e.output.count \in Nat
  BY RecordFacts
<1>2. C \in Nat /\ C > 0 /\ BurnTicks \in Nat /\ BurnTicks > 0 /\ XpPerCook \in Nat
  BY CookTimeFacts, TimesAssumption
<1>3. {"ore", "ingot", "coal", "tool"} = Items /\ Empty.item = "none"
  BY StackTypes DEF Items
<1>4. \A i \in Items, s \in Stacks : Of(i, s) \in Nat
  BY StackTypes, OfNat
<1>5. PICK f \in {0, 1} :
         /\ lit = [type |-> e.type, input |-> e.input, fuel |-> lit.fuel, output |-> e.output,
                   burn |-> lit.burn, smelt |-> e.smelt, xp |-> e.xp]
         /\ lit.fuel \in Stacks /\ lit.burn \in Nat /\ lit.burn = e.burn + BurnTicks * f
         /\ lit.fuel.count = e.fuel.count - f
         /\ \A i \in Items : Of(i, e.fuel) = Of(i, lit.fuel) + IF i = "coal" THEN f ELSE 0
  <2>1. CASE Lights(e)
    <3>1. e.burn = 0 /\ e.fuel.item = "coal" /\ e.fuel # Empty
      BY <1>3, <2>1 DEF Lights
    <3>2. /\ Less(e.fuel) \in Stacks /\ Less(e.fuel).count = e.fuel.count - 1
          /\ \A i \in Items : Of(i, e.fuel) = Of(i, Less(e.fuel)) + IF i = "coal" THEN 1 ELSE 0
      BY <1>1, <1>3, <3>1, LessFacts
    <3>3. lit = [type |-> e.type, input |-> e.input, fuel |-> Less(e.fuel), output |-> e.output,
                 burn |-> BurnTicks, smelt |-> e.smelt, xp |-> e.xp]
      BY <1>1, <2>1 DEF RecordOf
    <3> HIDE DEF lit
    <3>4. lit.fuel = Less(e.fuel) /\ lit.burn = BurnTicks
      BY <3>3
    <3>5. lit.burn = e.burn + BurnTicks * 1
      BY <1>2, <3>1, <3>4
    <3> QED
      BY <1>2, <3>2, <3>3, <3>4, <3>5
  <2>2. CASE ~ Lights(e)
    <3>1. lit = e
      BY <2>2
    <3> HIDE DEF lit
    <3>2. \A i \in Items : Of(i, e.fuel) = Of(i, e.fuel) + IF i = "coal" THEN 0 ELSE 0
      BY <1>1, <1>4
    <3>3. e.burn = e.burn + BurnTicks * 0 /\ e.fuel.count = e.fuel.count - 0
      BY <1>1, <1>2
    <3> QED
      BY <1>1, <3>1, <3>2, <3>3 DEF RecordOf
  <2> QED
    BY <2>1, <2>2
<1> DEFINE x == TickOnce(e)
<1>6. x = IF e.input = Empty THEN [e EXCEPT !.smelt = 0]
          ELSE IF ~ CanSmelt(e) \/ lit.burn = 0 THEN e
          ELSE IF hot.smelt >= CookTime(e.type) THEN Finish(hot)
          ELSE hot
  BY DEF TickOnce
<1> HIDE DEF x, lit
<1>7. ASSUME NEW y \in Records, y.type = e.type, y.input = e.input, y.fuel = e.fuel,
             y.output = e.output, y.burn = e.burn, y.xp = e.xp, y.smelt \in {0, e.smelt}
      PROVE  Ticked(e, y, 0, 0)
  <2>1. \A i \in Items : Within(i, y) = Within(i, e) /\ Within(i, e) \in Nat
    BY <1>1, <1>4, <1>7 DEF Within
  <2>2. y.smelt + y.burn + C * 0 <= e.smelt + e.burn + BurnTicks * 0
    BY <1>1, <1>2, <1>7
  <2>3. y.xp = e.xp + XpPerCook * 0
    BY <1>1, <1>2, <1>7
  <2>4. y.fuel.count = e.fuel.count - 0 /\ y.input.count = e.input.count - 0
    BY <1>1, <1>7
  <2> QED
    BY <1>3, <1>7, <2>1, <2>2, <2>3, <2>4 DEF Ticked
<1>8. CASE e.input = Empty
  <2>1. x = [type |-> e.type, input |-> e.input, fuel |-> e.fuel, output |-> e.output,
             burn |-> e.burn, smelt |-> 0, xp |-> e.xp]
    BY <1>1, <1>6, <1>8 DEF RecordOf
  <2>2. x \in Records
    BY <1>1, <2>1 DEF Records
  <2>3. Ticked(e, x, 0, 0)
    BY <1>7, <2>1, <2>2
  <2> QED
    BY <2>3 DEF x
<1>9. CASE e.input # Empty /\ (~ CanSmelt(e) \/ lit.burn = 0)
  <2>1. x = e
    BY <1>6, <1>9
  <2>2. Ticked(e, x, 0, 0)
    BY <1>7, <2>1
  <2> QED
    BY <2>2 DEF x
<1>10. CASE e.input # Empty /\ ~ (~ CanSmelt(e) \/ lit.burn = 0)
  <2>1. /\ e.input.item = "ore" /\ lit.burn > 0
        /\ e.output = Empty \/ (e.output.item = "ingot" /\ e.output.count < Cap)
    BY <1>5, <1>10 DEF CanSmelt
  <2> DEFINE n == Lesser(C, e.smelt + 1)
  <2>2. n \in Nat /\ n <= C /\ n <= e.smelt + 1
    BY <1>1, <1>2, LesserFacts
  <2>3. /\ hot.type = e.type /\ hot.input = e.input /\ hot.fuel = lit.fuel
        /\ hot.output = e.output /\ hot.burn = lit.burn - 1 /\ hot.smelt = n /\ hot.xp = e.xp
        /\ hot \in Records
    <3>1. hot = [type |-> e.type, input |-> e.input, fuel |-> lit.fuel, output |-> e.output,
                 burn |-> lit.burn - 1, smelt |-> n, xp |-> e.xp]
      <4> DEFINE fuel == lit.fuel
                 burn == lit.burn
      <4>1. lit = [type |-> e.type, input |-> e.input, fuel |-> fuel, output |-> e.output,
                   burn |-> burn, smelt |-> e.smelt, xp |-> e.xp]
        BY <1>5
      <4> HIDE DEF fuel, burn, n
      <4>2. lit.smelt = e.smelt /\ lit.burn = burn
        BY <4>1
      <4>3. hot = [lit EXCEPT !.burn = burn - 1, !.smelt = n]
        BY <4>2 DEF n
      <4> HIDE DEF hot
      <4>4. hot = [type |-> e.type, input |-> e.input, fuel |-> fuel, output |-> e.output,
                   burn |-> burn - 1, smelt |-> n, xp |-> e.xp]
        BY <4>1, <4>3
      <4> QED
        BY <4>4 DEF fuel, burn
    <3> HIDE DEF hot, n
    <3>2. lit.burn - 1 \in Nat
      BY <1>5, <2>1
    <3>3. hot \in Records
      BY <1>1, <1>5, <2>2, <3>1, <3>2 DEF Records
    <3> QED
      BY <3>1, <3>3
  <2> HIDE DEF hot, n
  <2>4. CASE ~ (hot.smelt >= C)
    <3>1. x = hot
      BY <1>6, <1>10, <2>4
    <3>2. \A i \in Items : Within(i, e) = Within(i, x) + IF i = "coal" THEN f ELSE 0
      <4> SUFFICES ASSUME NEW i \in Items
                   PROVE  Within(i, e) = Within(i, x) + IF i = "coal" THEN f ELSE 0
        OBVIOUS
      <4>1. Of(i, e.fuel) = Of(i, lit.fuel) + IF i = "coal" THEN f ELSE 0
        BY <1>5
      <4>2. Of(i, e.input) \in Nat /\ Of(i, lit.fuel) \in Nat /\ Of(i, e.output) \in Nat
        BY <1>1, <1>4, <1>5
      <4> QED
        BY <2>3, <3>1, <4>1, <4>2 DEF Within
    <3>3. \A i \in Items : Within(i, x) \in Nat
      BY <2>3, <3>1, ContentsFacts
    <3>4. x.smelt + x.burn + C * 0 <= e.smelt + e.burn + BurnTicks * f
      <4> DEFINE b == BurnTicks * f
      <4>1. b \in Nat /\ lit.burn = e.burn + b
        BY <1>2, <1>5
      <4> HIDE DEF b
      <4>2. x.smelt + x.burn + C * 0 <= e.smelt + e.burn + b
        BY <1>1, <1>2, <2>2, <2>3, <3>1, <4>1
      <4> QED
        BY <4>2 DEF b
    <3>5. x.xp = e.xp + XpPerCook * 0 /\ x.input.count = e.input.count - 0
      BY <1>1, <1>2, <2>3, <3>1
    <3>6. Ticked(e, x, f, 0)
      BY <1>3, <1>5, <2>3, <3>1, <3>2, <3>3, <3>4, <3>5 DEF Ticked
    <3> QED
      BY <3>6 DEF x
  <2>5. CASE hot.smelt >= C
    <3> DEFINE made == [item |-> "ingot", count |-> e.output.count + 1, rich |-> FALSE]
    <3>1. x = [hot EXCEPT !.input = Less(@), !.output = made, !.smelt = 0, !.xp = @ + XpPerCook]
      BY <1>6, <1>10, <2>3, <2>5 DEF Finish, Ingots
    <3>2. /\ Less(e.input) \in Stacks /\ Less(e.input).count = e.input.count - 1
          /\ \A i \in Items : Of(i, e.input) = Of(i, Less(e.input)) + IF i = "ore" THEN 1 ELSE 0
      BY <1>1, <1>3, <1>10, <2>1, LessFacts
    <3>3. made \in Stacks /\ \A i \in Items :
             Of(i, made) = Of(i, e.output) + IF i = "ingot" THEN 1 ELSE 0
      <4>1. made \in Stacks
        BY <1>1, <1>3 DEF Stacks
      <4>2. ASSUME NEW i \in Items
            PROVE  Of(i, made) = Of(i, e.output) + IF i = "ingot" THEN 1 ELSE 0
        <5>1. Of(i, made) = IF i = "ingot" THEN e.output.count + 1 ELSE 0
          BY DEF Of
        <5>2. Of(i, e.output) = IF i = "ingot" THEN e.output.count ELSE 0
          BY <2>1, StackTypes DEF Of
        <5> QED
          BY <1>1, <5>1, <5>2
      <4> QED
        BY <4>1, <4>2
    <3> HIDE DEF made
    <3>4. /\ x.type = e.type /\ x.input = Less(e.input) /\ x.fuel = lit.fuel /\ x.output = made
          /\ x.burn = lit.burn - 1 /\ x.smelt = 0 /\ x.xp = e.xp + XpPerCook /\ x \in Records
      <4>1. x = [type |-> e.type, input |-> Less(e.input), fuel |-> lit.fuel, output |-> made,
                 burn |-> lit.burn - 1, smelt |-> 0, xp |-> e.xp + XpPerCook]
        BY <2>3, <3>1 DEF Records
      <4>2. lit.burn - 1 \in Nat /\ e.xp + XpPerCook \in Nat
        BY <1>1, <1>2, <1>5, <2>1
      <4>3. x \in Records
        BY <1>1, <1>5, <3>2, <3>3, <4>1, <4>2 DEF Records
      <4> QED
        BY <4>1, <4>3
    <3>5. ASSUME NEW i \in Items
          PROVE  /\ Within(i, e) + (IF i = "ingot" THEN 1 ELSE 0)
                      = Within(i, x) + (IF i = "ore" THEN 1 ELSE 0) + (IF i = "coal" THEN f ELSE 0)
                 /\ Within(i, e) \in Nat /\ Within(i, x) \in Nat
      <4>1. /\ Of(i, e.fuel) = Of(i, lit.fuel) + IF i = "coal" THEN f ELSE 0
            /\ Of(i, e.input) = Of(i, Less(e.input)) + IF i = "ore" THEN 1 ELSE 0
            /\ Of(i, made) = Of(i, e.output) + IF i = "ingot" THEN 1 ELSE 0
        BY <1>5, <3>2, <3>3
      <4>2. Of(i, Less(e.input)) \in Nat /\ Of(i, lit.fuel) \in Nat /\ Of(i, e.output) \in Nat
        BY <1>1, <1>4, <1>5, <3>2
      <4>3. Within(i, e) \in Nat /\ Within(i, x) \in Nat
        BY <3>4, ContentsFacts
      <4> QED
        BY <3>4, <4>1, <4>2, <4>3 DEF Within
    <3>6. x.smelt + x.burn + C * 1 <= e.smelt + e.burn + BurnTicks * f
      <4> DEFINE b == BurnTicks * f
      <4>1. b \in Nat /\ lit.burn = e.burn + b
        BY <1>2, <1>5
      <4> HIDE DEF b
      <4>2. C <= e.smelt + 1
        BY <1>1, <1>2, <2>2, <2>3, <2>5
      <4>3. x.smelt + x.burn + C * 1 <= e.smelt + e.burn + b
        BY <1>1, <1>2, <1>5, <3>4, <4>1, <4>2
      <4> QED
        BY <4>3 DEF b
    <3>7. x.xp = e.xp + XpPerCook * 1 /\ x.input.count = e.input.count - 1
      BY <1>1, <1>2, <3>2, <3>4
    <3>8. Ticked(e, x, f, 1)
      <4>1. /\ Within("ore", x) + 1 = Within("ore", e)
            /\ Within("ingot", x) = Within("ingot", e) + 1
            /\ Within("coal", x) + f = Within("coal", e)
            /\ Within("tool", x) = Within("tool", e)
        BY <1>3, <3>5
      <4> QED
        BY <1>5, <3>4, <3>6, <3>7, <4>1 DEF Ticked
    <3> QED
      BY <3>8 DEF x
  <2> QED
    BY <2>4, <2>5
<1> QED
  BY <1>8, <1>9, <1>10

-----------------------------------------------------------------------------
(* The ledger of a session. *)

\* Products, for the leaves that know no multiplication.
LEMMA Distributes == ASSUME NEW a \in Int, NEW b \in Int, NEW c \in Int
                     PROVE  (a + b) * c = a * c + b * c
  OBVIOUS

\* Quotient and remainder.
LEMMA Division == ASSUME NEW x \in Nat, NEW u \in Nat \ {0}
                  PROVE  /\ x \div u \in Nat /\ x % u \in Nat
                         /\ x = (x \div u) * u + (x % u)
  OBVIOUS

\* The type invariant.  Between steps the snapshot is the record.
SessionTypes ==
    /\ block \in {"air", "furnace", "smoker"}
    /\ entity \in Records /\ marked = entity
    /\ Packed(inv) /\ cursor \in Cursors
    /\ ground \in [Items -> Nat] /\ lost \in [Items -> Nat]
    /\ gained \in Nat /\ burnt \in Nat /\ spent \in Nat /\ cooked \in Nat

\* The items i, wherever they are.
Ledger(i) == ground[i] + lost[i] + Sum(i, inv) + Of(i, cursor) + Within(i, entity)

\* A step that cooks nothing loses no item and makes neither heat nor points.
Moved ==
    /\ \A i \in Items : Ledger(i)' = Ledger(i)
    /\ entity'.smelt + entity'.burn <= entity.smelt + entity.burn
    /\ gained' * XpUnit + entity'.xp <= gained * XpUnit + entity.xp
    /\ UNCHANGED cookVars

\* What the cursor can hold.
LEMMA CursorFacts ==
    /\ Empty \in Cursors
    /\ \A s \in Cursors : s \in Stacks /\ s \in Slots /\ (s = Empty \/ (s \in Held /\ s.item \in Items))
    /\ \A s \in Cursors, i \in Items : Of(i, s) \in Nat
<1>1. Empty \in Cursors
  BY StackTypes, CapAssumption DEF Cursors
<1>2. \A s \in Cursors : s \in Stacks /\ s \in Slots
  BY StackTypes DEF Cursors
<1>3. \A s \in Held : s.item \in Items
  BY DEF Held
<1>4. \A s \in Cursors : s = Empty \/ (s \in Held /\ s.item \in Items)
  BY <1>2, <1>3, StackTypes
<1>5. \A s \in Cursors, i \in Items : Of(i, s) \in Nat
  BY <1>2, OfNat
<1> QED
  BY <1>1, <1>2, <1>4, <1>5

\* The parts of the ledger are natural numbers.
LEMMA LedgerNats ==
    ASSUME SessionTypes, NEW i \in Items
    PROVE  /\ ground[i] \in Nat /\ lost[i] \in Nat /\ Sum(i, inv) \in Nat
           /\ Of(i, cursor) \in Nat /\ Within(i, entity) \in Nat
<1>1. inv \in Seq(Slots)
  BY StackTypes DEF SessionTypes, Packed
<1>2. Sum(i, inv) \in Nat
  BY <1>1, SumNat
<1> QED
  BY <1>2, CursorFacts, ContentsFacts DEF SessionTypes

\* The total of the property is that of the ledger.
LEMMA TotalIs ==
    ASSUME NEW i \in Items, NEW p \in Seq(Held), NEW c \in Cursors, NEW e \in Records
    PROVE  Sum(i, p \o <<c>> \o Contents(e)) = Sum(i, p) + Of(i, c) + Within(i, e)
<1> DEFINE held == <<c>>
           rest == Contents(e)
           q == p \o held
<1>1. p \in Seq(Slots) /\ held \in Seq(Slots) /\ rest \in Seq(Slots)
  BY StackTypes, CursorFacts, ContentsFacts
<1>2. Sum(i, held) = Of(i, c) /\ Sum(i, rest) = Within(i, e)
  BY CursorFacts, SumOne, ContentsFacts
<1> HIDE DEF held, rest
<1>3. q \in Seq(Slots) /\ Sum(i, q) = Sum(i, p) + Of(i, c)
  BY <1>1, <1>2, SumConcat
<1> HIDE DEF q
<1>4. Sum(i, q \o rest) = Sum(i, q) + Within(i, e)
  BY <1>1, <1>2, <1>3, SumConcat
<1> QED
  BY <1>3, <1>4 DEF q, held, rest

\* Settling the cursor keeps what the cursor and the drops hold.
LEMMA SettleFacts ==
    ASSUME SessionTypes, NEW drops, SettleCursor(drops),
           drops = NoDrops \/ drops \in [Items -> Nat]
    PROVE  /\ Packed(inv') /\ cursor' = Empty /\ ground' \in [Items -> Nat]
           /\ \A i \in Items : ground'[i] + Sum(i, inv')
                 = ground[i] + (IF drops = NoDrops THEN 0 ELSE drops[i])
                     + Sum(i, inv) + Of(i, cursor)
<1> DEFINE r == Returned
           D(i) == IF drops = NoDrops THEN 0 ELSE drops[i]
<1>1. Packed(inv) /\ cursor \in Cursors /\ ground \in [Items -> Nat]
      /\ inv \in Seq(Held) /\ Hotbar \in Nat /\ Len(inv) \in Nat /\ Len(inv) >= Hotbar
  BY SlotsAssumption DEF SessionTypes, Packed
<1>2. /\ r.slots \in Seq(Held) /\ Packed(r.slots) /\ r.left \in Nat
      /\ \A i \in Items : Sum(i, r.slots) + (IF i = cursor.item THEN r.left ELSE 0)
                             = Sum(i, inv) + Of(i, cursor)
  <2>1. CASE cursor = Empty
    <3>1. r = [slots |-> inv, left |-> 0]
      BY <2>1 DEF Returned
    <3>2. \A i \in Items : Of(i, cursor) = 0 /\ i # cursor.item
      BY <2>1, StackTypes
    <3> QED
      BY <1>1, <3>1, <3>2
  <2>2. CASE cursor # Empty
    <3>1. cursor \in Held /\ cursor.item \in Items /\ cursor.count \in Nat
      BY <1>1, <2>2, CursorFacts DEF Held
    <3> DEFINE j == cursor.item
               n == cursor.count
    <3>2. r \in Placing(j, n)
      BY <1>1, <2>2, <3>1, AddItemFacts DEF Returned
    <3> HIDE DEF r
    <3>3. /\ r.slots \in Seq(Held) /\ r.left \in Nat
          /\ Len(r.slots) \in Len(inv) .. Hotbar + Storage
          /\ Sum(j, r.slots) + r.left = Sum(j, inv) + n
          /\ \A k \in Items \ {j} : Sum(k, r.slots) = Sum(k, inv)
      BY <3>2 DEF Placing
    <3>4. Packed(r.slots)
      BY <1>1, <3>3, SlotsAssumption DEF Packed
    <3>5. ASSUME NEW i \in Items
          PROVE  Sum(i, r.slots) + (IF i = cursor.item THEN r.left ELSE 0)
                   = Sum(i, inv) + Of(i, cursor)
      <4>1. Of(i, cursor) = IF i = j THEN n ELSE 0
        BY DEF Of
      <4>2. CASE i = j
        BY <3>3, <4>1, <4>2
      <4>3. CASE i # j
        <5>1. Sum(i, r.slots) = Sum(i, inv)
          BY <3>3, <4>3
        <5> QED
          BY <4>1, <4>3, <5>1
      <4> QED
        BY <4>2, <4>3
    <3> QED
      BY <3>3, <3>4, <3>5
  <2> QED
    BY <2>1, <2>2
<1>3. inv' = r.slots /\ cursor' = Empty
      /\ ground' = [i \in Items |-> Drop(i, drops) + (IF i = cursor.item THEN r.left ELSE 0)]
  BY DEF SettleCursor
<1>4. ASSUME NEW i \in Items PROVE D(i) \in Nat /\ Drop(i, drops) = ground[i] + D(i)
  <2>1. CASE drops = NoDrops
    <3>1. i \notin DOMAIN drops
      BY <2>1 DEF NoDrops
    <3> QED
      BY <1>1, <2>1, <3>1 DEF Drop
  <2>2. CASE drops # NoDrops
    BY <1>1, <2>2 DEF Drop
  <2> QED
    BY <2>1, <2>2
<1> HIDE DEF r, D
<1>5. ASSUME NEW i \in Items
      PROVE  /\ ground'[i] \in Nat
             /\ ground'[i] + Sum(i, inv') = ground[i] + D(i) + Sum(i, inv) + Of(i, cursor)
  <2> DEFINE back == IF i = cursor.item THEN r.left ELSE 0
             now == Sum(i, r.slots)
  <2>1. back \in Nat /\ D(i) \in Nat /\ ground[i] \in Nat
    BY <1>1, <1>2, <1>4
  <2>2. ground'[i] = (ground[i] + D(i)) + back /\ inv' = r.slots
    BY <1>3, <1>4
  <2>3. now + back = Sum(i, inv) + Of(i, cursor)
    BY <1>2
  <2>4. now \in Nat /\ Sum(i, inv) \in Nat /\ Of(i, cursor) \in Nat
    BY <1>1, <1>2, StackTypes, SumNat, CursorFacts
  <2> HIDE DEF back
  <2> QED
    BY <2>1, <2>2, <2>3, <2>4
<1>6. ground' \in [Items -> Nat]
  BY <1>3, <1>5
<1> QED
  BY <1>2, <1>3, <1>5, <1>6 DEF D

-----------------------------------------------------------------------------
(* A click, and the closing of the screen. *)

\* A click on the screen.
LEMMA TransactKeeps ==
    ASSUME SessionTypes, NEW click \in Clicks, NEW i \in 1 .. MenuSize, Transact(click, i)
    PROVE  SessionTypes' /\ Moved
<1> DEFINE m == Apply(click, Menu, i)
           N == Hotbar + Storage
           right == SubSeq(m.slots, PlayerStart, MenuSize)
<1>1. /\ ~ MenuThrows
      /\ entity' = [entity EXCEPT !.input = Plain(m.slots[1]), !.fuel = Plain(m.slots[2]),
                                  !.output = Plain(m.slots[3])]
      /\ inv' = WriteBack(right) /\ cursor' = m.cursor /\ marked' = entity'
      /\ UNCHANGED <<block, ground, gained, lost, burnt, spent, cooked>>
  BY DEF Transact, cookVars
<1>2. Packed(inv) /\ entity \in Records /\ cursor \in Cursors
  BY DEF SessionTypes
<1>3. /\ Menu \in Legal /\ Menu.cursor = cursor
      /\ \A k \in Items : Sum(k, Menu.slots) = Within(k, entity) + Sum(k, inv)
  BY <1>1, <1>2, MenuFacts
<1>4. Clicked(Menu, m)
  BY <1>3, ApplyFacts
<1> HIDE DEF m
<1>5. /\ m.slots \in [1 .. MenuSize -> Stacks] /\ m.cursor \in Cursors
      /\ \A k \in Items : Sum(k, m.slots) + Of(k, m.cursor)
                            = (Within(k, entity) + Sum(k, inv)) + Of(k, cursor)
  BY <1>3, <1>4 DEF Clicked
<1>6. N \in Nat /\ MenuSize = 3 + N /\ 3 \in Nat /\ PlayerStart = 3 + 1
  BY SlotsAssumption DEF MenuSize, PlayerStart
<1>7. \A k \in {1, 2, 3} : m.slots[k] \in Stacks
  BY <1>5, <1>6
<1>8. ASSUME NEW s \in Stacks
      PROVE  Plain(s) \in Stacks /\ \A k \in Items : Of(k, Plain(s)) = Of(k, s)
  <2>1. CASE s = Empty
    <3> DEFINE no == FALSE
    <3>1. s = [item |-> "none", count |-> 0, rich |-> no]
      BY <2>1 DEF Empty
    <3>2. Plain(s) = [s EXCEPT !.rich = no]
      BY DEF Plain
    <3> HIDE DEF no
    <3>3. [s EXCEPT !.rich = no] = s
      BY <3>1
    <3>4. Plain(s) = Empty
      BY <2>1, <3>2, <3>3
    <3> QED
      BY <2>1, <3>4
  <2>2. CASE s # Empty
    <3>1. s \in [item : Items, count : Nat \ {0}, rich : BOOLEAN]
      BY <2>2 DEF Stacks
    <3>2. /\ Plain(s) \in [item : Items, count : Nat \ {0}, rich : BOOLEAN]
          /\ Plain(s).item = s.item /\ Plain(s).count = s.count
      BY <3>1 DEF Plain
    <3> QED
      BY <3>2 DEF Stacks, Of
  <2> QED
    BY <2>1, <2>2
<1>9. /\ entity' \in Records
      /\ entity'.burn = entity.burn /\ entity'.smelt = entity.smelt /\ entity'.xp = entity.xp
      /\ entity'.input = Plain(m.slots[1]) /\ entity'.fuel = Plain(m.slots[2])
      /\ entity'.output = Plain(m.slots[3])
  <2> DEFINE a == Plain(m.slots[1])
             b == Plain(m.slots[2])
             c == Plain(m.slots[3])
  <2>1. a \in Stacks /\ b \in Stacks /\ c \in Stacks
    BY <1>7, <1>8
  <2>2. entity' = [entity EXCEPT !.input = a, !.fuel = b, !.output = c]
    BY <1>1
  <2> HIDE DEF a, b, c
  <2>3. /\ entity' \in Records
        /\ entity'.burn = entity.burn /\ entity'.smelt = entity.smelt /\ entity'.xp = entity.xp
        /\ entity'.input = a /\ entity'.fuel = b /\ entity'.output = c
    BY <1>2, <2>1, <2>2 DEF Records
  <2> QED
    BY <2>3 DEF a, b, c
<1>10. ASSUME NEW k \in Items
       PROVE  /\ right \in [1 .. N -> Stacks]
              /\ Sum(k, m.slots) = Within(k, entity') + Sum(k, right)
  <2> DEFINE left == SubSeq(m.slots, 1, 3)
  <2>0. m.slots \in [1 .. 3 + N -> Stacks]
    BY <1>5, <1>6
  <2>1. /\ left \in [1 .. 3 -> Stacks] /\ SubSeq(m.slots, 3 + 1, 3 + N) \in [1 .. N -> Stacks]
        /\ \A x \in 1 .. 3 : left[x] = m.slots[x]
        /\ Sum(k, m.slots) = Sum(k, left) + Sum(k, SubSeq(m.slots, 3 + 1, 3 + N))
    <3> HIDE DEF N
    <3> QED
      BY <1>6, <2>0, SumSplit
  <2>2. right = SubSeq(m.slots, 3 + 1, 3 + N)
    BY <1>6
  <2> HIDE DEF right, left
  <2> DEFINE a == m.slots[1]
             b == m.slots[2]
             c == m.slots[3]
  <2>3. left = <<a, b, c>>
    BY <2>1
  <2>4. a \in Stacks /\ b \in Stacks /\ c \in Stacks
    BY <1>7
  <2>5. Within(k, entity') = Of(k, a) + Of(k, b) + Of(k, c)
    BY <1>8, <1>9, <2>4 DEF Within
  <2> HIDE DEF a, b, c
  <2>6. Sum(k, left) = Of(k, a) + Of(k, b) + Of(k, c)
    BY <2>3, <2>4, StackTypes, SumThree
  <2> QED
    BY <2>1, <2>2, <2>5, <2>6
<1>11. right \in [1 .. N -> Stacks]
  BY <1>10 DEF Items
<1>12. Packed(inv') /\ \A k \in Items : Sum(k, inv') = Sum(k, right)
  BY <1>1, <1>2, <1>11, WriteBackFacts
<1> HIDE DEF right, N
<1>13. SessionTypes'
  BY <1>1, <1>5, <1>9, <1>12 DEF SessionTypes
<1>14. ASSUME NEW k \in Items PROVE Ledger(k)' = Ledger(k)
  <2> DEFINE G == ground[k]
             L == lost[k]
             now == Sum(k, inv')
             was == Sum(k, inv)
             c == Of(k, cursor)
             d == Of(k, cursor')
             e == Within(k, entity)
             f == Within(k, entity')
  <2>1. G \in Nat /\ L \in Nat /\ was \in Nat /\ c \in Nat /\ e \in Nat
    BY LedgerNats
  <2>2. now \in Nat /\ d \in Nat /\ f \in Nat
    <3>1. inv' \in Seq(Slots)
      BY <1>12, StackTypes DEF Packed
    <3> QED
      BY <1>1, <1>5, <1>9, <3>1, SumNat, CursorFacts, ContentsFacts
  <2>3. (f + now) + d = (e + was) + c
    BY <1>1, <1>5, <1>10, <1>12
  <2>4. Ledger(k) = G + L + was + c + e /\ Ledger(k)' = G + L + now + d + f
    BY <1>1 DEF Ledger
  <2> HIDE DEF G, L, now, was, c, d, e, f
  <2> QED
    BY <2>1, <2>2, <2>3, <2>4
<1>15. entity.burn \in Nat /\ entity.smelt \in Nat /\ entity.xp \in Nat /\ gained \in Nat
       /\ XpUnit \in Nat
  BY RecordFacts, TimesAssumption DEF SessionTypes
<1>16. /\ entity'.smelt + entity'.burn <= entity.smelt + entity.burn
       /\ gained' * XpUnit + entity'.xp <= gained * XpUnit + entity.xp
  BY <1>1, <1>9, <1>15
<1> QED
  BY <1>1, <1>13, <1>14, <1>16 DEF Moved, cookVars

\* closeFurnace: the cursor is settled, and whole points leave the record.
LEMMA CloseFurnaceKeeps ==
    ASSUME SessionTypes, CloseFurnace, UNCHANGED <<block, cookVars, lost>>
    PROVE  SessionTypes' /\ Moved
<1>1. SettleCursor(NoDrops)
  BY DEF CloseFurnace
<1>2. /\ Packed(inv') /\ cursor' = Empty /\ ground' \in [Items -> Nat]
      /\ \A i \in Items : ground'[i] + Sum(i, inv') = ground[i] + 0 + Sum(i, inv) + Of(i, cursor)
  BY <1>1, SettleFacts
<1>3. /\ entity = RecordOf(entity) /\ entity \in Records /\ entity.xp \in Nat
      /\ entity.burn \in Nat /\ entity.smelt \in Nat
      /\ gained \in Nat /\ XpUnit \in Nat \ {0} /\ marked = entity
  BY RecordFacts, TimesAssumption DEF SessionTypes
<1>4. /\ entity' \in Records /\ marked' = entity' /\ gained' \in Nat
      /\ entity'.smelt + entity'.burn <= entity.smelt + entity.burn
      /\ gained' * XpUnit + entity'.xp <= gained * XpUnit + entity.xp
      /\ entity'.input = entity.input /\ entity'.fuel = entity.fuel
      /\ entity'.output = entity.output
  <2>1. CASE entity' = entity /\ marked' = marked /\ gained' = gained
    BY <1>3, <2>1
  <2>2. CASE entity' = Drained(entity) /\ marked' = entity' /\ gained' = gained + Points(entity)
    <3> DEFINE q == entity.xp \div XpUnit
               r == entity.xp % XpUnit
    <3>1. q \in Nat /\ r \in Nat /\ entity.xp = q * XpUnit + r
      BY <1>3, Division
    <3>2. gained' = gained + q
      BY <2>2 DEF Points
    <3>3. entity' = [entity EXCEPT !.xp = r]
      BY <2>2 DEF Drained
    <3> HIDE DEF q, r
    <3>4. /\ entity' \in Records /\ entity'.xp = r /\ entity'.burn = entity.burn
          /\ entity'.smelt = entity.smelt /\ entity'.input = entity.input
          /\ entity'.fuel = entity.fuel /\ entity'.output = entity.output
      BY <1>3, <3>1, <3>3 DEF Records
    <3>5. gained' * XpUnit = gained * XpUnit + q * XpUnit
      BY <1>3, <3>1, <3>2, Distributes
    <3> DEFINE a == gained' * XpUnit
               b == gained * XpUnit
               c == q * XpUnit
    <3>6. a \in Int /\ b \in Int /\ c \in Int /\ a = b + c /\ entity.xp = c + r
      BY <1>3, <3>1, <3>2, <3>5
    <3> HIDE DEF a, b, c
    <3>7. a + r <= b + entity.xp
      BY <3>1, <3>6
    <3>8. gained' * XpUnit + entity'.xp <= gained * XpUnit + entity.xp
      BY <3>4, <3>7 DEF a, b
    <3> QED
      BY <1>3, <2>2, <3>1, <3>2, <3>4, <3>8
  <2> QED
    BY <2>1, <2>2 DEF CloseFurnace, hostVars
<1>5. SessionTypes'
  BY <1>2, <1>4, CursorFacts DEF SessionTypes, cookVars
<1>6. ASSUME NEW i \in Items PROVE Ledger(i)' = Ledger(i)
  <2>1. Within(i, entity') = Within(i, entity) /\ lost' = lost
    BY <1>4 DEF Within
  <2>2. Of(i, cursor') = 0
    BY <1>2, StackTypes
  <2> DEFINE a == ground'[i]
             b == Sum(i, inv')
             c == ground[i]
             d == Sum(i, inv)
             e == Of(i, cursor)
  <2>3. a \in Nat /\ b \in Nat /\ a + b = c + 0 + d + e
    <3>1. inv' \in Seq(Slots)
      BY <1>2, StackTypes DEF Packed
    <3> QED
      BY <1>2, <3>1, SumNat
  <2>4. c \in Nat /\ d \in Nat /\ e \in Nat /\ lost[i] \in Nat /\ Within(i, entity) \in Nat
    BY LedgerNats
  <2>5. Ledger(i)' = a + lost[i] + b + 0 + Within(i, entity)
        /\ Ledger(i) = c + lost[i] + d + e + Within(i, entity)
    BY <2>1, <2>2 DEF Ledger
  <2> HIDE DEF a, b, c, d, e
  <2> QED
    BY <2>3, <2>4, <2>5
<1> QED
  BY <1>4, <1>5, <1>6 DEF Moved

-----------------------------------------------------------------------------
(* The other steps that cook nothing. *)

\* A step that leaves what holds the items alone.
LEMMA IdleKeeps ==
    ASSUME SessionTypes, UNCHANGED <<hostVars, pocketVars, gained, cookVars, lost>>,
           block' \in {"air", "furnace", "smoker"}
    PROVE  SessionTypes' /\ Moved
<1>1. /\ UNCHANGED <<entity, marked, inv, cursor, ground, gained, burnt, spent, cooked, lost>>
  BY DEF hostVars, pocketVars, cookVars
<1>2. SessionTypes'
  BY <1>1 DEF SessionTypes, Packed
<1>3. /\ entity.burn \in Nat /\ entity.smelt \in Nat /\ entity.xp \in Nat
      /\ gained * XpUnit \in Int
  BY RecordFacts, TimesAssumption DEF SessionTypes
<1>4. Moved
  BY <1>1, <1>3 DEF Moved, Ledger, cookVars
<1> QED
  BY <1>2, <1>4

\* A new record is empty.
LEMMA NoEntityFacts ==
    /\ NoEntity \in Records /\ NoEntity.burn = 0 /\ NoEntity.smelt = 0 /\ NoEntity.xp = 0
    /\ \A i \in Items : Within(i, NoEntity) = 0
    /\ \A type \in {"furnace", "smoker"} :
          LET e == [NoEntity EXCEPT !.type = type]
          IN  /\ e \in Records /\ e.burn = 0 /\ e.smelt = 0 /\ e.xp = 0
              /\ \A i \in Items : Within(i, e) = 0
  BY StackTypes DEF NoEntity, Records, Within

\* A page that is left loses the cursor, and nothing else.
LEMMA LeavePageKeeps ==
    ASSUME SessionTypes, LeavePage
    PROVE  SessionTypes' /\ Moved
<1>1. /\ entity' = entity /\ marked' = marked /\ marked = entity /\ cursor' = Empty
      /\ lost' = [i \in Items |-> lost[i] + Sum(i, <<cursor>>)]
      /\ UNCHANGED <<block, inv, ground, gained, burnt, spent, cooked>>
  BY DEF LeavePage, cookVars, SessionTypes
<1>2. ASSUME NEW i \in Items
      PROVE  /\ Sum(i, <<cursor>>) = Of(i, cursor) /\ Of(i, cursor) \in Nat /\ lost[i] \in Nat
             /\ Of(i, cursor') = 0
  BY <1>1, SumOne, CursorFacts, LedgerNats, StackTypes DEF SessionTypes
<1>3. lost' \in [Items -> Nat] /\ \A i \in Items : lost'[i] = lost[i] + Of(i, cursor)
  BY <1>1, <1>2
<1>4. SessionTypes'
  BY <1>1, <1>3, CursorFacts DEF SessionTypes, Packed
<1>5. ASSUME NEW i \in Items PROVE Ledger(i)' = Ledger(i)
  <2>1. /\ ground[i] \in Nat /\ Sum(i, inv) \in Nat /\ Within(i, entity) \in Nat
    BY LedgerNats
  <2>2. Ledger(i)' = ground[i] + (lost[i] + Of(i, cursor)) + Sum(i, inv) + 0 + Within(i, entity)
    BY <1>1, <1>2, <1>3 DEF Ledger
  <2> QED
    BY <1>2, <2>1, <2>2 DEF Ledger
<1>6. /\ entity.burn \in Nat /\ entity.smelt \in Nat /\ entity.xp \in Nat
      /\ gained * XpUnit \in Int
  BY RecordFacts, TimesAssumption DEF SessionTypes
<1> QED
  BY <1>1, <1>4, <1>5, <1>6 DEF Moved, cookVars

\* A block placed over no record gets an empty one.
LEMMA PlaceKeeps ==
    ASSUME SessionTypes, NEW type \in Stations, Place(type)
    PROVE  SessionTypes' /\ Moved
<1>1. type \in {"furnace", "smoker"} /\ block' = type
      /\ UNCHANGED <<pocketVars, gained, cookVars, lost>>
  BY StationsAssumption DEF Place
<1>2. CASE entity # NoEntity
  BY <1>1, <1>2, IdleKeeps DEF Place
<1>3. CASE entity = NoEntity
  <2>1. /\ entity' = [NoEntity EXCEPT !.type = type] /\ marked' = entity'
        /\ UNCHANGED <<inv, cursor, ground, gained, burnt, spent, cooked, lost>>
    BY <1>1, <1>3 DEF Place, pocketVars, cookVars
  <2>2. /\ entity' \in Records /\ entity'.burn = 0 /\ entity'.smelt = 0 /\ entity'.xp = 0
        /\ entity.burn = 0 /\ entity.smelt = 0 /\ entity.xp = 0
        /\ \A i \in Items : Within(i, entity') = 0 /\ Within(i, entity) = 0
    BY <1>1, <1>3, <2>1, NoEntityFacts
  <2>3. SessionTypes'
    BY <1>1, <2>1, <2>2 DEF SessionTypes, Packed
  <2>4. \A i \in Items : Ledger(i)' = Ledger(i)
    BY <2>1, <2>2 DEF Ledger
  <2>5. gained * XpUnit \in Int
    BY TimesAssumption DEF SessionTypes
  <2> QED
    BY <2>1, <2>2, <2>3, <2>4, <2>5 DEF Moved, cookVars
<1> QED
  BY <1>2, <1>3

\* A broken station drops what it held and gives its whole points.
LEMMA BreakKeeps ==
    ASSUME SessionTypes, Break
    PROVE  SessionTypes' /\ Moved
<1>1. block' = "air" /\ UNCHANGED <<cookVars, lost>>
  BY DEF Break
<1>2. CASE entity = NoEntity
  BY <1>1, <1>2, IdleKeeps DEF Break
<1>3. CASE entity # NoEntity
  <2> DEFINE drops == [i \in Items |-> Sum(i, Contents(entity))]
  <2>1. /\ SettleCursor(drops) /\ entity' = NoEntity /\ marked' = NoEntity
        /\ gained' = gained + Points(entity)
    BY <1>3 DEF Break
  <2>2. drops \in [Items -> Nat] /\ \A i \in Items : drops[i] = Within(i, entity)
    BY ContentsFacts DEF SessionTypes
  <2>3. drops # NoDrops
    <3>1. "ore" \in DOMAIN drops /\ "ore" \notin DOMAIN NoDrops
      BY DEF Items, NoDrops
    <3> QED
      BY <3>1
  <2> HIDE DEF drops
  <2>4. /\ Packed(inv') /\ cursor' = Empty /\ ground' \in [Items -> Nat]
        /\ \A i \in Items : ground'[i] + Sum(i, inv')
              = ground[i] + drops[i] + Sum(i, inv) + Of(i, cursor)
    BY <2>1, <2>2, <2>3, SettleFacts
  <2>5. /\ entity.xp \in Nat /\ entity.burn \in Nat /\ entity.smelt \in Nat
        /\ gained \in Nat /\ XpUnit \in Nat \ {0}
    BY RecordFacts, TimesAssumption DEF SessionTypes
  <2> DEFINE q == entity.xp \div XpUnit
             r == entity.xp % XpUnit
  <2>6. q \in Nat /\ r \in Nat /\ entity.xp = q * XpUnit + r
    BY <2>5, Division
  <2>7. gained' = gained + q
    BY <2>1 DEF Points
  <2> HIDE DEF q, r
  <2>8. gained' \in Nat /\ gained' * XpUnit + 0 <= gained * XpUnit + entity.xp
    <3>1. gained' * XpUnit = gained * XpUnit + q * XpUnit
      BY <2>5, <2>6, <2>7, Distributes
    <3> DEFINE a == gained' * XpUnit
               b == gained * XpUnit
               c == q * XpUnit
    <3>2. a \in Int /\ b \in Int /\ c \in Int /\ a = b + c /\ entity.xp = c + r
      BY <2>5, <2>6, <2>7, <3>1
    <3> HIDE DEF a, b, c
    <3>3. a + 0 <= b + entity.xp
      BY <2>6, <3>2
    <3> QED
      BY <2>5, <2>6, <2>7, <3>3 DEF a, b
  <2>9. SessionTypes'
    BY <1>1, <2>1, <2>4, <2>8, CursorFacts, NoEntityFacts DEF SessionTypes, cookVars
  <2>10. ASSUME NEW i \in Items PROVE Ledger(i)' = Ledger(i)
    <3> DEFINE a == ground'[i]
               b == Sum(i, inv')
               c == ground[i]
               d == Sum(i, inv)
               e == Of(i, cursor)
               w == Within(i, entity)
    <3>1. a \in Nat /\ b \in Nat /\ a + b = c + w + d + e
      <4>1. inv' \in Seq(Slots)
        BY <2>4, StackTypes DEF Packed
      <4> QED
        BY <2>2, <2>4, <4>1, SumNat
    <3>2. c \in Nat /\ d \in Nat /\ e \in Nat /\ lost[i] \in Nat /\ w \in Nat
      BY LedgerNats
    <3>3. Ledger(i)' = a + lost[i] + b + 0 + 0 /\ Ledger(i) = c + lost[i] + d + e + w
      BY <1>1, <2>1, <2>4, NoEntityFacts, StackTypes DEF Ledger
    <3> HIDE DEF a, b, c, d, e, w
    <3> QED
      BY <3>1, <3>2, <3>3
  <2>11. entity'.smelt = 0 /\ entity'.burn = 0 /\ entity'.xp = 0
    BY <2>1, NoEntityFacts
  <2> QED
    BY <1>1, <2>5, <2>8, <2>9, <2>10, <2>11 DEF Moved
<1> QED
  BY <1>2, <1>3

\* Collected items move from the ground to the inventory.
LEMMA CollectKeeps ==
    ASSUME SessionTypes, NEW i \in Items, Collect(i)
    PROVE  SessionTypes' /\ Moved
<1> DEFINE r == AddItem(i, ground[i])
<1>1. /\ inv' = r.slots /\ ground' = [ground EXCEPT ![i] = r.left]
      /\ UNCHANGED <<block, entity, marked, cursor, gained, burnt, spent, cooked, lost>>
  BY DEF Collect, hostVars, cookVars
<1>2. Packed(inv) /\ ground \in [Items -> Nat] /\ ground[i] \in Nat /\ inv \in Seq(Held)
      /\ Len(inv) \in Nat /\ Len(inv) >= Hotbar /\ Hotbar \in Nat /\ Storage \in Nat
  BY SlotsAssumption DEF SessionTypes, Packed
<1>3. r \in Placing(i, ground[i])
  BY <1>2, AddItemFacts
<1> HIDE DEF r
<1>4. /\ r.slots \in Seq(Held) /\ r.left \in Nat
      /\ Len(r.slots) \in Len(inv) .. Hotbar + Storage
      /\ Sum(i, r.slots) + r.left = Sum(i, inv) + ground[i]
      /\ \A k \in Items \ {i} : Sum(k, r.slots) = Sum(k, inv)
  BY <1>3 DEF Placing
<1>5. Packed(inv') /\ ground' \in [Items -> Nat]
  BY <1>1, <1>2, <1>4 DEF Packed
<1>6. SessionTypes'
  BY <1>1, <1>5 DEF SessionTypes
<1>7. ASSUME NEW k \in Items PROVE Ledger(k)' = Ledger(k)
  <2> DEFINE a == ground'[k]
             b == Sum(k, inv')
             c == ground[k]
             d == Sum(k, inv)
             rest == Of(k, cursor)
             w == Within(k, entity)
  <2>1. c \in Nat /\ d \in Nat /\ rest \in Nat /\ lost[k] \in Nat /\ w \in Nat
    BY LedgerNats
  <2>2. a \in Nat /\ b \in Nat
    <3>1. inv' \in Seq(Slots)
      BY <1>5, StackTypes DEF Packed
    <3> QED
      BY <1>5, <3>1, SumNat
  <2>3. a + b = c + d
    <3>1. CASE k = i
      BY <1>1, <1>2, <1>4, <2>1, <2>2, <3>1
    <3>2. CASE k # i
      BY <1>1, <1>2, <1>4, <3>2
    <3> QED
      BY <3>1, <3>2
  <2>4. Ledger(k)' = a + lost[k] + b + rest + w /\ Ledger(k) = c + lost[k] + d + rest + w
    BY <1>1 DEF Ledger
  <2> HIDE DEF a, b, c, d, rest, w
  <2> QED
    BY <2>1, <2>2, <2>3, <2>4
<1>8. /\ entity.burn \in Nat /\ entity.smelt \in Nat /\ entity.xp \in Nat
      /\ gained * XpUnit \in Int
  BY RecordFacts, TimesAssumption DEF SessionTypes
<1> QED
  BY <1>1, <1>6, <1>7, <1>8 DEF Moved, cookVars

-----------------------------------------------------------------------------
(* The books, and cooking. *)

\* The conservation law in terms of the ledger.
Books ==
    /\ Ledger("ore") + cooked = Supply("ore")
    /\ Ledger("ingot") = Supply("ingot") + cooked
    /\ Ledger("coal") + burnt = Supply("coal")
    /\ Ledger("tool") = Supply("tool")

\* The inductive invariant.
SessionInv == SessionTypes /\ Books /\ NoFreeSmelt /\ XpOnce

\* The pack the player starts with.
LEMMA PackFacts == Packed(Pack) /\ Pack \in Seq(Slots)
<1>1. Pack \in Seq(Held)
  BY PackAssumption DEF Held
<1>2. Packed(Pack)
  BY <1>1, PackAssumption DEF Packed
<1> QED
  BY <1>1, <1>2, StackTypes

\* A step that only moves items keeps the books, the heat and the points.
LEMMA MovedKeeps ==
    ASSUME SessionInv, SessionTypes', Moved
    PROVE  SessionInv'
<1>1. /\ burnt' = burnt /\ spent' = spent /\ cooked' = cooked
      /\ Ledger("ore")' = Ledger("ore") /\ Ledger("ingot")' = Ledger("ingot")
      /\ Ledger("coal")' = Ledger("coal") /\ Ledger("tool")' = Ledger("tool")
  BY DEF Moved, cookVars, Items
<1>2. Books'
  <2>1. Books
    BY DEF SessionInv
  <2> QED
    BY <1>1, <2>1 DEF Books, Supply
<1>3. /\ entity.smelt \in Nat /\ entity.burn \in Nat /\ entity.xp \in Nat
      /\ entity'.smelt \in Nat /\ entity'.burn \in Nat /\ entity'.xp \in Nat
      /\ gained \in Nat /\ gained' \in Nat /\ burnt \in Nat /\ spent \in Nat /\ cooked \in Nat
      /\ XpUnit \in Nat /\ XpPerCook \in Nat /\ BurnTicks \in Nat
  BY RecordFacts, TimesAssumption DEF SessionTypes, SessionInv
<1>4. NoFreeSmelt'
  <2> DEFINE b == burnt * BurnTicks
             p == entity'.smelt
             q == entity'.burn
  <2>1. b \in Int /\ spent + entity.smelt + entity.burn <= b /\ p + q <= entity.smelt + entity.burn
        /\ p \in Nat /\ q \in Nat
    BY <1>3 DEF SessionInv, NoFreeSmelt, Moved
  <2> HIDE DEF b, p, q
  <2>2. spent + p + q <= b
    BY <1>3, <2>1
  <2> QED
    BY <1>1, <2>2 DEF NoFreeSmelt, b, p, q
<1>5. XpOnce'
  <2> DEFINE c == cooked * XpPerCook
             a == gained' * XpUnit + entity'.xp
             b == gained * XpUnit + entity.xp
  <2>1. c \in Int /\ a \in Int /\ b \in Int /\ b <= c /\ a <= b
    BY <1>3 DEF SessionInv, XpOnce, Moved
  <2> HIDE DEF a, b, c
  <2>2. a <= c
    BY <2>1
  <2> QED
    BY <1>1, <2>2 DEF XpOnce, a, c
<1> QED
  BY <1>2, <1>4, <1>5 DEF SessionInv

\* A tick that cooks keeps the books, the heat and the points.
LEMMA CookKeeps ==
    ASSUME SessionInv, Cook, UNCHANGED <<block, pocketVars, gained>>
    PROVE  SessionInv'
<1> DEFINE x == TickOnce(entity)
<1>1. /\ SessionTypes /\ Books /\ NoFreeSmelt /\ XpOnce
  BY DEF SessionInv
<1>2. PICK f, d \in {0, 1} : Ticked(entity, x, f, d)
  BY <1>1, TickFacts DEF SessionTypes
<1>3. /\ entity' = x /\ marked' = IF x = entity THEN marked ELSE x
      /\ burnt' = burnt + (entity.fuel.count - x.fuel.count)
      /\ cooked' = cooked + (entity.input.count - x.input.count)
      /\ spent' = spent + CookTime(x.type) * (entity.input.count - x.input.count)
      /\ UNCHANGED <<block, inv, cursor, ground, gained, lost>>
  BY DEF Cook, pocketVars
<1> HIDE DEF x
<1>4. /\ x \in Records /\ x.type = entity.type
      /\ x.fuel.count = entity.fuel.count - f /\ x.input.count = entity.input.count - d
      /\ x.smelt + x.burn + CookTime(entity.type) * d
            <= entity.smelt + entity.burn + BurnTicks * f
      /\ x.xp = entity.xp + XpPerCook * d
      /\ Within("ore", x) + d = Within("ore", entity)
      /\ Within("ingot", x) = Within("ingot", entity) + d
      /\ Within("coal", x) + f = Within("coal", entity)
      /\ Within("tool", x) = Within("tool", entity)
  BY <1>2 DEF Ticked
<1>5. /\ entity.smelt \in Nat /\ entity.burn \in Nat /\ entity.xp \in Nat
      /\ entity.fuel.count \in Nat /\ entity.input.count \in Nat
      /\ x.smelt \in Nat /\ x.burn \in Nat /\ x.xp \in Nat
      /\ gained \in Nat /\ burnt \in Nat /\ spent \in Nat /\ cooked \in Nat
      /\ XpUnit \in Nat /\ XpPerCook \in Nat /\ BurnTicks \in Nat
      /\ CookTime(entity.type) \in Nat
  BY <1>1, <1>4, RecordFacts, TimesAssumption, CookTimeFacts DEF SessionTypes
<1>6. /\ burnt' = burnt + f /\ cooked' = cooked + d
      /\ spent' = spent + CookTime(entity.type) * d /\ f \in Nat /\ d \in Nat
  <2>1. entity.fuel.count - x.fuel.count = f /\ entity.input.count - x.input.count = d
    BY <1>4, <1>5
  <2> QED
    BY <1>3, <1>4, <2>1
<1>7. SessionTypes'
  <2>1. marked' = entity'
    BY <1>1, <1>3 DEF SessionTypes
  <2>2. burnt' \in Nat /\ cooked' \in Nat /\ spent' \in Nat
    BY <1>5, <1>6
  <2> QED
    BY <1>1, <1>3, <1>4, <2>1, <2>2 DEF SessionTypes, Packed
<1>8. ASSUME NEW i \in Items
      PROVE  \E n \in Nat : /\ Ledger(i) = n + Within(i, entity) /\ Ledger(i)' = n + Within(i, x)
                            /\ Within(i, entity) \in Nat /\ Within(i, x) \in Nat
  <2> DEFINE n == ground[i] + lost[i] + Sum(i, inv) + Of(i, cursor)
  <2>1. n \in Nat /\ Within(i, entity) \in Nat /\ Within(i, x) \in Nat
    BY <1>1, <1>4, LedgerNats, ContentsFacts
  <2>2. Ledger(i) = n + Within(i, entity) /\ Ledger(i)' = n + Within(i, x)
    BY <1>3 DEF Ledger
  <2> HIDE DEF n
  <2> QED
    BY <2>1, <2>2
<1>9. Books'
  <2>1. "ore" \in Items /\ "ingot" \in Items /\ "coal" \in Items /\ "tool" \in Items
    BY DEF Items
  <2>2. Ledger("ore")' + d = Ledger("ore") /\ Ledger("ore")' \in Nat
    BY <1>4, <1>6, <1>8, <2>1
  <2>3. Ledger("ingot")' = Ledger("ingot") + d /\ Ledger("ingot") \in Nat
    BY <1>4, <1>6, <1>8, <2>1
  <2>4. Ledger("coal")' + f = Ledger("coal") /\ Ledger("coal")' \in Nat
    BY <1>4, <1>6, <1>8, <2>1
  <2>5. Ledger("tool")' = Ledger("tool")
    BY <1>4, <1>6, <1>8, <2>1
  <2>6. /\ Supply("ore")' = Supply("ore") /\ Supply("ingot")' = Supply("ingot")
        /\ Supply("coal")' = Supply("coal") /\ Supply("tool")' = Supply("tool")
    BY DEF Supply
  <2>7. Ledger("ore")' + cooked' = Supply("ore")
    BY <1>1, <1>5, <1>6, <2>2 DEF Books
  <2>8. Ledger("ingot")' = Supply("ingot") + cooked'
    <3>1. Ledger("ingot") = Supply("ingot") + cooked /\ Supply("ingot") \in Nat
      <4>1. Pack \in Seq(Slots)
        BY PackFacts
      <4>2. Sum("ingot", Pack) \in Nat /\ Lying["ingot"] \in Nat
        BY <2>1, <4>1, SumNat, LyingAssumption
      <4> QED
        BY <1>1, <4>2 DEF Books, Supply
    <3> QED
      BY <1>5, <1>6, <2>3, <3>1
  <2>9. Ledger("coal")' + burnt' = Supply("coal")
    BY <1>1, <1>5, <1>6, <2>4 DEF Books
  <2> QED
    BY <1>1, <2>5, <2>6, <2>7, <2>8, <2>9 DEF Books
<1>10. NoFreeSmelt'
  <2> DEFINE b == burnt * BurnTicks
             c == burnt' * BurnTicks
             e == BurnTicks * f
             t == CookTime(entity.type) * d
  <2>1. c = b + e
    <3>1. (burnt + f) * BurnTicks = burnt * BurnTicks + f * BurnTicks
      BY <1>5, <1>6, Distributes
    <3>2. f * BurnTicks = BurnTicks * f
      BY <1>5, <1>6
    <3> QED
      BY <1>6, <3>1, <3>2
  <2>2. /\ b \in Int /\ c \in Int /\ e \in Int /\ t \in Int /\ spent' = spent + t
        /\ spent + entity.smelt + entity.burn <= b
        /\ x.smelt + x.burn + t <= entity.smelt + entity.burn + e
    BY <1>1, <1>4, <1>5, <1>6 DEF NoFreeSmelt
  <2> HIDE DEF b, c, e, t
  <2>3. spent' + x.smelt + x.burn <= c
    BY <1>5, <2>1, <2>2
  <2> QED
    BY <1>3, <2>3 DEF NoFreeSmelt, c
<1>11. XpOnce'
  <2> DEFINE a == gained * XpUnit
             c == cooked * XpPerCook
             e == cooked' * XpPerCook
             w == XpPerCook * d
  <2>1. e = c + w
    <3>1. (cooked + d) * XpPerCook = cooked * XpPerCook + d * XpPerCook
      BY <1>5, <1>6, Distributes
    <3>2. d * XpPerCook = XpPerCook * d
      BY <1>5, <1>6
    <3> QED
      BY <1>6, <3>1, <3>2
  <2>2. a \in Int /\ c \in Int /\ w \in Int /\ a + entity.xp <= c /\ x.xp = entity.xp + w
    BY <1>1, <1>4, <1>5, <1>6 DEF XpOnce
  <2>3. gained' = gained
    BY <1>3
  <2> HIDE DEF a, c, e, w
  <2>4. a + x.xp <= e
    BY <1>5, <2>1, <2>2
  <2> QED
    BY <1>3, <2>3, <2>4 DEF XpOnce, a, e
<1> QED
  BY <1>7, <1>9, <1>10, <1>11 DEF SessionInv

-----------------------------------------------------------------------------
(* The theorems. *)

\* A stale record goes, and what it held is lost.
LEMMA RemoveStaleKeeps ==
    ASSUME SessionTypes, RemoveStale, UNCHANGED <<block, pocketVars, gained>>
    PROVE  SessionTypes' /\ Moved
<1>1. /\ entity' = NoEntity /\ marked' = NoEntity
      /\ lost' = [i \in Items |-> lost[i] + Sum(i, Contents(entity))]
      /\ UNCHANGED <<block, inv, cursor, ground, gained, burnt, spent, cooked>>
  BY DEF RemoveStale, pocketVars, cookVars
<1>2. ASSUME NEW i \in Items
      PROVE  /\ Sum(i, Contents(entity)) = Within(i, entity) /\ Within(i, entity) \in Nat
             /\ lost[i] \in Nat
  BY ContentsFacts, LedgerNats DEF SessionTypes
<1>3. lost' \in [Items -> Nat] /\ \A i \in Items : lost'[i] = lost[i] + Within(i, entity)
  BY <1>1, <1>2
<1>4. SessionTypes'
  BY <1>1, <1>3, NoEntityFacts DEF SessionTypes, Packed
<1>5. ASSUME NEW i \in Items PROVE Ledger(i)' = Ledger(i)
  <2> DEFINE g == ground[i]
             p == Sum(i, inv)
             c == Of(i, cursor)
             w == Within(i, entity)
  <2>1. g \in Nat /\ p \in Nat /\ c \in Nat /\ w \in Nat /\ lost[i] \in Nat
    BY LedgerNats
  <2>2. Ledger(i)' = g + (lost[i] + w) + p + c + 0 /\ Ledger(i) = g + lost[i] + p + c + w
    BY <1>1, <1>3, NoEntityFacts DEF Ledger
  <2> HIDE DEF g, p, c, w
  <2> QED
    BY <2>1, <2>2
<1>6. /\ entity.burn \in Nat /\ entity.smelt \in Nat /\ entity.xp \in Nat
      /\ gained \in Nat /\ XpUnit \in Nat
      /\ entity'.burn = 0 /\ entity'.smelt = 0 /\ entity'.xp = 0
  BY <1>1, RecordFacts, TimesAssumption, NoEntityFacts DEF SessionTypes
<1>7. /\ entity'.smelt + entity'.burn <= entity.smelt + entity.burn
      /\ gained' * XpUnit + entity'.xp <= gained * XpUnit + entity.xp
  BY <1>1, <1>6
<1> QED
  BY <1>1, <1>4, <1>5, <1>7 DEF Moved, cookVars

\* The invariant holds at the start,
LEMMA SessionInvInit == SessionInit => SessionInv
<1> SUFFICES ASSUME SessionInit PROVE SessionInv
  OBVIOUS
<1>1. /\ block = "air" /\ entity = NoEntity /\ marked = NoEntity /\ inv = Pack
      /\ cursor = Empty /\ ground = Lying /\ gained = 0
      /\ burnt = 0 /\ spent = 0 /\ cooked = 0 /\ lost = [i \in Items |-> 0]
  BY DEF SessionInit
<1>2. SessionTypes
  BY <1>1, PackFacts, LyingAssumption, NoEntityFacts, CursorFacts DEF SessionTypes
<1>3. ASSUME NEW i \in Items PROVE Ledger(i) = Supply(i) /\ Supply(i) \in Nat
  <2>1. Lying[i] \in Nat /\ Sum(i, Pack) \in Nat
    BY LyingAssumption, PackFacts, SumNat
  <2>2. Of(i, cursor) = 0 /\ Within(i, entity) = 0 /\ lost[i] = 0
    BY <1>1, NoEntityFacts, StackTypes
  <2>3. Ledger(i) = Lying[i] + 0 + Sum(i, Pack) + 0 + 0 /\ Supply(i) = Lying[i] + Sum(i, Pack)
    BY <1>1, <2>2 DEF Ledger, Supply
  <2> QED
    BY <2>1, <2>3
<1>4. Books
  BY <1>1, <1>3 DEF Books, Items
<1>5. NoFreeSmelt /\ XpOnce
  BY <1>1, NoEntityFacts, TimesAssumption DEF NoFreeSmelt, XpOnce
<1> QED
  BY <1>2, <1>4, <1>5 DEF SessionInv

\* every step preserves it,
LEMMA SessionInvStep == SessionInv /\ [SessionNext]_sessionVars => SessionInv'
<1> SUFFICES ASSUME SessionInv, [SessionNext]_sessionVars PROVE SessionInv'
  OBVIOUS
<1> USE DEF SessionInv
<1>1. SessionTypes
  OBVIOUS
<1>2. block \in {"air", "furnace", "smoker"}
  BY <1>1 DEF SessionTypes
<1>3. ASSUME NEW click \in Clicks, NEW i \in 1 .. MenuSize, Transact(click, i) PROVE SessionInv'
  BY <1>1, <1>3, TransactKeeps, MovedKeeps
<1>4. CASE Close
  <2>1. CloseFurnace /\ UNCHANGED <<block, cookVars, lost>>
    BY <1>4 DEF Close
  <2> QED
    BY <1>1, <2>1, CloseFurnaceKeeps, MovedKeeps
<1>5. CASE LeavePage
  BY <1>1, <1>5, LeavePageKeeps, MovedKeeps
<1>6. CASE StartFrame \/ NoInteraction \/ Use \/ CollectNothing \/ TickWithers
           \/ UNCHANGED sessionVars
  <2>1. /\ UNCHANGED <<hostVars, pocketVars, gained, cookVars, lost>>
        /\ block' \in {block, "air"}
    BY <1>6 DEF StartFrame, NoInteraction, Use, CollectNothing, TickWithers, sessionVars
  <2> QED
    BY <1>1, <1>2, <2>1, IdleKeeps, MovedKeeps
<1>7. CASE Break
  BY <1>1, <1>7, BreakKeeps, MovedKeeps
<1>8. ASSUME NEW type \in Stations, Place(type) PROVE SessionInv'
  BY <1>1, <1>8, PlaceKeeps, MovedKeeps
<1>9. ASSUME NEW i \in Items, Collect(i) PROVE SessionInv'
  BY <1>1, <1>9, CollectKeeps, MovedKeeps
<1>10. CASE TickFurnaces
  <2>1. UNCHANGED <<block, pocketVars, gained>>
    BY <1>10 DEF TickFurnaces
  <2>2. CASE Cook
    BY <2>1, <2>2, CookKeeps
  <2>3. CASE RemoveStale
    BY <1>1, <2>1, <2>3, RemoveStaleKeeps, MovedKeeps
  <2>4. CASE NotSimulated
    <3>1. UNCHANGED <<hostVars, pocketVars, gained, cookVars, lost>> /\ block' = block
      BY <2>1, <2>4 DEF NotSimulated
    <3> QED
      BY <1>1, <1>2, <3>1, IdleKeeps, MovedKeeps
  <2> QED
    BY <1>10, <2>2, <2>3, <2>4 DEF TickFurnaces
<1>11. CASE Upkeep
  <2>1. UNCHANGED <<block, cookVars, lost>>
    BY <1>11 DEF Upkeep
  <2>2. CASE CloseFurnace
    BY <1>1, <2>1, <2>2, CloseFurnaceKeeps, MovedKeeps
  <2>3. CASE UNCHANGED <<hostVars, pocketVars, open, gained>>
    <3>1. UNCHANGED <<hostVars, pocketVars, gained, cookVars, lost>> /\ block' = block
      BY <2>1, <2>3
    <3> QED
      BY <1>1, <1>2, <3>1, IdleKeeps, MovedKeeps
  <2> QED
    BY <1>11, <2>2, <2>3 DEF Upkeep
<1> QED
  BY <1>3, <1>4, <1>5, <1>6, <1>7, <1>8, <1>9, <1>10, <1>11 DEF SessionNext

\* it balances the totals of the property,
LEMMA BooksBalance == SessionInv => ItemsConserved
<1> SUFFICES ASSUME SessionInv PROVE ItemsConserved
  OBVIOUS
<1>1. inv \in Seq(Held) /\ cursor \in Cursors /\ entity \in Records /\ Books
  BY DEF SessionInv, SessionTypes, Packed
<1>2. ASSUME NEW i \in Items PROVE Total(i) = Ledger(i)
  <2> DEFINE g == ground[i] + lost[i]
             p == Sum(i, inv)
             c == Of(i, cursor)
             w == Within(i, entity)
  <2>1. Sum(i, inv \o <<cursor>> \o Contents(entity)) = p + c + w
    BY <1>1, TotalIs
  <2>2. g \in Nat /\ p \in Nat /\ c \in Nat /\ w \in Nat
    BY LedgerNats DEF SessionInv
  <2>3. Total(i) = g + (p + c + w) /\ Ledger(i) = g + p + c + w
    BY <2>1 DEF Total, Ledger
  <2> HIDE DEF g, p, c, w
  <2> QED
    BY <2>2, <2>3
<1> QED
  BY <1>1, <1>2 DEF Books, ItemsConserved, Items

\* and it always holds.
LEMMA SessionInvAlways == SessionSpec => []SessionInv
  BY SessionInvInit, SessionInvStep, PTL DEF SessionSpec

\* Through every order of clicks, frames, broken stations, reloads and
\* explosions no item is made and none vanishes (FurnacePanel.transact,
\* returnStackToPlayer, Inventory.addItem, tickFurnaces).
THEOREM ItemsAreConserved == SessionSpec => []ItemsConserved
  BY SessionInvAlways, BooksBalance, PTL

\* Every cook is paid with fuel that was lit (FurnaceBlockEntity.tick),
\* over reloads, new inputs and broken stations.
THEOREM FuelIsPaid == SessionSpec => []NoFreeSmelt
<1>1. SessionInv => NoFreeSmelt
  BY DEF SessionInv
<1> QED
  BY <1>1, SessionInvAlways, PTL

\* A cook gives its experience at most once (takeExperience), however often
\* the screen is closed, the station broken or the page left.
THEOREM XpIsGrantedOnce == SessionSpec => []XpOnce
<1>1. SessionInv => XpOnce
  BY DEF SessionInv
<1> QED
  BY <1>1, SessionInvAlways, PTL

\* Inside a frame an open screen may only be over a hole.
Screen ==
    /\ open \in {"none", "furnace", "smoker"}
    /\ open # "none" => block = "air" \/ (block = open /\ entity.type = open)
    /\ NoGhostScreen

\* Every step keeps an open screen over its block, or over a hole until the
\* upkeep of the frame.
LEMMA ScreenStep ==
    SessionTypes /\ Screen /\ [SessionNext]_sessionVars => Screen'
<1> SUFFICES ASSUME SessionTypes, Screen, [SessionNext]_sessionVars PROVE Screen'
  OBVIOUS
<1>1. /\ block \in {"air", "furnace", "smoker"} /\ entity \in Records /\ marked = entity
      /\ open \in {"none", "furnace", "smoker"}
      /\ open # "none" => block = "air" \/ (block = open /\ entity.type = open)
      /\ (stage = "events" /\ open # "none") => (block = open /\ entity.type = open)
  BY DEF SessionTypes, Screen, NoGhostScreen
<1>2. ASSUME open' = "none" PROVE Screen'
  BY <1>2 DEF Screen, NoGhostScreen
<1>3. ASSUME open' \in {"furnace", "smoker"}, block' = open', entity'.type = open' PROVE Screen'
  BY <1>3 DEF Screen, NoGhostScreen
<1>4. ASSUME open' = open, block' \in {block, "air"}, entity'.type = entity.type,
             stage' # "events"
      PROVE  Screen'
  BY <1>1, <1>4 DEF Screen, NoGhostScreen
<1>5. ASSUME NEW click \in Clicks, NEW i \in 1 .. MenuSize, Transact(click, i) PROVE Screen'
  <2> DEFINE m == Apply(click, Menu, i)
             a == Plain(m.slots[1])
             b == Plain(m.slots[2])
             c == Plain(m.slots[3])
  <2>1. /\ entity' = [entity EXCEPT !.input = a, !.fuel = b, !.output = c]
        /\ stage = "events" /\ open # "none" /\ block' = block /\ open' = open
    BY <1>5 DEF Transact
  <2> HIDE DEF a, b, c
  <2>2. entity'.type = entity.type
    BY <1>1, <2>1 DEF Records
  <2> QED
    BY <1>1, <1>3, <2>1, <2>2
<1>6. CASE Close \/ LeavePage \/ StartFrame \/ Break \/ \E type \in Stations : Place(type)
  <2>1. open' = "none"
    BY <1>6 DEF Close, CloseFurnace, LeavePage, StartFrame, Break, Place, Interacts
  <2> QED
    BY <1>2, <2>1
<1>7. CASE NoInteraction \/ CollectNothing \/ (\E i \in Items : Collect(i)) \/ TickWithers
  <2>1. open' = open /\ block' \in {block, "air"} /\ entity' = entity /\ stage' # "events"
    BY <1>7 DEF NoInteraction, Interacted, CollectNothing, Collect, TickWithers, hostVars
  <2> QED
    BY <1>4, <2>1
<1>8. CASE Use
  <2>1. block # "air" /\ entity.type = block /\ open' = block /\ block' = block /\ entity' = entity
    BY <1>8 DEF Use, hostVars
  <2> QED
    BY <1>1, <1>3, <2>1
<1>9. CASE TickFurnaces
  <2>1. open' = open /\ block' = block /\ stage' = "withers"
    BY <1>9 DEF TickFurnaces
  <2>2. CASE Cook
    <3>1. PICK f, d \in {0, 1} : Ticked(entity, TickOnce(entity), f, d)
      BY <1>1, TickFacts
    <3>2. entity'.type = entity.type
      BY <2>2, <3>1 DEF Ticked, Cook
    <3> QED
      BY <1>4, <2>1, <3>2
  <2>3. CASE RemoveStale
    <3>1. block # entity.type
      BY <2>3 DEF RemoveStale
    <3> QED
      BY <1>1, <2>1, <3>1 DEF Screen, NoGhostScreen
  <2>4. CASE NotSimulated
    BY <1>4, <2>1, <2>4 DEF NotSimulated, hostVars
  <2> QED
    BY <1>9, <2>2, <2>3, <2>4 DEF TickFurnaces
<1>10. CASE Upkeep
  <2>1. CASE open # "none" /\ block # open
    BY <1>2, <1>10, <2>1 DEF Upkeep, Gone, CloseFurnace
  <2>2. CASE ~ (open # "none" /\ block # open)
    <3>1. open' = open /\ block' = block /\ entity' = entity
      BY <1>10, <2>2 DEF Upkeep, Gone, hostVars
    <3> QED
      BY <1>1, <1>2, <1>3, <2>2, <3>1
  <2> QED
    BY <2>1, <2>2
<1>11. CASE UNCHANGED sessionVars
  BY <1>1, <1>11 DEF sessionVars, hostVars, frameVars, Screen, NoGhostScreen
<1> QED
  BY <1>5, <1>6, <1>7, <1>8, <1>9, <1>10, <1>11 DEF SessionNext

\* Between frames an open screen stands over its block and its record
\* (Game.openFurnace, onBlockBrokenAt, and the upkeep after the ticks).
THEOREM NoScreenIsAGhost == SessionSpec => []NoGhostScreen
<1>1. SessionInit => Screen
  BY DEF SessionInit, Screen, NoGhostScreen
<1>2. SessionInv => SessionTypes
  BY DEF SessionInv
<1>3. Screen => NoGhostScreen
  BY DEF Screen
<1> QED
  BY <1>1, <1>2, <1>3, ScreenStep, SessionInvAlways, PTL DEF SessionSpec
==============================================================================
