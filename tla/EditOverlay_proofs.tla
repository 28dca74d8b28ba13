------------------------- MODULE EditOverlay_proofs -------------------------
(***************************************************************************)
(* The safety of the player's edits in the world, for every set of chunks  *)
(* and cells, every size of the overlay and every order of edits,          *)
(* generation, eviction, hydration, commits and reboots.                   *)
(***************************************************************************)
EXTENDS EditOverlay, InsertionMap_proofs, FiniteSetTheorems

Map == [Cells -> Nat]

OverlayTypeOK ==
    /\ canonical \in [Chunks -> Map] /\ live \in [Chunks -> Map]
    /\ overlay \in [Chunks -> Map] /\ pending \in [Chunks -> Map]
    /\ committed \in [Chunks -> Map]
    /\ full \subseteq Columns /\ slabs \subseteq Chunks
    /\ accessOrder \in Seq(Chunks)
    /\ hydrationPending \subseteq Chunks
    /\ answer \in [Chunks -> Map \cup {None}]
    /\ clock \in Nat

\* The access order has one place for each entry of the overlay.
OrderInv ==
    /\ Distinct(accessOrder)
    /\ \A c \in Chunks : Occurs(accessOrder, c) <=> overlay[c] # Empty

\* What is kept of the edits of c: the pending copy, or the committed one.
Recorded(c) == IF pending[c] # Empty THEN pending[c] ELSE committed[c]

\* The column shows the edits of map, a copy of those of c; before the slab is
\* generated, terrain may hide them.
Shows(c, map) ==
    \A x \in Cells : map[x] # 0 => \/ map[x] = canonical[c][x]
                                   \/ c \notin slabs /\ canonical[c][x] = 0

\* The column shows what the entry of c says; an entry that has gone has left
\* the same in the pending copy.  What is generated is in a Full column.
MirrorOf(c) ==
    /\ Shows(c, overlay[c])
    /\ overlay[c] = Empty => Shows(c, pending[c])
    /\ c \in slabs => ColumnOf(c) \in full

\* The record of c follows its entry, and the column shows the record or
\* terrain; a hydration meets the committed copy, or an entry that is newer.
RecordOf(c) ==
    /\ overlay[c] # Empty => overlay[c] = Recorded(c)
    /\ \A x \in Cells : Recorded(c)[x] # 0 => canonical[c][x] \in {0, Recorded(c)[x]}
    /\ c \notin hydrationPending => answer[c] = None
    /\ c \in hydrationPending /\ overlay[c] = Empty =>
          pending[c] = Empty /\ answer[c] \in {None, committed[c]}

\* No version is from the future, in the column and wherever it may come from.
Young(map) == \A x \in Cells : map[x] <= clock
ClockOf(c) ==
    /\ Young(canonical[c]) /\ Young(overlay[c]) /\ Young(pending[c])
    /\ Young(committed[c]) /\ (answer[c] # None => Young(answer[c]))

MirrorInv == \A c \in Chunks : MirrorOf(c)
RecordInv == \A c \in Chunks : RecordOf(c)
ClockInv == \A c \in Chunks : ClockOf(c)

\* What a Full column shows of c is not taken back by the step.
Stays(c) ==
    ColumnOf(c) \in full => \A x \in Cells : canonical'[c][x] >= canonical[c][x]

-----------------------------------------------------------------------------
(* The operators. *)

LEMMA MapFacts ==
    /\ Empty \in Map /\ \A x \in Cells : Empty[x] = 0
    /\ None \notin Map
    /\ \A m \in Map : m # Empty => \E x \in Cells : m[x] # 0
    /\ \A below, m \in Map :
          /\ Over(below, m) \in Map
          /\ \A x \in Cells : Over(below, m)[x] = IF m[x] # 0 THEN m[x] ELSE below[x]
<1>1. Empty \in Map /\ \A x \in Cells : Empty[x] = 0
  BY DEF Empty, Map
<1>2. None \notin Map
  BY OverlayAssumption DEF Map
<1>3. ASSUME NEW m \in Map, \A x \in Cells : m[x] = 0 PROVE m = Empty
  BY <1>3 DEF Map, Empty
<1>4. ASSUME NEW below \in Map, NEW m \in Map
      PROVE  /\ Over(below, m) \in Map
             /\ \A x \in Cells : Over(below, m)[x] = IF m[x] # 0 THEN m[x] ELSE below[x]
  BY DEF Over, Map
<1> QED
  BY <1>1, <1>2, <1>3, <1>4

LEMMA ColumnFact == ASSUME NEW c \in Chunks PROVE ColumnOf(c) \in Columns
  BY DEF Chunks, ColumnOf

\* An overlay with one entry is not over its cap.
LEMMA OneEntry ==
    ASSUME NEW map, NEW c \in Chunks, Held(map) \subseteq {c}
    PROVE  Cardinality(Held(map)) <= Cap
<1>1. Held(map) = {} \/ Held(map) = {c}
  OBVIOUS
<1>2. Cardinality(Held(map)) \in {0, 1}
  BY <1>1, FS_EmptySet, FS_Singleton
<1> QED
  BY <1>2, OverlayAssumption

\* A touch makes the chunk the most recent one; it may evict other entries,
\* each of which goes to the pending copies as it was.
LEMMA TouchFacts ==
    ASSUME OverlayTypeOK, OrderInv, NEW c \in Chunks, NEW map \in Map, map # Empty
    PROVE  LET entries == [overlay EXCEPT ![c] = map]
               k == Touch([Kept EXCEPT !.overlay = entries], c)
           IN  \E evicted \in SUBSET (Chunks \ {c}) :
                  /\ \A d \in evicted : overlay[d] # Empty
                  /\ k.overlay = [d \in Chunks |-> IF d \in evicted THEN Empty ELSE entries[d]]
                  /\ k.pending = [d \in Chunks |-> IF d \in evicted THEN overlay[d]
                                                   ELSE pending[d]]
                  /\ k.order \in Seq(Chunks) /\ Distinct(k.order)
                  /\ \A d \in Chunks : Occurs(k.order, d) <=> k.overlay[d] # Empty
                  /\ k = [overlay |-> k.overlay, order |-> k.order, pending |-> k.pending]
<1> DEFINE entries == [overlay EXCEPT ![c] = map]
           base == [overlay |-> entries, order |-> accessOrder, pending |-> pending]
           order == Append(Delete(accessOrder, c), c)
           k == Touch(base, c)
<1>1. [Kept EXCEPT !.overlay = entries] = base
  BY DEF Kept
<1> SUFFICES \E evicted \in SUBSET (Chunks \ {c}) :
                /\ \A d \in evicted : overlay[d] # Empty
                /\ k.overlay = [d \in Chunks |-> IF d \in evicted THEN Empty ELSE entries[d]]
                /\ k.pending = [d \in Chunks |-> IF d \in evicted THEN overlay[d]
                                                 ELSE pending[d]]
                /\ k.order \in Seq(Chunks) /\ Distinct(k.order)
                /\ \A d \in Chunks : Occurs(k.order, d) <=> k.overlay[d] # Empty
                /\ k = [overlay |-> k.overlay, order |-> k.order, pending |-> k.pending]
  BY <1>1
<1>2. entries \in [Chunks -> Map] /\ entries[c] = map
      /\ \A d \in Chunks : d # c => entries[d] = overlay[d]
  BY DEF OverlayTypeOK
<1>3. accessOrder \in Seq(Chunks) /\ Distinct(accessOrder)
  BY DEF OverlayTypeOK, OrderInv
<1>4. /\ order \in Seq(Chunks) /\ Distinct(order)
      /\ \A x : Occurs(order, x) <=> x = c \/ Occurs(accessOrder, x)
  BY <1>3, RequeueFacts
<1>5. \A d \in Chunks : Occurs(order, d) <=> entries[d] # Empty
  BY <1>2, <1>4 DEF OrderInv
<1> HIDE DEF entries, k
<1>6. CASE Cardinality(Held(entries)) <= Cap
  <2>1. k = [base EXCEPT !.order = order]
    BY <1>6 DEF Touch, k
  <2>2. k = [overlay |-> entries, order |-> order, pending |-> pending]
    BY <2>1
  <2>3. entries = [d \in Chunks |-> IF d \in {} THEN Empty ELSE entries[d]]
    BY <1>2
  <2>4. pending = [d \in Chunks |-> IF d \in {} THEN overlay[d] ELSE pending[d]]
    BY DEF OverlayTypeOK
  <2> WITNESS {} \in SUBSET (Chunks \ {c})
  <2> QED
    BY <1>2, <1>4, <1>5, <2>2, <2>3, <2>4
<1>7. CASE ~ (Cardinality(Held(entries)) <= Cap)
  <2> DEFINE rest == Delete(accessOrder, c)
             lru == Head(order)
  <2>1. rest \in Seq(Chunks) /\ \A x : Occurs(rest, x) <=> x # c /\ Occurs(accessOrder, x)
    BY <1>3, DeleteFacts
  <2>2. PICK d \in Chunks : d # c /\ entries[d] # Empty
    BY <1>7, OneEntry DEF Held
  <2>3. Occurs(rest, d)
    BY <1>2, <2>1, <2>2 DEF OrderInv
  <2>4. rest # <<>>
    BY <2>3 DEF Occurs
  <2>5. lru = Head(rest) /\ Head(rest) = rest[1] /\ Head(rest) \in Chunks /\ 1 \in 1 .. Len(rest)
    BY <2>1, <2>4, AppendFacts, TailFacts
  <2>6. lru \in Chunks /\ lru # c /\ Occurs(accessOrder, lru)
    BY <2>1, <2>5 DEF Occurs
  <2>7. overlay[lru] # Empty /\ entries[lru] = overlay[lru]
    BY <1>2, <2>6 DEF OrderInv
  <2> HIDE DEF lru
  <2>8. k = [Capture(base, lru) EXCEPT !.order = Tail(order), !.overlay[lru] = Empty]
    BY <1>7 DEF Touch, lru, k
  <2>9. k = [overlay |-> [entries EXCEPT ![lru] = Empty], order |-> Tail(order),
             pending |-> [pending EXCEPT ![lru] = overlay[lru]]]
    BY <2>7, <2>8 DEF Capture
  <2>10. [entries EXCEPT ![lru] = Empty] =
            [e \in Chunks |-> IF e \in {lru} THEN Empty ELSE entries[e]]
    BY <1>2
  <2>11. [pending EXCEPT ![lru] = overlay[lru]] =
            [e \in Chunks |-> IF e \in {lru} THEN overlay[e] ELSE pending[e]]
    BY DEF OverlayTypeOK
  <2>12. /\ Tail(order) \in Seq(Chunks) /\ Distinct(Tail(order))
         /\ \A e \in Chunks : Occurs(Tail(order), e) <=> e # lru /\ Occurs(order, e)
    <3>1. order # <<>>
      BY <1>4 DEF Occurs
    <3> QED
      BY <1>4, <3>1, PopFacts DEF lru
  <2> HIDE DEF order, rest
  <2>13. \A e \in Chunks : Occurs(Tail(order), e) <=> e # lru /\ entries[e] # Empty
    BY <1>5, <2>12
  <2>14. {lru} \in SUBSET (Chunks \ {c})
    BY <2>6
  <2> WITNESS {lru} \in SUBSET (Chunks \ {c})
  <2> QED
    BY <1>2, <2>7, <2>9, <2>10, <2>11, <2>12, <2>13
<1> QED
  BY <1>6, <1>7

-----------------------------------------------------------------------------
(* Steps. *)

\* What a step at another chunk may do to d: evict its entry, which then is
\* its pending copy, while a hydration of d waits for its answer; or fill their
\* column with terrain.
Beside(d) ==
    /\ \/ canonical'[d] = canonical[d]
       \/ /\ ColumnOf(d) \notin full
          /\ \A x \in Cells : canonical'[d][x] \in {0, canonical[d][x]}
    /\ committed'[d] = committed[d]
    /\ (d \in slabs' <=> d \in slabs) /\ (ColumnOf(d) \in full => ColumnOf(d) \in full')
    /\ (d \in hydrationPending' <=> d \in hydrationPending) /\ answer'[d] = answer[d]
    /\ clock \in Nat /\ clock' \in Nat /\ clock <= clock'
    /\ \/ overlay'[d] = overlay[d] /\ pending'[d] = pending[d]
       \/ /\ overlay[d] # Empty /\ overlay'[d] = Empty /\ pending'[d] = overlay[d]
          /\ d \in hydrationPending => EvictsDuringRead

\* A copy that was shown is still shown: what was hidden can only be hidden.
StillShows(c, map) ==
    \A x \in Cells : map[x] # 0 => \/ map[x] = canonical'[c][x]
                                   \/ c \notin slabs' /\ canonical'[c][x] = 0

LEMMA StillShown ==
    ASSUME NEW d \in Chunks, MirrorOf(d), Beside(d)
    PROVE  \A map : Shows(d, map) => StillShows(d, map)
<1>1. CASE canonical'[d] = canonical[d]
  BY <1>1 DEF Shows, StillShows, Beside
<1>2. CASE /\ ColumnOf(d) \notin full
           /\ \A x \in Cells : canonical'[d][x] \in {0, canonical[d][x]}
  <2>1. d \notin slabs /\ d \notin slabs'
    BY <1>2 DEF MirrorOf, Beside
  <2> QED
    BY <1>2, <2>1 DEF Shows, StillShows
<1> QED
  BY <1>1, <1>2 DEF Beside

LEMMA BesideMirror == ASSUME NEW d \in Chunks, MirrorOf(d), Beside(d) PROVE MirrorOf(d)'
<1>1. d \in slabs' => ColumnOf(d) \in full'
  BY DEF MirrorOf, Beside
<1>2. StillShows(d, overlay[d]) /\ (overlay[d] = Empty => StillShows(d, pending[d]))
  BY StillShown DEF MirrorOf
<1>3. CASE overlay'[d] = overlay[d] /\ pending'[d] = pending[d]
  <2>1. StillShows(d, overlay'[d]) /\ (overlay'[d] = Empty => StillShows(d, pending'[d]))
    BY <1>2, <1>3
  <2> QED
    BY <1>1, <2>1 DEF MirrorOf, Shows, StillShows
<1>4. CASE overlay[d] # Empty /\ overlay'[d] = Empty /\ pending'[d] = overlay[d]
  <2>1. StillShows(d, pending'[d])
    BY <1>2, <1>4
  <2>2. \A x \in Cells : overlay'[d][x] = 0
    BY <1>4, MapFacts
  <2> QED
    BY <1>1, <2>1, <2>2 DEF MirrorOf, Shows, StillShows
<1> QED
  BY <1>3, <1>4 DEF Beside

LEMMA BesideRecord ==
    ASSUME EvictsDuringRead = FALSE, NEW d \in Chunks, RecordOf(d), Beside(d)
    PROVE  RecordOf(d)'
<1>1. \A x \in Cells : canonical[d][x] \in {0, Recorded(d)[x]} =>
                          canonical'[d][x] \in {0, Recorded(d)[x]}
  BY DEF Beside
<1>2. Recorded(d)' = Recorded(d)
  BY DEF RecordOf, Beside, Recorded
<1>3. \A x \in Cells : Recorded(d)'[x] # 0 => canonical'[d][x] \in {0, Recorded(d)'[x]}
  BY <1>1, <1>2 DEF RecordOf
<1>4. CASE overlay'[d] = overlay[d] /\ pending'[d] = pending[d]
  BY <1>2, <1>3, <1>4 DEF RecordOf, Beside
<1>5. CASE /\ overlay[d] # Empty /\ overlay'[d] = Empty /\ pending'[d] = overlay[d]
           /\ d \notin hydrationPending
  BY <1>2, <1>3, <1>5 DEF RecordOf, Beside
<1> QED
  BY <1>4, <1>5 DEF Beside

LEMMA BesideClock ==
    ASSUME OverlayTypeOK, NEW d \in Chunks, ClockOf(d), Beside(d)
    PROVE  ClockOf(d)'
<1>1. /\ canonical[d] \in [Cells -> Nat] /\ overlay[d] \in [Cells -> Nat]
      /\ pending[d] \in [Cells -> Nat] /\ committed[d] \in [Cells -> Nat]
      /\ (answer[d] # None => answer[d] \in [Cells -> Nat])
      /\ clock \in Nat /\ clock' \in Nat /\ clock <= clock'
  BY DEF OverlayTypeOK, Map, Beside
<1>2. Young(canonical[d])'
  BY <1>1 DEF ClockOf, Young, Beside
<1>3. Young(overlay[d])' /\ Young(pending[d])'
  BY <1>1, MapFacts DEF ClockOf, Young, Beside
<1>4. Young(committed[d])' /\ (answer'[d] # None => Young(answer[d])')
  BY <1>1 DEF ClockOf, Young, Beside
<1> QED
  BY <1>2, <1>3, <1>4 DEF ClockOf

LEMMA BesideStays == ASSUME OverlayTypeOK, NEW d \in Chunks, Beside(d) PROVE Stays(d)
<1>1. \A x \in Cells : canonical[d][x] \in Nat
  BY DEF OverlayTypeOK, Map
<1> QED
  BY <1>1 DEF Beside, Stays

\* What the touch of c, with its entry made map, may have done to the others.
Touched(k, c, map) ==
    /\ k.overlay \in [Chunks -> Map] /\ k.pending \in [Chunks -> Map]
    /\ k.order \in Seq(Chunks) /\ Distinct(k.order)
    /\ \A d \in Chunks : Occurs(k.order, d) <=> k.overlay[d] # Empty
    /\ k.overlay[c] = map /\ k.pending[c] = pending[c]
    /\ k = [overlay |-> k.overlay, order |-> k.order, pending |-> k.pending]
    /\ ReadsAreShort(k) => \A d \in Chunks \ {c} :
          \/ k.overlay[d] = overlay[d] /\ k.pending[d] = pending[d]
          \/ /\ overlay[d] # Empty /\ k.overlay[d] = Empty
             /\ k.pending[d] = overlay[d]
             /\ d \in hydrationPending => EvictsDuringRead

LEMMA TouchStep ==
    ASSUME OverlayTypeOK, OrderInv, NEW c \in Chunks, NEW map \in Map, map # Empty
    PROVE  Touched(Touch([Kept EXCEPT !.overlay[c] = map], c), c, map)
<1> DEFINE entries == [overlay EXCEPT ![c] = map]
           k == Touch([Kept EXCEPT !.overlay = entries], c)
<1>1. [Kept EXCEPT !.overlay[c] = map] = [Kept EXCEPT !.overlay = entries]
  BY DEF Kept
<1>2. PICK evicted \in SUBSET (Chunks \ {c}) :
         /\ \A d \in evicted : overlay[d] # Empty
         /\ k.overlay = [d \in Chunks |-> IF d \in evicted THEN Empty ELSE entries[d]]
         /\ k.pending = [d \in Chunks |-> IF d \in evicted THEN overlay[d] ELSE pending[d]]
         /\ k.order \in Seq(Chunks) /\ Distinct(k.order)
         /\ \A d \in Chunks : Occurs(k.order, d) <=> k.overlay[d] # Empty
         /\ k = [overlay |-> k.overlay, order |-> k.order, pending |-> k.pending]
  BY TouchFacts
<1>3. entries \in [Chunks -> Map] /\ entries[c] = map
      /\ \A d \in Chunks \ {c} : entries[d] = overlay[d]
  BY DEF OverlayTypeOK
<1> HIDE DEF entries, k
<1>4. k.overlay \in [Chunks -> Map] /\ k.pending \in [Chunks -> Map]
  BY <1>2, <1>3, MapFacts DEF OverlayTypeOK
<1>5. k.overlay[c] = map /\ k.pending[c] = pending[c]
  BY <1>2, <1>3
<1>6. ASSUME ReadsAreShort(k), NEW d \in Chunks \ {c}
      PROVE  \/ k.overlay[d] = overlay[d] /\ k.pending[d] = pending[d]
             \/ /\ overlay[d] # Empty /\ k.overlay[d] = Empty
                /\ k.pending[d] = overlay[d]
                /\ d \in hydrationPending => EvictsDuringRead
  <2>1. CASE d \in evicted
    <3>1. overlay[d] # Empty /\ k.overlay[d] = Empty /\ k.pending[d] = overlay[d]
      BY <1>2, <2>1
    <3>2. d \in hydrationPending => EvictsDuringRead
      BY <1>6, <3>1 DEF ReadsAreShort, Held
    <3> QED
      BY <3>1, <3>2
  <2>2. CASE d \notin evicted
    BY <1>2, <1>3, <2>2
  <2> QED
    BY <2>1, <2>2
<1>7. ReadsAreShort(k) => \A d \in Chunks \ {c} :
         \/ k.overlay[d] = overlay[d] /\ k.pending[d] = pending[d]
         \/ /\ overlay[d] # Empty /\ k.overlay[d] = Empty
            /\ k.pending[d] = overlay[d]
            /\ d \in hydrationPending => EvictsDuringRead
  BY <1>6
<1>8. Touched(k, c, map)
  BY <1>2, <1>4, <1>5, <1>7 DEF Touched
<1> QED
  BY <1>1, <1>8 DEF k

LEMMA SetBlockStep ==
    ASSUME OverlayTypeOK, OrderInv, NEW c \in Chunks, NEW x \in Cells, SetBlock(c, x)
    PROVE  /\ OverlayTypeOK' /\ OrderInv'
           /\ UNCHANGED <<full, slabs, committed, hydration>> /\ clock' = clock + 1
           /\ overlay'[c] = [overlay[c] EXCEPT ![x] = clock + 1]
           /\ overlay'[c] # Empty
           /\ pending'[c] = overlay'[c]
           /\ canonical'[c] = [canonical[c] EXCEPT ![x] = clock + 1]
           /\ \A d \in Chunks \ {c} : Beside(d)
<1> DEFINE map == [overlay[c] EXCEPT ![x] = clock + 1]
           k == Touch([Kept EXCEPT !.overlay[c] = map], c)
<1>1. /\ clock' = clock + 1
      /\ canonical' = [canonical EXCEPT ![c][x] = clock']
      /\ live' = [live EXCEPT ![c][x] = clock']
      /\ UNCHANGED <<full, slabs, committed, hydrationPending, answer>>
      /\ UNCHANGED hydration
  BY DEF SetBlock, hydration
<1>2. [Kept EXCEPT !.overlay[c][x] = clock'] = [Kept EXCEPT !.overlay[c] = map]
  BY <1>1 DEF Kept
<1>3. ReadsAreShort(Capture(k, c)) /\ Keep(Capture(k, c))
  BY <1>2 DEF SetBlock, SetAndCapture
<1>4. map \in Map /\ map # Empty
  <2>1. clock \in Nat /\ overlay[c] \in [Cells -> Nat]
    BY DEF OverlayTypeOK, Map
  <2>2. map[x] # 0 /\ map \in [Cells -> Nat]
    BY <2>1
  <2> QED
    BY <2>2, MapFacts DEF Map
<1> HIDE DEF map
<1>5. Touched(k, c, map)
  BY <1>4, TouchStep
<1> HIDE DEF k
<1>6. Capture(k, c) = [overlay |-> k.overlay, order |-> k.order,
                       pending |-> [k.pending EXCEPT ![c] = map]]
  <2>1. k = [overlay |-> k.overlay, order |-> k.order, pending |-> k.pending]
        /\ k.overlay[c] = map
    BY <1>5 DEF Touched
  <2> DEFINE o == k.overlay
             a == k.order
             p == k.pending
  <2>2. k = [overlay |-> o, order |-> a, pending |-> p] /\ o[c] = map
    BY <2>1
  <2> HIDE DEF o, a, p
  <2>3. Capture([overlay |-> o, order |-> a, pending |-> p], c) =
           [overlay |-> o, order |-> a, pending |-> [p EXCEPT ![c] = map]]
    BY <2>2 DEF Capture
  <2> QED
    BY <2>2, <2>3 DEF o, a, p
<1>7. /\ ReadsAreShort(k)
      /\ overlay' = k.overlay /\ accessOrder' = k.order
      /\ pending' = [k.pending EXCEPT ![c] = map]
  BY <1>3, <1>6 DEF ReadsAreShort, Keep
<1>8. /\ canonical' \in [Chunks -> Map] /\ live' \in [Chunks -> Map]
      /\ canonical'[c] = [canonical[c] EXCEPT ![x] = clock + 1]
      /\ \A d \in Chunks \ {c} : canonical'[d] = canonical[d]
  <2>1. /\ canonical \in [Chunks -> Map] /\ live \in [Chunks -> Map] /\ clock + 1 \in Nat
        /\ canonical' = [canonical EXCEPT ![c] = [canonical[c] EXCEPT ![x] = clock + 1]]
        /\ live' = [live EXCEPT ![c] = [live[c] EXCEPT ![x] = clock + 1]]
    BY <1>1 DEF OverlayTypeOK
  <2>2. \A m \in Map : [m EXCEPT ![x] = clock + 1] \in Map
    BY <2>1 DEF Map
  <2> QED
    BY <2>1, <2>2
<1>9. pending' \in [Chunks -> Map] /\ pending'[c] = map
      /\ \A d \in Chunks \ {c} : pending'[d] = k.pending[d]
  <2>1. k.pending \in [Chunks -> Map]
    BY <1>5 DEF Touched
  <2> QED
    BY <1>4, <1>7, <2>1
<1>10. OverlayTypeOK'
  <2>1. overlay' \in [Chunks -> Map] /\ accessOrder' \in Seq(Chunks) /\ clock' \in Nat
    BY <1>1, <1>5, <1>7 DEF OverlayTypeOK, Touched
  <2> QED
    BY <1>1, <1>8, <1>9, <2>1 DEF OverlayTypeOK
<1>11. OrderInv'
  BY <1>5, <1>7 DEF OrderInv, Touched
<1>12. \A d \in Chunks \ {c} : Beside(d)
  <2>1. clock \in Nat /\ clock' \in Nat /\ clock <= clock'
    BY <1>1 DEF OverlayTypeOK
  <2> QED
    BY <1>1, <1>5, <1>7, <1>8, <1>9, <2>1 DEF Beside, Touched
<1> QED
  BY <1>1, <1>4, <1>5, <1>7, <1>8, <1>9, <1>10, <1>11, <1>12 DEF map, Touched

\* What every step at c has to show, for c and for the chunks beside it.
StepAt(c) ==
    /\ OverlayTypeOK' /\ OrderInv'
    /\ MirrorOf(c) => MirrorOf(c)'
    /\ MirrorOf(c) /\ RecordOf(c) => RecordOf(c)'
    /\ ClockOf(c) => ClockOf(c)'
    /\ MirrorOf(c) /\ RecordOf(c) /\ ClockOf(c) => Stays(c)
    /\ \A d \in Chunks \ {c} : Beside(d)

\* An edit goes to the column, the entry and the pending copy alike.
LEMMA SetBlockKeeps ==
    ASSUME OverlayTypeOK, OrderInv, NEW c \in Chunks, NEW x \in Cells, SetBlock(c, x)
    PROVE  StepAt(c)
<1>1. /\ OverlayTypeOK' /\ OrderInv'
      /\ UNCHANGED <<full, slabs, committed, hydrationPending, answer>>
      /\ clock' = clock + 1
      /\ overlay'[c] = [overlay[c] EXCEPT ![x] = clock + 1]
      /\ overlay'[c] # Empty
      /\ pending'[c] = overlay'[c]
      /\ canonical'[c] = [canonical[c] EXCEPT ![x] = clock + 1]
      /\ \A d \in Chunks \ {c} : Beside(d)
  BY SetBlockStep DEF hydration
<1>2. /\ overlay[c] \in [Cells -> Nat] /\ canonical[c] \in [Cells -> Nat]
      /\ committed[c] \in [Cells -> Nat]
      /\ (answer[c] # None => answer[c] \in [Cells -> Nat])
      /\ clock \in Nat /\ clock + 1 \in Nat \ {0}
  BY DEF OverlayTypeOK, Map
<1>3. MirrorOf(c) => MirrorOf(c)'
  BY <1>1, <1>2 DEF MirrorOf, Shows
<1>4. ASSUME RecordOf(c) PROVE RecordOf(c)'
  <2>1. Recorded(c)' = overlay'[c]
    BY <1>1 DEF Recorded
  <2>2. \A y \in Cells : overlay[c][y] # 0 => canonical[c][y] \in {0, overlay[c][y]}
    <3>1. overlay[c] = Empty => \A y \in Cells : overlay[c][y] = 0
      BY MapFacts
    <3> QED
      BY <1>4, <3>1 DEF RecordOf
  <2>3. \A y \in Cells : overlay'[c][y] # 0 => canonical'[c][y] \in {0, overlay'[c][y]}
    BY <1>1, <1>2, <2>2
  <2> QED
    BY <1>1, <1>4, <2>1, <2>3 DEF RecordOf
<1>5. ASSUME ClockOf(c) PROVE ClockOf(c)' /\ Stays(c)
  <2>1. \A y \in Cells : /\ canonical[c][y] <= clock /\ overlay[c][y] <= clock
                         /\ committed[c][y] <= clock
                         /\ (answer[c] # None => answer[c][y] <= clock)
    BY <1>5 DEF ClockOf, Young
  <2>2. \A y \in Cells : /\ canonical'[c][y] <= clock + 1 /\ overlay'[c][y] <= clock + 1
                         /\ canonical'[c][y] >= canonical[c][y]
    BY <1>1, <1>2, <2>1
  <2>3. \A y \in Cells : /\ committed'[c][y] <= clock + 1
                         /\ (answer'[c] # None => answer'[c][y] <= clock + 1)
    BY <1>1, <1>2, <2>1
  <2> QED
    BY <1>1, <2>2, <2>3 DEF ClockOf, Young, Stays
<1> QED
  BY <1>1, <1>3, <1>4, <1>5 DEF StepAt

LEMMA SameStays ==
    ASSUME OverlayTypeOK, NEW c \in Chunks, canonical'[c] = canonical[c]
    PROVE  Stays(c)
<1>1. \A x \in Cells : canonical[c][x] \in Nat
  BY DEF OverlayTypeOK, Map
<1> QED
  BY <1>1 DEF Stays

LEMMA UnloadKeeps ==
    ASSUME OverlayTypeOK, OrderInv, NEW c \in Chunks, Unload(c)
    PROVE  StepAt(c)
<1>1. /\ slabs' = slabs \ {c}
      /\ UNCHANGED <<canonical, full, overlay, accessOrder, pending, committed,
                     hydrationPending, answer, live, clock>>
  BY DEF Unload, edits, hydration
<1>2. OverlayTypeOK' /\ OrderInv'
  BY <1>1 DEF OverlayTypeOK, OrderInv
<1>3. MirrorOf(c) => MirrorOf(c)'
  BY <1>1 DEF MirrorOf, Shows
<1>4. RecordOf(c) => RecordOf(c)'
  BY <1>1 DEF RecordOf, Recorded
<1>5. (ClockOf(c) => ClockOf(c)') /\ Stays(c)
  BY <1>1, SameStays DEF ClockOf, Young
<1>6. \A d \in Chunks \ {c} : Beside(d)
  BY <1>1 DEF Beside, OverlayTypeOK
<1> QED
  BY <1>2, <1>3, <1>4, <1>5, <1>6 DEF StepAt

LEMMA CommitKeeps ==
    ASSUME OverlayTypeOK, OrderInv, NEW c \in Chunks, Commit(c)
    PROVE  StepAt(c)
<1>1. /\ pending[c] # Empty
      /\ committed' = [committed EXCEPT ![c] = pending[c]]
      /\ pending' = [pending EXCEPT ![c] = Empty]
      /\ UNCHANGED <<canonical, full, slabs, overlay, accessOrder,
                     hydrationPending, answer, live, clock>>
  BY DEF Commit, hydration
<1>2. /\ pending'[c] = Empty /\ committed'[c] = pending[c]
      /\ \A d \in Chunks \ {c} : pending'[d] = pending[d] /\ committed'[d] = committed[d]
      /\ pending' \in [Chunks -> Map] /\ committed' \in [Chunks -> Map]
  BY <1>1, MapFacts DEF OverlayTypeOK
<1>3. OverlayTypeOK' /\ OrderInv'
  BY <1>1, <1>2 DEF OverlayTypeOK, OrderInv
<1>4. MirrorOf(c) => MirrorOf(c)'
  BY <1>1, <1>2, MapFacts DEF MirrorOf, Shows
<1>5. RecordOf(c) => RecordOf(c)'
  <2>1. Recorded(c)' = Recorded(c)
    BY <1>1, <1>2 DEF Recorded
  <2> QED
    BY <1>1, <2>1 DEF RecordOf
<1>6. (ClockOf(c) => ClockOf(c)') /\ Stays(c)
  <2>1. \A x \in Cells : pending'[c][x] = 0 /\ 0 <= clock'
    BY <1>1, <1>2, MapFacts DEF OverlayTypeOK
  <2> QED
    BY <1>1, <1>2, <2>1, SameStays DEF ClockOf, Young
<1>7. \A d \in Chunks \ {c} : Beside(d)
  BY <1>1, <1>2 DEF Beside, OverlayTypeOK
<1> QED
  BY <1>3, <1>4, <1>5, <1>6, <1>7 DEF StepAt

LEMMA HydrationReadsKeeps ==
    ASSUME OverlayTypeOK, OrderInv, NEW c \in Chunks, HydrationReads(c)
    PROVE  StepAt(c)
<1>1. /\ c \in hydrationPending
      /\ answer' = [answer EXCEPT ![c] = committed[c]]
      /\ UNCHANGED <<canonical, full, slabs, overlay, accessOrder, pending, committed,
                     hydrationPending, live, clock>>
  BY DEF HydrationReads, edits
<1>2. /\ answer'[c] = committed[c] /\ answer' \in [Chunks -> Map \cup {None}]
      /\ \A d \in Chunks \ {c} : answer'[d] = answer[d]
  BY <1>1 DEF OverlayTypeOK
<1>3. OverlayTypeOK' /\ OrderInv'
  BY <1>1, <1>2 DEF OverlayTypeOK, OrderInv
<1>4. MirrorOf(c) => MirrorOf(c)'
  BY <1>1 DEF MirrorOf, Shows
<1>5. RecordOf(c) => RecordOf(c)'
  BY <1>1, <1>2 DEF RecordOf, Recorded
<1>6. (ClockOf(c) => ClockOf(c)') /\ Stays(c)
  BY <1>1, <1>2, SameStays DEF ClockOf, Young
<1>7. \A d \in Chunks \ {c} : Beside(d)
  BY <1>1, <1>2 DEF Beside, OverlayTypeOK
<1> QED
  BY <1>3, <1>4, <1>5, <1>6, <1>7 DEF StepAt

\* A touch that is kept, and leaves the rest of the chunks beside c alone.
LEMMA TouchKept ==
    ASSUME OverlayTypeOK, OrderInv, NEW c \in Chunks, NEW map \in Map, map # Empty,
           LET k == Touch([Kept EXCEPT !.overlay[c] = map], c) IN ReadsAreShort(k) /\ Keep(k)
    PROVE  /\ overlay' \in [Chunks -> Map] /\ pending' \in [Chunks -> Map]
           /\ accessOrder' \in Seq(Chunks) /\ OrderInv'
           /\ overlay'[c] = map /\ pending'[c] = pending[c]
           /\ \A d \in Chunks \ {c} :
                 \/ overlay'[d] = overlay[d] /\ pending'[d] = pending[d]
                 \/ /\ overlay[d] # Empty /\ overlay'[d] = Empty /\ pending'[d] = overlay[d]
                    /\ d \in hydrationPending => EvictsDuringRead
<1> DEFINE k == Touch([Kept EXCEPT !.overlay[c] = map], c)
<1>1. ReadsAreShort(k) /\ Keep(k)
  OBVIOUS
<1>2. Touched(k, c, map)
  BY TouchStep
<1> HIDE DEF k
<1>3. overlay' = k.overlay /\ accessOrder' = k.order /\ pending' = k.pending
  BY <1>1 DEF Keep
<1> QED
  BY <1>1, <1>2, <1>3 DEF Touched, OrderInv

\* Terrain leaves Full columns alone, and in the others hides an edit or not.
LEMMA TerrainFacts ==
    ASSUME OverlayTypeOK, NEW c \in Chunks
    PROVE  /\ Terrain(c) \in [Chunks -> Map]
           /\ \A d \in Chunks :
                 \/ Terrain(c)[d] = canonical[d]
                 \/ /\ ColumnOf(d) \notin full
                    /\ \A x \in Cells : Terrain(c)[d][x] \in {0, canonical[d][x]}
<1>1. CASE ColumnOf(c) \in full \/ ~ CanGenerate
  BY <1>1 DEF Terrain, OverlayTypeOK
<1>2. CASE ~ (ColumnOf(c) \in full \/ ~ CanGenerate)
  <2>1. Terrain(c) = [d \in Chunks |-> [x \in Cells |->
           IF ColumnOf(d) = ColumnOf(c) /\ x \in Solid THEN 0 ELSE canonical[d][x]]]
    BY <1>2 DEF Terrain
  <2>2. \A d \in Chunks : canonical[d] \in [Cells -> Nat]
    BY DEF OverlayTypeOK, Map
  <2>3. ASSUME NEW d \in Chunks
        PROVE  /\ Terrain(c)[d] \in Map
               /\ \/ Terrain(c)[d] = canonical[d]
                  \/ /\ ColumnOf(d) \notin full
                     /\ \A x \in Cells : Terrain(c)[d][x] \in {0, canonical[d][x]}
    <3>1. Terrain(c)[d] = [x \in Cells |->
             IF ColumnOf(d) = ColumnOf(c) /\ x \in Solid THEN 0 ELSE canonical[d][x]]
      BY <2>1
    <3>2. Terrain(c)[d] \in Map
      BY <2>2, <3>1 DEF Map
    <3>3. CASE ColumnOf(d) = ColumnOf(c)
      BY <1>2, <3>1, <3>2, <3>3
    <3>4. CASE ColumnOf(d) # ColumnOf(c)
      BY <2>2, <3>1, <3>2, <3>4
    <3> QED
      BY <3>3, <3>4
  <2> QED
    BY <2>1, <2>3
<1> QED
  BY <1>1, <1>2

\* The restored entry is shown by the column; without one there is nothing to
\* show, and the committed copy is asked for.
LEMMA GenerateKeeps ==
    ASSUME OverlayTypeOK, OrderInv, NEW c \in Chunks, Generate(c)
    PROVE  StepAt(c)
<1> DEFINE terrain == Terrain(c)
           restored == IF overlay[c] # Empty THEN overlay[c] ELSE pending[c]
<1>1. /\ slabs' = slabs \cup {c} /\ full' = full \cup {ColumnOf(c)}
      /\ c \notin slabs /\ UNCHANGED <<committed, live, clock>>
  BY DEF Generate
<1>2. /\ terrain \in [Chunks -> Map] /\ restored \in Map
      /\ \A d \in Chunks : terrain[d] \in [Cells -> Nat] /\ canonical[d] \in [Cells -> Nat]
      /\ \A d \in Chunks : \/ terrain[d] = canonical[d]
                            \/ /\ ColumnOf(d) \notin full
                               /\ \A x \in Cells : terrain[d][x] \in {0, canonical[d][x]}
  BY TerrainFacts DEF OverlayTypeOK, Map
<1>3. clock \in Nat /\ clock' \in Nat /\ clock <= clock'
  BY <1>1 DEF OverlayTypeOK
<1>4. full' \subseteq Columns /\ ColumnOf(c) \in full' /\ slabs' \subseteq Chunks
  BY <1>1, ColumnFact DEF OverlayTypeOK
<1>5. CASE restored = Empty
  <2>1. /\ canonical' = terrain
        /\ hydrationPending' = hydrationPending \cup {c}
        /\ UNCHANGED <<overlay, accessOrder, pending, answer>>
    BY <1>5 DEF Generate, StartHydration, edits
  <2>2. overlay[c] = Empty /\ pending[c] = Empty
    BY <1>5
  <2> HIDE DEF terrain, restored
  <2>3. OverlayTypeOK' /\ OrderInv'
    BY <1>1, <1>2, <1>4, <2>1 DEF OverlayTypeOK, OrderInv
  <2>4. MirrorOf(c)'
    BY <1>4, <2>1, <2>2, MapFacts DEF MirrorOf, Shows
  <2>5. ASSUME RecordOf(c) PROVE RecordOf(c)'
    <3>1. answer'[c] \in {None, committed'[c]} /\ c \in hydrationPending'
      BY <1>1, <2>1, <2>2, <2>5 DEF RecordOf
    <3>2. Recorded(c)' = Recorded(c)
      BY <1>1, <2>1 DEF Recorded
    <3>3. \A x \in Cells : Recorded(c)[x] # 0 => canonical'[c][x] \in {0, Recorded(c)[x]}
      BY <1>2, <2>1, <2>5 DEF RecordOf
    <3> QED
      BY <2>1, <2>2, <3>1, <3>2, <3>3 DEF RecordOf
  <2>6. ASSUME ClockOf(c) PROVE ClockOf(c)'
    <3>1. Young(canonical[c])'
      BY <1>1, <1>2, <1>3, <2>1, <2>6 DEF ClockOf, Young
    <3> QED
      BY <1>1, <2>1, <2>6, <3>1 DEF ClockOf, Young
  <2>7. Stays(c)
    BY <1>2, <2>1 DEF Stays
  <2>8. \A d \in Chunks \ {c} : Beside(d)
    BY <1>1, <1>2, <1>3, <2>1 DEF Beside
  <2> QED
    BY <2>3, <2>4, <2>5, <2>6, <2>7, <2>8 DEF StepAt
<1>6. CASE restored # Empty
  <2>1. /\ LET k == Touch([Kept EXCEPT !.overlay[c] = restored], c)
           IN  ReadsAreShort(k) /\ Keep(k)
        /\ canonical' = [terrain EXCEPT ![c] = Over(terrain[c], restored)]
        /\ UNCHANGED <<hydrationPending, answer>>
    BY <1>6 DEF Generate, Reconciled, hydration
  <2>2. \/ overlay[c] # Empty /\ restored = overlay[c]
        \/ overlay[c] = Empty /\ restored = pending[c]
    OBVIOUS
  <2> HIDE DEF terrain, restored
  <2>3. /\ overlay' \in [Chunks -> Map] /\ pending' \in [Chunks -> Map]
        /\ accessOrder' \in Seq(Chunks) /\ OrderInv'
        /\ overlay'[c] = restored /\ pending'[c] = pending[c]
        /\ \A d \in Chunks \ {c} :
              \/ overlay'[d] = overlay[d] /\ pending'[d] = pending[d]
              \/ /\ overlay[d] # Empty /\ overlay'[d] = Empty /\ pending'[d] = overlay[d]
                 /\ d \in hydrationPending => EvictsDuringRead
    BY <1>2, <1>6, <2>1, TouchKept
  <2>4. /\ canonical'[c] \in Map /\ canonical' \in [Chunks -> Map]
        /\ \A x \in Cells :
              canonical'[c][x] = IF restored[x] # 0 THEN restored[x] ELSE terrain[c][x]
        /\ \A d \in Chunks \ {c} : canonical'[d] = terrain[d]
    <3>1. Over(terrain[c], restored) \in Map /\ \A x \in Cells :
             Over(terrain[c], restored)[x] = IF restored[x] # 0 THEN restored[x] ELSE terrain[c][x]
      BY <1>2, MapFacts
    <3> QED
      BY <1>2, <2>1, <3>1
  <2>5. OverlayTypeOK'
    BY <1>1, <1>4, <2>1, <2>3, <2>4 DEF OverlayTypeOK
  <2>6. MirrorOf(c)'
    <3>1. \A x \in Cells : overlay'[c][x] # 0 => overlay'[c][x] = canonical'[c][x]
      BY <2>3, <2>4
    <3>2. overlay'[c] # Empty
      BY <1>6, <2>3
    <3> QED
      BY <1>4, <3>1, <3>2 DEF MirrorOf, Shows
  <2>7. ASSUME RecordOf(c) PROVE RecordOf(c)'
    <3>1. Recorded(c)' = Recorded(c)
      BY <1>1, <2>3 DEF Recorded
    <3>2. restored = Recorded(c)
      BY <1>6, <2>2, <2>7 DEF RecordOf, Recorded
    <3>3. \A x \in Cells : restored[x] # 0 => canonical'[c][x] = restored[x]
      BY <2>4
    <3> QED
      BY <1>6, <2>1, <2>3, <2>7, <3>1, <3>2, <3>3 DEF RecordOf
  <2>8. ASSUME ClockOf(c) PROVE ClockOf(c)'
    <3>1. \A x \in Cells : restored[x] <= clock /\ terrain[c][x] <= clock
      BY <1>2, <1>3, <2>2, <2>8 DEF ClockOf, Young
    <3>2. Young(canonical[c])' /\ Young(overlay[c])'
      BY <1>1, <2>3, <2>4, <3>1 DEF Young
    <3> QED
      BY <1>1, <2>1, <2>3, <2>8, <3>2 DEF ClockOf, Young
  <2>9. ASSUME MirrorOf(c) PROVE Stays(c)
    <3> SUFFICES ASSUME ColumnOf(c) \in full, NEW x \in Cells
                 PROVE  canonical'[c][x] >= canonical[c][x]
      BY DEF Stays
    <3>1. terrain[c] = canonical[c] /\ canonical[c][x] \in Nat
      BY <1>2
    <3>2. restored[x] # 0 => restored[x] = canonical[c][x] \/ canonical[c][x] = 0
      BY <2>2, <2>9 DEF MirrorOf, Shows
    <3>3. restored[x] \in Nat
      BY <1>2 DEF Map
    <3> QED
      BY <2>4, <3>1, <3>2, <3>3
  <2>10. \A d \in Chunks \ {c} : Beside(d)
    BY <1>1, <1>2, <1>3, <2>1, <2>3, <2>4 DEF Beside
  <2> QED
    BY <2>3, <2>5, <2>6, <2>7, <2>8, <2>9, <2>10 DEF StepAt
<1> QED
  BY <1>5, <1>6

\* A late answer is applied only to a chunk without an entry, which has no
\* pending copy either: the committed copy is its record.
LEMMA HydrationAnswersKeeps ==
    ASSUME OverlayTypeOK, OrderInv, NEW c \in Chunks, HydrationAnswers(c)
    PROVE  StepAt(c)
<1>1. /\ c \in hydrationPending /\ answer[c] # None
      /\ hydrationPending' = hydrationPending \ {c}
      /\ answer' = [answer EXCEPT ![c] = None]
      /\ UNCHANGED <<full, slabs, committed, live, clock>>
  BY DEF HydrationAnswers
<1>2. /\ answer'[c] = None /\ answer' \in [Chunks -> Map \cup {None}]
      /\ \A d \in Chunks \ {c} : answer'[d] = answer[d]
  BY <1>1 DEF OverlayTypeOK
<1>3. /\ canonical[c] \in [Cells -> Nat]
      /\ clock \in Nat /\ clock' \in Nat /\ clock <= clock'
  BY <1>1 DEF OverlayTypeOK, Map
<1>4. CASE Applies(c)
  <2> DEFINE map == answer[c]
  <2>1. map \in Map /\ map # Empty /\ overlay[c] = Empty
    BY <1>1, <1>4 DEF Applies, OverlayTypeOK
  <2>2. /\ LET k == Touch([Kept EXCEPT !.overlay[c] = map], c)
           IN  ReadsAreShort(k) /\ Keep(k)
        /\ canonical' = [canonical EXCEPT ![c] = Over(canonical[c], map)]
    BY <1>4 DEF HydrationAnswers
  <2> HIDE DEF map
  <2>3. /\ overlay' \in [Chunks -> Map] /\ pending' \in [Chunks -> Map]
        /\ accessOrder' \in Seq(Chunks) /\ OrderInv'
        /\ overlay'[c] = map /\ pending'[c] = pending[c]
        /\ \A d \in Chunks \ {c} :
              \/ overlay'[d] = overlay[d] /\ pending'[d] = pending[d]
              \/ /\ overlay[d] # Empty /\ overlay'[d] = Empty /\ pending'[d] = overlay[d]
                 /\ d \in hydrationPending => EvictsDuringRead
    BY <2>1, <2>2, TouchKept
  <2>4. /\ canonical' \in [Chunks -> Map]
        /\ \A x \in Cells : canonical'[c][x] = IF map[x] # 0 THEN map[x] ELSE canonical[c][x]
        /\ \A d \in Chunks \ {c} : canonical'[d] = canonical[d]
    <3>1. canonical[c] \in Map
      BY DEF OverlayTypeOK
    <3>2. Over(canonical[c], map) \in Map /\ \A x \in Cells :
             Over(canonical[c], map)[x] = IF map[x] # 0 THEN map[x] ELSE canonical[c][x]
      BY <2>1, <3>1, MapFacts
    <3> QED
      BY <2>2, <3>2 DEF OverlayTypeOK
  <2>5. OverlayTypeOK'
    BY <1>1, <1>2, <2>3, <2>4 DEF OverlayTypeOK
  <2>6. ASSUME MirrorOf(c) PROVE MirrorOf(c)'
    <3>1. \A x \in Cells : overlay'[c][x] # 0 => overlay'[c][x] = canonical'[c][x]
      BY <2>3, <2>4
    <3>2. overlay'[c] # Empty
      BY <2>1, <2>3
    <3>3. c \in slabs' => ColumnOf(c) \in full'
      BY <1>1, <2>6 DEF MirrorOf
    <3> QED
      BY <3>1, <3>2, <3>3 DEF MirrorOf, Shows
  <2>7. ASSUME RecordOf(c)
        PROVE  RecordOf(c)' /\ \A x \in Cells : map[x] # 0 => canonical[c][x] \in {0, map[x]}
    <3>1. pending[c] = Empty /\ map = committed[c]
      BY <1>1, <2>1, <2>7 DEF RecordOf, map
    <3>2. Recorded(c) = map /\ Recorded(c)' = map
      BY <1>1, <2>3, <3>1 DEF Recorded
    <3>3. \A x \in Cells : map[x] # 0 => canonical[c][x] \in {0, map[x]}
      BY <2>7, <3>2 DEF RecordOf
    <3>4. \A x \in Cells : map[x] # 0 => canonical'[c][x] = map[x]
      BY <2>4
    <3> QED
      BY <1>1, <1>2, <2>1, <2>3, <2>7, <3>2, <3>3, <3>4 DEF RecordOf
  <2>8. ASSUME ClockOf(c) PROVE ClockOf(c)'
    <3>1. \A x \in Cells : map[x] <= clock /\ canonical[c][x] <= clock
      BY <1>1, <2>8 DEF ClockOf, Young, map
    <3>2. Young(canonical[c])' /\ Young(overlay[c])'
      BY <1>1, <2>3, <2>4, <3>1 DEF Young
    <3> QED
      BY <1>1, <1>2, <2>3, <2>8, <3>2 DEF ClockOf, Young
  <2>9. ASSUME RecordOf(c) PROVE Stays(c)
    <3>1. \A x \in Cells : map[x] \in Nat
      BY <2>1 DEF Map
    <3>2. \A x \in Cells : map[x] # 0 => canonical[c][x] = 0 \/ canonical[c][x] = map[x]
      BY <2>7, <2>9
    <3> QED
      BY <1>3, <2>4, <3>1, <3>2 DEF Stays
  <2>10. \A d \in Chunks \ {c} : Beside(d)
    BY <1>1, <1>2, <1>3, <2>3, <2>4 DEF Beside
  <2> QED
    BY <2>3, <2>5, <2>6, <2>7, <2>8, <2>9, <2>10 DEF StepAt
<1>5. CASE ~ Applies(c)
  <2>1. UNCHANGED <<overlay, accessOrder, pending, canonical>>
    BY <1>5 DEF HydrationAnswers, edits
  <2>2. OverlayTypeOK' /\ OrderInv'
    BY <1>1, <1>2, <2>1 DEF OverlayTypeOK, OrderInv
  <2>3. MirrorOf(c) => MirrorOf(c)'
    BY <1>1, <2>1 DEF MirrorOf, Shows
  <2>4. RecordOf(c) => RecordOf(c)'
    BY <1>1, <1>2, <2>1 DEF RecordOf, Recorded
  <2>5. (ClockOf(c) => ClockOf(c)') /\ Stays(c)
    BY <1>1, <1>2, <2>1, SameStays DEF ClockOf, Young
  <2>6. \A d \in Chunks \ {c} : Beside(d)
    BY <1>1, <1>2, <1>3, <2>1 DEF Beside
  <2> QED
    BY <2>2, <2>3, <2>4, <2>5, <2>6 DEF StepAt
<1> QED
  BY <1>4, <1>5

\* The import leaves each chunk its committed record, resident or pending.
LEMMA ImportFacts ==
    ASSUME OverlayTypeOK, NEW found \in SUBSET Held(committed), NEW order \in SetToSeqs(found)
    PROVE  LET k == Import(order)
           IN  /\ k.overlay \in [Chunks -> Map] /\ k.pending \in [Chunks -> Map]
               /\ k.order \in Seq(Chunks) /\ Distinct(k.order)
               /\ \A c \in Chunks : Occurs(k.order, c) <=> k.overlay[c] # Empty
               /\ \A c \in Chunks : /\ k.overlay[c] \in {Empty, committed[c]}
                                    /\ k.pending[c] \in {Empty, committed[c]}
<1> DEFINE len == Cardinality(found)
           excess == IF Len(order) > Cap THEN Len(order) - Cap ELSE 0
           committedOf(i, j) ==
               [c \in Chunks |-> IF \E n \in i .. j : order[n] = c THEN committed[c] ELSE Empty]
           rest == SubSeq(order, excess + 1, Len(order))
           k == Import(order)
<1>1. len \in Nat
  BY OverlayAssumption, FS_Subset, FS_CardinalityType DEF Held
<1>2. /\ order \in [1 .. len -> found]
      /\ \A i, j \in 1 .. len : i # j => order[i] # order[j]
  BY DEF SetToSeqs
<1>3. Len(order) = len /\ \A i \in 1 .. len : order[i] \in Chunks /\ committed[order[i]] # Empty
  BY <1>1, <1>2 DEF Held
<1>4. excess \in 0 .. len
  BY <1>1, <1>3, OverlayAssumption
<1>5. k = [overlay |-> committedOf(excess + 1, Len(order)), order |-> rest,
           pending |-> committedOf(1, excess)]
  BY DEF Import
<1>6. \A c \in Chunks : committed[c] \in Map
  BY DEF OverlayTypeOK
<1>7. \A i, j : /\ committedOf(i, j) \in [Chunks -> Map]
                /\ \A c \in Chunks : committedOf(i, j)[c] \in {Empty, committed[c]}
  BY <1>6, MapFacts
<1> HIDE DEF excess, len
<1>8. /\ rest \in Seq(Chunks) /\ Len(rest) = len - excess
      /\ \A i \in 1 .. len - excess : rest[i] = order[excess + i]
  <2>1. /\ excess + 1 \in Int /\ Len(order) \in Int
        /\ \A i \in (excess + 1) .. Len(order) : order[i] \in Chunks
    BY <1>1, <1>3, <1>4
  <2>2. /\ rest \in Seq(Chunks)
        /\ Len(rest) = IF excess + 1 <= Len(order) THEN Len(order) - (excess + 1) + 1 ELSE 0
        /\ \A i \in 1 .. Len(order) - (excess + 1) + 1 : rest[i] = order[excess + 1 + i - 1]
    BY <2>1, SubSeqProperties
  <2> QED
    BY <1>1, <1>3, <1>4, <2>2
<1> HIDE DEF rest
<1>9. Distinct(rest)
  BY <1>1, <1>2, <1>4, <1>8 DEF Distinct
<1>10. ASSUME NEW c \in Chunks
       PROVE  Occurs(rest, c) <=> committedOf(excess + 1, Len(order))[c] # Empty
  <2>1. Occurs(rest, c) <=> \E n \in (excess + 1) .. Len(order) : order[n] = c
    <3>1. ASSUME NEW n \in (excess + 1) .. Len(order), order[n] = c PROVE Occurs(rest, c)
      <4>1. n - excess \in 1 .. len - excess /\ excess + (n - excess) = n
        BY <1>1, <1>3, <1>4
      <4> QED
        BY <1>8, <3>1, <4>1 DEF Occurs
    <3>2. ASSUME NEW i \in 1 .. len - excess, rest[i] = c
          PROVE  \E n \in (excess + 1) .. Len(order) : order[n] = c
      <4>1. excess + i \in (excess + 1) .. Len(order) /\ order[excess + i] = c
        BY <1>1, <1>3, <1>4, <1>8, <3>2
      <4> QED
        BY <4>1
    <3> QED
      BY <1>8, <3>1, <3>2 DEF Occurs
  <2>2. \A n \in (excess + 1) .. Len(order) : committed[order[n]] # Empty
    BY <1>1, <1>3, <1>4
  <2> QED
    BY <2>1, <2>2
<1> DEFINE entries == committedOf(excess + 1, Len(order))
           copies == committedOf(1, excess)
<1>11. k.overlay = entries /\ k.order = rest /\ k.pending = copies
  BY <1>5
<1> HIDE DEF committedOf, k
<1>12. /\ entries \in [Chunks -> Map] /\ copies \in [Chunks -> Map]
       /\ \A c \in Chunks : Occurs(rest, c) <=> entries[c] # Empty
       /\ \A c \in Chunks : /\ entries[c] \in {Empty, committed[c]}
                            /\ copies[c] \in {Empty, committed[c]}
  BY <1>7, <1>10
<1> HIDE DEF entries, copies
<1>13. /\ k.overlay \in [Chunks -> Map] /\ k.pending \in [Chunks -> Map]
       /\ k.order \in Seq(Chunks) /\ Distinct(k.order)
       /\ \A c \in Chunks : Occurs(k.order, c) <=> k.overlay[c] # Empty
       /\ \A c \in Chunks : /\ k.overlay[c] \in {Empty, committed[c]}
                            /\ k.pending[c] \in {Empty, committed[c]}
  BY <1>8, <1>9, <1>11, <1>12
<1> QED
  BY <1>13 DEF k

\* After a reboot nothing is generated yet; what is there comes from the store.
LEMMA RebootKeeps ==
    ASSUME OverlayTypeOK, Reboot
    PROVE  /\ OverlayTypeOK' /\ OrderInv' /\ MirrorInv' /\ RecordInv'
           /\ ClockInv => ClockInv'
<1>1. /\ full' = {} /\ slabs' = {}
      /\ hydrationPending' = {} /\ answer' = [c \in Chunks |-> None]
      /\ live' = [c \in Chunks |-> Empty]
      /\ UNCHANGED <<committed, clock>>
  BY DEF Reboot
<1>2. PICK found \in {Held(committed), {}} : \E order \in SetToSeqs(found) :
         /\ Keep(Import(order))
         /\ canonical' = [c \in Chunks |-> IF c \in found THEN committed[c] ELSE Empty]
  BY DEF Reboot
<1>3. PICK order \in SetToSeqs(found) : Keep(Import(order))
  BY <1>2
<1> DEFINE k == Import(order)
<1>4. /\ k.overlay \in [Chunks -> Map] /\ k.pending \in [Chunks -> Map]
      /\ k.order \in Seq(Chunks) /\ Distinct(k.order)
      /\ \A c \in Chunks : Occurs(k.order, c) <=> k.overlay[c] # Empty
      /\ \A c \in Chunks : /\ k.overlay[c] \in {Empty, committed[c]}
                           /\ k.pending[c] \in {Empty, committed[c]}
  <2>1. found \in SUBSET Held(committed)
    BY <1>2
  <2> QED
    BY <2>1, ImportFacts
<1> HIDE DEF k
<1>5. overlay' = k.overlay /\ accessOrder' = k.order /\ pending' = k.pending
  BY <1>3 DEF Keep, k
<1>6. canonical' \in [Chunks -> Map] /\ answer' \in [Chunks -> Map \cup {None}]
      /\ live' \in [Chunks -> Map]
  BY <1>1, <1>2, MapFacts DEF OverlayTypeOK
<1>7. OverlayTypeOK'
  BY <1>1, <1>4, <1>5, <1>6 DEF OverlayTypeOK
<1>8. OrderInv'
  BY <1>4, <1>5 DEF OrderInv
<1>9. ASSUME NEW c \in Chunks
      PROVE  /\ canonical'[c] \in {Empty, committed[c]}
             /\ overlay'[c] \in {Empty, committed[c]} /\ pending'[c] \in {Empty, committed[c]}
             /\ committed'[c] = committed[c]
             /\ \A x \in Cells : Empty[x] = 0
  BY <1>1, <1>2, <1>4, <1>5, MapFacts
<1>10. ASSUME NEW c \in Chunks PROVE MirrorOf(c)'
  <2>1. c \notin slabs'
    BY <1>1
  <2>2. \A x \in Cells : /\ overlay'[c][x] # 0 => canonical'[c][x] \in {0, overlay'[c][x]}
                         /\ pending'[c][x] # 0 => canonical'[c][x] \in {0, pending'[c][x]}
    BY <1>9
  <2> QED
    BY <2>1, <2>2 DEF MirrorOf, Shows
<1>11. ASSUME NEW c \in Chunks PROVE RecordOf(c)'
  <2>1. Recorded(c)' = committed[c]
    BY <1>9 DEF Recorded
  <2>2. overlay'[c] # Empty => overlay'[c] = Recorded(c)'
    BY <1>9, <2>1
  <2>3. \A x \in Cells : canonical'[c][x] \in {0, committed[c][x]}
    BY <1>9
  <2> QED
    BY <1>1, <2>1, <2>2, <2>3 DEF RecordOf
<1>12. ASSUME ClockInv, NEW c \in Chunks PROVE ClockOf(c)'
  <2>1. \A x \in Cells : committed[c][x] <= clock /\ 0 <= clock
    BY <1>12 DEF ClockInv, ClockOf, Young, OverlayTypeOK
  <2>2. \A x \in Cells : /\ canonical'[c][x] <= clock /\ overlay'[c][x] <= clock
                         /\ pending'[c][x] <= clock /\ committed'[c][x] <= clock
    BY <1>9, <2>1
  <2>3. answer'[c] = None
    BY <1>1
  <2> QED
    BY <1>1, <2>2, <2>3 DEF ClockOf, Young
<1> QED
  BY <1>7, <1>8, <1>10, <1>11, <1>12 DEF MirrorInv, RecordInv, ClockInv

-----------------------------------------------------------------------------
(* The theorems. *)

LEMMA StepKeeps ==
    ASSUME OverlayTypeOK, OrderInv, [OverlayNext]_vars
    PROVE  \/ UNCHANGED vars
           \/ Reboot
           \/ \E c \in Chunks : StepAt(c)
<1>1. ASSUME NEW c \in Chunks, NEW x \in Cells, SetBlock(c, x) PROVE StepAt(c)
  BY <1>1, SetBlockKeeps
<1>2. ASSUME NEW c \in Chunks, Generate(c) PROVE StepAt(c)
  BY <1>2, GenerateKeeps
<1>3. ASSUME NEW c \in Chunks, Unload(c) PROVE StepAt(c)
  BY <1>3, UnloadKeeps
<1>4. ASSUME NEW c \in Chunks, Commit(c) PROVE StepAt(c)
  BY <1>4, CommitKeeps
<1>5. ASSUME NEW c \in Chunks, HydrationReads(c) PROVE StepAt(c)
  BY <1>5, HydrationReadsKeeps
<1>6. ASSUME NEW c \in Chunks, HydrationAnswers(c) PROVE StepAt(c)
  BY <1>6, HydrationAnswersKeeps
<1> QED
  BY <1>1, <1>2, <1>3, <1>4, <1>5, <1>6 DEF OverlayNext

LEMMA InitHolds ==
    OverlayInit => OverlayTypeOK /\ OrderInv /\ MirrorInv /\ RecordInv /\ ClockInv
<1> SUFFICES ASSUME OverlayInit
             PROVE  OverlayTypeOK /\ OrderInv /\ MirrorInv /\ RecordInv /\ ClockInv
  OBVIOUS
<1>1. OverlayTypeOK
  BY MapFacts DEF OverlayInit, OverlayTypeOK
<1>2. OrderInv
  BY DEF OverlayInit, OrderInv, Distinct, Occurs
<1>3. MirrorInv
  BY MapFacts DEF OverlayInit, MirrorInv, MirrorOf, Shows
<1>4. RecordInv
  BY MapFacts DEF OverlayInit, RecordInv, RecordOf, Recorded
<1>5. ClockInv
  BY MapFacts DEF OverlayInit, ClockInv, ClockOf, Young
<1> QED
  BY <1>1, <1>2, <1>3, <1>4, <1>5

\* The overlay never disagrees with the column it mirrors but for terrain above
\* or below a generated slab, whatever is evicted, regenerated, hydrated or
\* imported, and also where a read outlives its entry.
THEOREM OverlayIsMirror == OverlaySpec => []OverlayMirrorsColumn
<1> DEFINE Inv == OverlayTypeOK /\ OrderInv /\ MirrorInv
<1>1. OverlayInit => Inv
  BY InitHolds
<1>2. Inv /\ [OverlayNext]_vars => Inv'
  <2> SUFFICES ASSUME Inv, [OverlayNext]_vars PROVE Inv'
    OBVIOUS
  <2>1. CASE UNCHANGED vars
    BY <2>1 DEF vars, edits, hydration, OverlayTypeOK, OrderInv, MirrorInv, MirrorOf, Shows
  <2>2. CASE Reboot
    BY <2>2, RebootKeeps
  <2>3. ASSUME NEW c \in Chunks, StepAt(c) PROVE Inv'
    <3>1. \A d \in Chunks \ {c} : MirrorOf(d)'
      BY <2>3, BesideMirror DEF StepAt, MirrorInv
    <3> QED
      BY <2>3, <3>1 DEF StepAt, MirrorInv
  <2> QED
    BY <2>1, <2>2, <2>3, StepKeeps
<1>3. Inv => OverlayMirrorsColumn
  BY DEF MirrorInv, MirrorOf, Shows, OverlayMirrorsColumn
<1> QED
  BY <1>1, <1>2, <1>3, PTL DEF OverlaySpec

OverlayInv == OverlayTypeOK /\ OrderInv /\ MirrorInv /\ RecordInv /\ ClockInv

\* With reads that are answered before their entry is evicted, the record of
\* every chunk follows its entry and agrees with what the column shows.
LEMMA RecordAlways ==
    ASSUME EvictsDuringRead = FALSE
    PROVE  OverlaySpec => []OverlayInv
<1>1. OverlayInit => OverlayInv
  BY InitHolds DEF OverlayInv
<1>2. OverlayInv /\ [OverlayNext]_vars => OverlayInv'
  <2> SUFFICES ASSUME OverlayInv, [OverlayNext]_vars PROVE OverlayInv'
    OBVIOUS
  <2> USE DEF OverlayInv
  <2>1. CASE UNCHANGED vars
    BY <2>1 DEF vars, edits, hydration, OverlayTypeOK, OrderInv, MirrorInv, MirrorOf, Shows,
                RecordInv, RecordOf, Recorded, ClockInv, ClockOf, Young
  <2>2. CASE Reboot
    BY <2>2, RebootKeeps
  <2>3. ASSUME NEW c \in Chunks, StepAt(c) PROVE OverlayInv'
    <3>1. \A d \in Chunks \ {c} : MirrorOf(d)' /\ RecordOf(d)' /\ ClockOf(d)'
      BY <2>3, BesideMirror, BesideRecord, BesideClock
         DEF StepAt, MirrorInv, RecordInv, ClockInv
    <3> QED
      BY <2>3, <3>1 DEF StepAt, MirrorInv, RecordInv, ClockInv
  <2> QED
    BY <2>1, <2>2, <2>3, StepKeeps
<1> QED
  BY <1>1, <1>2, PTL DEF OverlaySpec

\* Evicting or losing a resident entry costs nothing that is not pending or
\* committed already.
THEOREM EntriesAreRecorded ==
    ASSUME EvictsDuringRead = FALSE
    PROVE  OverlaySpec => []OverlayIsRecorded
<1>1. OverlayInv => OverlayIsRecorded
  BY DEF OverlayInv, RecordInv, RecordOf, Recorded, OverlayIsRecorded, Held
<1> QED
  BY <1>1, RecordAlways, PTL

\* Once a column has its terrain, nothing takes back an edit that it shows: no
\* generation of one of its slabs, eviction, restored copy or late hydration.
THEOREM ShownEditsStay ==
    ASSUME EvictsDuringRead = FALSE
    PROVE  OverlaySpec => EditsStay
<1> DEFINE Stay == \A c \in Chunks, x \in Cells :
              ColumnOf(c) \in full \intersect full' => canonical'[c][x] >= canonical[c][x]
<1>1. OverlayInv /\ [OverlayNext]_vars => [Stay]_vars
  <2> SUFFICES ASSUME OverlayInv, OverlayNext, ~ UNCHANGED vars PROVE Stay
    OBVIOUS
  <2>1. CASE Reboot
    BY <2>1 DEF Reboot
  <2>2. ASSUME NEW c \in Chunks, StepAt(c) PROVE Stay
    <3>1. Stays(c)
      BY <2>2 DEF OverlayInv, MirrorInv, RecordInv, ClockInv, StepAt
    <3>2. \A d \in Chunks \ {c} : Stays(d)
      BY <2>2, BesideStays DEF OverlayInv, StepAt
    <3>3. \A d \in Chunks : Stays(d)
      BY <3>1, <3>2
    <3> QED
      BY <3>3 DEF Stays
  <2> QED
    BY <2>1, <2>2, StepKeeps DEF OverlayInv
<1>2. EditsStay <=> [][Stay]_vars
  BY DEF EditsStay
<1> QED
  BY <1>1, <1>2, RecordAlways, PTL DEF OverlaySpec
=============================================================================
