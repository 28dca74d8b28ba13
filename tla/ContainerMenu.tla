---------------------------- MODULE ContainerMenu ----------------------------
(***************************************************************************)
(* The click transactions of src/inventory/MenuTransaction.ts over a menu: *)
(* a sequence of slots, the capacity each slot had when the menu was       *)
(* derived, and the stack on the cursor.  Items are a representative       *)
(* catalogue: one that smelts, its result, one that burns, one that does   *)
(* not stack.  "rich" says that a stack carries components (enchantments,  *)
(* potion contents, wear).                                                 *)
(***************************************************************************)
EXTENDS Naturals, Sequences, SequencesExt

CONSTANT Cap   \* MAX_CURSOR_COUNT, the largest stack there is

ASSUME CapAssumption == Cap \in Nat \ {0}

Items == {"ore", "ingot", "coal", "tool"}

StackSize(item) == IF item = "tool" THEN 1 ELSE Cap

Empty == [item |-> "none", count |-> 0, rich |-> FALSE]

\* n items of the kind of s.
Stack(s, n) == IF n = 0 THEN Empty ELSE [s EXCEPT !.count = n]

Lesser(m, n) == IF m < n THEN m ELSE n

\* Equal item and equal components (menuComponentsEqual).
Alike(s, t) == s.item = t.item /\ s.rich = t.rich

\* Pick up, place or merge what fits, or swap.
LeftClick(m, i) ==
    LET s == m.slots[i]
        c == m.cursor
        n == Lesser(c.count, m.caps[i] - s.count)
    IN  IF c # Empty /\ (s = Empty \/ Alike(s, c))
        THEN [m EXCEPT !.slots[i] = Stack(c, s.count + n), !.cursor = Stack(c, c.count - n)]
        ELSE [m EXCEPT !.slots[i] = c, !.cursor = s]

\* Half of the stack goes to the cursor, as far as the cursor has room: the
\* room is that of the largest stack, whatever the item.
RightClick(m, i) ==
    LET s == m.slots[i]
        c == m.cursor
        n == Lesser((s.count + 1) \div 2, Cap - c.count)
    IN  IF s # Empty /\ (c = Empty \/ Alike(s, c))
        THEN [m EXCEPT !.slots[i] = Stack(s, s.count - n), !.cursor = Stack(s, c.count + n)]
        ELSE IF s = Empty /\ c # Empty
        THEN [m EXCEPT !.slots[i] = Stack(c, 1), !.cursor = Stack(c, c.count - 1)]
        ELSE m

\* As much of slot i as slot j takes.
Pour(m, i, j) ==
    LET n == Lesser(m.slots[i].count, m.caps[j] - m.slots[j].count)
    IN  [m EXCEPT !.slots[j] = Stack(m.slots[i], m.slots[j].count + n),
                  !.slots[i] = Stack(m.slots[i], m.slots[i].count - n)]

\* What is left in slot i joins the stack in slot j if they are alike.
MergeInto(m, i, j) ==
    IF m.slots[i] # Empty /\ Alike(m.slots[i], m.slots[j]) THEN Pour(m, i, j) ELSE m

Merged(m, i, targets) == FoldLeft(LAMBDA x, j : MergeInto(x, i, j), m, targets)

\* What is left in slot i goes to slot j if that is empty.
FillInto(m, i, j) ==
    IF m.slots[i] # Empty /\ m.slots[j] = Empty THEN Pour(m, i, j) ELSE m

Filled(m, i, targets) == FoldLeft(LAMBDA x, j : FillInto(x, i, j), m, targets)

\* The stack of slot i goes to the slots first .. last: to the stacks like it,
\* in order, and what is left to the empty slots.
QuickMove(m, i, first, last) ==
    LET targets == [k \in 1 .. last - first + 1 |-> first + k - 1]
    IN  Filled(Merged(m, i, targets), i, targets)
=============================================================================
