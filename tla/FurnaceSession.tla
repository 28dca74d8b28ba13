---------------------------- MODULE FurnaceSession ----------------------------
(***************************************************************************)
(* One place in the world where the player sets, uses and breaks a furnace *)
(* or a smoker: the block, its entity in the live host                     *)
(* (src/engine/LiveBlockEntityHost.ts), the cooking engine                 *)
(* (src/world/FurnaceBlockEntity.ts), the furnace screen                   *)
(* (src/ui/FurnacePanel.ts) and the parts of src/engine/Game.ts that run   *)
(* them.                                                                   *)
(*                                                                         *)
(* A frame runs some fixed ticks and then looks after the open screen; DOM *)
(* events arrive between frames.  The steps of a tick are the values of    *)
(* stage; nothing else runs in between.                                    *)
(***************************************************************************)
EXTENDS ContainerMenu

CONSTANTS Stations,    \* the station blocks: furnace, smoker
          Hotbar,      \* hotbar slots
          Storage,     \* storage slots
          Pack,        \* the stacks the player starts with
          Lying,       \* the items that lie around at the start
          CookTicks,   \* ticks a furnace needs for one item
          BurnTicks,   \* ticks one unit of fuel burns
          XpPerCook,   \* experience of one cook ...
          XpUnit,      \* ... in fractions of a point
          MaxTicks     \* maxCatchUpTicks: ticks in one frame

ASSUME StationsAssumption == Stations \subseteq {"furnace", "smoker"}
ASSUME SlotsAssumption == Hotbar \in Nat \ {0} /\ Storage \in Nat
ASSUME PackAssumption ==
    /\ Pack \in Seq([item : Items, count : Nat, rich : BOOLEAN])
    /\ Len(Pack) \in Hotbar .. Hotbar + Storage
ASSUME LyingAssumption == Lying \in [Items -> Nat]
ASSUME TimesAssumption ==
    /\ CookTicks \in Nat \ {0} /\ BurnTicks \in Nat \ {0}
    /\ XpPerCook \in Nat /\ XpUnit \in Nat \ {0}
    /\ MaxTicks \in Nat \ {0}

VARIABLES
    block,     \* the block at the place: air or a station
    entity,    \* the block entity of the host, or NoEntity
    marked,    \* the entity in the last snapshot given to persistence
    inv,       \* the hotbar slots, then the storage stacks
    cursor,    \* the stack the screen holds between transactions
    open,      \* the station whose screen is open, or "none"
    ground,    \* ground[i]: items i lying around
    gained,    \* points of experience given to the player or as orbs
    stage,     \* where the frame is: events between frames, else a step
    ticks,     \* ticks this frame has started
    stopped,   \* an exception has ended the game loop
    burnt, spent, cooked,   \* history: fuel lit, cook ticks used, items cooked
    lost       \* history: items blown up or left on the cursor of a closed page

pocketVars == <<inv, cursor, ground>>
hostVars == <<entity, marked>>
frameVars == <<stage, ticks, stopped>>
cookVars == <<burnt, spent, cooked>>
sessionVars == <<block, hostVars, pocketVars, open, gained, frameVars, cookVars, lost>>

-----------------------------------------------------------------------------
(* The cooking engine. *)

NoEntity == [type |-> "none", input |-> Empty, fuel |-> Empty, output |-> Empty,
             burn |-> 0, smelt |-> 0, xp |-> 0]

\* The smoker cooks in half the time, rounded up.
CookTime(type) == IF type = "smoker" THEN (CookTicks + 1) \div 2 ELSE CookTicks

Contents(e) == <<e.input, e.fuel, e.output>>

\* Ore gives one ingot; nothing else smelts.
CanSmelt(e) ==
    /\ e.input.item = "ore"
    /\ e.output = Empty \/ (e.output.item = "ingot" /\ e.output.count < Cap)

\* A unit of fuel is taken only when there is something to cook with it.
Lights(e) == CanSmelt(e) /\ e.burn = 0 /\ e.fuel.item = "coal"

Less(s) == Stack(s, s.count - 1)

Ingots(e) == [item |-> "ingot", count |-> e.output.count + 1, rich |-> FALSE]

\* Seeded bug: the progress of a finished cook is kept.
FinishKeeping(e) ==
    [e EXCEPT !.input = Less(@), !.output = Ingots(e), !.xp = @ + XpPerCook]

Finish(e) ==
    [e EXCEPT !.input = Less(@), !.output = Ingots(e), !.smelt = 0, !.xp = @ + XpPerCook]

\* One canonical tick.
TickOnce(e) ==
    LET lit == IF Lights(e) THEN [e EXCEPT !.fuel = Less(@), !.burn = BurnTicks] ELSE e
        hot == [lit EXCEPT !.burn = @ - 1, !.smelt = Lesser(CookTime(e.type), @ + 1)]
    IN  IF e.input = Empty THEN [e EXCEPT !.smelt = 0]
        ELSE IF ~ CanSmelt(e) \/ lit.burn = 0 THEN e
        ELSE IF hot.smelt >= CookTime(e.type) THEN Finish(hot)
        ELSE hot

-----------------------------------------------------------------------------
(* The player's inventory. *)

\* An emptied hotbar slot keeps the identity of its last item; an emptied
\* storage slot disappears.
Slot(k) == IF k <= Len(inv) /\ inv[k].count > 0 THEN inv[k] ELSE Empty

\* n more of the item in slot k; r is the slots and what is left to place.
Put(r, item, k, n) ==
    [slots |-> [r.slots EXCEPT ![k] = [item |-> item, count |-> @.count + n, rich |-> FALSE]],
     left |-> r.left - n]

\* A stack without components takes what it has room for.
TopUp(r, item, k) ==
    LET s == r.slots[k]
    IN  IF s.item = item /\ ~ s.rich /\ s.count < StackSize(item)
        THEN Put(r, item, k, Lesser(r.left, StackSize(item) - s.count)) ELSE r

\* An empty hotbar slot takes a stack.
TakeSlot(r, item, k) ==
    IF r.left > 0 /\ r.slots[k].count = 0
    THEN Put(r, item, k, Lesser(r.left, StackSize(item))) ELSE r

\* The storage grows by a stack while it has room.
TakeStorage(r, item) ==
    LET n == Lesser(r.left, StackSize(item))
    IN  IF r.left > 0 /\ Len(r.slots) < Hotbar + Storage
        THEN [slots |-> Append(r.slots, [item |-> item, count |-> n, rich |-> FALSE]),
              left |-> r.left - n]
        ELSE r

UpTo(n) == [k \in 1 .. n |-> k]

ToppedUp(r, item) == FoldLeft(LAMBDA x, k : TopUp(x, item, k), r, UpTo(Len(r.slots)))
InHotbar(r, item) == FoldLeft(LAMBDA x, k : TakeSlot(x, item, k), r, UpTo(Hotbar))
InStorage(r, item) == FoldLeft(LAMBDA x, k : TakeStorage(x, item), r, UpTo(Storage))

\* Inventory.addItem; "left" found no place.
AddItem(item, n) ==
    InStorage(InHotbar(ToppedUp([slots |-> inv, left |-> n], item), item), item)

\* returnStackToPlayer: the item and its count come back, not the components.
Returned == IF cursor = Empty THEN [slots |-> inv, left |-> 0]
            ELSE AddItem(cursor.item, cursor.count)

\* The items i among the stacks.
Sum(i, stacks) ==
    LET first[k \in 0 .. Len(stacks)] ==
            IF k = 0 THEN 0
            ELSE first[k - 1] + (IF stacks[k].item = i THEN stacks[k].count ELSE 0)
    IN  first[Len(stacks)]

Drop(i, drops) == IF i \in DOMAIN drops THEN ground[i] + drops[i] ELSE ground[i]

-----------------------------------------------------------------------------
(* The furnace screen. *)

Input == 1
Output == 3
PlayerStart == 4
MenuSize == 3 + Hotbar + Storage

\* deriveMenu.
Menu ==
    LET slots == Contents(entity) \o [k \in 1 .. Hotbar + Storage |-> Slot(k)]
    IN  [slots |-> slots,
         caps |-> [k \in 1 .. MenuSize |->
                      IF k < PlayerStart \/ slots[k] = Empty THEN Cap
                      ELSE StackSize(slots[k].item)],
         cursor |-> cursor]

\* validateContainerMenu throws.
MenuThrows == \E k \in 1 .. MenuSize : Menu.slots[k].count > Menu.caps[k]

Clicks == {"left", "right", "quick"}

Apply(click, m, i) ==
    CASE click = "left" -> LeftClick(m, i)
      [] click = "right" -> RightClick(m, i)
      [] click = "quick" -> IF i < PlayerStart THEN QuickMove(m, i, PlayerStart, MenuSize)
                            ELSE QuickMove(m, i, Input, Output)

\* The furnace slots keep no components: the state is stored without them.
Plain(s) == [s EXCEPT !.rich = FALSE]

Grows(m) == m.slots[Output].count > entity.output.count

\* writeBackPlayerSlots: the hotbar keeps its places, the storage its stacks.
WithStack(stacks, s) == IF s = Empty THEN stacks ELSE Append(stacks, s)
WithStacks(stacks, more) == FoldLeft(WithStack, stacks, more)

WriteBack(slots) ==
    LET hot == [k \in 1 .. Hotbar |-> IF slots[k] # Empty THEN slots[k]
                                      ELSE [inv[k] EXCEPT !.count = 0, !.rich = FALSE]]
    IN  WithStacks(hot, SubSeq(slots, Hotbar + 1, Hotbar + Storage))

\* FurnacePanel.transact with applyMenuSlots of the host.
Transact(click, i) ==
    /\ stage = "events" /\ open # "none"
    /\ entity.type = open
    /\ ~ MenuThrows
    /\ open = "smoker" => block = "smoker"
    /\ LET m == Apply(click, Menu, i) IN
        /\ i = Output => ~ Grows(m)
        /\ entity' = [entity EXCEPT !.input = Plain(m.slots[1]), !.fuel = Plain(m.slots[2]),
                                    !.output = Plain(m.slots[3])]
        /\ inv' = WriteBack(SubSeq(m.slots, PlayerStart, MenuSize))
        /\ cursor' = m.cursor
    /\ marked' = entity'
    /\ UNCHANGED <<block, ground, open, gained, frameVars, cookVars, lost>>

-----------------------------------------------------------------------------
(* Game: the session. *)

\* Seeded bug: the points are granted and stay in the furnace.
GrantKeeping(e) == e

\* takeExperience: whole points go, the fraction stays.
Drained(e) == [e EXCEPT !.xp = @ % XpUnit]

Points(e) == e.xp \div XpUnit

\* Seeded bug: what does not fit the inventory is forgotten.
SettleCursorOnly(drops) ==
    /\ inv' = Returned.slots
    /\ cursor' = Empty
    /\ ground' = [i \in Items |-> Drop(i, drops)]

\* The cursor goes back to the inventory, the rest of it and drops to the ground.
SettleCursor(drops) ==
    /\ inv' = Returned.slots
    /\ cursor' = Empty
    /\ ground' = [i \in Items |-> Drop(i, drops) + (IF i = cursor.item THEN Returned.left ELSE 0)]

NoDrops == [i \in {} |-> 0]

\* closeFurnace.
CloseFurnace ==
    /\ SettleCursor(NoDrops)
    /\ open' = "none"
    /\ IF entity.type = open /\ Points(entity) > 0
       THEN /\ entity' = Drained(entity)
            /\ marked' = entity'
            /\ gained' = gained + Points(entity)
       ELSE UNCHANGED <<hostVars, gained>>

\* The close button, Escape, another screen, or the pointer locked again.
Close ==
    /\ stage = "events" /\ open # "none"
    /\ CloseFurnace
    /\ UNCHANGED <<block, frameVars, cookVars, lost>>

\* onPageHide saves the inventory and what lies around; the next page restores
\* them with the last snapshot of the entity.  The cursor is in no snapshot.
LeavePage ==
    /\ stage = "events"
    /\ entity' = marked
    /\ cursor' = Empty
    /\ open' = "none" /\ stopped' = FALSE
    /\ lost' = [i \in Items |-> lost[i] + Sum(i, <<cursor>>)]
    /\ UNCHANGED <<block, marked, inv, ground, gained, stage, ticks, cookVars>>

-----------------------------------------------------------------------------
(* A frame: the fixed ticks, which an open screen pauses, then the upkeep.  *)

StartFrame ==
    /\ stage = "events" /\ ~ stopped
    /\ open = "none"
    /\ stage' = "interact" /\ ticks' = 1
    /\ UNCHANGED <<block, hostVars, pocketVars, open, gained, stopped, cookVars, lost>>

\* The player acts on the input of the events.  openFurnace releases the pointer
\* and drops that input, so the rest of the frame does nothing to the block.
Interacts == stage = "interact" /\ open = "none"

Interacted == stage' = "collect" /\ UNCHANGED <<ticks, stopped>>

NoInteraction ==
    /\ stage = "interact"
    /\ Interacted
    /\ UNCHANGED <<block, hostVars, pocketVars, open, gained, cookVars, lost>>

\* placeFurnace and placeSmoker: a record that is still there wins.
Place(type) ==
    /\ Interacts
    /\ block = "air"
    /\ block' = type
    /\ IF entity = NoEntity
       THEN entity' = [NoEntity EXCEPT !.type = type] /\ marked' = entity'
       ELSE UNCHANGED hostVars
    /\ Interacted
    /\ UNCHANGED <<pocketVars, open, gained, cookVars, lost>>

\* openFurnace.  The screen is open when its first render throws, and the
\* exception ends the frame and the loop.
Use ==
    /\ Interacts
    /\ block # "air" /\ entity.type = block
    /\ open' = block
    /\ IF MenuThrows
       THEN stage' = "events" /\ ticks' = 0 /\ stopped' = TRUE
       ELSE Interacted
    /\ UNCHANGED <<block, hostVars, pocketVars, gained, cookVars, lost>>

\* onBlockBrokenAt: settle the screen, remove the entity, whatever its kind,
\* drop its contents and give its experience.
Break ==
    /\ Interacts
    /\ block # "air"
    /\ block' = "air"
    /\ IF entity = NoEntity
       THEN UNCHANGED <<hostVars, pocketVars, open, gained>>
       ELSE /\ SettleCursor([i \in Items |-> Sum(i, Contents(entity))])
            /\ open' = "none"
            /\ entity' = NoEntity /\ marked' = NoEntity
            /\ gained' = gained + Points(entity)
    /\ Interacted
    /\ UNCHANGED <<cookVars, lost>>

\* collectPlayerDrops, for the items within reach and old enough.
Collect(i) ==
    /\ stage = "collect"
    /\ ground[i] > 0
    /\ LET r == AddItem(i, ground[i]) IN
        /\ inv' = r.slots
        /\ ground' = [ground EXCEPT ![i] = r.left]
    /\ stage' = "furnaces"
    /\ UNCHANGED <<block, hostVars, cursor, open, gained, ticks, stopped, cookVars, lost>>

CollectNothing ==
    /\ stage = "collect"
    /\ stage' = "furnaces"
    /\ UNCHANGED <<block, hostVars, pocketVars, open, gained, ticks, stopped, cookVars, lost>>

\* tickFurnaces and tickSmokers, in a chunk that simulates.
Cook ==
    /\ entity # NoEntity /\ block = entity.type
    /\ LET e == TickOnce(entity) IN
        /\ entity' = e
        /\ marked' = IF e = entity THEN marked ELSE e
        /\ burnt' = burnt + (entity.fuel.count - e.fuel.count)
        /\ cooked' = cooked + (entity.input.count - e.input.count)
        /\ spent' = spent + CookTime(e.type) * (entity.input.count - e.input.count)
    /\ UNCHANGED lost

\* The block is gone: the record goes, and its contents with it.
RemoveStale ==
    /\ entity # NoEntity /\ block # entity.type
    /\ entity' = NoEntity /\ marked' = NoEntity
    /\ lost' = [i \in Items |-> lost[i] + Sum(i, Contents(entity))]
    /\ UNCHANGED cookVars

NotSimulated == UNCHANGED <<hostVars, cookVars, lost>>

TickFurnaces ==
    /\ stage = "furnaces"
    /\ Cook \/ RemoveStale \/ NotSimulated
    /\ stage' = "withers"
    /\ UNCHANGED <<block, pocketVars, open, gained, ticks, stopped>>

\* tickWithers: an explosion sets the block to air and tells nobody.
TickWithers ==
    /\ stage = "withers"
    /\ block' \in {block, "air"}
    /\ IF ticks < MaxTicks
       THEN stage' \in {"interact", "upkeep"} /\ ticks' = ticks + 1
       ELSE stage' = "upkeep" /\ UNCHANGED ticks
    /\ UNCHANGED <<hostVars, pocketVars, open, gained, stopped, cookVars, lost>>

\* Seeded bug: the screen asks the host, which keeps a stale record.
GoneFromHost == entity.type # open

\* The screen is over a block that is not there any more.
Gone == block # open

Upkeep ==
    /\ stage = "upkeep"
    /\ IF open # "none" /\ Gone
       THEN CloseFurnace
       ELSE UNCHANGED <<hostVars, pocketVars, open, gained>>
    /\ stage' = "events" /\ ticks' = 0
    /\ UNCHANGED <<block, stopped, cookVars, lost>>

-----------------------------------------------------------------------------
SessionInit ==
    /\ block = "air"
    /\ entity = NoEntity /\ marked = NoEntity
    /\ inv = Pack
    /\ cursor = Empty
    /\ open = "none"
    /\ ground = Lying
    /\ gained = 0
    /\ stage = "events" /\ ticks = 0 /\ stopped = FALSE
    /\ burnt = 0 /\ spent = 0 /\ cooked = 0
    /\ lost = [i \in Items |-> 0]

SessionNext ==
    \/ \E click \in Clicks, i \in 1 .. MenuSize : Transact(click, i)
    \/ Close \/ LeavePage
    \/ StartFrame \/ NoInteraction \/ Use \/ Break
    \/ \E type \in Stations : Place(type)
    \/ CollectNothing \/ \E i \in Items : Collect(i)
    \/ TickFurnaces \/ TickWithers \/ Upkeep

SessionSpec == SessionInit /\ [][SessionNext]_sessionVars

-----------------------------------------------------------------------------
(* Properties. *)

\* Where an item can be.
Total(i) == ground[i] + lost[i] + Sum(i, inv \o <<cursor>> \o Contents(entity))

\* What there was at the start.
Supply(i) == Lying[i] + Sum(i, Pack)

\* No item is made or vanishes, through clicks, overfull inventories, broken
\* stations, reloads and explosions: ore is still there as ore or as an ingot,
\* and coal is there or was lit.
ItemsConserved ==
    /\ Total("ore") + cooked = Supply("ore")
    /\ Total("ingot") = Supply("ingot") + cooked
    /\ Total("coal") + burnt = Supply("coal")
    /\ Total("tool") = Supply("tool")

\* Every cook is paid with fuel, over pauses, reloads, new inputs and broken
\* stations: "reload MUST NOT double-consume fuel or double-produce output".
NoFreeSmelt == spent + entity.smelt + entity.burn <= burnt * BurnTicks

\* A cook gives its experience once, however often the screen is closed, the
\* station broken or the page reloaded.
XpOnce == gained * XpUnit + entity.xp <= cooked * XpPerCook

\* Between frames an open screen stands over its block and its record: "an
\* open UI cannot retain a ghost reference to the destroyed furnace".
NoGhostScreen ==
    stage = "events" /\ open # "none" => block = open /\ entity.type = open
=============================================================================
