------------------------------ MODULE Production ------------------------------
(***************************************************************************)
(* Building for money: FactoryClass (ra/objects/factory.cc), the pool of   *)
(* factories it is allocated from (game/core/object_heap.h), the           *)
(* production orders of HouseClass (ra/objects/house.cc), the sidebar that *)
(* gives them (ra/map/sidebar.cc), the events that carry them              *)
(* (ra/net/event.cc) and the factories of a computer's buildings           *)
(* (BuildingClass::Factory_AI).                                            *)
(*                                                                         *)
(* One player and one computer house share the pool of factories and the   *)
(* pools of objects.  The player clicks on the sidebar, which looks at the *)
(* state of that moment; the order takes effect when its event is          *)
(* executed, some frames later.                                            *)
(***************************************************************************)
EXTENDS Integers, Sequences, FiniteSets, FiniteSetsExt, Sums

CONSTANTS Items,          \* what can be built
          Structures,     \* the items the player places on the map
          ComputerItems,  \* what the computer ever suggests
          Price,          \* [Items -> cost]
          PoolSize,       \* size of the factory heap
          Steps,          \* kStepCount, 54
          Room,           \* size of the object heap of a kind
          Plants,         \* <<house, kind>>: who ever has a plant of a kind
          Targets,        \* the plants that may be destroyed, sold or captured
          Funds,          \* credits of a house at the start
          Ore,            \* what the harvesters of a house can still bring
          Silo,           \* storage of a house's silos
          SmallAmount,    \* a computer starts nothing with this much or less
          MaxEvents,      \* orders the player can have under way
          Nothing

Houses == {"player", "computer"}
Kinds == {"unit", "building"}

ASSUME ProductionAssumption ==
  /\ Structures \subseteq Items /\ ComputerItems \subseteq Items \ Structures
  /\ Price \in [Items -> Nat]
  /\ PoolSize \in Nat \ {0} /\ Steps \in Nat \ {0, 1}
  /\ Funds \in [Houses -> Nat] /\ Ore \in [Houses -> Nat]
  /\ Silo \in [Houses -> Nat] /\ SmallAmount \in Nat
  /\ Plants \subseteq Houses \X Kinds /\ Targets \subseteq Plants
  /\ MaxEvents \in Nat
  /\ Nothing \notin Items

Slots == 0..PoolSize - 1
NoSlot == -1

KindOf(i) == IF i \in Structures THEN "building" ELSE "unit"

VARIABLES factory,   \* the slots of the factory heap, allocated or not
          used,      \* the allocated ones
          index,     \* a house's factory of a kind: UnitFactory, BuildingFactory
                     \* of the player, Factory of the computer's building
          button,    \* the sidebar's factory of an item
          placing,   \* PendingObjectPtr is set: the player places a building
          events,    \* the player's orders that are not executed yet
          credits, tiberium, capacity,  \* of each house
          ore,       \* not harvested yet
          plant,     \* each house's building that makes items of a kind
          field,     \* objects of a kind that left their factory
          stranded,  \* objects of a kind nobody refers to any more
          gone,      \* the value of all that left a factory, or went with a silo
          refused    \* an object could not be created for want of room

money == << credits, tiberium, capacity, ore, gone >>
outside == << plant, field, stranded >>
vars == << factory, used, index, button, placing, events, money, outside,
           refused >>

-----------------------------------------------------------------------------
(* FactoryClass *)

Blank == [object |-> Nothing, house |-> "player", balance |-> 0, stage |-> 0,
          moving |-> FALSE, suspended |-> TRUE, fresh |-> FALSE]

Holds(c) == c.object # Nothing

\* (mutant) Completed while the sidebar has not asked yet.
CompletedWhenFresh(c) == Holds(c) /\ c.fresh

HasCompleted(c) == Holds(c) /\ c.stage = Steps
IsBuilding(c) == c.moving

AvailableMoney(h) == tiberium[h] + credits[h]

\* (mutant) Equal parts, the last one whatever is left.
CostInEqualParts(c) == IF Holds(c) THEN c.balance \div Steps ELSE 0

CostPerTick(c) ==
  LET steps == Steps - c.stage
  IN  IF ~Holds(c) THEN 0
      ELSE IF steps > 0 THEN c.balance \div steps ELSE c.balance

\* The first order of a factory: Set, with no money spent yet.
Order(i, h) == [Blank EXCEPT !.object = i, !.house = h, !.balance = Price[i]]

\* Start, when the house has `money'.
Started(c, available) ==
  IF Holds(c) /\ c.suspended /\ ~HasCompleted(c) /\ available >= CostPerTick(c)
  THEN [c EXCEPT !.moving = TRUE, !.suspended = FALSE]
  ELSE c

Suspended(c) ==
  IF c.suspended THEN c ELSE [c EXCEPT !.moving = FALSE, !.suspended = TRUE]

\* What Abandon pays back.
Refund(c) == IF Holds(c) THEN Price[c.object] - c.balance ELSE 0

\* HouseClass::Spend_Money: tiberium before credits.
Spend(h, m) ==
  /\ tiberium' = [tiberium EXCEPT ![h] = IF m > @ THEN 0 ELSE @ - m]
  /\ credits' = [credits EXCEPT ![h] =
                   IF m > tiberium[h] THEN @ - (m - tiberium[h]) ELSE @]
  /\ UNCHANGED << capacity, ore, gone >>

\* FactoryClass::AI when a step is due, at a cost: with the money for it the
\* cost is paid, without it the factory goes back to the stage it was at.
Paid(c, cost) == [c EXCEPT !.balance = @ - cost]

\* (mutant) A step forward all the same.
NotSteppedBack(c) == c

SteppedBack(c) == [c EXCEPT !.stage = @ - 1]

\* Either way, at the last stage production ends and what is still due is
\* paid, whether or not there is money for it.
Ended(c) ==
  IF c.stage = Steps
  THEN [Suspended(c) EXCEPT !.balance = 0, !.fresh = TRUE]
  ELSE c

FactoryAI(f) ==
  LET c == factory[f]
      next == [c EXCEPT !.stage = @ + 1]
      cost == Min({CostPerTick(next), c.balance})
      enough == cost <= AvailableMoney(c.house)
      after == Ended(IF enough THEN Paid(next, cost) ELSE SteppedBack(next))
  IN /\ f \in used
     /\ Holds(c) /\ ~c.suspended /\ c.moving /\ ~HasCompleted(c)
     /\ factory' = [factory EXCEPT ![f] = after]
     /\ Spend(c.house, c.balance - after.balance)
     /\ UNCHANGED << used, index, button, placing, events, outside, refused >>

-----------------------------------------------------------------------------
(* The pools *)

\* ObjectHeap::AllocateSlot takes the lowest free slot.
NewSlot(use) == Min(Slots \ use)

\* Objects of a kind in the slots `facs', on the map and forgotten.
Objects(facs, k) ==
  Cardinality({f \in Slots : Holds(facs[f]) /\ KindOf(facs[f].object) = k})
    + field[k] + stranded[k]

\* Create_One_Of succeeds.
RoomFor(facs, k) == Objects(facs, k) < Room[k]

-----------------------------------------------------------------------------
(* Orders of the player's house, as its events are executed *)

OwnFactory(k) == index["player"][k]

\* HouseClass::Begin_Production with a factory of the kind there already.
Restart(i) ==
  LET f == OwnFactory(KindOf(i))
  IN /\ f # NoSlot
     /\ IF IsBuilding(factory[f])
        THEN UNCHANGED << factory, button >>
        ELSE /\ factory' = [factory EXCEPT ![f] =
                              Started(@, AvailableMoney(@.house))]
             /\ button' = [button EXCEPT ![i] = f]
     /\ UNCHANGED << used, index, refused >>

\* Begin_Production with a new factory; without room for the object the
\* factory goes back to the pool, and its number stays.
Begin(i) ==
  LET k == KindOf(i)
      f == NewSlot(used)
  IN /\ OwnFactory(k) = NoSlot
     /\ used # Slots
     /\ index' = [index EXCEPT !["player"][k] = f]
     /\ IF RoomFor(factory, k)
        THEN /\ used' = used \cup {f}
             /\ factory' = [factory EXCEPT ![f] =
                              Started(Order(i, "player"), AvailableMoney("player"))]
             /\ button' = [button EXCEPT ![i] = f]
             /\ UNCHANGED refused
        ELSE /\ factory' = [factory EXCEPT ![f] = Blank]
             /\ refused' = TRUE
             /\ UNCHANGED << used, button >>

PoolEmpty(i) ==
  /\ OwnFactory(KindOf(i)) = NoSlot /\ used = Slots
  /\ UNCHANGED << factory, used, index, button, refused >>

BeginProduction(i) ==
  /\ Restart(i) \/ Begin(i) \/ PoolEmpty(i)
  /\ UNCHANGED << placing, money, outside >>

\* HouseClass::Suspend_Production
SuspendProduction(k) ==
  LET f == OwnFactory(k)
  IN /\ IF f = NoSlot THEN UNCHANGED factory
        ELSE factory' = [factory EXCEPT ![f] = Suspended(@)]
     /\ UNCHANGED << used, index, button, placing, money, outside, refused >>

\* (mutant) Set_Factory forgotten.
DismissKeepingIndex(k) ==
  LET f == OwnFactory(k)
  IN /\ button' = [i \in Items |-> IF KindOf(i) = k /\ button[i] = f
                                   THEN NoSlot ELSE button[i]]
     /\ placing' = (placing /\ k # "building")
     /\ factory' = [factory EXCEPT ![f] = Blank]
     /\ UNCHANGED index
     /\ used' = used \ {f}
     /\ UNCHANGED refused

\* HouseClass::Abandon_Production for a slot that is not NoSlot, except for
\* what becomes of the money and the object.
Dismiss(k) ==
  LET f == OwnFactory(k)
  IN /\ button' = [i \in Items |-> IF KindOf(i) = k /\ button[i] = f
                                   THEN NoSlot ELSE button[i]]
     /\ placing' = (placing /\ k # "building")
     /\ factory' = [factory EXCEPT ![f] = Blank]
     /\ index' = [index EXCEPT !["player"][k] = NoSlot]
     /\ used' = used \ {f}
     /\ UNCHANGED refused

\* FactoryClass::Abandon: HouseClass::Refund_Money to the owner of the object.
PayBack(c) ==
  /\ credits' = [credits EXCEPT ![c.house] = @ + Refund(c)]
  /\ UNCHANGED << tiberium, capacity, ore, gone >>

AbandonProduction(k) ==
  LET f == OwnFactory(k)
  IN IF f = NoSlot
     THEN UNCHANGED << factory, used, index, button, placing, money, outside,
                       refused >>
     ELSE Dismiss(k) /\ PayBack(factory[f]) /\ UNCHANGED outside

\* An object leaves the factory in the player's slot of kind k.
Leaves(k, c) ==
  /\ Dismiss(k)
  /\ gone' = [gone EXCEPT ![c.house] = @ + Price[c.object]]
  /\ UNCHANGED << credits, tiberium, capacity, ore >>

\* (mutant) The order was given when the object was ready.
PlaceableAsOrdered(f) == f # NoSlot /\ Holds(factory[f])

\* A PLACE may come twice for one object, or after it was abandoned: the
\* factory may be gone, or be at the next object already.
Placeable(f) == f # NoSlot /\ HasCompleted(factory[f])

\* HouseClass::Place_Object.  Who_Can_Build_Me finds the plant if it is not in
\* radio contact; Exit_Object answers 2, 0 or, while the door of the last unit
\* closes, 1, which is taken for success.  A structure is put on the map at
\* the cell the player gave, if that is possible there.
PlaceObject(k) ==
  LET f == OwnFactory(k)
      c == factory[f]
      kind == KindOf(c.object)
      state == plant[c.house][kind]
      ready == Placeable(f) /\ state \in {"idle", "closing"}
  IN \/ /\ ready /\ (state = "idle" \/ k = "building")
        /\ Leaves(k, c)
        /\ field' = [field EXCEPT ![kind] = @ + 1]
        /\ plant' = [plant EXCEPT ![c.house][kind] = "busy"]
        /\ UNCHANGED stranded
     \/ /\ ready /\ state = "closing" /\ k # "building"
        /\ Leaves(k, c)
        /\ stranded' = [stranded EXCEPT ![kind] = @ + 1]
        /\ UNCHANGED << plant, field >>
     \/ /\ ready => state = "idle" \/ k = "building"
        /\ UNCHANGED << factory, used, index, button, placing, money, outside,
                        refused >>

\* EventClass::Execute
ExecuteEvent ==
  /\ events # << >>
  /\ events' = Tail(events)
  /\ LET e == Head(events)
     IN \/ e.what = "PRODUCE" /\ BeginProduction(e.on)
        \/ e.what = "SUSPEND" /\ SuspendProduction(e.on)
        \/ e.what = "ABANDON" /\ AbandonProduction(e.on)
        \/ e.what = "PLACE" /\ PlaceObject(e.on)

-----------------------------------------------------------------------------
(* The sidebar and the map, as the player uses them *)

Send(what, on) ==
  /\ Len(events) < MaxEvents
  /\ events' = Append(events, [what |-> what, on |-> on])

\* The factory a click on an item is about: the one its button shows, or the
\* one of its kind.
Clicked(i) == IF button[i] # NoSlot THEN button[i] ELSE OwnFactory(KindOf(i))

Builder(c) == plant[c.house][KindOf(c.object)] \in {"idle", "closing"}

\* SelectClass::Action, left button: start, resume, or let the object out.
LeftClick(i) ==
  LET f == Clicked(i)
      c == factory[f]
      k == KindOf(i)
  IN /\ button[i] # NoSlot \/ f = NoSlot
     /\ \/ f = NoSlot /\ Send("PRODUCE", i) /\ UNCHANGED placing
        \/ /\ f # NoSlot /\ ~IsBuilding(c) /\ ~HasCompleted(c)
           /\ Send("PRODUCE", i) /\ UNCHANGED placing
        \/ /\ f # NoSlot /\ HasCompleted(c) /\ ~Builder(c)
           /\ Send("ABANDON", k) /\ UNCHANGED placing
        \/ /\ f # NoSlot /\ HasCompleted(c) /\ Builder(c)
           /\ IF KindOf(c.object) = "building"
              THEN placing' = TRUE /\ UNCHANGED events
              ELSE Send("PLACE", k) /\ UNCHANGED placing
     /\ UNCHANGED << factory, used, index, button, money, outside, refused >>

\* SelectClass::Action, right button: hold, or give up what is on hold.
RightClick(i) ==
  LET f == Clicked(i)
  IN /\ f # NoSlot
     /\ Send(IF IsBuilding(factory[f]) THEN "SUSPEND" ELSE "ABANDON", KindOf(i))
     /\ placing' = FALSE
     /\ UNCHANGED << factory, used, index, button, money, outside, refused >>

\* StripClass::AI: Has_Changed is asked once, and a unit that is ready is told
\* to leave.
Announce(i) ==
  LET f == button[i]
      c == factory[f]
  IN /\ f # NoSlot /\ c.fresh
     /\ factory' = [factory EXCEPT ![f].fresh = FALSE]
     /\ IF HasCompleted(c) /\ KindOf(c.object) = "unit"
        THEN Send("PLACE", KindOf(c.object))
        ELSE UNCHANGED events
     /\ UNCHANGED << used, index, button, placing, money, outside, refused >>

\* DisplayClass::Mouse_Left_Release at a place the structure fits.
ClickMap ==
  /\ placing /\ Send("PLACE", "building")
  /\ UNCHANGED << factory, used, index, button, placing, money, outside, refused >>

\* DisplayClass::Mouse_Right_Press
CancelPlacing ==
  /\ placing /\ placing' = FALSE
  /\ UNCHANGED << factory, used, index, button, events, money, outside, refused >>

-----------------------------------------------------------------------------
(* The computer's buildings *)

\* The second half of Factory_AI: with no factory and some money, start what
\* Suggest_New_Object names.  facs, use, available: after the first half.
StartAnother(k, facs, use, available) ==
  \/ /\ factory' = facs /\ used' = use
     /\ index' = [index EXCEPT !["computer"][k] = NoSlot]
  \/ \E i \in {j \in ComputerItems : KindOf(j) = k} :
       LET f == NewSlot(use)
       IN /\ available > SmallAmount
          /\ use # Slots /\ RoomFor(facs, k)
          /\ factory' = [facs EXCEPT ![f] = Started(Order(i, "computer"), available)]
          /\ used' = use \cup {f}
          /\ index' = [index EXCEPT !["computer"][k] = f]

ComputerFactory(k) == index["computer"][k]

\* Factory_AI with a finished object: it leaves, or cannot and its price is
\* refunded.  While the building is busy with the one before nothing changes
\* but PlacementDelay, which is time.
ComputerExit(k) ==
  LET f == ComputerFactory(k)
      c == factory[f]
      freed == [factory EXCEPT ![f] = Blank]
  IN /\ f # NoSlot /\ plant["computer"][k] = "idle" /\ HasCompleted(c)
     /\ \/ /\ PayBack(c)
           /\ StartAnother(k, freed, used \ {f}, AvailableMoney("computer")')
           /\ UNCHANGED << plant, field >>
        \/ /\ plant' = [plant EXCEPT !["computer"][k] = "busy"]
           /\ field' = [field EXCEPT ![k] = @ + 1]
           /\ gone' = [gone EXCEPT ![c.house] = @ + Price[c.object]]
           /\ StartAnother(k, freed, used \ {f}, AvailableMoney("computer"))
           /\ UNCHANGED << credits, tiberium, capacity, ore >>
     /\ UNCHANGED << button, placing, events, stranded, refused >>

\* Factory_AI with production halted: give it up.
ComputerAbort(k) ==
  LET f == ComputerFactory(k)
      c == factory[f]
  IN /\ f # NoSlot /\ ~HasCompleted(c) /\ ~IsBuilding(c)
     /\ factory' = [factory EXCEPT ![f] = Blank]
     /\ used' = used \ {f}
     /\ index' = [index EXCEPT !["computer"][k] = NoSlot]
     /\ PayBack(c)
     /\ UNCHANGED << button, placing, events, outside, refused >>

ComputerBegin(k) ==
  /\ ComputerFactory(k) = NoSlot /\ plant["computer"][k] # "none"
  /\ StartAnother(k, factory, used, AvailableMoney("computer"))
  /\ UNCHANGED << button, placing, events, money, outside, refused >>

-----------------------------------------------------------------------------
(* What happens around the factories *)

\* The unit has driven out, or the structure is built: radio contact ends.  A
\* weapons factory still has to close its door; the computer waits for both alike.
ContactEnds(h, k) ==
  /\ plant[h][k] = "busy"
  /\ plant' = [plant EXCEPT ![h][k] =
                 IF << h, k >> = << "player", "unit" >> THEN "closing" ELSE "idle"]
  /\ UNCHANGED << factory, used, index, button, placing, events, money, field,
                  stranded, refused >>

DoorCloses ==
  /\ plant["player"]["unit"] = "closing"
  /\ plant' = [plant EXCEPT !["player"]["unit"] = "idle"]
  /\ UNCHANGED << factory, used, index, button, placing, events, money, field,
                  stranded, refused >>

\* BuildingClass::Detach_All of the only plant of a kind.
LosePlant(h, k) ==
  LET f == index[h][k]
      c == factory[f]
  IN /\ << h, k >> \in Targets /\ plant[h][k] # "none"
     /\ plant' = [plant EXCEPT ![h][k] = "none"]
     /\ UNCHANGED << field, stranded, events >>
     /\ IF h = "player"
        THEN IF f # NoSlot /\ Holds(c) /\ plant'["player"][KindOf(c.object)] = "none"
             THEN Dismiss(k) /\ PayBack(c)
             ELSE UNCHANGED << factory, used, index, button, placing, money,
                               refused >>
        ELSE /\ UNCHANGED << button, placing, refused >>
             /\ IF f # NoSlot
                THEN /\ factory' = [factory EXCEPT ![f] = Blank]
                     /\ used' = used \ {f}
                     /\ index' = [index EXCEPT ![h][k] = NoSlot]
                     /\ PayBack(c)
                ELSE UNCHANGED << factory, used, index, money >>

\* Another plant of the kind is built or captured.
GainPlant(h, k) ==
  /\ << h, k >> \in Targets /\ plant[h][k] = "none"
  /\ plant' = [plant EXCEPT ![h][k] = "idle"]
  /\ UNCHANGED << factory, used, index, button, placing, events, money, field,
                  stranded, refused >>

\* An object on the map is destroyed.
Destroyed(k) ==
  /\ field[k] > 0 /\ field' = [field EXCEPT ![k] = @ - 1]
  /\ UNCHANGED << factory, used, index, button, placing, events, money, plant,
                  stranded, refused >>

\* HouseClass::Harvested: what does not fit is lost.
Harvested(h, n) ==
  /\ n <= ore[h]
  /\ ore' = [ore EXCEPT ![h] = @ - n]
  /\ tiberium' = [tiberium EXCEPT ![h] = Min({@ + n, capacity[h]})]
  /\ gone' = [gone EXCEPT ![h] = @ + Max({0, tiberium[h] + n - capacity[h]})]
  /\ UNCHANGED << credits, capacity >>
  /\ UNCHANGED << factory, used, index, button, placing, events, outside, refused >>

\* HouseClass::Adjust_Capacity when the silos go: sold, or destroyed in anger.
LoseSilo(h, inanger) ==
  LET rest == Max({0, capacity[h] - Silo[h]})
      excess == Max({0, tiberium[h] - rest})
  IN /\ capacity[h] > 0
     /\ capacity' = [capacity EXCEPT ![h] = rest]
     /\ tiberium' = [tiberium EXCEPT ![h] = @ - excess]
     /\ credits' = [credits EXCEPT ![h] = IF inanger THEN @ ELSE @ + excess]
     /\ gone' = [gone EXCEPT ![h] = IF inanger THEN @ + excess ELSE @]
     /\ UNCHANGED ore
     /\ UNCHANGED << factory, used, index, button, placing, events, outside, refused >>

-----------------------------------------------------------------------------
Init ==
  /\ factory = [f \in Slots |-> Blank]
  /\ used = {}
  /\ index = [h \in Houses |-> [k \in Kinds |-> NoSlot]]
  /\ button = [i \in Items |-> NoSlot]
  /\ placing = FALSE
  /\ events = << >>
  /\ credits = Funds
  /\ tiberium = [h \in Houses |-> 0]
  /\ capacity = Silo
  /\ ore = Ore
  /\ plant = [h \in Houses |-> [k \in Kinds |->
                IF << h, k >> \in Plants THEN "idle" ELSE "none"]]
  /\ field = [k \in Kinds |-> 0]
  /\ stranded = [k \in Kinds |-> 0]
  /\ gone = [h \in Houses |-> 0]
  /\ refused = FALSE

Next ==
  \/ \E f \in Slots : FactoryAI(f)
  \/ ExecuteEvent
  \/ \E i \in Items : LeftClick(i) \/ RightClick(i) \/ Announce(i)
  \/ ClickMap \/ CancelPlacing
  \/ \E k \in Kinds : \/ ComputerExit(k) \/ ComputerAbort(k) \/ ComputerBegin(k)
                      \/ Destroyed(k)
  \/ DoorCloses
  \/ \E h \in Houses, k \in Kinds :
       ContactEnds(h, k) \/ LosePlant(h, k) \/ GainPlant(h, k)
  \/ \E h \in Houses : \/ \E n \in 1..Ore[h] : Harvested(h, n)
                       \/ \E inanger \in BOOLEAN : LoseSilo(h, inanger)

Spec == Init /\ [][Next]_vars

-----------------------------------------------------------------------------
(* Properties *)

FactoryRecords ==
  [object : Items \cup {Nothing}, house : Houses, balance : Nat,
   stage : 0..Steps, moving : BOOLEAN, suspended : BOOLEAN, fresh : BOOLEAN]

Orders == [what : {"PRODUCE"}, on : Items]
            \cup [what : {"SUSPEND", "ABANDON", "PLACE"}, on : Kinds]

\* Every variable has its type.
TypeOK ==
  /\ factory \in [Slots -> FactoryRecords]
  /\ used \subseteq Slots
  /\ index \in [Houses -> [Kinds -> Slots \cup {NoSlot}]]
  /\ button \in [Items -> Slots \cup {NoSlot}]
  /\ placing \in BOOLEAN
  /\ events \in Seq(Orders)
  /\ credits \in [Houses -> Int] /\ tiberium \in [Houses -> Int]
  /\ capacity \in [Houses -> Nat] /\ ore \in [Houses -> Nat]
  /\ gone \in [Houses -> Nat]
  /\ plant \in [Houses -> [Kinds -> {"none", "idle", "busy", "closing"}]]
  /\ field \in [Kinds -> Nat] /\ stranded \in [Kinds -> Nat]
  /\ refused \in BOOLEAN

\* No house ever goes into debt, however many factories spend its money at
\* once: each looks at the money of the moment before it spends any.
NoDebt == \A h \in Houses : credits[h] >= 0 /\ tiberium[h] >= 0

\* What a house has paid into an object under construction, and into them all.
PaidBy(h, c) == IF c.house = h THEN Refund(c) ELSE 0
Invested(h) == SumTo([f \in Slots |-> PaidBy(h, factory[f])], PoolSize)

\* Money is neither made nor lost: what a house has, what it has put into
\* unfinished objects, what still grows on the map, and the price of what it
\* was given always add up.
BooksBalance ==
  \A h \in Houses :
    credits[h] + tiberium[h] + ore[h] + gone[h] + Invested(h) = Funds[h] + Ore[h]

\* The parts of a price that are due from a stage on: one for each stage but
\* the last, which comes free; those rounded down first, those rounded up last.
Due(i, stage) ==
  LET left == Max({0, Steps - 1 - stage})
  IN  left * (Price[i] \div (Steps - 1)) + Min({left, Price[i] % (Steps - 1)})

\* What is still to be paid for an object depends on the stage of its factory
\* alone, however often steps were taken back for want of money, and production
\* was held and resumed: no stage is ever reached unpaid and no part is paid
\* twice, and nothing is left for the last step, where nobody looks at the
\* money before it is spent (FactoryClass::AI, FactoryClass::Cost_Per_Tick).
BalanceFollowsStage ==
  \A f \in Slots :
    LET c == factory[f] IN Holds(c) => c.balance = Due(c.object, c.stage)

\* A factory found under a house and a kind is allocated, works for that house
\* and makes an object of that kind, and no other finds it.
OwnFactories ==
  \A h \in Houses, k \in Kinds :
    LET f == index[h][k]
    IN f # NoSlot => /\ f \in used
                     /\ Holds(factory[f])
                     /\ factory[f].house = h
                     /\ KindOf(factory[f].object) = k

OwnFactoriesWithRoom == ~refused => OwnFactories

\* Everything that was paid for is on the map or was refunded.
NothingStranded == \A k \in Kinds : stranded[k] = 0

\* A button shows the progress of its own item.
ButtonsShowTheirItem ==
  ~refused => \A i \in Items :
    button[i] # NoSlot => factory[button[i]].object = i
=============================================================================
