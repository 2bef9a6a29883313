-------------------------- MODULE ProductionProofs --------------------------
(* What TLAPS proves of Production, for every size of the heap, every price *)
(* and number of steps, and every amount of money.                          *)
EXTENDS Production, SumProofs, WellFoundedInduction, TLAPS

-----------------------------------------------------------------------------
(* Least and greatest elements. *)

LEMMA MinOfTwo ==
  ASSUME NEW a \in Int, NEW b \in Int
  PROVE  Min({a, b}) = IF a <= b THEN a ELSE b
BY DEF Min

LEMMA MaxOfTwo ==
  ASSUME NEW a \in Int, NEW b \in Int
  PROVE  Max({a, b}) = IF a >= b THEN a ELSE b
BY DEF Max

LEMMA Division ==
  ASSUME NEW p \in Nat, NEW n \in Nat, n > 0
  PROVE  /\ p \div n \in Nat /\ p % n \in 0..n - 1
         /\ p = (n * (p \div n)) + (p % n)
OBVIOUS

LEMMA Quotient ==
  ASSUME NEW m \in Nat, m > 0, NEW q \in Nat, NEW r \in Nat, r < m
  PROVE  (m * q + r) \div m = q
<1> DEFINE a == m * q + r
           d == a \div m
           e == a % m
<1>1. d \in Nat /\ e \in 0..m - 1 /\ a = m * d + e
  BY Division
<1>2. ~ (d < q)
  <2> SUFFICES ASSUME d < q PROVE FALSE
    OBVIOUS
  <2>1. PICK x \in Nat : q = d + 1 + x
    <3>1. q - d - 1 \in Nat /\ q = d + 1 + (q - d - 1)
      BY <1>1
    <3> QED BY <3>1
  <2> HIDE DEF d, e
  <2>2. m * q = m * d + m + m * x /\ m * x \in Nat /\ m * d \in Nat
    BY <2>1, <1>1
  <2> QED BY <1>1, <2>2
<1>3. ~ (q < d)
  <2> SUFFICES ASSUME q < d PROVE FALSE
    OBVIOUS
  <2>1. PICK x \in Nat : d = q + 1 + x
    <3>1. d - q - 1 \in Nat /\ d = q + 1 + (d - q - 1)
      BY <1>1
    <3> QED BY <3>1
  <2> HIDE DEF d, e
  <2>2. m * d = m * q + m + m * x /\ m * x \in Nat /\ m * q \in Nat
    BY <2>1, <1>1
  <2> QED BY <1>1, <2>2
<1> QED BY <1>1, <1>2, <1>3

(* A nonempty set of naturals has a least element, so the heap has a lowest *)
(* free slot.                                                               *)
LEMMA NewSlotIsFree ==
  ASSUME NEW use, use \subseteq Slots, use # Slots
  PROVE  NewSlot(use) \in Slots \ use
<1> DEFINE T == Slots \ use
           R == {ss \in Nat \X Nat : ss[1] < ss[2]}
<1>1. T \subseteq Nat /\ T # {}
  <2>1. Slots \subseteq Nat
    BY ProductionAssumption DEF Slots
  <2>2. T # {}
    OBVIOUS
  <2> QED BY <2>1, <2>2
<1>2. IsWellFoundedOn(R, Nat)
  BY NatLessThanWellFounded DEF OpToRel
<1> HIDE DEF R
<1>3. PICK x \in T : \A y \in T : ~ (<< y, x >> \in R)
  BY <1>1, <1>2, WFMin
<1>4. \A y \in T : x <= y
  <2> TAKE y \in T
  <2>1. x \in Nat /\ y \in Nat /\ ~ (<< y, x >> \in R)
    BY <1>1, <1>3
  <2> QED BY <2>1 DEF R
<1>5. Min(T) \in T
  BY <1>3, <1>4 DEF Min
<1> QED BY <1>5 DEF NewSlot

-----------------------------------------------------------------------------
(* Single factories *)

(* What is owed for an object is what is due from the stage on. *)
Sound(c) ==
  /\ c \in FactoryRecords
  /\ Holds(c) => c.balance = Due(c.object, c.stage)

LEMMA Prices ==
  /\ Steps \in Nat /\ Steps > 1
  /\ Nothing \notin Items
  /\ \A i \in Items : Price[i] \in Nat
BY ProductionAssumption

(* The parts of a price: with m of them left, m times the part rounded down *)
(* and one more for each of the last parts, as many as the remainder.       *)
Parts(i, m) ==
  LET over == Price[i] % (Steps - 1)
  IN  m * (Price[i] \div (Steps - 1)) + IF m <= over THEN m ELSE over

LEMMA DueIsParts ==
  ASSUME NEW i \in Items, NEW stage \in 0..Steps
  PROVE  /\ stage < Steps => Due(i, stage) = Parts(i, Steps - 1 - stage)
         /\ stage = Steps => Due(i, stage) = 0
<1> DEFINE k == Price[i] \div (Steps - 1)
           over == Price[i] % (Steps - 1)
           left == Max({0, Steps - 1 - stage})
<1>1. k \in Nat /\ over \in Nat
  BY Prices, Division
<1>2. left = IF stage < Steps THEN Steps - 1 - stage ELSE 0
  BY Prices, MaxOfTwo
<1>3. left \in Nat
  BY <1>2, Prices
<1> HIDE DEF k, over, left
<1>4. Min({left, over}) = IF left <= over THEN left ELSE over
  BY <1>1, <1>3, MinOfTwo
<1>5. Due(i, stage) = left * k + Min({left, over})
  BY DEF Due, left, k, over
<1>6. ASSUME stage < Steps
      PROVE  Due(i, stage) = Parts(i, Steps - 1 - stage)
  <2>1. left = Steps - 1 - stage
    BY <1>2, <1>6
  <2> QED BY <1>4, <1>5, <2>1 DEF Parts, k, over
<1>7. ASSUME stage = Steps
      PROVE  Due(i, stage) = 0
  BY <1>1, <1>2, <1>4, <1>5, <1>7, Prices
<1> QED BY <1>6, <1>7

(* Of m parts left, dividing what is due by m gives the next one.           *)
LEMMA NextPart ==
  ASSUME NEW i \in Items, NEW m \in Nat, m > 0
  PROVE  /\ Parts(i, m) \in Nat
         /\ Parts(i, m) \div m \in 0..Parts(i, m)
         /\ Parts(i, m - 1) = Parts(i, m) - (Parts(i, m) \div m)
<1> DEFINE k == Price[i] \div (Steps - 1)
           over == Price[i] % (Steps - 1)
<1>1. k \in Nat /\ over \in Nat
  BY Prices, Division
<1>2. /\ Parts(i, m) = m * k + IF m <= over THEN m ELSE over
      /\ Parts(i, m - 1) = (m - 1) * k + IF m - 1 <= over THEN m - 1 ELSE over
  BY DEF Parts
<1> HIDE DEF k, over
<1>3. m * k \in Nat /\ (m - 1) * k = m * k - k /\ (m - 1) * k \in Nat
  BY <1>1
<1>4. CASE m <= over
  <2>1. Parts(i, m) = m * (k + 1) + 0
    BY <1>1, <1>2, <1>4
  <2>2. (m * (k + 1) + 0) \div m = k + 1
    BY <1>1, Quotient
  <2> QED BY <1>1, <1>2, <1>3, <1>4, <2>1, <2>2
<1>5. CASE m > over
  <2>1. Parts(i, m) = m * k + over
    BY <1>1, <1>2, <1>5
  <2>2. (m * k + over) \div m = k
    BY <1>1, <1>5, Quotient
  <2> QED BY <1>1, <1>2, <1>3, <1>5, <2>1, <2>2
<1> QED BY <1>1, <1>4, <1>5

(* All of the price is due at first, and none of it once nothing is left.   *)
LEMMA AllParts ==
  ASSUME NEW i \in Items
  PROVE  Parts(i, Steps - 1) = Price[i] /\ Parts(i, 0) = 0
<1> DEFINE k == Price[i] \div (Steps - 1)
           over == Price[i] % (Steps - 1)
<1>1. k \in Nat /\ over \in 0..Steps - 2 /\ Price[i] = ((Steps - 1) * k) + over
  <2>1. Price[i] \in Nat /\ Steps - 1 \in Nat /\ Steps - 1 > 0
    BY Prices
  <2>2. k \in Nat /\ over \in 0..(Steps - 1) - 1 /\ Price[i] = ((Steps - 1) * k) + over
    BY <2>1, Division
  <2> HIDE DEF k, over
  <2> QED BY <2>2, Prices
<1>2. /\ Parts(i, Steps - 1) =
           (Steps - 1) * k + IF Steps - 1 <= over THEN Steps - 1 ELSE over
      /\ Parts(i, 0) = 0 * k + IF 0 <= over THEN 0 ELSE over
  BY DEF Parts
<1> HIDE DEF k, over
<1> QED BY <1>1, <1>2, Prices

(* The more parts are left, the more is due.                                *)
LEMMA PartsGrow ==
  ASSUME NEW i \in Items, NEW m \in Nat, NEW n \in Nat, m <= n
  PROVE  Parts(i, m) \in Nat /\ Parts(i, m) <= Parts(i, n)
<1> DEFINE k == Price[i] \div (Steps - 1)
           over == Price[i] % (Steps - 1)
<1>1. k \in Nat /\ over \in Nat
  BY Prices, Division
<1>2. /\ Parts(i, m) = m * k + IF m <= over THEN m ELSE over
      /\ Parts(i, n) = n * k + IF n <= over THEN n ELSE over
  BY DEF Parts
<1> HIDE DEF k, over
<1>3. PICK x \in Nat : n = m + x
  <2>1. n - m \in Nat /\ n = m + (n - m)
    OBVIOUS
  <2> QED BY <2>1
<1>4. n * k = m * k + x * k /\ x * k \in Nat /\ m * k \in Nat
  BY <1>1, <1>3
<1> QED BY <1>1, <1>2, <1>3, <1>4

LEMMA DueIsBounded ==
  ASSUME NEW i \in Items, NEW stage \in 0..Steps
  PROVE  /\ Due(i, stage) \in 0..Price[i]
         /\ Due(i, 0) = Price[i] /\ Due(i, Steps) = 0
<1>1. Due(i, 0) = Price[i]
  BY DueIsParts, AllParts, Prices
<1>2. Due(i, Steps) = 0
  BY DueIsParts, Prices
<1>3. ASSUME stage < Steps PROVE Due(i, stage) \in 0..Price[i]
  <2>1. /\ Steps - 1 - stage \in Nat /\ Steps - 1 \in Nat
        /\ Steps - 1 - stage <= Steps - 1
    BY <1>3, Prices
  <2>2. /\ Parts(i, Steps - 1 - stage) \in Nat
        /\ Parts(i, Steps - 1 - stage) <= Parts(i, Steps - 1)
    BY <2>1, PartsGrow
  <2> QED BY <1>3, <2>2, DueIsParts, AllParts, Prices
<1> QED BY <1>1, <1>2, <1>3, Prices

(* No more is owed than the price, and nothing once production is over.     *)
LEMMA SoundBalance ==
  ASSUME NEW c, Sound(c)
  PROVE  /\ Holds(c) => c.object \in Items /\ c.balance <= Price[c.object]
         /\ HasCompleted(c) => c.balance = 0
<1> SUFFICES ASSUME Holds(c)
             PROVE  /\ c.object \in Items /\ c.balance <= Price[c.object]
                    /\ HasCompleted(c) => c.balance = 0
  BY DEF HasCompleted
<1>1. c.object \in Items /\ c.stage \in 0..Steps
  BY DEF Sound, Holds, FactoryRecords
<1>2. c.balance = Due(c.object, c.stage)
  BY DEF Sound
<1>3. Price[c.object] \in Nat
  BY <1>1, Prices
<1> QED BY <1>1, <1>2, <1>3, DueIsBounded DEF HasCompleted

LEMMA BlankIsSound == Sound(Blank) /\ ~ Holds(Blank)
BY Prices DEF Sound, Blank, Holds, FactoryRecords, Houses

LEMMA OrderIsSound ==
  ASSUME NEW i \in Items, NEW h \in Houses
  PROVE  /\ Sound(Order(i, h)) /\ Holds(Order(i, h))
         /\ Order(i, h).object = i /\ Order(i, h).house = h
<1>1. Price[i] \in Nat /\ i # Nothing
  BY Prices
<1>2. Blank \in FactoryRecords /\ Blank.stage = 0
  BY BlankIsSound DEF Sound, Blank
<1>3. \A b \in FactoryRecords :
        LET o == [b EXCEPT !.object = i, !.house = h, !.balance = Price[i]]
        IN  /\ o \in FactoryRecords
            /\ o.object = i /\ o.house = h
            /\ o.balance = Price[i] /\ o.stage = b.stage
  BY <1>1 DEF FactoryRecords
<1>4. /\ Order(i, h) \in FactoryRecords
      /\ Order(i, h).object = i /\ Order(i, h).house = h
      /\ Order(i, h).balance = Price[i] /\ Order(i, h).stage = 0
  BY <1>2, <1>3 DEF Order
<1>5. Due(i, 0) = Price[i]
  BY Prices, DueIsBounded
<1> QED BY <1>1, <1>4, <1>5 DEF Sound, Holds

LEMMA StartedIsSound ==
  ASSUME NEW c, Sound(c), NEW available
  PROVE  /\ Sound(Started(c, available))
         /\ Started(c, available).object = c.object
         /\ Started(c, available).house = c.house
<1> DEFINE d == [c EXCEPT !.moving = TRUE, !.suspended = FALSE]
<1>1. c \in FactoryRecords
  BY DEF Sound
<1>2. /\ d \in FactoryRecords
      /\ d.object = c.object /\ d.house = c.house
      /\ d.balance = c.balance /\ d.stage = c.stage
  BY <1>1 DEF FactoryRecords
<1>3. Sound(d)
  BY <1>2 DEF Sound, Holds
<1>4. Started(c, available) = c \/ Started(c, available) = d
  BY DEF Started
<1> QED BY <1>2, <1>3, <1>4

LEMMA SuspendedIsSound ==
  ASSUME NEW c, Sound(c)
  PROVE  /\ Sound(Suspended(c))
         /\ Suspended(c).object = c.object /\ Suspended(c).house = c.house
<1> DEFINE d == [c EXCEPT !.moving = FALSE, !.suspended = TRUE]
<1>1. c \in FactoryRecords
  BY DEF Sound
<1>2. /\ d \in FactoryRecords
      /\ d.object = c.object /\ d.house = c.house
      /\ d.balance = c.balance /\ d.stage = c.stage
  BY <1>1 DEF FactoryRecords
<1>3. Sound(d)
  BY <1>2 DEF Sound, Holds
<1>4. Suspended(c) = c \/ Suspended(c) = d
  BY DEF Suspended
<1> QED BY <1>2, <1>3, <1>4

(* Has_Changed *)
LEMMA AskedIsSound ==
  ASSUME NEW c, Sound(c)
  PROVE  /\ Sound([c EXCEPT !.fresh = FALSE])
         /\ [c EXCEPT !.fresh = FALSE].object = c.object
         /\ [c EXCEPT !.fresh = FALSE].house = c.house
<1> DEFINE d == [c EXCEPT !.fresh = FALSE]
<1>1. c \in FactoryRecords
  BY DEF Sound
<1>2. /\ d \in FactoryRecords
      /\ d.object = c.object /\ d.house = c.house
      /\ d.balance = c.balance /\ d.stage = c.stage
  BY <1>1 DEF FactoryRecords
<1>3. Sound(d)
  BY <1>2 DEF Sound, Holds
<1> QED BY <1>2, <1>3

(* A step costs what becomes due with the stage it leads to.                *)
LEMMA CostOfStep ==
  ASSUME NEW c, Sound(c), Holds(c), ~ HasCompleted(c)
  PROVE  LET next == [c EXCEPT !.stage = @ + 1]
             cost == Min({CostPerTick(next), c.balance})
         IN  /\ cost \in 0..c.balance
             /\ c.balance - cost = Due(c.object, c.stage + 1)
<1> DEFINE next == [c EXCEPT !.stage = @ + 1]
           cost == Min({CostPerTick(next), c.balance})
           left == Steps - 1 - c.stage
<1>1. /\ c \in FactoryRecords /\ c.stage \in 0..Steps - 1
      /\ c.balance \in Nat /\ c.object \in Items
  BY Prices DEF Sound, FactoryRecords, HasCompleted, Holds
<1>2. /\ next.stage = c.stage + 1 /\ next.balance = c.balance
      /\ next.object = c.object
  BY <1>1 DEF FactoryRecords
<1>3. left \in Nat /\ Steps - next.stage = left
  BY <1>1, <1>2, Prices
<1>4. c.balance = Parts(c.object, left)
  BY <1>1, Prices, DueIsParts DEF Sound
<1>5. CostPerTick(next) = IF left > 0 THEN c.balance \div left ELSE c.balance
  <2> HIDE DEF next, left
  <2> QED BY <1>2, <1>3 DEF CostPerTick, Holds
<1> HIDE DEF next
<1>6. CostPerTick(next) \in 0..c.balance
  <2> HIDE DEF left
  <2> QED BY <1>1, <1>3, <1>4, <1>5, NextPart
<1>7. cost = CostPerTick(next)
  BY <1>1, <1>6, MinOfTwo
<1> HIDE DEF cost
<1>8. CASE left > 0
  <2>1. Parts(c.object, left - 1) = c.balance - cost
    <3> HIDE DEF left
    <3> QED BY <1>1, <1>3, <1>4, <1>5, <1>7, <1>8, NextPart
  <2>2. Due(c.object, c.stage + 1) = Parts(c.object, Steps - 1 - (c.stage + 1))
    BY <1>1, <1>8, Prices, DueIsParts
  <2>3. Steps - 1 - (c.stage + 1) = left - 1
    BY <1>1, Prices
  <2> QED BY <1>6, <1>7, <2>1, <2>2, <2>3 DEF cost, next
<1>9. CASE left = 0
  <2>1. c.stage + 1 = Steps
    BY <1>1, <1>9, Prices
  <2>2. Due(c.object, c.stage + 1) = 0
    BY <1>1, <2>1, Prices, DueIsParts
  <2>3. cost = c.balance
    BY <1>5, <1>7, <1>9
  <2> QED BY <1>1, <1>6, <1>7, <2>2, <2>3 DEF cost, next
<1> QED BY <1>3, <1>8, <1>9

(* The test for the last stage finds nothing left to pay.                   *)
LEMMA EndedIsSound ==
  ASSUME NEW c, Sound(c), Holds(c)
  PROVE  LET d == Ended(c)
         IN  /\ Sound(d) /\ d.object = c.object /\ d.house = c.house
             /\ d.balance = c.balance
<1> DEFINE d == Ended(c)
<1>1. c \in FactoryRecords /\ c.balance = Due(c.object, c.stage)
  BY DEF Sound
<1>2. CASE c.stage # Steps
  BY <1>2 DEF Ended
<1>3. CASE c.stage = Steps
  <2>1. /\ Suspended(c) \in FactoryRecords
        /\ Suspended(c).object = c.object /\ Suspended(c).house = c.house
        /\ Suspended(c).stage = c.stage
    BY <1>1 DEF Suspended, FactoryRecords
  <2>2. \A o \in FactoryRecords :
          LET e == [o EXCEPT !.balance = 0, !.fresh = TRUE]
          IN  /\ e \in FactoryRecords /\ e.object = o.object
              /\ e.house = o.house /\ e.stage = o.stage /\ e.balance = 0
    BY DEF FactoryRecords
  <2>3. d = [Suspended(c) EXCEPT !.balance = 0, !.fresh = TRUE]
    BY <1>3 DEF Ended
  <2>4. /\ d \in FactoryRecords /\ d.object = c.object
        /\ d.house = c.house /\ d.stage = c.stage /\ d.balance = 0
    BY <2>1, <2>2, <2>3
  <2>5. c.balance = 0
    BY <1>3, SoundBalance DEF HasCompleted
  <2> HIDE DEF d
  <2>6. Sound(d)
    BY <1>1, <2>4, <2>5 DEF Sound
  <2> QED BY <2>4, <2>5, <2>6 DEF d
<1> QED BY <1>2, <1>3

(* With the money for it, a step forward that costs what it should.         *)
LEMMA PaidIsSound ==
  ASSUME NEW c, Sound(c), Holds(c), ~ HasCompleted(c)
  PROVE  LET next == [c EXCEPT !.stage = @ + 1]
             cost == Min({CostPerTick(next), c.balance})
             d == Paid(next, cost)
         IN  /\ Sound(d) /\ d.object = c.object /\ d.house = c.house
             /\ c.balance - d.balance = cost
<1> DEFINE next == [c EXCEPT !.stage = @ + 1]
           cost == Min({CostPerTick(next), c.balance})
           d == Paid(next, cost)
<1>1. cost \in 0..c.balance /\ c.balance - cost = Due(c.object, c.stage + 1)
  BY CostOfStep
<1>2. /\ c \in FactoryRecords /\ c.stage \in 0..Steps - 1 /\ c.balance \in Nat
  BY Prices DEF Sound, FactoryRecords, HasCompleted
<1>3. /\ next \in FactoryRecords
      /\ next.balance = c.balance /\ next.stage = c.stage + 1
      /\ next.object = c.object /\ next.house = c.house
  BY <1>2, Prices DEF FactoryRecords
<1> HIDE DEF next, cost
<1>4. d = [next EXCEPT !.balance = @ - cost] /\ c.balance - cost \in Nat
  BY <1>1, <1>2 DEF Paid
<1>5. /\ d \in FactoryRecords
      /\ d.object = c.object /\ d.house = c.house
      /\ d.balance = c.balance - cost /\ d.stage = c.stage + 1
  BY <1>3, <1>4 DEF FactoryRecords
<1> HIDE DEF d
<1>6. Sound(d)
  BY <1>1, <1>5 DEF Sound
<1>7. c.balance - d.balance = cost
  BY <1>1, <1>2, <1>5
<1> QED BY <1>5, <1>6, <1>7 DEF d, next, cost

(* Without the money the factory is where it was.                           *)
LEMMA SteppedBackIsSound ==
  ASSUME NEW c, Sound(c), Holds(c), ~ HasCompleted(c)
  PROVE  LET d == SteppedBack([c EXCEPT !.stage = @ + 1])
         IN  /\ Sound(d) /\ d.object = c.object /\ d.house = c.house
             /\ c.balance - d.balance = 0
<1> DEFINE next == [c EXCEPT !.stage = @ + 1]
           d == SteppedBack(next)
<1>1. c \in FactoryRecords /\ c.stage \in 0..Steps - 1 /\ c.balance \in Nat
  BY Prices DEF Sound, FactoryRecords, HasCompleted
<1>2. /\ next \in FactoryRecords
      /\ next.balance = c.balance /\ next.stage = c.stage + 1
      /\ next.object = c.object /\ next.house = c.house
  BY <1>1, Prices DEF FactoryRecords
<1> HIDE DEF next
<1>3. /\ d \in FactoryRecords
      /\ d.object = c.object /\ d.house = c.house
      /\ d.balance = c.balance /\ d.stage = c.stage
  BY <1>1, <1>2, Prices DEF SteppedBack, FactoryRecords
<1> HIDE DEF d
<1>4. Sound(d)
  BY <1>3 DEF Sound, Holds
<1> QED BY <1>1, <1>3, <1>4 DEF d, next

(* The whole step.                                                          *)
LEMMA StepIsSound ==
  ASSUME NEW c, Sound(c), Holds(c), ~ HasCompleted(c), NEW enough \in BOOLEAN
  PROVE  LET next == [c EXCEPT !.stage = @ + 1]
             cost == Min({CostPerTick(next), c.balance})
             d == Ended(IF enough THEN Paid(next, cost) ELSE SteppedBack(next))
         IN  /\ Sound(d) /\ d.object = c.object /\ d.house = c.house
             /\ c.balance - d.balance = IF enough THEN cost ELSE 0
<1> DEFINE next == [c EXCEPT !.stage = @ + 1]
           cost == Min({CostPerTick(next), c.balance})
           b == IF enough THEN Paid(next, cost) ELSE SteppedBack(next)
<1>1. /\ Sound(b) /\ b.object = c.object /\ b.house = c.house
      /\ c.balance - b.balance = IF enough THEN cost ELSE 0
  <2>1. CASE enough
    BY <2>1, PaidIsSound
  <2>2. CASE ~ enough
    BY <2>2, SteppedBackIsSound
  <2> QED BY <2>1, <2>2
<1> HIDE DEF b, cost
<1>2. Holds(b)
  BY <1>1 DEF Holds
<1>3. /\ Sound(Ended(b)) /\ Ended(b).object = b.object /\ Ended(b).house = b.house
      /\ Ended(b).balance = b.balance
  BY <1>1, <1>2, EndedIsSound
<1>4. /\ Sound(Ended(b)) /\ Ended(b).object = c.object /\ Ended(b).house = c.house
      /\ c.balance - Ended(b).balance = IF enough THEN cost ELSE 0
  BY <1>1, <1>3
<1> QED BY <1>4 DEF b, cost

-----------------------------------------------------------------------------
(* The inductive invariant *)

FactoriesOK ==
  /\ factory \in [Slots -> FactoryRecords]
  /\ \A f \in Slots : Sound(factory[f])

MoneyOK ==
  /\ credits \in [Houses -> Nat] /\ tiberium \in [Houses -> Nat]
  /\ capacity \in [Houses -> Nat] /\ ore \in [Houses -> Nat]
  /\ gone \in [Houses -> Nat]

HeapOK ==
  /\ used \subseteq Slots
  /\ index \in [Houses -> [Kinds -> Slots \cup {NoSlot}]]
  /\ button \in [Items -> Slots \cup {NoSlot}]
  /\ placing \in BOOLEAN /\ refused \in BOOLEAN

EventsOK == events \in Seq(Orders)

OutsideOK ==
  /\ plant \in [Houses -> [Kinds -> {"none", "idle", "busy", "closing"}]]
  /\ field \in [Kinds -> Nat] /\ stranded \in [Kinds -> Nat]

IInv == /\ FactoriesOK /\ MoneyOK /\ HeapOK /\ EventsOK /\ OutsideOK
        /\ OwnFactoriesWithRoom

LEMMA IInvImplies == IInv => TypeOK /\ NoDebt /\ BalanceFollowsStage
<1> SUFFICES ASSUME IInv PROVE TypeOK /\ NoDebt /\ BalanceFollowsStage
  OBVIOUS
<1>1. NoDebt
  BY DEF IInv, MoneyOK, NoDebt
<1>2. BalanceFollowsStage
  BY DEF IInv, FactoriesOK, BalanceFollowsStage, Sound
<1>3. credits \in [Houses -> Int] /\ tiberium \in [Houses -> Int]
  BY DEF IInv, MoneyOK
<1>4. TypeOK
  BY <1>3 DEF TypeOK, IInv, FactoriesOK, MoneyOK, HeapOK, EventsOK, OutsideOK
<1> QED BY <1>1, <1>2, <1>4

LEMMA InitIInv == Init => IInv
<1> SUFFICES ASSUME Init PROVE IInv
  OBVIOUS
<1>1. FactoriesOK
  BY BlankIsSound DEF Init, FactoriesOK, Sound
<1>2. MoneyOK
  BY ProductionAssumption DEF Init, MoneyOK
<1>3. HeapOK
  BY DEF Init, HeapOK
<1>4. EventsOK /\ OutsideOK
  BY DEF Init, EventsOK, OutsideOK
<1>5. OwnFactoriesWithRoom
  <2>1. NoSlot \notin Slots
    BY DEF NoSlot, Slots
  <2>2. \A h \in Houses, k \in Kinds : index[h][k] = NoSlot
    BY DEF Init
  <2> QED BY <2>2 DEF OwnFactoriesWithRoom, OwnFactories
<1> QED BY <1>1, <1>2, <1>3, <1>4, <1>5 DEF IInv

-----------------------------------------------------------------------------
(* Money *)

LEMMA SpendKeepsMoney ==
  ASSUME MoneyOK, NEW h \in Houses, NEW m \in Nat, m <= AvailableMoney(h),
         Spend(h, m)
  PROVE  MoneyOK'
<1>1. credits[h] \in Nat /\ tiberium[h] \in Nat /\ m <= tiberium[h] + credits[h]
  BY DEF MoneyOK, AvailableMoney
<1>2. tiberium' \in [Houses -> Nat]
  BY <1>1 DEF MoneyOK, Spend
<1>3. credits' \in [Houses -> Nat]
  BY <1>1 DEF MoneyOK, Spend
<1> QED BY <1>2, <1>3 DEF MoneyOK, Spend

LEMMA RefundIsNat ==
  ASSUME NEW c, Sound(c)
  PROVE  Refund(c) \in Nat
<1>1. CASE Holds(c)
  <2>1. c.balance \in Nat /\ c.balance <= Price[c.object] /\ Price[c.object] \in Nat
    BY <1>1, Prices, SoundBalance DEF Sound, FactoryRecords, Holds
  <2> QED BY <1>1, <2>1 DEF Refund
<1>2. CASE ~ Holds(c)
  BY <1>2 DEF Refund
<1> QED BY <1>1, <1>2

LEMMA PayBackKeepsMoney ==
  ASSUME MoneyOK, NEW c, Sound(c), PayBack(c)
  PROVE  MoneyOK'
<1>1. c.house \in Houses /\ Refund(c) \in Nat
  BY RefundIsNat DEF Sound, FactoryRecords
<1>2. credits' \in [Houses -> Nat]
  BY <1>1 DEF MoneyOK, PayBack
<1> QED BY <1>2 DEF MoneyOK, PayBack

LEMMA GoneKeepsMoney ==
  ASSUME MoneyOK, NEW c, Sound(c), Holds(c),
         gone' = [gone EXCEPT ![c.house] = @ + Price[c.object]],
         UNCHANGED << credits, tiberium, capacity, ore >>
  PROVE  MoneyOK'
<1>1. c.house \in Houses /\ Price[c.object] \in Nat
  BY Prices DEF Sound, FactoryRecords, Holds
<1>2. gone' \in [Houses -> Nat]
  BY <1>1 DEF MoneyOK
<1> QED BY <1>2 DEF MoneyOK

-----------------------------------------------------------------------------
(* Factories and who owns them *)

LEMMA OneFactory ==
  ASSUME FactoriesOK, NEW f \in Slots, NEW c, Sound(c),
         factory' = [factory EXCEPT ![f] = c]
  PROVE  FactoriesOK'
<1>1. c \in FactoryRecords
  BY DEF Sound
<1>2. factory' \in [Slots -> FactoryRecords]
  BY <1>1 DEF FactoriesOK
<1>3. \A g \in Slots : factory'[g] = IF g = f THEN c ELSE factory[g]
  BY DEF FactoriesOK
<1>4. \A g \in Slots : Sound(factory'[g])
  BY <1>3 DEF FactoriesOK
<1> QED BY <1>2, <1>4 DEF FactoriesOK

(* OwnFactories of any slots, allocated or not, under any numbers. *)
Own(facs, use, idx) ==
  \A h \in Houses, k \in Kinds :
    idx[h][k] # NoSlot => /\ idx[h][k] \in use
                          /\ Holds(facs[idx[h][k]])
                          /\ facs[idx[h][k]].house = h
                          /\ KindOf(facs[idx[h][k]].object) = k

LEMMA OwnIsOwnFactories == OwnFactories <=> Own(factory, used, index)
BY DEF OwnFactories, Own

(* A slot that is freed was nobody else's. *)
LEMMA FreedOwn ==
  ASSUME NEW facs, NEW use, NEW idx, Own(facs, use, idx),
         use \subseteq Slots,
         NEW h \in Houses, NEW k \in Kinds, NEW f \in Slots, idx[h][k] = f,
         NEW facs2, \A g \in Slots \ {f} : facs2[g] = facs[g],
         NEW idx2, idx2[h][k] = NoSlot,
         \A i \in Houses, j \in Kinds : ~ (i = h /\ j = k) => idx2[i][j] = idx[i][j]
  PROVE  Own(facs2, use \ {f}, idx2)
<1> SUFFICES ASSUME NEW i \in Houses, NEW j \in Kinds, idx2[i][j] # NoSlot
             PROVE  /\ idx2[i][j] \in use \ {f}
                    /\ Holds(facs2[idx2[i][j]])
                    /\ facs2[idx2[i][j]].house = i
                    /\ KindOf(facs2[idx2[i][j]].object) = j
  BY DEF Own
<1>1. ~ (i = h /\ j = k) /\ idx2[i][j] = idx[i][j]
  OBVIOUS
<1>2. /\ idx[i][j] \in use
      /\ Holds(facs[idx[i][j]])
      /\ facs[idx[i][j]].house = i
      /\ KindOf(facs[idx[i][j]].object) = j
  BY <1>1 DEF Own
<1>3. facs[f].house = h /\ KindOf(facs[f].object) = k
  BY DEF Own, Slots, NoSlot
<1>4. idx[i][j] # f
  BY <1>1, <1>2, <1>3
<1>5. facs2[idx[i][j]] = facs[idx[i][j]]
  BY <1>2, <1>4
<1> QED BY <1>1, <1>2, <1>4, <1>5

(* A slot that is allocated was free. *)
LEMMA AllocatedOwn ==
  ASSUME NEW facs, NEW use, NEW idx, Own(facs, use, idx), use \subseteq Slots,
         NEW h \in Houses, NEW k \in Kinds, NEW f \in Slots \ use,
         NEW facs2, \A g \in Slots \ {f} : facs2[g] = facs[g],
         Holds(facs2[f]), facs2[f].house = h, KindOf(facs2[f].object) = k,
         NEW idx2, idx2[h][k] = f,
         \A i \in Houses, j \in Kinds : ~ (i = h /\ j = k) => idx2[i][j] = idx[i][j]
  PROVE  Own(facs2, use \cup {f}, idx2)
<1> SUFFICES ASSUME NEW i \in Houses, NEW j \in Kinds, idx2[i][j] # NoSlot
             PROVE  /\ idx2[i][j] \in use \cup {f}
                    /\ Holds(facs2[idx2[i][j]])
                    /\ facs2[idx2[i][j]].house = i
                    /\ KindOf(facs2[idx2[i][j]].object) = j
  BY DEF Own
<1>1. CASE i = h /\ j = k
  BY <1>1
<1>2. CASE ~ (i = h /\ j = k)
  <2>1. /\ idx2[i][j] = idx[i][j]
        /\ idx[i][j] \in use
        /\ Holds(facs[idx[i][j]])
        /\ facs[idx[i][j]].house = i
        /\ KindOf(facs[idx[i][j]].object) = j
    BY <1>2 DEF Own
  <2>2. facs2[idx[i][j]] = facs[idx[i][j]]
    BY <2>1
  <2> QED BY <2>1, <2>2
<1> QED BY <1>1, <1>2

LEMMA SameOwn ==
  ASSUME HeapOK, OwnFactoriesWithRoom, UNCHANGED << index, used, refused >>,
         \A f \in Slots : /\ factory'[f].object = factory[f].object
                          /\ factory'[f].house = factory[f].house
  PROVE  OwnFactoriesWithRoom'
<1> SUFFICES ASSUME ~ refused, NEW h \in Houses, NEW k \in Kinds,
                    index[h][k] # NoSlot
             PROVE  /\ index[h][k] \in used
                    /\ Holds(factory'[index[h][k]])
                    /\ factory'[index[h][k]].house = h
                    /\ KindOf(factory'[index[h][k]].object) = k
  BY DEF OwnFactoriesWithRoom, OwnFactories, Holds
<1>1. /\ index[h][k] \in used
      /\ Holds(factory[index[h][k]])
      /\ factory[index[h][k]].house = h
      /\ KindOf(factory[index[h][k]].object) = k
  BY DEF OwnFactoriesWithRoom, OwnFactories
<1>2. index[h][k] \in Slots
  BY <1>1 DEF HeapOK
<1> QED BY <1>1, <1>2 DEF Holds

(* One factory changes, but not what it works on. *)
LEMMA WorkGoesOn ==
  ASSUME FactoriesOK, HeapOK, OwnFactoriesWithRoom,
         UNCHANGED << index, used, refused >>,
         NEW f \in Slots, NEW c, Sound(c),
         c.object = factory[f].object, c.house = factory[f].house,
         factory' = [factory EXCEPT ![f] = c]
  PROVE  FactoriesOK' /\ OwnFactoriesWithRoom'
<1>1. FactoriesOK'
  BY OneFactory
<1>2. \A g \in Slots : factory'[g] = IF g = f THEN c ELSE factory[g]
  BY DEF FactoriesOK
<1> QED BY <1>1, <1>2, SameOwn

-----------------------------------------------------------------------------
(* The steps of factories *)

LEMMA FactoryAIIInv ==
  ASSUME IInv, NEW f \in Slots, FactoryAI(f)
  PROVE  IInv'
<1> DEFINE c == factory[f]
           next == [c EXCEPT !.stage = @ + 1]
           cost == Min({CostPerTick(next), c.balance})
           enough == cost <= AvailableMoney(c.house)
           after == Ended(IF enough THEN Paid(next, cost) ELSE SteppedBack(next))
<1>1. /\ Sound(c) /\ Holds(c) /\ ~ HasCompleted(c)
      /\ factory' = [factory EXCEPT ![f] = after]
      /\ Spend(c.house, c.balance - after.balance)
      /\ UNCHANGED << used, index, button, placing, events, outside, refused >>
  BY DEF FactoryAI, IInv, FactoriesOK
<1>2. c.house \in Houses
  BY <1>1 DEF Sound, FactoryRecords
<1>3. AvailableMoney(c.house) \in Nat
  BY <1>2 DEF IInv, MoneyOK, AvailableMoney
<1>4. cost \in 0..c.balance /\ c.balance \in Nat
  BY <1>1, CostOfStep DEF Sound, FactoryRecords
<1>5. /\ Sound(after) /\ after.object = c.object /\ after.house = c.house
      /\ c.balance - after.balance = IF enough THEN cost ELSE 0
  BY <1>1, StepIsSound
<1> HIDE DEF after, cost
<1>6. /\ c.balance - after.balance \in Nat
      /\ c.balance - after.balance <= AvailableMoney(c.house)
  BY <1>3, <1>4, <1>5
<1>7. MoneyOK'
  BY <1>1, <1>2, <1>6, SpendKeepsMoney DEF IInv
<1>8. FactoriesOK' /\ OwnFactoriesWithRoom'
  BY <1>1, <1>5, WorkGoesOn DEF IInv
<1>9. HeapOK' /\ EventsOK' /\ OutsideOK'
  BY <1>1 DEF IInv, HeapOK, EventsOK, OutsideOK, outside
<1> QED BY <1>7, <1>8, <1>9 DEF IInv

(* Begin_Production, but for the events. *)
LEMMA BeginProductionKeeps ==
  ASSUME IInv, NEW i \in Items, BeginProduction(i)
  PROVE  FactoriesOK' /\ MoneyOK' /\ HeapOK' /\ OwnFactoriesWithRoom'
         /\ UNCHANGED outside
<1> DEFINE k == KindOf(i)
<1>1. k \in Kinds
  BY DEF KindOf, Kinds
<1>2. UNCHANGED << placing, money, outside >>
  BY DEF BeginProduction
<1>3. MoneyOK'
  BY <1>2 DEF IInv, MoneyOK, money
<1>4. "player" \in Houses
  BY DEF Houses
<1>5. OwnFactory(k) \in Slots \cup {NoSlot}
  BY <1>1, <1>4 DEF IInv, HeapOK, OwnFactory
<1>6. CASE Restart(i)
  <2> DEFINE f == OwnFactory(k)
             c == Started(factory[f], AvailableMoney(factory[f].house))
  <2>1. f \in Slots /\ UNCHANGED << used, index, refused >>
    BY <1>5, <1>6 DEF Restart
  <2>2. CASE UNCHANGED << factory, button >>
    BY <2>1, <2>2, <1>2, <1>3, SameOwn DEF IInv, FactoriesOK, HeapOK
  <2>3. CASE factory' = [factory EXCEPT ![f] = c] /\ button' = [button EXCEPT ![i] = f]
    <3>1. /\ Sound(c)
          /\ c.object = factory[f].object /\ c.house = factory[f].house
      BY <2>1, StartedIsSound DEF IInv, FactoriesOK
    <3>2. FactoriesOK' /\ OwnFactoriesWithRoom'
      BY <2>1, <2>3, <3>1, WorkGoesOn DEF IInv
    <3>3. button' \in [Items -> Slots \cup {NoSlot}]
      BY <2>1, <2>3 DEF IInv, HeapOK
    <3>4. HeapOK'
      BY <2>1, <3>3, <1>2 DEF IInv, HeapOK
    <3> QED BY <3>2, <3>4, <1>2, <1>3
  <2>4. UNCHANGED << factory, button >>
        \/ (factory' = [factory EXCEPT ![f] = c] /\ button' = [button EXCEPT ![i] = f])
    BY <1>6 DEF Restart
  <2> QED BY <2>2, <2>3, <2>4
<1>7. CASE Begin(i)
  <2> DEFINE f == NewSlot(used)
             c == Started(Order(i, "player"), AvailableMoney("player"))
  <2>1. /\ OwnFactory(k) = NoSlot /\ used # Slots
        /\ index' = [index EXCEPT !["player"][k] = f]
    BY <1>7 DEF Begin
  <2>2. f \in Slots \ used
    BY <2>1, NewSlotIsFree DEF IInv, HeapOK
  <2>3. index' \in [Houses -> [Kinds -> Slots \cup {NoSlot}]]
    BY <2>1, <2>2, <1>1, <1>4 DEF IInv, HeapOK
  <2>4. CASE /\ used' = used \cup {f}
             /\ factory' = [factory EXCEPT ![f] = c]
             /\ button' = [button EXCEPT ![i] = f]
             /\ UNCHANGED refused
    <3>1. /\ Sound(c) /\ Holds(c) /\ c.object = i /\ c.house = "player"
      BY <1>4, OrderIsSound, StartedIsSound DEF Holds
    <3>2. FactoriesOK'
      BY <2>2, <2>4, <3>1, OneFactory DEF IInv
    <3>3. button' \in [Items -> Slots \cup {NoSlot}]
      BY <2>2, <2>4 DEF IInv, HeapOK
    <3>4. HeapOK'
      BY <2>2, <2>3, <2>4, <3>3, <1>2 DEF IInv, HeapOK
    <3>5. /\ \A g \in Slots \ {f} : factory'[g] = factory[g]
          /\ factory'[f] = c
      BY <2>2, <2>4 DEF IInv, FactoriesOK
    <3>6. /\ index'["player"][k] = f
          /\ \A h \in Houses, j \in Kinds :
               ~ (h = "player" /\ j = k) => index'[h][j] = index[h][j]
      BY <2>1, <1>1, <1>4 DEF IInv, HeapOK
    <3>7. OwnFactoriesWithRoom'
      <4>1. SUFFICES ASSUME ~ refused PROVE Own(factory', used', index')
        BY <2>4, OwnIsOwnFactories DEF OwnFactoriesWithRoom, OwnFactories, Own
      <4>2. Own(factory, used, index)
        BY <4>1, OwnIsOwnFactories DEF IInv, OwnFactoriesWithRoom
      <4>3. used \subseteq Slots
        BY DEF IInv, HeapOK
      <4>4. Own(factory', used \cup {f}, index')
        BY <1>1, <1>4, <2>2, <3>1, <3>5, <3>6, <4>2, <4>3, AllocatedOwn
      <4> QED BY <2>4, <4>4
    <3> QED BY <3>2, <3>4, <3>7, <1>2, <1>3
  <2>5. CASE /\ factory' = [factory EXCEPT ![f] = Blank]
             /\ refused' = TRUE
             /\ UNCHANGED << used, button >>
    <3>1. FactoriesOK'
      BY <2>2, <2>5, BlankIsSound, OneFactory DEF IInv
    <3>2. HeapOK'
      BY <2>3, <2>5, <1>2 DEF IInv, HeapOK
    <3>3. OwnFactoriesWithRoom'
      BY <2>5 DEF OwnFactoriesWithRoom
    <3> QED BY <3>1, <3>2, <3>3, <1>2, <1>3
  <2> QED BY <2>4, <2>5, <1>7 DEF Begin
<1>8. CASE PoolEmpty(i)
  BY <1>8, <1>2, <1>3, SameOwn DEF PoolEmpty, IInv, FactoriesOK, HeapOK
<1> QED BY <1>6, <1>7, <1>8 DEF BeginProduction

LEMMA SuspendProductionKeeps ==
  ASSUME IInv, NEW k \in Kinds, SuspendProduction(k)
  PROVE  FactoriesOK' /\ MoneyOK' /\ HeapOK' /\ OwnFactoriesWithRoom'
         /\ UNCHANGED outside
<1> DEFINE f == OwnFactory(k)
<1>1. UNCHANGED << used, index, button, placing, money, outside, refused >>
  BY DEF SuspendProduction
<1>2. MoneyOK' /\ HeapOK'
  BY <1>1 DEF IInv, MoneyOK, HeapOK, money
<1>3. f \in Slots \cup {NoSlot}
  BY DEF IInv, HeapOK, OwnFactory, Houses
<1>4. CASE f = NoSlot
  <2>1. UNCHANGED factory
    BY <1>4 DEF SuspendProduction
  <2> QED BY <2>1, <1>1, <1>2, SameOwn DEF IInv, FactoriesOK
<1>5. CASE f # NoSlot
  <2>1. factory' = [factory EXCEPT ![f] = Suspended(factory[f])]
    BY <1>5 DEF SuspendProduction
  <2>2. /\ Sound(Suspended(factory[f]))
        /\ Suspended(factory[f]).object = factory[f].object
        /\ Suspended(factory[f]).house = factory[f].house
    BY <1>3, <1>5, SuspendedIsSound DEF IInv, FactoriesOK
  <2>3. FactoriesOK' /\ OwnFactoriesWithRoom'
    BY <1>1, <1>3, <1>5, <2>1, <2>2, WorkGoesOn DEF IInv
  <2> QED BY <2>3, <1>1, <1>2
<1> QED BY <1>4, <1>5

(* Abandon_Production of the factory there is: its slot is free again. *)
LEMMA DismissKeeps ==
  ASSUME IInv, NEW k \in Kinds, OwnFactory(k) # NoSlot, Dismiss(k)
  PROVE  FactoriesOK' /\ HeapOK' /\ OwnFactoriesWithRoom'
<1> DEFINE f == OwnFactory(k)
<1>1. "player" \in Houses
  BY DEF Houses
<1>2. f \in Slots /\ f = index["player"][k]
  BY <1>1 DEF IInv, HeapOK, OwnFactory
<1>3. /\ factory' = [factory EXCEPT ![f] = Blank]
      /\ index' = [index EXCEPT !["player"][k] = NoSlot]
      /\ used' = used \ {f}
      /\ UNCHANGED refused
      /\ placing' \in BOOLEAN
  BY DEF Dismiss
<1>4. button' \in [Items -> Slots \cup {NoSlot}]
  BY DEF Dismiss, IInv, HeapOK
<1>5. FactoriesOK'
  BY <1>2, <1>3, BlankIsSound, OneFactory DEF IInv
<1>6. index' \in [Houses -> [Kinds -> Slots \cup {NoSlot}]]
  BY <1>1, <1>3 DEF IInv, HeapOK
<1>7. HeapOK'
  BY <1>3, <1>4, <1>6 DEF IInv, HeapOK
<1>8. /\ \A g \in Slots \ {f} : factory'[g] = factory[g]
      /\ index'["player"][k] = NoSlot
      /\ \A h \in Houses, j \in Kinds :
           ~ (h = "player" /\ j = k) => index'[h][j] = index[h][j]
  BY <1>1, <1>2, <1>3 DEF IInv, FactoriesOK, HeapOK
<1>9. OwnFactoriesWithRoom'
  <2>1. SUFFICES ASSUME ~ refused PROVE Own(factory', used', index')
    BY <1>3, OwnIsOwnFactories DEF OwnFactoriesWithRoom, OwnFactories, Own
  <2>2. Own(factory, used, index) /\ used \subseteq Slots
    BY <2>1, OwnIsOwnFactories DEF IInv, OwnFactoriesWithRoom, HeapOK
  <2>3. Own(factory', used \ {f}, index')
    BY <1>1, <1>2, <1>8, <2>2, FreedOwn
  <2> QED BY <1>3, <2>3
<1> QED BY <1>5, <1>7, <1>9

LEMMA AbandonProductionKeeps ==
  ASSUME IInv, NEW k \in Kinds, AbandonProduction(k)
  PROVE  FactoriesOK' /\ MoneyOK' /\ HeapOK' /\ OwnFactoriesWithRoom'
         /\ UNCHANGED outside
<1> DEFINE f == OwnFactory(k)
<1>1. CASE f = NoSlot
  <2>1. UNCHANGED << factory, used, index, button, placing, money, outside,
                     refused >>
    BY <1>1 DEF AbandonProduction
  <2>2. FactoriesOK' /\ MoneyOK' /\ HeapOK'
    BY <2>1 DEF IInv, FactoriesOK, MoneyOK, HeapOK, money
  <2>3. OwnFactoriesWithRoom'
    BY <2>1, SameOwn DEF IInv
  <2> QED BY <2>1, <2>2, <2>3
<1>2. CASE f # NoSlot
  <2>1. Dismiss(k) /\ PayBack(factory[f]) /\ UNCHANGED outside
    BY <1>2 DEF AbandonProduction
  <2>2. f \in Slots
    BY <1>2 DEF IInv, HeapOK, OwnFactory, Houses
  <2>3. MoneyOK'
    BY <2>1, <2>2, PayBackKeepsMoney DEF IInv, FactoriesOK
  <2> QED BY <1>2, <2>1, <2>3, DismissKeeps
<1> QED BY <1>1, <1>2

LEMMA LeavesKeeps ==
  ASSUME IInv, NEW k \in Kinds, Placeable(OwnFactory(k)),
         Leaves(k, factory[OwnFactory(k)])
  PROVE  FactoriesOK' /\ MoneyOK' /\ HeapOK' /\ OwnFactoriesWithRoom'
<1> DEFINE f == OwnFactory(k)
<1>1. f # NoSlot /\ Holds(factory[f]) /\ Dismiss(k)
  BY DEF Placeable, HasCompleted, Leaves
<1>2. f \in Slots
  BY <1>1 DEF IInv, HeapOK, OwnFactory, Houses
<1>3. MoneyOK'
  BY <1>1, <1>2, GoneKeepsMoney DEF Leaves, IInv, FactoriesOK
<1> QED BY <1>1, <1>3, DismissKeeps

LEMMA PlaceObjectKeeps ==
  ASSUME IInv, NEW k \in Kinds, PlaceObject(k)
  PROVE  /\ FactoriesOK' /\ MoneyOK' /\ HeapOK' /\ OwnFactoriesWithRoom'
         /\ OutsideOK'
<1> DEFINE f == OwnFactory(k)
           c == factory[f]
           kind == KindOf(c.object)
           state == plant[c.house][kind]
           ready == Placeable(f) /\ state \in {"idle", "closing"}
<1>1. kind \in Kinds
  BY DEF KindOf, Kinds
<1>2. ASSUME ready PROVE c.house \in Houses
  <2>1. f \in Slots
    BY <1>2 DEF Placeable, IInv, HeapOK, OwnFactory, Houses
  <2> QED BY <2>1 DEF IInv, FactoriesOK, FactoryRecords
<1>3. CASE /\ ready /\ Leaves(k, c)
           /\ field' = [field EXCEPT ![kind] = @ + 1]
           /\ plant' = [plant EXCEPT ![c.house][kind] = "busy"]
           /\ UNCHANGED stranded
  <2>1. plant' \in [Houses -> [Kinds -> {"none", "idle", "busy", "closing"}]]
    BY <1>1, <1>2, <1>3 DEF IInv, OutsideOK
  <2>2. field' \in [Kinds -> Nat]
    BY <1>1, <1>3 DEF IInv, OutsideOK
  <2>3. OutsideOK'
    BY <1>3, <2>1, <2>2 DEF IInv, OutsideOK
  <2> QED BY <1>3, <2>3, LeavesKeeps DEF IInv
<1>4. CASE /\ ready /\ Leaves(k, c)
           /\ stranded' = [stranded EXCEPT ![kind] = @ + 1]
           /\ UNCHANGED << plant, field >>
  <2>1. stranded' \in [Kinds -> Nat]
    BY <1>1, <1>4 DEF IInv, OutsideOK
  <2>2. OutsideOK'
    BY <1>4, <2>1 DEF IInv, OutsideOK
  <2> QED BY <1>4, <2>2, LeavesKeeps DEF IInv
<1>5. CASE UNCHANGED << factory, used, index, button, placing, money, outside,
                        refused >>
  <2>1. FactoriesOK' /\ MoneyOK' /\ HeapOK' /\ OutsideOK'
    BY <1>5 DEF IInv, FactoriesOK, MoneyOK, HeapOK, OutsideOK, money, outside
  <2>2. OwnFactoriesWithRoom'
    BY <1>5, SameOwn DEF IInv
  <2> QED BY <2>1, <2>2 DEF IInv
<1> QED BY <1>3, <1>4, <1>5 DEF PlaceObject

-----------------------------------------------------------------------------
(* The orders *)

LEMMA ExecuteEventIInv ==
  ASSUME IInv, ExecuteEvent
  PROVE  IInv'
<1> DEFINE e == Head(events)
<1>1. e \in Orders /\ EventsOK'
  BY DEF IInv, EventsOK, ExecuteEvent
<1>2. CASE e.what = "PRODUCE" /\ BeginProduction(e.on)
  <2>1. e.on \in Items
    BY <1>1, <1>2 DEF Orders
  <2>2. /\ FactoriesOK' /\ MoneyOK' /\ HeapOK' /\ OwnFactoriesWithRoom'
        /\ UNCHANGED outside
    BY <1>2, <2>1, BeginProductionKeeps
  <2> QED BY <1>1, <2>2 DEF IInv, OutsideOK, outside
<1>3. CASE e.what = "SUSPEND" /\ SuspendProduction(e.on)
  <2>1. e.on \in Kinds
    BY <1>1, <1>3 DEF Orders
  <2>2. /\ FactoriesOK' /\ MoneyOK' /\ HeapOK' /\ OwnFactoriesWithRoom'
        /\ UNCHANGED outside
    BY <1>3, <2>1, SuspendProductionKeeps
  <2> QED BY <1>1, <2>2 DEF IInv, OutsideOK, outside
<1>4. CASE e.what = "ABANDON" /\ AbandonProduction(e.on)
  <2>1. e.on \in Kinds
    BY <1>1, <1>4 DEF Orders
  <2>2. /\ FactoriesOK' /\ MoneyOK' /\ HeapOK' /\ OwnFactoriesWithRoom'
        /\ UNCHANGED outside
    BY <1>4, <2>1, AbandonProductionKeeps
  <2> QED BY <1>1, <2>2 DEF IInv, OutsideOK, outside
<1>5. CASE e.what = "PLACE" /\ PlaceObject(e.on)
  <2>1. e.on \in Kinds
    BY <1>1, <1>5 DEF Orders
  <2> QED BY <1>1, <1>5, <2>1, PlaceObjectKeeps DEF IInv
<1> QED BY <1>2, <1>3, <1>4, <1>5 DEF ExecuteEvent

LEMMA SendKeepsEvents ==
  ASSUME EventsOK, NEW what, NEW on, [what |-> what, on |-> on] \in Orders,
         Send(what, on)
  PROVE  EventsOK'
BY DEF EventsOK, Send

(* The player's clicks change no factory. *)
LEMMA ClickKeeps ==
  ASSUME IInv, EventsOK', placing' \in BOOLEAN,
         UNCHANGED << factory, used, index, button, money, outside, refused >>
  PROVE  IInv'
<1>1. FactoriesOK' /\ MoneyOK' /\ HeapOK' /\ OutsideOK'
  BY DEF IInv, FactoriesOK, MoneyOK, HeapOK, OutsideOK, money, outside
<1>2. OwnFactoriesWithRoom'
  BY SameOwn DEF IInv
<1> QED BY <1>1, <1>2 DEF IInv

LEMMA OrdersOfClicks ==
  /\ \A i \in Items : [what |-> "PRODUCE", on |-> i] \in Orders
  /\ \A k \in Kinds, w \in {"SUSPEND", "ABANDON", "PLACE"} :
       [what |-> w, on |-> k] \in Orders
  /\ \A i \in Items : KindOf(i) \in Kinds
  /\ "building" \in Kinds
BY DEF Orders, Kinds, KindOf

LEMMA LeftClickIInv ==
  ASSUME IInv, NEW i \in Items, LeftClick(i)
  PROVE  IInv'
<1>1. UNCHANGED << factory, used, index, button, money, outside, refused >>
  BY DEF LeftClick
<1>2. CASE Send("PRODUCE", i) /\ UNCHANGED placing
  <2>1. EventsOK'
    BY <1>2, OrdersOfClicks, SendKeepsEvents DEF IInv
  <2> QED BY <1>1, <1>2, <2>1, ClickKeeps DEF IInv, HeapOK
<1>3. CASE Send("ABANDON", KindOf(i)) /\ UNCHANGED placing
  <2>1. EventsOK'
    BY <1>3, OrdersOfClicks, SendKeepsEvents DEF IInv
  <2> QED BY <1>1, <1>3, <2>1, ClickKeeps DEF IInv, HeapOK
<1>4. CASE Send("PLACE", KindOf(i)) /\ UNCHANGED placing
  <2>1. EventsOK'
    BY <1>4, OrdersOfClicks, SendKeepsEvents DEF IInv
  <2> QED BY <1>1, <1>4, <2>1, ClickKeeps DEF IInv, HeapOK
<1>5. CASE placing' = TRUE /\ UNCHANGED events
  <2>1. EventsOK' /\ placing' \in BOOLEAN
    BY <1>5 DEF IInv, EventsOK
  <2> QED BY <1>1, <2>1, ClickKeeps
<1> QED BY <1>2, <1>3, <1>4, <1>5 DEF LeftClick

LEMMA RightClickIInv ==
  ASSUME IInv, NEW i \in Items, RightClick(i)
  PROVE  IInv'
<1>1. /\ UNCHANGED << factory, used, index, button, money, outside, refused >>
      /\ placing' \in BOOLEAN
      /\ \/ Send("SUSPEND", KindOf(i))
         \/ Send("ABANDON", KindOf(i))
  BY DEF RightClick
<1>2. EventsOK'
  BY <1>1, OrdersOfClicks, SendKeepsEvents DEF IInv
<1> QED BY <1>1, <1>2, ClickKeeps

LEMMA AnnounceIInv ==
  ASSUME IInv, NEW i \in Items, Announce(i)
  PROVE  IInv'
<1> DEFINE f == button[i]
           c == factory[f]
<1>1. /\ f \in Slots
      /\ factory' = [factory EXCEPT ![f] = [c EXCEPT !.fresh = FALSE]]
      /\ UNCHANGED << used, index, button, placing, money, outside, refused >>
  BY DEF Announce, IInv, HeapOK
<1>2. /\ Sound([c EXCEPT !.fresh = FALSE])
      /\ [c EXCEPT !.fresh = FALSE].object = c.object
      /\ [c EXCEPT !.fresh = FALSE].house = c.house
  BY <1>1, AskedIsSound DEF IInv, FactoriesOK
<1>3. FactoriesOK' /\ OwnFactoriesWithRoom'
  BY <1>1, <1>2, WorkGoesOn DEF IInv
<1>4. KindOf(c.object) \in Kinds
  BY DEF KindOf, Kinds
<1>5. Send("PLACE", KindOf(c.object)) \/ UNCHANGED events
  BY DEF Announce
<1>6. EventsOK'
  BY <1>4, <1>5, OrdersOfClicks, SendKeepsEvents DEF IInv, EventsOK
<1>7. MoneyOK' /\ HeapOK' /\ OutsideOK'
  BY <1>1 DEF IInv, MoneyOK, HeapOK, OutsideOK, money, outside
<1> QED BY <1>3, <1>6, <1>7 DEF IInv

LEMMA MapClicksIInv ==
  ASSUME IInv, ClickMap \/ CancelPlacing
  PROVE  IInv'
<1>1. CASE ClickMap
  <2>1. EventsOK'
    BY <1>1, OrdersOfClicks, SendKeepsEvents DEF ClickMap, IInv
  <2> QED BY <1>1, <2>1, ClickKeeps DEF ClickMap, IInv, HeapOK
<1>2. CASE CancelPlacing
  <2>1. EventsOK' /\ placing' \in BOOLEAN
    BY <1>2 DEF CancelPlacing, IInv, EventsOK
  <2> QED BY <1>2, <2>1, ClickKeeps DEF CancelPlacing
<1> QED BY <1>1, <1>2

-----------------------------------------------------------------------------
(* The computer's buildings *)

(* What is left when the computer's slot of a kind is freed. *)
LEMMA ComputerFrees ==
  ASSUME IInv, NEW k \in Kinds, NEW f \in Slots, index["computer"][k] = f
  PROVE  LET facs == [factory EXCEPT ![f] = Blank]
         IN
         /\ facs \in [Slots -> FactoryRecords]
         /\ \A g \in Slots : Sound(facs[g])
         /\ used \ {f} \subseteq Slots
         /\ ~ refused =>
              Own(facs, used \ {f}, [index EXCEPT !["computer"][k] = NoSlot])
<1> DEFINE facs == [factory EXCEPT ![f] = Blank]
           idx == [index EXCEPT !["computer"][k] = NoSlot]
<1>1. "computer" \in Houses /\ Blank \in FactoryRecords
  BY BlankIsSound DEF Houses, Sound
<1>2. facs \in [Slots -> FactoryRecords]
  BY <1>1 DEF IInv, FactoriesOK
<1>3. \A g \in Slots : facs[g] = IF g = f THEN Blank ELSE factory[g]
  BY DEF IInv, FactoriesOK
<1>4. \A g \in Slots : Sound(facs[g])
  BY <1>3, BlankIsSound DEF IInv, FactoriesOK
<1>5. /\ \A g \in Slots \ {f} : facs[g] = factory[g]
      /\ idx["computer"][k] = NoSlot
      /\ \A h \in Houses, j \in Kinds :
           ~ (h = "computer" /\ j = k) => idx[h][j] = index[h][j]
  BY <1>1, <1>3 DEF IInv, HeapOK
<1>6. used \subseteq Slots
  BY DEF IInv, HeapOK
<1>7. ASSUME ~ refused PROVE Own(facs, used \ {f}, idx)
  <2>1. Own(factory, used, index)
    BY <1>7, OwnIsOwnFactories DEF IInv, OwnFactoriesWithRoom
  <2> HIDE DEF idx, facs
  <2> QED BY <1>1, <1>5, <1>6, <2>1, FreedOwn
<1> QED BY <1>2, <1>4, <1>6, <1>7

LEMMA StartAnotherKeeps ==
  ASSUME IInv, NEW k \in Kinds, NEW facs, NEW use, NEW available,
         facs \in [Slots -> FactoryRecords],
         \A g \in Slots : Sound(facs[g]),
         use \subseteq Slots,
         ~ refused => Own(facs, use, [index EXCEPT !["computer"][k] = NoSlot]),
         StartAnother(k, facs, use, available),
         UNCHANGED << button, placing, refused >>
  PROVE  FactoriesOK' /\ HeapOK' /\ OwnFactoriesWithRoom'
<1> DEFINE idx == [index EXCEPT !["computer"][k] = NoSlot]
           f == NewSlot(use)
<1>1. "computer" \in Houses
  BY DEF Houses
<1>2. CASE factory' = facs /\ used' = use /\ index' = idx
  <2>1. FactoriesOK'
    BY <1>2 DEF FactoriesOK
  <2>2. index' \in [Houses -> [Kinds -> Slots \cup {NoSlot}]]
    BY <1>1, <1>2 DEF IInv, HeapOK
  <2>3. HeapOK'
    BY <1>2, <2>2 DEF IInv, HeapOK
  <2>4. OwnFactoriesWithRoom'
    BY <1>2 DEF OwnFactoriesWithRoom, OwnFactories, Own
  <2> QED BY <2>1, <2>3, <2>4
<1>3. ASSUME NEW i \in {j \in ComputerItems : KindOf(j) = k},
             use # Slots,
             factory' = [facs EXCEPT ![f] = Started(Order(i, "computer"), available)],
             used' = use \cup {f},
             index' = [index EXCEPT !["computer"][k] = f]
      PROVE  FactoriesOK' /\ HeapOK' /\ OwnFactoriesWithRoom'
  <2> DEFINE c == Started(Order(i, "computer"), available)
  <2>1. f \in Slots \ use
    BY <1>3, NewSlotIsFree
  <2>2. i \in Items /\ KindOf(i) = k
    BY ProductionAssumption
  <2>3. Sound(c) /\ Holds(c) /\ c.object = i /\ c.house = "computer"
    BY <1>1, <2>2, OrderIsSound, StartedIsSound DEF Holds
  <2> HIDE DEF c, f
  <2>4. \A g \in Slots : factory'[g] = IF g = f THEN c ELSE facs[g]
    BY <1>3 DEF c, f
  <2>5. FactoriesOK'
    <3>1. c \in FactoryRecords
      BY <2>3 DEF Sound
    <3>2. factory' \in [Slots -> FactoryRecords]
      BY <1>3, <3>1 DEF c, f
    <3>3. \A g \in Slots : Sound(factory'[g])
      BY <2>3, <2>4
    <3> QED BY <3>2, <3>3 DEF FactoriesOK
  <2>6. index' \in [Houses -> [Kinds -> Slots \cup {NoSlot}]]
    BY <1>1, <1>3, <2>1 DEF IInv, HeapOK, f
  <2>7. HeapOK'
    BY <1>3, <2>1, <2>6 DEF IInv, HeapOK, f
  <2>8. OwnFactoriesWithRoom'
    <3>1. SUFFICES ASSUME ~ refused PROVE Own(factory', used', index')
      BY OwnIsOwnFactories DEF OwnFactoriesWithRoom, OwnFactories, Own
    <3>2. Own(facs, use, idx)
      BY <3>1
    <3>3. /\ \A g \in Slots \ {f} : factory'[g] = facs[g]
          /\ Holds(factory'[f]) /\ factory'[f].house = "computer"
          /\ KindOf(factory'[f].object) = k
      BY <2>1, <2>2, <2>3, <2>4
    <3>4. /\ index'["computer"][k] = f
          /\ \A h \in Houses, j \in Kinds :
               ~ (h = "computer" /\ j = k) => index'[h][j] = idx[h][j]
      BY <1>1, <1>3 DEF IInv, HeapOK, f
    <3> HIDE DEF idx
    <3>5. Own(factory', use \cup {f}, index')
      BY <1>1, <2>1, <3>2, <3>3, <3>4, AllocatedOwn
    <3> QED BY <1>3, <3>5 DEF f
  <2> QED BY <2>5, <2>7, <2>8
<1> QED BY <1>2, <1>3 DEF StartAnother

LEMMA ComputerExitIInv ==
  ASSUME IInv, NEW k \in Kinds, ComputerExit(k)
  PROVE  IInv'
<1> DEFINE f == ComputerFactory(k)
           c == factory[f]
           freed == [factory EXCEPT ![f] = Blank]
<1>1. /\ f # NoSlot /\ HasCompleted(c)
      /\ UNCHANGED << button, placing, events, stranded, refused >>
  BY DEF ComputerExit
<1>2. f \in Slots /\ index["computer"][k] = f
  BY <1>1 DEF IInv, HeapOK, ComputerFactory, Houses
<1>3. Sound(c) /\ Holds(c)
  BY <1>1, <1>2 DEF IInv, FactoriesOK, HasCompleted
<1>4. /\ freed \in [Slots -> FactoryRecords]
      /\ \A g \in Slots : Sound(freed[g])
      /\ used \ {f} \subseteq Slots
      /\ ~ refused =>
           Own(freed, used \ {f}, [index EXCEPT !["computer"][k] = NoSlot])
  BY <1>2, ComputerFrees
<1> HIDE DEF freed
<1>5. CASE /\ PayBack(c)
           /\ StartAnother(k, freed, used \ {f}, AvailableMoney("computer")')
           /\ UNCHANGED << plant, field >>
  <2>1. FactoriesOK' /\ HeapOK' /\ OwnFactoriesWithRoom'
    BY <1>1, <1>4, <1>5, StartAnotherKeeps
  <2>2. MoneyOK'
    BY <1>3, <1>5, PayBackKeepsMoney DEF IInv
  <2>3. EventsOK' /\ OutsideOK'
    BY <1>1, <1>5 DEF IInv, EventsOK, OutsideOK
  <2> QED BY <2>1, <2>2, <2>3 DEF IInv
<1>6. CASE /\ plant' = [plant EXCEPT !["computer"][k] = "busy"]
           /\ field' = [field EXCEPT ![k] = @ + 1]
           /\ gone' = [gone EXCEPT ![c.house] = @ + Price[c.object]]
           /\ StartAnother(k, freed, used \ {f}, AvailableMoney("computer"))
           /\ UNCHANGED << credits, tiberium, capacity, ore >>
  <2>1. FactoriesOK' /\ HeapOK' /\ OwnFactoriesWithRoom'
    BY <1>1, <1>4, <1>6, StartAnotherKeeps
  <2>2. MoneyOK'
    BY <1>3, <1>6, GoneKeepsMoney DEF IInv
  <2>3. /\ plant' \in [Houses -> [Kinds -> {"none", "idle", "busy", "closing"}]]
        /\ field' \in [Kinds -> Nat]
    <3>1. plant' \in [Houses -> [Kinds -> {"none", "idle", "busy", "closing"}]]
      BY <1>6 DEF IInv, OutsideOK, Houses
    <3>2. field' \in [Kinds -> Nat]
      BY <1>6 DEF IInv, OutsideOK
    <3> QED BY <3>1, <3>2
  <2>4. EventsOK' /\ OutsideOK'
    BY <1>1, <2>3 DEF IInv, EventsOK, OutsideOK
  <2> QED BY <2>1, <2>2, <2>4 DEF IInv
<1> QED BY <1>5, <1>6 DEF ComputerExit, freed

(* The computer gives up what it builds: halted, or its building is lost. *)
LEMMA ComputerGivesUp ==
  ASSUME IInv, NEW k \in Kinds, NEW f \in Slots, index["computer"][k] = f,
         factory' = [factory EXCEPT ![f] = Blank],
         used' = used \ {f},
         index' = [index EXCEPT !["computer"][k] = NoSlot],
         PayBack(factory[f]),
         UNCHANGED << button, placing, refused >>
  PROVE  FactoriesOK' /\ MoneyOK' /\ HeapOK' /\ OwnFactoriesWithRoom'
<1>1. /\ factory' \in [Slots -> FactoryRecords]
      /\ \A g \in Slots : Sound(factory'[g])
      /\ used \ {f} \subseteq Slots
      /\ ~ refused =>
           Own(factory', used \ {f}, [index EXCEPT !["computer"][k] = NoSlot])
  BY ComputerFrees
<1>2. FactoriesOK'
  BY <1>1 DEF FactoriesOK
<1>3. index' \in [Houses -> [Kinds -> Slots \cup {NoSlot}]]
  BY DEF IInv, HeapOK, Houses
<1>4. HeapOK'
  BY <1>1, <1>3 DEF IInv, HeapOK
<1>5. OwnFactoriesWithRoom'
  BY <1>1 DEF OwnFactoriesWithRoom, OwnFactories, Own
<1>6. MoneyOK'
  BY PayBackKeepsMoney DEF IInv, FactoriesOK
<1> QED BY <1>2, <1>4, <1>5, <1>6

LEMMA ComputerAbortIInv ==
  ASSUME IInv, NEW k \in Kinds, ComputerAbort(k)
  PROVE  IInv'
<1> DEFINE f == ComputerFactory(k)
<1>1. f # NoSlot /\ UNCHANGED << button, placing, events, outside, refused >>
  BY DEF ComputerAbort
<1>2. f \in Slots /\ index["computer"][k] = f
  BY <1>1 DEF IInv, HeapOK, ComputerFactory, Houses
<1>3. FactoriesOK' /\ MoneyOK' /\ HeapOK' /\ OwnFactoriesWithRoom'
  BY <1>1, <1>2, ComputerGivesUp DEF ComputerAbort
<1>4. EventsOK' /\ OutsideOK'
  BY <1>1 DEF IInv, EventsOK, OutsideOK, outside
<1> QED BY <1>3, <1>4 DEF IInv

LEMMA ComputerBeginIInv ==
  ASSUME IInv, NEW k \in Kinds, ComputerBegin(k)
  PROVE  IInv'
<1>1. /\ index["computer"][k] = NoSlot
      /\ StartAnother(k, factory, used, AvailableMoney("computer"))
      /\ UNCHANGED << button, placing, events, money, outside, refused >>
  BY DEF ComputerBegin, ComputerFactory
<1>2. ~ refused =>
        Own(factory, used, [index EXCEPT !["computer"][k] = NoSlot])
  <2>1. \A h \in Houses, j \in Kinds :
          [index EXCEPT !["computer"][k] = NoSlot][h][j] = index[h][j]
    BY <1>1 DEF IInv, HeapOK, Houses
  <2>2. ASSUME ~ refused PROVE Own(factory, used, index)
    BY <2>2, OwnIsOwnFactories DEF IInv, OwnFactoriesWithRoom
  <2> QED BY <2>1, <2>2 DEF Own
<1>3. FactoriesOK' /\ HeapOK' /\ OwnFactoriesWithRoom'
  <2>1. /\ factory \in [Slots -> FactoryRecords]
        /\ \A g \in Slots : Sound(factory[g])
        /\ used \subseteq Slots
    BY DEF IInv, FactoriesOK, HeapOK
  <2> QED BY <1>1, <1>2, <2>1, StartAnotherKeeps
<1>4. MoneyOK' /\ EventsOK' /\ OutsideOK'
  BY <1>1 DEF IInv, MoneyOK, EventsOK, OutsideOK, money, outside
<1> QED BY <1>3, <1>4 DEF IInv

-----------------------------------------------------------------------------
(* Around the factories *)

(* Steps that touch no factory. *)
LEMMA AroundKeeps ==
  ASSUME IInv, MoneyOK', OutsideOK',
         UNCHANGED << factory, used, index, button, placing, events, refused >>
  PROVE  IInv'
<1>1. FactoriesOK' /\ HeapOK' /\ EventsOK'
  BY DEF IInv, FactoriesOK, HeapOK, EventsOK
<1>2. OwnFactoriesWithRoom'
  BY SameOwn DEF IInv
<1> QED BY <1>1, <1>2 DEF IInv

LEMMA ContactEndsIInv ==
  ASSUME IInv, NEW h \in Houses, NEW k \in Kinds,
         ContactEnds(h, k) \/ GainPlant(h, k)
  PROVE  IInv'
<1>1. PICK new \in {"idle", "closing"} : plant' = [plant EXCEPT ![h][k] = new]
  BY DEF ContactEnds, GainPlant
<1>2. UNCHANGED << factory, used, index, button, placing, events, money, field,
                   stranded, refused >>
  BY DEF ContactEnds, GainPlant
<1>3. plant' \in [Houses -> [Kinds -> {"none", "idle", "busy", "closing"}]]
  BY <1>1 DEF IInv, OutsideOK
<1>4. MoneyOK' /\ OutsideOK'
  BY <1>2, <1>3 DEF IInv, OutsideOK, MoneyOK, money
<1> QED BY <1>2, <1>4, AroundKeeps

LEMMA DoorClosesIInv ==
  ASSUME IInv, DoorCloses
  PROVE  IInv'
<1>1. plant' \in [Houses -> [Kinds -> {"none", "idle", "busy", "closing"}]]
  BY DEF DoorCloses, IInv, OutsideOK
<1>2. MoneyOK' /\ OutsideOK'
  BY <1>1 DEF DoorCloses, IInv, OutsideOK, MoneyOK, money
<1> QED BY <1>2, AroundKeeps DEF DoorCloses

LEMMA DestroyedIInv ==
  ASSUME IInv, NEW k \in Kinds, Destroyed(k)
  PROVE  IInv'
<1>1. field' \in [Kinds -> Nat]
  BY DEF Destroyed, IInv, OutsideOK
<1>2. MoneyOK' /\ OutsideOK'
  BY <1>1 DEF Destroyed, IInv, OutsideOK, MoneyOK, money
<1> QED BY <1>2, AroundKeeps DEF Destroyed

LEMMA LosePlantIInv ==
  ASSUME IInv, NEW h \in Houses, NEW k \in Kinds, LosePlant(h, k)
  PROVE  IInv'
<1> DEFINE f == index[h][k]
           c == factory[f]
<1>1. EventsOK' /\ OutsideOK'
  <2>1. plant' \in [Houses -> [Kinds -> {"none", "idle", "busy", "closing"}]]
    BY DEF LosePlant, IInv, OutsideOK
  <2> QED BY <2>1 DEF LosePlant, IInv, EventsOK, OutsideOK
<1>2. f \in Slots \cup {NoSlot}
  BY DEF IInv, HeapOK
<1>3. CASE UNCHANGED << factory, used, index, button, placing, money, refused >>
  <2>1. MoneyOK' /\ FactoriesOK' /\ HeapOK'
    BY <1>3 DEF IInv, MoneyOK, FactoriesOK, HeapOK, money
  <2>2. OwnFactoriesWithRoom'
    BY <1>3, SameOwn DEF IInv
  <2> QED BY <1>1, <2>1, <2>2 DEF IInv
<1>4. CASE h = "player" /\ f # NoSlot /\ Dismiss(k) /\ PayBack(c)
  <2>1. f = OwnFactory(k) /\ f \in Slots
    BY <1>2, <1>4 DEF OwnFactory
  <2>2. FactoriesOK' /\ HeapOK' /\ OwnFactoriesWithRoom'
    BY <1>4, <2>1, DismissKeeps
  <2>3. MoneyOK'
    BY <1>4, <2>1, PayBackKeepsMoney DEF IInv, FactoriesOK
  <2> QED BY <1>1, <2>2, <2>3 DEF IInv
<1>5. CASE /\ h = "computer" /\ f # NoSlot
           /\ factory' = [factory EXCEPT ![f] = Blank]
           /\ used' = used \ {f}
           /\ index' = [index EXCEPT ![h][k] = NoSlot]
           /\ PayBack(c)
           /\ UNCHANGED << button, placing, refused >>
  BY <1>1, <1>2, <1>5, ComputerGivesUp DEF IInv
<1> QED BY <1>3, <1>4, <1>5 DEF LosePlant, Houses

LEMMA HarvestedIInv ==
  ASSUME IInv, NEW h \in Houses, NEW n \in Nat, Harvested(h, n)
  PROVE  IInv'
<1>1. /\ tiberium[h] \in Nat /\ capacity[h] \in Nat /\ ore[h] \in Nat
      /\ gone[h] \in Nat /\ n <= ore[h]
  BY DEF Harvested, IInv, MoneyOK
<1>2. ore[h] - n \in Nat
  BY <1>1
<1>3. Min({tiberium[h] + n, capacity[h]}) \in Nat
  BY <1>1, MinOfTwo
<1>4. gone[h] + Max({0, tiberium[h] + n - capacity[h]}) \in Nat
  BY <1>1, MaxOfTwo
<1>5. ore' \in [Houses -> Nat] /\ tiberium' \in [Houses -> Nat]
      /\ gone' \in [Houses -> Nat]
  BY <1>2, <1>3, <1>4 DEF Harvested, IInv, MoneyOK
<1>6. MoneyOK' /\ OutsideOK'
  BY <1>5 DEF Harvested, IInv, MoneyOK, OutsideOK, outside
<1> QED BY <1>6, AroundKeeps DEF Harvested

LEMMA LoseSiloIInv ==
  ASSUME IInv, NEW h \in Houses, NEW inanger \in BOOLEAN, LoseSilo(h, inanger)
  PROVE  IInv'
<1> DEFINE rest == Max({0, capacity[h] - Silo[h]})
           excess == Max({0, tiberium[h] - rest})
<1>1. /\ tiberium[h] \in Nat /\ capacity[h] \in Nat /\ credits[h] \in Nat
      /\ gone[h] \in Nat /\ Silo[h] \in Nat
  BY ProductionAssumption DEF IInv, MoneyOK
<1>2. rest \in Nat
  BY <1>1, MaxOfTwo
<1> HIDE DEF rest
<1>3. excess \in Nat /\ excess <= tiberium[h]
  BY <1>1, <1>2, MaxOfTwo
<1>4. /\ capacity' = [capacity EXCEPT ![h] = rest]
      /\ tiberium' = [tiberium EXCEPT ![h] = @ - excess]
      /\ credits' = [credits EXCEPT ![h] = IF inanger THEN @ ELSE @ + excess]
      /\ gone' = [gone EXCEPT ![h] = IF inanger THEN @ + excess ELSE @]
      /\ UNCHANGED ore
      /\ UNCHANGED << factory, used, index, button, placing, events, outside,
                      refused >>
  BY DEF LoseSilo, rest
<1> HIDE DEF excess
<1>5. tiberium[h] - excess \in Nat /\ credits[h] + excess \in Nat
      /\ gone[h] + excess \in Nat
  BY <1>1, <1>3
<1>6. /\ capacity' \in [Houses -> Nat] /\ tiberium' \in [Houses -> Nat]
      /\ credits' \in [Houses -> Nat] /\ gone' \in [Houses -> Nat]
  BY <1>2, <1>4, <1>5 DEF IInv, MoneyOK
<1>7. MoneyOK' /\ OutsideOK'
  BY <1>4, <1>6 DEF IInv, MoneyOK, OutsideOK, outside
<1> QED BY <1>4, <1>7, AroundKeeps

-----------------------------------------------------------------------------
(* The books *)

(* What a house has itself, or has been given something for. *)
Wealth(h) == credits[h] + tiberium[h] + ore[h] + gone[h]

(* A slot that is not allocated holds nothing that was paid for. *)
FreeHoldNothing(facs, use) == \A f \in Slots \ use : ~ Holds(facs[f])

Books == BooksBalance /\ FreeHoldNothing(factory, used)

InvestedIn(facs, h) == SumTo([f \in Slots |-> PaidBy(h, facs[f])], PoolSize)

LEMMA PaidByIsNat ==
  ASSUME NEW c, Sound(c), NEW h \in Houses
  PROVE  PaidBy(h, c) \in Nat
BY RefundIsNat DEF PaidBy

LEMMA BlankIsFree == \A h \in Houses : PaidBy(h, Blank) = 0
BY BlankIsSound DEF PaidBy, Refund

LEMMA OrderIsFree ==
  ASSUME NEW i \in Items, NEW h \in Houses, NEW o \in Houses
  PROVE  PaidBy(h, Order(i, o)) = 0
<1>1. Order(i, o).object = i /\ Price[i] \in Nat
  BY OrderIsSound, Prices
<1>2. Order(i, o).balance = Price[i]
  <2>1. Blank = [object |-> Nothing, house |-> "player", balance |-> 0, stage |-> 0,
                 moving |-> FALSE, suspended |-> TRUE, fresh |-> FALSE]
    BY DEF Blank
  <2> QED BY <2>1 DEF Order
<1>3. Refund(Order(i, o)) = 0
  BY <1>1, <1>2 DEF Refund
<1> QED BY <1>3 DEF PaidBy

(* Starting, halting and asking cost nothing. *)
LEMMA SwitchesAreFree ==
  ASSUME NEW c, Sound(c), NEW available, NEW h \in Houses
  PROVE  /\ PaidBy(h, Started(c, available)) = PaidBy(h, c)
         /\ PaidBy(h, Suspended(c)) = PaidBy(h, c)
         /\ PaidBy(h, [c EXCEPT !.fresh = FALSE]) = PaidBy(h, c)
<1>1. c \in FactoryRecords
  BY DEF Sound
<1>2. ASSUME NEW d, d.object = c.object, d.house = c.house, d.balance = c.balance
      PROVE  PaidBy(h, d) = PaidBy(h, c)
  BY <1>2 DEF PaidBy, Refund, Holds
<1>3. PaidBy(h, Started(c, available)) = PaidBy(h, c)
  <2> DEFINE d == [c EXCEPT !.moving = TRUE, !.suspended = FALSE]
  <2>1. d.object = c.object /\ d.house = c.house /\ d.balance = c.balance
    BY <1>1 DEF FactoryRecords
  <2>2. Started(c, available) = c \/ Started(c, available) = d
    BY DEF Started
  <2> HIDE DEF d
  <2> QED BY <1>2, <2>1, <2>2
<1>4. PaidBy(h, Suspended(c)) = PaidBy(h, c)
  <2> DEFINE d == [c EXCEPT !.moving = FALSE, !.suspended = TRUE]
  <2>1. d.object = c.object /\ d.house = c.house /\ d.balance = c.balance
    BY <1>1 DEF FactoryRecords
  <2>2. Suspended(c) = c \/ Suspended(c) = d
    BY DEF Suspended
  <2> HIDE DEF d
  <2> QED BY <1>2, <2>1, <2>2
<1>5. PaidBy(h, [c EXCEPT !.fresh = FALSE]) = PaidBy(h, c)
  <2> DEFINE d == [c EXCEPT !.fresh = FALSE]
  <2>1. d.object = c.object /\ d.house = c.house /\ d.balance = c.balance
    BY <1>1 DEF FactoryRecords
  <2> HIDE DEF d
  <2>2. PaidBy(h, d) = PaidBy(h, c)
    BY <1>2, <2>1
  <2> QED BY <2>2 DEF d
<1> QED BY <1>3, <1>4, <1>5

(* One slot changes. *)
LEMMA InvestedChange ==
  ASSUME NEW facs, \A g \in Slots : Sound(facs[g]),
         NEW facs2, \A g \in Slots : Sound(facs2[g]),
         NEW f \in Slots, \A g \in Slots \ {f} : facs2[g] = facs[g],
         NEW h \in Houses
  PROVE  /\ InvestedIn(facs, h) \in Int /\ InvestedIn(facs2, h) \in Int
         /\ InvestedIn(facs2, h)
              = InvestedIn(facs, h) - PaidBy(h, facs[f]) + PaidBy(h, facs2[f])
<1> DEFINE a == [g \in Slots |-> PaidBy(h, facs[g])]
           b == [g \in Slots |-> PaidBy(h, facs2[g])]
<1>1. PoolSize \in Nat /\ Slots = 0 .. PoolSize - 1
  BY ProductionAssumption DEF Slots
<1>2. \A g \in Slots : PaidBy(h, facs[g]) \in Int /\ PaidBy(h, facs2[g]) \in Int
  BY PaidByIsNat
<1>3. \A g \in Slots : a[g] \in Int /\ b[g] \in Int
  BY <1>2
<1>4. \A g \in Slots : g # f => b[g] = a[g]
  OBVIOUS
<1>5. a[f] = PaidBy(h, facs[f]) /\ b[f] = PaidBy(h, facs2[f])
  OBVIOUS
<1> HIDE DEF a, b
<1>6. SumTo(a, PoolSize) \in Int /\ SumTo(b, PoolSize) \in Int
  <2>1. PoolSize \in 0 .. PoolSize
    BY <1>1
  <2> QED BY <1>1, <1>3, <2>1, SumType
<1>7. SumTo(b, PoolSize) = SumTo(a, PoolSize) - a[f] + b[f]
  BY <1>1, <1>3, <1>4, SumChange
<1>8. InvestedIn(facs, h) = SumTo(a, PoolSize) /\ InvestedIn(facs2, h) = SumTo(b, PoolSize)
  BY DEF InvestedIn, a, b
<1> QED BY <1>5, <1>6, <1>7, <1>8

(* The sums of a house with what it put into its factories. *)
Balanced(facs) == \A h \in Houses : Wealth(h) + InvestedIn(facs, h) = Funds[h] + Ore[h]

LEMMA BooksAre == BooksBalance <=> Balanced(factory)
<1>1. \A h \in Houses : Invested(h) = InvestedIn(factory, h)
  BY DEF Invested, InvestedIn
<1> QED BY <1>1 DEF BooksBalance, Balanced, Wealth

LEMMA WealthIsNat ==
  ASSUME MoneyOK, NEW h \in Houses
  PROVE  Wealth(h) \in Nat
BY DEF MoneyOK, Wealth

(* A slot changes, and the money with it. *)
LEMMA OneSlotBooks ==
  ASSUME IInv, IInv', Books, NEW f \in Slots,
         \A g \in Slots \ {f} : factory'[g] = factory[g],
         \A h \in Houses : Wealth(h)' + PaidBy(h, factory'[f])
                             = Wealth(h) + PaidBy(h, factory[f])
  PROVE  BooksBalance'
<1>1. /\ \A g \in Slots : Sound(factory[g]) /\ Sound(factory'[g])
      /\ MoneyOK /\ MoneyOK'
  BY DEF IInv, FactoriesOK
<1>2. ASSUME NEW h \in Houses
      PROVE  Wealth(h)' + InvestedIn(factory', h) = Wealth(h) + InvestedIn(factory, h)
  <2>1. /\ InvestedIn(factory, h) \in Int /\ InvestedIn(factory', h) \in Int
        /\ InvestedIn(factory', h) = InvestedIn(factory, h)
             - PaidBy(h, factory[f]) + PaidBy(h, factory'[f])
    BY <1>1, InvestedChange
  <2>2. PaidBy(h, factory[f]) \in Nat /\ PaidBy(h, factory'[f]) \in Nat
    BY <1>1, PaidByIsNat
  <2>3. Wealth(h) \in Nat
    BY <1>1, WealthIsNat
  <2>4. Wealth(h)' \in Nat
    BY <1>1 DEF MoneyOK, Wealth
  <2> QED BY <2>1, <2>2, <2>3, <2>4
<1>3. Balanced(factory)
  BY BooksAre DEF Books
<1>4. Balanced(factory)'
  BY <1>2, <1>3 DEF Balanced, InvestedIn
<1>5. BooksBalance' <=> Balanced(factory)'
  BY BooksAre, PTL
<1> QED BY <1>4, <1>5

(* What the factories hold stays, and the money too. *)
LEMMA SameBooks ==
  ASSUME IInv, IInv', Books, UNCHANGED used,
         \A g \in Slots : factory'[g].object = factory[g].object,
         \A g \in Slots, h \in Houses : PaidBy(h, factory'[g]) = PaidBy(h, factory[g]),
         \A h \in Houses : Wealth(h)' = Wealth(h)
  PROVE  Books'
<1>1. PoolSize \in Nat /\ Slots = 0 .. PoolSize - 1
  BY ProductionAssumption DEF Slots
<1>2. ASSUME NEW h \in Houses PROVE InvestedIn(factory', h) = InvestedIn(factory, h)
  <2>1. [g \in Slots |-> PaidBy(h, factory'[g])] = [g \in Slots |-> PaidBy(h, factory[g])]
    OBVIOUS
  <2> QED BY <2>1 DEF InvestedIn
<1>3. Balanced(factory)
  BY BooksAre DEF Books
<1>4. Balanced(factory)'
  BY <1>2, <1>3 DEF Balanced, InvestedIn
<1>5. BooksBalance' <=> Balanced(factory)'
  BY BooksAre, PTL
<1>6. FreeHoldNothing(factory, used)'
  BY DEF Books, FreeHoldNothing, Holds
<1> QED BY <1>4, <1>5, <1>6 DEF Books

(* Nothing but the money changes hands. *)
LEMMA MoneyMoves ==
  ASSUME IInv, IInv', Books, UNCHANGED << factory, used >>,
         \A h \in Houses : Wealth(h)' = Wealth(h)
  PROVE  Books'
BY SameBooks

LEMMA InitBooks == Init => Books
<1> SUFFICES ASSUME Init PROVE Books
  OBVIOUS
<1>1. PoolSize \in Nat /\ Slots = 0 .. PoolSize - 1
  BY ProductionAssumption DEF Slots
<1>2. ASSUME NEW h \in Houses PROVE InvestedIn(factory, h) = 0
  <2> DEFINE a == [g \in Slots |-> PaidBy(h, factory[g])]
  <2>1. \A g \in Slots : a[g] = 0
    BY BlankIsFree DEF Init
  <2> HIDE DEF a
  <2>2. SumTo(a, PoolSize) = 0
    BY <1>1, <2>1, SumOfZeros
  <2> QED BY <2>2 DEF InvestedIn, a
<1>3. ASSUME NEW h \in Houses PROVE Wealth(h) = Funds[h] + Ore[h]
  <2>1. Funds[h] \in Nat /\ Ore[h] \in Nat
    BY ProductionAssumption
  <2> QED BY <2>1 DEF Init, Wealth
<1>4. \A h \in Houses : Funds[h] + Ore[h] \in Nat
  BY ProductionAssumption
<1>5. Balanced(factory)
  BY <1>2, <1>3, <1>4 DEF Balanced
<1>6. FreeHoldNothing(factory, used)
  BY BlankIsSound DEF Init, FreeHoldNothing
<1> QED BY <1>5, <1>6, BooksAre DEF Books

(* A step of production: what the house spends is what the factory gets. *)
LEMMA FactoryAIBooks ==
  ASSUME IInv, IInv', Books, NEW f \in Slots, FactoryAI(f)
  PROVE  Books'
<1> DEFINE c == factory[f]
           next == [c EXCEPT !.stage = @ + 1]
           cost == Min({CostPerTick(next), c.balance})
           enough == cost <= AvailableMoney(c.house)
           after == Ended(IF enough THEN Paid(next, cost) ELSE SteppedBack(next))
           m == c.balance - after.balance
<1>1. /\ Sound(c) /\ Holds(c) /\ ~ HasCompleted(c)
      /\ factory' = [factory EXCEPT ![f] = after]
      /\ Spend(c.house, m)
      /\ UNCHANGED << used, index, button, placing, events, outside, refused >>
      /\ f \in used
  BY DEF FactoryAI, IInv, FactoriesOK
<1>2. /\ c.house \in Houses /\ c.balance \in Nat
      /\ c.balance <= Price[c.object] /\ Price[c.object] \in Nat
  BY <1>1, Prices, SoundBalance DEF Sound, FactoryRecords, Holds
<1>3. cost \in 0..c.balance
  BY <1>1, <1>2, CostOfStep
<1>4. /\ Sound(after) /\ after.object = c.object /\ after.house = c.house
      /\ m = IF enough THEN cost ELSE 0
  BY <1>1, StepIsSound
<1> HIDE DEF after, cost
<1>5. m \in Nat /\ after.balance \in Nat
  BY <1>3, <1>4 DEF Sound, FactoryRecords
<1> HIDE DEF c
<1>6. factory'[f] = after /\ \A g \in Slots \ {f} : factory'[g] = factory[g]
  BY <1>1 DEF IInv, FactoriesOK
<1>7. PICK o \in Houses : o = c.house
  BY <1>2
<1>8. PaidBy(o, after) = PaidBy(o, c) + m
  BY <1>1, <1>2, <1>4, <1>5, <1>7 DEF PaidBy, Refund, Holds
<1>9. \A h \in Houses \ {o} : PaidBy(h, after) = 0 /\ PaidBy(h, c) = 0
  BY <1>4, <1>7 DEF PaidBy
<1> HIDE DEF m
<1>10. Wealth(o)' = Wealth(o) - m
  <2>1. /\ tiberium[o] \in Nat /\ credits[o] \in Nat
        /\ ore[o] \in Nat /\ gone[o] \in Nat
    BY DEF IInv, MoneyOK
  <2>2. /\ tiberium'[o] = IF m > tiberium[o] THEN 0 ELSE tiberium[o] - m
        /\ credits'[o] = IF m > tiberium[o] THEN credits[o] - (m - tiberium[o])
                                            ELSE credits[o]
        /\ ore'[o] = ore[o] /\ gone'[o] = gone[o]
    BY <1>1, <1>7 DEF Spend, IInv, MoneyOK
  <2> QED BY <1>5, <2>1, <2>2 DEF Wealth
<1>11. ASSUME NEW h \in Houses
       PROVE  Wealth(h)' + PaidBy(h, factory'[f]) = Wealth(h) + PaidBy(h, factory[f])
  <2>1. Wealth(h) \in Nat /\ PaidBy(h, c) \in Nat
    BY <1>1, PaidByIsNat, WealthIsNat DEF IInv
  <2>2. factory[f] = c
    BY DEF c
  <2>3. CASE h = o
    BY <1>5, <1>6, <1>8, <1>10, <2>1, <2>2, <2>3
  <2>4. CASE h # o
    <3>1. Wealth(h)' = Wealth(h)
      BY <1>1, <1>7, <2>4 DEF Spend, IInv, MoneyOK, Wealth
    <3> QED BY <1>6, <1>9, <2>1, <2>2, <2>4, <3>1
  <2> QED BY <2>3, <2>4
<1>12. BooksBalance'
  BY <1>6, <1>11, OneSlotBooks
<1>13. FreeHoldNothing(factory, used)'
  BY <1>1, <1>6 DEF Books, FreeHoldNothing
<1> QED BY <1>12, <1>13 DEF Books

(* A slot is emptied: the house is paid back, or has the object. *)
LEMMA SlotEmptied ==
  ASSUME IInv, IInv', Books, NEW f \in Slots,
         factory' = [factory EXCEPT ![f] = Blank], used' = used \ {f},
         \A h \in Houses : Wealth(h)' = Wealth(h) + PaidBy(h, factory[f])
  PROVE  Books'
<1>1. factory'[f] = Blank /\ \A g \in Slots \ {f} : factory'[g] = factory[g]
  BY DEF IInv, FactoriesOK
<1>2. \A h \in Houses : Wealth(h) \in Nat /\ PaidBy(h, factory[f]) \in Nat
  BY PaidByIsNat, WealthIsNat DEF IInv, FactoriesOK
<1>3. \A h \in Houses : Wealth(h)' + PaidBy(h, factory'[f]) = Wealth(h) + PaidBy(h, factory[f])
  BY <1>1, <1>2, BlankIsFree
<1>4. BooksBalance'
  BY <1>1, <1>3, OneSlotBooks
<1>5. FreeHoldNothing(factory, used)'
  BY <1>1, BlankIsSound DEF Books, FreeHoldNothing
<1> QED BY <1>4, <1>5 DEF Books

LEMMA PayBackPays ==
  ASSUME IInv, NEW c, Sound(c), PayBack(c)
  PROVE  \A h \in Houses : Wealth(h)' = Wealth(h) + PaidBy(h, c)
<1> SUFFICES ASSUME NEW h \in Houses PROVE Wealth(h)' = Wealth(h) + PaidBy(h, c)
  OBVIOUS
<1>1. /\ tiberium[h] \in Nat /\ credits[h] \in Nat /\ ore[h] \in Nat /\ gone[h] \in Nat
      /\ Refund(c) \in Nat
  BY RefundIsNat DEF IInv, MoneyOK
<1>2. credits'[h] = credits[h] + PaidBy(h, c)
  BY <1>1 DEF PayBack, PaidBy, IInv, MoneyOK
<1>3. PaidBy(h, c) \in Nat
  BY PaidByIsNat
<1> QED BY <1>1, <1>2, <1>3 DEF PayBack, Wealth

(* What leaves is paid for. *)
LEMMA GoneIsPaid ==
  ASSUME IInv, NEW c, Sound(c), HasCompleted(c),
         gone' = [gone EXCEPT ![c.house] = @ + Price[c.object]],
         UNCHANGED << credits, tiberium, capacity, ore >>
  PROVE  \A h \in Houses : Wealth(h)' = Wealth(h) + PaidBy(h, c)
<1> SUFFICES ASSUME NEW h \in Houses PROVE Wealth(h)' = Wealth(h) + PaidBy(h, c)
  OBVIOUS
<1>1. /\ Holds(c) /\ c.balance = 0 /\ Price[c.object] \in Nat
  BY Prices, SoundBalance DEF HasCompleted, Sound, FactoryRecords, Holds
<1>2. Refund(c) = Price[c.object]
  BY <1>1 DEF Refund
<1>3. /\ tiberium[h] \in Nat /\ credits[h] \in Nat /\ ore[h] \in Nat /\ gone[h] \in Nat
  BY DEF IInv, MoneyOK
<1>4. gone'[h] = gone[h] + PaidBy(h, c)
  BY <1>1, <1>2, <1>3 DEF PaidBy, IInv, MoneyOK
<1>5. PaidBy(h, c) \in Nat
  BY PaidByIsNat
<1> QED BY <1>3, <1>4, <1>5 DEF Wealth

(* An order put into a free slot of a heap costs nothing yet. *)
LEMMA SlotTaken ==
  ASSUME NEW facs, \A g \in Slots : Sound(facs[g]),
         NEW facs2, \A g \in Slots : Sound(facs2[g]),
         NEW use, FreeHoldNothing(facs, use),
         NEW f \in Slots \ use, \A g \in Slots \ {f} : facs2[g] = facs[g],
         NEW i \in Items, NEW o \in Houses, NEW available,
         facs2[f] = Started(Order(i, o), available)
  PROVE  /\ FreeHoldNothing(facs2, use \cup {f})
         /\ \A h \in Houses : InvestedIn(facs2, h) = InvestedIn(facs, h)
<1>1. FreeHoldNothing(facs2, use \cup {f})
  BY DEF FreeHoldNothing
<1>2. ASSUME NEW h \in Houses PROVE InvestedIn(facs2, h) = InvestedIn(facs, h)
  <2>1. PaidBy(h, facs[f]) = 0
    BY DEF FreeHoldNothing, PaidBy, Refund
  <2>2. PaidBy(h, facs2[f]) = 0
    <3> DEFINE c == Order(i, o)
    <3>1. Sound(c) /\ PaidBy(h, c) = 0
      BY OrderIsSound, OrderIsFree
    <3> HIDE DEF c
    <3>2. PaidBy(h, Started(c, available)) = 0
      BY <3>1, SwitchesAreFree
    <3> QED BY <3>2 DEF c
  <2>3. /\ InvestedIn(facs, h) \in Int
        /\ InvestedIn(facs2, h) = InvestedIn(facs, h) - PaidBy(h, facs[f]) + PaidBy(h, facs2[f])
    BY InvestedChange
  <2> QED BY <2>1, <2>2, <2>3
<1> QED BY <1>1, <1>2

LEMMA BeginProductionBooks ==
  ASSUME IInv, IInv', Books, NEW i \in Items, BeginProduction(i)
  PROVE  Books'
<1> DEFINE k == KindOf(i)
<1>1. k \in Kinds /\ "player" \in Houses
  BY DEF KindOf, Kinds, Houses
<1>2. UNCHANGED money /\ \A h \in Houses : Wealth(h)' = Wealth(h)
  BY DEF BeginProduction, money, Wealth
<1>3. OwnFactory(k) \in Slots \cup {NoSlot}
  BY <1>1 DEF IInv, HeapOK, OwnFactory
<1>4. CASE Restart(i)
  <2> DEFINE f == OwnFactory(k)
             c == Started(factory[f], AvailableMoney(factory[f].house))
  <2>1. f \in Slots /\ UNCHANGED used
    BY <1>3, <1>4 DEF Restart
  <2>2. Sound(factory[f])
    BY <2>1 DEF IInv, FactoriesOK
  <2>3. /\ c.object = factory[f].object
        /\ \A h \in Houses : PaidBy(h, c) = PaidBy(h, factory[f])
    BY <2>2, StartedIsSound, SwitchesAreFree
  <2>4. factory' = factory \/ factory' = [factory EXCEPT ![f] = c]
    BY <1>4 DEF Restart
  <2> HIDE DEF c
  <2>5. \A g \in Slots : factory'[g] = factory[g] \/ (g = f /\ factory'[g] = c)
    BY <2>1, <2>4 DEF IInv, FactoriesOK
  <2> HIDE DEF f
  <2> QED BY <1>2, <2>1, <2>3, <2>5, SameBooks
<1>5. CASE Begin(i)
  <2> DEFINE f == NewSlot(used)
             c == Started(Order(i, "player"), AvailableMoney("player"))
  <2>1. f \in Slots \ used
    BY <1>5, NewSlotIsFree DEF Begin, IInv, HeapOK
  <2>2. CASE factory' = [factory EXCEPT ![f] = c] /\ used' = used \cup {f}
    <3>1. factory'[f] = c /\ \A g \in Slots \ {f} : factory'[g] = factory[g]
      BY <2>1, <2>2 DEF IInv, FactoriesOK
    <3>2. \A g \in Slots : Sound(factory[g]) /\ Sound(factory'[g])
      BY DEF IInv, FactoriesOK
    <3>3. FreeHoldNothing(factory, used)
      BY DEF Books
    <3> HIDE DEF f
    <3>4. /\ FreeHoldNothing(factory', used \cup {f})
          /\ \A h \in Houses : InvestedIn(factory', h) = InvestedIn(factory, h)
      BY <1>1, <2>1, <3>1, <3>2, <3>3, SlotTaken
    <3>5. Balanced(factory)
      BY BooksAre DEF Books
    <3>6. Balanced(factory)'
      BY <1>2, <3>4, <3>5 DEF Balanced, InvestedIn
    <3>7. BooksBalance' <=> Balanced(factory)'
      BY BooksAre, PTL
    <3>8. FreeHoldNothing(factory, used)'
      BY <2>2, <3>4 DEF FreeHoldNothing
    <3> QED BY <3>6, <3>7, <3>8 DEF Books
  <2>3. CASE factory' = [factory EXCEPT ![f] = Blank] /\ UNCHANGED used
    <3>1. factory'[f] = Blank /\ \A g \in Slots \ {f} : factory'[g] = factory[g]
      BY <2>1, <2>3 DEF IInv, FactoriesOK
    <3>2. \A h \in Houses : PaidBy(h, factory[f]) = 0
      BY <2>1 DEF Books, FreeHoldNothing, PaidBy, Refund
    <3>3. \A h \in Houses : PaidBy(h, Blank) = 0
      BY BlankIsFree
    <3> HIDE DEF f
    <3>4. \A h \in Houses : Wealth(h)' + PaidBy(h, factory'[f]) = Wealth(h) + PaidBy(h, factory[f])
      BY <1>2, <3>1, <3>2, <3>3
    <3>5. BooksBalance'
      BY <2>1, <3>1, <3>4, OneSlotBooks
    <3>6. FreeHoldNothing(factory, used)'
      BY <2>3, <3>1, BlankIsSound DEF Books, FreeHoldNothing
    <3> QED BY <3>5, <3>6 DEF Books
  <2> QED BY <1>5, <2>2, <2>3 DEF Begin
<1>6. CASE PoolEmpty(i)
  BY <1>2, <1>6, MoneyMoves DEF PoolEmpty
<1> QED BY <1>4, <1>5, <1>6 DEF BeginProduction

LEMMA SuspendProductionBooks ==
  ASSUME IInv, IInv', Books, NEW k \in Kinds, SuspendProduction(k)
  PROVE  Books'
<1> DEFINE f == OwnFactory(k)
<1>1. UNCHANGED used /\ \A h \in Houses : Wealth(h)' = Wealth(h)
  BY DEF SuspendProduction, money, Wealth
<1>2. f \in Slots \cup {NoSlot}
  BY DEF IInv, HeapOK, OwnFactory, Houses
<1>3. CASE UNCHANGED factory
  BY <1>1, <1>3, MoneyMoves
<1>4. CASE f # NoSlot /\ factory' = [factory EXCEPT ![f] = Suspended(@)]
  <2>1. f \in Slots /\ Sound(factory[f])
    BY <1>2, <1>4 DEF IInv, FactoriesOK
  <2>2. /\ Suspended(factory[f]).object = factory[f].object
        /\ \A h \in Houses : PaidBy(h, Suspended(factory[f])) = PaidBy(h, factory[f])
    BY <2>1, SuspendedIsSound, SwitchesAreFree
  <2>3. \A g \in Slots : factory'[g] = IF g = f THEN Suspended(factory[f]) ELSE factory[g]
    BY <1>4, <2>1 DEF IInv, FactoriesOK
  <2> HIDE DEF f
  <2> QED BY <1>1, <2>1, <2>2, <2>3, SameBooks
<1> QED BY <1>3, <1>4 DEF SuspendProduction

LEMMA AbandonProductionBooks ==
  ASSUME IInv, IInv', Books, NEW k \in Kinds, AbandonProduction(k)
  PROVE  Books'
<1> DEFINE f == OwnFactory(k)
<1>1. f \in Slots \cup {NoSlot}
  BY DEF IInv, HeapOK, OwnFactory, Houses
<1>2. CASE UNCHANGED << factory, used, money >>
  BY <1>2, MoneyMoves DEF money, Wealth
<1>3. CASE f # NoSlot /\ Dismiss(k) /\ PayBack(factory[f])
  <2>1. f \in Slots /\ Sound(factory[f])
    BY <1>1, <1>3 DEF IInv, FactoriesOK
  <2>2. \A h \in Houses : Wealth(h)' = Wealth(h) + PaidBy(h, factory[f])
    BY <1>3, <2>1, PayBackPays
  <2>3. factory' = [factory EXCEPT ![f] = Blank] /\ used' = used \ {f}
    BY <1>3 DEF Dismiss
  <2> QED BY <2>1, <2>2, <2>3, SlotEmptied
<1> QED BY <1>2, <1>3 DEF AbandonProduction

LEMMA PlaceObjectBooks ==
  ASSUME IInv, IInv', Books, NEW k \in Kinds, PlaceObject(k)
  PROVE  Books'
<1> DEFINE f == OwnFactory(k)
<1>1. f \in Slots \cup {NoSlot}
  BY DEF IInv, HeapOK, OwnFactory, Houses
<1>2. CASE UNCHANGED << factory, used, money >>
  BY <1>2, MoneyMoves DEF money, Wealth
<1>3. CASE Placeable(f) /\ Leaves(k, factory[f])
  <2>1. f \in Slots /\ Sound(factory[f]) /\ HasCompleted(factory[f])
    BY <1>1, <1>3 DEF Placeable, IInv, FactoriesOK
  <2>2. \A h \in Houses : Wealth(h)' = Wealth(h) + PaidBy(h, factory[f])
    BY <1>3, <2>1, GoneIsPaid DEF Leaves
  <2>3. factory' = [factory EXCEPT ![f] = Blank] /\ used' = used \ {f}
    BY <1>3 DEF Leaves, Dismiss
  <2> QED BY <2>1, <2>2, <2>3, SlotEmptied
<1> QED BY <1>2, <1>3 DEF PlaceObject

LEMMA ExecuteEventBooks == IInv /\ IInv' /\ Books /\ ExecuteEvent => Books'
<1> SUFFICES ASSUME IInv, IInv', Books, ExecuteEvent PROVE Books'
  OBVIOUS
<1> DEFINE e == Head(events)
<1>1. e \in Orders
  BY DEF ExecuteEvent, IInv, EventsOK
<1> HIDE DEF e
<1>2. \/ e.what = "PRODUCE" /\ BeginProduction(e.on)
      \/ e.what = "SUSPEND" /\ SuspendProduction(e.on)
      \/ e.what = "ABANDON" /\ AbandonProduction(e.on)
      \/ e.what = "PLACE" /\ PlaceObject(e.on)
  BY DEF ExecuteEvent, e
<1>3. /\ e.what = "PRODUCE" => e.on \in Items
      /\ e.what # "PRODUCE" => e.on \in Kinds
  BY <1>1 DEF Orders
<1> QED BY <1>2, <1>3, BeginProductionBooks, SuspendProductionBooks,
           AbandonProductionBooks, PlaceObjectBooks

LEMMA AnnounceBooks ==
  ASSUME IInv, IInv', Books, NEW i \in Items, Announce(i)
  PROVE  Books'
<1> DEFINE f == button[i]
<1>1. f \in Slots /\ UNCHANGED << used, money >>
  BY DEF Announce, IInv, HeapOK
<1>2. Sound(factory[f])
  BY <1>1 DEF IInv, FactoriesOK
<1>3. factory' = [factory EXCEPT ![f] = [factory[f] EXCEPT !.fresh = FALSE]]
  BY DEF Announce
<1>4. \A g \in Slots : factory'[g] = IF g = f THEN [factory[f] EXCEPT !.fresh = FALSE]
                                              ELSE factory[g]
  BY <1>1, <1>3 DEF IInv, FactoriesOK
<1>5. /\ [factory[f] EXCEPT !.fresh = FALSE].object = factory[f].object
      /\ \A h \in Houses : PaidBy(h, [factory[f] EXCEPT !.fresh = FALSE]) = PaidBy(h, factory[f])
  BY <1>2, AskedIsSound, SwitchesAreFree
<1>6. \A h \in Houses : Wealth(h)' = Wealth(h)
  BY <1>1 DEF money, Wealth
<1> HIDE DEF f
<1> QED BY <1>1, <1>4, <1>5, <1>6, SameBooks

(* What the computer starts next costs nothing yet. *)
LEMMA StartAnotherBooks ==
  ASSUME IInv, IInv', NEW k \in Kinds, NEW facs, NEW use \in SUBSET Slots, NEW available,
         facs \in [Slots -> FactoryRecords], \A g \in Slots : Sound(facs[g]),
         FreeHoldNothing(facs, use), StartAnother(k, facs, use, available)
  PROVE  /\ FreeHoldNothing(factory', used')
         /\ \A h \in Houses : InvestedIn(factory', h) = InvestedIn(facs, h)
<1> DEFINE f == NewSlot(use)
<1>1. CASE factory' = facs /\ used' = use
  BY <1>1
<1>2. ASSUME NEW i \in {j \in ComputerItems : KindOf(j) = k},
             use # Slots,
             factory' = [facs EXCEPT ![f] = Started(Order(i, "computer"), available)],
             used' = use \cup {f}
      PROVE  /\ FreeHoldNothing(factory', used')
             /\ \A h \in Houses : InvestedIn(factory', h) = InvestedIn(facs, h)
  <2>1. f \in Slots \ use
    BY <1>2, NewSlotIsFree
  <2>2. i \in Items /\ "computer" \in Houses
    BY ProductionAssumption DEF Houses
  <2>3. /\ factory'[f] = Started(Order(i, "computer"), available)
        /\ \A g \in Slots \ {f} : factory'[g] = facs[g]
    BY <1>2, <2>1
  <2>4. \A g \in Slots : Sound(factory'[g])
    BY DEF IInv, FactoriesOK
  <2>5. used' = use \cup {f}
    BY <1>2
  <2> HIDE DEF f
  <2>6. /\ FreeHoldNothing(factory', use \cup {f})
        /\ \A h \in Houses : InvestedIn(factory', h) = InvestedIn(facs, h)
    BY <2>1, <2>2, <2>3, <2>4, SlotTaken
  <2> QED BY <2>5, <2>6
<1> QED BY <1>1, <1>2 DEF StartAnother

LEMMA ComputerExitBooks ==
  ASSUME IInv, IInv', Books, NEW k \in Kinds, ComputerExit(k)
  PROVE  Books'
<1> DEFINE f == ComputerFactory(k)
           freed == [factory EXCEPT ![f] = Blank]
<1>1. f # NoSlot /\ HasCompleted(factory[f])
  BY DEF ComputerExit
<1>2. f \in Slots
  BY <1>1 DEF IInv, HeapOK, ComputerFactory, Houses
<1>3. Sound(factory[f]) /\ \A g \in Slots : Sound(factory[g])
  BY <1>2 DEF IInv, FactoriesOK
<1>4. /\ freed[f] = Blank /\ \A g \in Slots \ {f} : freed[g] = factory[g]
      /\ freed \in [Slots -> FactoryRecords]
  BY <1>2, BlankIsSound DEF IInv, FactoriesOK, Sound
<1>5. used \ {f} \in SUBSET Slots
  BY DEF IInv, HeapOK
<1>6. /\ \A h \in Houses : Wealth(h)' = Wealth(h) + PaidBy(h, factory[f])
      /\ \E available : StartAnother(k, freed, used \ {f}, available)
  <2>1. CASE /\ PayBack(factory[f])
             /\ StartAnother(k, freed, used \ {f}, AvailableMoney("computer")')
    BY <1>3, <2>1, PayBackPays
  <2>2. CASE /\ gone' = [gone EXCEPT ![factory[f].house] = @ + Price[factory[f].object]]
             /\ StartAnother(k, freed, used \ {f}, AvailableMoney("computer"))
             /\ UNCHANGED << credits, tiberium, capacity, ore >>
    BY <1>1, <1>3, <2>2, GoneIsPaid
  <2> QED BY <2>1, <2>2 DEF ComputerExit
<1> HIDE DEF freed, f
<1>7. PICK available : StartAnother(k, freed, used \ {f}, available)
  BY <1>6
<1>8. \A g \in Slots : Sound(freed[g])
  BY <1>3, <1>4, BlankIsSound
<1>9. FreeHoldNothing(freed, used \ {f})
  BY <1>4, BlankIsSound DEF Books, FreeHoldNothing
<1>10. /\ FreeHoldNothing(factory', used')
       /\ \A h \in Houses : InvestedIn(factory', h) = InvestedIn(freed, h)
  BY <1>4, <1>5, <1>7, <1>8, <1>9, StartAnotherBooks
<1>11. ASSUME NEW h \in Houses
       PROVE  Wealth(h)' + InvestedIn(factory', h) = Wealth(h) + InvestedIn(factory, h)
  <2>1. /\ InvestedIn(factory, h) \in Int
        /\ InvestedIn(freed, h)
             = InvestedIn(factory, h) - PaidBy(h, factory[f]) + PaidBy(h, freed[f])
    BY <1>2, <1>3, <1>4, <1>8, InvestedChange
  <2>2. PaidBy(h, freed[f]) = 0
    BY <1>4, BlankIsFree
  <2>3. PaidBy(h, factory[f]) \in Nat /\ Wealth(h) \in Nat
    BY <1>3, PaidByIsNat, WealthIsNat DEF IInv
  <2> QED BY <1>6, <1>10, <2>1, <2>2, <2>3
<1>12. Balanced(factory)
  BY BooksAre DEF Books
<1>13. Balanced(factory)'
  BY <1>11, <1>12 DEF Balanced, InvestedIn
<1>14. BooksBalance' <=> Balanced(factory)'
  BY BooksAre, PTL
<1>15. FreeHoldNothing(factory, used)'
  BY <1>10 DEF FreeHoldNothing
<1> QED BY <1>13, <1>14, <1>15 DEF Books

LEMMA ComputerBeginBooks ==
  ASSUME IInv, IInv', Books, NEW k \in Kinds, ComputerBegin(k)
  PROVE  Books'
<1>1. /\ StartAnother(k, factory, used, AvailableMoney("computer"))
      /\ \A h \in Houses : Wealth(h)' = Wealth(h)
  BY DEF ComputerBegin, money, Wealth
<1>2. /\ factory \in [Slots -> FactoryRecords] /\ \A g \in Slots : Sound(factory[g])
      /\ used \in SUBSET Slots
  BY DEF IInv, FactoriesOK, HeapOK
<1>3. /\ FreeHoldNothing(factory', used')
      /\ \A h \in Houses : InvestedIn(factory', h) = InvestedIn(factory, h)
  BY <1>1, <1>2, StartAnotherBooks DEF Books
<1>4. Balanced(factory)
  BY BooksAre DEF Books
<1>5. Balanced(factory)'
  BY <1>1, <1>3, <1>4 DEF Balanced, InvestedIn
<1>6. BooksBalance' <=> Balanced(factory)'
  BY BooksAre, PTL
<1>7. FreeHoldNothing(factory, used)'
  BY <1>3 DEF FreeHoldNothing
<1> QED BY <1>5, <1>6, <1>7 DEF Books

LEMMA ComputerAbortBooks ==
  ASSUME IInv, IInv', Books, NEW k \in Kinds, ComputerAbort(k)
  PROVE  Books'
<1> DEFINE f == ComputerFactory(k)
<1>1. /\ f # NoSlot /\ PayBack(factory[f])
      /\ factory' = [factory EXCEPT ![f] = Blank] /\ used' = used \ {f}
  BY DEF ComputerAbort
<1>2. f \in Slots
  BY <1>1 DEF IInv, HeapOK, ComputerFactory, Houses
<1>3. Sound(factory[f])
  BY <1>2 DEF IInv, FactoriesOK
<1>4. \A h \in Houses : Wealth(h)' = Wealth(h) + PaidBy(h, factory[f])
  BY <1>1, <1>3, PayBackPays
<1> QED BY <1>1, <1>2, <1>4, SlotEmptied

LEMMA LosePlantBooks ==
  ASSUME IInv, IInv', Books, NEW h \in Houses, NEW k \in Kinds, LosePlant(h, k)
  PROVE  Books'
<1> DEFINE f == index[h][k]
<1>1. f \in Slots \cup {NoSlot}
  BY DEF IInv, HeapOK
<1>2. CASE UNCHANGED << factory, used, money >>
  BY <1>2, MoneyMoves DEF money, Wealth
<1>3. CASE /\ f # NoSlot /\ PayBack(factory[f])
           /\ factory' = [factory EXCEPT ![f] = Blank] /\ used' = used \ {f}
  <2>1. f \in Slots /\ Sound(factory[f])
    BY <1>1, <1>3 DEF IInv, FactoriesOK
  <2>2. \A o \in Houses : Wealth(o)' = Wealth(o) + PaidBy(o, factory[f])
    BY <1>3, <2>1, PayBackPays
  <2> QED BY <1>3, <2>1, <2>2, SlotEmptied
<1>4. CASE h = "player"
  BY <1>2, <1>3, <1>4 DEF LosePlant, Dismiss, OwnFactory
<1>5. CASE h # "player"
  BY <1>2, <1>3, <1>5 DEF LosePlant
<1> QED BY <1>4, <1>5

LEMMA HarvestedBooks ==
  ASSUME IInv, IInv', Books, NEW h \in Houses, NEW n \in Nat, Harvested(h, n)
  PROVE  Books'
<1>1. /\ tiberium[h] \in Nat /\ capacity[h] \in Nat /\ ore[h] \in Nat
      /\ gone[h] \in Nat /\ credits[h] \in Nat /\ n <= ore[h]
  BY DEF Harvested, IInv, MoneyOK
<1>2. /\ ore'[h] = ore[h] - n
      /\ tiberium'[h] = Min({tiberium[h] + n, capacity[h]})
      /\ gone'[h] = gone[h] + Max({0, tiberium[h] + n - capacity[h]})
      /\ credits'[h] = credits[h]
  BY DEF Harvested, IInv, MoneyOK
<1>3. Min({tiberium[h] + n, capacity[h]})
        = IF tiberium[h] + n <= capacity[h] THEN tiberium[h] + n ELSE capacity[h]
  BY <1>1, MinOfTwo
<1>4. Max({0, tiberium[h] + n - capacity[h]})
        = IF 0 >= tiberium[h] + n - capacity[h] THEN 0 ELSE tiberium[h] + n - capacity[h]
  BY <1>1, MaxOfTwo
<1>5. Wealth(h)' = Wealth(h)
  BY <1>1, <1>2, <1>3, <1>4 DEF Wealth
<1>6. \A o \in Houses \ {h} : Wealth(o)' = Wealth(o)
  BY DEF Harvested, IInv, MoneyOK, Wealth
<1> QED BY <1>5, <1>6, MoneyMoves DEF Harvested

LEMMA LoseSiloBooks ==
  ASSUME IInv, IInv', Books, NEW h \in Houses, NEW inanger \in BOOLEAN, LoseSilo(h, inanger)
  PROVE  Books'
<1> DEFINE excess == Max({0, tiberium[h] - Max({0, capacity[h] - Silo[h]})})
<1>1. /\ tiberium[h] \in Nat /\ capacity[h] \in Nat /\ ore[h] \in Nat
      /\ gone[h] \in Nat /\ credits[h] \in Nat /\ Silo[h] \in Nat
  BY ProductionAssumption DEF IInv, MoneyOK
<1>2. excess \in Nat
  BY <1>1, MaxOfTwo
<1>3. /\ tiberium' = [tiberium EXCEPT ![h] = @ - excess]
      /\ credits' = [credits EXCEPT ![h] = IF inanger THEN @ ELSE @ + excess]
      /\ gone' = [gone EXCEPT ![h] = IF inanger THEN @ + excess ELSE @]
      /\ UNCHANGED << ore, factory, used >>
  BY DEF LoseSilo
<1> HIDE DEF excess
<1>4. Wealth(h)' = Wealth(h)
  BY <1>1, <1>2, <1>3 DEF Wealth, IInv, MoneyOK
<1>5. \A o \in Houses \ {h} : Wealth(o)' = Wealth(o)
  BY <1>3 DEF IInv, MoneyOK, Wealth
<1> QED BY <1>3, <1>4, <1>5, MoneyMoves

LEMMA NextBooks == IInv /\ IInv' /\ Books /\ [Next]_vars => Books'
<1> SUFFICES ASSUME IInv, IInv', Books, [Next]_vars PROVE Books'
  OBVIOUS
<1>1. ASSUME NEW f \in Slots, FactoryAI(f) PROVE Books'
  BY <1>1, FactoryAIBooks
<1>2. CASE ExecuteEvent
  BY <1>2, ExecuteEventBooks
<1>3. CASE UNCHANGED << factory, used, money >>
  BY <1>3, MoneyMoves DEF money, Wealth
<1>4. ASSUME NEW i \in Items, LeftClick(i) \/ RightClick(i) \/ Announce(i)
      PROVE  Books'
  <2>1. CASE Announce(i)
    BY <2>1, AnnounceBooks
  <2>2. CASE LeftClick(i)
    BY <1>3, <2>2 DEF LeftClick
  <2>3. CASE RightClick(i)
    BY <1>3, <2>3 DEF RightClick
  <2> QED BY <1>4, <2>1, <2>2, <2>3
<1>5. CASE ClickMap \/ CancelPlacing
  BY <1>3, <1>5 DEF ClickMap, CancelPlacing
<1>6. ASSUME NEW k \in Kinds,
             ComputerExit(k) \/ ComputerAbort(k) \/ ComputerBegin(k) \/ Destroyed(k)
      PROVE  Books'
  <2>1. CASE Destroyed(k)
    BY <1>3, <2>1 DEF Destroyed
  <2> QED BY <1>6, <2>1, ComputerExitBooks, ComputerAbortBooks, ComputerBeginBooks
<1>7. CASE DoorCloses
  BY <1>3, <1>7 DEF DoorCloses
<1>8. ASSUME NEW h \in Houses, NEW k \in Kinds,
             ContactEnds(h, k) \/ LosePlant(h, k) \/ GainPlant(h, k)
      PROVE  Books'
  <2>1. CASE ContactEnds(h, k) \/ GainPlant(h, k)
    BY <1>3, <2>1 DEF ContactEnds, GainPlant
  <2> QED BY <1>8, <2>1, LosePlantBooks
<1>9. ASSUME NEW h \in Houses, NEW n \in 1..Ore[h], Harvested(h, n)
      PROVE  Books'
  <2>1. n \in Nat
    BY <1>9, ProductionAssumption
  <2> QED BY <1>9, <2>1, HarvestedBooks
<1>10. ASSUME NEW h \in Houses, NEW inanger \in BOOLEAN, LoseSilo(h, inanger)
      PROVE  Books'
  BY <1>10, LoseSiloBooks
<1>11. CASE UNCHANGED vars
  BY <1>3, <1>11 DEF vars
<1> QED BY <1>1, <1>2, <1>4, <1>5, <1>6, <1>7, <1>8, <1>9, <1>10, <1>11 DEF Next

-----------------------------------------------------------------------------
(* The theorems *)

LEMMA NextIInv == IInv /\ [Next]_vars => IInv'
<1> SUFFICES ASSUME IInv, [Next]_vars PROVE IInv'
  OBVIOUS
<1>1. ASSUME NEW f \in Slots, FactoryAI(f) PROVE IInv'
  BY <1>1, FactoryAIIInv
<1>2. CASE ExecuteEvent
  BY <1>2, ExecuteEventIInv
<1>3. ASSUME NEW i \in Items, LeftClick(i) \/ RightClick(i) \/ Announce(i)
      PROVE  IInv'
  BY <1>3, LeftClickIInv, RightClickIInv, AnnounceIInv
<1>4. CASE ClickMap \/ CancelPlacing
  BY <1>4, MapClicksIInv
<1>5. ASSUME NEW k \in Kinds,
             ComputerExit(k) \/ ComputerAbort(k) \/ ComputerBegin(k) \/ Destroyed(k)
      PROVE  IInv'
  BY <1>5, ComputerExitIInv, ComputerAbortIInv, ComputerBeginIInv, DestroyedIInv
<1>6. CASE DoorCloses
  BY <1>6, DoorClosesIInv
<1>7. ASSUME NEW h \in Houses, NEW k \in Kinds,
             ContactEnds(h, k) \/ LosePlant(h, k) \/ GainPlant(h, k)
      PROVE  IInv'
  BY <1>7, ContactEndsIInv, LosePlantIInv
<1>8. ASSUME NEW h \in Houses, NEW n \in 1..Ore[h], Harvested(h, n)
      PROVE  IInv'
  <2>1. n \in Nat
    BY <1>8, ProductionAssumption
  <2> QED BY <1>8, <2>1, HarvestedIInv
<1>9. ASSUME NEW h \in Houses, NEW inanger \in BOOLEAN, LoseSilo(h, inanger)
      PROVE  IInv'
  BY <1>9, LoseSiloIInv
<1>10. CASE UNCHANGED vars
  <2>1. UNCHANGED << factory, used, index, button, placing, events, refused >>
        /\ MoneyOK' /\ OutsideOK'
    BY <1>10 DEF vars, money, outside, IInv, MoneyOK, OutsideOK
  <2> QED BY <2>1, AroundKeeps
<1> QED BY <1>1, <1>2, <1>3, <1>4, <1>5, <1>6, <1>7, <1>8, <1>9, <1>10 DEF Next

LEMMA Inductive == Spec => []IInv
BY InitIInv, NextIInv, PTL DEF Spec

(* Every variable keeps its type: in particular a factory's stage never     *)
(* passes the last one and the slots that houses and buttons refer to       *)
(* always exist.                                                            *)
THEOREM TypesHold == Spec => []TypeOK
BY Inductive, IInvImplies, PTL

(* FactoryClass::Start and AI look at the money of a house before they take *)
(* it: however many factories draw on it at once, no house is ever in debt. *)
THEOREM NoHouseInDebt == Spec => []NoDebt
BY Inductive, IInvImplies, PTL

(* Whatever the price and the number of steps, and whatever was held, taken *)
(* back for want of money and resumed on the way: what is still due for an  *)
(* object is what Cost_Per_Tick's instalments from its stage on come to, so *)
(* that all of the price is asked for in time, and none at the last step.   *)
THEOREM BalanceAlwaysFollowsStage == Spec => []BalanceFollowsStage
BY Inductive, IInvImplies, PTL

(* As long as every object could be created, the slot a house or a          *)
(* computer's building remembers is allocated, works for it, on an object   *)
(* of that kind: slots that are freed and taken again are never mixed up.   *)
THEOREM FactoriesAreOwn == Spec => []OwnFactoriesWithRoom
BY Inductive, PTL DEF IInv

(* Whatever is ordered, halted, abandoned, placed, lost, sold or harvested, *)
(* in whatever order and however the slots of the heap are used again, a    *)
(* house's credits, its tiberium, what it has paid into its factories, what *)
(* is not harvested yet and what it was given for its money always add up.  *)
THEOREM BooksAlwaysBalance == Spec => []BooksBalance
<1>1. Books => BooksBalance
  BY DEF Books
<1> QED BY <1>1, Inductive, InitBooks, NextBooks, PTL DEF Spec
=============================================================================
