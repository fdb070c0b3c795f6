---------------------------- MODULE SweepScanProofs ----------------------------
(***************************************************************************)
(* Proofs about SweepScan, for every cap and every length of the list:     *)
(* each place is on a page, and as many quanta in a row as there are pages *)
(* show every page.                                                        *)
(***************************************************************************)
EXTENDS SweepScan, Integers, TLAPS

\* The remainder of a division, by its quotient.
LEMMA Division ==
  ASSUME NEW a \in Int, NEW c \in Nat \ {0}
  PROVE  a \div c \in Int /\ a % c = a - c * (a \div c) /\ a % c \in 0 .. c - 1
<1>1. a \div c \in Int BY Z3
<1>2. a % c \in 0 .. c - 1 BY Z3
<1>3. a % c = a - c * (a \div c) BY Z3
<1>. QED BY <1>1, <1>2, <1>3

\* There is only one remainder.
LEMMA Remainder ==
  ASSUME NEW c \in Nat \ {0}, NEW a \in Int, NEW q \in Int, NEW r \in 0 .. c - 1,
         a = c * q + r
  PROVE  a % c = r
BY Z3

\* A multiple of the modulus does not change a remainder.
LEMMA ModShift ==
  ASSUME NEW p \in Nat \ {0}, NEW x \in Int, NEW j \in Int
  PROVE  (x + p * j) % p = x % p
<1>. DEFINE d == x \div p
            r == x % p
<1>1. d \in Int /\ r = x - p * d /\ r \in 0 .. p - 1 BY Division
<1>. HIDE DEF d, r
<1>2. p * (d + j) = p * d + p * j BY <1>1
<1>3. p * d \in Int /\ p * j \in Int /\ d + j \in Int BY <1>1
<1>4. x + p * j = p * (d + j) + r /\ x + p * j \in Int BY <1>1, <1>2, <1>3
<1>5. \A a, e \in Int : a = p * e + r => a % p = r BY <1>1, Remainder
<1>6. (x + p * j) % p = r BY <1>3, <1>4, <1>5
<1>. QED BY <1>6 DEF r

\* Counting modulo a multiple of p changes no remainder modulo p.
LEMMA ModOfMod ==
  ASSUME NEW p \in Nat \ {0}, NEW c \in Nat \ {0}, c % p = 0, NEW x \in Int, NEW k \in Int
  PROVE  ((x % c) - k) % p = (x - k) % p
<1>. DEFINE m == c \div p
            d == x \div c
            r == x % c
<1>1. m \in Int /\ c = p * m
  <2>1. m \in Int /\ c % p = c - p * m BY Division
  <2>2. p * m \in Int BY <2>1
  <2>. HIDE DEF m
  <2>. QED BY <2>1, <2>2
<1>2. d \in Int /\ r = x - c * d /\ r \in Int BY Division
<1>. HIDE DEF m, d, r
<1>3. c * d = (p * m) * d BY <1>1
<1>4. (p * m) * d = p * (m * d) BY <1>1, <1>2, Z3
<1>5. m * d \in Int BY <1>1, <1>2
<1>6. p * (m * d) \in Int BY <1>5
<1>7. x - k = (r - k) + p * (m * d)
  <2>. DEFINE y == p * (m * d)
  <2>1. y \in Int /\ r = x - y BY <1>2, <1>3, <1>4, <1>6
  <2>. HIDE DEF y
  <2>2. x - k = (r - k) + y BY <1>2, <2>1
  <2>. QED BY <2>2 DEF y
<1>8. r - k \in Int BY <1>2
<1>9. ((r - k) + p * (m * d)) % p = (r - k) % p BY <1>5, <1>8, ModShift
<1>. QED BY <1>7, <1>9 DEF r

\* Among p quanta in a row, one has any given remainder.
LEMMA SomeQuantum ==
  ASSUME NEW p \in Nat \ {0}, NEW quantum \in Nat, NEW q \in Nat, q < p
  PROVE  \E k \in 0 .. p - 1 : (quantum - k) % p = q
<1>. DEFINE k == (quantum - q) % p
            d == (quantum - q) \div p
<1>0. quantum - q \in Int OBVIOUS
<1>1. k \in 0 .. p - 1 /\ d \in Int /\ k = (quantum - q) - p * d BY <1>0, Division
<1>. HIDE DEF k, d
<1>2. p * d \in Int BY <1>1
<1>3. quantum - k = p * d + q BY <1>1, <1>2
<1>4. (quantum - k) % p = q BY <1>1, <1>3, Remainder
<1>. QED BY <1>1, <1>4

\* The number of pages is the least that holds the list.
LEMMA PagesHold ==
  ASSUME NEW n \in Nat
  PROVE  Pages(n) \in Nat \ {0} /\ n <= SWEEP_CAP * Pages(n)
<1>. DEFINE a == n + SWEEP_CAP - 1
            q == a \div SWEEP_CAP
            r == a % SWEEP_CAP
<1>1. r = n + SWEEP_CAP - 1 - SWEEP_CAP * q /\ q \in Int /\ r \in 0 .. SWEEP_CAP - 1
  <2>1. a \in Int BY CapAssumption
  <2>. HIDE DEF a
  <2>2. r = a - SWEEP_CAP * q /\ q \in Int /\ r \in 0 .. SWEEP_CAP - 1
    BY <2>1, Division, CapAssumption
  <2>. HIDE DEF q, r
  <2>. QED BY <2>2, CapAssumption DEF a
<1>. HIDE DEF q, r
<1>2. SWEEP_CAP * q \in Int /\ n <= SWEEP_CAP * q BY <1>1, CapAssumption
<1>3. n > 0 => q > 0
  <2>. SUFFICES ASSUME n > 0, q <= 0 PROVE FALSE BY <1>1
  <2>1. SWEEP_CAP * q <= 0 BY <1>1, CapAssumption, Z3
  <2>. QED BY <1>2, <2>1
<1>4. CASE n = 0 BY <1>4, CapAssumption DEF Pages
<1>5. CASE n > 0 BY <1>1, <1>2, <1>3, <1>5 DEF Pages, q
<1>. QED BY <1>4, <1>5

\* The page shown is the quantum modulo the pages.
LEMMA RotationIsMod ==
  ASSUME NEW n \in Nat, NEW quantum \in Int
  PROVE  Rotation(n, quantum) = quantum % Pages(n)
<1>1. Pages(n) \in Nat \ {0} BY PagesHold
<1>2. CASE Pages(n) = 1 BY <1>2 DEF Rotation
<1>3. CASE Pages(n) # 1 BY <1>3 DEF Rotation
<1>. QED BY <1>2, <1>3

\* Every place of the list is on the page of some quantum.
LEMMA PlaceHasPage ==
  ASSUME NEW n \in Nat, NEW i \in Nat, i < n
  PROVE  \E q \in Nat : /\ q < Pages(n)
                        /\ q * SWEEP_CAP <= i /\ i < (q + 1) * SWEEP_CAP
<1>. DEFINE q == i \div SWEEP_CAP
            r == i % SWEEP_CAP
<1>0. i \in Int OBVIOUS
<1>1. r = i - SWEEP_CAP * q /\ q \in Int /\ r \in 0 .. SWEEP_CAP - 1
  BY <1>0, Division, CapAssumption
<1>. HIDE DEF q, r
<1>2. q >= 0
  <2>. SUFFICES ASSUME q <= -1 PROVE FALSE BY <1>1
  <2>1. SWEEP_CAP * q <= -SWEEP_CAP BY <1>1, CapAssumption, Z3
  <2>. QED BY <1>1, <2>1, CapAssumption
<1>3. q < Pages(n)
  <2>1. Pages(n) \in Nat /\ n <= SWEEP_CAP * Pages(n) BY PagesHold
  <2>. SUFFICES ASSUME Pages(n) <= q PROVE FALSE BY <1>1, <2>1
  <2>2. SWEEP_CAP * Pages(n) <= SWEEP_CAP * q BY <1>1, <2>1, CapAssumption, Z3
  <2>. QED BY <1>1, <2>1, <2>2, CapAssumption
<1>4. q * SWEEP_CAP = SWEEP_CAP * q /\ (q + 1) * SWEEP_CAP = SWEEP_CAP * q + SWEEP_CAP
  BY <1>1, CapAssumption
<1>. QED BY <1>1, <1>2, <1>3, <1>4, CapAssumption

\* As many quanta in a row as there are pages show every place of a list that stands.
THEOREM EveryPlaceIsShown ==
  ASSUME NEW n \in Nat, NEW i \in Nat, i < n, NEW quantum \in Nat
  PROVE  \E k \in 0 .. Pages(n) - 1 : InWindow(i, n, quantum - k)
<1>1. PICK q \in Nat : /\ q < Pages(n)
                       /\ q * SWEEP_CAP <= i /\ i < (q + 1) * SWEEP_CAP
  BY PlaceHasPage
<1>2. Pages(n) \in Nat \ {0} BY PagesHold
<1>3. PICK k \in 0 .. Pages(n) - 1 : (quantum - k) % Pages(n) = q
  BY <1>1, <1>2, SomeQuantum
<1>4. Rotation(n, quantum - k) = q BY <1>2, <1>3, RotationIsMod
<1>. QED BY <1>1, <1>3, <1>4 DEF InWindow

\* Counting the quanta modulo a multiple of the pages changes no window.
LEMMA WindowOfMod ==
  ASSUME NEW n \in Nat, NEW i \in Nat, NEW c \in Nat \ {0}, c % Pages(n) = 0,
         NEW x \in Int, NEW k \in Int
  PROVE  InWindow(i, n, (x % c) - k) <=> InWindow(i, n, x - k)
<1>1. Pages(n) \in Nat \ {0} BY PagesHold
<1>2. ((x % c) - k) % Pages(n) = (x - k) % Pages(n) BY <1>1, ModOfMod
<1>3. x % c \in Int BY Division
<1>4. Rotation(n, (x % c) - k) = Rotation(n, x - k) BY <1>2, <1>3, RotationIsMod
<1>. QED BY <1>4 DEF InWindow

\* One more quantum that shows another page.
LEMMA NextQuantum ==
  ASSUME NEW n \in Nat, NEW i \in Nat, NEW c \in Nat \ {0}, c % Pages(n) = 0,
         NEW quantum \in Nat, NEW ticks \in 0 .. 1, NEW next \in Int,
         next = (quantum + ticks) % c, NEW waited \in Nat,
         \A k \in 0 .. waited - 1 : ~InWindow(i, n, quantum - k), ~InWindow(i, n, next)
  PROVE  \A k \in 0 .. waited + ticks - 1 : ~InWindow(i, n, next - k)
<1>. SUFFICES ASSUME NEW k \in 0 .. waited + ticks - 1 PROVE ~InWindow(i, n, next - k)
  OBVIOUS
<1>1. CASE k = 0
  <2>1. next - k = next BY <1>1
  <2>. QED BY <2>1
<1>2. CASE k # 0
  <2>. DEFINE x == quantum + ticks
  <2>1. x \in Int /\ k \in Int OBVIOUS
  <2>2. next = x % c OBVIOUS
  <2>3. k - ticks \in 0 .. waited - 1 /\ x - k = quantum - (k - ticks) BY <1>2
  <2>. HIDE DEF x
  <2>4. InWindow(i, n, (x % c) - k) <=> InWindow(i, n, x - k) BY <2>1, WindowOfMod
  <2>5. ~InWindow(i, n, quantum - (k - ticks)) BY <2>3
  <2>. QED BY <2>2, <2>3, <2>4, <2>5
<1>. QED BY <1>1, <1>2
=============================================================================
