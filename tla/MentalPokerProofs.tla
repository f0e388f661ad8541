------------------------- MODULE MentalPokerProofs -------------------------
(***************************************************************************)
(* Proofs about MentalPoker, for every prime, every deck that its group    *)
(* has room for, every number of players and all keys that generate_keypair*)
(* accepts.                                                                *)
(*                                                                         *)
(* What the code computes with is derived here: an inverse of each key     *)
(* exists (Bezout), a number of the group to the power Prime - 1 is one    *)
(* (Fermat), so decryption undoes encryption (KeyInverts), in whatever     *)
(* order the players take theirs off (OpenedCommutes).                     *)
(***************************************************************************)
EXTENDS MentalPoker, FiniteSetTheorems, SequenceTheorems, WellFoundedInduction, TLAPS

-----------------------------------------------------------------------------
(* Numbers *)

(* A non-empty set of numbers has a least element.                         *)
LEMMA Least ==
  ASSUME NEW S \in SUBSET Nat, S # {}
  PROVE  \E x \in S : \A y \in S : x <= y
<1>1. \E x \in S : \A y \in S : ~ (<<y, x>> \in OpToRel(<, Nat))
  BY NatLessThanWellFounded, WFMin
<1>2. PICK x \in S : \A y \in S : ~ (<<y, x>> \in OpToRel(<, Nat))
  BY <1>1
<1>3. \A y \in S : ~ (y < x)
  BY <1>2 DEF OpToRel
<1> QED BY <1>3

(* What holds of zero, and of the next when it holds of one, holds of all. *)
LEMMA Induction ==
  ASSUME NEW S, 0 \in S, \A n \in Nat : n \in S => n + 1 \in S
  PROVE  \A n \in Nat : n \in S
<1> SUFFICES ASSUME Nat \ S # {} PROVE FALSE OBVIOUS
<1>1. PICK x \in Nat \ S : \A y \in Nat \ S : x <= y BY Least
<1>2. x - 1 \in Nat /\ ~(x <= x - 1) /\ x = (x - 1) + 1 BY <1>1
<1>3. x - 1 \in S BY <1>1, <1>2
<1>4. QED BY <1>1, <1>2, <1>3

(* Quotient and remainder.                                                 *)
LEMMA Division ==
  ASSUME NEW M \in Nat \ {0}, NEW a \in Int
  PROVE  a % M \in 0..(M - 1) /\ a \div M \in Int /\ a = M * (a \div M) + (a % M)
OBVIOUS

(* They are the only ones.                                                 *)
LEMMA Remainder ==
  ASSUME NEW M \in Nat \ {0}, NEW q \in Int, NEW r \in 0..(M - 1)
  PROVE  (M * q + r) % M = r
<1> DEFINE a == M * q + r
<1> DEFINE k == a \div M
<1> DEFINE s == a % M
<1>1. a \in Int BY DEF a
<1>2. s \in 0..(M - 1) /\ k \in Int /\ a = M * k + s BY <1>1, Division
<1> HIDE DEF k, s
<1>3. M * (q - k) = s - r BY <1>2
<1>4. s - r < M /\ s - r > 0 - M BY <1>2
<1>5. q - k \in Int BY <1>2
<1> HIDE DEF a
<1>6. q - k = 0
  <2>1. CASE q - k >= 1
    <3>1. M * (q - k) >= M BY <2>1, <1>5
    <3>2. QED BY <3>1, <1>2, <1>3, <1>4
  <2>2. CASE q - k <= 0 - 1
    <3>1. M * (q - k) <= 0 - M BY <2>2, <1>5
    <3>2. QED BY <3>1, <1>2, <1>3, <1>4
  <2>3. QED BY <2>1, <2>2, <1>5
<1>7. s = r BY <1>3, <1>6, <1>2
<1>8. a % M = r BY <1>7 DEF s
<1>9. QED BY <1>8 DEF a

(* Multiples of the modulus make no difference,                            *)
LEMMA ShiftMod ==
  ASSUME NEW M \in Nat \ {0}, NEW a \in Int, NEW q \in Int
  PROVE  (a + M * q) % M = a % M
<1> DEFINE r == a % M
<1> DEFINE k == a \div M
<1>1. r \in 0..(M - 1) /\ k \in Int /\ a = M * k + r BY Division
<1> HIDE DEF r, k
<1>2. k + q \in Int /\ a + M * q = M * (k + q) + r BY <1>1
<1>3. QED BY <1>1, <1>2, Remainder DEF r

(* and reducing a factor makes none,                                       *)
LEMMA MulMod ==
  ASSUME NEW M \in Nat \ {0}, NEW a \in Int, NEW b \in Int
  PROVE  ((a % M) * b) % M = (a * b) % M
<1> DEFINE r == a % M
<1> DEFINE k == a \div M
<1>1. r \in 0..(M - 1) /\ k \in Int /\ a = M * k + r BY Division
<1> HIDE DEF r, k
<1>2. k * b \in Int /\ r * b \in Int /\ a * b = r * b + M * (k * b) BY <1>1
<1>3. (r * b + M * (k * b)) % M = (r * b) % M BY <1>2, ShiftMod
<1>4. (a * b) % M = (r * b) % M BY <1>2, <1>3
<1>5. QED BY <1>4 DEF r

(* so multiplication modulo M is associative.                              *)
LEMMA ModAssociates ==
  ASSUME NEW M \in Nat \ {0}, NEW a \in Int, NEW b \in Int, NEW c \in Int
  PROVE  (((a * b) % M) * c) % M = (a * ((b * c) % M)) % M
<1>1. a * b \in Int /\ b * c \in Int /\ (b * c) % M \in Int BY Division
<1>2. (((a * b) % M) * c) % M = ((a * b) * c) % M BY <1>1, MulMod
<1>3. (((b * c) % M) * a) % M = ((b * c) * a) % M BY <1>1, MulMod
<1>4. (a * b) * c = (b * c) * a OBVIOUS
<1>5. a * ((b * c) % M) = ((b * c) % M) * a BY <1>1
<1>6. QED BY <1>2, <1>3, <1>4, <1>5

(* The least positive combination of two numbers divides both: Bezout.      *)
LEMMA Bezout ==
  ASSUME NEW a \in Nat \ {0}, NEW b \in Nat \ {0}
  PROVE  \E g \in Nat \ {0}, x \in Int, y \in Int :
           g = a * x + b * y /\ a % g = 0 /\ b % g = 0
<1> DEFINE C == {n \in Int : \E u, v \in Int : n = a * u + b * v}
<1> DEFINE S == {n \in Nat \ {0} : n \in C}
<1>1. a \in C /\ b \in C
  <2>1. a = a * 1 + b * 0 /\ b = a * 0 + b * 1 OBVIOUS
  <2>2. QED BY <2>1
<1>c. \A n \in C : n \in Int /\ \E u, v \in Int : n = a * u + b * v OBVIOUS
<1>d. \A n \in Int, u \in Int, v \in Int : n = a * u + b * v => n \in C OBVIOUS
<1> HIDE DEF C
<1>2. PICK g \in S : \A n \in S : g <= n
  <2>1. S \in SUBSET Nat /\ S # {} BY <1>1
  <2>2. QED BY <2>1, Least
<1>3. \A c \in C, q \in Int : c - g * q \in C
  <2> TAKE c \in C, q \in Int
  <2>1. PICK u \in Int, v \in Int : c = a * u + b * v BY <1>c
  <2>2. PICK x \in Int, y \in Int : g = a * x + b * y BY <1>2, <1>c
  <2>3. u - x * q \in Int /\ v - y * q \in Int OBVIOUS
  <2>4. a * (u - x * q) + b * (v - y * q) = (a * u + b * v) - (a * x + b * y) * q OBVIOUS
  <2>5. c - g * q = a * (u - x * q) + b * (v - y * q) BY <2>1, <2>2, <2>4
  <2>6. c - g * q \in Int BY <1>c, <1>2
  <2>7. QED BY <2>3, <2>5, <2>6, <1>d
<1>4. ASSUME NEW c \in Nat, c \in C
      PROVE  c % g = 0
  <2> DEFINE q == c \div g
  <2> DEFINE r == c % g
  <2>1. q \in Int /\ r \in 0..(g - 1) /\ c = g * q + r BY <1>2, Division
  <2> HIDE DEF q, r
  <2>2. r = c - g * q BY <2>1, <1>2
  <2>3. r \in C BY <2>1, <2>2, <1>3, <1>4
  <2>4. r \in Nat /\ ~(g <= r) BY <2>1, <1>2
  <2>5. r = 0 BY <2>3, <2>4, <1>2
  <2>6. QED BY <2>5 DEF r
<1>5. a % g = 0 /\ b % g = 0 BY <1>1, <1>4
<1>6. PICK x \in Int, y \in Int : g = a * x + b * y BY <1>2, <1>c
<1>7. g \in Nat \ {0} BY <1>2
<1>8. QED
  <2> WITNESS g \in Nat \ {0}, x \in Int, y \in Int
  <2> QED BY <1>5, <1>6

(* A number that has no divisor in common with M has an inverse modulo M.  *)
LEMMA InverseExists ==
  ASSUME NEW a \in Nat \ {0}, NEW M \in Nat \ {0, 1},
         \A k \in 2..a : ~(a % k = 0 /\ M % k = 0)
  PROVE  \E d \in 1..(M - 1) : (a * d) % M = 1
<1>1. PICK g \in Nat \ {0}, x \in Int, y \in Int :
             g = a * x + M * y /\ a % g = 0 /\ M % g = 0
  BY Bezout
<1>2. g <= a
  <2>0. a \in Int /\ g \in Nat \ {0} BY <1>1
  <2>1. a \div g \in Int /\ a = g * (a \div g) + (a % g) BY <2>0, Division
  <2>2. a = g * (a \div g) BY <2>1, <1>1
  <2>3. QED BY <2>1, <2>2, <1>1
<1>3. g = 1 BY <1>1, <1>2
<1> DEFINE d == x % M
<1> DEFINE q == x \div M
<1>4. d \in 0..(M - 1) /\ q \in Int /\ x = M * q + d BY <1>1, Division
<1> HIDE DEF d, q
<1> DEFINE z == 0 - y - a * q
<1>5. a * d = 1 + M * z
  <2>1. 1 = a * (M * q + d) + M * y BY <1>1, <1>3, <1>4
  <2>2. QED BY <2>1, <1>4, <1>1
<1>6. z \in Int BY <1>1, <1>4
<1> HIDE DEF z
<1>7. (a * d) % M = 1 % M
  <2>1. M \in Nat \ {0} /\ 1 \in Int OBVIOUS
  <2>2. (1 + M * z) % M = 1 % M BY <2>1, <1>6, ShiftMod
  <2>3. QED BY <2>2, <1>5
<1>8. 1 % M = 1 OBVIOUS
<1>9. d # 0
  <2>1. SUFFICES ASSUME d = 0 PROVE FALSE OBVIOUS
  <2>2. (a * d) % M = 0 BY <2>1
  <2>3. QED BY <2>2, <1>7, <1>8
<1>10. QED BY <1>4, <1>7, <1>8, <1>9

-----------------------------------------------------------------------------
(* The group modulo the prime *)

Group == 1..(Prime - 1)

(* Each number of the group has an inverse,                                *)
LEMMA UnitExists ==
  ASSUME NEW a \in Group
  PROVE  \E x \in 1..(Prime - 1) : (a * x) % Prime = 1
<1>1. a \in Nat \ {0} /\ Prime \in Nat \ {0, 1} BY PrimeAssumption DEF Group
<1>2. \A k \in 2..a : ~(a % k = 0 /\ Prime % k = 0)
  <2> TAKE k \in 2..a
  <2>1. k \in 2..(Prime - 1) BY <1>1 DEF Group
  <2>2. QED BY <2>1, PrimeAssumption
<1>3. QED BY <1>1, <1>2, InverseExists

(* so factors cancel on the left,                                          *)
LEMMA Cancels ==
  ASSUME NEW a \in Group, NEW b \in 0..(Prime - 1), NEW c \in 0..(Prime - 1),
         (a * b) % Prime = (a * c) % Prime
  PROVE  b = c
<1>0. Prime \in Nat \ {0, 1} /\ a \in Int BY PrimeAssumption DEF Group
<1>1. PICK x \in 1..(Prime - 1) : (a * x) % Prime = 1 BY UnitExists
<1>2. \A y \in 0..(Prime - 1) : (((a * y) % Prime) * x) % Prime = y
  <2> TAKE y \in 0..(Prime - 1)
  <2>1. a * y \in Int /\ a * x \in Int /\ x \in Int /\ y \in Int BY <1>0
  <2>2. (((a * y) % Prime) * x) % Prime = ((a * y) * x) % Prime BY <1>0, <2>1, MulMod
  <2>3. (((a * x) % Prime) * y) % Prime = ((a * x) * y) % Prime BY <1>0, <2>1, MulMod
  <2>4. (a * y) * x = (a * x) * y BY <2>1, <1>0
  <2>5. (1 * y) % Prime = y BY <1>0
  <2>6. QED BY <2>2, <2>3, <2>4, <2>5, <1>1
<1>3. QED BY <1>2

(* and products stay in the group.                                         *)
LEMMA GroupCloses ==
  ASSUME NEW a \in Group, NEW b \in Group
  PROVE  (a * b) % Prime \in Group
<1>0. Prime \in Nat \ {0, 1} /\ a \in Int /\ b \in Int BY PrimeAssumption DEF Group
<1>1. (a * b) % Prime \in 0..(Prime - 1) BY <1>0, Division
<1>2. (a * b) % Prime # 0
  <2>1. SUFFICES ASSUME (a * b) % Prime = 0 PROVE FALSE OBVIOUS
  <2>2. (a * 0) % Prime = 0 BY <1>0
  <2>3. (a * b) % Prime = (a * 0) % Prime BY <2>1, <2>2
  <2>4. b \in 0..(Prime - 1) /\ 0 \in 0..(Prime - 1) BY <1>0 DEF Group
  <2>5. b = 0 BY <2>3, <2>4, Cancels
  <2>6. QED BY <2>5, <1>0 DEF Group
<1>3. QED BY <1>1, <1>2, <1>0 DEF Group

-----------------------------------------------------------------------------
(* Powers *)

(* The function that PowMod defines by recursion exists, and equals what it *)
(* is defined by:                                                          *)
LEMMA PowerDefined ==
  ASSUME NEW m, NEW k \in Nat
  PROVE  \E f : /\ f = [j \in 0..k |-> IF j = 0 THEN 1 ELSE (f[j - 1] * m) % Prime]
                /\ PowMod(m, k) = f[k]
<1> DEFINE Q(n, u) == u = [j \in 0..n |-> IF j = 0 THEN 1 ELSE (u[j - 1] * m) % Prime]
<1> DEFINE S == {n \in Nat : \E f : Q(n, f)}
<1>1. 0 \in S
  <2>1. Q(0, [j \in 0..0 |-> 1]) OBVIOUS
  <2>2. QED BY <2>1
<1>2. ASSUME NEW n \in Nat, n \in S
      PROVE  n + 1 \in S
  <2>1. PICK f : Q(n, f) BY <1>2
  <2> DEFINE g == [j \in 0..(n + 1) |-> IF j = n + 1 THEN (f[n] * m) % Prime ELSE f[j]]
  <2>2. ASSUME NEW j \in 0..(n + 1)
        PROVE  g[j] = IF j = 0 THEN 1 ELSE (g[j - 1] * m) % Prime
    <3>1. CASE j = n + 1 BY <3>1
    <3>2. CASE j \in 0..n
      <4>1. f[j] = IF j = 0 THEN 1 ELSE (f[j - 1] * m) % Prime BY <2>1, <3>2
      <4>2. g[j] = f[j] /\ (j # 0 => g[j - 1] = f[j - 1]) BY <3>2
      <4>3. QED BY <4>1, <4>2
    <3>3. QED BY <3>1, <3>2
  <2>3. Q(n + 1, g)
    <3> HIDE DEF g
    <3>1. g = [j \in 0..(n + 1) |-> g[j]] BY DEF g
    <3>2. QED BY <3>1, <2>2
  <2>4. \E u : Q(n + 1, u) BY <2>3
  <2> HIDE DEF Q
  <2>5. QED BY <2>4
<1> HIDE DEF S
<1>3. k \in S BY <1>1, <1>2, Induction
<1>4. \E f : Q(k, f) BY <1>3 DEF S
<1> DEFINE h == CHOOSE f : Q(k, f)
<1>5. Q(k, h) BY <1>4
<1>6. PowMod(m, k) = h[k] BY DEF PowMod
<1>7. QED BY <1>5, <1>6

(* m^0 = 1,                                                                *)
LEMMA PowerZero == ASSUME NEW m PROVE PowMod(m, 0) = 1
<1>1. 0 \in Nat OBVIOUS
<1>2. PICK f : /\ f = [j \in 0..0 |-> IF j = 0 THEN 1 ELSE (f[j - 1] * m) % Prime]
               /\ PowMod(m, 0) = f[0]
  BY <1>1, PowerDefined
<1>3. f[0] = 1 BY <1>2
<1>4. QED BY <1>2, <1>3

(* and m^(k + 1) = m^k m.                                                  *)
LEMMA PowerNext ==
  ASSUME NEW m, NEW k \in Nat
  PROVE  PowMod(m, k + 1) = (PowMod(m, k) * m) % Prime
<1>1. PICK f : /\ f = [j \in 0..k |-> IF j = 0 THEN 1 ELSE (f[j - 1] * m) % Prime]
               /\ PowMod(m, k) = f[k]
  BY PowerDefined
<1>2. PICK g : /\ g = [j \in 0..(k + 1) |-> IF j = 0 THEN 1 ELSE (g[j - 1] * m) % Prime]
               /\ PowMod(m, k + 1) = g[k + 1]
  <2>1. k + 1 \in Nat OBVIOUS
  <2>2. QED BY <2>1, PowerDefined
<1> DEFINE S == {n \in Nat : n <= k => f[n] = g[n]}
<1>3. 0 \in S
  <2>1. f[0] = 1 /\ g[0] = 1 BY <1>1, <1>2
  <2>2. QED BY <2>1
<1>4. ASSUME NEW n \in Nat, n \in S
      PROVE  n + 1 \in S
  <2>1. CASE n + 1 <= k
    <3>1. n + 1 \in 0..k /\ n + 1 \in 0..(k + 1) /\ (n + 1) - 1 = n /\ n + 1 # 0 BY <2>1
    <3>2. f[n + 1] = (f[n] * m) % Prime
      BY <1>1, <3>1
    <3>3. g[n + 1] = (g[n] * m) % Prime
      BY <1>2, <3>1
    <3>4. f[n] = g[n] BY <1>4, <2>1
    <3>5. QED BY <3>2, <3>3, <3>4
  <2>2. QED BY <2>1
<1>5. k \in S
  <2> HIDE DEF S
  <2>1. QED BY <1>3, <1>4, Induction
<1>6. f[k] = g[k] BY <1>5
<1>7. g[k + 1] = (g[k] * m) % Prime
  <2>1. k + 1 \in 0..(k + 1) /\ (k + 1) - 1 = k /\ k + 1 # 0 OBVIOUS
  <2>2. QED BY <1>2, <2>1
<1>8. QED BY <1>1, <1>2, <1>6, <1>7

(* Powers stay in the group.                                               *)
LEMMA PowerInGroup ==
  ASSUME NEW m \in Group, NEW k \in Nat
  PROVE  PowMod(m, k) \in Group
<1> DEFINE S == {n \in Nat : PowMod(m, n) \in Group}
<1>1. 0 \in S
  <2>1. 1 \in Group BY PrimeAssumption DEF Group
  <2>2. QED BY <2>1, PowerZero
<1>2. ASSUME NEW n \in Nat, n \in S
      PROVE  n + 1 \in S
  <2>1. (PowMod(m, n) * m) % Prime \in Group BY <1>2, GroupCloses
  <2>2. QED BY <2>1, PowerNext
<1> HIDE DEF S
<1>3. k \in S BY <1>1, <1>2, Induction
<1>4. QED BY <1>3 DEF S

(* Numbers of the group are their own remainders.                          *)
LEMMA GroupIsInt == ASSUME NEW m \in Group PROVE m \in Int /\ m % Prime = m
BY PrimeAssumption DEF Group

(* m^(a + b) = m^a m^b                                                     *)
LEMMA PowerOfSum ==
  ASSUME NEW m \in Group, NEW a \in Nat, NEW b \in Nat
  PROVE  PowMod(m, a + b) = (PowMod(m, a) * PowMod(m, b)) % Prime
<1> DEFINE S == {n \in Nat : PowMod(m, a + n) = (PowMod(m, a) * PowMod(m, n)) % Prime}
<1>0. Prime \in Nat \ {0} BY PrimeAssumption
<1>1. 0 \in S
  <2>1. PowMod(m, a) \in Group BY PowerInGroup
  <2>2. (PowMod(m, a) * 1) % Prime = PowMod(m, a)
    <3> DEFINE z == PowMod(m, a)
    <3>1. z \in Int /\ z % Prime = z BY <2>1, GroupIsInt
    <3> HIDE DEF z
    <3>2. z * 1 = z BY <3>1
    <3>3. (z * 1) % Prime = z BY <3>1, <3>2
    <3>4. QED BY <3>3 DEF z
  <2>3. a + 0 = a OBVIOUS
  <2>4. PowMod(m, a + 0) = (PowMod(m, a) * PowMod(m, 0)) % Prime
    BY <2>2, <2>3, PowerZero
  <2>5. QED BY <2>4
<1>2. ASSUME NEW n \in Nat, n \in S
      PROVE  n + 1 \in S
  <2> DEFINE x == PowMod(m, a)
  <2> DEFINE y == PowMod(m, n)
  <2>1. x \in Int /\ y \in Int /\ m \in Int BY PowerInGroup, GroupIsInt
  <2>2. PowMod(m, (a + n) + 1) = (PowMod(m, a + n) * m) % Prime
    <3>1. a + n \in Nat OBVIOUS
    <3>2. QED BY <3>1, PowerNext
  <2>3. PowMod(m, a + n) = (x * y) % Prime BY <1>2
  <2>4. PowMod(m, n + 1) = (y * m) % Prime BY PowerNext
  <2> HIDE DEF x, y
  <2>5. (((x * y) % Prime) * m) % Prime = (x * ((y * m) % Prime)) % Prime
    BY <1>0, <2>1, ModAssociates
  <2>6. (a + n) + 1 = a + (n + 1) OBVIOUS
  <2>7. PowMod(m, a + (n + 1)) = (x * PowMod(m, n + 1)) % Prime
    BY <2>2, <2>3, <2>4, <2>5, <2>6
  <2>8. QED BY <2>7 DEF x
<1> HIDE DEF S
<1>3. b \in S BY <1>1, <1>2, Induction
<1>4. QED BY <1>3 DEF S

(* (m^a)^b = m^(a b)                                                       *)
LEMMA PowerOfPower ==
  ASSUME NEW m \in Group, NEW a \in Nat, NEW b \in Nat
  PROVE  PowMod(PowMod(m, a), b) = PowMod(m, a * b)
<1> DEFINE x == PowMod(m, a)
<1> DEFINE S == {n \in Nat : PowMod(x, n) = PowMod(m, a * n)}
<1>0. x \in Group BY PowerInGroup
<1>1. 0 \in S
  <2>1. a * 0 = 0 OBVIOUS
  <2>2. PowMod(x, 0) = PowMod(m, a * 0) BY <2>1, PowerZero
  <2>3. QED BY <2>2
<1>2. ASSUME NEW n \in Nat, n \in S
      PROVE  n + 1 \in S
  <2>1. PowMod(x, n + 1) = (PowMod(x, n) * x) % Prime BY PowerNext
  <2>2. PowMod(x, n) = PowMod(m, a * n) BY <1>2
  <2>3. a * n \in Nat OBVIOUS
  <2>4. PowMod(m, (a * n) + a) = (PowMod(m, a * n) * PowMod(m, a)) % Prime BY <2>3, PowerOfSum
  <2>5. (a * n) + a = a * (n + 1) OBVIOUS
  <2>6. PowMod(x, n + 1) = PowMod(m, a * (n + 1)) BY <2>1, <2>2, <2>4, <2>5
  <2>7. QED BY <2>6
<1> HIDE DEF S
<1>3. b \in S BY <1>1, <1>2, Induction
<1>4. QED BY <1>3 DEF S

(* Why the order of encryptions does not matter.                           *)
LEMMA PowersCommute ==
  ASSUME NEW m \in Group, NEW a \in Nat, NEW b \in Nat
  PROVE  PowMod(PowMod(m, a), b) = PowMod(PowMod(m, b), a)
<1>1. a * b = b * a OBVIOUS
<1>2. PowMod(PowMod(m, a), b) = PowMod(m, a * b) BY PowerOfPower
<1>3. PowMod(PowMod(m, b), a) = PowMod(m, b * a) BY PowerOfPower
<1>4. QED BY <1>1, <1>2, <1>3

(* m^1 = m                                                                 *)
LEMMA PowerOne == ASSUME NEW m \in Group PROVE PowMod(m, 1) = m
<1>1. PowMod(m, 0 + 1) = (PowMod(m, 0) * m) % Prime
  <2>1. 0 \in Nat OBVIOUS
  <2>2. QED BY <2>1, PowerNext
<1>2. 1 * m = m /\ 0 + 1 = 1 BY GroupIsInt
<1>3. QED BY <1>1, <1>2, PowerZero, GroupIsInt

(* 1^k = 1                                                                 *)
LEMMA PowerOfOne == ASSUME NEW k \in Nat PROVE PowMod(1, k) = 1
<1> DEFINE S == {n \in Nat : PowMod(1, n) = 1}
<1>1. 0 \in S BY PowerZero
<1>2. ASSUME NEW n \in Nat, n \in S
      PROVE  n + 1 \in S
  <2>1. PowMod(1, n + 1) = (1 * 1) % Prime BY <1>2, PowerNext
  <2>2. (1 * 1) % Prime = 1 BY PrimeAssumption
  <2>3. QED BY <2>1, <2>2
<1> HIDE DEF S
<1>3. k \in S BY <1>1, <1>2, Induction
<1>4. QED BY <1>3 DEF S

-----------------------------------------------------------------------------
(* Fermat's little theorem *)

(* Two powers that agree differ by an exponent that gives one.             *)
LEMMA PowersAgree ==
  ASSUME NEW m \in Group, NEW i \in Nat, NEW j \in Nat, i <= j,
         PowMod(m, i) = PowMod(m, j)
  PROVE  PowMod(m, j - i) = 1
<1>1. j - i \in Nat /\ i + (j - i) = j OBVIOUS
<1> DEFINE a == PowMod(m, i)
<1> DEFINE b == PowMod(m, j - i)
<1>2. a \in Group /\ b \in Group BY <1>1, PowerInGroup
<1>3. PowMod(m, i + (j - i)) = (a * b) % Prime BY <1>1, PowerOfSum
<1>4. (a * b) % Prime = a BY <1>1, <1>3
<1> HIDE DEF a, b
<1>5. (a * 1) % Prime = a
  <2>1. a * 1 = a BY <1>2, GroupIsInt
  <2>2. QED BY <2>1, <1>2, GroupIsInt
<1>6. (a * b) % Prime = (a * 1) % Prime BY <1>4, <1>5
<1>7. b \in 0..(Prime - 1) /\ 1 \in 0..(Prime - 1) BY <1>2, PrimeAssumption DEF Group
<1>8. b = 1 BY <1>2, <1>6, <1>7, Cancels
<1>9. QED BY <1>8 DEF b

(* Some positive power is one, and there is a first one.                   *)
LEMMA OrderExists ==
  ASSUME NEW m \in Group
  PROVE  \E k \in Nat \ {0} : /\ PowMod(m, k) = 1
                              /\ \A j \in 1..(k - 1) : PowMod(m, j) # 1
<1> DEFINE S == {k \in Nat \ {0} : PowMod(m, k) = 1}
<1>1. S # {}
  <2> DEFINE f == [j \in 0..(Prime - 1) |-> PowMod(m, j)]
  <2>0. Prime \in Nat \ {0, 1} BY PrimeAssumption
  <2>1. f \in [0..(Prime - 1) -> Group] BY <2>0, PowerInGroup
  <2>2. IsFiniteSet(0..(Prime - 1)) /\ Cardinality(0..(Prime - 1)) = Prime
    BY <2>0, FS_Interval
  <2>3. IsFiniteSet(Group) /\ Cardinality(Group) = Prime - 1
    BY <2>0, FS_Interval DEF Group
  <2>4. PICK i \in 0..(Prime - 1), j \in 0..(Prime - 1) : i # j /\ f[i] = f[j]
    <3> HIDE DEF f
    <3>1. Cardinality(0..(Prime - 1)) > Cardinality(Group) BY <2>0, <2>2, <2>3
    <3>2. QED BY <2>1, <2>2, <2>3, <3>1, FS_PigeonHole
  <2>5. PowMod(m, i) = PowMod(m, j) BY <2>4
  <2>6. CASE i < j
    <3>1. j - i \in Nat \ {0} /\ i <= j /\ i \in Nat /\ j \in Nat BY <2>0, <2>6
    <3>2. PowMod(m, j - i) = 1 BY <2>5, <3>1, PowersAgree
    <3>3. QED BY <3>1, <3>2
  <2>7. CASE j < i
    <3>1. i - j \in Nat \ {0} /\ j <= i /\ i \in Nat /\ j \in Nat BY <2>0, <2>7
    <3>2. PowMod(m, i - j) = 1 BY <2>5, <3>1, PowersAgree
    <3>3. QED BY <3>1, <3>2
  <2>8. QED BY <2>0, <2>4, <2>6, <2>7
<1>2. PICK k \in S : \A j \in S : k <= j BY <1>1, Least
<1>3. ASSUME NEW j \in 1..(k - 1)
      PROVE  PowMod(m, j) # 1
  <2>1. j \in Nat \ {0} /\ ~(k <= j) BY <1>2
  <2>2. QED BY <2>1, <1>2
<1>4. QED BY <1>2, <1>3

(* What multiplication by m does not lead out of.                          *)
Closed(S, m) == \A x \in S : (x * m) % Prime \in S

Orbit(x, m, k) == {(x * PowMod(m, j)) % Prime : j \in 0..(k - 1)}

(* The next element of an orbit is the last one times m.                   *)
LEMMA OrbitNext ==
  ASSUME NEW m \in Group, NEW x \in Group, NEW j \in Nat
  PROVE  (x * PowMod(m, j + 1)) % Prime = (((x * PowMod(m, j)) % Prime) * m) % Prime
<1> DEFINE y == PowMod(m, j)
<1>1. Prime \in Nat \ {0} /\ x \in Int /\ y \in Int /\ m \in Int
  BY PrimeAssumption, PowerInGroup, GroupIsInt
<1>2. PowMod(m, j + 1) = (y * m) % Prime BY PowerNext
<1> HIDE DEF y
<1>3. (((x * y) % Prime) * m) % Prime = (x * ((y * m) % Prime)) % Prime BY <1>1, ModAssociates
<1>4. (x * PowMod(m, j + 1)) % Prime = (((x * y) % Prime) * m) % Prime BY <1>2, <1>3
<1>5. QED BY <1>4 DEF y

(* Factors cancel on the right.                                            *)
LEMMA CancelsRight ==
  ASSUME NEW a \in Group, NEW b \in Group, NEW c \in Group,
         (b * a) % Prime = (c * a) % Prime
  PROVE  b = c
<1>1. a \in Int /\ b \in Int /\ c \in Int BY GroupIsInt
<1>2. b * a = a * b /\ c * a = a * c BY <1>1
<1>3. (a * b) % Prime = (a * c) % Prime BY <1>2
<1>4. b \in 0..(Prime - 1) /\ c \in 0..(Prime - 1) BY PrimeAssumption DEF Group
<1>5. QED BY <1>3, <1>4, Cancels

(* An orbit takes as many elements from a closed set as the order of m,    *)
(* and what is left is closed.                                             *)
LEMMA OrbitSplits ==
  ASSUME NEW m \in Group, NEW k \in Nat \ {0}, PowMod(m, k) = 1,
         \A j \in 1..(k - 1) : PowMod(m, j) # 1,
         NEW S \in SUBSET Group, Closed(S, m), NEW x \in S
  PROVE  /\ Orbit(x, m, k) \subseteq S
         /\ IsFiniteSet(Orbit(x, m, k)) /\ Cardinality(Orbit(x, m, k)) = k
         /\ Closed(S \ Orbit(x, m, k), m)
<1> DEFINE O == Orbit(x, m, k)
<1> DEFINE p(j) == (x * PowMod(m, j)) % Prime
<1>0. Prime \in Nat \ {0, 1} /\ x \in Group BY PrimeAssumption
<1>1. \A j \in Nat : p(j) \in Group /\ p(j + 1) = (p(j) * m) % Prime
  BY <1>0, PowerInGroup, GroupCloses, OrbitNext
<1>2. p(0) = x
  <2>1. x * 1 = x BY <1>0, GroupIsInt
  <2>2. QED BY <2>1, <1>0, PowerZero, GroupIsInt
<1>3. p(k) = x
  <2>1. x * 1 = x BY <1>0, GroupIsInt
  <2>2. QED BY <2>1, <1>0, GroupIsInt
<1>4. \A j \in Nat : p(j) \in S
  <2> DEFINE T == {j \in Nat : p(j) \in S}
  <2>1. 0 \in T BY <1>2
  <2>2. ASSUME NEW j \in Nat, j \in T PROVE j + 1 \in T
    <3>1. (p(j) * m) % Prime \in S BY <2>2 DEF Closed
    <3>2. QED BY <3>1, <1>1
  <2> HIDE DEF T
  <2>3. \A j \in Nat : j \in T BY <2>1, <2>2, Induction
  <2>4. QED BY <2>3 DEF T
<1>5. O \subseteq S
  <2> SUFFICES ASSUME NEW y \in O PROVE y \in S OBVIOUS
  <2>1. PICK j \in 0..(k - 1) : y = p(j) BY DEF Orbit
  <2>2. j \in Nat BY <2>1
  <2>3. QED BY <2>1, <2>2, <1>4
<1>6. \A i, j \in 0..(k - 1) : p(i) = p(j) => i = j
  <2>1. ASSUME NEW i \in 0..(k - 1), NEW j \in 0..(k - 1), i < j, p(i) = p(j)
        PROVE  FALSE
    <3>1. i \in Nat /\ j \in Nat /\ i <= j /\ j - i \in 1..(k - 1) BY <2>1
    <3>2. PowMod(m, i) \in 0..(Prime - 1) /\ PowMod(m, j) \in 0..(Prime - 1)
      <4>1. PowMod(m, i) \in Group /\ PowMod(m, j) \in Group BY <3>1, PowerInGroup
      <4>2. QED BY <4>1, <1>0 DEF Group
    <3>3. PowMod(m, i) = PowMod(m, j) BY <2>1, <3>2, <1>0, Cancels
    <3>4. PowMod(m, j - i) = 1 BY <3>1, <3>3, PowersAgree
    <3>5. QED BY <3>1, <3>4
  <2> TAKE i, j \in 0..(k - 1)
  <2> SUFFICES ASSUME p(i) = p(j) PROVE i = j OBVIOUS
  <2> HIDE DEF p
  <2>2. ~(i < j) BY <2>1
  <2>3. ~(j < i) BY <2>1
  <2>4. QED BY <2>2, <2>3
<1>7. IsFiniteSet(O) /\ Cardinality(O) = k
  <2> DEFINE f == [j \in 0..(k - 1) |-> p(j)]
  <2>1. IsFiniteSet(0..(k - 1)) /\ Cardinality(0..(k - 1)) = k BY FS_Interval
  <2>2. f \in Bijection(0..(k - 1), O)
    <3>1. f \in [0..(k - 1) -> O] BY DEF Orbit
    <3>2. \A y \in O : \E j \in 0..(k - 1) : f[j] = y BY DEF Orbit
    <3>3. \A i, j \in 0..(k - 1) : f[i] = f[j] => i = j BY <1>6
    <3> HIDE DEF f, O
    <3>4. QED BY <3>1, <3>2, <3>3 DEF Bijection, Injection, Surjection, IsInjective
  <2> HIDE DEF f, O
  <2>3. QED BY <2>1, <2>2, FS_Bijection DEF ExistsBijection
<1>8. Closed(S \ O, m)
  <2> SUFFICES ASSUME NEW y \in S \ O, (y * m) % Prime \in O PROVE FALSE
    <3>1. \A y \in S : (y * m) % Prime \in S BY DEF Closed
    <3> HIDE DEF O
    <3>2. QED BY <3>1 DEF Closed
  <2>1. PICK j \in 0..(k - 1) : (y * m) % Prime = p(j) BY DEF Orbit
  <2>2. PICK i \in 0..(k - 1) : p(j) = p(i + 1)
    <3>1. CASE j = 0
      <4>1. k - 1 \in 0..(k - 1) /\ (k - 1) + 1 = k OBVIOUS
      <4> HIDE DEF p
      <4>2. QED BY <3>1, <4>1, <1>2, <1>3
    <3>2. CASE j # 0
      <4>1. j - 1 \in 0..(k - 1) /\ (j - 1) + 1 = j BY <3>2
      <4> HIDE DEF p
      <4>2. QED BY <4>1
    <3>3. QED BY <3>1, <3>2
  <2>3. i \in Nat BY <2>2
  <2>4. (y * m) % Prime = (p(i) * m) % Prime BY <2>1, <2>2, <2>3, <1>1
  <2>5. y \in Group /\ p(i) \in Group BY <2>3, <1>1
  <2> HIDE DEF p
  <2>6. y = p(i) BY <2>4, <2>5, CancelsRight
  <2>7. p(i) \in O BY DEF Orbit, p
  <2>8. QED BY <2>6, <2>7
<1>9. QED BY <1>5, <1>7, <1>8

(* The order of m divides the size of every closed set.                    *)
LEMMA OrderDivides ==
  ASSUME NEW m \in Group, NEW k \in Nat \ {0}, PowMod(m, k) = 1,
         \A j \in 1..(k - 1) : PowMod(m, j) # 1,
         NEW S \in SUBSET Group, Closed(S, m)
  PROVE  Cardinality(S) % k = 0
<1> DEFINE Q(n, T) == T \in SUBSET Group /\ Closed(T, m) /\ Cardinality(T) = n
<1> DEFINE Bad == {n \in Nat : (\E T : Q(n, T)) /\ n % k # 0}
<1>1. IsFiniteSet(Group) BY PrimeAssumption, FS_Interval DEF Group
<1>2. \A T \in SUBSET Group : IsFiniteSet(T) /\ Cardinality(T) \in Nat
  BY <1>1, FS_Subset, FS_CardinalityType
<1>3. SUFFICES ASSUME Cardinality(S) % k # 0 PROVE FALSE OBVIOUS
<1>4. Cardinality(S) \in Bad
  <2>1. Q(Cardinality(S), S) OBVIOUS
  <2>2. QED BY <2>1, <1>2, <1>3
<1>5. PICK n \in Bad : \A i \in Bad : n <= i
  <2>1. Bad # {} /\ Bad \in SUBSET Nat BY <1>4
  <2> HIDE DEF Bad
  <2>2. QED BY <2>1, Least
<1>6. PICK T : Q(n, T) BY <1>5
<1>7. n % k # 0 /\ n \in Nat BY <1>5
<1>8. T # {}
  <2>1. 0 % k = 0 OBVIOUS
  <2>2. QED BY <2>1, <1>6, <1>7, FS_EmptySet
<1>9. PICK x \in T : TRUE BY <1>8
<1>o. /\ Orbit(x, m, k) \subseteq T /\ IsFiniteSet(Orbit(x, m, k))
      /\ Cardinality(Orbit(x, m, k)) = k /\ Closed(T \ Orbit(x, m, k), m)
  <2>1. T \in SUBSET Group /\ Closed(T, m) /\ x \in T BY <1>6, <1>9
  <2> HIDE DEF Q, Bad
  <2>2. QED BY <2>1, OrbitSplits
<1> DEFINE O == Orbit(x, m, k)
<1> DEFINE R == T \ O
<1>10. O \subseteq T /\ IsFiniteSet(O) /\ Cardinality(O) = k /\ Closed(R, m) BY <1>o
<1> HIDE DEF O
<1>11. Cardinality(R) = n - k
  <2>1. IsFiniteSet(T) BY <1>2, <1>6
  <2>2. Cardinality(T \ O) = Cardinality(T) - Cardinality(T \cap O)
    BY <2>1, <1>10, FS_Difference
  <2>3. T \cap O = O BY <1>10
  <2>4. QED BY <2>2, <2>3, <1>10, <1>6
<1>12. R \in SUBSET Group BY <1>6
<1>13. n - k \in Nat BY <1>11, <1>12, <1>2
<1>14. Q(n - k, R) BY <1>10, <1>11, <1>12
<1>15. (n - k) % k # 0
  <2>1. (n + k * (0 - 1)) % k = n % k
    <3>1. 0 - 1 \in Int /\ n \in Int BY <1>7
    <3>2. QED BY <3>1, ShiftMod
  <2>2. n + k * (0 - 1) = n - k BY <1>7
  <2>3. QED BY <2>1, <2>2, <1>7
<1>16. n - k \in Bad
  <2> HIDE DEF Q, R
  <2>1. QED BY <1>13, <1>14, <1>15
<1>17. ~(n <= n - k) BY <1>7
<1>18. QED BY <1>5, <1>16, <1>17

(* The group is closed and has Prime - 1 elements: Fermat.                 *)
LEMMA Fermat ==
  ASSUME NEW m \in Group
  PROVE  PowMod(m, Prime - 1) = 1
<1>0. Prime \in Nat \ {0, 1} BY PrimeAssumption
<1>1. PICK k \in Nat \ {0} : /\ PowMod(m, k) = 1
                             /\ \A j \in 1..(k - 1) : PowMod(m, j) # 1
  BY OrderExists
<1>2. Cardinality(Group) = Prime - 1 BY <1>0, FS_Interval DEF Group
<1>3. Closed(Group, m) BY GroupCloses DEF Closed
<1>4. (Prime - 1) % k = 0 BY <1>1, <1>2, <1>3, OrderDivides
<1> DEFINE q == (Prime - 1) \div k
<1>5. q \in Int /\ Prime - 1 = k * q
  <2>1. Prime - 1 \in Int BY <1>0
  <2>2. q \in Int /\ Prime - 1 = k * q + ((Prime - 1) % k) BY <2>1, <1>1, Division
  <2> HIDE DEF q
  <2>3. k * q \in Int BY <2>2
  <2>4. QED BY <2>2, <2>3, <1>4
<1> HIDE DEF q
<1>6. q \in Nat
  <2>1. SUFFICES ASSUME q < 0 PROVE FALSE BY <1>5
  <2>2. k * q < 0 BY <2>1, <1>5
  <2>3. QED BY <2>2, <1>0, <1>5
<1>7. PowMod(PowMod(m, k), q) = PowMod(m, k * q) BY <1>6, PowerOfPower
<1>8. QED BY <1>1, <1>5, <1>6, <1>7, PowerOfOne

-----------------------------------------------------------------------------
(* Keys *)

(* A key has the inverse that generate_keypair looks for.                  *)
LEMMA KeyType ==
  ASSUME NEW e \in Keys
  PROVE  /\ e \in Nat \ {0}
         /\ DecryptKey(e) \in 1..(Prime - 2) /\ (e * DecryptKey(e)) % (Prime - 1) = 1
<1>1. IsKey(e) BY KeysAssumption
<1>2. e \in Nat \ {0} /\ Prime - 1 \in Nat \ {0, 1} BY <1>1, PrimeAssumption DEF IsKey
<1>3. \A k \in 2..e : ~(e % k = 0 /\ (Prime - 1) % k = 0) BY <1>1 DEF IsKey, Coprime
<1>4. \E d \in 1..((Prime - 1) - 1) : (e * d) % (Prime - 1) = 1
  BY <1>2, <1>3, InverseExists
<1>5. (Prime - 1) - 1 = Prime - 2 BY PrimeAssumption
<1>6. \E d \in 1..(Prime - 2) : (e * d) % (Prime - 1) = 1 BY <1>4, <1>5
<1>7. QED BY <1>2, <1>6 DEF DecryptKey

(* What a player encrypts, he decrypts.                                    *)
LEMMA KeyInverts ==
  ASSUME NEW e \in Keys, NEW x \in Group
  PROVE  PowMod(PowMod(x, e), DecryptKey(e)) = x
<1> DEFINE d == DecryptKey(e)
<1> DEFINE M == Prime - 1
<1>1. e \in Nat \ {0} /\ d \in Nat \ {0} /\ (e * d) % M = 1 BY KeyType
<1>2. M \in Nat \ {0} BY PrimeAssumption, KeyType
<1>3. PowMod(x, M) = 1 BY Fermat
<1> HIDE DEF d, M
<1> DEFINE q == (e * d) \div M
<1>4. q \in Int /\ e * d = M * q + ((e * d) % M)
  <2>1. e * d \in Int BY <1>1
  <2>2. QED BY <2>1, <1>2, Division
<1> HIDE DEF q
<1>5. e * d = M * q + 1 /\ e * d >= 1
  <2>1. e * d >= 1 BY <1>1
  <2>2. QED BY <2>1, <1>1, <1>4
<1>6. q \in Nat
  <2>1. SUFFICES ASSUME q <= 0 - 1 PROVE FALSE BY <1>4
  <2>2. M * q <= 0 - M BY <2>1, <1>2, <1>4
  <2>3. M * q \in Int BY <1>2, <1>4
  <2>4. QED BY <2>2, <2>3, <1>2, <1>5
<1>7. PowMod(PowMod(x, e), d) = PowMod(x, e * d) BY <1>1, PowerOfPower
<1>8. PowMod(x, M * q + 1) = (PowMod(x, M * q) * PowMod(x, 1)) % Prime
  <2>1. M * q \in Nat /\ 1 \in Nat BY <1>2, <1>6
  <2>2. QED BY <2>1, PowerOfSum
<1>9. PowMod(x, M * q) = 1
  <2>1. PowMod(x, M * q) = PowMod(PowMod(x, M), q) BY <1>2, <1>6, PowerOfPower
  <2>2. QED BY <2>1, <1>3, <1>6, PowerOfOne
<1>10. (1 * x) % Prime = x
  <2>1. 1 * x = x BY GroupIsInt
  <2>2. QED BY <2>1, GroupIsInt
<1>11. PowMod(x, M * q + 1) = x BY <1>8, <1>9, <1>10, PowerOne
<1>12. QED BY <1>5, <1>7, <1>11 DEF d

-----------------------------------------------------------------------------
(* Taking the encryption off *)

(* The function that Opened defines by recursion exists.                   *)
LEMMA OpenedDefined ==
  ASSUME NEW x, NEW who
  PROVE  \E f : /\ f = [n \in 0..NumPlayers |->
                          IF n = 0 THEN x
                          ELSE IF n \in who THEN PowMod(f[n - 1], DecryptKey(key[n]))
                          ELSE f[n - 1]]
                /\ Opened(x, who) = f[NumPlayers]
<1> DEFINE Q(k, u) == u = [n \in 0..k |->
                             IF n = 0 THEN x
                             ELSE IF n \in who THEN PowMod(u[n - 1], DecryptKey(key[n]))
                             ELSE u[n - 1]]
<1> DEFINE S == {k \in Nat : \E f : Q(k, f)}
<1>1. 0 \in S
  <2>1. Q(0, [n \in 0..0 |-> x]) OBVIOUS
  <2>2. QED BY <2>1
<1>2. ASSUME NEW k \in Nat, k \in S
      PROVE  k + 1 \in S
  <2>1. PICK f : Q(k, f) BY <1>2
  <2> DEFINE g == [n \in 0..(k + 1) |->
                     IF n = k + 1 THEN IF k + 1 \in who THEN PowMod(f[k], DecryptKey(key[k + 1]))
                                       ELSE f[k]
                     ELSE f[n]]
  <2>2. ASSUME NEW n \in 0..(k + 1)
        PROVE  g[n] = IF n = 0 THEN x
                      ELSE IF n \in who THEN PowMod(g[n - 1], DecryptKey(key[n]))
                      ELSE g[n - 1]
    <3>1. CASE n = k + 1
      <4>1. n # 0 /\ n - 1 = k /\ g[n - 1] = f[k] BY <3>1
      <4>2. QED BY <3>1, <4>1
    <3>2. CASE n \in 0..k
      <4>1. f[n] = IF n = 0 THEN x
                   ELSE IF n \in who THEN PowMod(f[n - 1], DecryptKey(key[n]))
                   ELSE f[n - 1]
        BY <2>1, <3>2
      <4>2. g[n] = f[n] /\ (n # 0 => g[n - 1] = f[n - 1]) BY <3>2
      <4>3. QED BY <4>1, <4>2
    <3>3. QED BY <3>1, <3>2
  <2>3. Q(k + 1, g)
    <3> HIDE DEF g
    <3>1. g = [n \in 0..(k + 1) |-> g[n]] BY DEF g
    <3>2. QED BY <3>1, <2>2
  <2>4. \E u : Q(k + 1, u) BY <2>3
  <2> HIDE DEF Q
  <2>5. QED BY <2>4
<1> HIDE DEF S
<1>3. NumPlayers \in S BY <1>1, <1>2, Induction, PokerAssumption
<1>4. \E f : Q(NumPlayers, f) BY <1>3 DEF S
<1> DEFINE h == CHOOSE f : Q(NumPlayers, f)
<1>5. Q(NumPlayers, h) BY <1>4
<1>6. Opened(x, who) = h[NumPlayers] BY DEF Opened
<1>7. QED BY <1>5, <1>6

(* How the function of Opened goes on from player to player.               *)
Opening(f, x, who) ==
  /\ f[0] = x
  /\ \A n \in 0..(NumPlayers - 1) :
       f[n + 1] = IF n + 1 \in who THEN PowMod(f[n], DecryptKey(key[n + 1])) ELSE f[n]

LEMMA OpenedStepwise ==
  ASSUME NEW x, NEW who
  PROVE  \E f : Opening(f, x, who) /\ Opened(x, who) = f[NumPlayers]
<1>1. PICK f : /\ f = [n \in 0..NumPlayers |->
                         IF n = 0 THEN x
                         ELSE IF n \in who THEN PowMod(f[n - 1], DecryptKey(key[n]))
                         ELSE f[n - 1]]
               /\ Opened(x, who) = f[NumPlayers]
  BY OpenedDefined
<1>2. f[0] = x BY <1>1, PokerAssumption
<1>3. ASSUME NEW n \in 0..(NumPlayers - 1)
      PROVE  f[n + 1] = IF n + 1 \in who THEN PowMod(f[n], DecryptKey(key[n + 1])) ELSE f[n]
  <2>1. n + 1 \in 0..NumPlayers /\ n + 1 # 0 /\ (n + 1) - 1 = n BY PokerAssumption
  <2>2. QED BY <1>1, <2>1
<1>4. QED BY <1>1, <1>2, <1>3 DEF Opening

(* Players are numbered, and what holds from one to the next holds of all. *)
LEMMA PlayerInduction ==
  ASSUME NEW S, 0 \in S, \A n \in 0..(NumPlayers - 1) : n \in S => n + 1 \in S
  PROVE  NumPlayers \in S
<1> DEFINE T == {n \in Nat : n <= NumPlayers => n \in S}
<1>1. 0 \in T OBVIOUS
<1>2. ASSUME NEW n \in Nat, n \in T PROVE n + 1 \in T
  <2>1. CASE n + 1 <= NumPlayers
    <3>1. n \in 0..(NumPlayers - 1) /\ n <= NumPlayers BY <2>1, PokerAssumption
    <3>2. QED BY <3>1, <1>2
  <2>2. QED BY <2>1
<1> HIDE DEF T
<1>3. NumPlayers \in T BY <1>1, <1>2, Induction, PokerAssumption
<1>4. QED BY <1>3, PokerAssumption DEF T

(* The keys of players are exponents.                                      *)
LEMMA PlayerKeys ==
  ASSUME key \in [Players -> Keys], NEW n \in 0..(NumPlayers - 1)
  PROVE  /\ n + 1 \in Players /\ key[n + 1] \in Keys
         /\ key[n + 1] \in Nat /\ DecryptKey(key[n + 1]) \in Nat
<1>1. n + 1 \in Players BY PokerAssumption DEF Players
<1>2. key[n + 1] \in Keys BY <1>1
<1>3. DecryptKey(key[n + 1]) \in 1..(Prime - 2) BY <1>2, KeyType
<1>4. DecryptKey(key[n + 1]) \in Nat BY <1>3, PrimeAssumption
<1>5. QED BY <1>1, <1>2, <1>4, KeyType

(* On the way from player to player a card stays in the group,             *)
LEMMA OpeningInGroup ==
  ASSUME key \in [Players -> Keys], NEW x \in Group, NEW who, NEW f, Opening(f, x, who)
  PROVE  \A n \in 0..NumPlayers : f[n] \in Group
<1> DEFINE S == {n \in Nat : n \in 0..NumPlayers => f[n] \in Group}
<1>1. 0 \in S BY DEF Opening
<1>2. ASSUME NEW n \in Nat, n \in S
      PROVE  n + 1 \in S
  <2>1. CASE n + 1 \in 0..NumPlayers
    <3>1. n \in 0..(NumPlayers - 1) /\ n \in 0..NumPlayers BY <2>1, PokerAssumption
    <3>2. f[n] \in Group BY <3>1, <1>2
    <3>3. PowMod(f[n], DecryptKey(key[n + 1])) \in Group
      BY <3>1, <3>2, PlayerKeys, PowerInGroup
    <3>4. f[n + 1] \in Group BY <3>1, <3>2, <3>3 DEF Opening
    <3>5. QED BY <3>4
  <2>2. QED BY <2>1
<1> HIDE DEF S
<1>3. \A n \in Nat : n \in S BY <1>1, <1>2, Induction
<1>4. QED BY <1>3, PokerAssumption DEF S

(* and so it is there in the end.                                          *)
LEMMA OpenedInGroup ==
  ASSUME key \in [Players -> Keys], NEW x \in Group, NEW who
  PROVE  Opened(x, who) \in Group
<1>1. PICK f : Opening(f, x, who) /\ Opened(x, who) = f[NumPlayers] BY OpenedStepwise
<1>2. NumPlayers \in 0..NumPlayers BY PokerAssumption
<1>3. QED BY <1>1, <1>2, OpeningInGroup

(* Without keys nothing is opened.                                         *)
LEMMA OpenedByNobody ==
  ASSUME NEW x
  PROVE  Opened(x, {}) = x
<1>1. PICK f : Opening(f, x, {}) /\ Opened(x, {}) = f[NumPlayers] BY OpenedStepwise
<1> DEFINE S == {n \in 0..NumPlayers : f[n] = x}
<1>2. 0 \in S BY <1>1, PokerAssumption DEF Opening
<1>3. \A n \in 0..(NumPlayers - 1) : n \in S => n + 1 \in S
  BY <1>1, PokerAssumption DEF Opening
<1> HIDE DEF S
<1>4. NumPlayers \in S BY <1>2, <1>3, PlayerInduction
<1>5. QED BY <1>1, <1>4 DEF S

(* Encryption commutes with taking encryption off.                         *)
LEMMA OpenedCommutes ==
  ASSUME key \in [Players -> Keys], NEW x \in Group, NEW who, NEW e \in Nat
  PROVE  Opened(PowMod(x, e), who) = PowMod(Opened(x, who), e)
<1>1. PICK f : Opening(f, x, who) /\ Opened(x, who) = f[NumPlayers] BY OpenedStepwise
<1>2. PICK g : /\ Opening(g, PowMod(x, e), who)
               /\ Opened(PowMod(x, e), who) = g[NumPlayers]
  BY OpenedStepwise
<1> DEFINE S == {n \in 0..NumPlayers : g[n] = PowMod(f[n], e)}
<1>3. 0 \in S BY <1>1, <1>2, PokerAssumption DEF Opening
<1>4. ASSUME NEW n \in 0..(NumPlayers - 1), n \in S
      PROVE  n + 1 \in S
  <2> DEFINE d == DecryptKey(key[n + 1])
  <2>1. d \in Nat BY PlayerKeys
  <2>2. n \in 0..NumPlayers /\ n + 1 \in 0..NumPlayers BY PokerAssumption
  <2>3. f[n] \in Group BY <1>1, <2>2, OpeningInGroup
  <2>4. PowMod(PowMod(f[n], e), d) = PowMod(PowMod(f[n], d), e) BY <2>1, <2>3, PowersCommute
  <2>5. g[n] = PowMod(f[n], e) BY <1>4
  <2>6. f[n + 1] = IF n + 1 \in who THEN PowMod(f[n], d) ELSE f[n] BY <1>1 DEF Opening
  <2>7. g[n + 1] = IF n + 1 \in who THEN PowMod(g[n], d) ELSE g[n] BY <1>2 DEF Opening
  <2> HIDE DEF d
  <2>8. g[n + 1] = PowMod(f[n + 1], e) BY <2>4, <2>5, <2>6, <2>7
  <2>9. QED BY <2>2, <2>8
<1> HIDE DEF S
<1>5. NumPlayers \in S BY <1>3, <1>4, PlayerInduction
<1>6. QED BY <1>1, <1>2, <1>5 DEF S

(* It does not matter when a player's encryption is taken off.             *)
LEMMA OpenedByOneMore ==
  ASSUME key \in [Players -> Keys], NEW x \in Group, NEW who, NEW p \in Players \ who
  PROVE  Opened(x, who \union {p}) = PowMod(Opened(x, who), DecryptKey(key[p]))
<1>1. PICK f : Opening(f, x, who) /\ Opened(x, who) = f[NumPlayers] BY OpenedStepwise
<1>2. PICK g : /\ Opening(g, x, who \union {p})
               /\ Opened(x, who \union {p}) = g[NumPlayers]
  BY OpenedStepwise
<1> DEFINE c == DecryptKey(key[p])
<1>3. p \in 1..NumPlayers /\ c \in Nat
  <2>1. p \in 1..NumPlayers /\ p - 1 \in 0..(NumPlayers - 1) /\ (p - 1) + 1 = p
    BY PokerAssumption DEF Players
  <2>2. DecryptKey(key[(p - 1) + 1]) \in Nat BY <2>1, PlayerKeys
  <2>3. QED BY <2>1, <2>2
<1> HIDE DEF c
<1> DEFINE S == {n \in 0..NumPlayers : g[n] = IF n < p THEN f[n] ELSE PowMod(f[n], c)}
<1>4. 0 \in S BY <1>1, <1>2, <1>3, PokerAssumption DEF Opening
<1>5. ASSUME NEW n \in 0..(NumPlayers - 1), n \in S
      PROVE  n + 1 \in S
  <2> DEFINE d == DecryptKey(key[n + 1])
  <2>1. d \in Nat BY PlayerKeys
  <2>2. n \in 0..NumPlayers /\ n + 1 \in 0..NumPlayers BY PokerAssumption
  <2>3. f[n] \in Group BY <1>1, <2>2, OpeningInGroup
  <2>4. PowMod(PowMod(f[n], c), d) = PowMod(PowMod(f[n], d), c)
    BY <1>3, <2>1, <2>3, PowersCommute
  <2>5. g[n] = IF n < p THEN f[n] ELSE PowMod(f[n], c) BY <1>5
  <2>6. f[n + 1] = IF n + 1 \in who THEN PowMod(f[n], d) ELSE f[n] BY <1>1 DEF Opening
  <2>7. g[n + 1] = IF n + 1 \in who \union {p} THEN PowMod(g[n], d) ELSE g[n]
    BY <1>2 DEF Opening
  <2>8. n + 1 = p => d = c BY DEF c
  <2> HIDE DEF d
  <2>9. CASE n + 1 < p
    <3>1. n < p /\ n + 1 # p BY <2>9, <1>3
    <3>2. QED BY <3>1, <2>9, <2>2, <2>5, <2>6, <2>7
  <2>10. CASE n + 1 = p
    <3>1. n < p /\ ~(n + 1 < p) /\ n + 1 \notin who BY <2>10, <1>3
    <3>2. QED BY <3>1, <2>2, <2>5, <2>6, <2>7, <2>8, <2>10
  <2>11. CASE p < n + 1
    <3>1. ~(n < p) /\ ~(n + 1 < p) /\ n + 1 # p BY <2>11, <1>3
    <3>2. QED BY <3>1, <2>2, <2>4, <2>5, <2>6, <2>7
  <2>12. QED BY <2>9, <2>10, <2>11, <1>3
<1> HIDE DEF S
<1>6. NumPlayers \in S BY <1>4, <1>5, PlayerInduction
<1>7. ~(NumPlayers < p) BY <1>3, PokerAssumption
<1>8. g[NumPlayers] = PowMod(f[NumPlayers], c) BY <1>6, <1>7 DEF S
<1>9. QED BY <1>1, <1>2, <1>8 DEF c

(* What is taken off depends on the keys only, and those stay.             *)
LEMMA OpenedStays ==
  ASSUME key' = key, NEW x, NEW who
  PROVE  Opened(x, who)' = Opened(x, who)
BY DEF Opened

-----------------------------------------------------------------------------
(* Shuffling *)

(* The ways to shuffle a deck, as maps of positions.                       *)
Shufflings ==
  {g \in [Positions -> Positions] : \A i, j \in Positions : g[i] = g[j] => i = j}

(* The positions can be counted.                                           *)
LEMMA PositionsFinite == IsFiniteSet(Positions) /\ Cardinality(Positions) = DeckSize
<1>1. DeckSize \in Nat /\ DeckSize >= 1 BY PokerAssumption, PrimeAssumption
<1>2. QED BY <1>1, FS_Interval DEF Positions

(* A shuffled deck holds what was there before.                            *)
LEMMA ShufflingReaches ==
  ASSUME NEW g \in Shufflings
  PROVE  \A i \in Positions : \E j \in Positions : g[j] = i
<1>1. g \in Injection(Positions, Positions)
  BY DEF Shufflings, Injection, IsInjective
<1>2. g \in Surjection(Positions, Positions) BY <1>1, PositionsFinite, FS_Injection
<1>3. QED BY <1>2 DEF Surjection

(* One shuffle after another is a shuffle,                                 *)
LEMMA ShufflingsCompose ==
  ASSUME NEW f \in Shufflings, NEW g \in Shufflings
  PROVE  [i \in Positions |-> f[g[i]]] \in Shufflings
BY DEF Shufflings

(* and so is none.                                                         *)
LEMMA SameOrder == [i \in Positions |-> i] \in Shufflings
BY DEF Shufflings

(* What MentalPoker calls a permuted deck is a shuffled one.               *)
LEMMA PermutedIsShuffled ==
  ASSUME NEW d \in [Positions -> Group], NEW r \in Permuted(d)
  PROVE  \E g \in Shufflings : r = [i \in Positions |-> d[g[i]]]
<1>1. DOMAIN d = Positions /\ Len(d) = DeckSize
  <2>1. DOMAIN d = 1..DeckSize /\ DeckSize \in Nat
    BY PokerAssumption, PrimeAssumption DEF Positions
  <2>2. d \in Seq(Group) BY <2>1, IsASeq DEF Positions
  <2>3. QED BY <2>1, <2>2, LenProperties DEF Positions
<1>2. PICK g \in [Positions -> Positions] :
             /\ Cardinality({g[i] : i \in Positions}) = DeckSize
             /\ r = [i \in Positions |-> d[g[i]]]
  BY <1>1 DEF Permuted
<1> DEFINE R == {g[i] : i \in Positions}
<1>3. g \in Surjection(Positions, R) BY DEF Surjection
<1>4. g \in Injection(Positions, R)
  <2> HIDE DEF R
  <2>1. Cardinality(R) = Cardinality(Positions) BY <1>2, PositionsFinite DEF R
  <2>2. QED BY <1>3, <2>1, PositionsFinite, FS_SurjSameCardinalityImpliesInj
<1>5. g \in Shufflings BY <1>4 DEF Injection, IsInjective, Shufflings
<1>6. QED BY <1>2, <1>5

(* The new deck is one of the group, in order.                             *)
LEMMA DeckBuilt == /\ BuildDeck \in [Positions -> Group]
                   /\ \A i \in Positions : BuildDeck[i] = i + 1
BY PokerAssumption, PrimeAssumption DEF BuildDeck, EncodeCard, Positions, Group

-----------------------------------------------------------------------------
(* The inductive invariant: every step on its way is the deck its player   *)
(* saw, encrypted and permuted; the steps taken follow each other from the *)
(* new deck to the one on the table; taking the encryption of the players  *)
(* who shuffled off the deck shows the new deck, permuted; and a card that *)
(* was dealt is the one at its position.                                   *)

(* d is prev, encrypted under e and permuted (encrypt_and_shuffle).        *)
ShuffledBy(d, prev, e) ==
  \E g \in Shufflings : \A i \in Positions : d[i] = PowMod(prev[g[i]], e)

StepsHonest ==
  \A step \in sent :
    /\ step.player \in Players
    /\ step.prev \in [Positions -> Group] /\ step.deck \in [Positions -> Group]
    /\ ShuffledBy(step.deck, step.prev, key[step.player])

HistoryCounts ==
  /\ phase \in Setup..Ready
  /\ phase = Setup => history = <<>>
  /\ phase # Setup => Len(history) = phase - 1

Shufflers == 1..Len(history)

DeckUnderneath ==
  \E g \in Shufflings : \A i \in Positions : Opened(deck[i], Shufflers) = BuildDeck[g[i]]

DealtIsThere ==
  /\ dealt \in [Positions -> [to : Players \union {Unknown}, card : Int]]
  /\ \A i \in Positions :
       IsDealt(i) => /\ phase = Ready /\ dealt[i].to \in Players
                     /\ dealt[i].card = DecodeCard(DecryptAll(deck[i]))

PokerInv ==
  /\ key \in [Players -> Keys]
  /\ deck \in [Positions -> Group]
  /\ history \in Seq(sent)
  /\ StepsHonest
  /\ HistoryCounts
  /\ ChainHolds /\ deck = FinalDeck
  /\ DeckUnderneath
  /\ DealtIsThere

(* It holds of a new session,                                              *)
LEMMA PokerInitial == PokerInit => PokerInv
<1> SUFFICES ASSUME PokerInit PROVE PokerInv OBVIOUS
<1>1. key \in [Players -> Keys] BY DEF PokerInit
<1>2. deck \in [Positions -> Group] BY DeckBuilt DEF PokerInit
<1>3. history = <<>> /\ history \in Seq(sent) /\ Len(history) = 0 BY DEF PokerInit
<1>4. StepsHonest BY DEF PokerInit, StepsHonest
<1>5. HistoryCounts
  BY PokerAssumption DEF PokerInit, HistoryCounts, Setup, Ready
<1>6. ChainHolds /\ deck = FinalDeck
  BY <1>3 DEF PokerInit, ChainHolds, FinalDeck
<1>7. DeckUnderneath
  <2>1. Shufflers = {} BY <1>3 DEF Shufflers
  <2> DEFINE g == [i \in Positions |-> i]
  <2>2. g \in Shufflings BY SameOrder
  <2>3. \A i \in Positions : Opened(deck[i], Shufflers) = BuildDeck[g[i]]
    BY <2>1, OpenedByNobody DEF PokerInit
  <2> HIDE DEF g
  <2>4. QED BY <2>2, <2>3 DEF DeckUnderneath
<1>8. DealtIsThere
  <2>1. \A i \in Positions : ~IsDealt(i) BY DEF PokerInit, IsDealt
  <2>2. QED BY <2>1 DEF PokerInit, NotDealt, DealtIsThere
<1>9. QED BY <1>1, <1>2, <1>3, <1>4, <1>5, <1>6, <1>7, <1>8 DEF PokerInv

(* What is underneath the deck is a card of the new deck.                  *)
LEMMA DeckHolds ==
  ASSUME PokerInv
  PROVE  \E g \in Shufflings : \A i \in Positions : Opened(deck[i], Shufflers) = g[i] + 1
<1>1. PICK g \in Shufflings : \A i \in Positions : Opened(deck[i], Shufflers) = BuildDeck[g[i]]
  BY DEF PokerInv, DeckUnderneath
<1>2. \A i \in Positions : g[i] \in Positions BY DEF Shufflings
<1>3. \A i \in Positions : BuildDeck[g[i]] = g[i] + 1 BY <1>2, DeckBuilt
<1>4. QED BY <1>1, <1>3

(* is kept when a player computes a step (mental_poker.rs:240),            *)
LEMMA ShuffleComputed ==
  ASSUME PokerInv, NEW n \in Players, EncryptAndShuffle(n)
  PROVE  PokerInv'
<1>1. key' = key /\ phase' = phase /\ deck' = deck /\ history' = history /\ dealt' = dealt
  BY DEF EncryptAndShuffle, session
<1>2. PICK d \in Permuted(Encrypt(deck, key[n])) :
             sent' = sent \union {[player |-> n, deck |-> d, prev |-> deck]}
  BY DEF EncryptAndShuffle
<1>3. key[n] \in Nat BY KeyType DEF PokerInv
<1> DEFINE c == Encrypt(deck, key[n])
<1>4. c \in [Positions -> Group] /\ \A i \in Positions : c[i] = PowMod(deck[i], key[n])
  BY <1>3, PowerInGroup DEF PokerInv, Encrypt
<1>5. PICK g \in Shufflings : d = [i \in Positions |-> c[g[i]]]
  BY <1>2, <1>4, PermutedIsShuffled
<1>6. \A i \in Positions : g[i] \in Positions BY DEF Shufflings
<1>7. d \in [Positions -> Group] BY <1>4, <1>5, <1>6
<1>8. ShuffledBy(d, deck, key[n])
  <2>1. \A i \in Positions : d[i] = PowMod(deck[g[i]], key[n]) BY <1>4, <1>5, <1>6
  <2>2. QED BY <2>1 DEF ShuffledBy
<1>9. StepsHonest'
  <2> SUFFICES ASSUME NEW step \in sent'
               PROVE  /\ step.player \in Players
                      /\ step.prev \in [Positions -> Group] /\ step.deck \in [Positions -> Group]
                      /\ ShuffledBy(step.deck, step.prev, key[step.player])
    BY <1>1 DEF StepsHonest, ShuffledBy
  <2>1. CASE step \in sent BY <2>1 DEF PokerInv, StepsHonest
  <2>2. CASE step = [player |-> n, deck |-> d, prev |-> deck]
    BY <2>2, <1>7, <1>8 DEF PokerInv
  <2>3. QED BY <2>1, <2>2, <1>2
<1>10. (history \in Seq(sent))'
  <2>1. sent \subseteq sent' BY <1>2
  <2>2. QED BY <1>1, <2>1, SeqMonotonic DEF PokerInv
<1>11. HistoryCounts' BY <1>1 DEF PokerInv, HistoryCounts
<1>12. (ChainHolds /\ deck = FinalDeck)' BY <1>1 DEF PokerInv, ChainHolds, FinalDeck
<1>13. DeckUnderneath'
  BY <1>1, OpenedStays DEF PokerInv, DeckUnderneath, Shufflers
<1>14. DealtIsThere'
  BY <1>1, OpenedStays DEF PokerInv, DealtIsThere, DecryptAll, IsDealt
<1>15. QED
  BY <1>1, <1>9, <1>10, <1>11, <1>12, <1>13, <1>14 DEF PokerInv

(* when the session takes one (mental_poker.rs:462): the encryption of one *)
(* player more is on the deck and its order is another,                    *)
LEMMA ShuffleApplied ==
  ASSUME PokerInv, NEW step \in sent, ApplyShuffleStep(step)
  PROVE  PokerInv'
<1>1. key' = key /\ sent' = sent /\ dealt' = dealt BY DEF ApplyShuffleStep
<1>2. phase # Ready /\ phase \in Setup..Ready BY DEF ApplyShuffleStep, PokerInv, HistoryCounts
<1>3. Expected \in 1..NumPlayers /\ Len(history) = Expected - 1
  BY <1>2, PokerAssumption DEF Expected, PokerInv, HistoryCounts, Setup, Ready
<1>4. StepsHonest' BY <1>1 DEF PokerInv, StepsHonest, ShuffledBy
<1>5. \A i \in Positions : ~IsDealt(i) BY <1>2 DEF PokerInv, DealtIsThere
<1>6. DealtIsThere' BY <1>1, <1>5 DEF PokerInv, DealtIsThere, IsDealt
<1>7. CASE ~Fits(step)
  <2>1. phase' = Expected /\ deck' = deck /\ history' = history
    BY <1>7 DEF ApplyShuffleStep
  <2>2. HistoryCounts'
    BY <2>1, <1>3, PokerAssumption DEF HistoryCounts, Setup, Ready
  <2>3. (ChainHolds /\ deck = FinalDeck)' BY <2>1 DEF PokerInv, ChainHolds, FinalDeck
  <2>4. DeckUnderneath'
    BY <1>1, <2>1, OpenedStays DEF PokerInv, DeckUnderneath, Shufflers
  <2>5. QED BY <1>1, <1>4, <1>6, <2>1, <2>2, <2>3, <2>4 DEF PokerInv
<1>8. CASE Fits(step)
  <2>1. /\ deck' = step.deck /\ phase' = Expected + 1
        /\ history' = Append(history, step)
    BY <1>8 DEF ApplyShuffleStep
  <2>2. step.player = Expected /\ step.prev = deck BY <1>8 DEF Fits
  <2>3. history \in Seq(sent) BY DEF PokerInv
  <2>4. /\ history' \in Seq(sent) /\ Len(history') = Len(history) + 1
        /\ \A k \in 1..Len(history) : history'[k] = history[k]
        /\ history'[Len(history) + 1] = step
    BY <2>1, <2>3, AppendProperties
  <2>5. HistoryCounts'
    BY <2>1, <2>4, <1>3, PokerAssumption DEF HistoryCounts, Setup, Ready
  <2>6. step.deck \in [Positions -> Group] /\ ShuffledBy(step.deck, deck, key[Expected])
    BY <2>2 DEF PokerInv, StepsHonest
  <2>7. (deck = FinalDeck)'
    <3>1. history' # <<>> /\ Last(history') = step BY <2>4, <1>3 DEF Last
    <3>2. QED BY <3>1, <2>1 DEF FinalDeck
  <2>8. ChainHolds'
    <3> DEFINE N == Len(history)
    <3>1. N \in Nat /\ DOMAIN history = 1..N /\ DOMAIN history' = 1..(N + 1)
      BY <2>3, <2>4, LenProperties
    <3>2. ASSUME NEW k \in 1..(N + 1)
          PROVE  history'[k].prev = IF k = 1 THEN BuildDeck ELSE history'[k - 1].deck
      <4>1. CASE k \in 1..N
        <5>1. history[k].prev = IF k = 1 THEN BuildDeck ELSE history[k - 1].deck
          BY <4>1, <3>1 DEF PokerInv, ChainHolds
        <5>2. history'[k] = history[k] /\ (k # 1 => history'[k - 1] = history[k - 1])
          BY <4>1, <3>1, <2>4
        <5>3. QED BY <5>1, <5>2
      <4>2. CASE k = N + 1
        <5>1. history'[k].prev = deck BY <4>2, <2>2, <2>4
        <5>2. CASE N = 0
          <6>1. history = <<>> BY <5>2, <2>3, EmptySeq
          <6>2. deck = BuildDeck BY <6>1 DEF PokerInv, FinalDeck
          <6>3. QED BY <5>1, <5>2, <6>2, <4>2
        <5>3. CASE N # 0
          <6>1. history # <<>> /\ deck = history[N].deck
            BY <5>3, <3>1 DEF PokerInv, FinalDeck, Last
          <6>2. k # 1 /\ k - 1 = N /\ history'[k - 1] = history[N] BY <4>2, <5>3, <3>1, <2>4
          <6>3. QED BY <5>1, <6>1, <6>2
        <5>4. QED BY <5>2, <5>3
      <4>3. QED BY <4>1, <4>2, <3>1
    <3>3. QED BY <3>1, <3>2 DEF ChainHolds
  <2>9. DeckUnderneath'
    <3>1. PICK g \in Shufflings : \A i \in Positions : step.deck[i] = PowMod(deck[g[i]], key[Expected])
      BY <2>6 DEF ShuffledBy
    <3>2. PICK h \in Shufflings : \A i \in Positions : Opened(deck[i], Shufflers) = BuildDeck[h[i]]
      BY DEF PokerInv, DeckUnderneath
    <3> DEFINE r == [i \in Positions |-> h[g[i]]]
    <3>3. r \in Shufflings BY ShufflingsCompose
    <3>4. Shufflers' = Shufflers \union {Expected} /\ Expected \in Players \ Shufflers
      BY <2>4, <1>3, PokerAssumption DEF Shufflers, Players
    <3>5. ASSUME NEW i \in Positions
          PROVE  Opened(step.deck[i], Shufflers \union {Expected}) = BuildDeck[r[i]]
      <4> DEFINE e == key[Expected]
      <4> DEFINE x == deck[g[i]]
      <4>1. g[i] \in Positions /\ x \in Group BY DEF Shufflings, PokerInv
      <4>2. e \in Keys /\ e \in Nat /\ key \in [Players -> Keys]
        BY <3>4, KeyType DEF PokerInv
      <4>3. step.deck[i] = PowMod(x, e) BY <3>1
      <4>4. PowMod(x, e) \in Group BY <4>1, <4>2, PowerInGroup
      <4>5. Opened(step.deck[i], Shufflers \union {Expected})
              = PowMod(Opened(PowMod(x, e), Shufflers), DecryptKey(e))
        BY <3>4, <4>2, <4>3, <4>4, OpenedByOneMore
      <4>6. Opened(PowMod(x, e), Shufflers) = PowMod(Opened(x, Shufflers), e)
        BY <4>1, <4>2, OpenedCommutes
      <4>7. Opened(x, Shufflers) \in Group BY <4>1, <4>2, OpenedInGroup
      <4>8. PowMod(PowMod(Opened(x, Shufflers), e), DecryptKey(e)) = Opened(x, Shufflers)
        BY <4>2, <4>7, KeyInverts
      <4>9. Opened(x, Shufflers) = BuildDeck[h[g[i]]] BY <3>2, <4>1
      <4>10. QED BY <4>5, <4>6, <4>8, <4>9
    <3> HIDE DEF r
    <3>6. ASSUME NEW i \in Positions
          PROVE  Opened(deck[i], Shufflers)' = BuildDeck[r[i]]
      <4>1. deck'[i] = step.deck[i] /\ Shufflers' = Shufflers \union {Expected} BY <2>1, <3>4
      <4>2. Opened(deck[i], Shufflers)' = Opened(step.deck[i], Shufflers \union {Expected})
        BY <1>1, <4>1 DEF Opened
      <4>3. QED BY <4>2, <3>5
    <3>7. QED BY <3>3, <3>6 DEF DeckUnderneath
  <2>10. QED
    BY <1>1, <1>4, <1>6, <2>1, <2>4, <2>5, <2>6, <2>7, <2>8, <2>9 DEF PokerInv
<1>9. QED BY <1>7, <1>8

(* and when a card is dealt (mental_poker.rs:518);                         *)
LEMMA CardRecorded ==
  ASSUME PokerInv, NEW i \in Positions, NEW n \in Players, RecordDeal(i, n)
  PROVE  PokerInv'
<1>1. /\ key' = key /\ sent' = sent /\ phase' = phase /\ deck' = deck /\ history' = history
      /\ phase = Ready
      /\ dealt' = [dealt EXCEPT ![i] =
                     [to |-> n, card |-> DecodeCard(DealWithKeys(deck[i], n))]]
  BY DEF RecordDeal, MayDeal
<1>2. DealWithKeys(deck[i], n) = DecryptAll(deck[i])
  <2>1. deck[i] \in Group /\ key \in [Players -> Keys] BY DEF PokerInv
  <2>2. n \in Players \ (Players \ {n}) /\ Players = (Players \ {n}) \union {n} OBVIOUS
  <2>3. QED BY <2>1, <2>2, OpenedByOneMore DEF DealWithKeys, DecryptAll
<1>3. DecodeCard(DecryptAll(deck[i])) \in Int
  <2>1. DecryptAll(deck[i]) \in Group BY OpenedInGroup DEF PokerInv, DecryptAll
  <2>2. QED BY <2>1, GroupIsInt DEF DecodeCard
<1>4. DealtIsThere'
  <2>1. dealt' \in [Positions -> [to : Players \union {Unknown}, card : Int]]
    BY <1>1, <1>2, <1>3 DEF PokerInv, DealtIsThere
  <2>2. ASSUME NEW j \in Positions, IsDealt(j)'
        PROVE  dealt'[j].to \in Players /\ dealt'[j].card = DecodeCard(DecryptAll(deck[j]))
    <3>1. CASE j = i BY <3>1, <1>1, <1>2 DEF PokerInv, DealtIsThere
    <3>2. CASE j # i
      <4>1. dealt'[j] = dealt[j] BY <3>2, <1>1 DEF PokerInv, DealtIsThere
      <4>2. IsDealt(j) BY <2>2, <4>1 DEF IsDealt
      <4>3. QED BY <4>1, <4>2 DEF PokerInv, DealtIsThere
    <3>3. QED BY <3>1, <3>2
  <2>3. \A j \in Positions : DecryptAll(deck[j])' = DecryptAll(deck[j])
    BY <1>1, OpenedStays DEF DecryptAll
  <2>4. QED BY <2>1, <2>2, <2>3, <1>1 DEF DealtIsThere
<1>5. StepsHonest' BY <1>1 DEF PokerInv, StepsHonest, ShuffledBy
<1>6. HistoryCounts' BY <1>1 DEF PokerInv, HistoryCounts
<1>7. (ChainHolds /\ deck = FinalDeck)' BY <1>1 DEF PokerInv, ChainHolds, FinalDeck
<1>8. DeckUnderneath'
  BY <1>1, OpenedStays DEF PokerInv, DeckUnderneath, Shufflers
<1>9. QED BY <1>1, <1>4, <1>5, <1>6, <1>7, <1>8 DEF PokerInv

(* so it is inductive,                                                     *)
LEMMA PokerInductive == PokerInv /\ [PokerNext]_vars => PokerInv'
<1> SUFFICES ASSUME PokerInv, [PokerNext]_vars PROVE PokerInv' OBVIOUS
<1>1. ASSUME NEW n \in Players, EncryptAndShuffle(n) PROVE PokerInv'
  BY <1>1, ShuffleComputed
<1>2. ASSUME NEW step \in sent, ApplyShuffleStep(step) PROVE PokerInv'
  BY <1>2, ShuffleApplied
<1>3. ASSUME NEW i \in Positions, NEW n \in Players, RecordDeal(i, n) PROVE PokerInv'
  BY <1>3, CardRecorded
<1>4. CASE UNCHANGED vars
  <2>1. /\ key' = key /\ sent' = sent /\ phase' = phase /\ deck' = deck
        /\ history' = history /\ dealt' = dealt
    BY <1>4 DEF vars, session
  <2>2. StepsHonest' BY <2>1 DEF PokerInv, StepsHonest, ShuffledBy
  <2>3. HistoryCounts' BY <2>1 DEF PokerInv, HistoryCounts
  <2>4. (ChainHolds /\ deck = FinalDeck)' BY <2>1 DEF PokerInv, ChainHolds, FinalDeck
  <2>5. DeckUnderneath' BY <2>1, OpenedStays DEF PokerInv, DeckUnderneath, Shufflers
  <2>6. DealtIsThere'
    BY <2>1, OpenedStays DEF PokerInv, DealtIsThere, DecryptAll, IsDealt
  <2>7. QED BY <2>1, <2>2, <2>3, <2>4, <2>5, <2>6 DEF PokerInv
<1>5. QED BY <1>1, <1>2, <1>3, <1>4 DEF PokerNext

(* and an invariant.                                                       *)
LEMMA PokerInvariant == PokerSpec => []PokerInv
<1> QED BY PokerInitial, PokerInductive, PTL DEF PokerSpec

(* Type correctness: cards stay in the group under every encryption, the   *)
(* history consists of steps that players sent.                            *)
THEOREM PokerTypeCorrect == PokerSpec => []PokerTypeOK
<1>1. PokerInv => PokerTypeOK
  BY DEF PokerInv, PokerTypeOK, StepsHonest, HistoryCounts, DealtIsThere
<1>2. QED BY <1>1, PokerInvariant, PTL

(* With everybody through, all keys show at each position a card of its own. *)
LEMMA OpenDeck ==
  ASSUME PokerInv, phase = Ready
  PROVE  \E g \in Shufflings : \A i \in Positions : DecryptAll(deck[i]) = g[i] + 1
<1>1. Shufflers = Players
  BY PokerAssumption DEF PokerInv, HistoryCounts, Shufflers, Players, Setup, Ready
<1>2. QED BY <1>1, DeckHolds DEF DecryptAll

(* When all players have shuffled, the deck holds every card once, whatever *)
(* the players chose and however steps were repeated or delayed: keys of   *)
(* all players together open it to the deck of cards it was built from     *)
(* (mental_poker.rs:321).                                                  *)
THEOREM DeckIsComplete == PokerSpec => []DeckIsAllCards
<1>1. PokerInv => DeckIsAllCards
  <2> SUFFICES ASSUME PokerInv, phase = Ready
               PROVE  {DecryptAll(deck[i]) : i \in Positions} = {EncodeCard(c) : c \in Cards}
    BY DEF DeckIsAllCards
  <2>1. PICK g \in Shufflings : \A i \in Positions : DecryptAll(deck[i]) = g[i] + 1
    BY OpenDeck
  <2>2. ASSUME NEW i \in Positions PROVE DecryptAll(deck[i]) \in {EncodeCard(c) : c \in Cards}
    <3>1. g[i] \in Positions BY DEF Shufflings
    <3>2. g[i] - 1 \in Cards /\ EncodeCard(g[i] - 1) = g[i] + 1
      BY <3>1, PokerAssumption, PrimeAssumption DEF Positions, Cards, EncodeCard
    <3>3. QED BY <2>1, <3>2
  <2>3. ASSUME NEW c \in Cards PROVE EncodeCard(c) \in {DecryptAll(deck[i]) : i \in Positions}
    <3>1. c + 1 \in Positions /\ EncodeCard(c) = (c + 1) + 1
      BY PokerAssumption, PrimeAssumption DEF Positions, Cards, EncodeCard
    <3>2. PICK i \in Positions : g[i] = c + 1 BY <3>1, ShufflingReaches
    <3>3. DecryptAll(deck[i]) = EncodeCard(c) BY <2>1, <3>1, <3>2
    <3>4. QED BY <3>3
  <2>4. QED BY <2>2, <2>3
<1>2. QED BY <1>1, PokerInvariant, PTL

(* verify_game accepts every game whose players followed the protocol, at  *)
(* every moment of it: the chain of decks is whole and what was dealt is   *)
(* what the keys show (mental_poker.rs:338).                               *)
THEOREM HonestGamesVerify == PokerSpec => []HonestGameVerifies
<1>1. PokerInv => HonestGameVerifies
  <2> SUFFICES ASSUME PokerInv PROVE VerifyGame BY DEF HonestGameVerifies
  <2>1. ChainHolds /\ FinalDeck = deck BY DEF PokerInv
  <2>2. ASSUME NEW i \in Positions, IsDealt(i)
        PROVE  DecryptAll(FinalDeck[i]) = EncodeCard(dealt[i].card)
    <3>1. dealt[i].card = DecodeCard(DecryptAll(deck[i])) BY <2>2 DEF PokerInv, DealtIsThere
    <3>2. DecryptAll(deck[i]) \in Int
      BY OpenedInGroup, GroupIsInt DEF PokerInv, DecryptAll
    <3>3. EncodeCard(DecodeCard(DecryptAll(deck[i]))) = DecryptAll(deck[i])
      BY <3>2 DEF EncodeCard, DecodeCard
    <3>4. QED BY <2>1, <3>1, <3>3
  <2>3. QED BY <2>1, <2>2 DEF VerifyGame
<1>2. QED BY <1>1, PokerInvariant, PTL

-----------------------------------------------------------------------------
(* The order of keys *)

(* sra_decrypt with the keys of a list of players, first to last.          *)
OpenedInOrder(x, order) ==
  LET opened[k \in 0..Len(order)] ==
        IF k = 0 THEN x ELSE PowMod(opened[k - 1], DecryptKey(key[order[k]]))
  IN opened[Len(order)]

(* The function that it defines by recursion exists.                       *)
LEMMA OpenedInOrderDefined ==
  ASSUME NEW x, NEW order, Len(order) \in Nat
  PROVE  \E f : /\ f[0] = x
                /\ \A k \in 1..Len(order) : f[k] = PowMod(f[k - 1], DecryptKey(key[order[k]]))
                /\ OpenedInOrder(x, order) = f[Len(order)]
<1> DEFINE Q(n, u) == u = [k \in 0..n |->
                             IF k = 0 THEN x ELSE PowMod(u[k - 1], DecryptKey(key[order[k]]))]
<1> DEFINE S == {n \in Nat : \E u : Q(n, u)}
<1>1. 0 \in S
  <2>1. Q(0, [k \in 0..0 |-> x]) OBVIOUS
  <2>2. QED BY <2>1
<1>2. ASSUME NEW n \in Nat, n \in S
      PROVE  n + 1 \in S
  <2>1. PICK f : Q(n, f) BY <1>2
  <2> DEFINE g == [k \in 0..(n + 1) |->
                     IF k = n + 1 THEN PowMod(f[n], DecryptKey(key[order[n + 1]])) ELSE f[k]]
  <2>2. ASSUME NEW k \in 0..(n + 1)
        PROVE  g[k] = IF k = 0 THEN x ELSE PowMod(g[k - 1], DecryptKey(key[order[k]]))
    <3>1. CASE k = n + 1
      <4>1. k # 0 /\ k - 1 = n /\ g[k - 1] = f[n] BY <3>1
      <4>2. QED BY <3>1, <4>1
    <3>2. CASE k \in 0..n
      <4>1. f[k] = IF k = 0 THEN x ELSE PowMod(f[k - 1], DecryptKey(key[order[k]]))
        BY <2>1, <3>2
      <4>2. g[k] = f[k] /\ (k # 0 => g[k - 1] = f[k - 1]) BY <3>2
      <4>3. QED BY <4>1, <4>2
    <3>3. QED BY <3>1, <3>2
  <2>3. Q(n + 1, g)
    <3> HIDE DEF g
    <3>1. g = [k \in 0..(n + 1) |-> g[k]] BY DEF g
    <3>2. QED BY <3>1, <2>2
  <2>4. \E u : Q(n + 1, u) BY <2>3
  <2> HIDE DEF Q
  <2>5. QED BY <2>4
<1> HIDE DEF S
<1>3. Len(order) \in S BY <1>1, <1>2, Induction
<1>4. \E u : Q(Len(order), u) BY <1>3 DEF S
<1> DEFINE h == CHOOSE u : Q(Len(order), u)
<1>5. Q(Len(order), h) BY <1>4
<1>6. OpenedInOrder(x, order) = h[Len(order)] BY DEF OpenedInOrder
<1> HIDE DEF h
<1>7. h[0] = x BY <1>5
<1>8. \A k \in 1..Len(order) : h[k] = PowMod(h[k - 1], DecryptKey(key[order[k]])) BY <1>5
<1>9. QED BY <1>6, <1>7, <1>8

(* A list of players, none of them twice.                                  *)
IsOrder(order) ==
  /\ order \in Seq(Players)
  /\ \A i, j \in 1..Len(order) : order[i] = order[j] => i = j

(* Every order of the same keys opens a card in the same way.              *)
LEMMA AnyOrder ==
  ASSUME key \in [Players -> Keys], NEW x \in Group, NEW order, IsOrder(order)
  PROVE  OpenedInOrder(x, order) = Opened(x, {order[i] : i \in 1..Len(order)})
<1>0. Len(order) \in Nat /\ \A i \in 1..Len(order) : order[i] \in Players
  BY LenProperties, ElementOfSeq DEF IsOrder
<1>1. PICK f : /\ f[0] = x
               /\ \A k \in 1..Len(order) : f[k] = PowMod(f[k - 1], DecryptKey(key[order[k]]))
               /\ OpenedInOrder(x, order) = f[Len(order)]
  <2>1. Len(order) \in Nat BY <1>0
  <2>2. QED BY <2>1, OpenedInOrderDefined
<1> DEFINE First(k) == {order[i] : i \in 1..k}
<1> DEFINE S == {k \in Nat : k <= Len(order) => f[k] = Opened(x, First(k))}
<1>2. 0 \in S
  <2>1. First(0) = {} OBVIOUS
  <2>2. QED BY <2>1, <1>1, OpenedByNobody
<1>3. ASSUME NEW k \in Nat, k \in S
      PROVE  k + 1 \in S
  <2> SUFFICES ASSUME k + 1 <= Len(order) PROVE f[k + 1] = Opened(x, First(k + 1)) OBVIOUS
  <2> DEFINE p == order[k + 1]
  <2>1. k + 1 \in 1..Len(order) /\ (k + 1) - 1 = k /\ k <= Len(order) BY <1>0
  <2>2. f[k + 1] = PowMod(f[k], DecryptKey(key[p])) BY <1>1, <2>1
  <2>3. f[k] = Opened(x, First(k)) BY <1>3, <2>1
  <2>4. First(k + 1) = First(k) \union {p}
    <3>1. \A i \in 1..(k + 1) : i \in 1..k \/ i = k + 1 OBVIOUS
    <3>2. 1..k \subseteq 1..(k + 1) /\ k + 1 \in 1..(k + 1) OBVIOUS
    <3>3. QED BY <3>1, <3>2
  <2>5. p \in Players \ First(k)
    <3>1. \A i \in 1..k : i \in 1..Len(order) /\ i # k + 1 BY <1>0, <2>1
    <3>2. \A i \in 1..k : order[i] # p BY <3>1, <2>1 DEF IsOrder
    <3>3. QED BY <3>2, <1>0, <2>1
  <2> HIDE DEF First, p
  <2>6. QED BY <2>2, <2>3, <2>4, <2>5, OpenedByOneMore
<1>4. Len(order) \in S
  <2> HIDE DEF S
  <2>1. QED BY <1>0, <1>2, <1>3, Induction
<1>5. QED BY <1>0, <1>1, <1>4

(* "Order doesn't matter (SRA commutativity)" (mental_poker.rs:320): at    *)
(* every moment of a session, taking the players' encryptions off in any   *)
(* order shows the card that the model's order shows, whoever of them      *)
(* receives it and adds his key last (deal_card_with_keys).                *)
THEOREM KeysInAnyOrder ==
  PokerSpec => [](\A i \in Positions : \A order :
                    IsOrder(order) /\ {order[k] : k \in 1..Len(order)} = Players
                    => OpenedInOrder(deck[i], order) = DecryptAll(deck[i]))
<1>1. PokerInv => \A i \in Positions : \A order :
                    IsOrder(order) /\ {order[k] : k \in 1..Len(order)} = Players
                    => OpenedInOrder(deck[i], order) = DecryptAll(deck[i])
  <2> SUFFICES ASSUME PokerInv, NEW i \in Positions, NEW order, IsOrder(order),
                      {order[k] : k \in 1..Len(order)} = Players
               PROVE  OpenedInOrder(deck[i], order) = DecryptAll(deck[i])
    OBVIOUS
  <2>1. key \in [Players -> Keys] /\ deck[i] \in Group BY DEF PokerInv
  <2>2. QED BY <2>1, AnyOrder DEF DecryptAll
<1>2. QED BY <1>1, PokerInvariant, PTL

-----------------------------------------------------------------------------
(* The session implements the dealer *)

(* The position that holds a card is the only one it was dealt from.       *)
LEMMA HolderFound ==
  ASSUME NEW d \in [Positions -> [to : Players \union {Unknown}, card : Int]],
         NEW g \in Shufflings,
         \A i \in Positions : d[i] # NotDealt => d[i].card = g[i] - 1,
         NEW j \in Positions, d[j] # NotDealt
  PROVE  {i \in Positions : d[i] # NotDealt /\ d[i].card = d[j].card} = {j}
<1>1. ASSUME NEW i \in Positions, d[i] # NotDealt, d[i].card = d[j].card
      PROVE  i = j
  <2>1. g[i] \in Int /\ g[j] \in Int BY DEF Shufflings, Positions
  <2>2. g[i] = g[j] BY <1>1, <2>1
  <2>3. QED BY <2>2 DEF Shufflings
<1>2. QED BY <1>1

(* Dealing a position deals the card that lies there, which nobody holds.  *)
LEMMA DealIsDealTo ==
  ASSUME PokerInv, PokerInv', NEW i \in Positions, NEW n \in Players, RecordDeal(i, n)
  PROVE  Ideal!DealTo(n)
<1>1. /\ phase = Ready /\ ~IsDealt(i)
      /\ dealt' = [dealt EXCEPT ![i] =
                     [to |-> n, card |-> DecodeCard(DealWithKeys(deck[i], n))]]
      /\ key' = key /\ deck' = deck
  BY DEF RecordDeal, MayDeal
<1>2. PICK g \in Shufflings : \A j \in Positions : DecryptAll(deck[j]) = g[j] + 1
  BY <1>1, OpenDeck
<1>3. \A j \in Positions : g[j] \in Positions /\ g[j] \in Int BY DEF Shufflings, Positions
<1>4. \A j \in Positions : DecodeCard(DecryptAll(deck[j])) = g[j] - 1
  BY <1>2, <1>3 DEF DecodeCard
<1>5. /\ dealt \in [Positions -> [to : Players \union {Unknown}, card : Int]]
      /\ dealt' \in [Positions -> [to : Players \union {Unknown}, card : Int]]
  BY DEF PokerInv, DealtIsThere
<1>6. \A j \in Positions : dealt[j] # NotDealt => dealt[j].card = g[j] - 1
  BY <1>4 DEF PokerInv, DealtIsThere, IsDealt
<1>7. \A j \in Positions : dealt'[j] # NotDealt => dealt'[j].card = g[j] - 1
  <2>1. \A j \in Positions : DecryptAll(deck[j])' = DecryptAll(deck[j])
    BY <1>1, OpenedStays DEF DecryptAll
  <2>2. \A j \in Positions : dealt'[j] # NotDealt
          => dealt'[j].card = DecodeCard(DecryptAll(deck[j])')
    BY DEF PokerInv, DealtIsThere, IsDealt
  <2>3. QED BY <2>1, <2>2, <1>4
<1> DEFINE c == g[i] - 1
<1>8. c \in Cards BY <1>3, PokerAssumption, PrimeAssumption DEF Positions, Cards
<1>9. dealt'[i].to = n /\ dealt'[i] # NotDealt /\ dealt'[i].card = c
  <2>1. dealt'[i].to = n BY <1>1, <1>5
  <2>2. n # Unknown BY DEF Players, Unknown
  <2>3. dealt'[i] # NotDealt BY <2>1, <2>2 DEF NotDealt
  <2>4. QED BY <2>1, <2>3, <1>7
<1>10. CardHolder(c) = Unknown
  <2>1. ~\E j \in Positions : IsDealt(j) /\ dealt[j].card = c
    <3> SUFFICES ASSUME NEW j \in Positions, IsDealt(j), dealt[j].card = c PROVE FALSE
      OBVIOUS
    <3>1. g[j] - 1 = g[i] - 1 BY <1>6 DEF IsDealt
    <3>2. g[j] = g[i] BY <3>1, <1>3
    <3>3. j = i BY <3>2 DEF Shufflings
    <3>4. QED BY <3>3, <1>1
  <2>2. {j \in Positions : IsDealt(j) /\ dealt[j].card = c} = {} BY <2>1
  <2> HIDE DEF c
  <2>3. QED BY <2>2 DEF CardHolder
<1>11. CardHolder(c)' = n
  <2>1. {j \in Positions : dealt'[j] # NotDealt /\ dealt'[j].card = dealt'[i].card} = {i}
    BY <1>5, <1>7, <1>9, HolderFound
  <2>2. {j \in Positions : IsDealt(j) /\ dealt[j].card = c}' = {i}
    BY <2>1, <1>9 DEF IsDealt
  <2> HIDE DEF c
  <2>3. QED BY <2>2, <1>9 DEF CardHolder
<1>12. ASSUME NEW a \in Cards, a # c PROVE CardHolder(a)' = CardHolder(a)
  <2> DEFINE at == {j \in Positions : IsDealt(j) /\ dealt[j].card = a}
  <2>1. at' = at
    <3>1. \A j \in Positions : j # i => dealt'[j] = dealt[j] BY <1>1, <1>5
    <3>2. i \notin at BY <1>1
    <3>3. i \notin at' BY <1>9, <1>12
    <3>4. \A j \in Positions : j \in at' <=> j \in at BY <3>1, <3>2, <3>3 DEF IsDealt
    <3>5. QED BY <3>4
  <2>2. \A j \in at : dealt'[j] = dealt[j] BY <1>1, <1>5
  <2>3. CardHolder(a) = IF at = {} THEN Unknown ELSE dealt[CHOOSE j \in at : TRUE].to
    BY DEF CardHolder
  <2>4. CardHolder(a)' = IF at' = {} THEN Unknown ELSE dealt'[CHOOSE j \in at' : TRUE].to
    BY DEF CardHolder
  <2> HIDE DEF at
  <2>5. QED BY <2>1, <2>2, <2>3, <2>4
<1> HIDE DEF c
<1>13. /\ [b \in Cards |-> CardHolder(b)][c] = Unknown
       /\ [b \in Cards |-> CardHolder(b)]'
            = [[b \in Cards |-> CardHolder(b)] EXCEPT ![c] = n]
  BY <1>8, <1>10, <1>11, <1>12
<1>14. QED BY <1>8, <1>13 DEF Ideal!DealTo

(* To the players the session is a dealer with one deck: it implements     *)
(* Dealer, in which each card goes to at most one player and stays there   *)
(* (mental_poker.rs:518).                                                  *)
THEOREM DealsFromOneDeck == PokerSpec => ImplementsDealer
<1>1. PokerInit => Ideal!DealerInit
  <2> SUFFICES ASSUME PokerInit PROVE Ideal!DealerInit OBVIOUS
  <2>1. \A i \in Positions : ~IsDealt(i) BY DEF PokerInit, IsDealt
  <2>2. \A b \in Cards : CardHolder(b) = Unknown BY <2>1 DEF CardHolder
  <2>3. QED BY <2>2 DEF Ideal!DealerInit
<1>2. PokerInv /\ PokerInv' /\ [PokerNext]_vars => [Ideal!DealerNext]_[c \in Cards |-> CardHolder(c)]
  <2> SUFFICES ASSUME PokerInv, PokerInv', [PokerNext]_vars
               PROVE  [Ideal!DealerNext]_[c \in Cards |-> CardHolder(c)]
    OBVIOUS
  <2>1. CASE dealt' = dealt
    <3>1. [c \in Cards |-> CardHolder(c)]' = [c \in Cards |-> CardHolder(c)]
      BY <2>1 DEF CardHolder, IsDealt
    <3>2. QED BY <3>1
  <2>2. ASSUME NEW i \in Positions, NEW n \in Players, RecordDeal(i, n)
        PROVE  Ideal!DealerNext
    BY <2>2, DealIsDealTo DEF Ideal!DealerNext
  <2>3. QED
    BY <2>1, <2>2 DEF PokerNext, EncryptAndShuffle, ApplyShuffleStep, vars, session
<1>3. QED
  BY <1>1, <1>2, PokerInvariant, PTL DEF ImplementsDealer, Ideal!DealerSpec, PokerSpec
=============================================================================
