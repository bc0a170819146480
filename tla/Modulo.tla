------------------------------- MODULE Modulo -------------------------------
(***************************************************************************)
(* Remainders, for rings whose unsigned indices wrap around: n places, and *)
(* indices modulo a multiple of n.                                         *)
(***************************************************************************)
EXTENDS Integers, TLAPS

(* Quotient and remainder. *)
LEMMA ModDef ==
  ASSUME NEW a \in Int, NEW n \in Nat \ {0}
  PROVE  a = (a \div n) * n + (a % n) /\ a \div n \in Int /\ a % n \in 0 .. n - 1
BY Z3

(* They are unique. *)
LEMMA ModUnique ==
  ASSUME NEW n \in Nat \ {0}, NEW q \in Int, NEW a \in 0 .. n - 1
  PROVE  (q * n + a) % n = a
BY Z3

(* The remainder of a number less than one turn away from 0 .. n - 1. *)
LEMMA ModNear ==
  ASSUME NEW n \in Nat \ {0}, NEW a \in -n .. 2 * n - 1
  PROVE  a % n = IF a < 0 THEN a + n ELSE IF a < n THEN a ELSE a - n
<1>1. CASE a < 0 BY <1>1, ModUnique, Z3
<1>2. CASE a >= 0 /\ a < n BY <1>2, Z3
<1>3. CASE a >= n BY <1>3, Z3
<1> QED BY <1>1, <1>2, <1>3

(* Whole turns do not change it. *)
LEMMA ModTurns ==
  ASSUME NEW a \in Int, NEW n \in Nat \ {0}, NEW k \in Int
  PROVE  (a + k * n) % n = a % n
<1> DEFINE q == a \div n
           m == a % n
<1>1. a = q * n + m /\ q \in Int /\ m \in 0 .. n - 1 BY ModDef
<1> HIDE DEF q, m
<1>2. a + k * n = (q + k) * n + m BY <1>1
<1>3. ((q + k) * n + m) % n = m BY <1>1, ModUnique
<1> QED BY <1>2, <1>3 DEF m

(* Numbers less than a turn apart have different remainders. *)
LEMMA ModApart ==
  ASSUME NEW a \in Int, NEW b \in Int, NEW n \in Nat \ {0}, a <= b, b < a + n, a % n = b % n
  PROVE  a = b
<1> DEFINE q == a \div n
           m == a % n
           p == b \div n
           l == b % n
<1>1. a = q * n + m /\ q \in Int /\ m \in 0 .. n - 1 BY ModDef
<1>2. b = p * n + l /\ p \in Int /\ l \in 0 .. n - 1 BY ModDef
<1>3. m = l OBVIOUS
<1> HIDE DEF q, m, p, l
<1>4. b - a = (p - q) * n BY <1>1, <1>2, <1>3
<1>5. p - q = 0 BY <1>4, <1>1, <1>2
<1> QED BY <1>1, <1>2, <1>3, <1>5

(* An index modulo a multiple of n names the same place. *)
LEMMA ModMod ==
  ASSUME NEW a \in Int, NEW n \in Nat \ {0}, NEW w \in Nat \ {0}, w % n = 0
  PROVE  (a % w) % n = a % n
<1> DEFINE q == a \div w
           m == a % w
           k == w \div n
           j == q * k
<1>1. a = q * w + m /\ q \in Int /\ m \in 0 .. w - 1 BY ModDef
<1>2. w = k * n /\ k \in Int BY ModDef
<1> HIDE DEF q, m, k
<1>3. a = m + j * n BY <1>1, <1>2
<1>4. j \in Int /\ m \in Int BY <1>1, <1>2
<1> HIDE DEF j
<1>5. (m + j * n) % n = m % n BY <1>4, ModTurns, Zenon
<1> QED BY <1>3, <1>5 DEF m

(* A remainder may be taken before adding. *)
LEMMA ModPlus ==
  ASSUME NEW a \in Int, NEW b \in Int, NEW n \in Nat \ {0}
  PROVE  ((a % n) + b) % n = (a + b) % n
<1> DEFINE q == a \div n
           m == a % n
           c == m + b
<1>1. a = q * n + m /\ q \in Int /\ m \in 0 .. n - 1 BY ModDef
<1>2. c \in Int BY <1>1
<1> HIDE DEF q, m
<1>3. a + b = c + q * n BY <1>1
<1> HIDE DEF c
<1>4. (c + q * n) % n = c % n BY <1>1, <1>2, ModTurns
<1> QED BY <1>3, <1>4 DEF c, m
=============================================================================
