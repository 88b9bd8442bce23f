-------------------------- MODULE PageMath_proofs --------------------------
(***************************************************************************)
(* What the page arithmetic computes, for every size of int and int64.     *)
(***************************************************************************)
EXTENDS PageMath, TLAPS

(* Naturals are closed under products.                                     *)
LEMMA ProductInNat ==
  ASSUME NEW x \in Nat, NEW y \in Nat
  PROVE  x * y \in Nat
OBVIOUS

(* What is below a quotient stays below the dividend when multiplied back. *)
LEMMA QuotientTimes ==
  ASSUME NEW a \in Nat, NEW b \in Nat \ {0}, NEW x \in Nat, x <= a \div b
  PROVE  x * b <= a
<1>1. (a \div b) * b <= a /\ a \div b \in Nat
  OBVIOUS
<1>2. x * b <= (a \div b) * b
  BY <1>1
<1>3. QED
  BY <1>1, <1>2

(* Rounding up: the last page begins before the last row and reaches it.   *)
LEMMA PagesNeeded ==
  ASSUME NEW n \in Nat \ {0}, NEW size \in Nat \ {0},
         NEW pages, pages = (n \div size) + (IF n % size # 0 THEN 1 ELSE 0)
  PROVE  /\ pages \in Nat \ {0} /\ pages <= n
         /\ (pages - 1) * size < n
         /\ n <= pages * size
<1> DEFINE q == n \div size
           r == n % size
<1>1. q \in Nat /\ r \in 0..(size - 1) /\ n = q * size + r
  OBVIOUS
<1> HIDE DEF q, r
<1>2. pages = q + (IF r # 0 THEN 1 ELSE 0)
  BY DEF q, r
<1>3. q <= q * size
  BY <1>1
<1>4. CASE r = 0
  <2>1. pages = q /\ q # 0
    BY <1>1, <1>2, <1>4
  <2>2. (q - 1) * size = q * size - size
    BY <1>1
  <2>3. QED
    BY <1>1, <1>3, <1>4, <2>1, <2>2
<1>5. CASE r # 0
  <2>1. pages = q + 1
    BY <1>2, <1>5
  <2>2. (q + 1) * size = q * size + size
    BY <1>1
  <2>3. pages - 1 = q
    BY <1>1, <2>1
  <2>4. (pages - 1) * size = q * size
    BY <2>3
  <2>5. pages * size = q * size + size
    BY <2>1, <2>2
  <2>6. pages \in Nat \ {0} /\ pages <= n
    BY <1>1, <1>3, <1>5, <2>1
  <2>7. QED
    BY <1>1, <1>5, <2>4, <2>5, <2>6
<1>6. QED
  BY <1>4, <1>5

(* A product is monotone in its first factor.                              *)
LEMMA TimesMonotone ==
  ASSUME NEW x \in Nat, NEW y \in Nat, NEW z \in Nat, x <= y
  PROVE  x * z <= y * z
OBVIOUS

(* The clamped page count, for a positive total: the pages can be counted  *)
(* and their OFFSETs fit an int and begin before the last row; and nothing *)
(* is clamped away that could have been shown.                             *)
LEMMA TotalPages ==
  ASSUME NEW n \in 1..MaxTotal, NEW size \in 1..MaxInt,
         NEW tp, tp = calcTotalPage(n, size)
  PROVE  /\ tp \in 1..MaxInt
         /\ (tp - 1) * size < n
         /\ (tp - 1) * size <= MaxInt
         /\ n > tp * size => tp = MaxInt \/ tp * size > MaxInt
<1> DEFINE pages == (n \div size) + (IF n % size # 0 THEN 1 ELSE 0)
           q     == MaxInt \div size
<1>0. n \in Nat \ {0} /\ size \in Nat \ {0} /\ MaxInt \in Nat \ {0}
  BY MaxIntAssumption, MaxTotalAssumption
<1>1. /\ pages \in Nat \ {0} /\ pages <= n
      /\ (pages - 1) * size < n
      /\ n <= pages * size
  BY <1>0, PagesNeeded
<1>2. q \in Nat /\ q * size <= MaxInt /\ MaxInt < (q + 1) * size
  <2> DEFINE r == MaxInt % size
  <2>1. q \in Nat /\ r \in 0..(size - 1) /\ MaxInt = q * size + r
    BY <1>0
  <2> HIDE DEF q, r
  <2>2. (q + 1) * size = q * size + size
    BY <1>0, <2>1
  <2>3. QED
    BY <1>0, <2>1, <2>2
<1>3. tp = Lesser(IF pages - 1 > q THEN q + 1 ELSE pages, MaxInt)
  BY <1>0 DEF calcTotalPage, clampPages
<1> HIDE DEF pages, q
<1>4. /\ tp \in 1..MaxInt /\ tp <= pages /\ tp - 1 <= q
      /\ tp = pages \/ tp = q + 1 \/ tp = MaxInt
  BY <1>0, <1>1, <1>2, <1>3 DEF Lesser
<1>5. tp - 1 \in Nat /\ pages - 1 \in Nat
  BY <1>0, <1>1, <1>4
<1>6. (tp - 1) * size <= (pages - 1) * size
  <2>1. tp - 1 <= pages - 1
    BY <1>0, <1>1, <1>4
  <2>2. QED
    BY <1>0, <1>5, <2>1, TimesMonotone
<1>7. (tp - 1) * size <= q * size
  BY <1>0, <1>2, <1>4, <1>5, TimesMonotone
<1>8. /\ (tp - 1) * size \in Int /\ (pages - 1) * size \in Int
      /\ q * size \in Int /\ tp * size \in Int
  BY <1>0, <1>2, <1>4, <1>5
<1>9. n > tp * size => tp = MaxInt \/ tp * size > MaxInt
  BY <1>0, <1>1, <1>2, <1>4
<1>10. QED
  BY <1>0, <1>1, <1>2, <1>4, <1>6, <1>7, <1>8, <1>9

(* An OFFSET of a page that exists is the exact product.                   *)
LEMMA OffsetExact ==
  ASSUME NEW n \in 1..MaxTotal, NEW size \in 1..MaxInt,
         NEW tp, tp = calcTotalPage(n, size), NEW p \in 1..tp
  PROVE  /\ offsetOf(p, size) = (p - 1) * size
         /\ (p - 1) * size \in 0..MaxInt
         /\ (p - 1) * size < n
<1>0. MaxInt \in Nat \ {0} /\ n \in Nat /\ size \in Nat
  BY MaxIntAssumption, MaxTotalAssumption
<1>1. /\ tp \in 1..MaxInt
      /\ (tp - 1) * size < n
      /\ (tp - 1) * size <= MaxInt
  BY TotalPages
<1>2. p - 1 \in Nat /\ tp - 1 \in Nat /\ p - 1 <= tp - 1
  BY <1>0, <1>1
<1>3. (p - 1) * size <= (tp - 1) * size /\ (p - 1) * size \in Nat
      /\ (tp - 1) * size \in Nat
  BY <1>0, <1>2, TimesMonotone
<1> DEFINE x == (p - 1) * size
<1>4. x \in 0..MaxInt /\ x < n
  BY <1>0, <1>1, <1>3
<1> HIDE DEF x
<1>5. (x + MaxInt + 1) % (2 * MaxInt + 2) = x + MaxInt + 1
  BY <1>0, <1>4
<1>6. IntOf(x) = x
  BY <1>0, <1>4, <1>5 DEF IntOf
<1>7. QED
  BY <1>4, <1>6 DEF x, offsetOf
=============================================================================
