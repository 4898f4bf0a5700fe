---------------------------- MODULE KVScanProofs ----------------------------
(***************************************************************************)
(* The scan of KVScan for every set of keys, every hash function and every *)
(* power of two to start with: the cursor stays in the table, a pass       *)
(* reports what is stored all the while, and nothing twice.  The last part *)
(* is about the bit operations by which the code computes the next cursor. *)
(***************************************************************************)
EXTENDS KVScan, KVStoreProofs

-----------------------------------------------------------------------------
(* Powers of two                                                           *)

\* The number of subsets of a set doubles with each element; from there the
\* provers learn what 2^n is.
LEMMA Power ==
  ASSUME NEW n \in Nat
  PROVE  2^0 = 1 /\ 2^n \in Nat \ {0} /\ 2^(n+1) = 2 * 2^n
<1> DEFINE S == 1 .. n
           T == 1 .. n+1
           With(X) == X \cup {n+1}
           Rest == {With(X) : X \in SUBSET S}
           f == [X \in SUBSET S |-> With(X)]
<1>1. /\ IsFiniteSet(S) /\ Cardinality(S) = n
      /\ IsFiniteSet(T) /\ Cardinality(T) = n + 1
  BY FS_Interval
<1>2. /\ IsFiniteSet(SUBSET S) /\ Cardinality(SUBSET S) = 2^n
      /\ IsFiniteSet(SUBSET T) /\ Cardinality(SUBSET T) = 2^(n+1)
  <2> HIDE DEF S, T
  <2> QED BY <1>1, FS_SUBSET
<1>3. 2^n \in Nat \ {0}
  <2>1. {} \in SUBSET S
    OBVIOUS
  <2> HIDE DEF S
  <2>2. SUBSET S # {}
    BY <2>1
  <2> QED BY <1>2, <2>2, FS_CardinalityType, FS_EmptySet
<1>4. SUBSET T = (SUBSET S) \cup Rest
  <2>1. ASSUME NEW Y \in SUBSET T
        PROVE  Y \in (SUBSET S) \cup Rest
    <3>1. CASE n + 1 \in Y
      <4>1. Y \ {n+1} \in SUBSET S /\ Y = With(Y \ {n+1})
        BY <3>1
      <4> QED BY <4>1
    <3>2. CASE n + 1 \notin Y
      BY <3>2
    <3> QED BY <3>1, <3>2
  <2>2. ASSUME NEW X \in SUBSET S
        PROVE  X \in SUBSET T /\ With(X) \in SUBSET T
    OBVIOUS
  <2> HIDE DEF S, T, With
  <2> QED BY <2>1, <2>2
<1>5. (SUBSET S) \cap Rest = {}
  <2>1. ASSUME NEW X \in SUBSET S PROVE With(X) \notin SUBSET S
    OBVIOUS
  <2> HIDE DEF S, With
  <2> QED BY <2>1
<1>6. f \in Bijection(SUBSET S, Rest)
  <2>1. \A X, Y \in SUBSET S : With(X) = With(Y) => X = Y
    <3>1. ASSUME NEW X \in SUBSET S PROVE X = With(X) \ {n+1}
      OBVIOUS
    <3> HIDE DEF With, S
    <3> QED BY <3>1
  <2> HIDE DEF With, S
  <2>2. f \in [SUBSET S -> Rest] /\ \A Y \in Rest : \E X \in SUBSET S : f[X] = Y
    OBVIOUS
  <2>3. \A X, Y \in SUBSET S : f[X] = f[Y] => X = Y
    BY <2>1
  <2> HIDE DEF f, Rest
  <2> QED BY <2>2, <2>3 DEF Bijection, Injection, Surjection, IsInjective
<1>7. IsFiniteSet(Rest) /\ Cardinality(Rest) = 2^n
  <2>1. ExistsBijection(SUBSET S, Rest)
    BY <1>6 DEF ExistsBijection
  <2> HIDE DEF S, Rest
  <2> QED BY <1>2, <2>1, FS_Bijection
<1>8. 2^(n+1) = 2^n + 2^n - 0
  <2> HIDE DEF S, T, Rest
  <2>1. Cardinality((SUBSET S) \cup Rest)
          = Cardinality(SUBSET S) + Cardinality(Rest) - Cardinality((SUBSET S) \cap Rest)
    BY <1>2, <1>7, FS_Union
  <2> QED BY <1>2, <1>4, <1>5, <1>7, <2>1, FS_EmptySet
<1>9. 2^0 = 1
  <2>1. SUBSET {} = {{}}
    OBVIOUS
  <2> QED BY <2>1, FS_EmptySet, FS_Singleton, FS_SUBSET
<1> QED BY <1>3, <1>8, <1>9

-----------------------------------------------------------------------------
(* Bits                                                                    *)

\* Bit i of a number, and the bits below it.
Bit(h, i) == (h \div 2^i) % 2
Low(h, i) == h % 2^i

\* Division with a remainder.
LEMMA Divide ==
  ASSUME NEW a \in Nat, NEW n \in Nat \ {0}
  PROVE  a \div n \in Nat /\ a % n \in 0 .. n-1 /\ a = n * (a \div n) + (a % n)
OBVIOUS

\* There is only one quotient and one remainder.
LEMMA DivideUnique ==
  ASSUME NEW n \in Nat \ {0}, NEW q \in Nat, NEW r \in 0 .. n-1
  PROVE  (n * q + r) \div n = q /\ (n * q + r) % n = r
OBVIOUS

\* A bit is 0 or 1, and what is below bit i is less than 2^i.
LEMMA BitRange ==
  ASSUME NEW h \in Nat, NEW i \in Nat
  PROVE  Bit(h, i) \in {0, 1} /\ Low(h, i) \in Nat /\ Low(h, i) < 2^i /\ Low(h, 0) = 0
<1>1. 2^i \in Nat \ {0} /\ 2^0 = 1
  BY Power
<1>2. h \div 2^i \in Nat /\ h % 2^i \in 0 .. 2^i - 1
  BY <1>1, Divide
<1>3. Bit(h, i) \in {0, 1}
  BY <1>2 DEF Bit
<1>4. Low(h, 0) = 0
  BY <1>1 DEF Low
<1> QED BY <1>1, <1>2, <1>3, <1>4 DEF Low

\* The lowest i+1 bits are the lowest i and bit i.
LEMMA LowNext ==
  ASSUME NEW h \in Nat, NEW i \in Nat
  PROVE  Low(h, i+1) = Low(h, i) + 2^i * Bit(h, i)
<1> DEFINE p == 2^i
           q == h \div p
           r == h % p
           b == q % 2
           d == q \div 2
<1>1. p \in Nat \ {0} /\ 2^(i+1) = 2 * p
  BY Power
<1>2. q \in Nat /\ r \in 0 .. p-1 /\ h = p * q + r
  BY <1>1, Divide
<1>3. b \in {0, 1} /\ d \in Nat /\ q = 2 * d + b
  <2> HIDE DEF q
  <2> QED BY <1>2
<1>4. h = (2 * p) * d + (p * b + r) /\ p * b + r \in 0 .. (2*p) - 1
  <2> HIDE DEF p, q, r, b, d
  <2>1. CASE b = 0
    BY <1>1, <1>2, <1>3, <2>1
  <2>2. CASE b = 1
    BY <1>1, <1>2, <1>3, <2>2
  <2> QED BY <1>3, <2>1, <2>2
<1>5. h % (2 * p) = p * b + r
  <2> HIDE DEF p, q, r, b, d
  <2>1. 2 * p \in Nat \ {0}
    BY <1>1
  <2> QED BY <1>3, <1>4, <2>1, DivideUnique
<1>6. Low(h, i+1) = h % (2 * p) /\ Low(h, i) = r /\ Bit(h, i) = b
  BY <1>1 DEF Low, Bit
<1> QED BY <1>5, <1>6, <1>2, <1>3

\* Numbers agree below bit i+1 if they agree below bit i and at bit i.
LEMMA SameLow ==
  ASSUME NEW c \in Nat, NEW h \in Nat, NEW i \in Nat
  PROVE  Low(h, i+1) = Low(c, i+1) <=> Low(h, i) = Low(c, i) /\ Bit(h, i) = Bit(c, i)
<1>1. /\ Bit(h, i) \in {0, 1} /\ Low(h, i) \in Nat /\ Low(h, i) < 2^i
      /\ Bit(c, i) \in {0, 1} /\ Low(c, i) \in Nat /\ Low(c, i) < 2^i
      /\ 2^i \in Nat
  BY BitRange, Power
<1>2. /\ Low(h, i+1) = Low(h, i) + 2^i * Bit(h, i)
      /\ Low(c, i+1) = Low(c, i) + 2^i * Bit(c, i)
  BY LowNext
<1>3. \A x \in {0, 1} : 2^i * x = IF x = 0 THEN 0 ELSE 2^i
  BY <1>1
<1> QED BY <1>1, <1>2, <1>3

\* A nonempty set of naturals has a least element, because the finite sets of naturals
\* are well-founded by inclusion; that gives induction, for a set instead of a predicate.
LEMMA LeastNatural ==
  ASSUME NEW T \in SUBSET Nat, T # {}
  PROVE  \E x \in T : \A y \in T : x <= y
<1> DEFINE Below(n) == 0 .. n
           F == {Below(n) : n \in T}
<1>1. F \subseteq FiniteSubsetsOf(Nat) /\ F # {}
  <2>1. ASSUME NEW n \in T PROVE Below(n) \in SUBSET Nat /\ IsFiniteSet(Below(n))
    BY FS_Interval
  <2> HIDE DEF Below
  <2> QED BY <2>1 DEF FiniteSubsetsOf
<1>2. IsWellFoundedOn(StrictSubsetOrdering(Nat), FiniteSubsetsOf(Nat))
  BY FS_StrictSubsetOrderingWellFounded
<1>3. \E A \in F : \A B \in F : <<B, A>> \notin StrictSubsetOrdering(Nat)
  <2> HIDE DEF F
  <2> QED BY <1>1, <1>2, WFMin
<1>4. PICK n \in T : \A m \in T : <<Below(m), Below(n)>> \notin StrictSubsetOrdering(Nat)
  BY <1>3
<1>5. ASSUME NEW m \in T, m < n PROVE FALSE
  <2>1. Below(m) \subseteq Below(n) /\ Below(m) # Below(n)
    BY <1>5
  <2>2. Below(m) \in SUBSET Nat /\ Below(n) \in SUBSET Nat
    OBVIOUS
  <2> HIDE DEF Below
  <2> QED BY <1>4, <2>1, <2>2 DEF StrictSubsetOrdering
<1> QED BY <1>5

\* Induction over the natural numbers.
LEMMA Induction ==
  ASSUME NEW T \in SUBSET Nat, 0 \in T, \A m \in T : m + 1 \in T
  PROVE  \A m \in Nat : m \in T
<1> SUFFICES ASSUME Nat \ T # {}
             PROVE  FALSE
  OBVIOUS
<1>1. PICK x \in Nat \ T : \A y \in Nat \ T : x <= y
  BY LeastNatural
<1>2. x - 1 \in Nat /\ x - 1 \in T
  BY <1>1
<1> QED BY <1>1, <1>2

\* Numbers that agree below bit i+d agree below bit i.
LEMMA SameBelow ==
  ASSUME NEW c \in Nat, NEW h \in Nat, NEW i \in Nat, NEW j \in Nat, i <= j,
         Low(h, j) = Low(c, j)
  PROVE  Low(h, i) = Low(c, i)
<1> DEFINE T == {d \in Nat : Low(h, i + d) = Low(c, i + d) => Low(h, i) = Low(c, i)}
<1>1. 0 \in T
  OBVIOUS
<1>2. ASSUME NEW d \in T PROVE d + 1 \in T
  <2>1. i + d \in Nat /\ d + 1 \in Nat /\ i + (d + 1) = (i + d) + 1
    OBVIOUS
  <2>2. Low(h, i + (d + 1)) = Low(c, i + (d + 1)) => Low(h, i + d) = Low(c, i + d)
    BY <2>1, SameLow
  <2> QED BY <2>1, <2>2
<1>3. \A d \in Nat : d \in T
  <2> HIDE DEF T
  <2>1. T \in SUBSET Nat
    BY DEF T
  <2> QED BY <1>1, <1>2, <2>1, Induction
<1>4. j - i \in Nat /\ i + (j - i) = j
  OBVIOUS
<1> QED BY <1>3, <1>4

\* Powers of two are ordered like their exponents.
LEMMA PowerGrows ==
  ASSUME NEW i \in Nat, NEW j \in Nat
  PROVE  i <= j <=> 2^i <= 2^j
<1> DEFINE T == {d \in Nat : \A k \in Nat : 2^k <= 2^(k + d)}
<1>1. 0 \in T
  <2>1. ASSUME NEW k \in Nat PROVE 2^k <= 2^(k + 0)
    BY Power
  <2> QED BY <2>1
<1>2. ASSUME NEW d \in T PROVE d + 1 \in T
  <2>1. ASSUME NEW k \in Nat PROVE 2^k <= 2^(k + (d + 1))
    <3>1. k + d \in Nat /\ k + (d + 1) = (k + d) + 1 /\ 2^k <= 2^(k + d)
      OBVIOUS
    <3>2. 2^(k+d) \in Nat /\ 2^((k+d)+1) = 2 * 2^(k+d) /\ 2^k \in Nat
      BY <3>1, Power
    <3> QED BY <3>1, <3>2
  <2> QED BY <2>1
<1>3. \A d \in Nat : d \in T
  <2> HIDE DEF T
  <2>1. T \in SUBSET Nat
    BY DEF T
  <2> QED BY <1>1, <1>2, <2>1, Induction
<1>4. ASSUME NEW m \in Nat, NEW n \in Nat, m <= n PROVE 2^m <= 2^n
  <2>1. n - m \in Nat /\ m + (n - m) = n
    BY <1>4
  <2> QED BY <1>3, <2>1
<1>5. ASSUME j < i PROVE 2^j < 2^i
  <2>1. j + 1 <= i /\ j + 1 \in Nat
    BY <1>5
  <2>2. 2^(j+1) <= 2^i
    BY <1>4, <2>1
  <2>3. 2^(j+1) = 2 * 2^j /\ 2^j \in Nat \ {0} /\ 2^i \in Nat
    BY Power
  <2> QED BY <2>2, <2>3
<1>6. 2^i \in Nat /\ 2^j \in Nat
  BY Power
<1> QED BY <1>4, <1>5, <1>6

\* A number below 2^i has no bits from i on.
LEMMA SmallNumber ==
  ASSUME NEW c \in Nat, NEW i \in Nat, c < 2^i
  PROVE  Low(c, i) = c /\ \A j \in Nat : i <= j => Bit(c, j) = 0
<1>1. ASSUME NEW n \in Nat \ {0}, c < n PROVE c \div n = 0 /\ c % n = c
  <2>1. c = n * 0 + c /\ c \in 0 .. n-1
    BY <1>1
  <2> QED BY <2>1, DivideUnique
<1>2. Low(c, i) = c
  BY <1>1, Power DEF Low
<1>3. ASSUME NEW j \in Nat, i <= j PROVE Bit(c, j) = 0
  <2>1. 2^i <= 2^j /\ 2^j \in Nat \ {0} /\ 2^i \in Nat
    BY <1>3, PowerGrows, Power
  <2>2. c < 2^j
    BY <2>1
  <2>3. c \div 2^j = 0
    BY <1>1, <2>1, <2>2
  <2>4. 0 % 2 = 0
    OBVIOUS
  <2> QED BY <2>3, <2>4 DEF Bit
<1> QED BY <1>2, <1>3

\* A number with bit b set and none above it.
LEMMA TopBit ==
  ASSUME NEW c \in Nat, NEW b \in Nat
  PROVE  LET x == Low(c, b) + 2^b
         IN  /\ x \in Nat /\ x < 2^(b+1) /\ 2^b <= x
             /\ Low(x, b) = Low(c, b) /\ Bit(x, b) = 1
             /\ \A j \in Nat : b < j => Bit(x, j) = 0
<1> DEFINE x == Low(c, b) + 2^b
<1>1. 2^b \in Nat \ {0} /\ 2^(b+1) = 2 * 2^b /\ Low(c, b) \in 0 .. 2^b - 1
  <2>1. Low(c, b) \in Nat /\ Low(c, b) < 2^b
    BY BitRange
  <2>2. 2^b \in Nat \ {0} /\ 2^(b+1) = 2 * 2^b
    BY Power
  <2> QED BY <2>1, <2>2
<1>2. x \in Nat /\ x < 2^(b+1) /\ 2^b <= x
  BY <1>1
<1>3. x \div 2^b = 1 /\ x % 2^b = Low(c, b)
  <2>1. x = 2^b * 1 + Low(c, b)
    BY <1>1
  <2> HIDE DEF x
  <2> QED BY <1>1, <2>1, DivideUnique
<1>4. \A j \in Nat : b < j => Bit(x, j) = 0
  <2> HIDE DEF x
  <2>1. \A j \in Nat : b + 1 <= j => Bit(x, j) = 0
    BY <1>2, SmallNumber
  <2> QED BY <2>1
<1>5. Low(x, b) = Low(c, b) /\ Bit(x, b) = 1
  <2>1. Low(x, b) = x % 2^b /\ Bit(x, b) = (x \div 2^b) % 2
    BY DEF Low, Bit
  <2>2. 1 % 2 = 1
    OBVIOUS
  <2> HIDE DEF x
  <2> QED BY <1>3, <2>1, <2>2
<1> QED BY <1>2, <1>4, <1>5

-----------------------------------------------------------------------------
(* The reversed increment                                                  *)

\* All bits of c below m are set, or b is the highest that is not.
AllSet(c, m) == \A i \in 0 .. m-1 : Bit(c, i) = 1
HighestClear(c, m, b) ==
  b \in 0 .. m-1 /\ Bit(c, b) = 0 /\ \A i \in b+1 .. m-1 : Bit(c, i) = 1

\* A bit below m is clear, and one of those is the highest, or all are set.
LEMMA HighestClearExists ==
  ASSUME NEW m \in Nat, NEW c \in Nat
  PROVE  AllSet(c, m) \/ \E b \in 0 .. m-1 : HighestClear(c, m, b)
<1> SUFFICES ASSUME ~AllSet(c, m)
             PROVE  \E b \in 0 .. m-1 : HighestClear(c, m, b)
  OBVIOUS
<1> DEFINE T == {d \in Nat : d \in 1 .. m /\ Bit(c, m - d) = 0}
<1>1. PICK i \in 0 .. m-1 : Bit(c, i) # 1
  BY DEF AllSet
<1>2. ASSUME NEW j \in 0 .. m-1
      PROVE  Bit(c, j) \in {0, 1}
  <2>1. j \in Nat
    OBVIOUS
  <2> QED BY <2>1, BitRange
<1>3. m - i \in T
  <2>1. m - i \in Nat /\ m - i \in 1 .. m /\ m - (m - i) = i
    OBVIOUS
  <2>2. Bit(c, i) = 0
    BY <1>1, <1>2
  <2> QED BY <2>1, <2>2
<1>4. PICK d \in T : \A e \in T : d <= e
  <2>1. T \in SUBSET Nat /\ T # {}
    BY <1>3
  <2> HIDE DEF T
  <2> QED BY <2>1, LeastNatural
<1>5. d \in 1 .. m /\ Bit(c, m - d) = 0 /\ m - d \in 0 .. m-1
  OBVIOUS
<1>6. ASSUME NEW j \in (m - d) + 1 .. m-1
      PROVE  Bit(c, j) = 1
  <2>1. m - j \in Nat /\ m - j \in 1 .. m /\ m - (m - j) = j /\ ~(d <= m - j) /\ j \in 0 .. m-1
    BY <1>5
  <2>2. Bit(c, j) # 0
    BY <1>4, <2>1
  <2> QED BY <1>2, <2>1, <2>2
<1> QED BY <1>5, <1>6 DEF HighestClear

\* RevIncremented sets the highest clear bit and clears those above, or ends the pass.
LEMMA NextBucket ==
  ASSUME NEW m \in Nat, m <= MaxBits + 1, NEW c \in Nat
  PROVE  /\ AllSet(c, m) => RevIncremented(c, 2^m) = 0
         /\ \A b \in 0 .. m-1 :
              HighestClear(c, m, b) => RevIncremented(c, 2^m) = Low(c, b) + 2^b
<1> DEFINE clear == {b \in 0 .. MaxBits : 2^b < 2^m /\ (c \div 2^b) % 2 = 0}
<1>1. \A b \in 0 .. MaxBits : 2^b < 2^m <=> b < m
  <2>1. ASSUME NEW b \in 0 .. MaxBits
        PROVE  2^b < 2^m <=> b < m
    <3>1. m <= b <=> 2^m <= 2^b
      BY PowerGrows
    <3>2. 2^m \in Nat /\ 2^b \in Nat
      BY Power
    <3> QED BY <3>1, <3>2
  <2> QED BY <2>1
<1>2. clear = {b \in 0 .. m-1 : Bit(c, b) = 0}
  <2>1. \A b : b \in 0 .. m-1 <=> b \in 0 .. MaxBits /\ b < m
    BY MaxBitsAssumption
  <2> QED BY <1>1, <2>1 DEF Bit
<1>3. RevIncremented(c, 2^m) = IF clear = {} THEN 0 ELSE (c % 2^Max(clear)) + 2^Max(clear)
  BY DEF RevIncremented
<1> HIDE DEF clear
<1>4. ASSUME AllSet(c, m)
      PROVE  RevIncremented(c, 2^m) = 0
  <2>1. clear = {}
    BY <1>2, <1>4 DEF AllSet
  <2> QED BY <1>3, <2>1
<1>5. ASSUME NEW b \in 0 .. m-1, HighestClear(c, m, b)
      PROVE  RevIncremented(c, 2^m) = Low(c, b) + 2^b
  <2>1. b \in clear
    BY <1>2, <1>5 DEF HighestClear
  <2>2. ASSUME NEW j \in clear
        PROVE  j <= b
    <3>1. j \in 0 .. m-1 /\ Bit(c, j) = 0
      BY <1>2
    <3> QED BY <1>5, <3>1 DEF HighestClear
  <2>3. clear \subseteq Int
    BY <1>2
  <2>4. Max(clear) = b
    <3>1. \A x \in clear : (\A y \in clear : x >= y) <=> x = b
      BY <2>1, <2>2, <2>3
    <3> QED BY <2>1, <3>1 DEF Max
  <2> QED BY <1>3, <2>1, <2>4 DEF Low
<1> QED BY <1>4, <1>5

-----------------------------------------------------------------------------
(* What a pass has behind it                                               *)

\* Hash h is before cursor c, counting with reversed bits: at the lowest bit where
\* they differ the cursor has the one.  It does not depend on the size of a table.
Visited(c, h) ==
  \E i \in Nat : Low(h, i) = Low(c, i) /\ Bit(c, i) = 1 /\ Bit(h, i) = 0

\* At the beginning of a pass nothing is behind the cursor.
LEMMA NothingVisited ==
  ASSUME NEW h \in Nat
  PROVE  ~Visited(0, h)
<1>1. ASSUME NEW i \in Nat PROVE Bit(0, i) = 0
  <2>1. 0 \in Nat /\ 0 < 2^0 /\ 0 <= i
    BY Power
  <2> QED BY <2>1, SmallNumber
<1> QED BY <1>1 DEF Visited

\* If the cursor has ones from bit a on, a hash that agrees with it below a is before
\* it or in its bucket.
LEMMA OnesAbove ==
  ASSUME NEW c \in Nat, NEW h \in Nat, NEW a \in Nat, NEW m \in Nat, a <= m,
         Low(h, a) = Low(c, a), \A i \in a .. m-1 : Bit(c, i) = 1
  PROVE  Visited(c, h) \/ Low(h, m) = Low(c, m)
<1> SUFFICES ASSUME Low(h, m) # Low(c, m)
             PROVE  Visited(c, h)
  OBVIOUS
<1> DEFINE T == {j \in Nat : a <= j /\ Low(h, j) # Low(c, j)}
<1>1. m \in T
  OBVIOUS
<1>2. PICK j \in T : \A k \in T : j <= k
  <2>1. T \in SUBSET Nat /\ T # {}
    BY <1>1
  <2> HIDE DEF T
  <2> QED BY <2>1, LeastNatural
<1>3. j \in Nat /\ a <= j /\ Low(h, j) # Low(c, j) /\ j <= m
  BY <1>1, <1>2
<1>4. j # a /\ j - 1 \in Nat /\ j - 1 \in a .. m-1 /\ (j - 1) + 1 = j
  BY <1>3
<1>5. Low(h, j-1) = Low(c, j-1)
  <2>1. j - 1 \notin T
    <3>1. ~(j <= j - 1)
      BY <1>3
    <3> HIDE DEF T
    <3> QED BY <1>2, <3>1
  <2> QED BY <1>4, <2>1
<1>6. Bit(c, j-1) = 1 /\ Bit(h, j-1) \in {0, 1} /\ Bit(h, j-1) # Bit(c, j-1)
  <2>1. Bit(h, j-1) \in {0, 1}
    BY <1>4, BitRange
  <2>2. Bit(h, j-1) # Bit(c, j-1)
    BY <1>3, <1>4, <1>5, SameLow
  <2> QED BY <1>4, <2>1, <2>2
<1> QED BY <1>4, <1>5, <1>6 DEF Visited

\* Bits below the first j agree when the numbers agree below j.
LEMMA SameBit ==
  ASSUME NEW c \in Nat, NEW h \in Nat, NEW i \in Nat, NEW j \in Nat, i < j,
         Low(h, j) = Low(c, j)
  PROVE  Low(h, i) = Low(c, i) /\ Bit(h, i) = Bit(c, i)
<1>1. i + 1 \in Nat /\ i + 1 <= j
  OBVIOUS
<1>2. Low(h, i + 1) = Low(c, i + 1)
  BY <1>1, SameBelow
<1> QED BY <1>2, SameLow

\* A call moves the hashes of its bucket, and no others, behind the cursor.
LEMMA VisitedGrows ==
  ASSUME NEW m \in Nat, NEW c \in Nat, NEW b \in Nat, HighestClear(c, m, b), NEW h \in Nat
  PROVE  Visited(Low(c, b) + 2^b, h) <=> Visited(c, h) \/ Low(h, m) = Low(c, m)
<1> DEFINE x == Low(c, b) + 2^b
<1>1. /\ x \in Nat /\ Low(x, b) = Low(c, b) /\ Bit(x, b) = 1
      /\ \A j \in Nat : b < j => Bit(x, j) = 0
  BY TopBit
<1> HIDE DEF x
<1>2. /\ b \in 0 .. m-1 /\ Bit(c, b) = 0 /\ \A i \in b+1 .. m-1 : Bit(c, i) = 1
  BY DEF HighestClear
<1>3. ASSUME NEW i \in Nat, Low(h, i) = Low(c, i), Bit(c, i) = 1, Bit(h, i) = 0
      PROVE  Visited(x, h)
  <2>1. CASE i < b
    <3>1. Low(x, i) = Low(c, i) /\ Bit(x, i) = Bit(c, i)
      BY <1>1, <2>1, SameBit
    <3> QED BY <1>3, <3>1 DEF Visited
  <2>2. CASE b < i
    <3>1. Low(h, b) = Low(c, b) /\ Bit(h, b) = Bit(c, b)
      BY <1>3, <2>2, SameBit
    <3> QED BY <1>1, <1>2, <3>1 DEF Visited
  <2>3. i # b
    BY <1>2, <1>3
  <2> QED BY <2>1, <2>2, <2>3
<1>4. ASSUME Low(h, m) = Low(c, m)
      PROVE  Visited(x, h)
  <2>1. Low(h, b) = Low(c, b) /\ Bit(h, b) = Bit(c, b)
    BY <1>2, <1>4, SameBit
  <2> QED BY <1>1, <1>2, <2>1 DEF Visited
<1>5. ASSUME NEW i \in Nat, Low(h, i) = Low(x, i), Bit(x, i) = 1, Bit(h, i) = 0
      PROVE  Visited(c, h) \/ Low(h, m) = Low(c, m)
  <2>1. CASE i < b
    <3>1. Low(x, i) = Low(c, i) /\ Bit(x, i) = Bit(c, i)
      BY <1>1, <2>1, SameBit
    <3> QED BY <1>5, <3>1 DEF Visited
  <2>2. CASE i = b
    <3>1. Low(h, b) = Low(c, b) /\ Bit(h, b) = Bit(c, b)
      BY <1>1, <1>2, <1>5, <2>2
    <3>2. Low(h, b+1) = Low(c, b+1)
      BY <3>1, SameLow
    <3>3. b + 1 \in Nat /\ b + 1 <= m
      BY <1>2
    <3> QED BY <1>2, <3>2, <3>3, OnesAbove
  <2>3. ~(b < i)
    BY <1>1, <1>5
  <2> QED BY <2>1, <2>2, <2>3
<1> QED BY <1>3, <1>4, <1>5 DEF Visited, x

\* When the cursor comes back to zero every hash is behind it or in its bucket.
LEMMA AllVisited ==
  ASSUME NEW m \in Nat, NEW c \in Nat, AllSet(c, m), NEW h \in Nat
  PROVE  Visited(c, h) \/ Low(h, m) = Low(c, m)
<1>1. Low(h, 0) = Low(c, 0) /\ 0 <= m
  BY BitRange
<1>2. \A i \in 0 .. m-1 : Bit(c, i) = 1
  BY DEF AllSet
<1> QED BY <1>1, <1>2, OnesAbove

\* What is behind the cursor is not in its bucket.
LEMMA VisitedElsewhere ==
  ASSUME NEW m \in Nat, NEW c \in Nat, c < 2^m, NEW h \in Nat, Visited(c, h)
  PROVE  Low(h, m) # Low(c, m)
<1>1. PICK i \in Nat : Low(h, i) = Low(c, i) /\ Bit(c, i) = 1 /\ Bit(h, i) = 0
  BY DEF Visited
<1>2. i < m
  BY <1>1, SmallNumber
<1> QED BY <1>1, <1>2, SameBit

-----------------------------------------------------------------------------
(* The cursor of the next call                                             *)

\* The cursor stays below the size, and what is behind the next one is what was
\* behind this one and its bucket.
LEMMA CursorMoves ==
  ASSUME NEW m \in Nat, m <= MaxBits + 1, NEW c \in 0 .. 2^m - 1
  PROVE  /\ RevIncremented(c, 2^m) \in 0 .. 2^m - 1
         /\ \A h \in Nat :
              /\ RevIncremented(c, 2^m) # 0 =>
                   (Visited(RevIncremented(c, 2^m), h) <=> Visited(c, h) \/ h % 2^m = c)
              /\ RevIncremented(c, 2^m) = 0 => Visited(c, h) \/ h % 2^m = c
<1>1. 2^m \in Nat \ {0} /\ c \in Nat /\ c < 2^m
  <2>1. 2^m \in Nat \ {0}
    BY Power
  <2> QED BY <2>1
<1>2. Low(c, m) = c
  BY <1>1, SmallNumber
<1>3. CASE AllSet(c, m)
  <2>1. RevIncremented(c, 2^m) = 0
    BY <1>1, <1>3, NextBucket
  <2>2. \A h \in Nat : Visited(c, h) \/ h % 2^m = c
    BY <1>1, <1>2, <1>3, AllVisited DEF Low
  <2>3. 0 \in 0 .. 2^m - 1
    BY <1>1
  <2> QED BY <2>1, <2>2, <2>3
<1>4. CASE \E b \in 0 .. m-1 : HighestClear(c, m, b)
  <2>1. PICK b \in 0 .. m-1 : HighestClear(c, m, b)
    BY <1>4
  <2> DEFINE x == Low(c, b) + 2^b
  <2>2. RevIncremented(c, 2^m) = x
    BY <1>1, <2>1, NextBucket
  <2>3. b \in Nat /\ b + 1 \in Nat /\ b + 1 <= m
    OBVIOUS
  <2>4. x \in Nat /\ x < 2^(b+1) /\ 2^b <= x
    BY <1>1, <2>3, TopBit
  <2>5. 2^(b+1) <= 2^m /\ 2^b \in Nat \ {0} /\ 2^(b+1) \in Nat
    BY <2>3, PowerGrows, Power
  <2>6. \A h \in Nat : Visited(x, h) <=> Visited(c, h) \/ h % 2^m = c
    BY <1>1, <1>2, <2>1, <2>3, VisitedGrows DEF Low
  <2> HIDE DEF x
  <2>7. x \in 0 .. 2^m - 1 /\ x # 0
    BY <1>1, <2>4, <2>5
  <2> QED BY <2>2, <2>6, <2>7
<1> QED BY <1>1, <1>3, <1>4, HighestClearExists

\* In a table of twice the size a bucket is followed by the one it was split into,
\* and that one by what follows the bucket in the smaller table.
LEMMA Halves ==
  ASSUME NEW m \in Nat, m <= MaxBits, NEW c \in 0 .. 2^m - 1
  PROVE  /\ RevIncremented(c, 2 * 2^m) = c + 2^m
         /\ RevIncremented(c + 2^m, 2 * 2^m) = RevIncremented(c, 2^m)
<1> DEFINE x == c + 2^m
<1>1. /\ 2^m \in Nat \ {0} /\ 2^(m+1) = 2 * 2^m /\ c \in Nat /\ c < 2^m
      /\ m + 1 \in Nat /\ m + 1 <= MaxBits + 1 /\ m <= MaxBits + 1
  <2>1. 2^m \in Nat \ {0} /\ 2^(m+1) = 2 * 2^m
    BY Power
  <2> QED BY <2>1, MaxBitsAssumption
<1>2. Low(c, m) = c /\ Bit(c, m) = 0
  BY <1>1, SmallNumber
<1>3. RevIncremented(c, 2 * 2^m) = x
  <2>1. HighestClear(c, m + 1, m)
    <3>1. m \in 0 .. (m + 1) - 1 /\ \A i \in m + 1 .. (m + 1) - 1 : FALSE
      OBVIOUS
    <3> QED BY <1>2, <3>1 DEF HighestClear
  <2>2. m \in 0 .. (m + 1) - 1
    OBVIOUS
  <2> QED BY <1>1, <1>2, <2>1, <2>2, NextBucket
<1>4. x \in Nat /\ Low(x, m) = Low(c, m) /\ Bit(x, m) = 1
  BY <1>1, <1>2, TopBit
<1> HIDE DEF x
<1>5. ASSUME NEW i \in 0 .. m-1
      PROVE  Low(x, i) = Low(c, i) /\ Bit(x, i) = Bit(c, i)
  <2>1. i \in Nat /\ i < m
    OBVIOUS
  <2> QED BY <1>1, <1>4, <2>1, SameBit
<1>6. \A i : i \in 0 .. (m + 1) - 1 <=> i = m \/ i \in 0 .. m-1
  OBVIOUS
<1>7. CASE AllSet(c, m)
  <2>1. AllSet(x, m + 1)
    BY <1>4, <1>5, <1>6, <1>7 DEF AllSet
  <2> QED BY <1>1, <1>3, <1>4, <1>7, <2>1, NextBucket DEF x
<1>8. CASE \E b \in 0 .. m-1 : HighestClear(c, m, b)
  <2>1. PICK b \in 0 .. m-1 : HighestClear(c, m, b)
    BY <1>8
  <2>2. HighestClear(x, m + 1, b)
    <3>1. Bit(x, b) = 0 /\ b \in 0 .. (m + 1) - 1
      BY <1>5, <1>6, <2>1 DEF HighestClear
    <3>2. ASSUME NEW i \in b + 1 .. (m + 1) - 1
          PROVE  Bit(x, i) = 1
      <4>1. i = m \/ (i \in 0 .. m-1 /\ i \in b + 1 .. m-1)
        OBVIOUS
      <4> QED BY <1>4, <1>5, <2>1, <4>1 DEF HighestClear
    <3> QED BY <3>1, <3>2 DEF HighestClear
  <2>3. RevIncremented(x, 2^(m+1)) = Low(x, b) + 2^b
    BY <1>1, <1>4, <1>6, <2>2, NextBucket
  <2>4. RevIncremented(c, 2^m) = Low(c, b) + 2^b
    BY <1>1, <2>1, NextBucket
  <2> QED BY <1>1, <1>3, <1>5, <2>3, <2>4 DEF x
<1> QED BY <1>1, <1>7, <1>8, HighestClearExists

\* The loop over the new table visits the two buckets that the bucket of the primary
\* table is split into, and ends with the cursor of a table that is not rehashed.
LEMMA VisitsBothHalves ==
  ASSUME NEW m \in Nat, m <= MaxBits, size = 2^m, newSize = 2 * size, NEW c \in 0 .. size-1
  PROVE  Visit(c) = [visited |-> {c, c + size}, next |-> RevIncremented(c, size)]
<1> DEFINE next(j) == RevIncremented(j, newSize)
           Step(f, j) == IF next(j) < size
                         THEN [visited |-> {j}, next |-> next(j)]
                         ELSE [visited |-> {j} \cup f[next(j)].visited, next |-> f[next(j)].next]
           last(j) == [visited |-> {j}, next |-> next(j)]
           g == [j \in 0 .. newSize-1 |->
                   IF next(j) < size THEN last(j)
                   ELSE [visited |-> {j} \cup last(next(j)).visited, next |-> last(next(j)).next]]
           loop == CHOOSE f : f = [j \in 0 .. newSize-1 |-> Step(f, j)]
<1>1. size \in Nat \ {0}
  BY Power
<1>2. ASSUME NEW j \in 0 .. size-1
      PROVE  next(j) = j + size /\ next(j + size) = RevIncremented(j, size)
  BY <1>2, Halves
<1>3. ASSUME NEW j \in 0 .. size-1
      PROVE  RevIncremented(j, size) \in 0 .. size-1
  BY <1>3, CursorMoves, MaxBitsAssumption
<1>4. ASSUME NEW j \in 0 .. newSize-1
      PROVE  \/ j \in 0 .. size-1
             \/ \E i \in 0 .. size-1 : j = i + size
  <2>1. CASE j >= size
    <3>1. j - size \in 0 .. size-1 /\ j = (j - size) + size
      BY <1>1, <2>1
    <3> QED BY <3>1
  <2>2. CASE j < size
    BY <1>1, <2>2
  <2> QED BY <1>1, <2>1, <2>2
<1> HIDE DEF next
<1>5. ASSUME NEW j \in 0 .. newSize-1
      PROVE  \/ next(j) < size
             \/ next(j) \in 0 .. newSize-1 /\ ~(next(j) < size) /\ next(next(j)) < size
  <2>1. CASE j \in 0 .. size-1
    <3>1. next(j) = j + size /\ next(next(j)) \in 0 .. size-1
      BY <1>2, <1>3, <2>1
    <3> QED BY <1>1, <2>1, <3>1
  <2>2. ASSUME NEW i \in 0 .. size-1, j = i + size
        PROVE  next(j) < size
    <3>1. next(j) \in 0 .. size-1
      BY <1>2, <1>3, <2>2
    <3> QED BY <1>1, <3>1
  <2> QED BY <1>4, <2>1, <2>2
<1>6. g = [j \in 0 .. newSize-1 |-> Step(g, j)]
  <2>1. ASSUME NEW j \in 0 .. newSize-1
        PROVE  g[j] = Step(g, j)
    <3>1. CASE next(j) < size
      BY <3>1
    <3>2. CASE ~(next(j) < size)
      <4>1. next(j) \in 0 .. newSize-1 /\ next(next(j)) < size
        BY <1>5, <3>2
      <4>2. g[next(j)] = last(next(j))
        BY <4>1
      <4> QED BY <3>2, <4>2
    <3> QED BY <3>1, <3>2
  <2>2. g = [j \in 0 .. newSize-1 |-> g[j]]
    OBVIOUS
  <2> HIDE DEF g, Step
  <2> QED BY <2>1, <2>2
<1>7. loop = [j \in 0 .. newSize-1 |-> Step(loop, j)]
  <2> HIDE DEF g, Step
  <2> QED BY <1>6, Zenon
<1>8. Visit(c) = loop[c]
  BY DEF Visit, next
<1> HIDE DEF loop
<1>9. c \in 0 .. newSize-1 /\ c + size \in 0 .. newSize-1 /\ ~(c + size < size)
  BY <1>1
<1>10. next(c) = c + size /\ next(c + size) = RevIncremented(c, size)
       /\ RevIncremented(c, size) < size
  <2>1. RevIncremented(c, size) \in 0 .. size-1
    BY <1>3
  <2> QED BY <1>1, <1>2, <2>1
<1>11. loop[c + size] = [visited |-> {c + size}, next |-> RevIncremented(c, size)]
  BY <1>7, <1>9, <1>10
<1>12. loop[c] = [visited |-> {c} \cup {c + size}, next |-> RevIncremented(c, size)]
  <2>1. loop[c] = Step(loop, c)
    <3> HIDE DEF Step
    <3> QED BY <1>7, <1>9
  <2>2. Step(loop, c) = [visited |-> {c} \cup loop[c + size].visited, next |-> loop[c + size].next]
    BY <1>9, <1>10
  <2>3. /\ loop[c + size].visited = {c + size}
        /\ loop[c + size].next = RevIncremented(c, size)
    BY <1>11
  <2> QED BY <2>1, <2>2, <2>3
<1> QED BY <1>8, <1>12

-----------------------------------------------------------------------------
(* What a call reports                                                     *)

\* The keys in some buckets of a table are the stored keys whose hashes fall into them.
LEMMA KeysOfChains ==
  ASSUME NEW n \in Nat \ {0}, NEW t \in Table(n), Placed(t, n), NEW B \in SUBSET (0 .. n-1)
  PROVE  KeysIn(t, B) = {k \in Keys : Index(k, n) \in B /\ SearchInBuckets(t, n, k) # {}}
<1>1. ASSUME NEW i \in B, NEW node \in t[i]
      PROVE  /\ node.key \in Keys /\ Index(node.key, n) = i
             /\ node \in SearchInBuckets(t, n, node.key)
  <2>1. node \in Node /\ Index(node.key, n) = i
    BY DEF Table, Placed
  <2> QED BY <2>1 DEF Node, SearchInBuckets
<1>2. ASSUME NEW k \in Keys, NEW node \in SearchInBuckets(t, n, k), Index(k, n) \in B
      PROVE  k \in KeysIn(t, B)
  <2>1. node \in t[Index(k, n)] /\ node.key = k
    BY DEF SearchInBuckets
  <2> QED BY <1>2, <2>1 DEF KeysIn
<1>3. ASSUME NEW k \in KeysIn(t, B)
      PROVE  k \in Keys /\ Index(k, n) \in B /\ SearchInBuckets(t, n, k) # {}
  <2>1. PICK i \in B : \E node \in t[i] : node.key = k
    BY DEF KeysIn
  <2> QED BY <1>1, <2>1
<1> QED BY <1>2, <1>3

\* A bucket of a table is split into two of the table of twice the size.
LEMMA SplitBucket ==
  ASSUME NEW n \in Nat \ {0}, NEW h \in Nat, NEW c \in 0 .. n-1
  PROVE  h % (2 * n) \in {c, c + n} <=> h % n = c
<1> DEFINE q == h \div (2 * n)
           r == h % (2 * n)
<1>1. q \in Nat /\ r \in 0 .. (2 * n) - 1 /\ h = (2 * n) * q + r
  <2>1. 2 * n \in Nat \ {0}
    OBVIOUS
  <2> QED BY <2>1, Divide
<1> HIDE DEF q, r
<1>2. CASE r < n
  <2>1. h = n * (2 * q) + r /\ 2 * q \in Nat /\ r \in 0 .. n-1
    BY <1>1, <1>2
  <2>2. h % n = r
    BY <2>1, DivideUnique
  <2>3. c \in Nat /\ r # c + n
    BY <1>1, <1>2
  <2> QED BY <2>2, <2>3 DEF r
<1>3. CASE ~(r < n)
  <2>1. h = n * (2 * q + 1) + (r - n) /\ 2 * q + 1 \in Nat /\ r - n \in 0 .. n-1
    BY <1>1, <1>3
  <2>2. h % n = r - n
    BY <2>1, DivideUnique
  <2>3. r # c /\ (r = c + n <=> r - n = c)
    BY <1>1, <1>3
  <2> QED BY <2>2, <2>3 DEF r
<1> QED BY <1>2, <1>3

\* A call reports the stored keys whose hash belongs to the bucket of the cursor,
\* during a rehash as without one.
LEMMA ReportedKeys ==
  ASSUME Inv, NEW m \in Nat, m <= MaxBits, size = 2^m, NEW c \in 0 .. size-1
  PROVE  /\ Reported(c) = {k \in Stored : Hash[k] % size = c}
         /\ NextCursor(c) = RevIncremented(c, size)
<1>1. /\ size \in Nat \ {0} /\ buckets \in Table(size) /\ Placed(buckets, size)
      /\ RehashActive => /\ newSize = 2 * size /\ newSize \in Nat \ {0}
                         /\ new \in Table(newSize) /\ Placed(new, newSize)
  BY TwoTables DEF Inv, WellPlaced, RehashShape
<1>2. ~(c >= size) /\ ~(c > size) /\ c # size
  BY <1>1
<1>3. \A k \in Keys : k \in Stored <=> InPrimary(k) # {} \/ InNew(k) # {}
  BY DEF Stored, Search
<1>4. KeysIn(buckets, {c}) = {k \in Keys : Hash[k] % size = c /\ InPrimary(k) # {}}
  <2>1. {c} \in SUBSET (0 .. size-1)
    OBVIOUS
  <2>2. KeysIn(buckets, {c})
          = {k \in Keys : Index(k, size) \in {c} /\ SearchInBuckets(buckets, size, k) # {}}
    BY <1>1, <2>1, KeysOfChains
  <2> QED BY <2>2 DEF Index, InPrimary
<1>5. CASE RehashActive
  <2>1. Visit(c) = [visited |-> {c, c + size}, next |-> RevIncremented(c, size)]
    BY <1>1, <1>5, VisitsBothHalves
  <2>2. KeysIn(new, {c, c + size}) = {k \in Keys : Hash[k] % size = c /\ InNew(k) # {}}
    <3>1. {c, c + size} \in SUBSET (0 .. newSize-1)
      BY <1>1, <1>5
    <3>2. KeysIn(new, {c, c + size})
            = {k \in Keys : Index(k, newSize) \in {c, c + size}
                            /\ SearchInBuckets(new, newSize, k) # {}}
      BY <1>1, <1>5, <3>1, KeysOfChains
    <3>3. ASSUME NEW k \in Keys
          PROVE  Index(k, newSize) \in {c, c + size} <=> Hash[k] % size = c
      <4>1. Hash[k] \in Nat
        BY HashAssumption
      <4> QED BY <1>1, <1>5, <4>1, SplitBucket DEF Index
    <3> QED BY <1>5, <3>2, <3>3 DEF InNew
  <2>3. Reported(c) = KeysIn(buckets, {c}) \cup KeysIn(new, {c, c + size})
    BY <1>2, <1>5, <2>1 DEF Reported
  <2>4. NextCursor(c) = RevIncremented(c, size)
    BY <1>2, <1>5, <2>1 DEF NextCursor
  <2> QED BY <1>3, <1>4, <2>2, <2>3, <2>4 DEF Stored
<1>6. CASE ~RehashActive
  <2>1. Reported(c) = KeysIn(buckets, {c}) /\ NextCursor(c) = RevIncremented(c, size)
    BY <1>2, <1>6 DEF Reported, NextCursor
  <2>2. \A k \in Keys : InNew(k) = {}
    BY <1>6 DEF InNew
  <2> QED BY <1>3, <1>4, <2>1, <2>2 DEF Stored
<1> QED BY <1>5, <1>6

-----------------------------------------------------------------------------
(* The sizes of the tables                                                 *)

\* The tables stay within the bits of the cursor: a store grows when it holds as
\* many keys as buckets.
Sizes == (\E m \in 0 .. MaxBits : size = 2^m) /\ newSize <= 2^MaxBits

\* There are never more nodes than keys.
LEMMA UsedIsBounded ==
  ASSUME Inv
  PROVE  used \in Nat /\ used <= Cardinality(Keys) /\ Cardinality(Keys) \in Nat
<1>1. Stored \in SUBSET Keys
  BY DEF Stored
<1>2. Cardinality(Stored) <= Cardinality(Keys) /\ Cardinality(Keys) \in Nat
  BY <1>1, KeysAssumption, FS_Subset, FS_CardinalityType
<1> QED BY <1>2 DEF Inv, TypeOK, UsedCounts

\* A rehash is activated by a full table only, so twice its size is within the arithmetic.
LEMMA ActivateKeepsSizes ==
  ASSUME Inv, Sizes, NEW u \in Int, u <= Cardinality(Keys), ActivateIfNeeded(u), size' = size
  PROVE  Sizes'
<1>1. size \in Nat /\ Cardinality(Keys) \in Nat /\ 2 * Cardinality(Keys) <= 2^MaxBits
      /\ 2^MaxBits \in Nat
  BY UsedIsBounded, MaxBitsAssumption, Power DEF Inv, TypeOK
<1>2. newSize' = newSize \/ (newSize' = 2 * size /\ u >= size)
  BY DEF ActivateIfNeeded, StartRehash, Overloaded
<1>3. newSize' <= 2^MaxBits
  BY <1>1, <1>2 DEF Sizes
<1> QED BY <1>3 DEF Sizes

\* Sizes stay powers of two within the arithmetic, whatever is done to the store.
LEMMA SizesKept ==
  ASSUME Inv, Inv', Sizes,
         \/ \E k \in Keys, v \in Values : Put(k, v)
         \/ \E k \in Keys : Delete(k)
         \/ \E D \in SUBSET Keys : DeleteAll(D)
         \/ RehashActivateIfNeeded
         \/ RehashStep
         \/ UNCHANGED vars
  PROVE  Sizes'
<1>1. /\ used \in Nat /\ used <= Cardinality(Keys) /\ Cardinality(Keys) \in Nat
      /\ used - 1 \in Int /\ used - 1 <= Cardinality(Keys)
  BY UsedIsBounded
<1>2. used' \in Nat /\ used' <= Cardinality(Keys)
  <2>1. (Inv => used \in Nat /\ used <= Cardinality(Keys))'
    BY UsedIsBounded, PTL
  <2> QED BY <2>1
<1>3. ASSUME size' = size, newSize' = newSize
      PROVE  Sizes'
  BY <1>3 DEF Sizes
<1>4. ASSUME NEW k \in Keys, NEW v \in Values, Put(k, v)
      PROVE  Sizes'
  <2>1. CASE PutOverwrite(k, v)
    BY <1>3, <2>1 DEF PutOverwrite
  <2>2. CASE PutInsert(k, v)
    <3>1. size' = size /\ used' = used + 1
      BY <2>2 DEF PutInsert
    <3>2. newSize' = newSize \/ ActivateIfNeeded(used')
      BY <2>2, <3>1 DEF PutInsert
    <3> QED BY <1>2, <1>3, <3>1, <3>2, ActivateKeepsSizes
  <2> QED BY <1>4, <2>1, <2>2 DEF Put
<1>5. ASSUME NEW k \in Keys, Delete(k)
      PROVE  Sizes'
  <2>1. size' = size /\ (newSize' = newSize \/ ActivateIfNeeded(used - 1))
    BY <1>5 DEF Delete
  <2> QED BY <1>1, <1>3, <2>1, ActivateKeepsSizes
<1>6. ASSUME NEW D \in SUBSET Keys, DeleteAll(D)
      PROVE  Sizes'
  <2>1. size' = size /\ (newSize' = newSize \/ ActivateIfNeeded(used - 1))
    BY <1>6 DEF DeleteAll
  <2> QED BY <1>1, <1>3, <2>1, ActivateKeepsSizes
<1>7. ASSUME RehashActivateIfNeeded
      PROVE  Sizes'
  <2>1. size' = size /\ ActivateIfNeeded(used)
    BY <1>7 DEF RehashActivateIfNeeded
  <2> QED BY <1>1, <2>1, ActivateKeepsSizes
<1>8. ASSUME RehashStep
      PROVE  Sizes'
  <2>1. CASE ~LastBucket
    BY <1>3, <1>8, <2>1 DEF RehashStep
  <2>2. CASE LastBucket
    <3>1. size' = newSize /\ newSize' = 0 /\ newSize = 2 * size
      BY <1>8, <2>2 DEF RehashStep, Inv, RehashShape
    <3>2. PICK m \in 0 .. MaxBits : size = 2^m
      BY DEF Sizes
    <3>3. m \in Nat /\ m + 1 \in Nat /\ MaxBits \in Nat
      BY MaxBitsAssumption
    <3>4. newSize = 2^(m+1) /\ 0 <= 2^MaxBits
      BY <3>1, <3>2, <3>3, Power
    <3>5. m + 1 <= MaxBits
      BY <3>3, <3>4, PowerGrows DEF Sizes
    <3>6. m + 1 \in 0 .. MaxBits
      BY <3>3, <3>5
    <3> QED BY <3>1, <3>4, <3>6 DEF Sizes
  <2> QED BY <2>1, <2>2
<1>9. ASSUME UNCHANGED vars
      PROVE  Sizes'
  BY <1>3, <1>9 DEF vars
<1> QED BY <1>4, <1>5, <1>6, <1>7, <1>8, <1>9

-----------------------------------------------------------------------------
(* The invariant of the scan                                               *)

\* Everything seen is behind the cursor; what is behind the cursor and stable was
\* seen.  Both speak of hashes and bits, not of buckets, so that they survive a
\* table that doubles between two calls.
Progress ==
  IF cursor = 0
  THEN stable \subseteq seen
  ELSE /\ \A k \in seen : Visited(cursor, Hash[k])
       /\ \A k \in stable : Visited(cursor, Hash[k]) => k \in seen

ScanInv ==
  /\ Inv
  /\ Sizes
  /\ cursor \in 0 .. size-1
  /\ seen \subseteq Keys /\ stable \subseteq Stored
  /\ Progress

\* A call reports the bucket of its cursor and moves just the hashes of that bucket behind it.
LEMMA ScanKeeps ==
  ASSUME ScanInv, Scan
  PROVE  ScanInv'
<1>1. PICK D \in SUBSET Reported(cursor) :
        /\ DeleteAll(D)
        /\ cursor' = NextCursor(cursor)
        /\ seen' = Reported(cursor) \cup IF cursor = 0 THEN {} ELSE seen
        /\ stable' = (IF cursor = 0 THEN Stored ELSE stable) \ D
  BY DEF Scan
<1>2. PICK m \in 0 .. MaxBits : size = 2^m
  BY DEF ScanInv, Sizes
<1>3. m \in Nat /\ m <= MaxBits /\ m <= MaxBits + 1
  BY MaxBitsAssumption
<1>4. Inv /\ Sizes /\ cursor \in 0 .. size-1 /\ seen \subseteq Keys /\ stable \subseteq Stored
  BY DEF ScanInv
<1> DEFINE behind(k) == Visited(cursor, Hash[k])
           here(k) == Hash[k] % size = cursor
<1>5. /\ Reported(cursor) = {k \in Stored : here(k)}
      /\ cursor' = RevIncremented(cursor, size)
  BY <1>1, <1>2, <1>3, <1>4, ReportedKeys
<1>6. /\ cursor' \in 0 .. size-1
      /\ \A h \in Nat :
           /\ cursor' # 0 => (Visited(cursor', h) <=> Visited(cursor, h) \/ h % size = cursor)
           /\ cursor' = 0 => Visited(cursor, h) \/ h % size = cursor
  BY <1>2, <1>3, <1>4, <1>5, CursorMoves
<1>7. ASSUME NEW k \in Keys
      PROVE  /\ cursor' # 0 => (Visited(cursor', Hash[k]) <=> behind(k) \/ here(k))
             /\ cursor' = 0 => behind(k) \/ here(k)
             /\ cursor = 0 => ~behind(k)
  <2>1. Hash[k] \in Nat
    BY HashAssumption
  <2> QED BY <1>6, <2>1, NothingVisited
<1> HIDE DEF behind, here
<1>8. D \in SUBSET Stored /\ D \in SUBSET Keys /\ Stored \subseteq Keys
  BY <1>5 DEF Stored
<1>9. Inv' /\ Stored' = Stored \ D
  <2>1. Inv' /\ \A k \in Keys : Search(k)' = IF k \in D THEN {} ELSE Search(k)
    BY <1>1, <1>4, <1>8, DeleteAllSearch
  <2> QED BY <2>1 DEF Stored
<1>10. Sizes'
  BY <1>1, <1>4, <1>8, <1>9, SizesKept
<1>11. size' = size
  BY <1>1 DEF DeleteAll
<1>12. seen' \subseteq Keys /\ stable' \subseteq Stored'
  BY <1>1, <1>4, <1>5, <1>8, <1>9
<1>13. /\ \A k \in seen' : (k \in Stored /\ here(k)) \/ (cursor # 0 /\ k \in seen)
       /\ \A k \in stable' : k \in Stored /\ (cursor = 0 \/ k \in stable)
       /\ \A k \in Stored : here(k) => k \in seen'
       /\ cursor # 0 => seen \subseteq seen'
  BY <1>1, <1>4, <1>5
<1>14. cursor # 0 => /\ \A k \in seen : behind(k)
                     /\ \A k \in stable : behind(k) => k \in seen
  BY DEF ScanInv, Progress, behind
<1>15. \A k \in stable' : behind(k) => k \in seen'
  BY <1>7, <1>8, <1>13, <1>14
<1>16. Progress'
  <2>1. CASE cursor' = 0
    <3>1. \A k \in stable' : behind(k) \/ here(k)
      BY <1>7, <1>8, <1>13, <2>1
    <3> QED BY <1>13, <1>15, <2>1, <3>1 DEF Progress
  <2>2. CASE cursor' # 0
    <3>1. ASSUME NEW k \in seen'
          PROVE  Visited(cursor', Hash[k])
      <4>1. k \in Keys /\ (behind(k) \/ here(k))
        BY <1>4, <1>8, <1>12, <1>13, <1>14
      <4> QED BY <1>7, <2>2, <4>1
    <3>2. ASSUME NEW k \in stable', Visited(cursor', Hash[k])
          PROVE  k \in seen'
      <4>1. k \in Keys /\ k \in Stored /\ (behind(k) \/ here(k))
        BY <1>7, <1>8, <1>13, <2>2, <3>2
      <4> QED BY <1>13, <1>15, <4>1
    <3> QED BY <2>2, <3>1, <3>2 DEF Progress
  <2> QED BY <2>1, <2>2
<1> QED BY <1>6, <1>9, <1>10, <1>11, <1>12, <1>16 DEF ScanInv

\* A bucket number is one of a larger table, too.
LEMMA InLargerTable ==
  ASSUME NEW n \in Nat, NEW larger \in Nat, n <= larger, NEW c \in 0 .. n-1
  PROVE  c \in 0 .. larger-1
OBVIOUS

\* Between two calls a table may double but not shrink, and a key that is stable
\* stays stored.
LEMMA OthersKeep ==
  ASSUME ScanInv, ScanPut \/ ScanDelete \/ ScanRehash \/ UNCHANGED allVars
  PROVE  ScanInv'
<1>1. Inv /\ Sizes /\ cursor \in 0 .. size-1 /\ seen \subseteq Keys /\ stable \subseteq Stored
      /\ Progress /\ size \in Nat \ {0}
  BY DEF ScanInv, Inv, TypeOK
<1>2. /\ Inv' /\ cursor' = cursor /\ seen' = seen /\ stable' \subseteq stable
      /\ stable' \subseteq Stored'
      /\ \/ \E k \in Keys, v \in Values : Put(k, v)
         \/ \E k \in Keys : Delete(k)
         \/ RehashActivateIfNeeded \/ RehashStep \/ UNCHANGED vars
  <2>1. CASE ScanPut
    <3>1. PICK k \in Keys, v \in Values : Put(k, v) /\ UNCHANGED scanVars
      BY <2>1 DEF ScanPut
    <3>2. Inv' /\ Search(k)' # {} /\ \A j \in Keys \ {k} : Search(j)' = Search(j)
      <4>1. Inv /\ Put(k, v)
        BY <1>1, <3>1
      <4> QED BY ONLY k \in Keys, v \in Values, <4>1, PutSearch
    <3>3. Stored \subseteq Stored'
      BY <3>2 DEF Stored
    <3> QED BY <1>1, <3>1, <3>2, <3>3 DEF scanVars
  <2>2. CASE ScanDelete
    <3>1. PICK k \in Keys : Delete(k) /\ stable' = stable \ {k} /\ UNCHANGED <<cursor, seen>>
      BY <2>2 DEF ScanDelete
    <3>2. Inv' /\ \A j \in Keys \ {k} : Search(j)' = Search(j)
      BY <1>1, <3>1, DeleteSearch
    <3>3. Stored \ {k} \subseteq Stored'
      BY <3>2 DEF Stored
    <3> QED BY <1>1, <3>1, <3>2, <3>3
  <2>3. CASE ScanRehash \/ UNCHANGED allVars
    <3>1. /\ RehashActivateIfNeeded \/ RehashStep \/ UNCHANGED vars
          /\ UNCHANGED scanVars
      BY <2>3 DEF ScanRehash, allVars
    <3>2. Inv' /\ \A j \in Keys : Search(j)' = Search(j)
      BY <1>1, <3>1, RehashSearch
    <3>3. Stored' = Stored
      BY <3>2 DEF Stored
    <3> QED BY <1>1, <3>1, <3>2, <3>3 DEF scanVars
  <2> QED BY <2>1, <2>2, <2>3
<1>3. Sizes'
  BY <1>1, <1>2, SizesKept
<1>4. size' \in Nat /\ size <= size'
  <2>1. size' \in Nat
    BY <1>2 DEF Inv, TypeOK
  <2>2. size' = size \/ (RehashStep /\ size' = newSize /\ newSize = 2 * size)
    BY <1>1, <1>2 DEF Put, PutOverwrite, PutInsert, Delete, RehashActivateIfNeeded, RehashStep,
                      vars, Inv, RehashShape
  <2> QED BY <1>1, <2>1, <2>2
<1>5. Progress'
  BY <1>1, <1>2 DEF Progress
<1>6. cursor' \in 0 .. size'-1
  <2>1. cursor \in 0 .. size'-1
    BY <1>1, <1>4, InLargerTable
  <2>2. cursor' = cursor
    BY <1>2
  <2> QED BY <2>1, <2>2
<1>7. seen' \subseteq Keys
  BY <1>1, <1>2
<1> QED BY <1>2, <1>3, <1>5, <1>6, <1>7 DEF ScanInv

\* A new store that nobody has scanned yet.
LEMMA ScanInitHolds == ScanInit => ScanInv
<1> SUFFICES ASSUME ScanInit
             PROVE  ScanInv
  OBVIOUS
<1>1. Init /\ cursor = 0 /\ seen = {} /\ stable = {}
  BY DEF ScanInit
<1>2. Inv
  BY <1>1, InitInv
<1>3. Sizes
  <2>1. size = InitSize /\ newSize = 0 /\ 2^MaxBits \in Nat
    BY <1>1, MaxBitsAssumption, Power DEF Init
  <2> QED BY <2>1, SizeIsPowerOfTwo DEF Sizes
<1>4. cursor \in 0 .. size-1
  BY <1>1, <1>2 DEF Inv, TypeOK
<1> QED BY <1>1, <1>2, <1>3, <1>4 DEF ScanInv, Progress

\* The invariant holds in every state of a store that is scanned, for every set of
\* keys, hash function and initial size that the bits of a cursor cover.
THEOREM ScanInvariance == ScanSpec => []ScanInv
<1>1. ScanInv /\ [ScanNext]_allVars => ScanInv'
  BY ScanKeeps, OthersKeep DEF ScanNext
<1> QED BY <1>1, ScanInitHolds, PTL DEF ScanSpec

\* The cursor names a bucket of the table as it is at the next call: the early
\* returns of rchkKVStoreScan for other cursors are never taken.
THEOREM CursorIsInTable == ScanSpec => []CursorInTable
<1>1. ScanInv => CursorInTable
  BY DEF ScanInv, CursorInTable
<1> QED BY <1>1, ScanInvariance, PTL

\* A pass that ends has reported every key that was stored all the while, however
\* often the table doubled in between.
THEOREM ScanIsComplete == ScanSpec => []ScanComplete
<1>1. ScanInv => ScanComplete
  BY DEF ScanInv, Progress, ScanComplete
<1> QED BY <1>1, ScanInvariance, PTL

\* No key that was reported in a pass is reported again in it: what was seen is behind
\* the cursor, and the next call reports what is in its bucket.
THEOREM ReportedOnce == ScanSpec => []StableReportedOnce
<1>1. ScanInv => StableReportedOnce
  <2> SUFFICES ASSUME ScanInv, cursor \in 1 .. size-1, NEW k \in Reported(cursor), k \in seen
               PROVE  FALSE
    BY DEF StableReportedOnce
  <2>1. PICK m \in 0 .. MaxBits : size = 2^m
    BY DEF ScanInv, Sizes
  <2>2. m \in Nat /\ m <= MaxBits /\ cursor \in Nat /\ cursor < 2^m /\ cursor \in 0 .. size-1
        /\ cursor # 0
    BY <2>1, MaxBitsAssumption
  <2>3. k \in Keys /\ Hash[k] \in Nat /\ Visited(cursor, Hash[k])
    BY <2>2, HashAssumption DEF ScanInv, Progress
  <2>4. Hash[k] % size = cursor
    BY <2>1, <2>2, ReportedKeys DEF ScanInv
  <2>5. Low(cursor, m) = cursor
    BY <2>2, SmallNumber
  <2> QED BY <2>1, <2>2, <2>3, <2>4, <2>5, VisitedElsewhere DEF Low
<1> QED BY <1>1, ScanInvariance, PTL

-----------------------------------------------------------------------------
(* The bit operations                                                      *)

\* Doubling a product.
LEMMA AssociativeProduct ==
  ASSUME NEW a \in Nat, NEW b \in Nat
  PROVE  2 * (a * b) = a * (2 * b)
OBVIOUS

\* The power of a sum is the product of the powers.
LEMMA PowerOfSum ==
  ASSUME NEW i \in Nat, NEW d \in Nat
  PROVE  2^(i + d) = 2^i * 2^d
<1> DEFINE T == {e \in Nat : 2^(i + e) = 2^i * 2^e}
<1>1. 0 \in T
  BY Power
<1>2. ASSUME NEW e \in T PROVE e + 1 \in T
  <2>1. i + e \in Nat /\ e \in Nat /\ i + (e + 1) = (i + e) + 1 /\ e + 1 \in Nat
    OBVIOUS
  <2>2. 2^((i+e)+1) = 2 * 2^(i+e) /\ 2^(e+1) = 2 * 2^e /\ 2^i \in Nat /\ 2^e \in Nat
    BY <2>1, Power
  <2>3. 2^(i+e) = 2^i * 2^e
    OBVIOUS
  <2>4. 2^(i+(e+1)) = 2 * (2^i * 2^e)
    BY <2>1, <2>2, <2>3
  <2>5. 2^(i+(e+1)) = 2^i * 2^(e+1)
    BY <2>2, <2>4, AssociativeProduct
  <2> QED BY <2>1, <2>5
<1>3. \A e \in Nat : e \in T
  <2> HIDE DEF T
  <2>1. T \in SUBSET Nat
    BY DEF T
  <2> QED BY <1>1, <1>2, <2>1, Induction
<1> QED BY <1>3

\* Exactly the bits below b are ones in 2^b - 1.
LEMMA Ones ==
  ASSUME NEW b \in Nat, NEW i \in Nat
  PROVE  Bit(2^b - 1, i) = 1 <=> i < b
<1>1. 2^b \in Nat \ {0} /\ 2^b - 1 \in Nat /\ 2^b - 1 < 2^b
  BY Power
<1>2. CASE b <= i
  <2>1. Bit(2^b - 1, i) = 0
    BY <1>1, <1>2, SmallNumber
  <2> QED BY <1>2, <2>1
<1>3. CASE i < b
  <2> DEFINE d == (b - i) - 1
             p == 2^i
             q == 2^d
  <2>1. d \in Nat /\ b = i + (d + 1)
    BY <1>3
  <2>2. p \in Nat \ {0} /\ q \in Nat \ {0} /\ 2^(d+1) = 2 * q
    BY <2>1, Power
  <2>3. 2^b = p * (2 * q)
    <3>1. d + 1 \in Nat /\ 2^(i + (d + 1)) = 2^i * 2^(d+1)
      BY <2>1, PowerOfSum
    <3> HIDE DEF d
    <3> QED BY <2>1, <2>2, <3>1
  <2> HIDE DEF p, q, d
  <2>4. 2^b - 1 = p * (2 * q - 1) + (p - 1) /\ 2 * q - 1 \in Nat /\ p - 1 \in 0 .. p-1
    <3>1. p * (2 * q - 1) = p * (2 * q) - p
      BY <2>2
    <3> QED BY <2>2, <2>3, <3>1
  <2>5. (2^b - 1) \div p = 2 * q - 1
    BY <2>2, <2>4, DivideUnique
  <2>6. (2 * q - 1) % 2 = 1
    BY <2>2
  <2> QED BY <1>3, <2>5, <2>6 DEF Bit, p
<1> QED BY <1>2, <1>3

\* A number around its bit j: the number above the bit, the bit, and what is below it.
Parts(h, j, u, b, l) ==
  u \in Nat /\ b \in {0, 1} /\ l \in 0 .. 2^j - 1 /\ h = 2^j * (2 * u + b) + l

\* The parts a number is put together from are its bits ...
LEMMA PartsAreTheBits ==
  ASSUME NEW j \in Nat, NEW h, NEW u, NEW b, NEW l, Parts(h, j, u, b, l)
  PROVE  h \in Nat /\ Bit(h, j) = b /\ Low(h, j) = l /\ Bit(h, j+1) = u % 2
<1> DEFINE p == 2^j
<1>1. /\ p \in Nat \ {0} /\ 2^(j+1) = 2 * p
      /\ u \in Nat /\ b \in {0, 1} /\ l \in 0 .. p-1 /\ h = p * (2 * u + b) + l
  BY Power DEF Parts
<1> HIDE DEF p
<1>2. 2 * u + b \in Nat /\ (2 * u + b) % 2 = b
  BY <1>1
<1>3. h \in Nat /\ h \div p = 2 * u + b /\ h % p = l
  <2> DEFINE v == 2 * u + b
  <2>1. v \in Nat /\ h = p * v + l /\ p \in Nat \ {0} /\ l \in 0 .. p-1
    BY <1>1, <1>2
  <2> HIDE DEF v
  <2>2. (p * v + l) \div p = v /\ (p * v + l) % p = l
    BY <2>1, DivideUnique
  <2>3. h \in Nat
    BY <2>1
  <2> QED BY <2>1, <2>2, <2>3 DEF v
<1>4. h \div (2 * p) = u
  <2>1. p * b + l \in 0 .. 2 * p - 1 /\ p * b \in Nat
    <3>1. b = 0 \/ b = 1
      BY <1>1
    <3> QED BY <1>1, <3>1
  <2>2. p * (2 * u + b) = (2 * p) * u + p * b
    BY <1>1
  <2>3. h = (2 * p) * u + (p * b + l)
    <3>1. (2 * p) * u \in Nat
      BY <1>1
    <3> QED BY <1>1, <2>1, <2>2, <3>1
  <2> DEFINE n == 2 * p
             m == p * b + l
  <2>4. n \in Nat \ {0} /\ m \in 0 .. n-1 /\ u \in Nat /\ h = n * u + m
    BY <1>1, <2>1, <2>3
  <2> HIDE DEF n, m
  <2>5. (n * u + m) \div n = u
    BY <2>4, DivideUnique
  <2> QED BY <2>4, <2>5 DEF n
<1> QED BY <1>1, <1>2, <1>3, <1>4 DEF Bit, Low, p

\* ... and every number has such parts.
LEMMA EveryNumberHasParts ==
  ASSUME NEW j \in Nat, NEW h \in Nat
  PROVE  \E u \in Nat : Parts(h, j, u, Bit(h, j), Low(h, j))
<1> DEFINE p == 2^j
           q == h \div p
<1>1. p \in Nat \ {0}
  BY Power
<1>2. q \in Nat /\ h % p \in 0 .. p-1 /\ h = p * q + (h % p)
  BY <1>1, Divide
<1>3. q \div 2 \in Nat /\ q % 2 \in {0, 1} /\ q = 2 * (q \div 2) + (q % 2)
  <2> HIDE DEF q
  <2> QED BY <1>2
<1>4. Bit(h, j) = q % 2 /\ Low(h, j) = h % p
  BY DEF Bit, Low
<1>5. Parts(h, j, q \div 2, q % 2, h % p)
  <2> HIDE DEF q
  <2>1. h = p * (2 * (q \div 2) + (q % 2)) + (h % p)
    BY <1>2, <1>3
  <2> QED BY <1>2, <1>3, <2>1 DEF Parts
<1> QED BY <1>3, <1>4, <1>5

\* Numbers that differ below bit j only are below the same larger powers of two.
LEMMA SameBlock ==
  ASSUME NEW j \in Nat, NEW k \in Nat, j <= k, NEW q \in Nat,
         NEW l \in 0 .. 2^j - 1, NEW m \in 0 .. 2^j - 1, 2^j * q + l < 2^k
  PROVE  2^j * q + m < 2^k
<1> DEFINE p == 2^j
           d == k - j
           n == 2^d
<1>1. d \in Nat /\ k = j + d
  OBVIOUS
<1>2. p \in Nat \ {0} /\ n \in Nat \ {0} /\ 2^k = p * n
  <2> HIDE DEF d
  <2> QED BY <1>1, Power, PowerOfSum
<1> HIDE DEF p, n, d
<1>3. p * q + l < p * n /\ l \in 0 .. p-1 /\ m \in 0 .. p-1
  BY <1>2 DEF p
<1>4. q + 1 <= n
  <2> SUFFICES ASSUME n <= q
               PROVE  FALSE
    BY <1>2
  <2>1. p * n <= p * q /\ p * n \in Nat /\ p * q \in Nat
    BY <1>2
  <2> QED BY <1>2, <1>3, <2>1
<1>5. p * q + p <= p * n
  <2>1. n - (q + 1) \in Nat /\ n = (q + 1) + (n - (q + 1))
    BY <1>2, <1>4
  <2>2. PICK e \in Nat : n = (q + 1) + e
    BY <2>1
  <2>3. p * n = p * q + p + p * e /\ p * e \in Nat /\ p * q \in Nat
    BY <1>2, <2>2
  <2> QED BY <1>2, <2>3
<1>6. p * q \in Nat /\ p * n \in Nat
  BY <1>2
<1>7. p * q + m < p * n
  BY <1>2, <1>3, <1>5, <1>6
<1> QED BY <1>2, <1>7 DEF p

\* What a round of rev() does to position i when it exchanges runs of 2^j bits, and
\* what all rounds from there on do: the lowest j bits of i are complemented.
Partner(i, j) == IF Bit(i, j) = 0 THEN i + 2^j ELSE i - 2^j
Mirror(i, j) == i + 2^j - 1 - 2 * Low(i, j)

\* A partner differs in bit j alone ...
LEMMA PartsOfPartner ==
  ASSUME NEW j \in Nat, NEW i \in Nat, NEW u \in Nat, Parts(i, j, u, Bit(i, j), Low(i, j))
  PROVE  Partner(i, j) \in Nat /\ Parts(Partner(i, j), j, u, 1 - Bit(i, j), Low(i, j))
<1> DEFINE p == 2^j
           b == Bit(i, j)
           l == Low(i, j)
<1>1. p \in Nat \ {0} /\ b \in {0, 1} /\ l \in 0 .. p-1 /\ i = p * (2 * u + b) + l
  BY Power DEF Parts
<1>2. Partner(i, j) = p * (2 * u + (1 - b)) + l
  <2>1. Partner(i, j) = IF b = 0 THEN i + p ELSE i - p
    BY DEF Partner
  <2> HIDE DEF p, b, l
  <2>2. p * (2 * u + 1) = p * (2 * u) + p /\ p * (2 * u) \in Nat
    BY <1>1
  <2>3. CASE b = 0
    <3>1. i = p * (2 * u) + l /\ Partner(i, j) = i + p
      BY <1>1, <2>1, <2>3
    <3>2. Partner(i, j) = p * (2 * u + 1) + l
      BY <1>1, <2>2, <3>1
    <3> QED BY <2>3, <3>2
  <2>4. CASE b = 1
    <3>1. i = p * (2 * u + 1) + l /\ Partner(i, j) = i - p
      BY <1>1, <2>1, <2>4
    <3>2. Partner(i, j) = p * (2 * u) + l
      BY <1>1, <2>2, <3>1
    <3>3. 2 * u + (1 - b) = 2 * u
      BY <2>4
    <3> QED BY <3>2, <3>3
  <2> QED BY <1>1, <2>3, <2>4
<1>3. 1 - b \in {0, 1}
  BY <1>1
<1>4. Parts(Partner(i, j), j, u, 1 - b, l)
  <2> HIDE DEF b, l
  <2> QED BY <1>1, <1>2, <1>3 DEF Parts
<1> QED BY <1>4, PartsAreTheBits

\* ... and a mirror image in the bits below.
LEMMA PartsOfMirror ==
  ASSUME NEW j \in Nat, NEW i \in Nat, NEW u \in Nat, Parts(i, j, u, Bit(i, j), Low(i, j))
  PROVE  Mirror(i, j) \in Nat /\ Parts(Mirror(i, j), j, u, Bit(i, j), 2^j - 1 - Low(i, j))
<1> DEFINE p == 2^j
           b == Bit(i, j)
           l == Low(i, j)
<1>1. p \in Nat \ {0} /\ b \in {0, 1} /\ l \in 0 .. p-1 /\ i = p * (2 * u + b) + l
  BY Power DEF Parts
<1>2. Mirror(i, j) = p * (2 * u + b) + (p - 1 - l)
  <2>1. Mirror(i, j) = i + p - 1 - 2 * l
    BY DEF Mirror
  <2> HIDE DEF p, b, l
  <2>2. p * (2 * u + b) \in Nat
    BY <1>1
  <2> QED BY <1>1, <2>1, <2>2
<1>3. p - 1 - l \in 0 .. p-1
  <2> HIDE DEF p, l
  <2> QED BY <1>1
<1>4. Parts(Mirror(i, j), j, u, b, p - 1 - l)
  <2> HIDE DEF b, l
  <2> QED BY <1>1, <1>2, <1>3 DEF Parts
<1> QED BY <1>4, PartsAreTheBits

\* A round and the rounds after it make the rounds from one bit higher on.
LEMMA MirrorNext ==
  ASSUME NEW j \in Nat, NEW i \in Nat
  PROVE  Partner(Mirror(i, j), j) = Mirror(i, j+1)
<1>1. PICK u \in Nat : Parts(i, j, u, Bit(i, j), Low(i, j))
  BY EveryNumberHasParts
<1>2. Mirror(i, j) \in Nat /\ Bit(Mirror(i, j), j) = Bit(i, j)
  BY <1>1, PartsOfMirror, PartsAreTheBits
<1>3. Low(i, j+1) = Low(i, j) + 2^j * Bit(i, j) /\ 2^(j+1) = 2 * 2^j /\ 2^j \in Nat
      /\ Bit(i, j) \in {0, 1} /\ Low(i, j) \in Nat
  BY LowNext, Power, BitRange
<1>4. Partner(Mirror(i, j), j) = IF Bit(i, j) = 0 THEN Mirror(i, j) + 2^j ELSE Mirror(i, j) - 2^j
  BY <1>2 DEF Partner
<1>5. /\ Mirror(i, j) = i + 2^j - 1 - 2 * Low(i, j)
      /\ Mirror(i, j+1) = i + 2^(j+1) - 1 - 2 * Low(i, j+1)
  BY DEF Mirror
<1>6. CASE Bit(i, j) = 0
  BY <1>3, <1>4, <1>5, <1>6
<1>7. CASE Bit(i, j) = 1
  BY <1>3, <1>4, <1>5, <1>7
<1> QED BY <1>3, <1>6, <1>7

\* The mask of rev() for runs of 2^j bits, and its variables before the next round.
LowerHalves(j) == {i \in Positions : Bit(i, j) = 0}
Before(j, w) == [s |-> 2^j, mask |-> LowerHalves(j), v |-> w]

\* The exclusive or makes the next mask of this one.
LEMMA NextMask ==
  ASSUME NEW j \in Nat
  PROVE  SymDiff(LowerHalves(j+1), ShiftLeft(LowerHalves(j+1), 2^j)) = LowerHalves(j)
<1> DEFINE p == 2^j
           M == LowerHalves(j+1)
           L == ShiftLeft(M, p)
<1>1. \A i : i \in Positions => i \in Nat
  BY WidthAssumption DEF Positions
<1>2. ASSUME NEW i \in Positions
      PROVE  (i \in M /\ i \notin L) \/ (i \notin M /\ i \in L) <=> Bit(i, j) = 0
  <2>1. i \in Nat
    BY <1>1
  <2>2. PICK u \in Nat : Parts(i, j, u, Bit(i, j), Low(i, j))
    BY <2>1, EveryNumberHasParts
  <2>3. /\ p \in Nat \ {0} /\ Bit(i, j) \in {0, 1} /\ Low(i, j) \in 0 .. p-1
        /\ i = p * (2 * u + Bit(i, j)) + Low(i, j)
    BY <2>2, Power DEF Parts
  <2>4. i \in M <=> u % 2 = 0
    <3>1. Bit(i, j+1) = u % 2
      BY <2>2, PartsAreTheBits
    <3> QED BY <3>1 DEF LowerHalves
  <2>5. i \in L <=> i - p \in Nat /\ Bit(i - p, j+1) = 0
    <3>1. i - p \in Nat => i - p \in Positions
      BY <2>3, WidthAssumption DEF Positions
    <3>2. i - p \in Positions => i - p \in Nat
      BY <1>1
    <3> HIDE DEF p
    <3> QED BY <3>1, <3>2 DEF ShiftLeft, LowerHalves
  <2>6. CASE Bit(i, j) = 1
    <3>1. Partner(i, j) = i - p
      BY <2>6 DEF Partner
    <3>2. i - p \in Nat /\ Bit(i - p, j+1) = u % 2
      <4>1. Partner(i, j) \in Nat /\ Parts(Partner(i, j), j, u, 1 - Bit(i, j), Low(i, j))
        BY <2>1, <2>2, PartsOfPartner
      <4>2. Bit(Partner(i, j), j+1) = u % 2
        BY <4>1, PartsAreTheBits
      <4> QED BY <3>1, <4>1, <4>2
    <3> HIDE DEF M, L, p
    <3> QED BY <2>4, <2>5, <2>6, <3>2
  <2>7. CASE Bit(i, j) = 0 /\ u = 0
    <3>1. i - p \notin Nat
      <4> DEFINE l == Low(i, j)
      <4>1. l \in 0 .. p-1 /\ i = p * 0 + l
        BY <2>3, <2>7
      <4> HIDE DEF l, p
      <4>2. i = l
        BY <2>3, <4>1
      <4> QED BY <2>3, <4>1, <4>2
    <3>2. u % 2 = 0
      BY <2>7
    <3> HIDE DEF M, L, p
    <3> QED BY <2>4, <2>5, <2>7, <3>1, <3>2
  <2>8. CASE Bit(i, j) = 0 /\ u # 0
    <3> DEFINE n == u - 1
               l == Low(i, j)
    <3>1. n \in Nat /\ u = n + 1
      BY <2>8
    <3>2. i - p = p * (2 * n + 1) + l
      <4>1. i = p * (2 * u) + l /\ l \in 0 .. p-1
        BY <2>3, <2>8
      <4> HIDE DEF l, p, n
      <4>2. p * (2 * u) = p * (2 * n + 1) + p /\ p * (2 * n + 1) \in Nat
        BY <2>3, <3>1
      <4> QED BY <2>3, <4>1, <4>2
    <3>3. Parts(i - p, j, n, 1, l)
      <4>1. l \in 0 .. p-1
        BY <2>3
      <4> HIDE DEF l, n
      <4> QED BY <3>1, <3>2, <4>1 DEF Parts
    <3>4. i - p \in Nat /\ Bit(i - p, j+1) = n % 2
      BY <3>3, PartsAreTheBits
    <3>5. u % 2 = 0 <=> n % 2 # 0
      <4> HIDE DEF n
      <4> QED BY <3>1
    <3>6. n % 2 \in {0, 1}
      <4> HIDE DEF n
      <4> QED BY <3>1
    <3> HIDE DEF M, L, p, n
    <3> QED BY <2>4, <2>5, <2>8, <3>4, <3>5, <3>6
  <2> QED BY <2>3, <2>6, <2>7, <2>8
<1>3. M \subseteq Positions /\ L \subseteq Positions
  BY DEF LowerHalves, ShiftLeft
<1> HIDE DEF M, L
<1>4. SymDiff(M, L) = LowerHalves(j)
  BY <1>2, <1>3 DEF SymDiff, LowerHalves
<1> QED BY <1>4 DEF M, L

\* A round moves every bit to the place of its partner.
LEMMA RoundExchanges ==
  ASSUME NEW j \in Nat, NEW w \in Word
  PROVE  Round(Before(j+1, w)) = Before(j, {i \in Positions : Partner(i, j) \in w})
<1> DEFINE r == Before(j+1, w)
           p == 2^j
           x == {i \in Positions : Partner(i, j) \in w}
<1>1. r.s \div 2 = p
  <2>1. 2^(j+1) = 2 * p /\ p \in Nat
    BY Power
  <2>2. r.s = 2^(j+1)
    BY DEF Before
  <2> HIDE DEF p, r
  <2> QED BY <2>1, <2>2
<1>2. r.mask = LowerHalves(j+1) /\ r.v = w
  BY DEF Before
<1>3. SymDiff(r.mask, ShiftLeft(r.mask, p)) = LowerHalves(j)
  BY <1>2, NextMask
<1>4. x = (ShiftRight(w, p) \cap LowerHalves(j))
            \cup (ShiftLeft(w, p) \cap Complement(LowerHalves(j)))
  <2>1. ASSUME NEW i \in Positions
        PROVE  Partner(i, j) \in w <=>
                 \/ i + p \in w /\ Bit(i, j) = 0
                 \/ i - p \in w /\ Bit(i, j) # 0
    BY DEF Partner
  <2> HIDE DEF p
  <2> QED BY <2>1 DEF ShiftRight, ShiftLeft, Complement, LowerHalves
<1>5. Round(r) = [s |-> p, mask |-> LowerHalves(j), v |-> x]
  <2> HIDE DEF r, p, x
  <2> QED BY <1>1, <1>2, <1>3, <1>4 DEF Round
<1> QED BY <1>5 DEF Before

\* The loop of rev(), as an equation for all values of its variables.
LoopFrom(f, r) == IF r.s \div 2 = 0 THEN r.v ELSE f[Round(r)]
IsLoop(f) == f = [r \in Locals |-> LoopFrom(f, r)]

\* A round keeps words words, and halves s.
LEMMA RoundTyped ==
  ASSUME NEW r \in Locals
  PROVE  Round(r) \in Locals /\ Round(r).s = r.s \div 2
<1>1. r.s \in 0 .. Width /\ r.mask \in Word /\ r.v \in Word
  BY DEF Locals
<1>2. r.s \div 2 \in 0 .. Width
  BY <1>1, WidthAssumption
<1> DEFINE s == r.s \div 2
           mask == SymDiff(r.mask, ShiftLeft(r.mask, s))
           v == (ShiftRight(r.v, s) \cap mask) \cup (ShiftLeft(r.v, s) \cap Complement(mask))
<1>3. mask \in Word /\ v \in Word
  <2> HIDE DEF s
  <2> QED BY <1>1 DEF Word, SymDiff, ShiftLeft, ShiftRight
<1>4. Round(r) = [s |-> s, mask |-> mask, v |-> v]
  BY DEF Round
<1> HIDE DEF s, mask, v
<1> QED BY <1>2, <1>3, <1>4 DEF Locals, s

\* The equation has a solution: a round halves s.
LEMMA LoopExists == \E f : IsLoop(f)
<1> DEFINE Solves(f, n) == \A r \in Locals : r.s <= n => f[r] = LoopFrom(f, r)
           T == {n \in Nat : \E f : Solves(f, n)}
<1>0. \A r \in Locals : r.s \in Nat
  BY WidthAssumption DEF Locals
<1>1. 0 \in T
  <2> DEFINE f == [r \in Locals |-> r.v]
  <2>1. Solves(f, 0)
    <3> SUFFICES ASSUME NEW r \in Locals, r.s <= 0 PROVE f[r] = LoopFrom(f, r)
      OBVIOUS
    <3>1. r.s \div 2 = 0
      BY <1>0
    <3> QED BY <3>1 DEF LoopFrom
  <2> HIDE DEF f
  <2> QED BY <2>1
<1>2. ASSUME NEW n \in T PROVE n + 1 \in T
  <2>1. PICK f : Solves(f, n)
    OBVIOUS
  <2> DEFINE g == [r \in Locals |-> LoopFrom(f, r)]
  <2>2. Solves(g, n + 1)
    <3> SUFFICES ASSUME NEW r \in Locals, r.s <= n + 1 PROVE g[r] = LoopFrom(g, r)
      OBVIOUS
    <3>1. g[r] = LoopFrom(f, r)
      OBVIOUS
    <3>2. CASE r.s \div 2 = 0
      BY <3>1, <3>2 DEF LoopFrom
    <3>3. CASE r.s \div 2 # 0
      <4>1. Round(r) \in Locals /\ Round(r).s <= n
        <5>1. r.s \div 2 <= n
          BY <1>0, <3>3
        <5> QED BY <5>1, RoundTyped
      <4>2. g[Round(r)] = LoopFrom(f, Round(r)) /\ f[Round(r)] = LoopFrom(f, Round(r))
        BY <2>1, <4>1
      <4> QED BY <3>1, <3>3, <4>2 DEF LoopFrom
    <3> QED BY <3>2, <3>3
  <2>3. n + 1 \in Nat
    OBVIOUS
  <2> HIDE DEF g, Solves
  <2> QED BY <2>2, <2>3
<1>3. Width \in T
  <2>1. T \in SUBSET Nat
    OBVIOUS
  <2> HIDE DEF T
  <2>2. \A n \in Nat : n \in T
    BY <1>1, <1>2, <2>1, Induction
  <2> QED BY <2>2, WidthAssumption
<1>4. PICK f : Solves(f, Width)
  BY <1>3
<1> DEFINE h == [r \in Locals |-> f[r]]
<1>5. ASSUME NEW r \in Locals PROVE f[r] = LoopFrom(h, r)
  <2>1. r.s <= Width
    BY WidthAssumption DEF Locals
  <2>2. f[r] = LoopFrom(f, r)
    BY <1>4, <2>1
  <2>3. h[Round(r)] = f[Round(r)]
    BY RoundTyped
  <2> HIDE DEF h
  <2> QED BY <2>2, <2>3 DEF LoopFrom
<1>6. h = [r \in Locals |-> LoopFrom(h, r)]
  BY <1>5
<1> QED BY <1>6 DEF IsLoop

\* Positions are the numbers below Width.
LEMMA PositionsAreNumbers ==
  /\ Width \in Nat
  /\ \A i : i \in Positions <=> i \in Nat /\ i < Width
BY WidthAssumption DEF Positions

\* Complementing low bits does not lead out of the word.
LEMMA MirrorInside ==
  ASSUME NEW k \in Nat, Width = 2^k, NEW j \in Nat, j <= k, NEW i \in Positions
  PROVE  Mirror(i, j) \in Positions
<1>1. i \in Nat /\ i < 2^k
  BY PositionsAreNumbers
<1>2. PICK u \in Nat : Parts(i, j, u, Bit(i, j), Low(i, j))
  BY <1>1, EveryNumberHasParts
<1>3. Mirror(i, j) \in Nat /\ Parts(Mirror(i, j), j, u, Bit(i, j), 2^j - 1 - Low(i, j))
  BY <1>1, <1>2, PartsOfMirror
<1> DEFINE q == 2 * u + Bit(i, j)
           l == Low(i, j)
           m == 2^j - 1 - Low(i, j)
<1>4. q \in Nat /\ l \in 0 .. 2^j - 1 /\ m \in 0 .. 2^j - 1 /\ 2^j * q + l < 2^k
      /\ Mirror(i, j) = 2^j * q + m
  BY <1>1, <1>2, <1>3 DEF Parts
<1>5. Mirror(i, j) < 2^k
  <2> HIDE DEF q, l, m
  <2> QED BY <1>4, SameBlock
<1> QED BY <1>3, <1>5, PositionsAreNumbers

\* What is left of the loop complements the low bits of every position.
LEMMA LoopMirrors ==
  ASSUME NEW k \in Nat, Width = 2^k, NEW f, IsLoop(f)
  PROVE  \A j \in Nat : j <= k =>
           \A w \in Word : f[Before(j, w)] = {i \in Positions : Mirror(i, j) \in w}
<1> DEFINE Mirrored(w, j) == {i \in Positions : Mirror(i, j) \in w}
           T == {j \in Nat : j <= k => \A w \in Word : f[Before(j, w)] = Mirrored(w, j)}
<1>1. ASSUME NEW j \in Nat, j <= k, NEW w \in Word
      PROVE  /\ Before(j, w) \in Locals /\ Before(j, w).s = 2^j /\ Before(j, w).v = w
             /\ f[Before(j, w)] = LoopFrom(f, Before(j, w))
  <2>1. 2^j \in 0 .. Width
    <3>1. 2^j <= 2^k /\ 2^j \in Nat /\ 2^k \in Nat
      BY <1>1, Power, PowerGrows
    <3> QED BY <3>1
  <2>2. LowerHalves(j) \in Word
    BY DEF LowerHalves, Word
  <2>3. Before(j, w) \in Locals
    BY <2>1, <2>2 DEF Before, Locals
  <2> QED BY <2>3 DEF IsLoop, Before
<1>2. 0 \in T
  <2> SUFFICES ASSUME NEW w \in Word PROVE f[Before(0, w)] = Mirrored(w, 0)
    OBVIOUS
  <2>1. f[Before(0, w)] = LoopFrom(f, Before(0, w)) /\ Before(0, w).s = 1 /\ Before(0, w).v = w
    <3>1. 0 <= k /\ 2^0 = 1
      BY Power
    <3> HIDE DEF T
    <3> QED BY <1>1, <3>1
  <2>2. f[Before(0, w)] = w
    <3>1. 1 \div 2 = 0
      OBVIOUS
    <3> QED BY <2>1, <3>1 DEF LoopFrom
  <2>3. \A i \in Positions : Mirror(i, 0) = i
    <3> SUFFICES ASSUME NEW i \in Positions PROVE Mirror(i, 0) = i
      OBVIOUS
    <3>1. i \in Nat /\ Low(i, 0) = 0 /\ 2^0 = 1
      BY PositionsAreNumbers, BitRange, Power
    <3> QED BY <3>1 DEF Mirror
  <2> QED BY <2>2, <2>3 DEF Word
<1>3. ASSUME NEW j \in T PROVE j + 1 \in T
  <2> SUFFICES ASSUME j + 1 <= k, NEW w \in Word
               PROVE  f[Before(j+1, w)] = Mirrored(w, j+1)
    OBVIOUS
  <2> DEFINE x == {i \in Positions : Partner(i, j) \in w}
  <2>1. x \in Word /\ j <= k /\ j \in Nat /\ j + 1 \in Nat
    BY DEF Word
  <2>2. f[Before(j+1, w)] = f[Before(j, x)]
    <3>1. f[Before(j+1, w)] = LoopFrom(f, Before(j+1, w)) /\ Before(j+1, w).s = 2^(j+1)
      BY <1>1, <2>1
    <3>2. 2^(j+1) \div 2 # 0
      <4>1. 2^(j+1) = 2 * 2^j /\ 2^j \in Nat \ {0}
        BY <2>1, Power
      <4> QED BY <4>1
    <3>3. Round(Before(j+1, w)) = Before(j, x)
      BY <2>1, RoundExchanges
    <3> HIDE DEF x
    <3> QED BY <3>1, <3>2, <3>3 DEF LoopFrom
  <2>3. f[Before(j, x)] = Mirrored(x, j)
    <3> HIDE DEF x
    <3> QED BY <2>1
  <2>4. ASSUME NEW i \in Positions
        PROVE  Mirror(i, j) \in x <=> Mirror(i, j+1) \in w
    <3>1. Mirror(i, j) \in Positions
      BY <2>1, MirrorInside
    <3>2. Partner(Mirror(i, j), j) = Mirror(i, j+1)
      BY <2>1, PositionsAreNumbers, MirrorNext
    <3> QED BY <3>1, <3>2
  <2> HIDE DEF x
  <2> QED BY <2>2, <2>3, <2>4
<1>4. T \in SUBSET Nat
  OBVIOUS
<1>5. \A j \in Nat : j \in T
  <2> HIDE DEF T
  <2> QED BY <1>2, <1>3, <1>4, Induction
<1> QED BY <1>5

\* rev() reverses the bits of a word.
LEMMA RevReverses ==
  ASSUME NEW w \in Word
  PROVE  Rev(w) = {i \in Positions : Width - 1 - i \in w}
<1> DEFINE f == CHOOSE g : IsLoop(g)
<1>1. IsLoop(f)
  BY LoopExists
<1>2. PICK k \in Nat : Width = 2^k
  BY WidthAssumption
<1>3. ASSUME NEW i \in Positions
      PROVE  Bit(i, k) = 0 /\ Mirror(i, k) = Width - 1 - i
  <2>1. i \in Nat /\ i < 2^k /\ Width \in Nat
    BY <1>2, PositionsAreNumbers
  <2>2. Low(i, k) = i /\ Bit(i, k) = 0
    BY <2>1, SmallNumber
  <2> QED BY <1>2, <2>1, <2>2 DEF Mirror
<1>4. Before(k, w) = [s |-> Width, mask |-> Positions, v |-> w]
  <2>1. LowerHalves(k) = Positions
    BY <1>3 DEF LowerHalves
  <2> QED BY <1>2, <2>1 DEF Before
<1>5. Rev(w) = f[Before(k, w)]
  <2>1. Rev(w) = f[[s |-> Width, mask |-> Positions, v |-> w]]
    BY Zenon DEF Rev, IsLoop, LoopFrom
  <2> QED BY <1>4, <2>1
<1>6. f[Before(k, w)] = {i \in Positions : Mirror(i, k) \in w}
  <2> HIDE DEF f
  <2> QED BY <1>1, <1>2, LoopMirrors
<1> HIDE DEF f
<1> QED BY <1>3, <1>5, <1>6

\* The operations of the code are the reversed increment.
LEMMA CursorAfterIsIncrement ==
  ASSUME NEW b \in 0 .. MaxBits, NEW c \in Nat, c < 2^b
  PROVE  CursorAfter(WordOf(c), WordOf(2^b - 1)) = WordOf(RevIncremented(c, 2^b))
<1>0. b \in Nat /\ b <= MaxBits + 1 /\ b <= Width
  BY WidthAssumption
<1>1. \A n : WordOf(n) = {i \in Positions : Bit(n, i) = 1}
  BY DEF WordOf, Bit
<1>2. ASSUME NEW i \in Positions
      PROVE  /\ i \in Nat /\ Width - 1 - i \in Positions /\ Width - 1 - (Width - 1 - i) = i
             /\ Bit(c, i) \in {0, 1}
  <2>1. i \in Nat
    BY PositionsAreNumbers
  <2> QED BY <2>1, PositionsAreNumbers, BitRange
<1> DEFINE x == WordOf(c) \cup Complement(WordOf(2^b - 1))
           r == Rev(x)
           clear == Complement(r)
<1>3. x \in Word /\ \A i \in Positions : i \in x <=> ~(i < b /\ Bit(c, i) = 0)
  <2>1. \A i \in Positions : Bit(2^b - 1, i) = 1 <=> i < b
    BY <1>0, <1>2, Ones
  <2>2. x \in Word
    BY DEF Word, WordOf, Complement
  <2> QED BY <1>1, <1>2, <2>1, <2>2 DEF Complement
<1>4. r = {i \in Positions : Width - 1 - i \in x}
  <2> HIDE DEF x
  <2> QED BY <1>3, RevReverses
<1> HIDE DEF x
<1>5. \A i \in Positions : i \in clear <=> Width - 1 - i < b /\ Bit(c, Width - 1 - i) = 0
  BY <1>2, <1>3, <1>4 DEF Complement
<1>6. CursorAfter(WordOf(c), WordOf(2^b - 1)) = Rev(PlusOne(r))
  BY DEF CursorAfter, x
<1>7. r \subseteq Positions /\ clear \subseteq Positions
  BY <1>4 DEF Complement
<1>8. PlusOne(r) = IF clear = {} THEN {} ELSE {Min(clear)} \cup {i \in r : i > Min(clear)}
  BY DEF PlusOne
<1>9. CASE AllSet(c, b)
  <2>1. clear = {}
    <3> SUFFICES ASSUME NEW i \in Positions, i \in clear PROVE FALSE
      BY <1>7
    <3>1. Width - 1 - i \in 0 .. b-1 /\ Bit(c, Width - 1 - i) = 0
      BY <1>2, <1>5, PositionsAreNumbers
    <3> QED BY <1>9, <3>1 DEF AllSet
  <2>2. PlusOne(r) = {} /\ {} \in Word
    BY <1>8, <2>1 DEF Word
  <2>3. Rev(PlusOne(r)) = {}
    BY <2>2, RevReverses
  <2>4. RevIncremented(c, 2^b) = 0
    BY <1>0, <1>9, NextBucket
  <2>5. \A i \in Positions : Bit(0, i) = 0
    <3>1. 0 \in Nat /\ 0 < 2^0 /\ \A i \in Positions : 0 <= i
      BY <1>2, Power
    <3> QED BY <1>2, <3>1, SmallNumber
  <2>6. WordOf(0) = {}
    BY <1>1, <2>5
  <2> QED BY <1>6, <2>3, <2>4, <2>6
<1>10. CASE \E h \in 0 .. b-1 : HighestClear(c, b, h)
  <2>1. PICK h \in 0 .. b-1 : HighestClear(c, b, h)
    BY <1>10
  <2>2. Bit(c, h) = 0 /\ \A i \in h+1 .. b-1 : Bit(c, i) = 1
    BY <2>1 DEF HighestClear
  <2>3. h \in Nat /\ h < b /\ h \in Positions
    BY <1>0, <2>1, PositionsAreNumbers
  <2> DEFINE m == Width - 1 - h
             n == Low(c, h) + 2^h
             z == {m} \cup {i \in r : i > m}
  <2>4. m \in Positions /\ Width - 1 - m = h
    BY <1>2, <2>3
  <2>5. Min(clear) = m
    <3>1. m \in clear
      <4> HIDE DEF m
      <4> QED BY <1>5, <2>2, <2>3, <2>4
    <3>2. ASSUME NEW i \in clear PROVE m <= i
      <4>1. i \in Positions /\ Width - 1 - i < b /\ Bit(c, Width - 1 - i) = 0
        BY <1>5, <1>7
      <4>2. i \in Nat /\ Width - 1 - i \in Nat
        BY <1>2, <4>1
      <4>3. ~(Width - 1 - i \in h+1 .. b-1)
        BY <2>2, <4>1
      <4> QED BY <2>3, <4>1, <4>2, <4>3, PositionsAreNumbers
    <3>3. \A i \in clear : i \in Int
      BY <1>2, <1>7
    <3>4. m \in Int
      BY <1>2, <2>4
    <3> HIDE DEF m, clear
    <3>5. \A i \in clear : (\A y \in clear : i <= y) <=> i = m
      BY <3>1, <3>2, <3>3, <3>4
    <3> QED BY <3>1, <3>5 DEF Min
  <2>6. PlusOne(r) = z /\ z \in Word
    <3>1. clear # {}
      BY <1>5, <2>2, <2>3, <2>4
    <3> HIDE DEF m, clear
    <3> QED BY <1>7, <1>8, <2>4, <2>5, <3>1 DEF Word
  <2>7. Rev(z) = {i \in Positions : Width - 1 - i \in z}
    <3> HIDE DEF z
    <3> QED BY <2>6, RevReverses
  <2>8. RevIncremented(c, 2^b) = n
    BY <1>0, <2>1, NextBucket
  <2>9. /\ n \in Nat /\ Low(n, h) = Low(c, h) /\ Bit(n, h) = 1
        /\ \A j \in Nat : h < j => Bit(n, j) = 0
    <3>1. h \in Nat
      BY <2>3
    <3> QED BY ONLY c \in Nat, <3>1, TopBit
  <2>10. ASSUME NEW i \in Positions
        PROVE  Width - 1 - i \in z <=> Bit(n, i) = 1
    <3>1. i \in Nat /\ Width - 1 - i \in Positions /\ Width - 1 - (Width - 1 - i) = i
          /\ Width \in Nat
      BY <1>2, PositionsAreNumbers
    <3>2. Width - 1 - i \in z <=> i = h \/ (i < h /\ i \in x)
      <4>1. Width - 1 - i = m <=> i = h
        BY <2>3, <3>1
      <4>2. Width - 1 - i > m <=> i < h
        BY <2>3, <3>1
      <4>3. Width - 1 - i \in r <=> i \in x
        BY <1>4, <3>1
      <4> HIDE DEF m, r
      <4> QED BY <4>1, <4>2, <4>3
    <3> HIDE DEF n, z
    <3>3. CASE i < h
      <4>1. Bit(n, i) = Bit(c, i)
        BY <2>3, <2>9, <3>1, <3>3, SameBit
      <4>2. i \in x <=> Bit(c, i) = 1
        <5>1. i < b
          BY <2>3, <3>1, <3>3
        <5> QED BY <1>2, <1>3, <5>1
      <4>3. i # h
        BY <2>3, <3>3
      <4> QED BY <3>2, <3>3, <4>1, <4>2, <4>3
    <3>4. CASE i = h
      BY <2>9, <3>2, <3>4
    <3>5. CASE h < i
      <4>1. Bit(n, i) = 0 /\ i # h /\ ~(i < h)
        BY <2>3, <2>9, <3>1, <3>5
      <4> QED BY <3>2, <4>1
    <3> QED BY <2>3, <3>1, <3>3, <3>4, <3>5
  <2> HIDE DEF n, z
  <2>11. Rev(z) = WordOf(n)
    BY <1>1, <2>7, <2>10
  <2> QED BY <1>6, <2>6, <2>8, <2>11
<1> QED BY <1>0, <1>9, <1>10, HighestClearExists

\* The bit operations of the code compute the increment with reversed bits, which the
\* scan of this model uses, for every cursor and every table of a power of two that
\* the width of a cursor covers.
THEOREM BitsAreTheIncrement == ScanSpec => []CodeIsRevIncremented
<1>1. ScanInv => CodeIsRevIncremented
  <2> SUFFICES ASSUME ScanInv, NEW b \in 0 .. MaxBits, cursor < 2^b
               PROVE  CursorAfter(WordOf(cursor), WordOf(2^b - 1))
                        = WordOf(RevIncremented(cursor, 2^b))
    BY DEF CodeIsRevIncremented
  <2>1. cursor \in Nat
    BY DEF ScanInv
  <2> QED BY <2>1, CursorAfterIsIncrement
<1> QED BY <1>1, ScanInvariance, PTL
=============================================================================
