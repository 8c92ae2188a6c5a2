-------------------------- MODULE ClassKeysProofs --------------------------
(***************************************************************************)
(* Proofs about ClassKeys, for every hierarchy and every order in which    *)
(* its classes get their keys: an object of a derived class passes each    *)
(* test for its bases, and an object of another class passes one only if   *)
(* two children of a class got the same key.                               *)
(***************************************************************************)
EXTENDS ClassKeys, FiniteSetTheorems, WellFoundedInduction, TLAPS

-----------------------------------------------------------------------------
(* Numbers.                                                                *)

LEMMA LeastNumber ==
  ASSUME NEW ns \in SUBSET Nat, ns # {}
  PROVE  \E n \in ns : \A m \in ns : n <= m
<1> DEFINE less == {p \in Nat \X Nat : p[1] < p[2]}
<1>1. IsWellFoundedOn(less, Nat)
  BY NatLessThanWellFounded DEF OpToRel
<1> HIDE DEF less
<1>2. PICK n \in ns : \A m \in ns : ~(<<m, n>> \in less)
  BY <1>1, WFMin
<1>3. \A m, k \in Nat : m < k => <<m, k>> \in less
  BY DEF less
<1>4. ASSUME NEW m \in ns
      PROVE  n <= m
  <2>1. m \in Nat /\ n \in Nat /\ ~(<<m, n>> \in less)
    BY <1>2
  <2>2. ~(m < n)
    BY <1>3, <2>1
  <2> QED
    BY <2>1, <2>2
<1> QED
  BY <1>4

LEMMA LargestNumber ==
  ASSUME NEW ns \in SUBSET Nat, IsFiniteSet(ns), ns # {}
  PROVE  \E n \in ns : \A m \in ns : m <= n
<1> DEFINE HasLargest(s) == \E n \in s : \A m \in s : m <= n
           Lacks(s) == s # {} /\ IsFiniteSet(s) /\ ~HasLargest(s)
           sizes == {k \in Nat : \E s \in SUBSET Nat : Lacks(s) /\ Cardinality(s) = k}
<1>1. SUFFICES ASSUME ~HasLargest(ns) PROVE FALSE
  OBVIOUS
<1>2. Cardinality(ns) \in sizes
  BY <1>1, FS_CardinalityType
<1>3. PICK k \in sizes : \A l \in sizes : k <= l
  <2>1. sizes \in SUBSET Nat /\ sizes # {}
    BY <1>2
  <2> HIDE DEF sizes
  <2> QED
    BY <2>1, LeastNumber
<1>4. PICK s \in SUBSET Nat : Lacks(s) /\ Cardinality(s) = k
  BY <1>3
<1>5. PICK x : x \in s
  BY <1>4
<1>6. /\ IsFiniteSet(s \ {x}) /\ Cardinality(s \ {x}) = k - 1 /\ k - 1 \in Nat
  <2>1. IsFiniteSet(s) /\ Cardinality(s) = k
    BY <1>4
  <2>2. IsFiniteSet(s \ {x}) /\ Cardinality(s \ {x}) = k - 1
    BY <1>5, <2>1, FS_RemoveElement
  <2> QED
    BY <2>2, FS_CardinalityType
<1>7. s \ {x} = {} \/ HasLargest(s \ {x})
  <2>1. k - 1 \notin sizes
    BY <1>3, <1>6
  <2> QED
    BY <1>6, <2>1
<1>8. CASE s \ {x} = {}
  <2>1. \A m \in s : m = x
    BY <1>8
  <2> QED
    BY <1>4, <1>5, <2>1
<1>9. CASE HasLargest(s \ {x})
  <2>1. PICK n \in s \ {x} : \A m \in s \ {x} : m <= n
    BY <1>9
  <2>2. CASE x <= n
    <3>1. \A m \in s : m <= n
      BY <2>1, <2>2
    <3> QED
      BY <1>4, <2>1, <3>1
  <2>3. CASE n < x
    <3>1. \A m \in s : m <= x
      BY <1>4, <1>5, <2>1, <2>3
    <3> QED
      BY <1>4, <1>5, <3>1
  <2> QED
    BY <1>4, <1>5, <2>1, <2>2, <2>3
<1> QED
  BY <1>7, <1>8, <1>9

LEMMA Remainders ==
  ASSUME NEW m \in Nat, NEW n \in Nat
  PROVE  /\ m * n \in Nat
         /\ (m * n) % Modulus \in Nat
         /\ m * n < Modulus => (m * n) % Modulus = m * n
<1>1. m * n \in Nat
  OBVIOUS
<1>2. ASSUME NEW x \in Nat
      PROVE  x % Modulus \in Nat /\ (x < Modulus => x % Modulus = x)
  BY ClassKeysAssumption
<1> QED
  BY <1>1, <1>2

LEMMA Associates ==
  ASSUME NEW a \in Nat, NEW k \in Nat, NEW p \in Nat
  PROVE  a * (k * p) = (a * k) * p
  OBVIOUS

LEMMA ProductsArePositive ==
  ASSUME NEW m \in Nat \ {0}, NEW n \in Nat \ {0}
  PROVE  m * n \in Nat \ {0}
  OBVIOUS

LEMMA MultiplesHaveNoRest ==
  ASSUME NEW m \in Int, NEW n \in Int, n > 0
  PROVE  (m * n) % n = 0
  OBVIOUS

LEMMA FactorsAreSmaller ==
  ASSUME NEW k \in Nat \ {0}, NEW n \in Nat
  PROVE  n <= k * n
  OBVIOUS

LEMMA Quotients ==
  ASSUME NEW x \in Int, NEW n \in Int, n > 0
  PROVE  /\ x \div n \in Int /\ x % n \in 0..(n - 1)
         /\ x = n * (x \div n) + (x % n)
<1>1. x \div n \in Int
  BY Z3
<1>2. x % n \in 0..(n - 1)
  BY Z3
<1>3. x = n * (x \div n) + (x % n)
  BY Z3
<1> QED
  BY <1>1, <1>2, <1>3

LEMMA ExactQuotient ==
  ASSUME NEW a \in Int, NEW b \in Int, a > 0
  PROVE  (a * b) \div a = b
  BY Z3

LEMMA Smaller ==
  ASSUME NEW a \in Nat, NEW b \in Nat, a * a < b * b
  PROVE  a < b
<1>1. SUFFICES ASSUME b <= a PROVE FALSE
  OBVIOUS
<1>2. b * b <= a * b /\ a * b <= a * a
  BY <1>1
<1> QED
  BY <1>2

LEMMA OddFactors ==
  ASSUME NEW a \in Nat, NEW b \in Nat, Odd(a * b)
  PROVE  Odd(a)
<1>1. SUFFICES ASSUME a % 2 = 0 PROVE FALSE
  BY DEF Odd
<1>2. PICK h \in Nat : a = 2 * h
  BY <1>1
<1>3. a * b = 2 * (h * b)
  BY <1>2
<1>4. h * b \in Nat
  OBVIOUS
<1>5. ASSUME NEW k \in Nat
      PROVE  (2 * k) % 2 = 0
  OBVIOUS
<1>6. (a * b) % 2 = 0
  BY <1>3, <1>4, <1>5
<1> QED
  BY <1>6 DEF Odd

(* A number that is not 1 and no product of smaller ones.                  *)
Irreducible(p) == p \in Nat /\ p >= 2 /\ \A a, b \in Nat : p = a * b => a = 1 \/ b = 1

Divides(a, b) == \E k \in Nat : b = k * a

LEMMA TrialDivision ==
  ASSUME NEW x \in Nat, x >= 3, Odd(x), IsPrime(x)
  PROVE  Irreducible(x)
<1> DEFINE Stops(i) == (x \div i) < i \/ x = (x \div i) * i
           Last(i) == Odd(i) /\ Stops(i) /\ \A j \in 3..(i - 1) : Odd(j) => ~Stops(j)
           last == CHOOSE i \in 3..x : Last(i)
<1>1. (x \div last) < last
  BY DEF IsPrime
<1>2. last \in 3..x /\ Last(last)
  <2> DEFINE found == {i \in 3..x : Odd(i) /\ Stops(i)}
  <2>1. x \in found
    <3>1. (x * 1) \div x = 1
      BY ExactQuotient
    <3> QED
      BY <3>1
  <2>2. PICK i \in found : \A j \in found : i <= j
    <3>1. found # {} /\ found \in SUBSET Nat
      BY <2>1
    <3> HIDE DEF found
    <3> QED
      BY <3>1, LeastNumber
  <2> HIDE DEF Stops
  <2>3. i \in 3..x /\ Last(i)
    BY <2>2
  <2> HIDE DEF Last
  <2> QED
    BY <2>3
<1> HIDE DEF last
<1>3. x < last * last
  <2> DEFINE q == x \div last
             r == x % last
  <2>1. /\ q \in Int /\ r \in 0..(last - 1) /\ x = last * q + r
        /\ q <= last - 1 /\ last \in Int
    BY <1>1, <1>2, Quotients
  <2> HIDE DEF q, r
  <2>2. last * q <= last * (last - 1)
    BY <1>2, <2>1
  <2>3. last * (last - 1) = last * last - last
    BY <1>2
  <2> QED
    BY <1>2, <2>1, <2>2, <2>3
<1>4. ASSUME NEW a \in Nat, NEW b \in Nat, x = a * b, a >= 2, a <= b
      PROVE  FALSE
  <2>1. a * a <= a * b
    BY <1>4
  <2>2. a < last
    BY <1>2, <1>3, <1>4, <2>1, Smaller
  <2>3. Odd(a)
    BY <1>4, OddFactors
  <2>4. a \in 3..(last - 1)
    BY <1>2, <1>4, <2>2, <2>3 DEF Odd
  <2>5. x \div a = b
    BY <1>4, ExactQuotient
  <2>6. x = (x \div a) * a
    BY <1>4, <2>5
  <2> QED
    BY <1>2, <2>3, <2>4, <2>6
<1>5. ASSUME NEW a \in Nat, NEW b \in Nat, x = a * b
      PROVE  a = 1 \/ b = 1
  <2>1. a # 0 /\ b # 0
    BY <1>5
  <2>2. SUFFICES ASSUME a >= 2, b >= 2 PROVE FALSE
    BY <2>1
  <2>3. x = b * a
    BY <1>5
  <2> QED
    BY <1>4, <1>5, <2>2, <2>3
<1> QED
  BY <1>5 DEF Irreducible

LEMMA TwoIsIrreducible == Irreducible(2)
<1>1. ASSUME NEW a \in Nat, NEW b \in Nat, 2 = a * b
      PROVE  a = 1 \/ b = 1
  <2>1. a # 0 /\ b # 0
    BY <1>1
  <2>2. SUFFICES ASSUME a >= 2, b >= 2 PROVE FALSE
    BY <2>1
  <2>3. a * b >= 2 * b
    BY <2>2
  <2> QED
    BY <1>1, <2>2, <2>3
<1> QED
  BY <1>1 DEF Irreducible

(* Euclid's lemma.                                                         *)
LEMMA PrimesDivideAFactor ==
  ASSUME NEW p, Irreducible(p), NEW m \in Nat, NEW n \in Nat, Divides(p, m * n)
  PROVE  Divides(p, m) \/ Divides(p, n)
<1> DEFINE ms == {x \in Nat \ {0} : Divides(p, x * n)}
<1>0. p \in Nat /\ p >= 2
  BY DEF Irreducible
<1>1. CASE m = 0
  <2>1. m = 0 * p
    BY <1>0, <1>1
  <2> QED
    BY <2>1 DEF Divides
<1>2. CASE m # 0
  <2>1. m \in ms
    BY <1>2
  <2>2. p \in ms
    <3>1. p * n = n * p
      BY <1>0
    <3> QED
      BY <1>0, <3>1 DEF Divides
  <2>3. PICK z \in ms : \A x \in ms : z <= x
    <3>1. ms # {} /\ ms \in SUBSET Nat
      BY <2>1
    <3> HIDE DEF ms
    <3> QED
      BY <3>1, LeastNumber
  <2>4. z \in Nat /\ z > 0 /\ Divides(p, z * n)
    BY <2>3
  <2>5. ASSUME NEW x \in ms
        PROVE  Divides(z, x)
    <3> DEFINE q == x \div z
               r == x % z
    <3>1. x \in Nat /\ x > 0 /\ Divides(p, x * n)
      OBVIOUS
    <3>2. q \in Int /\ r \in 0..(z - 1) /\ x = z * q + r
      BY <2>4, <3>1, Quotients
    <3> HIDE DEF q, r
    <3>3. q \in Nat
      <4>1. SUFFICES ASSUME q <= -1 PROVE FALSE
        BY <3>2
      <4>2. z * q <= -z
        BY <2>4, <3>2, <4>1
      <4> QED
        BY <2>4, <3>1, <3>2, <4>2
    <3>4. Divides(p, r * n)
      <4>1. PICK j \in Nat : x * n = j * p
        BY <3>1 DEF Divides
      <4>2. PICK k \in Nat : z * n = k * p
        BY <2>4 DEF Divides
      <4>3. x * n = q * (z * n) + r * n
        BY <2>4, <3>2, <3>3
      <4>4. r * n = (j - q * k) * p
        <5>1. r * n = j * p - q * (k * p)
          BY <2>4, <3>2, <3>3, <4>1, <4>2, <4>3
        <5> QED
          BY <1>0, <3>3, <5>1
      <4>5. j - q * k \in Nat
        <5>1. j - q * k \in Int
          BY <3>3
        <5>2. SUFFICES ASSUME j - q * k <= -1 PROVE FALSE
          BY <5>1
        <5>3. (j - q * k) * p <= -p
          BY <1>0, <5>1, <5>2
        <5>4. r * n >= 0
          BY <3>2
        <5> DEFINE s == (j - q * k) * p
        <5>5. s <= -p /\ s >= 0
          BY <4>4, <5>3, <5>4
        <5> HIDE DEF s
        <5> QED
          <6>1. s \in Int
            BY <1>0, <5>1 DEF s
          <6> QED
            BY <1>0, <5>5, <6>1
      <4> QED
        BY <4>4, <4>5 DEF Divides
    <3>5. r = 0
      <4>1. SUFFICES ASSUME r # 0 PROVE FALSE
        OBVIOUS
      <4>2. r \in ms
        BY <3>2, <3>4, <4>1
      <4> QED
        <5> HIDE DEF ms
        <5> QED
          BY <2>3, <2>4, <3>2, <4>2
    <3> QED
      <4>1. x = q * z
        BY <2>4, <3>2, <3>3, <3>5
      <4> QED
        BY <3>3, <4>1 DEF Divides
  <2>6. PICK k \in Nat : p = k * z
    BY <2>2, <2>5 DEF Divides
  <2>7. k = 1 \/ z = 1
    BY <2>4, <2>6 DEF Irreducible
  <2>8. CASE k = 1
    <3>1. z = p
      BY <2>4, <2>6, <2>8
    <3> QED
      BY <2>1, <2>5, <3>1
  <2>9. CASE z = 1
    <3>1. z * n = n
      BY <2>9
    <3> QED
      BY <2>4, <3>1
  <2> QED
    BY <2>7, <2>8, <2>9
<1> QED
  BY <1>1, <1>2

LEMMA IrreducibleDivisor ==
  ASSUME NEW p, NEW q, Irreducible(p), Irreducible(q), Divides(p, q)
  PROVE  p = q
<1>1. PICK k \in Nat : q = k * p
  BY DEF Divides
<1>2. k = 1
  BY <1>1 DEF Irreducible
<1>3. 1 * p = p
  BY DEF Irreducible
<1> QED
  BY <1>1, <1>2, <1>3

(* NextPrime ends, as there is a prime between a number and its double.    *)
BertrandsPostulate == \A x \in Nat : x > 2 => \E y \in x..(2 * x) : Odd(y) /\ IsPrime(y)

LEMMA NextPrimeIs ==
  ASSUME BertrandsPostulate, NEW x \in Nat
  PROVE  NextPrime(x) \in Nat /\ NextPrime(x) >= x /\ Irreducible(NextPrime(x))
<1>1. CASE x <= 2
  BY <1>1, TwoIsIrreducible DEF NextPrime
<1>2. CASE x > 2
  <2> DEFINE P(y) == Odd(y) /\ IsPrime(y)
             Least(y) == P(y) /\ \A z \in x..(y - 1) : ~P(z)
             found == {y \in x..(2 * x) : P(y)}
  <2>1. PICK y \in found : \A z \in found : y <= z
    <3>1. found # {} /\ found \in SUBSET Nat
      BY <1>2 DEF BertrandsPostulate
    <3> HIDE DEF found
    <3> QED
      BY <3>1, LeastNumber
  <2>2. y \in x..(2 * x) /\ Least(y)
    BY <2>1
  <2>3. NextPrime(x) = CHOOSE w \in x..(2 * x) : Least(w)
    BY <1>2 DEF NextPrime
  <2> HIDE DEF Least
  <2>4. NextPrime(x) \in x..(2 * x) /\ Least(NextPrime(x))
    BY <2>2, <2>3
  <2>5. NextPrime(x) \in Nat /\ NextPrime(x) >= x /\ P(NextPrime(x))
    BY <1>2, <2>4 DEF Least
  <2> QED
    BY <1>2, <2>5, TrialDivision
<1> QED
  BY <1>1, <1>2

-----------------------------------------------------------------------------
(* Functions that are computed along the path to the root.                 *)

(* Two values that follow the same rule on sets of classes with their      *)
(* bases are the same where both are defined.                              *)
Follows(f, D, B, s, step) ==
  \A c \in D : f[c] = IF B[c] = None THEN s[c] ELSE step[<<c, f[B[c]]>>]

LEMMA OneValue ==
  ASSUME NEW B \in [Classes -> Classes \cup {None}], NoClassIsItsOwnAncestor(B),
         NEW s, NEW step, NEW f, NEW g,
         NEW D \in SUBSET Classes, NEW E \in SUBSET Classes,
         \A c \in D : B[c] = None \/ B[c] \in D,
         \A c \in E : B[c] = None \/ B[c] \in E,
         Follows(f, D, B, s, step), Follows(g, E, B, s, step)
  PROVE  \A c \in D \cap E : f[c] = g[c]
<1> DEFINE differ == {c \in D \cap E : f[c] # g[c]}
<1>1. SUFFICES ASSUME differ # {} PROVE FALSE
  OBVIOUS
<1>2. PICK c \in differ : B[c] \notin differ
  <2>1. differ \in SUBSET Classes
    OBVIOUS
  <2> QED
    BY <1>1, <2>1 DEF NoClassIsItsOwnAncestor
<1>3. c \in D /\ c \in E /\ f[c] # g[c]
  BY <1>2
<1>4. CASE B[c] = None
  BY <1>3, <1>4 DEF Follows
<1>5. CASE B[c] # None
  <2>1. B[c] \in D \cap E
    BY <1>3, <1>5
  <2>2. f[B[c]] = g[B[c]]
    BY <1>2, <2>1
  <2> QED
    BY <1>3, <1>5, <2>2 DEF Follows
<1> QED
  BY <1>4, <1>5

(* A rule that gives a value from that of the base defines a function.     *)
LEMMA RuleDefinesFunction ==
  ASSUME NEW B \in [Classes -> Classes \cup {None}], NoClassIsItsOwnAncestor(B),
         NEW V, NEW s \in [Classes -> V], NEW step \in [Classes \X V -> V]
  PROVE  \E f \in [Classes -> V] : Follows(f, Classes, B, s, step)
<1> DEFINE Closed(D) == \A c \in D : B[c] = None \/ B[c] \in D
           Part(c, D, f) == /\ c \in D /\ Closed(D) /\ f \in [D -> V]
                            /\ Follows(f, D, B, s, step)
           without == {c \in Classes :
                         ~ \E D \in SUBSET Classes : \E f \in [D -> V] : Part(c, D, f)}
<1>1. without = {}
  <2>1. SUFFICES ASSUME without # {} PROVE FALSE
    OBVIOUS
  <2>2. PICK c \in without : B[c] \notin without
    <3>1. without \in SUBSET Classes
      OBVIOUS
    <3> QED
      BY <2>1, <3>1 DEF NoClassIsItsOwnAncestor
  <2>3. CASE B[c] = None
    <3> DEFINE f == [x \in {c} |-> s[c]]
    <3>1. f \in [{c} -> V] /\ Closed({c}) /\ Follows(f, {c}, B, s, step)
      BY <2>3 DEF Follows
    <3> QED
      BY <2>2, <3>1
  <2>4. CASE B[c] # None
    <3>1. B[c] \in Classes
      BY <2>4
    <3>a. PICK D \in SUBSET Classes : \E f \in [D -> V] : Part(B[c], D, f)
      BY <2>2, <3>1
    <3>2. PICK f \in [D -> V] : Part(B[c], D, f)
      BY <3>a
    <3> DEFINE E == D \cup {c}
               g == [x \in E |-> IF x \in D THEN f[x] ELSE step[<<c, f[B[c]]>>]]
    <3>3. f[B[c]] \in V
      BY <3>2
    <3>4. E \in SUBSET Classes /\ g \in [E -> V]
      BY <3>2, <3>3
    <3>5. Closed(E) /\ c \in E
      BY <3>2
    <3>6. Follows(g, E, B, s, step)
      <4>1. SUFFICES ASSUME NEW x \in E
                     PROVE  g[x] = IF B[x] = None THEN s[x] ELSE step[<<x, g[B[x]]>>]
        BY DEF Follows
      <4>2. CASE x \in D
        BY <3>2, <4>2 DEF Follows
      <4>3. CASE x \notin D
        BY <2>4, <3>2, <4>3
      <4> QED
        BY <4>2, <4>3
    <3> QED
      BY <2>2, <3>4, <3>5, <3>6
  <2> QED
    BY <2>3, <2>4
<1> DEFINE Set(c) == CHOOSE D \in SUBSET Classes : \E f \in [D -> V] : Part(c, D, f)
           Fun(c) == CHOOSE f \in [Set(c) -> V] : Part(c, Set(c), f)
           whole == [c \in Classes |-> Fun(c)[c]]
<1>2. ASSUME NEW c \in Classes
      PROVE  Set(c) \in SUBSET Classes /\ Fun(c) \in [Set(c) -> V] /\ Part(c, Set(c), Fun(c))
  <2>1. \E D \in SUBSET Classes : \E f \in [D -> V] : Part(c, D, f)
    BY <1>1
  <2>2. Set(c) \in SUBSET Classes /\ \E f \in [Set(c) -> V] : Part(c, Set(c), f)
    BY <2>1
  <2> QED
    BY <2>2
<1> HIDE DEF Set, Fun
<1>3. whole \in [Classes -> V]
  BY <1>2
<1>4. ASSUME NEW c \in Classes, B[c] # None
      PROVE  whole[B[c]] = Fun(c)[B[c]]
  <2>1. B[c] \in Classes
    BY <1>4
  <2>2. B[c] \in Set(c) \cap Set(B[c])
    BY <1>2, <1>4, <2>1
  <2>3. \A x \in Set(B[c]) \cap Set(c) : Fun(B[c])[x] = Fun(c)[x]
    <3> DEFINE d == Set(B[c])
               e == Set(c)
               f == Fun(B[c])
               g == Fun(c)
    <3>1. /\ d \in SUBSET Classes /\ Closed(d) /\ Follows(f, d, B, s, step)
          /\ e \in SUBSET Classes /\ Closed(e) /\ Follows(g, e, B, s, step)
      BY <1>2, <2>1
    <3> HIDE DEF d, e, f, g
    <3>2. \A x \in d \cap e : f[x] = g[x]
      BY <3>1, OneValue
    <3> QED
      BY <3>2 DEF d, e, f, g
  <2> QED
    BY <2>1, <2>2, <2>3
<1>5. ASSUME NEW c \in Classes
      PROVE  whole[c] = IF B[c] = None THEN s[c] ELSE step[<<c, whole[B[c]]>>]
  <2>1. c \in Set(c) /\ Follows(Fun(c), Set(c), B, s, step)
    BY <1>2
  <2>2. Fun(c)[c] = IF B[c] = None THEN s[c] ELSE step[<<c, Fun(c)[B[c]]>>]
    BY <2>1 DEF Follows
  <2>3. CASE B[c] = None
    BY <2>2, <2>3
  <2>4. CASE B[c] # None
    <3>1. whole[B[c]] = Fun(c)[B[c]]
      BY <1>4, <2>4
    <3> QED
      BY <2>2, <2>4, <3>1
  <2> QED
    BY <2>3, <2>4
<1> QED
  BY <1>3, <1>5 DEF Follows

-----------------------------------------------------------------------------
(* The functions of the model.                                             *)

Hierarchy == program.base

LEMMA HierarchyFacts ==
  ASSUME program \in Programs
  PROVE  /\ Hierarchy \in [Classes -> Classes \cup {None}]
         /\ NoClassIsItsOwnAncestor(Hierarchy)
         /\ \A c \in Classes : BaseClass(c) = Hierarchy[c]
  BY ClassKeysAssumption DEF Hierarchy, BaseClass

LEMMA PathIs ==
  ASSUME program \in Programs
  PROVE  /\ path \in [Classes -> SUBSET Classes]
         /\ \A c \in Classes :
              path[c] = {c} \cup (IF BaseClass(c) = None THEN {} ELSE path[BaseClass(c)])
<1> DEFINE s == [c \in Classes |-> {c}]
           step == [p \in Classes \X SUBSET Classes |-> {p[1]} \cup p[2]]
           Value(f, c) == {c} \cup (IF BaseClass(c) = None THEN {} ELSE f[BaseClass(c)])
           IsPath(f) == f = [c \in Classes |-> Value(f, c)]
<1>1. PICK f \in [Classes -> SUBSET Classes] : Follows(f, Classes, Hierarchy, s, step)
  <2>1. s \in [Classes -> SUBSET Classes]
    OBVIOUS
  <2>2. step \in [Classes \X SUBSET Classes -> SUBSET Classes]
    OBVIOUS
  <2> HIDE DEF s, step
  <2> QED
    BY <2>1, <2>2, HierarchyFacts, RuleDefinesFunction
<1>2. ASSUME NEW c \in Classes
      PROVE  f[c] = Value(f, c)
  <2>1. f[c] = IF BaseClass(c) = None THEN s[c] ELSE step[<<c, f[BaseClass(c)]>>]
    <3> HIDE DEF s, step
    <3>1. f[c] = IF Hierarchy[c] = None THEN s[c] ELSE step[<<c, f[Hierarchy[c]]>>]
      BY <1>1 DEF Follows
    <3> QED
      BY <3>1, HierarchyFacts
  <2>2. CASE BaseClass(c) = None
    BY <2>1, <2>2
  <2>3. CASE BaseClass(c) # None
    <3>1. <<c, f[BaseClass(c)]>> \in Classes \X SUBSET Classes
      BY <2>3, HierarchyFacts
    <3> QED
      BY <2>1, <2>3, <3>1
  <2> QED
    BY <2>2, <2>3
<1>3. IsPath(f)
  BY <1>2
<1>4. IsPath(path)
  <2>1. path = CHOOSE g : IsPath(g)
    BY DEF path
  <2> HIDE DEF IsPath
  <2> QED
    BY <1>3, <2>1
<1>5. \A c \in Classes : f[c] = path[c]
  <2> DEFINE differ == {c \in Classes : f[c] # path[c]}
  <2>1. SUFFICES ASSUME differ # {} PROVE FALSE
    OBVIOUS
  <2>2. PICK c \in differ : Hierarchy[c] \notin differ
    BY <2>1, HierarchyFacts DEF NoClassIsItsOwnAncestor
  <2>3. f[c] = Value(f, c) /\ path[c] = Value(path, c)
    BY <1>2, <1>4
  <2> QED
    BY <2>2, <2>3, HierarchyFacts
<1> QED
  BY <1>4, <1>5

LEMMA ProductIs ==
  ASSUME program \in Programs, keys \in [Classes -> Nat]
  PROVE  /\ product \in [Classes -> Nat]
         /\ \A c \in Classes :
              product[c] = IF BaseClass(c) = None THEN keys[c]
                           ELSE keys[c] * product[BaseClass(c)]
<1> DEFINE step == [p \in Classes \X Nat |-> keys[p[1]] * p[2]]
           Value(f, c) == IF BaseClass(c) = None THEN keys[c]
                          ELSE keys[c] * f[BaseClass(c)]
           IsProduct(f) == f = [c \in Classes |-> Value(f, c)]
<1>1. PICK f \in [Classes -> Nat] : Follows(f, Classes, Hierarchy, keys, step)
  <2>1. step \in [Classes \X Nat -> Nat]
    BY Remainders
  <2> HIDE DEF step
  <2> QED
    BY <2>1, HierarchyFacts, RuleDefinesFunction
<1>2. ASSUME NEW c \in Classes
      PROVE  f[c] = Value(f, c)
  <2>1. f[c] = IF BaseClass(c) = None THEN keys[c] ELSE step[<<c, f[BaseClass(c)]>>]
    <3> HIDE DEF step
    <3>1. f[c] = IF Hierarchy[c] = None THEN keys[c] ELSE step[<<c, f[Hierarchy[c]]>>]
      BY <1>1 DEF Follows
    <3> QED
      BY <3>1, HierarchyFacts
  <2>2. CASE BaseClass(c) = None
    BY <2>1, <2>2
  <2>3. CASE BaseClass(c) # None
    <3>1. <<c, f[BaseClass(c)]>> \in Classes \X Nat
      BY <2>3, HierarchyFacts
    <3> QED
      BY <2>1, <2>3, <3>1
  <2> QED
    BY <2>2, <2>3
<1>3. IsProduct(f)
  BY <1>2
<1>4. IsProduct(product)
  <2>1. product = CHOOSE g : IsProduct(g)
    BY DEF product
  <2> HIDE DEF IsProduct
  <2> QED
    BY <1>3, <2>1
<1>5. \A c \in Classes : f[c] = product[c]
  <2> DEFINE differ == {c \in Classes : f[c] # product[c]}
  <2>1. SUFFICES ASSUME differ # {} PROVE FALSE
    OBVIOUS
  <2>2. PICK c \in differ : Hierarchy[c] \notin differ
    BY <2>1, HierarchyFacts DEF NoClassIsItsOwnAncestor
  <2>3. f[c] = Value(f, c) /\ product[c] = Value(product, c)
    BY <1>2, <1>4
  <2> QED
    BY <2>2, <2>3, HierarchyFacts
<1> QED
  BY <1>4, <1>5

LEMMA CidIs ==
  ASSUME program \in Programs, keys \in [Classes -> Nat]
  PROVE  \A c \in Classes :
           cid[c] = IF BaseClass(c) = None THEN keys[c]
                    ELSE (keys[c] * cid[BaseClass(c)]) % Modulus
<1> DEFINE step == [p \in Classes \X Nat |-> (keys[p[1]] * p[2]) % Modulus]
           Value(f, c) == IF BaseClass(c) = None THEN keys[c]
                          ELSE (keys[c] * f[BaseClass(c)]) % Modulus
           IsCid(f) == f = [c \in Classes |-> Value(f, c)]
<1>1. PICK f \in [Classes -> Nat] : Follows(f, Classes, Hierarchy, keys, step)
  <2>1. step \in [Classes \X Nat -> Nat]
    BY Remainders
  <2> HIDE DEF step
  <2> QED
    BY <2>1, HierarchyFacts, RuleDefinesFunction
<1>2. ASSUME NEW c \in Classes
      PROVE  f[c] = Value(f, c)
  <2>1. f[c] = IF BaseClass(c) = None THEN keys[c] ELSE step[<<c, f[BaseClass(c)]>>]
    <3> HIDE DEF step
    <3>1. f[c] = IF Hierarchy[c] = None THEN keys[c] ELSE step[<<c, f[Hierarchy[c]]>>]
      BY <1>1 DEF Follows
    <3> QED
      BY <3>1, HierarchyFacts
  <2>2. CASE BaseClass(c) = None
    BY <2>1, <2>2
  <2>3. CASE BaseClass(c) # None
    <3>1. <<c, f[BaseClass(c)]>> \in Classes \X Nat
      BY <2>3, HierarchyFacts
    <3> QED
      BY <2>1, <2>3, <3>1
  <2> QED
    BY <2>2, <2>3
<1>3. IsCid(f)
  BY <1>2
<1>4. IsCid(cid)
  <2>1. cid = CHOOSE g : IsCid(g)
    BY DEF cid
  <2> HIDE DEF IsCid
  <2> QED
    BY <1>3, <2>1
<1> QED
  BY <1>4

-----------------------------------------------------------------------------
(* Paths, and products along them.                                         *)

(* A base of a base is a base.                                             *)
LEMMA PathsAreClosed ==
  ASSUME program \in Programs
  PROVE  \A d \in Classes : /\ d \in Path(d)
                            /\ \A x \in Path(d) : Path(x) \subseteq Path(d)
<1>1. \A d \in Classes : d \in path[d] /\ path[d] \in SUBSET Classes
  BY PathIs
<1>2. ASSUME NEW d \in Classes, NEW x \in path[d], x # d
      PROVE  BaseClass(d) \in Classes /\ x \in path[BaseClass(d)]
                                      /\ path[BaseClass(d)] \subseteq path[d]
  BY <1>2, PathIs, HierarchyFacts
<1> DEFINE open == {d \in Classes : ~ \A x \in path[d] : path[x] \subseteq path[d]}
<1>3. open = {}
  <2>1. SUFFICES ASSUME open # {} PROVE FALSE
    OBVIOUS
  <2>2. PICK d \in open : Hierarchy[d] \notin open
    <3>1. open \in SUBSET Classes
      OBVIOUS
    <3> HIDE DEF open
    <3> QED
      BY <2>1, <3>1, HierarchyFacts DEF NoClassIsItsOwnAncestor
  <2>3. PICK x \in path[d] : ~(path[x] \subseteq path[d])
    BY <2>2
  <2>4. x # d
    BY <2>3
  <2>5. BaseClass(d) \in Classes /\ x \in path[BaseClass(d)]
                                 /\ path[BaseClass(d)] \subseteq path[d]
    BY <1>2, <2>2, <2>4
  <2>6. path[x] \subseteq path[BaseClass(d)]
    BY <2>2, <2>5, HierarchyFacts
  <2> QED
    BY <2>3, <2>5, <2>6
<1> QED
  BY <1>1, <1>3 DEF Path

(* On a path of classes that all have keys the product of a class is       *)
(* positive and a multiple of that of each of its bases.                   *)
Keyed(d) == \A x \in Path(d) : keys[x] # 0

LEMMA BasesDivide ==
  ASSUME program \in Programs, keys \in [Classes -> Nat]
  PROVE  \A d \in Classes : Keyed(d) =>
           /\ product[d] \in Nat \ {0}
           /\ \A x \in Path(d) : \E k \in Nat \ {0} : product[d] = k * product[x]
<1> DEFINE Good(d) == /\ product[d] \in Nat \ {0}
                      /\ \A x \in Path(d) : \E k \in Nat \ {0} : product[d] = k * product[x]
           bad == {d \in Classes : Keyed(d) /\ ~Good(d)}
<1>1. SUFFICES ASSUME bad # {} PROVE FALSE
  OBVIOUS
<1>2. PICK d \in bad : Hierarchy[d] \notin bad
  <2>1. bad \in SUBSET Classes
    OBVIOUS
  <2> HIDE DEF bad
  <2> QED
    BY <1>1, <2>1, HierarchyFacts DEF NoClassIsItsOwnAncestor
<1>3. d \in Classes /\ Keyed(d) /\ d \in Path(d) /\ keys[d] \in Nat \ {0}
  <2>1. d \in Classes /\ Keyed(d) /\ d \in Path(d)
    BY <1>2, PathsAreClosed
  <2> QED
    BY <2>1 DEF Keyed
<1>4. CASE BaseClass(d) = None
  <2>1. product[d] = keys[d] /\ Path(d) = {d}
    BY <1>3, <1>4, ProductIs, PathIs DEF Path
  <2>2. product[d] = 1 * product[d]
    BY <1>3, <2>1
  <2> QED
    BY <1>2, <1>3, <2>1, <2>2
<1>5. CASE BaseClass(d) # None
  <2> DEFINE b == BaseClass(d)
  <2>1. b \in Classes /\ b = Hierarchy[d]
    BY <1>3, <1>5, HierarchyFacts
  <2>2. product[d] = keys[d] * product[b] /\ Path(d) = {d} \cup Path(b)
    BY <1>3, <1>5, ProductIs, PathIs DEF Path
  <2>3. Keyed(b)
    BY <1>3, <2>2 DEF Keyed
  <2>4. Good(b)
    BY <1>2, <2>1, <2>3
  <2> HIDE DEF b
  <2>5. product[d] \in Nat \ {0}
    BY <1>3, <2>2, <2>4
  <2>6. ASSUME NEW x \in Path(d)
        PROVE  \E k \in Nat \ {0} : product[d] = k * product[x]
    <3>1. CASE x = d
      <4>1. product[d] = 1 * product[d]
        BY <2>5
      <4> QED
        BY <3>1, <4>1
    <3>2. CASE x # d
      <4>1. x \in Path(b)
        BY <2>2, <3>2
      <4>2. PICK k \in Nat \ {0} : product[b] = k * product[x]
        BY <2>4, <4>1
      <4>3. product[x] \in Nat
        <5>1. x \in Classes
          BY <2>1, <4>1, PathIs DEF Path
        <5> QED
          BY <5>1, ProductIs
      <4>4. product[x] # 0
        BY <2>4, <4>2
      <4>5. /\ keys[d] \in Nat \ {0} /\ product[b] \in Nat \ {0}
            /\ product[x] \in Nat \ {0}
        BY <1>3, <2>4, <4>3, <4>4
      <4>6. keys[d] * k \in Nat \ {0}
        BY <4>5, ProductsArePositive
      <4>7. keys[d] * (k * product[x]) = (keys[d] * k) * product[x]
        BY <4>5, Associates
      <4> QED
        BY <2>2, <4>2, <4>6, <4>7
    <3> QED
      BY <3>1, <3>2
  <2> QED
    BY <1>2, <2>5, <2>6
<1> QED
  BY <1>4, <1>5

(* Where the keys have room, nothing is lost of the product.               *)
LEMMA CidIsProduct ==
  ASSUME program \in Programs, keys \in [Classes -> Nat]
  PROVE  \A d \in Classes :
           Keyed(d) /\ product[d] < Modulus => cid[d] = product[d]
<1> DEFINE lossy == {d \in Classes :
                       Keyed(d) /\ product[d] < Modulus /\ cid[d] # product[d]}
<1>1. SUFFICES ASSUME lossy # {} PROVE FALSE
  OBVIOUS
<1>2. PICK d \in lossy : Hierarchy[d] \notin lossy
  <2>1. lossy \in SUBSET Classes
    OBVIOUS
  <2> HIDE DEF lossy
  <2> QED
    BY <1>1, <2>1, HierarchyFacts DEF NoClassIsItsOwnAncestor
<1>3. d \in Classes /\ Keyed(d) /\ product[d] < Modulus /\ cid[d] # product[d]
  BY <1>2
<1>4. BaseClass(d) # None
  BY <1>3, ProductIs, CidIs
<1> DEFINE b == BaseClass(d)
<1>5. b \in Classes /\ b = Hierarchy[d] /\ b \in Path(d) /\ Path(b) \subseteq Path(d)
  <2>1. b \in Classes /\ b = Hierarchy[d]
    BY <1>3, <1>4, HierarchyFacts
  <2>2. Path(d) = {d} \cup Path(b) /\ b \in Path(b)
    BY <1>3, <1>4, <2>1, PathIs, PathsAreClosed DEF Path
  <2> QED
    BY <2>1, <2>2
<1>6. keys[d] \in Nat /\ product[b] \in Nat /\ product[d] = keys[d] * product[b]
  BY <1>3, <1>4, <1>5, ProductIs
<1>7. product[b] <= product[d]
  <2>1. PICK k \in Nat \ {0} : product[d] = k * product[b]
    BY <1>3, <1>5, BasesDivide
  <2> QED
    BY <1>6, <2>1, FactorsAreSmaller
<1>8. cid[b] = product[b]
  <2>1. Keyed(b)
    BY <1>3, <1>5 DEF Keyed
  <2>2. product[b] < Modulus
    BY <1>3, <1>6, <1>7, ClassKeysAssumption
  <2> QED
    BY <1>2, <1>5, <2>1, <2>2
<1>9. cid[d] = (keys[d] * product[b]) % Modulus
  BY <1>3, <1>4, <1>8, CidIs
<1> HIDE DEF b
<1>10. (keys[d] * product[b]) % Modulus = keys[d] * product[b]
  BY <1>3, <1>6, Remainders
<1> QED
  BY <1>3, <1>6, <1>9, <1>10

-----------------------------------------------------------------------------
(* Every class that had its turn has a key, and the identifiers are the    *)
(* products of the keys.                                                   *)
KeysInv ==
  /\ program \in Programs /\ phase \in {"priorities", "keys", "done"}
  /\ keys \in [Classes -> Nat]
  /\ key \in Nat \ {0} /\ minLevelKey \in Nat \ {0} /\ maxLevelKey \in Nat \ {0}
  /\ phase = "keys" => \A c \in VirtualClasses : c \notin waiting => keys[c] # 0
  /\ phase = "done" => \A c \in VirtualClasses : keys[c] # 0 /\ cids[c] = ComputeCid(c)

LEMMA KeysInit == Init => KeysInv
  BY DEF Init, KeysInv

LEMMA SameProgramSameClasses ==
  ASSUME UNCHANGED program
  PROVE  VirtualClasses' = VirtualClasses
<1>1. path' = path
  BY DEF path, BaseClass
<1> QED
  BY <1>1 DEF VirtualClasses, IsVirtual, Path

LEMMA KeysStep ==
  ASSUME BertrandsPostulate, KeysInv, [Next]_vars
  PROVE  KeysInv'
<1> USE DEF KeysInv
<1>1. ASSUME NEW c \in Classes, AssignPriority(c)
      PROVE  KeysInv'
  BY <1>1, SameProgramSameClasses DEF AssignPriority, locals
<1>2. ASSUME NEW c \in Classes, AssignKey(c)
      PROVE  KeysInv'
  <2>1. VirtualClasses' = VirtualClasses
    BY <1>2, SameProgramSameClasses DEF AssignKey
  <2>2. phase = "keys" /\ phase' = "keys" /\ waiting' = waiting \ {c}
        /\ UNCHANGED program
    BY <1>2 DEF AssignKey
  <2>3. \A x \in Nat : NextPrime(x + 1) \in Nat \ {0}
    <3>1. ASSUME NEW x \in Nat
          PROVE  NextPrime(x) \in Nat \ {0}
      BY NextPrimeIs DEF Irreducible
    <3> QED
      BY <3>1
  <2>4. /\ \E k \in Nat \ {0} : keys' = [keys EXCEPT ![c] = k]
        /\ key' \in Nat \ {0} /\ minLevelKey' \in Nat \ {0} /\ maxLevelKey' \in Nat \ {0}
    <3>1. CASE KeyRoot(c)
      BY <2>3, <3>1 DEF KeyRoot
    <3>2. CASE KeyFirstOfLevel(c)
      BY <2>3, <3>2 DEF KeyFirstOfLevel
    <3>3. CASE KeyNextOfLevel(c)
      BY <2>3, <3>3 DEF KeyNextOfLevel
    <3> QED
      BY <1>2, <3>1, <3>2, <3>3 DEF AssignKey
  <2> QED
    BY <2>1, <2>2, <2>4
<1>3. CASE Sort
  BY <1>3, SameProgramSameClasses DEF Sort, locals
<1>4. CASE AssignCids
  <2>1. VirtualClasses' = VirtualClasses
    BY <1>4, SameProgramSameClasses DEF AssignCids
  <2>2. \A c \in Classes : ComputeCid(c)' = ComputeCid(c)
    <3>1. cid' = cid
      BY <1>4 DEF AssignCids, cid, BaseClass
    <3> QED
      BY <3>1 DEF ComputeCid
  <2> QED
    BY <1>4, <2>1, <2>2 DEF AssignCids, locals, VirtualClasses
<1>5. CASE UNCHANGED vars
  <2>1. VirtualClasses' = VirtualClasses
    BY <1>5, SameProgramSameClasses DEF vars
  <2>2. \A c \in Classes : ComputeCid(c)' = ComputeCid(c)
    <3>1. cid' = cid
      BY <1>5 DEF vars, cid, BaseClass
    <3> QED
      BY <3>1 DEF ComputeCid
  <2> QED
    BY <1>5, <2>1, <2>2 DEF vars, locals, VirtualClasses
<1> QED
  BY <1>1, <1>2, <1>3, <1>4, <1>5 DEF Next

LEMMA KeysInvShows == KeysInv => DerivedTestsHold
<1>1. SUFFICES ASSUME KeysInv, phase = "done", NEW d \in VirtualClasses, NEW b \in VirtualClasses,
                      Exact(d), Derives(d, b)
               PROVE  TestMayGive(d, b) = {TRUE}
  BY DEF DerivedTestsHold
<1>2. /\ program \in Programs /\ keys \in [Classes -> Nat]
      /\ \A c \in VirtualClasses : keys[c] # 0 /\ cids[c] = cid[c]
  BY <1>1 DEF KeysInv, ComputeCid
<1>3. /\ d \in Classes /\ b \in Classes /\ b \in Path(d)
      /\ Path(b) \subseteq Path(d) /\ Keyed(d) /\ Keyed(b)
  <2>1. d \in Classes /\ b \in Classes /\ b \in Path(d)
    BY <1>1 DEF VirtualClasses, Derives
  <2>2. Path(b) \subseteq Path(d)
    BY <1>2, <2>1, PathsAreClosed
  <2>3. Keyed(d)
    BY <1>1, <1>2 DEF Exact, Keyed
  <2> QED
    BY <2>1, <2>2, <2>3 DEF Keyed
<1>4. /\ product[d] \in Nat /\ product[d] < Modulus
      /\ product[b] \in Nat \ {0}
  BY <1>1, <1>2, <1>3, BasesDivide DEF Exact
<1>5. PICK k \in Nat \ {0} : product[d] = k * product[b]
  BY <1>2, <1>3, BasesDivide
<1>6. product[b] < Modulus
  <2>1. product[b] <= product[d]
    BY <1>4, <1>5, FactorsAreSmaller
  <2> QED
    BY <1>4, <2>1, ClassKeysAssumption
<1>7. cids[d] = product[d] /\ cids[b] = product[b]
  BY <1>2, <1>3, <1>4, <1>6, CidIsProduct
<1>8. product[d] % product[b] = 0
  BY <1>4, <1>5, MultiplesHaveNoRest
<1> QED
  BY <1>4, <1>7, <1>8 DEF TestMayGive

(* In the full configuration "is" never refuses an object of a derived     *)
(* class: for every hierarchy, every order in which the classes get their  *)
(* keys and every width of the identifiers, where the identifier has room. *)
THEOREM DerivedPassTheTest ==
  ASSUME BertrandsPostulate
  PROVE  Spec => []DerivedTestsHold
<1>1. KeysInv /\ [Next]_vars => KeysInv'
  BY KeysStep
<1> QED
  BY KeysInit, <1>1, KeysInvShows, PTL DEF Spec

-----------------------------------------------------------------------------
(* Levels.                                                                 *)

(* No class is on the path of its base, and each class is one level below  *)
(* its base.                                                               *)
LEMMA NotItsOwnAncestor ==
  ASSUME program \in Programs, NEW c \in Classes, BaseClass(c) # None
  PROVE  c \notin Path(BaseClass(c))
<1> DEFINE loop == {x \in Path(BaseClass(c)) : c \in Path(x)}
<1>1. SUFFICES ASSUME c \in Path(BaseClass(c)) PROVE FALSE
  OBVIOUS
<1>2. BaseClass(c) \in Classes /\ BaseClass(c) \in Path(BaseClass(c))
      /\ Path(BaseClass(c)) \subseteq Classes
  BY HierarchyFacts, PathsAreClosed, PathIs DEF Path
<1>3. PICK x \in loop : Hierarchy[x] \notin loop
  <2>1. loop \in SUBSET Classes /\ BaseClass(c) \in loop
    BY <1>1, <1>2
  <2> HIDE DEF loop
  <2> QED
    BY <2>1, HierarchyFacts DEF NoClassIsItsOwnAncestor
<1>4. /\ x \in Classes /\ x \in Path(BaseClass(c)) /\ c \in Path(x)
      /\ Hierarchy[x] = BaseClass(x)
  BY <1>2, <1>3, HierarchyFacts
<1>5. Path(x) = {x} \cup (IF BaseClass(x) = None THEN {} ELSE Path(BaseClass(x)))
  BY <1>4, PathIs DEF Path
<1>6. CASE x = c
  BY <1>1, <1>2, <1>3, <1>4, <1>6
<1>7. CASE x # c
  <2>1. BaseClass(x) # None /\ c \in Path(BaseClass(x))
    BY <1>4, <1>5, <1>7
  <2>2. BaseClass(x) \in Classes
    BY <1>4, <2>1, HierarchyFacts
  <2>3. BaseClass(x) \in Path(x)
    BY <1>5, <2>1, <2>2, PathsAreClosed
  <2>4. Path(x) \subseteq Path(BaseClass(c))
    BY <1>2, <1>4, PathsAreClosed
  <2> QED
    BY <1>3, <1>4, <2>1, <2>3, <2>4
<1> QED
  BY <1>6, <1>7

LEMMA PathsAreFinite ==
  ASSUME program \in Programs
  PROVE  \A c \in Classes : IsFiniteSet(Path(c))
<1> DEFINE endless == {c \in Classes : ~IsFiniteSet(Path(c))}
<1>1. SUFFICES ASSUME endless # {} PROVE FALSE
  OBVIOUS
<1>2. PICK c \in endless : Hierarchy[c] \notin endless
  <2>1. endless \in SUBSET Classes
    OBVIOUS
  <2> HIDE DEF endless
  <2> QED
    BY <1>1, <2>1, HierarchyFacts DEF NoClassIsItsOwnAncestor
<1>3. c \in Classes /\ Hierarchy[c] = BaseClass(c)
  BY <1>2, HierarchyFacts
<1>4. CASE BaseClass(c) = None
  <2>1. Path(c) = {c}
    BY <1>3, <1>4, PathIs DEF Path
  <2> QED
    <3>1. IsFiniteSet({c})
      BY FS_Singleton
    <3> QED
      BY <1>2, <2>1, <3>1
<1>5. CASE BaseClass(c) # None
  <2>1. BaseClass(c) \in Classes
    BY <1>3, <1>5, HierarchyFacts
  <2>2. IsFiniteSet(Path(BaseClass(c)))
    BY <1>2, <1>3, <2>1
  <2>3. Path(c) = Path(BaseClass(c)) \cup {c}
    BY <1>3, <1>5, PathIs DEF Path
  <2> QED
    BY <1>2, <2>2, <2>3, FS_AddElement
<1> QED
  BY <1>4, <1>5

LEMMA LevelIs ==
  ASSUME program \in Programs, NEW c \in Classes
  PROVE  /\ Level(c) \in Nat
         /\ BaseClass(c) = None => Level(c) = 0
         /\ BaseClass(c) # None => /\ BaseClass(c) \in Classes
                                   /\ Level(c) = Level(BaseClass(c)) + 1
<1>1. CASE BaseClass(c) = None
  <2>1. Path(c) = {c}
    BY <1>1, PathIs DEF Path
  <2>2. Cardinality(Path(c)) = 1
    BY <2>1, FS_Singleton
  <2> QED
    BY <1>1, <2>2 DEF Level, NumberOfAncestors
<1>2. CASE BaseClass(c) # None
  <2> DEFINE b == BaseClass(c)
  <2>1. b \in Classes
    BY <1>2, HierarchyFacts
  <2>2. IsFiniteSet(Path(b)) /\ c \notin Path(b)
    BY <1>2, <2>1, PathsAreFinite, NotItsOwnAncestor
  <2>3. Path(c) = Path(b) \cup {c}
    BY <1>2, PathIs DEF Path
  <2>4. Cardinality(Path(c)) = Cardinality(Path(b)) + 1
    BY <2>2, <2>3, FS_AddElement
  <2>5. Cardinality(Path(b)) \in Nat /\ Cardinality(Path(b)) # 0
    <3>1. b \in Path(b)
      BY <2>1, PathsAreClosed
    <3> QED
      BY <2>2, <3>1, FS_CardinalityType, FS_EmptySet
  <2> HIDE DEF b
  <2>6. Level(c) \in Nat /\ Level(c) = Level(b) + 1
    BY <2>4, <2>5 DEF Level, NumberOfAncestors
  <2> QED
    BY <1>2, <2>1, <2>6 DEF b
<1> QED
  BY <1>1, <1>2

(* Along a path the levels fall, so that it has one class of each level.   *)
LEMMA LevelsFall ==
  ASSUME program \in Programs
  PROVE  \A d \in Classes : \A x \in Path(d) :
           x \in Classes /\ (x = d \/ Level(x) < Level(d))
<1> DEFINE Falls(d) == \A x \in Path(d) : x \in Classes /\ (x = d \/ Level(x) < Level(d))
           bad == {d \in Classes : ~Falls(d)}
<1>1. SUFFICES ASSUME bad # {} PROVE FALSE
  OBVIOUS
<1>2. PICK d \in bad : Hierarchy[d] \notin bad
  <2>1. bad \in SUBSET Classes
    OBVIOUS
  <2> HIDE DEF bad
  <2> QED
    BY <1>1, <2>1, HierarchyFacts DEF NoClassIsItsOwnAncestor
<1>3. d \in Classes /\ ~Falls(d) /\ Hierarchy[d] = BaseClass(d)
  BY <1>2, HierarchyFacts
<1>4. PICK x \in Path(d) : ~(x \in Classes /\ (x = d \/ Level(x) < Level(d)))
  BY <1>3
<1>5. x # d /\ BaseClass(d) # None /\ x \in Path(BaseClass(d))
  BY <1>3, <1>4, PathIs DEF Path
<1>6. BaseClass(d) \in Classes /\ Level(d) = Level(BaseClass(d)) + 1
      /\ Level(BaseClass(d)) \in Nat
  BY <1>3, <1>5, LevelIs
<1>7. x \in Classes /\ (x = BaseClass(d) \/ Level(x) < Level(BaseClass(d)))
  BY <1>2, <1>3, <1>5, <1>6
<1>8. Level(x) \in Nat
  BY <1>7, LevelIs
<1> QED
  BY <1>4, <1>6, <1>7, <1>8

LEMMA OneOfEachLevel ==
  ASSUME program \in Programs
  PROVE  \A d \in Classes : \A x, y \in Path(d) : Level(x) = Level(y) => x = y
<1> DEFINE One(d) == \A x, y \in Path(d) : Level(x) = Level(y) => x = y
           bad == {d \in Classes : ~One(d)}
<1>1. SUFFICES ASSUME bad # {} PROVE FALSE
  OBVIOUS
<1>2. PICK d \in bad : Hierarchy[d] \notin bad
  <2>1. bad \in SUBSET Classes
    OBVIOUS
  <2> HIDE DEF bad
  <2> QED
    BY <1>1, <2>1, HierarchyFacts DEF NoClassIsItsOwnAncestor
<1>3. d \in Classes /\ ~One(d) /\ Hierarchy[d] = BaseClass(d)
  BY <1>2, HierarchyFacts
<1>4. PICK x \in Path(d), y \in Path(d) : Level(x) = Level(y) /\ x # y
  BY <1>3
<1>5. x # d /\ y # d
  <2>1. Level(d) \in Nat
    BY <1>3, LevelIs
  <2>2. \A z \in Path(d) : z = d \/ Level(z) < Level(d)
    BY <1>3, LevelsFall
  <2> QED
    BY <1>4, <2>1, <2>2
<1>6. BaseClass(d) # None /\ x \in Path(BaseClass(d)) /\ y \in Path(BaseClass(d))
  BY <1>3, <1>4, <1>5, PathIs DEF Path
<1>7. BaseClass(d) \in Classes
  BY <1>3, <1>6, LevelIs
<1>8. One(BaseClass(d))
  BY <1>2, <1>3, <1>7
<1> QED
  BY <1>4, <1>6, <1>8

(* A prime divides the product of a path of primes only if it is one of    *)
(* them.                                                                   *)
LEMMA DivisorIsOnPath ==
  ASSUME program \in Programs, keys \in [Classes -> Nat], NEW p, Irreducible(p)
  PROVE  \A d \in Classes :
           (\A x \in Path(d) : Irreducible(keys[x])) /\ Divides(p, product[d])
             => \E x \in Path(d) : keys[x] = p
<1> DEFINE Primes(d) == \A x \in Path(d) : Irreducible(keys[x])
           bad == {d \in Classes : /\ Primes(d) /\ Divides(p, product[d])
                                   /\ \A x \in Path(d) : keys[x] # p}
<1>1. SUFFICES ASSUME bad # {} PROVE FALSE
  OBVIOUS
<1>2. PICK d \in bad : Hierarchy[d] \notin bad
  <2>1. bad \in SUBSET Classes
    OBVIOUS
  <2> HIDE DEF bad
  <2> QED
    BY <1>1, <2>1, HierarchyFacts DEF NoClassIsItsOwnAncestor
<1>3. d \in Classes /\ Primes(d) /\ Divides(p, product[d])
      /\ (\A x \in Path(d) : keys[x] # p) /\ Hierarchy[d] = BaseClass(d)
  BY <1>2, HierarchyFacts
<1>4. d \in Path(d) /\ Irreducible(keys[d]) /\ keys[d] # p
  BY <1>3, PathsAreClosed
<1>5. ~Divides(p, keys[d])
  BY <1>4, IrreducibleDivisor
<1>6. BaseClass(d) # None
  BY <1>3, <1>5, ProductIs
<1> DEFINE b == BaseClass(d)
<1>7. b \in Classes /\ Path(d) = {d} \cup Path(b)
  BY <1>3, <1>6, PathIs, HierarchyFacts DEF Path
<1>8. keys[d] \in Nat /\ product[b] \in Nat /\ product[d] = keys[d] * product[b]
  BY <1>3, <1>6, <1>7, ProductIs
<1>9. Divides(p, product[b])
  BY <1>3, <1>5, <1>8, PrimesDivideAFactor
<1>10. Primes(b)
  BY <1>3, <1>7
<1> QED
  BY <1>2, <1>3, <1>7, <1>9, <1>10

-----------------------------------------------------------------------------
(* What the turns of AssignKeys keep.  See KeyRoot, KeyFirstOfLevel and    *)
(* KeyNextOfLevel.                                                         *)

(* The classes in the order of their turns.                                *)
Turns == 1..Len(numbered)
LevelAt(i) == Level(numbered[i])
BaseAt(i) == BaseClass(numbered[i])
KeyAt(i) == keys[numbered[i]]

(* Turns are taken level by level, each class once.                        *)
Ordered ==
  /\ numbered \in Seq(Classes)
  /\ \A i, j \in Turns : i < j => numbered[i] # numbered[j] /\ LevelAt(i) <= LevelAt(j)
  /\ phase = "priorities" => numbered = <<>>
  /\ phase = "done" => waiting = {}
  /\ phase # "priorities" =>
       /\ waiting \subseteq VirtualClasses
       /\ \A i \in Turns : numbered[i] \notin waiting
       /\ \A c \in VirtualClasses : c \in waiting \/ \E i \in Turns : numbered[i] = c
       /\ \A i \in Turns : \A c \in waiting : LevelAt(i) <= Level(c)

(* What the locals of AssignKeys say of the classes numbered so far.       *)
LocalsTell ==
  /\ predLevel = IF numbered = <<>> THEN -1
                 ELSE IF LevelAt(Len(numbered)) = 0 THEN -1 ELSE LevelAt(Len(numbered))
  /\ key <= maxLevelKey /\ (predLevel = -1 => key = maxLevelKey)
  /\ \A i \in Turns : KeyAt(i) < maxLevelKey
  /\ predLevel # -1 =>
       /\ minLevelKey <= key /\ BaseAt(Len(numbered)) \in bases
       /\ \A i \in Turns : LevelAt(i) < predLevel => KeyAt(i) < minLevelKey
  /\ \A i \in Turns : (\A j \in i..Len(numbered) : BaseAt(j) = BaseAt(Len(numbered)))
                        => KeyAt(i) < key

(* The keys of a level are above those of the levels before, roots have    *)
(* keys of their own, and so have the children of a class whose turns no   *)
(* child of another class came between.                                    *)
KeysDiffer ==
  \A i, j \in Turns :
    /\ LevelAt(i) < LevelAt(j) => KeyAt(i) < KeyAt(j)
    /\ i < j /\ LevelAt(i) = 0 /\ LevelAt(j) = 0 => KeyAt(i) < KeyAt(j)
    /\ i < j /\ BaseAt(i) = BaseAt(j) /\ BaseAt(i) # None =>
         \/ KeyAt(i) < KeyAt(j)
         \/ \E n \in Turns : /\ i < n /\ n < j
                             /\ LevelAt(n) = LevelAt(i) /\ BaseAt(n) # BaseAt(i)

KeysArePrime ==
  Irreducible(key) /\ Irreducible(minLevelKey) /\ \A i \in Turns : Irreducible(KeyAt(i))

OrderTypes ==
  /\ program \in Programs /\ phase \in {"priorities", "keys", "done"}
  /\ keys \in [Classes -> Nat]
  /\ key \in Nat /\ minLevelKey \in Nat /\ maxLevelKey \in Nat
  /\ bases \subseteq Classes \cup {None}

OrderInv == OrderTypes /\ Ordered /\ LocalsTell /\ KeysDiffer /\ KeysArePrime

LEMMA OrderInit == Init => OrderInv
<1> SUFFICES ASSUME Init PROVE OrderInv
  OBVIOUS
<1>1. numbered = <<>> /\ Turns = {}
  BY DEF Init, Turns
<1>2. OrderTypes
  BY DEF Init, OrderTypes
<1>3. Ordered
  BY <1>1 DEF Init, Ordered
<1>4. LocalsTell
  BY <1>1 DEF Init, LocalsTell
<1>5. KeysDiffer /\ KeysArePrime
  BY <1>1, TwoIsIrreducible DEF Init, KeysDiffer, KeysArePrime
<1> QED
  BY <1>2, <1>3, <1>4, <1>5 DEF OrderInv

(* The program stays, and with it what is known of its classes.            *)
LEMMA SameHierarchy ==
  ASSUME UNCHANGED program
  PROVE  /\ path' = path /\ VirtualClasses' = VirtualClasses
         /\ \A c : Level(c)' = Level(c) /\ BaseClass(c)' = BaseClass(c)
<1>1. path' = path
  BY DEF path, BaseClass
<1> QED
  BY <1>1, SameProgramSameClasses DEF Level, NumberOfAncestors, Path, BaseClass

-----------------------------------------------------------------------------
(* A turn: the order of the classes.                                       *)

LEMMA TurnTypes ==
  ASSUME OrderInv
  PROVE  /\ Len(numbered) \in Nat
         /\ \A i \in Turns : /\ numbered[i] \in Classes
                             /\ LevelAt(i) \in Nat /\ KeyAt(i) \in Nat
                             /\ BaseAt(i) = None => LevelAt(i) = 0
                             /\ BaseAt(i) # None => LevelAt(i) > 0
<1>1. numbered \in Seq(Classes) /\ program \in Programs /\ keys \in [Classes -> Nat]
  BY DEF OrderInv, Ordered, OrderTypes
<1>2. ASSUME NEW i \in Turns
      PROVE  /\ numbered[i] \in Classes
             /\ LevelAt(i) \in Nat /\ KeyAt(i) \in Nat
             /\ BaseAt(i) = None => LevelAt(i) = 0
             /\ BaseAt(i) # None => LevelAt(i) > 0
  <2>1. numbered[i] \in Classes
    BY <1>1 DEF Turns
  <2>2. LevelAt(i) \in Nat /\ (BaseAt(i) = None => LevelAt(i) = 0)
        /\ (BaseAt(i) # None => LevelAt(i) > 0)
    <3> DEFINE x == numbered[i]
    <3>1. x \in Classes
      BY <2>1
    <3> HIDE DEF x
    <3>2. /\ Level(x) \in Nat
          /\ BaseClass(x) = None => Level(x) = 0
          /\ BaseClass(x) # None => /\ BaseClass(x) \in Classes
                                    /\ Level(x) = Level(BaseClass(x)) + 1
      BY <1>1, <3>1, LevelIs
    <3>3. BaseClass(x) # None => Level(BaseClass(x)) \in Nat
      BY <1>1, <3>2, LevelIs
    <3> QED
      BY <3>2, <3>3 DEF LevelAt, BaseAt, x
  <2> QED
    BY <1>1, <2>1, <2>2 DEF KeyAt
<1> QED
  BY <1>1, <1>2

(* What a turn adds: class c at place n.                                   *)
LEMMA TurnFacts ==
  ASSUME OrderInv, NEW c \in Classes, AssignKey(c), NEW n, n = Len(numbered) + 1
  PROVE  /\ n \in Nat /\ Len(numbered)' = n /\ Turns' = Turns \cup {n} /\ n \notin Turns
         /\ numbered'[n] = c /\ \A i \in Turns : numbered'[i] = numbered[i] /\ numbered[i] # c
         /\ \A i \in Turns : /\ LevelAt(i)' = LevelAt(i) /\ BaseAt(i)' = BaseAt(i)
                             /\ LevelAt(i) <= Level(c)
                             /\ BaseAt(i) = BaseClass(c) => LevelAt(i) = Level(c)
         /\ LevelAt(n)' = Level(c) /\ BaseAt(n)' = BaseClass(c)
         /\ Level(c) \in Nat
         /\ BaseClass(c) = None => Level(c) = 0
         /\ BaseClass(c) # None => BaseClass(c) \in Classes /\ Level(c) > 0
<1>1. /\ phase = "keys" /\ c \in waiting /\ numbered' = Append(numbered, c)
      /\ UNCHANGED program
  BY DEF AssignKey, First
<1>2. /\ numbered \in Seq(Classes) /\ program \in Programs
      /\ \A i \in Turns : numbered[i] \notin waiting
      /\ \A i \in Turns : \A d \in waiting : LevelAt(i) <= Level(d)
  BY <1>1 DEF OrderInv, Ordered, OrderTypes
<1>3. /\ n \in Nat /\ Len(numbered') = n /\ Turns' = Turns \cup {n} /\ n \notin Turns
      /\ numbered'[n] = c /\ \A i \in Turns : numbered'[i] = numbered[i]
  BY <1>1, <1>2 DEF Turns
<1>4. path' = path /\ program' = program
  BY <1>1, SameHierarchy
<1>5. /\ \A i \in Turns : LevelAt(i)' = LevelAt(i) /\ BaseAt(i)' = BaseAt(i)
      /\ LevelAt(n)' = Level(c) /\ BaseAt(n)' = BaseClass(c)
  BY <1>3, <1>4 DEF LevelAt, BaseAt, Level, NumberOfAncestors, Path, BaseClass
<1>6. /\ Level(c) \in Nat
      /\ BaseClass(c) = None => Level(c) = 0
      /\ BaseClass(c) # None => /\ BaseClass(c) \in Classes
                                /\ Level(c) = Level(BaseClass(c)) + 1
  BY <1>2, LevelIs
<1>7. BaseClass(c) # None => BaseClass(c) \in Classes /\ Level(c) > 0
  <2>1. BaseClass(c) # None => Level(BaseClass(c)) \in Nat
    BY <1>2, <1>6, LevelIs
  <2> QED
    BY <1>6, <2>1
<1>8. ASSUME NEW i \in Turns, BaseAt(i) = BaseClass(c)
      PROVE  LevelAt(i) = Level(c)
  <2> DEFINE x == numbered[i]
  <2>1. x \in Classes /\ BaseClass(x) = BaseClass(c)
    BY <1>8, TurnTypes DEF BaseAt
  <2> HIDE DEF x
  <2>2. Level(x) = Level(c)
    BY <1>2, <1>6, <2>1, LevelIs
  <2> QED
    BY <2>2 DEF LevelAt, x
<1> QED
  BY <1>1, <1>2, <1>3, <1>5, <1>6, <1>7, <1>8

LEMMA OrderedStep ==
  ASSUME OrderInv, NEW c \in Classes, AssignKey(c)
  PROVE  Ordered'
<1>1. PICK n : n = Len(numbered) + 1
  OBVIOUS
<1>2. /\ phase = "keys" /\ phase' = "keys" /\ c \in waiting /\ waiting' = waiting \ {c}
      /\ numbered' = Append(numbered, c) /\ UNCHANGED program
      /\ \A d \in waiting : ~PriorityGreater(d, c)
  BY DEF AssignKey, First
<1>3. Ordered /\ program \in Programs
  BY DEF OrderInv, OrderTypes
<1>4. \A d : Level(d)' = Level(d)
  BY <1>2, SameHierarchy
<1>5. VirtualClasses' = VirtualClasses
  BY <1>2, SameHierarchy
<1>6. numbered' \in Seq(Classes)
  BY <1>2, <1>3 DEF Ordered
<1>7. ASSUME NEW i \in Turns', NEW j \in Turns', i < j
      PROVE  numbered'[i] # numbered'[j] /\ LevelAt(i)' <= LevelAt(j)'
  <2>1. i \in Turns
    BY <1>1, <1>7, TurnFacts, TurnTypes DEF Turns
  <2>2. CASE j = n
    BY <1>1, <2>1, <2>2, TurnFacts
  <2>3. CASE j \in Turns
    BY <1>1, <1>3, <1>7, <2>1, <2>3, TurnFacts DEF Ordered
  <2> QED
    BY <1>1, <2>2, <2>3, TurnFacts
<1>a. /\ waiting \subseteq VirtualClasses
      /\ \A i \in Turns : numbered[i] \notin waiting
      /\ \A d \in VirtualClasses : d \in waiting \/ \E i \in Turns : numbered[i] = d
  BY <1>2, <1>3 DEF Ordered
<1>b. /\ Turns' = Turns \cup {n} /\ numbered'[n] = c
      /\ \A i \in Turns : numbered'[i] = numbered[i]
  BY <1>1, TurnFacts
<1>8. waiting' \subseteq VirtualClasses' /\ \A i \in Turns' : numbered'[i] \notin waiting'
  BY <1>2, <1>5, <1>a, <1>b
<1>9. \A d \in VirtualClasses' : d \in waiting' \/ \E i \in Turns' : numbered'[i] = d
  BY <1>2, <1>5, <1>a, <1>b
<1>10. ASSUME NEW i \in Turns', NEW d \in waiting'
       PROVE  LevelAt(i)' <= Level(d)'
  <2>1. d \in waiting /\ d \in Classes
    BY <1>2, <1>3 DEF Ordered, VirtualClasses
  <2>2. CASE i \in Turns
    BY <1>1, <1>2, <1>3, <1>4, <2>1, <2>2, TurnFacts DEF Ordered
  <2>3. CASE i = n
    <3>1. ~(Level(d) < Level(c)) /\ Level(d) \in Nat /\ Level(c) \in Nat
      BY <1>2, <1>3, <2>1, LevelIs DEF PriorityGreater
    <3> QED
      BY <1>1, <1>4, <2>3, <3>1, TurnFacts
  <2> QED
    BY <1>1, <2>2, <2>3, TurnFacts
<1> QED
  BY <1>2, <1>6, <1>7, <1>8, <1>9, <1>10 DEF Ordered

-----------------------------------------------------------------------------
(* A turn: the key it gives.                                               *)

(* The three ways to a key.                                                *)
RootTurn(c, k) ==
  /\ Level(c) = 0 /\ k = key /\ maxLevelKey' = key'
  /\ UNCHANGED <<minLevelKey, predLevel, bases>>
FirstTurn(c, k) ==
  /\ Level(c) # 0 /\ predLevel # Level(c) /\ k > maxLevelKey /\ maxLevelKey' = key'
  /\ minLevelKey' = k /\ predLevel' = Level(c) /\ bases' = {BaseClass(c)}
NextTurn(c, k) ==
  /\ Level(c) # 0 /\ predLevel = Level(c)
  /\ k = (IF BaseClass(c) \in bases THEN key ELSE minLevelKey)
  /\ maxLevelKey' >= maxLevelKey
  /\ bases' = bases \cup {BaseClass(c)} /\ UNCHANGED <<minLevelKey, predLevel>>

NewKey(c, k) ==
  /\ k \in Nat /\ keys' = [keys EXCEPT ![c] = k]
  /\ key' \in Nat /\ minLevelKey' \in Nat /\ maxLevelKey' \in Nat
  /\ Irreducible(k) /\ Irreducible(key') /\ Irreducible(minLevelKey')
  /\ key' > k /\ key' <= maxLevelKey'
  /\ RootTurn(c, k) \/ FirstTurn(c, k) \/ NextTurn(c, k)

LEMMA KeyOfTurn ==
  ASSUME BertrandsPostulate, OrderInv, NEW c \in Classes, AssignKey(c)
  PROVE  \E k \in Nat : NewKey(c, k)
<1>1. ASSUME NEW x \in Nat
      PROVE  /\ NextPrime(x + 1) \in Nat /\ NextPrime(x + 1) > x
             /\ Irreducible(NextPrime(x + 1))
  <2>1. x + 1 \in Nat
    OBVIOUS
  <2>2. /\ NextPrime(x + 1) \in Nat /\ NextPrime(x + 1) >= x + 1
        /\ Irreducible(NextPrime(x + 1))
    BY <2>1, NextPrimeIs
  <2> QED
    BY <2>2
<1>2. /\ key \in Nat /\ minLevelKey \in Nat /\ maxLevelKey \in Nat
      /\ Irreducible(key) /\ Irreducible(minLevelKey)
  BY DEF OrderInv, OrderTypes, KeysArePrime
<1>3. CASE KeyRoot(c)
  <2> DEFINE next == NextPrime(key + 1)
  <2>1. next \in Nat /\ next > key /\ Irreducible(next)
    BY <1>1, <1>2
  <2>2. /\ Level(c) = 0 /\ keys' = [keys EXCEPT ![c] = key]
        /\ key' = next /\ maxLevelKey' = next
        /\ UNCHANGED <<minLevelKey, predLevel, bases>>
    BY <1>3 DEF KeyRoot
  <2> HIDE DEF next
  <2>3. NewKey(c, key)
    BY <1>2, <2>1, <2>2 DEF NewKey, RootTurn
  <2> QED
    BY <1>2, <2>3
<1>4. CASE KeyFirstOfLevel(c)
  <2> DEFINE k == NextPrime(maxLevelKey + 1)
             next == NextPrime(k + 1)
  <2>1. k \in Nat /\ k > maxLevelKey /\ Irreducible(k)
    BY <1>1, <1>2
  <2>2. next \in Nat /\ next > k /\ Irreducible(next)
    BY <1>1, <2>1
  <2>3. /\ keys' = [keys EXCEPT ![c] = k] /\ minLevelKey' = k
        /\ key' = next /\ maxLevelKey' = next
        /\ Level(c) # 0 /\ predLevel # Level(c)
        /\ bases' = {BaseClass(c)} /\ predLevel' = Level(c)
    BY <1>4 DEF KeyFirstOfLevel
  <2> HIDE DEF k, next
  <2>4. NewKey(c, k)
    BY <2>1, <2>2, <2>3 DEF NewKey, FirstTurn
  <2> QED
    BY <2>1, <2>4
<1>5. CASE KeyNextOfLevel(c)
  <2> DEFINE k == IF BaseClass(c) \in bases THEN key ELSE minLevelKey
             next == NextPrime(k + 1)
  <2>1. k \in Nat /\ Irreducible(k)
    BY <1>2
  <2>2. next \in Nat /\ next > k /\ Irreducible(next)
    BY <1>1, <2>1
  <2>3. /\ keys' = [keys EXCEPT ![c] = k]
        /\ key' = next
        /\ maxLevelKey' = IF next > maxLevelKey THEN next ELSE maxLevelKey
        /\ Level(c) # 0 /\ predLevel = Level(c)
        /\ bases' = bases \cup {BaseClass(c)}
        /\ UNCHANGED <<minLevelKey, predLevel>>
    BY <1>5 DEF KeyNextOfLevel
  <2>4. k = IF BaseClass(c) \in bases THEN key ELSE minLevelKey
    OBVIOUS
  <2> HIDE DEF k, next
  <2>5. maxLevelKey' \in Nat /\ maxLevelKey' >= maxLevelKey /\ key' <= maxLevelKey'
    BY <1>2, <2>2, <2>3
  <2>6. NewKey(c, k)
    BY <1>2, <2>1, <2>2, <2>3, <2>4, <2>5 DEF NewKey, NextTurn
  <2> QED
    BY <2>1, <2>6
<1> QED
  BY <1>3, <1>4, <1>5 DEF AssignKey

LEMMA KeysOfTurns ==
  ASSUME OrderInv, NEW c \in Classes, AssignKey(c), NEW n, n = Len(numbered) + 1,
         NEW k \in Nat, NewKey(c, k)
  PROVE  /\ KeyAt(n)' = k
         /\ \A i \in Turns : KeyAt(i)' = KeyAt(i)
<1>1. /\ numbered'[n] = c
      /\ \A i \in Turns : numbered'[i] = numbered[i] /\ numbered[i] # c
  BY TurnFacts
<1>2. keys' = [keys EXCEPT ![c] = k] /\ keys \in [Classes -> Nat]
  BY DEF NewKey, OrderInv, OrderTypes
<1>3. \A i \in Turns : numbered[i] \in Classes
  BY TurnTypes
<1> QED
  BY <1>1, <1>2, <1>3 DEF KeyAt

LEMMA PrimesStep ==
  ASSUME OrderInv, NEW c \in Classes, AssignKey(c), NEW k \in Nat, NewKey(c, k)
  PROVE  KeysArePrime'
<1>1. PICK n : n = Len(numbered) + 1
  OBVIOUS
<1>2. Turns' = Turns \cup {n}
  BY <1>1, TurnFacts
<1>3. KeyAt(n)' = k /\ \A i \in Turns : KeyAt(i)' = KeyAt(i)
  BY <1>1, KeysOfTurns
<1>4. \A i \in Turns : Irreducible(KeyAt(i))
  BY DEF OrderInv, KeysArePrime
<1>5. Irreducible(k) /\ Irreducible(key') /\ Irreducible(minLevelKey')
  BY DEF NewKey
<1>6. \A i \in Turns' : Irreducible(KeyAt(i)')
  BY <1>2, <1>3, <1>4, <1>5
<1> QED
  BY <1>5, <1>6 DEF KeysArePrime, Irreducible

-----------------------------------------------------------------------------
(* A turn: the locals.                                                     *)

(* A turn, its place and its key.                                          *)
Turn(c, n, k) ==
  /\ AssignKey(c) /\ n = Len(numbered) + 1 /\ NewKey(c, k)

LEMMA TurnIs ==
  ASSUME OrderInv, NEW c \in Classes, NEW n, NEW k \in Nat, Turn(c, n, k)
  PROVE  /\ n \in Nat /\ Len(numbered) = n - 1 /\ Len(numbered)' = n
         /\ Turns = 1..(n - 1) /\ Turns' = 1..n
         /\ \A i \in Turns : /\ LevelAt(i)' = LevelAt(i) /\ LevelAt(i) \in Nat
                             /\ BaseAt(i)' = BaseAt(i)
                             /\ KeyAt(i)' = KeyAt(i) /\ KeyAt(i) \in Nat
                             /\ LevelAt(i) <= Level(c)
                             /\ BaseAt(i) = BaseClass(c) => LevelAt(i) = Level(c)
                             /\ BaseAt(i) # None => LevelAt(i) > 0
         /\ LevelAt(n)' = Level(c) /\ BaseAt(n)' = BaseClass(c) /\ KeyAt(n)' = k
         /\ Level(c) \in Nat
         /\ BaseClass(c) = None => Level(c) = 0
         /\ BaseClass(c) # None => Level(c) > 0
<1>1. AssignKey(c) /\ n = Len(numbered) + 1 /\ NewKey(c, k)
  BY DEF Turn
<1>2. Len(numbered) \in Nat /\ Len(numbered)' = n /\ n \in Nat
  BY <1>1, TurnTypes, TurnFacts
<1>3. \A i \in Turns : /\ LevelAt(i) \in Nat /\ KeyAt(i) \in Nat
                       /\ BaseAt(i) # None => LevelAt(i) > 0
  BY TurnTypes
<1>4. /\ \A i \in Turns : /\ LevelAt(i)' = LevelAt(i) /\ BaseAt(i)' = BaseAt(i)
                          /\ LevelAt(i) <= Level(c)
                          /\ BaseAt(i) = BaseClass(c) => LevelAt(i) = Level(c)
      /\ LevelAt(n)' = Level(c) /\ BaseAt(n)' = BaseClass(c)
      /\ Level(c) \in Nat
      /\ BaseClass(c) = None => Level(c) = 0
      /\ BaseClass(c) # None => Level(c) > 0
  BY <1>1, TurnFacts
<1>5. KeyAt(n)' = k /\ \A i \in Turns : KeyAt(i)' = KeyAt(i)
  BY <1>1, KeysOfTurns
<1>6. Turns = 1..(n - 1) /\ Turns' = 1..n
  BY <1>1, <1>2 DEF Turns
<1> QED
  BY <1>1, <1>2, <1>3, <1>4, <1>5, <1>6

(* predLevel and bases before the turn, by place.                          *)
LEMMA LocalsBefore ==
  ASSUME OrderInv, NEW n, n = Len(numbered) + 1
  PROVE  /\ predLevel = IF n = 1 THEN -1 ELSE IF LevelAt(n - 1) = 0 THEN -1 ELSE LevelAt(n - 1)
         /\ key \in Nat /\ maxLevelKey \in Nat /\ minLevelKey \in Nat
         /\ key <= maxLevelKey /\ (predLevel = -1 => key = maxLevelKey)
         /\ \A i \in Turns : KeyAt(i) < maxLevelKey
         /\ predLevel # -1 =>
              /\ minLevelKey <= key /\ BaseAt(n - 1) \in bases
              /\ \A i \in Turns : LevelAt(i) < predLevel => KeyAt(i) < minLevelKey
         /\ \A i \in Turns : (\A j \in i..(n - 1) : BaseAt(j) = BaseAt(n - 1)) => KeyAt(i) < key
<1>1. Len(numbered) = n - 1 /\ Len(numbered) \in Nat
  BY TurnTypes
<1>2. numbered = <<>> <=> n = 1
  BY <1>1 DEF OrderInv, Ordered
<1>3. LocalsTell /\ OrderTypes
  BY DEF OrderInv
<1> QED
  BY <1>1, <1>2, <1>3 DEF LocalsTell, OrderTypes

LEMMA PredLevelStep ==
  ASSUME OrderInv, NEW c \in Classes, NEW n, NEW k \in Nat, Turn(c, n, k)
  PROVE  predLevel' = IF Level(c) = 0 THEN -1 ELSE Level(c)
<1>1. n = Len(numbered) + 1 /\ NewKey(c, k)
  BY DEF Turn
<1>2. CASE RootTurn(c, k)
  <2>1. CASE n = 1
    BY <1>1, <1>2, <2>1, LocalsBefore DEF RootTurn
  <2>2. CASE n # 1
    <3>1. n - 1 \in Turns /\ LevelAt(n - 1) = 0
      BY <1>2, <2>2, TurnIs DEF RootTurn
    <3> QED
      BY <1>1, <1>2, <2>2, <3>1, LocalsBefore DEF RootTurn
  <2> QED
    BY <2>1, <2>2
<1>3. CASE FirstTurn(c, k)
  BY <1>3 DEF FirstTurn
<1>4. CASE NextTurn(c, k)
  BY <1>4 DEF NextTurn
<1> QED
  BY <1>1, <1>2, <1>3, <1>4 DEF NewKey

LEMMA MaxStep ==
  ASSUME OrderInv, NEW c \in Classes, NEW n, NEW k \in Nat, Turn(c, n, k)
  PROVE  /\ key' <= maxLevelKey' /\ (predLevel' = -1 => key' = maxLevelKey')
         /\ \A i \in Turns' : KeyAt(i)' < maxLevelKey'
<1>1. n = Len(numbered) + 1 /\ NewKey(c, k)
  BY DEF Turn
<1>2. key' \in Nat /\ maxLevelKey' \in Nat /\ key' > k /\ key' <= maxLevelKey'
  BY <1>1 DEF NewKey
<1>3. predLevel' = -1 => key' = maxLevelKey'
  <2>1. Level(c) \in Nat
    BY TurnIs
  <2>2. predLevel' = -1 => RootTurn(c, k)
    BY <1>1, <2>1, PredLevelStep DEF NewKey, FirstTurn, NextTurn
  <2> QED
    BY <2>2 DEF RootTurn
<1>4. maxLevelKey' >= maxLevelKey
  <2>1. key <= maxLevelKey /\ (predLevel = -1 => key = maxLevelKey)
        /\ key \in Nat /\ maxLevelKey \in Nat
    BY <1>1, LocalsBefore
  <2>2. CASE RootTurn(c, k)
    <3>1. Level(c) = 0 /\ predLevel' = predLevel /\ k = key /\ maxLevelKey' = key'
      BY <2>2 DEF RootTurn
    <3>2. predLevel = -1
      BY <3>1, PredLevelStep
    <3> QED
      BY <1>2, <2>1, <3>1, <3>2
  <2>3. CASE FirstTurn(c, k)
    BY <1>2, <2>1, <2>3 DEF FirstTurn
  <2>4. CASE NextTurn(c, k)
    BY <2>4 DEF NextTurn
  <2> QED
    BY <1>1, <2>2, <2>3, <2>4 DEF NewKey
<1>5. ASSUME NEW i \in Turns'
      PROVE  KeyAt(i)' < maxLevelKey'
  <2>1. CASE i = n
    BY <1>2, <2>1, TurnIs
  <2>2. CASE i # n
    <3>1. i \in Turns
      BY <2>2, TurnIs
    <3>2. KeyAt(i) < maxLevelKey /\ maxLevelKey \in Nat
      BY <1>1, <3>1, LocalsBefore
    <3> QED
      BY <1>2, <1>4, <3>1, <3>2, TurnIs
  <2> QED
    BY <2>1, <2>2
<1> QED
  BY <1>2, <1>3, <1>5

LEMMA MinStep ==
  ASSUME OrderInv, NEW c \in Classes, NEW n, NEW k \in Nat, Turn(c, n, k), predLevel' # -1
  PROVE  /\ minLevelKey' <= key' /\ minLevelKey' <= k /\ BaseAt(n)' \in bases'
         /\ \A i \in Turns' : LevelAt(i)' < predLevel' => KeyAt(i)' < minLevelKey'
<1>1. n = Len(numbered) + 1 /\ NewKey(c, k)
  BY DEF Turn
<1>2. /\ Level(c) # 0 /\ predLevel' = Level(c)
      /\ Level(c) \in Nat /\ key' \in Nat /\ minLevelKey' \in Nat /\ key' > k
  BY <1>1, PredLevelStep, TurnIs DEF NewKey
<1>3. BaseAt(n)' = BaseClass(c)
  BY TurnIs
<1>4. CASE FirstTurn(c, k)
  <2>1. minLevelKey' = k /\ BaseClass(c) \in bases'
    BY <1>4 DEF FirstTurn
  <2>2. ASSUME NEW i \in Turns', LevelAt(i)' < predLevel'
        PROVE  KeyAt(i)' < minLevelKey'
    <3>1. i # n
      BY <1>2, <2>2, TurnIs
    <3>2. i \in Turns
      BY <3>1, TurnIs
    <3>3. KeyAt(i) < maxLevelKey /\ maxLevelKey \in Nat /\ maxLevelKey < k
      BY <1>1, <1>4, <3>2, LocalsBefore DEF FirstTurn
    <3>4. KeyAt(i)' = KeyAt(i) /\ KeyAt(i) \in Nat
      BY <3>2, TurnIs
    <3> QED
      BY <2>1, <3>3, <3>4
  <2> QED
    BY <1>2, <1>3, <2>1, <2>2
<1>5. CASE NextTurn(c, k)
  <2>1. /\ predLevel = Level(c) /\ minLevelKey' = minLevelKey /\ BaseClass(c) \in bases'
        /\ k = key \/ k = minLevelKey
    BY <1>5 DEF NextTurn
  <2>2. /\ minLevelKey \in Nat /\ key \in Nat /\ minLevelKey <= key
        /\ \A i \in Turns : LevelAt(i) < predLevel => KeyAt(i) < minLevelKey
    BY <1>1, <1>2, <2>1, LocalsBefore
  <2>3. ASSUME NEW i \in Turns', LevelAt(i)' < predLevel'
        PROVE  KeyAt(i)' < minLevelKey'
    <3>1. i # n
      BY <1>2, <2>3, TurnIs
    <3>2. i \in Turns
      BY <3>1, TurnIs
    <3> QED
      BY <1>2, <2>1, <2>2, <2>3, <3>2, TurnIs
  <2> QED
    BY <1>2, <1>3, <2>1, <2>2, <2>3
<1> QED
  BY <1>1, <1>2, <1>4, <1>5 DEF NewKey, RootTurn

(* The children of one class that follow each other have rising keys.      *)
LEMMA RunStep ==
  ASSUME OrderInv, NEW c \in Classes, NEW n, NEW k \in Nat, Turn(c, n, k)
  PROVE  /\ \A i \in Turns : (\A j \in i..(n - 1) : BaseAt(j) = BaseClass(c)) => KeyAt(i) < k
         /\ \A i \in Turns' : (\A j \in i..n : BaseAt(j)' = BaseAt(n)') => KeyAt(i)' < key'
<1>1. n = Len(numbered) + 1 /\ NewKey(c, k)
  BY DEF Turn
<1>2. key' \in Nat /\ key' > k
  BY <1>1 DEF NewKey
<1>3. ASSUME NEW i \in Turns, \A j \in i..(n - 1) : BaseAt(j) = BaseClass(c)
      PROVE  KeyAt(i) < k
  <2>1. i \in i..(n - 1) /\ n - 1 \in i..(n - 1) /\ n - 1 \in Turns
    BY TurnIs
  <2>2. BaseAt(n - 1) = BaseClass(c) /\ LevelAt(n - 1) = Level(c) /\ n # 1
    BY <1>3, <2>1, TurnIs
  <2>3. KeyAt(i) < key
    BY <1>1, <1>3, <2>2, LocalsBefore
  <2>4. CASE RootTurn(c, k)
    BY <2>3, <2>4 DEF RootTurn
  <2>5. CASE FirstTurn(c, k)
    BY <1>1, <2>2, <2>5, LocalsBefore DEF FirstTurn
  <2>6. CASE NextTurn(c, k)
    <3>1. Level(c) # 0 /\ predLevel = Level(c) /\ Level(c) \in Nat
      BY <2>6, TurnIs DEF NextTurn
    <3>2. BaseClass(c) \in bases
      BY <1>1, <2>2, <3>1, LocalsBefore
    <3> QED
      BY <2>3, <2>6, <3>2 DEF NextTurn
  <2> QED
    BY <1>1, <2>4, <2>5, <2>6 DEF NewKey
<1>4. ASSUME NEW i \in Turns', \A j \in i..n : BaseAt(j)' = BaseAt(n)'
      PROVE  KeyAt(i)' < key'
  <2>1. CASE i = n
    BY <1>2, <2>1, TurnIs
  <2>2. CASE i # n
    <3>1. i \in Turns /\ n \in Nat
      BY <2>2, TurnIs
    <3>2. ASSUME NEW j \in i..(n - 1)
          PROVE  BaseAt(j) = BaseClass(c)
      <4>1. j \in Turns /\ j \in i..n
        BY <3>1, TurnIs
      <4> QED
        BY <1>4, <4>1, TurnIs
    <3>3. KeyAt(i) < k
      BY <1>3, <3>1, <3>2
    <3> QED
      BY <1>2, <3>1, <3>3, TurnIs
  <2> QED
    BY <2>1, <2>2
<1> QED
  BY <1>3, <1>4

-----------------------------------------------------------------------------
(* A turn: the keys of the classes so far; the other steps.                *)

LEMMA LocalsStep ==
  ASSUME OrderInv, NEW c \in Classes, NEW n, NEW k \in Nat, Turn(c, n, k)
  PROVE  LocalsTell'
<1>1. Len(numbered)' = n /\ n \in Nat /\ LevelAt(n)' = Level(c)
  BY TurnIs
<1>2. numbered' # <<>>
  BY DEF Turn, AssignKey, OrderInv, Ordered
<1>3. Len(numbered') = n
  BY <1>1
<1>4. predLevel' = IF LevelAt(n)' = 0 THEN -1 ELSE LevelAt(n)'
  BY <1>1, PredLevelStep
<1>5. /\ key' <= maxLevelKey' /\ (predLevel' = -1 => key' = maxLevelKey')
      /\ \A i \in Turns' : KeyAt(i)' < maxLevelKey'
  BY MaxStep
<1>6. predLevel' # -1 =>
        /\ minLevelKey' <= key' /\ BaseAt(n)' \in bases'
        /\ \A i \in Turns' : LevelAt(i)' < predLevel' => KeyAt(i)' < minLevelKey'
  BY MinStep
<1>7. \A i \in Turns' : (\A j \in i..n : BaseAt(j)' = BaseAt(n)') => KeyAt(i)' < key'
  BY RunStep
<1>8. LevelAt(Len(numbered))' = LevelAt(n)' /\ BaseAt(Len(numbered))' = BaseAt(n)'
  BY <1>3 DEF LevelAt, BaseAt
<1> QED
  BY <1>2, <1>3, <1>4, <1>5, <1>6, <1>7, <1>8 DEF LocalsTell

LEMMA KeysDifferStep ==
  ASSUME OrderInv, NEW c \in Classes, NEW n, NEW k \in Nat, Turn(c, n, k)
  PROVE  KeysDiffer'
<1> DEFINE Stranger(i, j) == \E m \in Turns : /\ i < m /\ m < j
                                              /\ LevelAt(m) = LevelAt(i) /\ BaseAt(m) # BaseAt(i)
<1>1. /\ n \in Nat /\ Turns = 1..(n - 1) /\ Turns' = 1..n /\ KeyAt(n)' = k
      /\ LevelAt(n)' = Level(c) /\ BaseAt(n)' = BaseClass(c) /\ Level(c) \in Nat
      /\ n = Len(numbered) + 1 /\ NewKey(c, k)
  BY TurnIs DEF Turn
<1>2. \A i \in Turns : /\ LevelAt(i)' = LevelAt(i) /\ LevelAt(i) \in Nat
                       /\ BaseAt(i)' = BaseAt(i)
                       /\ KeyAt(i)' = KeyAt(i) /\ KeyAt(i) \in Nat
                       /\ LevelAt(i) <= Level(c)
                       /\ BaseAt(i) = BaseClass(c) => LevelAt(i) = Level(c)
  BY TurnIs
<1>3. \A i, j \in Turns :
        /\ LevelAt(i) < LevelAt(j) => KeyAt(i) < KeyAt(j)
        /\ i < j /\ LevelAt(i) = 0 /\ LevelAt(j) = 0 => KeyAt(i) < KeyAt(j)
        /\ i < j /\ BaseAt(i) = BaseAt(j) /\ BaseAt(i) # None =>
             KeyAt(i) < KeyAt(j) \/ Stranger(i, j)
  BY DEF OrderInv, KeysDiffer
<1>4. ASSUME NEW i \in Turns, LevelAt(i) < Level(c)
      PROVE  KeyAt(i) < k
  <2>1. predLevel' # -1 /\ predLevel' = Level(c)
    BY <1>1, <1>2, <1>4, PredLevelStep
  <2>2. minLevelKey' <= k /\ KeyAt(i)' < minLevelKey'
    <3>1. i \in Turns' /\ LevelAt(i)' < predLevel'
      BY <1>1, <1>2, <1>4, <2>1
    <3> QED
      BY <2>1, <3>1, MinStep
  <2>3. minLevelKey' \in Nat
    BY <1>1 DEF NewKey
  <2> QED
    BY <1>2, <2>2, <2>3
<1>5. ASSUME NEW i \in Turns, LevelAt(i) = 0, Level(c) = 0
      PROVE  KeyAt(i) < k
  <2>1. RootTurn(c, k) /\ predLevel' = -1
    BY <1>1, <1>5, PredLevelStep DEF NewKey, FirstTurn, NextTurn
  <2>2. k = key /\ predLevel = -1
    BY <2>1 DEF RootTurn
  <2>3. key = maxLevelKey /\ KeyAt(i) < maxLevelKey
    BY <1>1, <2>2, LocalsBefore
  <2> QED
    BY <2>2, <2>3
<1>6. ASSUME NEW i \in Turns, BaseAt(i) = BaseClass(c), ~Stranger(i, n)
      PROVE  KeyAt(i) < k
  <2>1. ASSUME NEW j \in i..(n - 1)
        PROVE  BaseAt(j) = BaseClass(c)
    <3>1. j \in Turns
      BY <1>1
    <3>2. j = i \/ i < j
      BY <1>1
    <3>3. LevelAt(i) = Level(c) /\ LevelAt(j) <= Level(c) /\ LevelAt(i) <= LevelAt(j)
      BY <1>2, <1>6, <3>1, <3>2 DEF OrderInv, Ordered
    <3>4. LevelAt(j) = LevelAt(i)
      BY <1>1, <1>2, <3>1, <3>3
    <3>5. j < n
      BY <1>1
    <3> QED
      BY <1>6, <3>1, <3>2, <3>4, <3>5
  <2> QED
    BY <2>1, RunStep
<1>7. ASSUME NEW i \in Turns', NEW j \in Turns'
      PROVE  /\ LevelAt(i)' < LevelAt(j)' => KeyAt(i)' < KeyAt(j)'
             /\ i < j /\ LevelAt(i)' = 0 /\ LevelAt(j)' = 0 => KeyAt(i)' < KeyAt(j)'
             /\ i < j /\ BaseAt(i)' = BaseAt(j)' /\ BaseAt(i)' # None =>
                  \/ KeyAt(i)' < KeyAt(j)'
                  \/ \E m \in Turns' : /\ i < m /\ m < j
                                       /\ LevelAt(m)' = LevelAt(i)' /\ BaseAt(m)' # BaseAt(i)'
  <2> HIDE DEF Stranger
  <2>1. ASSUME i \in Turns, Stranger(i, j)
        PROVE  \E m \in Turns' : /\ i < m /\ m < j
                                 /\ LevelAt(m)' = LevelAt(i)' /\ BaseAt(m)' # BaseAt(i)'
    <3>1. PICK m \in Turns : /\ i < m /\ m < j
                             /\ LevelAt(m) = LevelAt(i) /\ BaseAt(m) # BaseAt(i)
      BY <2>1 DEF Stranger
    <3>2. m \in Turns'
      BY <1>1
    <3> QED
      BY <1>2, <2>1, <3>1, <3>2
  <2>2. CASE i \in Turns /\ j \in Turns
    BY <1>2, <1>3, <2>1, <2>2
  <2>3. CASE i \in Turns /\ j = n
    <3>1. /\ LevelAt(j)' = Level(c) /\ BaseAt(j)' = BaseClass(c) /\ KeyAt(j)' = k
          /\ LevelAt(i)' = LevelAt(i) /\ BaseAt(i)' = BaseAt(i) /\ KeyAt(i)' = KeyAt(i)
      BY <1>1, <1>2, <2>3
    <3>2. BaseAt(i) = BaseClass(c) => KeyAt(i) < k \/ Stranger(i, j)
      BY <1>6, <2>3
    <3> QED
      BY <1>4, <1>5, <2>1, <2>3, <3>1, <3>2
  <2>4. CASE i = n
    <3>1. ~(i < j)
      BY <1>1, <2>4
    <3>2. ~(LevelAt(i)' < LevelAt(j)')
      BY <1>1, <1>2, <2>4
    <3> QED
      BY <3>1, <3>2
  <2> QED
    BY <1>1, <2>2, <2>3, <2>4
<1> QED
  BY <1>7 DEF KeysDiffer

LEMMA OrderTypesStep ==
  ASSUME OrderInv, NEW c \in Classes, NEW n, NEW k \in Nat, Turn(c, n, k)
  PROVE  OrderTypes'
<1>1. /\ OrderTypes /\ AssignKey(c) /\ n = Len(numbered) + 1 /\ NewKey(c, k)
  BY DEF OrderInv, Turn
<1>2. BaseClass(c) \in Classes \cup {None}
  BY <1>1, HierarchyFacts DEF OrderTypes
<1>3. bases' \subseteq Classes \cup {None}
  BY <1>1, <1>2 DEF OrderTypes, NewKey, RootTurn, FirstTurn, NextTurn
<1>4. program' = program /\ phase' = phase
  BY <1>1 DEF AssignKey
<1> QED
  BY <1>1, <1>3, <1>4 DEF OrderTypes, NewKey

(* Steps that leave the keys alone.                                        *)
LEMMA OtherSteps ==
  ASSUME OrderInv, UNCHANGED <<program, keys, numbered, locals>>
  PROVE  LocalsTell' /\ KeysDiffer' /\ KeysArePrime'
<1>1. path' = path /\ program' = program
  BY SameHierarchy
<1>2. Turns' = Turns /\ numbered' = numbered
      /\ \A i : LevelAt(i)' = LevelAt(i) /\ BaseAt(i)' = BaseAt(i) /\ KeyAt(i)' = KeyAt(i)
  BY <1>1 DEF Turns, LevelAt, BaseAt, KeyAt, Level, NumberOfAncestors, Path, BaseClass
<1>3. /\ LevelAt(Len(numbered))' = LevelAt(Len(numbered))
      /\ BaseAt(Len(numbered))' = BaseAt(Len(numbered))
  BY <1>1 DEF LevelAt, BaseAt, Level, NumberOfAncestors, Path, BaseClass
<1>4. LocalsTell /\ KeysDiffer /\ KeysArePrime
  BY DEF OrderInv
<1>5. LocalsTell'
  BY <1>2, <1>3, <1>4 DEF LocalsTell, locals
<1>6. KeysDiffer'
  BY <1>2, <1>4 DEF KeysDiffer
<1>7. KeysArePrime'
  BY <1>2, <1>4 DEF KeysArePrime, locals, Irreducible
<1> QED
  BY <1>5, <1>6, <1>7

LEMMA OrderStep ==
  ASSUME BertrandsPostulate, OrderInv, [Next]_vars
  PROVE  OrderInv'
<1>1. ASSUME NEW c \in Classes, AssignPriority(c)
      PROVE  OrderInv'
  <2>1. UNCHANGED <<program, phase, keys, numbered, locals>> /\ phase = "priorities"
        /\ phase' = "priorities"
    BY <1>1 DEF AssignPriority
  <2>2. OrderTypes'
    BY <2>1 DEF OrderInv, OrderTypes, locals
  <2>3. Ordered'
    BY <2>1 DEF OrderInv, Ordered, Turns
  <2> QED
    BY <2>1, <2>2, <2>3, OtherSteps DEF OrderInv
<1>2. ASSUME NEW c \in Classes, AssignKey(c)
      PROVE  OrderInv'
  <2>1. PICK k \in Nat : NewKey(c, k)
    BY <1>2, KeyOfTurn
  <2>2. PICK n : n = Len(numbered) + 1
    OBVIOUS
  <2>3. Turn(c, n, k)
    BY <1>2, <2>1, <2>2 DEF Turn
  <2>4. LocalsTell' /\ KeysDiffer' /\ OrderTypes'
    BY <2>3, LocalsStep, KeysDifferStep, OrderTypesStep
  <2>5. Ordered' /\ KeysArePrime'
    BY <1>2, <2>1, OrderedStep, PrimesStep
  <2> QED
    BY <2>4, <2>5 DEF OrderInv
<1>3. CASE Sort
  <2>1. /\ UNCHANGED <<program, keys, numbered, locals>> /\ phase = "priorities"
        /\ phase' = "keys" /\ waiting' = VirtualClasses
    BY <1>3 DEF Sort
  <2>2. OrderTypes'
    BY <2>1 DEF OrderInv, OrderTypes, locals
  <2>3. Ordered'
    <3>1. VirtualClasses' = VirtualClasses
      BY <2>1, SameHierarchy
    <3>2. numbered = <<>> /\ Turns' = {}
      BY <2>1 DEF OrderInv, Ordered, Turns
    <3> QED
      BY <2>1, <3>1, <3>2 DEF OrderInv, Ordered
  <2> QED
    BY <2>1, <2>2, <2>3, OtherSteps DEF OrderInv
<1>4. CASE AssignCids
  <2>1. /\ UNCHANGED <<program, keys, numbered, locals, waiting>> /\ phase = "keys"
        /\ phase' = "done" /\ waiting = {}
    BY <1>4 DEF AssignCids
  <2>2. OrderTypes'
    BY <2>1 DEF OrderInv, OrderTypes, locals
  <2>3. Ordered'
    <3>1. path' = path /\ VirtualClasses' = VirtualClasses
      BY <2>1, SameHierarchy
    <3>2. Turns' = Turns /\ \A i : LevelAt(i)' = LevelAt(i)
      BY <2>1, <3>1 DEF Turns, LevelAt, Level, NumberOfAncestors, Path
    <3>3. \A d : Level(d)' = Level(d)
      BY <2>1, SameHierarchy
    <3> QED
      BY <2>1, <3>1, <3>2, <3>3 DEF OrderInv, Ordered
  <2> QED
    BY <2>1, <2>2, <2>3, OtherSteps DEF OrderInv
<1>5. CASE UNCHANGED vars
  <2>1. UNCHANGED <<program, keys, numbered, locals, waiting, phase>>
    BY <1>5 DEF vars
  <2>2. OrderTypes'
    BY <2>1 DEF OrderInv, OrderTypes, locals
  <2>3. Ordered'
    <3>1. path' = path /\ VirtualClasses' = VirtualClasses
      BY <2>1, SameHierarchy
    <3>2. Turns' = Turns /\ \A i : LevelAt(i)' = LevelAt(i)
      BY <2>1, <3>1 DEF Turns, LevelAt, Level, NumberOfAncestors, Path
    <3>3. \A d : Level(d)' = Level(d)
      BY <2>1, SameHierarchy
    <3> QED
      BY <2>1, <3>1, <3>2, <3>3 DEF OrderInv, Ordered
  <2> QED
    BY <2>1, <2>2, <2>3, OtherSteps DEF OrderInv
<1> QED
  BY <1>1, <1>2, <1>3, <1>4, <1>5 DEF Next

-----------------------------------------------------------------------------
(* Where two paths meet.                                                   *)

(* The class of a turn has one turn.                                       *)
LEMMA PlaceOfTurn ==
  ASSUME OrderInv, NEW i \in Turns
  PROVE  Place(numbered[i]) = i
<1>1. numbered \in Seq(Classes) /\ DOMAIN numbered = Turns
  BY DEF OrderInv, Ordered, Turns
<1>2. ASSUME NEW j \in Turns, numbered[j] = numbered[i]
      PROVE  j = i
  <2>1. i \in Int /\ j \in Int
    BY DEF Turns
  <2>2. ~(i < j) /\ ~(j < i)
    BY <1>2 DEF OrderInv, Ordered
  <2> QED
    BY <2>1, <2>2
<1> QED
  BY <1>1, <1>2 DEF Place

(* When all classes have their keys, two that share a key are on one level *)
(* and, if they are children of one class, twins.                          *)
LEMMA EqualKeys ==
  ASSUME OrderInv, phase = "done", NEW x \in VirtualClasses, NEW y \in VirtualClasses,
         keys[x] = keys[y], x # y
  PROVE  /\ Level(x) = Level(y) /\ BaseClass(x) # None /\ BaseClass(y) # None
         /\ BaseClass(x) = BaseClass(y) => Twins(x, y) \/ Twins(y, x)
<1>1. PICK i \in Turns : numbered[i] = x
  BY DEF OrderInv, Ordered
<1>2. PICK j \in Turns : numbered[j] = y
  BY DEF OrderInv, Ordered
<1>3. x \in Classes /\ y \in Classes /\ program \in Programs
  BY DEF VirtualClasses, OrderInv, OrderTypes
<1>4. /\ KeyAt(i) = KeyAt(j) /\ KeyAt(i) \in Nat /\ i # j /\ i \in Int /\ j \in Int
      /\ LevelAt(i) = Level(x) /\ LevelAt(j) = Level(y)
      /\ BaseAt(i) = BaseClass(x) /\ BaseAt(j) = BaseClass(y)
  <2>1. keys[x] \in Nat
    BY <1>3 DEF OrderInv, OrderTypes
  <2> QED
    BY <1>1, <1>2, <2>1 DEF KeyAt, LevelAt, BaseAt, Turns
<1>5. Level(x) \in Nat /\ Level(y) \in Nat
  BY <1>3, LevelIs
<1>6. ~(KeyAt(i) < KeyAt(j)) /\ ~(KeyAt(j) < KeyAt(i))
  BY <1>4
<1>7. Level(x) = Level(y)
  <2>1. ~(LevelAt(i) < LevelAt(j)) /\ ~(LevelAt(j) < LevelAt(i))
    BY <1>6 DEF OrderInv, KeysDiffer
  <2> QED
    BY <1>4, <1>5, <2>1
<1>8. Level(x) # 0
  <2>1. SUFFICES ASSUME Level(x) = 0 PROVE FALSE
    OBVIOUS
  <2>2. LevelAt(i) = 0 /\ LevelAt(j) = 0
    BY <1>4, <1>7, <2>1
  <2>3. ~(i < j) /\ ~(j < i)
    BY <1>6, <2>2 DEF OrderInv, KeysDiffer
  <2> QED
    BY <1>4, <2>3
<1>9. BaseClass(x) # None /\ BaseClass(y) # None
  BY <1>3, <1>7, <1>8, LevelIs
<1>10. ASSUME NEW a \in Turns, NEW b \in Turns, a < b, KeyAt(a) = KeyAt(b),
              BaseAt(a) = BaseAt(b), BaseAt(a) # None, ~(KeyAt(a) < KeyAt(b))
       PROVE  Twins(numbered[a], numbered[b])
  <2>1. PICK n \in Turns : /\ a < n /\ n < b
                           /\ LevelAt(n) = LevelAt(a) /\ BaseAt(n) # BaseAt(a)
    BY <1>10 DEF OrderInv, KeysDiffer
  <2>2. Place(numbered[a]) = a /\ Place(numbered[b]) = b
    BY PlaceOfTurn
  <2>3. n \in DOMAIN numbered /\ numbered[a] # numbered[b]
    BY <1>10 DEF OrderInv, Ordered, Turns
  <2> QED
    BY <1>10, <2>1, <2>2, <2>3 DEF Twins, KeyAt, LevelAt, BaseAt
<1>11. ASSUME BaseClass(x) = BaseClass(y)
       PROVE  Twins(x, y) \/ Twins(y, x)
  <2>1. CASE i < j
    BY <1>1, <1>2, <1>4, <1>6, <1>9, <1>10, <1>11, <2>1
  <2>2. CASE j < i
    BY <1>1, <1>2, <1>4, <1>6, <1>9, <1>10, <1>11, <2>2
  <2> QED
    BY <1>4, <2>1, <2>2
<1> QED
  BY <1>7, <1>9, <1>11

LEMMA NoRestDivides ==
  ASSUME NEW x \in Nat, NEW n \in Nat \ {0}, x % n = 0
  PROVE  Divides(n, x)
<1>1. x \div n \in Int /\ x = n * (x \div n) + (x % n)
  BY Quotients
<1> DEFINE q == x \div n
<1>2. q \in Int /\ x = n * q
  BY <1>1
<1> HIDE DEF q
<1>3. q \in Nat
  <2>1. SUFFICES ASSUME q <= -1 PROVE FALSE
    BY <1>2
  <2>2. n * q <= -n
    BY <1>2, <2>1
  <2> QED
    BY <1>2, <2>2
<1>4. x = q * n
  BY <1>2
<1> QED
  BY <1>3, <1>4 DEF Divides

(* The key of a class on the path of one class is the key of a class on    *)
(* the path of another if the product of the second divides that of the    *)
(* first.                                                                  *)
LEMMA KeysOfDivisors ==
  ASSUME KeysInv, OrderInv, phase = "done",
         NEW d \in VirtualClasses, NEW b \in VirtualClasses, Exact(d), Exact(b),
         Divides(product[b], product[d]), NEW y \in Path(b)
  PROVE  \E x \in Path(d) : keys[x] = keys[y]
<1>1. /\ program \in Programs /\ keys \in [Classes -> Nat]
      /\ \A c \in VirtualClasses : keys[c] # 0
  BY DEF KeysInv
<1>2. /\ d \in Classes /\ b \in Classes /\ y \in Classes
      /\ Path(d) \subseteq VirtualClasses /\ Path(b) \subseteq VirtualClasses
  BY DEF VirtualClasses, Exact
<1>3. \A c \in VirtualClasses : Irreducible(keys[c])
  BY DEF OrderInv, Ordered, KeysArePrime, KeyAt
<1>4. Keyed(b) /\ Keyed(y)
  BY <1>1, <1>2, PathsAreClosed DEF Keyed
<1>5. Divides(keys[y], product[d])
  <2>1. PICK i \in Nat : product[d] = i * product[b]
    BY DEF Divides
  <2>2. PICK j \in Nat : product[b] = j * product[y]
    BY <1>1, <1>2, <1>4, BasesDivide
  <2>3. PICK k \in Nat : product[y] = k * keys[y]
    <3>1. CASE BaseClass(y) = None
      <4>1. product[y] = 1 * keys[y]
        BY <1>1, <1>2, <3>1, ProductIs
      <4> QED
        BY <4>1
    <3>2. CASE BaseClass(y) # None
      <4>1. product[y] = keys[y] * product[BaseClass(y)] /\ product[BaseClass(y)] \in Nat
        BY <1>1, <1>2, <3>2, ProductIs, LevelIs
      <4>2. keys[y] \in Nat
        BY <1>1, <1>2
      <4>3. product[y] = product[BaseClass(y)] * keys[y]
        BY <4>1, <4>2
      <4> QED
        BY <4>1, <4>3
    <3> QED
      BY <3>1, <3>2
  <2>4. keys[y] \in Nat
    BY <1>1, <1>2
  <2>5. product[b] = (j * k) * keys[y]
    BY <2>2, <2>3, <2>4, Associates
  <2>6. product[d] = (i * (j * k)) * keys[y]
    BY <2>1, <2>4, <2>5, Associates
  <2>7. i * (j * k) \in Nat
    OBVIOUS
  <2> QED
    BY <2>6, <2>7 DEF Divides
<1> QED
  BY <1>1, <1>2, <1>3, <1>5, DivisorIsOnPath

LEMMA OneBefore ==
  ASSUME NEW m \in Nat, NEW n \in Nat, m + 1 = n + 1
  PROVE  m = n
  OBVIOUS

LEMMA WrongHits == KeysInv /\ OrderInv => WrongHitsNeedTwins
<1>1. SUFFICES ASSUME KeysInv, OrderInv, phase = "done",
                      NEW d \in VirtualClasses, NEW b \in VirtualClasses,
                      Exact(d), Exact(b), ~Derives(d, b), TRUE \in TestMayGive(d, b)
               PROVE  \E x \in Path(d), y \in Path(b) : Twins(x, y) \/ Twins(y, x)
  BY DEF WrongHitsNeedTwins
<1>2. /\ program \in Programs /\ keys \in [Classes -> Nat]
      /\ \A c \in VirtualClasses : keys[c] # 0 /\ cids[c] = cid[c]
  BY <1>1 DEF KeysInv, ComputeCid
<1>3. /\ d \in Classes /\ b \in Classes /\ b \in Path(b) /\ b \notin Path(d)
      /\ Path(d) \subseteq VirtualClasses /\ Path(b) \subseteq VirtualClasses
      /\ Path(b) \subseteq Classes /\ Path(d) \subseteq Classes
      /\ Keyed(d) /\ Keyed(b)
  <2>1. d \in Classes /\ b \in Classes /\ b \notin Path(d)
        /\ Path(d) \subseteq VirtualClasses /\ Path(b) \subseteq VirtualClasses
    BY <1>1 DEF VirtualClasses, Derives, Exact
  <2>2. b \in Path(b)
    BY <1>2, <2>1, PathsAreClosed
  <2>3. VirtualClasses \subseteq Classes
    BY DEF VirtualClasses
  <2> QED
    BY <1>2, <2>1, <2>2, <2>3 DEF Keyed
<1>4. Divides(product[b], product[d])
  <2>1. product[d] \in Nat \ {0} /\ product[b] \in Nat \ {0}
    BY <1>2, <1>3, BasesDivide
  <2>2. cids[d] = product[d] /\ cids[b] = product[b]
    BY <1>1, <1>2, <1>3, CidIsProduct DEF Exact
  <2>3. product[d] % product[b] = 0
    BY <1>1, <2>1, <2>2 DEF TestMayGive
  <2> QED
    BY <2>1, <2>3, NoRestDivides
<1> DEFINE apart == Path(b) \ Path(d)
<1>5. PICK y \in apart : Hierarchy[y] \notin apart
  <2>1. apart \in SUBSET Classes /\ apart # {}
    BY <1>3
  <2> HIDE DEF apart
  <2> QED
    BY <1>2, <2>1, HierarchyFacts DEF NoClassIsItsOwnAncestor
<1>6. PICK x \in Path(d) : keys[x] = keys[y]
  BY <1>1, <1>4, <1>5, KeysOfDivisors
<1>7. x \in VirtualClasses /\ y \in VirtualClasses /\ x # y /\ y \in Path(b)
  BY <1>3, <1>5
<1>8. /\ Level(x) = Level(y) /\ BaseClass(x) # None /\ BaseClass(y) # None
      /\ BaseClass(x) = BaseClass(y) => Twins(x, y) \/ Twins(y, x)
  BY <1>1, <1>6, <1>7, EqualKeys
<1>9. BaseClass(y) \in Path(d)
  <2>1. BaseClass(y) \in Path(b)
    <3>1. y \in Classes /\ BaseClass(y) \in Classes
      BY <1>2, <1>3, <1>7, <1>8, LevelIs
    <3>2. BaseClass(y) \in Path(y)
      BY <1>2, <1>8, <3>1, PathIs, PathsAreClosed DEF Path
    <3> QED
      BY <1>2, <1>3, <1>7, <3>2, PathsAreClosed
  <2>2. Hierarchy[y] = BaseClass(y)
    BY <1>2, <1>3, <1>7, HierarchyFacts
  <2> QED
    BY <1>5, <2>1, <2>2
<1>10. BaseClass(x) \in Path(d)
  <2>1. x \in Classes /\ BaseClass(x) \in Classes
    BY <1>2, <1>3, <1>8, LevelIs
  <2>2. BaseClass(x) \in Path(x)
    BY <1>2, <1>8, <2>1, PathIs, PathsAreClosed DEF Path
  <2> QED
    BY <1>2, <1>3, <2>2, PathsAreClosed
<1>11. Level(BaseClass(x)) = Level(BaseClass(y))
  <2>1. x \in Classes /\ y \in Classes
    BY <1>3, <1>7
  <2>2. /\ Level(x) = Level(BaseClass(x)) + 1 /\ Level(y) = Level(BaseClass(y)) + 1
        /\ BaseClass(x) \in Classes /\ BaseClass(y) \in Classes
    BY <1>2, <1>8, <2>1, LevelIs
  <2>3. Level(BaseClass(x)) \in Nat /\ Level(BaseClass(y)) \in Nat
    BY <1>2, <2>2, LevelIs
  <2>4. Level(BaseClass(x)) + 1 = Level(BaseClass(y)) + 1
    BY <1>8, <2>2
  <2> QED
    BY <2>3, <2>4, OneBefore
<1>12. BaseClass(x) = BaseClass(y)
  BY <1>2, <1>3, <1>9, <1>10, <1>11, OneOfEachLevel
<1> QED
  BY <1>7, <1>8, <1>12

(* "is" takes an object for one of another class only where AssignKeys     *)
(* gave one key to two children of a class: for every hierarchy and every  *)
(* order of turns, as far as identifiers have room.                        *)
THEOREM WrongHitsHaveTwins ==
  ASSUME BertrandsPostulate
  PROVE  Spec => []WrongHitsNeedTwins
<1>1. Init => KeysInv /\ OrderInv
  BY KeysInit, OrderInit
<1>2. KeysInv /\ OrderInv /\ [Next]_vars => KeysInv' /\ OrderInv'
  BY KeysStep, OrderStep
<1> QED
  BY <1>1, <1>2, WrongHits, PTL DEF Spec

-----------------------------------------------------------------------------
(* Types.                                                                  *)

(* A leaf raises priorities to priorities that were met, or to its level.  *)
LEMMA RaisedIs ==
  ASSUME program \in Programs, priority \in [Classes -> Nat],
         NEW c \in Classes, NEW leaf \in Classes
  PROVE  RaiseTo(c, leaf) \in Nat
<1> DEFINE below == {x \in Path(leaf) : c \in Path(x)}
           met == {Level(leaf)} \cup {priority[x] : x \in below \ {leaf}}
<1>1. Path(leaf) \subseteq Classes /\ IsFiniteSet(Path(leaf)) /\ Level(leaf) \in Nat
  BY PathsAreFinite, LevelIs, PathIs DEF Path
<1>2. met \in SUBSET Nat /\ met # {}
  BY <1>1
<1>3. IsFiniteSet(met)
  <2> DEFINE others == below \ {leaf}
             raised == {priority[x] : x \in others}
  <2>1. IsFiniteSet(others)
    <3>1. others \subseteq Path(leaf)
      OBVIOUS
    <3> HIDE DEF others
    <3> QED
      BY <1>1, <3>1, FS_Subset
  <2>2. IsFiniteSet(raised)
    <3> DEFINE p == [x \in others |-> priority[x]]
    <3>1. raised = {p[x] : x \in others}
      OBVIOUS
    <3>2. p \in Surjection(others, raised)
      BY <3>1 DEF Surjection
    <3> HIDE DEF others, p, raised
    <3> QED
      BY <2>1, <3>2, FS_Surjection DEF ExistsSurjection
  <2>3. met = raised \cup {Level(leaf)}
    OBVIOUS
  <2> HIDE DEF raised
  <2> QED
    BY <2>2, <2>3, FS_AddElement
<1>4. \E p \in met : \A q \in met : q <= p
  <2> HIDE DEF met
  <2> QED
    BY <1>2, <1>3, LargestNumber
<1>5. RaiseTo(c, leaf) = CHOOSE p \in met : \A q \in met : q <= p
  BY DEF RaiseTo
<1> HIDE DEF met
<1> QED
  BY <1>2, <1>4, <1>5

LEMMA CidType ==
  ASSUME program \in Programs, keys \in [Classes -> Nat]
  PROVE  \A c \in Classes : cid[c] \in Nat
<1> DEFINE bad == {c \in Classes : cid[c] \notin Nat}
<1>1. SUFFICES ASSUME bad # {} PROVE FALSE
  OBVIOUS
<1>2. PICK c \in bad : Hierarchy[c] \notin bad
  <2>1. bad \in SUBSET Classes
    OBVIOUS
  <2> HIDE DEF bad
  <2> QED
    BY <1>1, <2>1, HierarchyFacts DEF NoClassIsItsOwnAncestor
<1>3. c \in Classes /\ cid[c] \notin Nat /\ Hierarchy[c] = BaseClass(c) /\ keys[c] \in Nat
  BY <1>2, HierarchyFacts
<1>4. BaseClass(c) # None /\ cid[c] = (keys[c] * cid[BaseClass(c)]) % Modulus
  BY <1>3, CidIs
<1>5. cid[BaseClass(c)] \in Nat
  BY <1>2, <1>3, <1>4, LevelIs
<1> QED
  BY <1>3, <1>4, <1>5, Remainders

LEMMA TypeInit == Init => TypeOK
<1> SUFFICES ASSUME Init PROVE TypeOK
  OBVIOUS
<1>1. Leaves \subseteq VirtualClasses
  BY DEF Leaves
<1>2. program.cid \in [Classes -> Nat]
  BY ClassKeysAssumption DEF Init
<1> QED
  BY <1>1, <1>2 DEF Init, TypeOK

LEMMA TypeStep ==
  ASSUME BertrandsPostulate, OrderInv, TypeOK, [Next]_vars
  PROVE  TypeOK'
<1> USE DEF TypeOK
<1>0. ASSUME UNCHANGED program
      PROVE  /\ VirtualClasses' = VirtualClasses
             /\ \A c : IsVirtual(c)' = IsVirtual(c)
  <2>1. path' = path
    BY <1>0, SameHierarchy
  <2> QED
    BY <1>0, <2>1, SameHierarchy DEF IsVirtual, Path
<1>1. ASSUME NEW c \in Classes, AssignPriority(c)
      PROVE  TypeOK'
  <2>1. priority' \in [Classes -> Nat]
    BY <1>1, RaisedIs DEF AssignPriority
  <2> QED
    BY <1>0, <1>1, <2>1 DEF AssignPriority, locals
<1>2. ASSUME NEW c \in Classes, AssignKey(c)
      PROVE  TypeOK'
  <2>1. /\ c \in VirtualClasses /\ phase' = phase /\ UNCHANGED <<program, priority, cids>>
        /\ waiting' = waiting \ {c} /\ numbered' = Append(numbered, c)
    BY <1>2 DEF AssignKey, First
  <2>2. PICK k \in Nat : NewKey(c, k)
    BY <1>2, KeyOfTurn
  <2>3. keys' \in [Classes -> Nat] /\ key' \in Nat /\ minLevelKey' \in Nat /\ maxLevelKey' \in Nat
    BY <2>2 DEF NewKey
  <2>4. \A d \in Classes : keys'[d] # 0 => IsVirtual(d)
    <3>1. IsVirtual(c)
      BY <2>1 DEF VirtualClasses
    <3> QED
      BY <2>2, <3>1 DEF NewKey
  <2>5. bases' \subseteq Classes /\ predLevel' \in Int
    <3>1. Level(c) \in Nat /\ (BaseClass(c) = None => Level(c) = 0)
          /\ (BaseClass(c) # None => BaseClass(c) \in Classes)
      BY LevelIs
    <3> QED
      BY <2>2, <3>1 DEF NewKey, RootTurn, FirstTurn, NextTurn
  <2>6. numbered' \in Seq(VirtualClasses) /\ waiting' \subseteq VirtualClasses
    BY <2>1
  <2> QED
    BY <1>0, <2>1, <2>3, <2>4, <2>5, <2>6
<1>3. CASE Sort
  BY <1>0, <1>3 DEF Sort, locals
<1>4. CASE AssignCids
  <2>1. cids' \in [Classes -> Nat]
    <3>1. program.cid \in [Classes -> Nat]
      BY ClassKeysAssumption
    <3> QED
      BY <1>4, <3>1, CidType DEF AssignCids, ComputeCid
  <2> QED
    BY <1>0, <1>4, <2>1 DEF AssignCids, locals
<1>5. CASE UNCHANGED vars
  BY <1>0, <1>5 DEF vars, locals
<1> QED
  BY <1>1, <1>2, <1>3, <1>4, <1>5 DEF Next

(* Whatever the sort leaves open, the numbering keeps its types: only      *)
(* virtual classes wait for keys and get them.                             *)
THEOREM TypeCorrect ==
  ASSUME BertrandsPostulate
  PROVE  Spec => []TypeOK
<1>1. Init => TypeOK /\ OrderInv
  BY TypeInit, OrderInit
<1>2. TypeOK /\ OrderInv /\ [Next]_vars => TypeOK' /\ OrderInv'
  BY TypeStep, OrderStep
<1> QED
  BY <1>1, <1>2, PTL DEF Spec
============================================================================
