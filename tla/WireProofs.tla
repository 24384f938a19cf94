----------------------------- MODULE WireProofs -----------------------------
(***************************************************************************)
(* The wire format for every size of a byte, every width of the numbers    *)
(* and every set of messages: decoders undo encoders, a frame that was cut *)
(* is noticed, and a changed byte changes one field.                       *)
(***************************************************************************)
EXTENDS Wire, SequenceTheorems, WellFoundedInduction, TLAPS

-----------------------------------------------------------------------------
(* Induction over the numbers, with a set of numbers for the predicate.    *)

\* A set of numbers that is not empty has a least member.
LEMMA Least ==
    ASSUME NEW T, T \subseteq Nat, T # {}
    PROVE  \E n \in T : \A k \in T : n <= k
<1>1. PICK R : R = OpToRel(<, Nat)
  OBVIOUS
<1>2. IsWellFoundedOn(R, Nat)
  BY <1>1, NatLessThanWellFounded
<1>3. PICK n \in T : \A k \in T : ~ (<<k, n>> \in R)
  BY <1>2, WFMin
<1>4. \A x, y \in Nat : x < y => <<x, y>> \in R
  BY <1>1 DEF OpToRel
<1>5. \A k \in T : ~ (k < n)
  BY <1>3, <1>4
<1> QED
  BY <1>5

\* A set of numbers that has zero and with each number the next has them all.
LEMMA Induction ==
    ASSUME NEW T, T \subseteq Nat, 0 \in T, \A n \in T : n + 1 \in T
    PROVE  \A n \in Nat : n \in T
<1> SUFFICES ASSUME Nat \ T # {} PROVE FALSE
  OBVIOUS
<1>1. PICK n \in Nat \ T : \A k \in Nat \ T : n <= k
  <2>1. PICK C : C = Nat \ T
    OBVIOUS
  <2>2. \E n \in C : \A k \in C : n <= k
    BY <2>1, Least
  <2> QED
    BY <2>1, <2>2
<1>2. n # 0 /\ n - 1 \in Nat
  BY <1>1
<1>3. n - 1 \in T
  BY <1>1, <1>2
<1> QED
  BY <1>1, <1>2, <1>3

\* The values of a recursive definition up to n.
Begins(S, z, h, n) ==
    {g \in [0 .. n -> S] : g[0] = z /\ \A i \in 0 .. n - 1 : g[i + 1] = h[i][g[i]]}

\* Two beginnings of the same recursion agree as far as both go.
LEMMA BeginsAgree ==
    ASSUME NEW S, NEW z, NEW h
    PROVE  \A k, m, n \in Nat : k <= m /\ k <= n =>
              \A f \in Begins(S, z, h, m), g \in Begins(S, z, h, n) : f[k] = g[k]
<1> DEFINE Agree(k) == \A m, n \in Nat : k <= m /\ k <= n =>
              \A f \in Begins(S, z, h, m), g \in Begins(S, z, h, n) : f[k] = g[k]
           T == {k \in Nat : Agree(k)}
<1>1. 0 \in T
  BY DEF Begins
<1>2. ASSUME NEW k \in T PROVE k + 1 \in T
  <2>1. k \in Nat /\ Agree(k)
    OBVIOUS
  <2> SUFFICES ASSUME NEW m \in Nat, NEW n \in Nat, k + 1 <= m, k + 1 <= n,
                      NEW f \in Begins(S, z, h, m), NEW g \in Begins(S, z, h, n)
               PROVE  f[k + 1] = g[k + 1]
    BY <2>1
  <2>2. f[k] = g[k]
    BY <2>1
  <2>3. k \in 0 .. m - 1 /\ k \in 0 .. n - 1
    BY <2>1
  <2> QED
    BY <2>2, <2>3 DEF Begins
<1> HIDE DEF Agree
<1>3. \A k \in Nat : k \in T
  <2>1. T \subseteq Nat
    OBVIOUS
  <2> HIDE DEF T
  <2> QED
    BY <1>1, <1>2, <2>1, Induction
<1> QED
  BY <1>3 DEF Agree

StepsIn(S, h) == \A n \in Nat, x \in S : h[n][x] \in S

IsRecursive(f, S, z, h) ==
    f \in [Nat -> S] /\ f[0] = z /\ \A n \in Nat : f[n + 1] = h[n][f[n]]

\* There is a function that begins with z and goes on with h.
LEMMA Recursion ==
    ASSUME NEW S, NEW z, NEW h, z \in S, StepsIn(S, h)
    PROVE  \E f : IsRecursive(f, S, z, h)
<1> DEFINE B(n) == Begins(S, z, h, n)
           T == {n \in Nat : B(n) # {}}
<1>1. 0 \in T
  <2>1. [i \in 0 .. 0 |-> z] \in B(0)
    BY DEF Begins
  <2> QED
    BY <2>1
<1>2. ASSUME NEW n \in T PROVE n + 1 \in T
  <2>1. n \in Nat
    OBVIOUS
  <2>2. PICK g \in [0 .. n -> S] : g[0] = z /\ \A i \in 0 .. n - 1 : g[i + 1] = h[i][g[i]]
    BY DEF Begins
  <2>3. PICK e : e = [i \in 0 .. n + 1 |-> IF i = n + 1 THEN h[n][g[n]] ELSE g[i]]
    OBVIOUS
  <2>4. g[n] \in S /\ h[n][g[n]] \in S
    BY <2>1, <2>2 DEF StepsIn
  <2>5. e \in [0 .. n + 1 -> S] /\ e[0] = z
    BY <2>1, <2>2, <2>3, <2>4
  <2>6. ASSUME NEW i \in 0 .. n PROVE e[i + 1] = h[i][e[i]]
    <3>1. CASE i = n
      BY <2>1, <2>3, <3>1
    <3>2. CASE i # n
      <4>1. i \in 0 .. n - 1 /\ i + 1 \in 0 .. n /\ i + 1 # n + 1 /\ i # n + 1
        BY <2>1, <3>2
      <4>2. e[i + 1] = g[i + 1] /\ e[i] = g[i]
        BY <2>1, <2>3, <4>1
      <4> QED
        BY <2>2, <4>1, <4>2
    <3> QED
      BY <3>1, <3>2
  <2>7. e \in B(n + 1)
    <3>1. (n + 1) - 1 = n
      BY <2>1
    <3> QED
      BY <2>5, <2>6, <3>1 DEF Begins
  <2> QED
    BY <2>1, <2>7
<1>3. \A n \in Nat : B(n) # {}
  <2>1. T \subseteq Nat
    OBVIOUS
  <2>2. \A n \in Nat : n \in T
    <3> HIDE DEF T
    <3> QED
      BY <1>1, <1>2, <2>1, Induction
  <2> QED
    BY <2>2
<1>4. PICK b : b = [n \in Nat |-> CHOOSE g : g \in B(n)]
  OBVIOUS
<1>5. \A n \in Nat : b[n] \in B(n)
  BY <1>3, <1>4
<1>6. PICK f : f = [n \in Nat |-> b[n][n]]
  OBVIOUS
<1>7. ASSUME NEW n \in Nat PROVE f[n] \in S /\ f[n + 1] = h[n][f[n]]
  <2>1. b[n] \in B(n) /\ b[n + 1] \in B(n + 1)
    BY <1>5
  <2>2. b[n] \in [0 .. n -> S] /\ n \in 0 .. n /\ n \in 0 .. (n + 1) - 1 /\ n + 1 \in Nat
    BY <2>1 DEF Begins
  <2>3. b[n + 1][n + 1] = h[n][b[n + 1][n]]
    BY <2>1, <2>2 DEF Begins
  <2>4. b[n + 1][n] = b[n][n]
    BY <2>1, <2>2, BeginsAgree
  <2> QED
    BY <1>6, <2>2, <2>3, <2>4
<1>8. f[0] = z
  <2>1. b[0] \in B(0)
    BY <1>5
  <2> QED
    BY <1>6, <2>1 DEF Begins
<1> QED
  BY <1>6, <1>7, <1>8 DEF IsRecursive
-----------------------------------------------------------------------------
(* Numbers on the wire.                                                    *)

\* What the proofs use of the assumption on the constants.
LEMMA Widths ==
    /\ Base \in Nat /\ Base > 7
    /\ Width32 \in Nat /\ Width32 > 0 /\ Width64 \in Nat /\ Width64 > 0
    /\ kHeaderSize \in Nat /\ kHeaderSize = Width32 + 2
BY WireAssumption DEF kHeaderSize

\* The powers of the base.
LEMMA Powers ==
    /\ Power \in [Nat -> Nat]
    /\ Power[0] = 1
    /\ \A n \in Nat : Power[n + 1] = Base * Power[n] /\ Power[n] > 0
<1> DEFINE D(f) == [n \in Nat |-> IF n = 0 THEN 1 ELSE Base * f[n - 1]]
<1>1. \E f \in [Nat -> Nat] : f = D(f)
  <2>1. PICK h : h = [n \in Nat |-> [x \in Nat |-> Base * x]]
    OBVIOUS
  <2>2. \A n \in Nat, x \in Nat : h[n][x] = Base * x /\ h[n][x] \in Nat
    BY <2>1, Widths
  <2>3. PICK f \in [Nat -> Nat] : f[0] = 1 /\ \A n \in Nat : f[n + 1] = h[n][f[n]]
    <3>1. StepsIn(Nat, h)
      BY <2>2 DEF StepsIn
    <3>2. \E f : IsRecursive(f, Nat, 1, h)
      BY <3>1, Recursion
    <3> QED
      BY <3>2 DEF IsRecursive
  <2>4. \A n \in Nat : f[n] = IF n = 0 THEN 1 ELSE Base * f[n - 1]
    <3> SUFFICES ASSUME NEW n \in Nat, n # 0 PROVE f[n] = Base * f[n - 1]
      BY <2>3
    <3>1. n - 1 \in Nat /\ (n - 1) + 1 = n
      OBVIOUS
    <3>2. f[(n - 1) + 1] = h[n - 1][f[n - 1]]
      BY <2>3, <3>1
    <3> QED
      BY <2>2, <3>1, <3>2
  <2>5. f = D(f)
    BY <2>4
  <2> QED
    BY <2>5
<1>2. Power = D(Power)
  BY <1>1 DEF Power
<1>3. Power[0] = 1 /\ \A n \in Nat : Power[n + 1] = Base * Power[n]
  <2>1. ASSUME NEW n \in Nat PROVE Power[n + 1] = Base * Power[n]
    <3>1. n + 1 \in Nat /\ n + 1 # 0 /\ (n + 1) - 1 = n
      OBVIOUS
    <3> QED
      BY <1>2, <3>1
  <2> QED
    BY <1>2, <2>1
<1>4. \A n \in Nat : Power[n] \in Nat /\ Power[n] > 0
  <2> DEFINE T == {n \in Nat : Power[n] \in Nat /\ Power[n] > 0}
  <2>1. 0 \in T
    BY <1>3
  <2>2. ASSUME NEW n \in T PROVE n + 1 \in T
    <3>1. n \in Nat /\ Power[n] \in Nat /\ Power[n] > 0
      OBVIOUS
    <3>2. Base * Power[n] \in Nat /\ Base * Power[n] > 0
      BY <3>1, Widths
    <3> QED
      BY <1>3, <3>1, <3>2
  <2>3. T \subseteq Nat
    OBVIOUS
  <2>4. \A n \in Nat : n \in T
    <3> HIDE DEF T
    <3> QED
      BY <2>1, <2>2, <2>3, Induction
  <2> QED
    BY <2>4
<1> QED
  BY <1>2, <1>3, <1>4

\* A number is quotient times divisor plus rest, and in no other way.
LEMMA Division ==
    ASSUME NEW v \in Nat, NEW p \in Nat, p > 0
    PROVE  /\ v \div p \in Nat /\ v % p \in 0 .. p - 1
           /\ v = (v \div p) * p + (v % p)
           /\ \A q \in Nat, r \in 0 .. p - 1 : v = q * p + r => q = v \div p
<1>1. v \div p \in Nat /\ v % p \in 0 .. p - 1 /\ v = (v \div p) * p + (v % p)
  OBVIOUS
<1>2. ASSUME NEW q \in Nat, NEW r \in 0 .. p - 1, v = q * p + r PROVE q = v \div p
  <2>1. PICK a \in Nat, s \in 0 .. p - 1 : a = v \div p /\ v = a * p + s
    BY <1>1
  <2>2. PICK d \in Int : d = q - a
    OBVIOUS
  <2>3. d * p = s - r
    <3>1. d * p = q * p - a * p
      BY <2>2
    <3> QED
      BY <1>2, <2>1, <3>1
  <2>4. CASE d >= 1
    <3>1. d * p >= p
      BY <2>4
    <3> QED
      BY <2>3, <3>1
  <2>5. CASE d <= -1
    <3>1. d * p <= -p
      BY <2>5
    <3> QED
      BY <2>3, <3>1
  <2>6. d = 0 \/ d >= 1 \/ d <= -1
    OBVIOUS
  <2> QED
    BY <2>1, <2>2, <2>4, <2>5, <2>6
<1> QED
  BY <1>1, <1>2

\* A shift by one byte more.
LEMMA DivideAgain ==
    ASSUME NEW v \in Nat, NEW p \in Nat, p > 0
    PROVE  LET q == v \div p IN q = (v \div (Base * p)) * Base + (q % Base)
<1> DEFINE q == v \div p
           a == q \div Base
           s == q % Base
           r == v % p
<1>1. Base * p \in Nat /\ Base * p > 0
  BY Widths
<1>2. q \in Nat /\ r \in 0 .. p - 1 /\ v = q * p + r
  BY Division
<1>3. a \in Nat /\ s \in 0 .. Base - 1 /\ q = a * Base + s
  BY <1>2, Widths, Division
<1> HIDE DEF q, a, s, r
<1>4. v = a * (Base * p) + (s * p + r)
  <2>1. q * p = (a * Base + s) * p
    BY <1>3
  <2>2. (a * Base + s) * p = a * (Base * p) + s * p
    BY <1>3, Widths
  <2>3. s * p \in Nat /\ a * (Base * p) \in Nat
    BY <1>3, <1>1
  <2> QED
    BY <1>2, <2>1, <2>2, <2>3
<1>5. s * p + r \in 0 .. Base * p - 1
  <2>1. s * p \in Nat /\ s * p <= (Base - 1) * p
    BY <1>3, Widths
  <2>2. (Base - 1) * p = Base * p - p
    BY Widths
  <2> QED
    BY <1>1, <1>2, <2>1, <2>2
<1>6. a = v \div (Base * p)
  BY <1>1, <1>3, <1>4, <1>5, Division
<1> QED
  BY <1>3, <1>6 DEF q, s

\* What is put on the wire: so many bytes.
LEMMA PutUintType ==
    ASSUME NEW w \in Nat, NEW v \in Nat
    PROVE  /\ PutUint(w, v) \in Seq(Bytes) /\ Len(PutUint(w, v)) = w
           /\ \A i \in 1 .. w : PutUint(w, v)[i] = (v \div Power[i - 1]) % Base
<1>1. \A i \in 1 .. w : (v \div Power[i - 1]) % Base \in Bytes
  <2> SUFFICES ASSUME NEW i \in 1 .. w PROVE (v \div Power[i - 1]) % Base \in Bytes
    OBVIOUS
  <2>1. i - 1 \in Nat
    OBVIOUS
  <2>2. Power[i - 1] \in Nat /\ Power[i - 1] > 0
    BY <2>1, Powers
  <2>3. v \div Power[i - 1] \in Nat
    BY <2>2, Division
  <2> QED
    BY <2>3, Widths, Division DEF Bytes
<1> QED
  BY <1>1 DEF PutUint

\* How a number is read, byte by byte.
LEMMA GetUintSteps ==
    ASSUME NEW w \in Nat, NEW buf \in Seq(Bytes), NEW at \in Nat, at + w <= Len(buf)
    PROVE  \E f \in [0 .. w -> Nat] :
              /\ f[0] = 0
              /\ \A i \in 0 .. w - 1 : f[i + 1] = f[i] + buf[at + (i + 1)] * Power[i]
              /\ GetUint(w, buf, at) = f[w]
<1> DEFINE D(f) == [i \in 0 .. w |->
                       IF i = 0 THEN 0 ELSE f[i - 1] + buf[at + i] * Power[i - 1]]
<1>1. \A i \in 1 .. w : buf[at + i] \in Nat
  <2> SUFFICES ASSUME NEW i \in 1 .. w PROVE buf[at + i] \in Nat
    OBVIOUS
  <2>1. at + i \in 1 .. Len(buf)
    OBVIOUS
  <2> QED
    BY <2>1, Widths DEF Bytes
<1>2. \E f \in [0 .. w -> Nat] : f = D(f)
  <2>1. PICK h : h = [n \in Nat |-> [x \in Nat |->
                        IF n < w THEN x + buf[at + (n + 1)] * Power[n] ELSE x]]
    OBVIOUS
  <2>2. ASSUME NEW n \in Nat, NEW x \in Nat
        PROVE  /\ h[n][x] \in Nat
               /\ n < w => h[n][x] = x + buf[at + (n + 1)] * Power[n]
    <3>1. CASE n < w
      <4>1. buf[at + (n + 1)] \in Nat /\ Power[n] \in Nat
        <5>1. n + 1 \in 1 .. w
          BY <3>1
        <5>2. buf[at + (n + 1)] \in Nat
          BY <1>1, <5>1
        <5> QED
          BY <5>2, Powers
      <4>2. buf[at + (n + 1)] * Power[n] \in Nat
        BY <4>1
      <4> QED
        BY <2>1, <3>1, <4>2
    <3>2. CASE ~(n < w)
      BY <2>1, <3>2
    <3> QED
      BY <3>1, <3>2
  <2>3. PICK f \in [Nat -> Nat] : f[0] = 0 /\ \A n \in Nat : f[n + 1] = h[n][f[n]]
    <3>1. StepsIn(Nat, h)
      BY <2>2 DEF StepsIn
    <3>2. \E f : IsRecursive(f, Nat, 0, h)
      BY <3>1, Recursion
    <3> QED
      BY <3>2 DEF IsRecursive
  <2>4. PICK g : g = [i \in 0 .. w |-> f[i]]
    OBVIOUS
  <2>5. \A i \in 0 .. w : g[i] = IF i = 0 THEN 0 ELSE g[i - 1] + buf[at + i] * Power[i - 1]
    <3> SUFFICES ASSUME NEW i \in 0 .. w, i # 0
                 PROVE  g[i] = g[i - 1] + buf[at + i] * Power[i - 1]
      BY <2>3, <2>4
    <3>1. i - 1 \in Nat /\ (i - 1) + 1 = i /\ i - 1 < w /\ i - 1 \in 0 .. w
      OBVIOUS
    <3>2. f[(i - 1) + 1] = h[i - 1][f[i - 1]]
      BY <2>3, <3>1
    <3>3. h[i - 1][f[i - 1]] = f[i - 1] + buf[at + ((i - 1) + 1)] * Power[i - 1]
      BY <2>2, <2>3, <3>1
    <3> QED
      BY <2>4, <3>1, <3>2, <3>3
  <2>6. g = D(g)
    BY <2>4, <2>5
  <2>7. g \in [0 .. w -> Nat]
    BY <2>4
  <2> QED
    BY <2>6, <2>7
<1>3. PICK f : f = CHOOSE g : g = D(g)
  OBVIOUS
<1>4. f = D(f)
  BY <1>2, <1>3
<1>5. GetUint(w, buf, at) = f[w]
  BY <1>3 DEF GetUint
<1>6. f[0] = 0 /\ \A i \in 0 .. w - 1 : f[i + 1] = f[i] + buf[at + (i + 1)] * Power[i]
  <2>1. ASSUME NEW i \in 0 .. w - 1 PROVE f[i + 1] = f[i] + buf[at + (i + 1)] * Power[i]
    <3>1. i + 1 \in 0 .. w /\ i + 1 # 0 /\ (i + 1) - 1 = i
      OBVIOUS
    <3> QED
      BY <1>4, <3>1
  <2> QED
    BY <1>4, <2>1
<1>7. \A i \in 0 .. w : f[i] \in Nat
  <2> DEFINE T == {i \in Nat : i <= w => f[i] \in Nat}
  <2>1. 0 \in T
    BY <1>6
  <2>2. ASSUME NEW i \in T PROVE i + 1 \in T
    <3> SUFFICES ASSUME i + 1 <= w PROVE f[i + 1] \in Nat
      OBVIOUS
    <3>1. i \in 0 .. w - 1 /\ i + 1 \in 1 .. w /\ i \in Nat /\ f[i] \in Nat
      OBVIOUS
    <3>2. f[i + 1] = f[i] + buf[at + (i + 1)] * Power[i]
      BY <1>6, <3>1
    <3>3. buf[at + (i + 1)] \in Nat /\ Power[i] \in Nat
      BY <1>1, <3>1, Powers
    <3>4. buf[at + (i + 1)] * Power[i] \in Nat
      BY <3>3
    <3> QED
      BY <3>1, <3>2, <3>4
  <2>3. T \subseteq Nat
    OBVIOUS
  <2>4. \A n \in Nat : n \in T
    <3> HIDE DEF T
    <3> QED
      BY <2>1, <2>2, <2>3, Induction
  <2> QED
    BY <2>4
<1>8. f \in [0 .. w -> Nat]
  BY <1>4, <1>7
<1> QED
  BY <1>5, <1>6, <1>8

\* What is read is a number.
LEMMA GetUintType ==
    ASSUME NEW w \in Nat, NEW buf \in Seq(Bytes), NEW at \in Nat, at + w <= Len(buf)
    PROVE  GetUint(w, buf, at) \in Nat
<1>1. w \in 0 .. w
  OBVIOUS
<1> QED
  BY <1>1, GetUintSteps

\* Reading undoes writing, for every number that the width can hold.
THEOREM GetUndoesPut ==
    ASSUME NEW w \in Nat, NEW v \in 0 .. Power[w] - 1,
           NEW buf \in Seq(Bytes), NEW at \in Nat, at + w <= Len(buf),
           \A i \in 1 .. w : buf[at + i] = PutUint(w, v)[i]
    PROVE  GetUint(w, buf, at) = v
<1>1. PICK f \in [0 .. w -> Nat] :
         /\ f[0] = 0
         /\ \A i \in 0 .. w - 1 : f[i + 1] = f[i] + buf[at + (i + 1)] * Power[i]
         /\ GetUint(w, buf, at) = f[w]
  BY GetUintSteps
<1>2. v \in Nat /\ Power[w] \in Nat /\ v < Power[w]
  BY Powers
<1> DEFINE T == {i \in Nat : i <= w => f[i] + (v \div Power[i]) * Power[i] = v}
<1>3. 0 \in T
  <2>1. v \div 1 = v
    BY <1>2
  <2> QED
    BY <1>1, <1>2, <2>1, Powers
<1>4. ASSUME NEW i \in T PROVE i + 1 \in T
  <2> SUFFICES ASSUME i + 1 <= w
               PROVE  f[i + 1] + (v \div Power[i + 1]) * Power[i + 1] = v
    OBVIOUS
  <2> DEFINE p == Power[i]
             q == v \div p
             a == v \div (Base * p)
             s == q % Base
  <2>1. i \in 0 .. w - 1 /\ i + 1 \in 1 .. w /\ (i + 1) - 1 = i /\ i \in Nat
        /\ f[i] + (v \div Power[i]) * Power[i] = v
    OBVIOUS
  <2>2. p \in Nat /\ p > 0 /\ Power[i + 1] = Base * p
    BY <2>1, Powers
  <2>3. buf[at + (i + 1)] = s
    BY <1>2, <2>1, PutUintType
  <2>4. f[i + 1] = f[i] + s * p
    BY <1>1, <2>1, <2>3
  <2>5. q = a * Base + s
    <3> HIDE DEF p
    <3> QED
      BY <1>2, <2>2, DivideAgain
  <2>6. q \in Nat /\ s \in Nat /\ a \in Nat /\ f[i] \in Nat
    <3>1. q \in Nat
      BY <1>2, <2>2, Division
    <3>2. s \in Nat
      BY <3>1, Widths, Division
    <3>3. Base * p \in Nat /\ Base * p > 0
      <4> HIDE DEF p
      <4> QED
        BY <2>2, Widths
    <3>4. a \in Nat
      BY <1>2, <3>3, Division
    <3> QED
      BY <1>1, <2>1, <3>1, <3>2, <3>4
  <2>7. f[i] + q * p = v
    BY <2>1
  <2> HIDE DEF p, q, a, s
  <2>8. q * p = s * p + a * (Base * p)
    BY <2>2, <2>5, <2>6, Widths
  <2>9. f[i] + s * p + a * (Base * p) = v
    <3>1. s * p \in Nat /\ a * (Base * p) \in Nat
      BY <2>2, <2>6, Widths
    <3> QED
      BY <2>6, <2>7, <2>8, <3>1
  <2>10. a = v \div Power[i + 1]
    BY <2>2 DEF a
  <2> QED
    BY <2>2, <2>4, <2>9, <2>10
<1>5. w \in T
  <2>1. T \subseteq Nat
    OBVIOUS
  <2> HIDE DEF T
  <2> QED
    BY <1>3, <1>4, <2>1, Induction
<1>6. v \div Power[w] = 0
  <2>1. v = 0 * Power[w] + v /\ v \in 0 .. Power[w] - 1
    BY <1>2
  <2>2. Power[w] > 0 /\ 0 \in Nat
    BY Powers
  <2>3. \A q \in Nat, r \in 0 .. Power[w] - 1 : v = q * Power[w] + r => q = v \div Power[w]
    BY <1>2, <2>2, Division
  <2>4. v = 0 * Power[w] + v => 0 = v \div Power[w]
    BY <2>1, <2>2, <2>3
  <2> QED
    BY <2>1, <2>4
<1>7. f[w] \in Nat
  BY <1>1
<1> QED
  BY <1>1, <1>2, <1>5, <1>6, <1>7
-----------------------------------------------------------------------------
(* Where the fields of a message are in its payload.                       *)

Kinds == {"bytes", "u32", "u64"}

Values == Nat \cup Seq(Bytes)

NumberOfFields(m) == Len(Decoder(m.type))

Field(m, i) == CASE Decoder(m.type)[i] = "bytes" -> PutBytes(m.fields[i])
                 [] Decoder(m.type)[i] = "u32"   -> PutUint(Width32, m.fields[i])
                 [] Decoder(m.type)[i] = "u64"   -> PutUint(Width64, m.fields[i])

\* The first n fields, and where they end.
Written(m, n) == CASE n = 0 -> <<>>
                   [] n = 1 -> Field(m, 1)
                   [] n = 2 -> Field(m, 1) \o Field(m, 2)
                   [] n = 3 -> Field(m, 1) \o Field(m, 2) \o Field(m, 3)
                   [] n = 4 -> Field(m, 1) \o Field(m, 2) \o Field(m, 3) \o Field(m, 4)

Start(m, n) == Len(Written(m, n))

\* Tuples as sequences.
LEMMA Pairs ==
    ASSUME NEW S, NEW a \in S, NEW b \in S
    PROVE  <<a, b>> \in Seq(S) /\ Len(<<a, b>>) = 2
OBVIOUS

\* Four fields as a sequence.
LEMMA Quadruples ==
    ASSUME NEW S, NEW a \in S, NEW b \in S, NEW c \in S, NEW d \in S
    PROVE  <<a, b, c, d>> \in Seq(S) /\ Len(<<a, b, c, d>>) = 4
OBVIOUS

\* The numbers of the payloads are natural numbers.
LEMMA NumberTypes == U32 \subseteq Nat /\ U64 \subseteq Nat
BY Powers, Widths DEF U32, U64

\* The fields of a message have the types its decoder reads.
LEMMA FieldTypes ==
    ASSUME NEW m \in Messages
    PROVE  /\ m.type \in {"hello", "offer", "chunk"}
           /\ NumberOfFields(m) \in 2 .. 4
           /\ m.fields \in Seq(Values) /\ Len(m.fields) = NumberOfFields(m)
           /\ \A i \in 1 .. NumberOfFields(m) :
                 /\ Decoder(m.type)[i] \in Kinds
                 /\ Decoder(m.type)[i] = "bytes" => m.fields[i] \in Seq(Bytes)
                 /\ Decoder(m.type)[i] = "u32" => m.fields[i] \in U32
                 /\ Decoder(m.type)[i] = "u64" => m.fields[i] \in U64
<1>1. m.type \in {"hello", "offer", "chunk"} /\ m.fields \in Payload(m.type)
  BY WireAssumption
<1>2. U32 \subseteq Nat /\ U64 \subseteq Nat
  BY NumberTypes
<1> DEFINE p == m.fields
<1>3. CASE m.type = "hello"
  <2>1. p \in Seq(Bytes) \X Seq(Bytes)
    BY <1>1, <1>3 DEF Payload, HelloPayload, Block
  <2>2. p = <<p[1], p[2]>> /\ p[1] \in Seq(Bytes) /\ p[2] \in Seq(Bytes)
    BY <2>1
  <2>3. p[1] \in Values /\ p[2] \in Values
    BY <2>2 DEF Values
  <2>4. p \in Seq(Values) /\ Len(p) = 2
    <3>1. <<p[1], p[2]>> \in Seq(Values) /\ Len(<<p[1], p[2]>>) = 2
      BY <2>3, Pairs
    <3> HIDE DEF p
    <3> QED
      BY <2>2, <3>1
  <2>5. Decoder(m.type) = <<"bytes", "bytes">>
    BY <1>3 DEF Decoder, DecodeHello
  <2> QED
    BY <1>1, <2>2, <2>4, <2>5 DEF NumberOfFields, Kinds
<1>4. CASE m.type = "offer"
  <2>1. p \in Seq(Bytes) \X U64 \X Seq(Bytes) \X U32
    BY <1>1, <1>4 DEF Payload, FileOfferPayload, Block
  <2>2. p = <<p[1], p[2], p[3], p[4]>> /\ p[1] \in Seq(Bytes) /\ p[2] \in U64
        /\ p[3] \in Seq(Bytes) /\ p[4] \in U32
    BY <2>1
  <2>3. p[1] \in Values /\ p[2] \in Values /\ p[3] \in Values /\ p[4] \in Values
    BY <1>2, <2>2 DEF Values
  <2>4. p \in Seq(Values) /\ Len(p) = 4
    <3>1. /\ <<p[1], p[2], p[3], p[4]>> \in Seq(Values)
          /\ Len(<<p[1], p[2], p[3], p[4]>>) = 4
      BY <2>3, Quadruples
    <3> HIDE DEF p
    <3> QED
      BY <2>2, <3>1
  <2>5. Decoder(m.type) = <<"bytes", "u64", "bytes", "u32">>
    BY <1>4 DEF Decoder, DecodeFileOffer
  <2> QED
    BY <1>1, <2>2, <2>4, <2>5 DEF NumberOfFields, Kinds
<1>5. CASE m.type = "chunk"
  <2>1. p \in U32 \X Seq(Bytes) \X Seq(Bytes) \X Seq(Bytes)
    BY <1>1, <1>5 DEF Payload, ChunkPayload, Block
  <2>2. p = <<p[1], p[2], p[3], p[4]>> /\ p[1] \in U32 /\ p[2] \in Seq(Bytes)
        /\ p[3] \in Seq(Bytes) /\ p[4] \in Seq(Bytes)
    BY <2>1
  <2>3. p[1] \in Values /\ p[2] \in Values /\ p[3] \in Values /\ p[4] \in Values
    BY <1>2, <2>2 DEF Values
  <2>4. p \in Seq(Values) /\ Len(p) = 4
    <3>1. /\ <<p[1], p[2], p[3], p[4]>> \in Seq(Values)
          /\ Len(<<p[1], p[2], p[3], p[4]>>) = 4
      BY <2>3, Quadruples
    <3> HIDE DEF p
    <3> QED
      BY <2>2, <3>1
  <2>5. Decoder(m.type) = <<"u32", "bytes", "bytes", "bytes">>
    BY <1>5 DEF Decoder, DecodeChunk
  <2> QED
    BY <1>1, <2>2, <2>4, <2>5 DEF NumberOfFields, Kinds
<1> QED
  BY <1>1, <1>3, <1>4, <1>5

\* A block is a length and the bytes.
LEMMA PutBytesType ==
    ASSUME NEW data \in Seq(Bytes)
    PROVE  /\ PutBytes(data) \in Seq(Bytes) /\ Len(PutBytes(data)) = Width32 + Len(data)
           /\ \A i \in 1 .. Width32 : PutBytes(data)[i] = PutUint(Width32, Len(data))[i]
           /\ \A i \in 1 .. Len(data) : PutBytes(data)[Width32 + i] = data[i]
<1>1. PutUint(Width32, Len(data)) \in Seq(Bytes) /\ Len(PutUint(Width32, Len(data))) = Width32
  <2>1. Len(data) \in Nat /\ Width32 \in Nat
    BY Widths
  <2> QED
    BY <2>1, PutUintType
<1> QED
  BY <1>1, Widths DEF PutBytes

\* What is written for a field, by its type.
LEMMA FieldType ==
    ASSUME NEW m \in Messages, NEW i \in 1 .. NumberOfFields(m)
    PROVE  /\ Field(m, i) \in Seq(Bytes)
           /\ Decoder(m.type)[i] = "bytes" =>
                 m.fields[i] \in Seq(Bytes) /\ Field(m, i) = PutBytes(m.fields[i])
           /\ Decoder(m.type)[i] = "u32" =>
                 m.fields[i] \in U32 /\ Field(m, i) = PutUint(Width32, m.fields[i])
           /\ Decoder(m.type)[i] = "u64" =>
                 m.fields[i] \in U64 /\ Field(m, i) = PutUint(Width64, m.fields[i])
<1>1. CASE Decoder(m.type)[i] = "bytes"
  BY <1>1, FieldTypes, PutBytesType DEF Field
<1>2. CASE Decoder(m.type)[i] = "u32"
  <2>1. m.fields[i] \in U32 /\ m.fields[i] \in Nat
    BY <1>2, FieldTypes, NumberTypes
  <2> QED
    BY <1>2, <2>1, PutUintType, Widths DEF Field
<1>3. CASE Decoder(m.type)[i] = "u64"
  <2>1. m.fields[i] \in U64 /\ m.fields[i] \in Nat
    BY <1>3, FieldTypes, NumberTypes
  <2> QED
    BY <1>3, <2>1, PutUintType, Widths DEF Field
<1> QED
  BY <1>1, <1>2, <1>3, FieldTypes DEF Kinds

\* The fields follow one another.
LEMMA WrittenStep ==
    ASSUME NEW m \in Messages, NEW n \in 0 .. NumberOfFields(m) - 1
    PROVE  /\ Written(m, n) \in Seq(Bytes) /\ Written(m, n + 1) \in Seq(Bytes)
           /\ Written(m, n + 1) = Written(m, n) \o Field(m, n + 1)
<1>1. NumberOfFields(m) \in 2 .. 4
  BY FieldTypes
<1>2. \A i \in 1 .. NumberOfFields(m) : Field(m, i) \in Seq(Bytes)
  BY FieldType
<1>3. CASE n = 0
  <2>1. Field(m, 1) \in Seq(Bytes) /\ Written(m, 0) = <<>> /\ Written(m, 1) = Field(m, 1)
    BY <1>1, <1>2 DEF Written
  <2>2. <<>> \o Field(m, 1) = Field(m, 1) /\ <<>> \in Seq(Bytes)
    BY <2>1, ConcatEmptySeq
  <2>3. Written(m, n) = Written(m, 0) /\ Written(m, n + 1) = Written(m, 1)
        /\ Field(m, n + 1) = Field(m, 1)
    BY <1>3
  <2> QED
    BY <2>1, <2>2, <2>3
<1>4. CASE n = 1
  <2>1. Field(m, 1) \in Seq(Bytes) /\ Field(m, 2) \in Seq(Bytes)
    BY <1>1, <1>2
  <2> QED
    BY <1>4, <2>1 DEF Written
<1>5. CASE n = 2
  <2>1. Field(m, 1) \in Seq(Bytes) /\ Field(m, 2) \in Seq(Bytes) /\ Field(m, 3) \in Seq(Bytes)
    BY <1>1, <1>2, <1>5
  <2> QED
    BY <1>5, <2>1 DEF Written
<1>6. CASE n = 3
  <2>1. Field(m, 1) \in Seq(Bytes) /\ Field(m, 2) \in Seq(Bytes) /\ Field(m, 3) \in Seq(Bytes)
        /\ Field(m, 4) \in Seq(Bytes)
    BY <1>1, <1>2, <1>6
  <2> QED
    BY <1>6, <2>1 DEF Written
<1> QED
  BY <1>1, <1>3, <1>4, <1>5, <1>6

\* The first n fields are bytes, and end somewhere.
LEMMA WrittenType ==
    ASSUME NEW m \in Messages, NEW n \in 0 .. NumberOfFields(m)
    PROVE  Written(m, n) \in Seq(Bytes) /\ Start(m, n) \in Nat
<1>1. NumberOfFields(m) \in 2 .. 4
  BY FieldTypes
<1>2. CASE n \in 0 .. NumberOfFields(m) - 1
  BY <1>2, WrittenStep DEF Start
<1>3. CASE n = NumberOfFields(m)
  <2>1. n - 1 \in 0 .. NumberOfFields(m) - 1 /\ (n - 1) + 1 = n
    BY <1>1, <1>3
  <2>2. Written(m, (n - 1) + 1) \in Seq(Bytes)
    BY <2>1, WrittenStep
  <2> QED
    BY <2>1, <2>2 DEF Start
<1> QED
  BY <1>1, <1>2, <1>3

\* The payload of a message is its fields.
LEMMA EncodeIsWritten ==
    ASSUME NEW m \in Messages
    PROVE  Encode(m) = Written(m, NumberOfFields(m))
<1>1. CASE m.type = "hello"
  <2>1. Decoder(m.type) = <<"bytes", "bytes">>
    BY <1>1 DEF Decoder, DecodeHello
  <2>2. NumberOfFields(m) = 2 /\ Field(m, 1) = PutBytes(m.fields[1])
        /\ Field(m, 2) = PutBytes(m.fields[2])
    BY <2>1 DEF NumberOfFields, Field
  <2> QED
    BY <1>1, <2>2 DEF Encode, EncodeHello, Written
<1>2. CASE m.type = "offer"
  <2>1. Decoder(m.type) = <<"bytes", "u64", "bytes", "u32">>
    BY <1>2 DEF Decoder, DecodeFileOffer
  <2>2. NumberOfFields(m) = 4 /\ Field(m, 1) = PutBytes(m.fields[1])
        /\ Field(m, 2) = PutUint(Width64, m.fields[2])
        /\ Field(m, 3) = PutBytes(m.fields[3]) /\ Field(m, 4) = PutUint(Width32, m.fields[4])
    BY <2>1 DEF NumberOfFields, Field
  <2> QED
    BY <1>2, <2>2 DEF Encode, EncodeFileOffer, Written
<1>3. CASE m.type = "chunk"
  <2>1. Decoder(m.type) = <<"u32", "bytes", "bytes", "bytes">>
    BY <1>3 DEF Decoder, DecodeChunk
  <2>2. NumberOfFields(m) = 4 /\ Field(m, 1) = PutUint(Width32, m.fields[1])
        /\ Field(m, 2) = PutBytes(m.fields[2]) /\ Field(m, 3) = PutBytes(m.fields[3])
        /\ Field(m, 4) = PutBytes(m.fields[4])
    BY <2>1 DEF NumberOfFields, Field
  <2> QED
    BY <1>3, <2>2 DEF Encode, EncodeChunk, Written
<1> QED
  BY <1>1, <1>2, <1>3, FieldTypes

\* What is written later leaves in place what is there.
LEMMA WrittenBegins ==
    ASSUME NEW m \in Messages, NEW n \in 0 .. NumberOfFields(m)
    PROVE  \A k \in n .. NumberOfFields(m) :
              /\ Start(m, n) <= Start(m, k)
              /\ \A p \in 1 .. Start(m, n) : Written(m, k)[p] = Written(m, n)[p]
<1> DEFINE Keeps(k) == /\ Start(m, n) <= Start(m, k)
                       /\ \A p \in 1 .. Start(m, n) : Written(m, k)[p] = Written(m, n)[p]
           T == {k \in Nat : n <= k /\ k <= NumberOfFields(m) => Keeps(k)}
<1>1. NumberOfFields(m) \in 2 .. 4 /\ Start(m, n) \in Nat
  BY FieldTypes, WrittenType
<1>2. Keeps(n)
  BY <1>1
<1>3. 0 \in T
  BY <1>2
<1>4. ASSUME NEW k \in T PROVE k + 1 \in T
  <2> SUFFICES ASSUME n <= k + 1, k + 1 <= NumberOfFields(m) PROVE Keeps(k + 1)
    OBVIOUS
  <2>1. CASE n = k + 1
    BY <1>2, <2>1
  <2>2. CASE n # k + 1
    <3>1. n <= k /\ k <= NumberOfFields(m) /\ k \in 0 .. NumberOfFields(m) - 1
          /\ k + 1 \in 1 .. NumberOfFields(m)
      BY <1>1, <2>2
    <3>2. Keeps(k)
      BY <3>1
    <3>3. /\ Written(m, k) \in Seq(Bytes) /\ Field(m, k + 1) \in Seq(Bytes)
          /\ Written(m, k + 1) = Written(m, k) \o Field(m, k + 1)
      BY <3>1, WrittenStep, FieldType
    <3>4. Start(m, k) <= Start(m, k + 1) /\ Start(m, k) \in Nat
          /\ \A p \in 1 .. Start(m, k) : Written(m, k + 1)[p] = Written(m, k)[p]
      BY <3>3 DEF Start
    <3>5. Start(m, n) <= Start(m, k + 1)
      <4>1. Start(m, k + 1) \in Nat
        BY <3>1, WrittenType
      <4> QED
        BY <1>1, <3>2, <3>4, <4>1
    <3>6. \A p \in 1 .. Start(m, n) : Written(m, k + 1)[p] = Written(m, n)[p]
      BY <1>1, <3>2, <3>4
    <3> QED
      BY <3>5, <3>6
  <2> QED
    BY <2>1, <2>2
<1>5. \A k \in Nat : k \in T
  <2>1. T \subseteq Nat
    OBVIOUS
  <2> HIDE DEF T
  <2> QED
    BY <1>3, <1>4, <2>1, Induction
<1> QED
  <2> SUFFICES ASSUME NEW k \in n .. NumberOfFields(m) PROVE Keeps(k)
    OBVIOUS
  <2>1. k \in Nat /\ n <= k /\ k <= NumberOfFields(m)
    BY <1>1
  <2> QED
    BY <1>5, <2>1

\* Field n + 1 stands in the payload behind the first n.
LEMMA Layout ==
    ASSUME NEW m \in Messages, NEW n \in 0 .. NumberOfFields(m) - 1
    PROVE  /\ Encode(m) \in Seq(Bytes)
           /\ Start(m, n) \in Nat /\ Start(m, n + 1) \in Nat /\ Len(Field(m, n + 1)) \in Nat
           /\ Start(m, n + 1) = Start(m, n) + Len(Field(m, n + 1))
           /\ Start(m, n + 1) <= Len(Encode(m))
           /\ \A j \in 1 .. Len(Field(m, n + 1)) :
                 Encode(m)[Start(m, n) + j] = Field(m, n + 1)[j]
<1> DEFINE N == NumberOfFields(m)
<1>1. N \in 2 .. 4 /\ n \in 0 .. N /\ n + 1 \in 0 .. N /\ n + 1 \in 1 .. N /\ N \in n + 1 .. N
  BY FieldTypes
<1>2. Encode(m) = Written(m, N) /\ Written(m, N) \in Seq(Bytes)
  BY <1>1, EncodeIsWritten, WrittenType
<1>3. /\ Start(m, n + 1) <= Start(m, N)
      /\ \A p \in 1 .. Start(m, n + 1) : Written(m, N)[p] = Written(m, n + 1)[p]
  BY <1>1, WrittenBegins
<1>4. /\ Written(m, n) \in Seq(Bytes) /\ Field(m, n + 1) \in Seq(Bytes)
      /\ Written(m, n + 1) = Written(m, n) \o Field(m, n + 1)
  BY <1>1, WrittenStep, FieldType
<1>5. /\ Start(m, n) \in Nat /\ Len(Field(m, n + 1)) \in Nat
      /\ Start(m, n + 1) = Start(m, n) + Len(Field(m, n + 1))
      /\ \A j \in 1 .. Len(Field(m, n + 1)) :
            Written(m, n + 1)[Start(m, n) + j] = Field(m, n + 1)[j]
  BY <1>4 DEF Start
<1>6. \A j \in 1 .. Len(Field(m, n + 1)) : Start(m, n) + j \in 1 .. Start(m, n + 1)
  BY <1>5
<1> HIDE DEF N
<1> QED
  BY <1>2, <1>3, <1>5, <1>6 DEF Start
-----------------------------------------------------------------------------
(* The inductive invariant.                                                *)

Frame(m) == FrameMessage(m.type, Encode(m))

\* Where the first sequence has another byte than the second.
Changed(s, t) == {p \in DOMAIN s \cap DOMAIN t : s[p] # t[p]}

AtMostOne(S) == \A p, q \in S : p = q

\* What the link does to a frame: it changes no byte but one, and only when it
\* flips one, and a cut takes something away.
LinkInv ==
    /\ harm = "none" => link = Frame(sent)
    /\ harm # "flip" => Changed(link, Frame(sent)) = {}
    /\ AtMostOne(Changed(link, Frame(sent)))
    /\ harm = "cut" => Len(link) < Len(Frame(sent))

\* The same for the payload, once the header is gone.
PayloadInv ==
    /\ harm # "flip" => Changed(payload, Encode(sent)) = {}
    /\ AtMostOne(Changed(payload, Encode(sent)))
    /\ harm = "cut" /\ stage \in {"decoding", "decoded"} => Len(payload) < Len(Encode(sent))

\* What the receiver has at which stage.
StageInv ==
    /\ got \in Seq(Values)
    /\ stage = "waiting" => header = NoHeader /\ payload = <<>> /\ offset = 0 /\ got = <<>>
    /\ stage = "decoded" => Len(got) = NumberOfFields(sent)

\* Every block that was read has the length it was sent with.
LengthsKept ==
    \A i \in DOMAIN got : Decoder(sent.type)[i] = "bytes" => Len(got[i]) = Len(sent.fields[i])

Region(m, i) == Start(m, i - 1) + 1 .. Start(m, i)

\* As long as all lengths are right the decoder is at a field of the message,
\* and a field it read wrong has a changed byte among its own.
DecodeInv ==
    LengthsKept =>
       /\ offset = Start(sent, Len(got))
       /\ \A i \in DOMAIN got : got[i] # sent.fields[i] =>
             Region(sent, i) \cap Changed(payload, Encode(sent)) # {}

IInv == TypeOK /\ InBounds /\ LinkInv /\ PayloadInv /\ StageInv /\ DecodeInv

\* Nothing but a changed byte makes the decoder take a wrong length.
LengthInv == harm # "flip" => LengthsKept
-----------------------------------------------------------------------------
(* What a decoder reads where a field was written.                         *)

\* A payload is a sequence of bytes.
LEMMA EncodeType ==
    ASSUME NEW m \in Messages
    PROVE  Encode(m) \in Seq(Bytes) /\ Len(Encode(m)) \in Nat
BY EncodeIsWritten, WrittenType, FieldTypes

\* A byte of a field that is not what was written is a changed byte of its own.
LEMMA ChangedByte ==
    ASSUME NEW m \in Messages, NEW n \in 0 .. NumberOfFields(m) - 1, NEW buf \in Seq(Bytes),
           NEW j \in 1 .. Len(Field(m, n + 1)), Start(m, n) + j <= Len(buf),
           buf[Start(m, n) + j] # Field(m, n + 1)[j]
    PROVE  Region(m, n + 1) \cap Changed(buf, Encode(m)) # {}
<1>1. /\ Encode(m) \in Seq(Bytes)
      /\ Start(m, n) \in Nat /\ Start(m, n + 1) \in Nat /\ Len(Field(m, n + 1)) \in Nat
      /\ Start(m, n + 1) = Start(m, n) + Len(Field(m, n + 1))
      /\ Start(m, n + 1) <= Len(Encode(m))
      /\ Encode(m)[Start(m, n) + j] = Field(m, n + 1)[j]
  BY Layout
<1>2. PICK p : p = Start(m, n) + j
  OBVIOUS
<1>3. p \in Start(m, n) + 1 .. Start(m, n + 1) /\ p \in 1 .. Len(buf) /\ p \in 1 .. Len(Encode(m))
  BY <1>1, <1>2
<1>4. n \in Nat /\ (n + 1) - 1 = n
  BY FieldTypes
<1>5. p \in Region(m, n + 1)
  BY <1>3, <1>4 DEF Region
<1>6. p \in Changed(buf, Encode(m))
  BY <1>1, <1>2, <1>3 DEF Changed
<1> QED
  BY <1>5, <1>6

\* Reading a number: what is not right comes from a changed byte.
LEMMA NumberRead ==
    ASSUME NEW m \in Messages, NEW n \in 0 .. NumberOfFields(m) - 1, NEW buf \in Seq(Bytes),
           NEW w \in Nat,
           \/ Decoder(m.type)[n + 1] = "u32" /\ w = Width32
           \/ Decoder(m.type)[n + 1] = "u64" /\ w = Width64,
           Start(m, n) + w <= Len(buf)
    PROVE  /\ Start(m, n + 1) = Start(m, n) + w
           /\ GetUint(w, buf, Start(m, n)) \in Nat
           /\ GetUint(w, buf, Start(m, n)) # m.fields[n + 1] =>
                 Region(m, n + 1) \cap Changed(buf, Encode(m)) # {}
<1> DEFINE v == m.fields[n + 1]
<1>1. n + 1 \in 1 .. NumberOfFields(m)
  BY FieldTypes
<1>2. v \in 0 .. Power[w] - 1 /\ Field(m, n + 1) = PutUint(w, v)
  BY <1>1, FieldType DEF U32, U64
<1>3. v \in Nat /\ Power[w] \in Nat
  BY <1>2, Powers
<1>4. PutUint(w, v) \in Seq(Bytes) /\ Len(PutUint(w, v)) = w
  BY <1>3, PutUintType
<1>5. /\ Start(m, n) \in Nat
      /\ Start(m, n + 1) = Start(m, n) + w
  BY <1>2, <1>4, Layout
<1>6. GetUint(w, buf, Start(m, n)) \in Nat
  BY <1>5, GetUintType
<1>7. ASSUME GetUint(w, buf, Start(m, n)) # v
      PROVE  Region(m, n + 1) \cap Changed(buf, Encode(m)) # {}
  <2>1. ~ \A i \in 1 .. w : buf[Start(m, n) + i] = PutUint(w, v)[i]
    <3> HIDE DEF v
    <3> QED
      BY <1>2, <1>5, <1>7, GetUndoesPut
  <2>2. PICK i \in 1 .. w : buf[Start(m, n) + i] # Field(m, n + 1)[i]
    BY <1>2, <2>1
  <2>3. i \in 1 .. Len(Field(m, n + 1)) /\ Start(m, n) + i <= Len(buf)
    BY <1>2, <1>4, <1>5
  <2> QED
    BY <2>2, <2>3, ChangedByte
<1> QED
  BY <1>5, <1>6, <1>7

\* The bytes of a block behind its length.
LEMMA BlockBytes ==
    ASSUME NEW buf \in Seq(Bytes), NEW at \in Nat, NEW w \in Nat, NEW l \in Nat,
           at + (w + l) <= Len(buf)
    PROVE  /\ SubSeq(buf, at + w + 1, at + (w + l)) \in Seq(Bytes)
           /\ Len(SubSeq(buf, at + w + 1, at + (w + l))) = l
           /\ \A j \in 1 .. l :
                 SubSeq(buf, at + w + 1, at + (w + l))[j] = buf[at + (w + j)]
<1>1. PICK a \in 1 .. Len(buf) + 1, b \in 0 .. Len(buf) : a = at + w + 1 /\ b = at + (w + l)
  OBVIOUS
<1>2. /\ SubSeq(buf, a, b) \in Seq(Bytes)
      /\ Len(SubSeq(buf, a, b)) = IF a <= b THEN b - a + 1 ELSE 0
      /\ \A j \in 1 .. b - a + 1 : SubSeq(buf, a, b)[j] = buf[a + j - 1]
  BY SubSeqProperties
<1>3. b - a + 1 = l /\ (~(a <= b) => l = 0)
  BY <1>1
<1>4. \A j \in 1 .. l : a + j - 1 = at + (w + j)
  BY <1>1
<1>5. PICK v : v = SubSeq(buf, a, b)
  OBVIOUS
<1>6. v \in Seq(Bytes) /\ Len(v) = l
  BY <1>2, <1>3, <1>5
<1>7. \A j \in 1 .. l : v[j] = buf[at + (w + j)]
  BY <1>2, <1>3, <1>4, <1>5
<1> QED
  BY <1>1, <1>5, <1>6, <1>7

\* Reading a block of the right length: what is not right comes from a changed
\* byte.
LEMMA BlockRead ==
    ASSUME NEW m \in Messages, NEW n \in 0 .. NumberOfFields(m) - 1, NEW buf \in Seq(Bytes),
           Decoder(m.type)[n + 1] = "bytes",
           NEW l \in Nat, Start(m, n) + (Width32 + l) <= Len(buf),
           NEW v \in Seq(Bytes), Len(v) = l,
           \A j \in 1 .. l : v[j] = buf[Start(m, n) + (Width32 + j)],
           l = Len(m.fields[n + 1])
    PROVE  /\ Start(m, n + 1) = Start(m, n) + (Width32 + l)
           /\ v # m.fields[n + 1] => Region(m, n + 1) \cap Changed(buf, Encode(m)) # {}
<1>1. n + 1 \in 1 .. NumberOfFields(m)
  BY FieldTypes
<1>2. PICK d \in Seq(Bytes) : d = m.fields[n + 1] /\ Field(m, n + 1) = PutBytes(d)
  BY <1>1, FieldType
<1>3. Len(d) = l /\ Len(Field(m, n + 1)) = Width32 + l
  BY <1>2, PutBytesType
<1>4. Start(m, n + 1) = Start(m, n) + (Width32 + l) /\ Start(m, n) \in Nat
  BY <1>3, Layout
<1>5. ASSUME v # d
      PROVE  Region(m, n + 1) \cap Changed(buf, Encode(m)) # {}
  <2>1. PICK j \in 1 .. l : v[j] # d[j]
    BY <1>3, <1>5, SeqEqual
  <2>2. Width32 \in Nat
    BY Widths
  <2>3. PICK k \in 1 .. Len(Field(m, n + 1)) : k = Width32 + j
    BY <1>3, <2>2
  <2>4. Field(m, n + 1)[k] = d[j]
    <3>1. PutBytes(d)[Width32 + j] = d[j]
      BY <1>3, PutBytesType
    <3> QED
      BY <1>2, <2>3, <3>1
  <2>5. buf[Start(m, n) + k] = v[j]
    BY <2>3
  <2>6. Start(m, n) + k <= Len(buf)
    BY <1>4, <2>2, <2>3
  <2> QED
    BY <2>1, <2>4, <2>5, <2>6, ChangedByte
<1> QED
  BY <1>2, <1>4, <1>5

\* The length of a block is read as it was written if no byte has changed.
LEMMA LengthRead ==
    ASSUME Representable, NEW m \in Messages, NEW n \in 0 .. NumberOfFields(m) - 1,
           NEW buf \in Seq(Bytes), Decoder(m.type)[n + 1] = "bytes",
           Start(m, n) + Width32 <= Len(buf), Changed(buf, Encode(m)) = {}
    PROVE  GetUint(Width32, buf, Start(m, n)) = Len(m.fields[n + 1])
<1>1. n + 1 \in 1 .. NumberOfFields(m)
  BY FieldTypes
<1>2. PICK d \in Seq(Bytes) : d = m.fields[n + 1] /\ Field(m, n + 1) = PutBytes(d)
  BY <1>1, FieldType
<1>3. Len(Field(m, n + 1)) = Width32 + Len(d) /\ Len(d) \in Nat
  BY <1>2, PutBytesType
<1>4. /\ Start(m, n) \in Nat /\ Start(m, n + 1) = Start(m, n) + Width32 + Len(d)
      /\ Start(m, n + 1) <= Len(Encode(m)) /\ Len(Encode(m)) \in Nat
  <2>1. /\ Start(m, n) \in Nat /\ Start(m, n + 1) = Start(m, n) + Len(Field(m, n + 1))
        /\ Start(m, n + 1) <= Len(Encode(m))
    BY Layout
  <2>2. Width32 \in Nat /\ Len(Encode(m)) \in Nat
    BY Widths, EncodeType
  <2> QED
    BY <1>3, <2>1, <2>2
<1>5. Len(d) \in 0 .. Power[Width32] - 1
  <2>1. Len(Encode(m)) < Power[Width32] /\ Power[Width32] \in Nat
    BY Powers, Widths DEF Representable
  <2> QED
    BY <1>3, <1>4, <2>1, Widths
<1>6. \A i \in 1 .. Width32 : buf[Start(m, n) + i] = PutUint(Width32, Len(d))[i]
  <2> SUFFICES ASSUME NEW i \in 1 .. Width32,
                      buf[Start(m, n) + i] # PutUint(Width32, Len(d))[i]
               PROVE  FALSE
    OBVIOUS
  <2>1. i \in 1 .. Len(Field(m, n + 1)) /\ Start(m, n) + i <= Len(buf)
    BY <1>3, <1>4, Widths
  <2>2. Field(m, n + 1)[i] = PutUint(Width32, Len(d))[i]
    BY <1>2, PutBytesType
  <2> QED
    BY <2>1, <2>2, ChangedByte
<1> QED
  BY <1>2, <1>4, <1>5, <1>6, Widths, GetUndoesPut
-----------------------------------------------------------------------------
(* The steps of the link and of the header.                                *)

\* Where the bytes of two sequences are when one follows the other.
LEMMA Concatenation ==
    ASSUME NEW s \in Seq(Bytes), NEW t \in Seq(Bytes)
    PROVE  /\ s \o t \in Seq(Bytes) /\ Len(s \o t) = Len(s) + Len(t)
           /\ \A i \in 1 .. Len(s) : (s \o t)[i] = s[i]
           /\ \A j \in 1 .. Len(t) : (s \o t)[Len(s) + j] = t[j]
OBVIOUS

\* A frame is a header and the payload.
LEMMA FrameLayout ==
    ASSUME NEW m \in Messages
    PROVE  /\ Frame(m) \in Seq(Bytes) /\ Len(Frame(m)) = kHeaderSize + Len(Encode(m))
           /\ \A i \in 1 .. Width32 : Frame(m)[2 + i] = PutUint(Width32, Len(Encode(m)))[i]
           /\ \A j \in 1 .. Len(Encode(m)) : Frame(m)[kHeaderSize + j] = Encode(m)[j]
<1>1. PICK e \in Seq(Bytes) : e = Encode(m)
  BY EncodeType
<1>2. Width32 \in Nat /\ Len(e) \in Nat
  BY Widths
<1>3. PICK u \in Seq(Bytes) : u = PutUint(Width32, Len(e)) /\ Len(u) = Width32
  BY <1>2, PutUintType
<1>4. kProtocolVersion \in Bytes /\ MessageType(m.type) \in Bytes
  BY FieldTypes, Widths DEF kProtocolVersion, MessageType, Bytes
<1>5. PICK h \in Seq(Bytes) : h = <<kProtocolVersion, MessageType(m.type)>> /\ Len(h) = 2
  BY <1>4, Pairs
<1>6. PICK hu \in Seq(Bytes) :
         /\ hu = h \o u /\ Len(hu) = 2 + Width32
         /\ \A i \in 1 .. Width32 : hu[2 + i] = u[i]
  <2>1. h \o u \in Seq(Bytes) /\ Len(h \o u) = Len(h) + Len(u)
        /\ \A i \in 1 .. Len(u) : (h \o u)[Len(h) + i] = u[i]
    BY Concatenation
  <2> QED
    BY <1>3, <1>5, <2>1
<1>7. Frame(m) = hu \o e
  BY <1>1, <1>3, <1>5, <1>6 DEF Frame, FrameMessage
<1>8. Len(hu) = kHeaderSize /\ kHeaderSize \in Nat
  BY <1>6, Widths
<1>9. Frame(m) \in Seq(Bytes) /\ Len(Frame(m)) = kHeaderSize + Len(e)
  BY <1>7, <1>8, Concatenation
<1>10. \A j \in 1 .. Len(e) : Frame(m)[kHeaderSize + j] = e[j]
  BY <1>7, <1>8, Concatenation
<1>11. ASSUME NEW i \in 1 .. Width32 PROVE Frame(m)[2 + i] = u[i]
  <2>1. 2 + i \in 1 .. Len(hu)
    BY <1>2, <1>6
  <2>2. (hu \o e)[2 + i] = hu[2 + i]
    BY <2>1, Concatenation
  <2> QED
    BY <1>6, <1>7, <2>2
<1> QED
  BY <1>1, <1>3, <1>9, <1>10, <1>11

\* A frame that was just sent and a receiver that waits satisfy the invariant.
LEMMA InitInv == Init => IInv
<1> SUFFICES ASSUME Init PROVE IInv
  OBVIOUS
<1> USE DEF Init
<1>1. sent \in Messages /\ link = Frame(sent) /\ Frame(sent) \in Seq(Bytes)
  BY FrameLayout DEF Frame
<1>2. NumberOfFields(sent) \in 2 .. 4 /\ Len(Encode(sent)) \in Nat
  BY <1>1, FieldTypes, EncodeType
<1>3. <<>> \in Seq(Bytes) /\ <<>> \in Seq(Values) /\ Len(<<>>) = 0 /\ DOMAIN <<>> = {}
  OBVIOUS
<1>4. TypeOK
  <2>1. header \in [type : Bytes, payload_len : Nat]
    BY Widths DEF NoHeader, Bytes
  <2> QED
    BY <1>1, <1>2, <1>3, <2>1 DEF TypeOK, NumberOfFields
<1>5. InBounds
  BY <1>3 DEF InBounds
<1>6. LinkInv
  BY <1>1 DEF LinkInv, Changed, AtMostOne
<1>7. PayloadInv
  BY <1>3 DEF PayloadInv, Changed, AtMostOne
<1>8. StageInv
  BY <1>3 DEF StageInv
<1>9. DecodeInv
  <2>1. Start(sent, Len(got)) = 0
    BY <1>3 DEF Start, Written
  <2> QED
    BY <1>3, <2>1 DEF DecodeInv
<1> QED
  BY <1>4, <1>5, <1>6, <1>7, <1>8, <1>9 DEF IInv

\* What the receiver has read so far says the same while it and the frame stay.
LEMMA ReceiverKept ==
    ASSUME DecodeInv, UNCHANGED <<sent, payload, offset, got>>
    PROVE  DecodeInv'
BY DEF DecodeInv, LengthsKept

\* The link cuts, appends or flips only while the receiver waits.
LEMMA LinkStep ==
    ASSUME IInv, CutFrame \/ AppendFrame \/ FlipByte
    PROVE  IInv'
<1> USE DEF IInv
<1>1. /\ harm = "none" /\ harm' \in LinkFaults /\ stage = "waiting"
      /\ UNCHANGED <<sent, stage, header, payload, offset, got>>
  BY DEF CutFrame, AppendFrame, FlipByte, OnLink, receiverVars
<1>2. PICK F \in Seq(Bytes) : F = Frame(sent) /\ link = F /\ Len(F) \in Nat
  BY <1>1, FrameLayout DEF LinkInv, TypeOK
<1>3. link' \in Seq(Bytes) /\ LinkInv'
  <2>1. CASE CutFrame
    <3>1. harm' = "cut"
      BY <2>1 DEF CutFrame, OnLink
    <3>2. PICK n \in 0 .. Len(F) - 1 : link' = SubSeq(F, 1, n)
      BY <1>2, <2>1 DEF CutFrame
    <3>3. /\ link' \in Seq(Bytes) /\ Len(link') = n
          /\ \A p \in 1 .. n : link'[p] = F[p]
      BY <1>2, <3>2
    <3>4. Changed(link', F) = {}
      BY <3>3 DEF Changed
    <3> QED
      BY <1>1, <1>2, <3>1, <3>3, <3>4 DEF LinkInv, AtMostOne
  <2>2. CASE AppendFrame
    <3>1. harm' = "append"
      BY <2>2 DEF AppendFrame, OnLink
    <3>2. PICK m \in Messages : link' = F \o Frame(m)
      BY <1>2, <2>2 DEF AppendFrame, Frame
    <3>3. Frame(m) \in Seq(Bytes)
      BY FrameLayout
    <3>4. link' \in Seq(Bytes) /\ \A p \in 1 .. Len(F) : link'[p] = F[p]
      BY <3>2, <3>3
    <3>5. Changed(link', F) = {}
      BY <3>4 DEF Changed
    <3> QED
      BY <1>1, <1>2, <3>1, <3>4, <3>5 DEF LinkInv, AtMostOne
  <2>3. CASE FlipByte
    <3>1. harm' = "flip"
      BY <2>3 DEF FlipByte, OnLink
    <3>2. PICK i \in DOMAIN F, b \in Bytes : link' = [F EXCEPT ![i] = b]
      <4>1. \E i \in DOMAIN link : \E b \in Bytes \ {link[i]} : link' = [link EXCEPT ![i] = b]
        BY <2>3 DEF FlipByte
      <4>2. link = F
        BY <1>2
      <4>3. \E i \in DOMAIN F : \E b \in Bytes : link' = [F EXCEPT ![i] = b]
        BY <4>1, <4>2
      <4> QED
        BY <4>3
    <3>3. /\ link' \in Seq(Bytes)
          /\ \A p \in DOMAIN F : p # i => link'[p] = F[p]
      BY <3>2
    <3>4. \A p \in Changed(link', F) : p = i
      BY <3>3 DEF Changed
    <3>5. AtMostOne(Changed(link', F))
      BY <3>4 DEF AtMostOne
    <3> QED
      BY <1>1, <1>2, <3>1, <3>3, <3>5 DEF LinkInv
  <2> QED
    BY <2>1, <2>2, <2>3
<1>4. TypeOK'
  BY <1>1, <1>3 DEF TypeOK
<1>5. PayloadInv'
  <2>1. payload' = <<>> /\ stage' = "waiting"
    BY <1>1 DEF StageInv
  <2>2. Changed(payload', Encode(sent')) = {}
    BY <2>1 DEF Changed
  <2> QED
    BY <2>1, <2>2 DEF PayloadInv, AtMostOne
<1>6. StageInv' /\ InBounds'
  BY <1>1 DEF StageInv, InBounds
<1>7. DecodeInv'
  BY <1>1, ReceiverKept
<1> QED
  BY <1>3, <1>4, <1>5, <1>6, <1>7

\* ParseHeader takes the header off, and reads the length that FrameMessage wrote.
LEMMA HeaderStep ==
    ASSUME IInv, ParseHeader
    PROVE  /\ IInv'
           /\ Representable /\ harm # "flip" => header'.payload_len = Len(Encode(sent))
<1> USE DEF IInv
<1>1. /\ stage = "waiting" /\ stage' = "decoding"
      /\ Len(link) >= kHeaderSize
      /\ header' = [type |-> link[2], payload_len |-> GetUint(Width32, link, 2)]
      /\ payload' = SubSeq(link, kHeaderSize + 1, Len(link))
      /\ UNCHANGED <<sent, link, harm, offset, got>>
  BY DEF ParseHeader, GoodHeader
<1>2. sent \in Messages /\ link \in Seq(Bytes) /\ Len(link) \in Nat
  BY DEF TypeOK
<1>3. PICK F \in Seq(Bytes), e \in Seq(Bytes) :
         /\ F = Frame(sent) /\ e = Encode(sent)
         /\ Len(F) = kHeaderSize + Len(e) /\ Len(e) \in Nat
         /\ \A i \in 1 .. Width32 : F[2 + i] = PutUint(Width32, Len(e))[i]
         /\ \A j \in 1 .. Len(e) : F[kHeaderSize + j] = e[j]
  BY <1>2, FrameLayout, EncodeType
<1>4. kHeaderSize \in Nat /\ kHeaderSize = Width32 + 2 /\ Width32 \in Nat
  BY Widths
<1>5. /\ payload' \in Seq(Bytes) /\ Len(payload') = Len(link) - kHeaderSize
      /\ \A j \in 1 .. Len(link) - kHeaderSize : payload'[j] = link[kHeaderSize + j]
  <2>1. PICK l \in Nat : Len(link) = kHeaderSize + l
    <3>1. Len(link) - kHeaderSize \in Nat
      BY <1>1, <1>2, <1>4
    <3> QED
      <4>1. Len(link) = kHeaderSize + (Len(link) - kHeaderSize)
        BY <1>2, <1>4
      <4> QED
        BY <3>1, <4>1
  <2>2. Len(link) = kHeaderSize + (0 + l) /\ kHeaderSize + 1 = kHeaderSize + 0 + 1
        /\ Len(link) - kHeaderSize = l
    BY <1>4, <2>1
  <2>3. /\ SubSeq(link, kHeaderSize + 0 + 1, kHeaderSize + (0 + l)) \in Seq(Bytes)
        /\ Len(SubSeq(link, kHeaderSize + 0 + 1, kHeaderSize + (0 + l))) = l
        /\ \A j \in 1 .. l :
              SubSeq(link, kHeaderSize + 0 + 1, kHeaderSize + (0 + l))[j]
                 = link[kHeaderSize + (0 + j)]
    BY <1>2, <1>4, <2>2, BlockBytes
  <2>4. \A j \in 1 .. l : kHeaderSize + (0 + j) = kHeaderSize + j
    BY <1>4
  <2>5. payload' = SubSeq(link, kHeaderSize + 0 + 1, kHeaderSize + (0 + l))
    BY <1>1, <2>2
  <2> QED
    BY <2>2, <2>3, <2>4, <2>5
<1>6. \A p \in Changed(payload', e) : kHeaderSize + p \in Changed(link, F)
  <2> SUFFICES ASSUME NEW p \in Changed(payload', e) PROVE kHeaderSize + p \in Changed(link, F)
    OBVIOUS
  <2>1. p \in 1 .. Len(link) - kHeaderSize /\ p \in 1 .. Len(e) /\ payload'[p] # e[p]
    BY <1>2, <1>4, <1>5 DEF Changed
  <2>2. kHeaderSize + p \in 1 .. Len(link) /\ kHeaderSize + p \in 1 .. Len(F)
    BY <1>2, <1>3, <1>4, <2>1
  <2>3. link[kHeaderSize + p] # F[kHeaderSize + p]
    BY <1>3, <1>5, <2>1
  <2> QED
    BY <1>2, <2>2, <2>3 DEF Changed
<1>7. PayloadInv'
  <2>1. harm # "flip" => Changed(payload', e) = {}
    BY <1>3, <1>6 DEF LinkInv
  <2>2. AtMostOne(Changed(payload', e))
    <3> SUFFICES ASSUME NEW p \in Changed(payload', e), NEW q \in Changed(payload', e)
                 PROVE  p = q
      BY DEF AtMostOne
    <3>1. kHeaderSize + p = kHeaderSize + q
      BY <1>3, <1>6 DEF LinkInv, AtMostOne
    <3>2. p \in Nat /\ q \in Nat
      BY <1>3 DEF Changed
    <3> QED
      BY <1>4, <3>1, <3>2
  <2>3. harm = "cut" => Len(payload') < Len(e)
    <3> SUFFICES ASSUME harm = "cut" PROVE Len(payload') < Len(e)
      OBVIOUS
    <3>1. Len(link) < Len(F)
      BY <1>3 DEF LinkInv
    <3> QED
      BY <1>2, <1>3, <1>4, <1>5, <3>1
  <2> QED
    BY <1>1, <1>3, <2>1, <2>2, <2>3 DEF PayloadInv
<1>8. TypeOK'
  <2>1. 2 + Width32 <= Len(link) /\ 2 \in 1 .. Len(link)
    BY <1>1, <1>2, <1>4
  <2>2. link[2] \in Bytes /\ GetUint(Width32, link, 2) \in Nat
    BY <1>2, <1>4, <2>1, GetUintType
  <2>3. header' \in [type : Bytes, payload_len : Nat]
    BY <1>1, <2>2
  <2> QED
    BY <1>1, <1>5, <2>3 DEF TypeOK
<1>9. offset' = 0 /\ got' = <<>>
  BY <1>1 DEF StageInv
<1>10. InBounds'
  BY <1>5, <1>9 DEF InBounds
<1>11. LinkInv'
  BY <1>1 DEF LinkInv
<1>12. StageInv'
  BY <1>1, <1>9 DEF StageInv
<1>13. DecodeInv'
  <2>1. Start(sent', Len(got')) = 0
    BY <1>9 DEF Start, Written
  <2> QED
    BY <1>9, <2>1 DEF DecodeInv
<1>14. ASSUME Representable, harm # "flip" PROVE header'.payload_len = Len(e)
  <2>1. Len(e) \in 0 .. Power[Width32] - 1
    <3>1. Len(e) < Power[Width32] /\ Power[Width32] \in Nat
      BY <1>2, <1>3, <1>4, <1>14, Powers DEF Representable
    <3> QED
      BY <1>3, <3>1
  <2>2. 2 + Width32 <= Len(link) /\ 2 + Width32 <= Len(F)
    BY <1>1, <1>2, <1>3, <1>4
  <2>3. Changed(link, F) = {}
    BY <1>3, <1>14 DEF LinkInv
  <2>4. \A i \in 1 .. Width32 : link[2 + i] = PutUint(Width32, Len(e))[i]
    <3> SUFFICES ASSUME NEW i \in 1 .. Width32 PROVE link[2 + i] = F[2 + i]
      BY <1>3
    <3>1. 2 + i \in 1 .. Len(link) /\ 2 + i \in 1 .. Len(F)
      BY <1>2, <1>3, <1>4, <2>2
    <3> QED
      BY <1>2, <2>3, <3>1 DEF Changed
  <2>5. GetUint(Width32, link, 2) = Len(e)
    BY <1>2, <1>4, <2>1, <2>2, <2>4, GetUndoesPut
  <2> QED
    BY <1>1, <2>5
<1> QED
  BY <1>3, <1>7, <1>8, <1>10, <1>11, <1>12, <1>13, <1>14
-----------------------------------------------------------------------------
(* The steps of the decoder.                                               *)

\* Giving up changes nothing but the stage.
LEMMA ThrowStep ==
    ASSUME IInv, Throw
    PROVE  IInv'
<1> USE DEF IInv
<1>1. stage' = "thrown" /\ UNCHANGED <<sent, link, harm, header, payload, offset, got>>
  BY DEF Throw
<1>2. TypeOK' /\ InBounds' /\ LinkInv'
  BY <1>1 DEF TypeOK, InBounds, LinkInv
<1>3. PayloadInv' /\ StageInv'
  BY <1>1 DEF PayloadInv, StageInv
<1>4. DecodeInv'
  BY <1>1, ReceiverKept
<1> QED
  BY <1>2, <1>3, <1>4

\* Return changes nothing but the stage.
LEMMA ReturnStep ==
    ASSUME IInv, Return
    PROVE  IInv'
<1> USE DEF IInv
<1>1. /\ stage = "decoding" /\ stage' = "decoded" /\ Len(got) = NumberOfFields(sent)
      /\ UNCHANGED <<sent, link, harm, header, payload, offset, got>>
  BY DEF Return, NumberOfFields
<1>2. TypeOK' /\ InBounds' /\ LinkInv'
  BY <1>1 DEF TypeOK, InBounds, LinkInv
<1>3. PayloadInv' /\ StageInv'
  BY <1>1 DEF PayloadInv, StageInv
<1>4. DecodeInv'
  BY <1>1, ReceiverKept
<1> QED
  BY <1>2, <1>3, <1>4

\* The decoder is behind some fields and before another.
LEMMA AtField ==
    ASSUME IInv, Decoding
    PROVE  /\ sent \in Messages /\ payload \in Seq(Bytes) /\ got \in Seq(Values)
           /\ offset \in Nat
           /\ Len(got) \in 0 .. NumberOfFields(sent) - 1
           /\ NextField = Decoder(sent.type)[Len(got) + 1] /\ NextField \in Kinds
<1>1. sent \in Messages /\ payload \in Seq(Bytes) /\ got \in Seq(Values) /\ offset \in Nat
  BY DEF IInv, TypeOK, StageInv
<1>2. Len(got) \in Nat /\ Len(got) < NumberOfFields(sent) /\ NumberOfFields(sent) \in 2 .. 4
  BY <1>1, FieldTypes DEF Decoding, NumberOfFields
<1>3. Len(got) \in 0 .. NumberOfFields(sent) - 1 /\ Len(got) + 1 \in 1 .. NumberOfFields(sent)
  BY <1>2
<1>4. Decoder(sent.type)[Len(got) + 1] \in Kinds
  BY <1>1, <1>3, FieldTypes
<1> QED
  BY <1>1, <1>3, <1>4 DEF NextField

\* A sequence with one more value.
LEMMA Appended ==
    ASSUME NEW s \in Seq(Values), NEW v \in Values
    PROVE  /\ Append(s, v) \in Seq(Values) /\ Len(s) \in Nat
           /\ DOMAIN s = 1 .. Len(s) /\ DOMAIN Append(s, v) = 1 .. Len(s) + 1
           /\ Append(s, v)[Len(s) + 1] = v
           /\ \A i \in 1 .. Len(s) : Append(s, v)[i] = s[i]
OBVIOUS

\* What is kept when one more field has been read.
LEMMA ReadStep ==
    ASSUME IInv, Decoding, NEW v \in Values, NEW size \in Nat, Fits(size),
           got' = Append(got, v), offset' = offset + size,
           UNCHANGED <<sent, link, harm, stage, header, payload>>,
           offset = Start(sent, Len(got))
           /\ (NextField = "bytes" => Len(v) = Len(sent.fields[Len(got) + 1]))
           => /\ Start(sent, Len(got) + 1) = offset + size
              /\ v # sent.fields[Len(got) + 1] =>
                    Region(sent, Len(got) + 1) \cap Changed(payload, Encode(sent)) # {}
    PROVE  IInv'
<1> USE DEF IInv
<1>1. PICK n : n = Len(got)
  OBVIOUS
<1>2. /\ sent \in Messages /\ payload \in Seq(Bytes) /\ got \in Seq(Values) /\ offset \in Nat
      /\ n \in Nat /\ n \in 0 .. NumberOfFields(sent) - 1 /\ n + 1 <= NumberOfFields(sent)
      /\ NextField = Decoder(sent.type)[n + 1]
  <2>1. NumberOfFields(sent) \in 2 .. 4
    BY AtField, FieldTypes
  <2> QED
    BY <1>1, <2>1, AtField
<1>3. /\ got' \in Seq(Values) /\ Len(got') = n + 1
      /\ DOMAIN got = 1 .. n /\ DOMAIN got' = 1 .. n + 1
      /\ got'[n + 1] = v /\ \A i \in 1 .. n : got'[i] = got[i]
  BY <1>1, <1>2
<1>4. TypeOK'
  <2>1. Len(got') <= Len(Decoder(sent.type))
    BY <1>2, <1>3 DEF NumberOfFields
  <2>2. offset' \in Nat
    BY <1>2
  <2> QED
    BY <2>1, <2>2 DEF TypeOK
<1>5. InBounds'
  BY <1>2 DEF InBounds, Fits
<1>6. LinkInv' /\ PayloadInv'
  BY DEF LinkInv, PayloadInv
<1>7. StageInv'
  BY <1>3 DEF StageInv, Decoding
<1>8. ASSUME LengthsKept'
      PROVE  /\ LengthsKept
             /\ NextField = "bytes" => Len(v) = Len(sent.fields[n + 1])
  <2>1. \A i \in 1 .. n + 1 : Decoder(sent.type)[i] = "bytes" => Len(got'[i]) = Len(sent.fields[i])
    BY <1>3, <1>8 DEF LengthsKept
  <2>2. \A i \in 1 .. n : i \in 1 .. n + 1
    BY <1>2
  <2>3. LengthsKept
    BY <1>3, <2>1, <2>2 DEF LengthsKept
  <2>4. n + 1 \in 1 .. n + 1
    BY <1>2
  <2> QED
    BY <1>2, <1>3, <2>1, <2>3, <2>4
<1>9. ASSUME LengthsKept'
      PROVE  /\ offset' = Start(sent, n + 1)
             /\ \A i \in 1 .. n + 1 : got'[i] # sent.fields[i] =>
                   Region(sent, i) \cap Changed(payload, Encode(sent)) # {}
  <2>1. /\ offset = Start(sent, n)
        /\ \A i \in 1 .. n : got[i] # sent.fields[i] =>
              Region(sent, i) \cap Changed(payload, Encode(sent)) # {}
    BY <1>1, <1>3, <1>8, <1>9 DEF DecodeInv
  <2>2. /\ Start(sent, n + 1) = offset + size
        /\ v # sent.fields[n + 1] =>
              Region(sent, n + 1) \cap Changed(payload, Encode(sent)) # {}
    BY <1>1, <1>8, <1>9, <2>1
  <2>3. \A i \in 1 .. n + 1 : i \in 1 .. n \/ i = n + 1
    BY <1>2
  <2> QED
    BY <1>3, <2>1, <2>2, <2>3
<1>10. DecodeInv'
  BY <1>3, <1>9 DEF DecodeInv
<1> QED
  BY <1>4, <1>5, <1>6, <1>7, <1>10

\* A number keeps all lengths.
LEMMA ReadNumberStep ==
    ASSUME IInv, ReadNumber
    PROVE  IInv' /\ (LengthsKept => LengthsKept')
<1>1. /\ Decoding /\ NextField \in {"u32", "u64"} /\ Fits(FieldSize)
      /\ got' = Append(got, GetUint(FieldSize, payload, offset))
      /\ offset' = offset + FieldSize
      /\ UNCHANGED <<sent, link, harm, stage, header, payload>>
  BY DEF ReadNumber
<1>2. PICK n, w, v : n = Len(got) /\ w = FieldSize /\ v = GetUint(w, payload, offset)
  OBVIOUS
<1>3. /\ sent \in Messages /\ payload \in Seq(Bytes) /\ got \in Seq(Values) /\ offset \in Nat
      /\ n \in 0 .. NumberOfFields(sent) - 1
      /\ NextField = Decoder(sent.type)[n + 1]
  BY <1>1, <1>2, AtField
<1>4. /\ w \in Nat
      /\ \/ NextField = "u32" /\ w = Width32
         \/ NextField = "u64" /\ w = Width64
  BY <1>1, <1>2, Widths DEF FieldSize
<1>5. offset + w <= Len(payload)
  BY <1>1, <1>2 DEF Fits
<1>6. v \in Nat /\ v \in Values
  BY <1>2, <1>3, <1>4, <1>5, GetUintType DEF Values
<1>7. ASSUME offset = Start(sent, n)
      PROVE  /\ Start(sent, n + 1) = offset + w
             /\ v # sent.fields[n + 1] =>
                   Region(sent, n + 1) \cap Changed(payload, Encode(sent)) # {}
  <2>1. \/ Decoder(sent.type)[n + 1] = "u32" /\ w = Width32
        \/ Decoder(sent.type)[n + 1] = "u64" /\ w = Width64
    BY <1>3, <1>4
  <2>2. Start(sent, n) + w <= Len(payload)
    BY <1>5, <1>7
  <2> QED
    BY <1>2, <1>3, <1>4, <1>7, <2>1, <2>2, NumberRead
<1>8. IInv'
  <2>1. Fits(w) /\ got' = Append(got, v) /\ offset' = offset + w
    BY <1>1, <1>2
  <2>2. offset = Start(sent, Len(got))
        /\ (NextField = "bytes" => Len(v) = Len(sent.fields[Len(got) + 1]))
        => /\ Start(sent, Len(got) + 1) = offset + w
           /\ v # sent.fields[Len(got) + 1] =>
                 Region(sent, Len(got) + 1) \cap Changed(payload, Encode(sent)) # {}
    BY <1>2, <1>7
  <2> QED
    BY <1>1, <1>4, <1>6, <2>1, <2>2, ReadStep
<1>9. ASSUME LengthsKept PROVE LengthsKept'
  <2>1. /\ DOMAIN got' = 1 .. n + 1 /\ DOMAIN got = 1 .. n /\ n \in Nat
        /\ \A i \in 1 .. n : got'[i] = got[i]
    BY <1>1, <1>2, <1>3, <1>6
  <2>2. \A i \in 1 .. n + 1 : i \in 1 .. n \/ i = n + 1
    BY <2>1
  <2>3. Decoder(sent.type)[n + 1] # "bytes"
    BY <1>1, <1>3
  <2> QED
    BY <1>1, <1>9, <2>1, <2>2, <2>3 DEF LengthsKept
<1> QED
  BY <1>8, <1>9

\* A block keeps its length unless a byte was flipped.
LEMMA ReadBytesStep ==
    ASSUME IInv, ReadBytes
    PROVE  IInv' /\ (Representable /\ harm # "flip" /\ LengthsKept => LengthsKept')
<1>1. /\ Decoding /\ NextField = "bytes" /\ Fits(FieldSize)
      /\ got' = Append(got, SubSeq(payload, offset + Width32 + 1, offset + FieldSize))
      /\ offset' = offset + FieldSize
      /\ UNCHANGED <<sent, link, harm, stage, header, payload>>
  BY DEF ReadBytes
<1>2. PICK n, v, l : /\ n = Len(got)
                     /\ v = SubSeq(payload, offset + Width32 + 1, offset + FieldSize)
                     /\ l = GetUint(Width32, payload, offset)
  OBVIOUS
<1>3. /\ sent \in Messages /\ payload \in Seq(Bytes) /\ got \in Seq(Values) /\ offset \in Nat
      /\ n \in 0 .. NumberOfFields(sent) - 1
      /\ NextField = Decoder(sent.type)[n + 1]
  BY <1>1, <1>2, AtField
<1>4. Width32 \in Nat /\ Width32 > 0 /\ Len(payload) \in Nat
  BY <1>3, Widths
<1>5. /\ offset + Width32 <= Len(payload) /\ FieldSize = Width32 + l
      /\ offset + (Width32 + l) <= Len(payload) /\ l \in Nat
  <2>1. FieldSize = IF offset + Width32 <= Len(payload) THEN Width32 + l ELSE Width32
    BY <1>1, <1>2 DEF FieldSize, BlockSize, Fits
  <2>2. offset + FieldSize <= Len(payload)
    BY <1>1 DEF Fits
  <2>3. offset + Width32 <= Len(payload)
    BY <2>1, <2>2
  <2>4. l \in Nat
    BY <1>2, <1>3, <1>4, <2>3, GetUintType
  <2> QED
    BY <2>1, <2>2, <2>3, <2>4
<1>6. /\ v \in Seq(Bytes) /\ Len(v) = l
      /\ \A j \in 1 .. l : v[j] = payload[offset + (Width32 + j)]
  <2>1. v = SubSeq(payload, offset + Width32 + 1, offset + (Width32 + l))
    BY <1>2, <1>5
  <2> QED
    BY <1>3, <1>4, <1>5, <2>1, BlockBytes
<1>7. ASSUME offset = Start(sent, n), Len(v) = Len(sent.fields[n + 1])
      PROVE  /\ Start(sent, n + 1) = offset + FieldSize
             /\ v # sent.fields[n + 1] =>
                   Region(sent, n + 1) \cap Changed(payload, Encode(sent)) # {}
  <2>1. /\ Decoder(sent.type)[n + 1] = "bytes" /\ l = Len(sent.fields[n + 1])
        /\ Start(sent, n) + (Width32 + l) <= Len(payload)
        /\ \A j \in 1 .. l : v[j] = payload[Start(sent, n) + (Width32 + j)]
    BY <1>1, <1>3, <1>5, <1>6, <1>7
  <2>2. /\ Start(sent, n + 1) = Start(sent, n) + (Width32 + l)
        /\ v # sent.fields[n + 1] => Region(sent, n + 1) \cap Changed(payload, Encode(sent)) # {}
    BY <1>3, <1>5, <1>6, <2>1, BlockRead
  <2> QED
    BY <1>5, <1>7, <2>2
<1>8. IInv'
  <2>1. got' = Append(got, v) /\ v \in Values /\ FieldSize \in Nat
    BY <1>1, <1>2, <1>4, <1>5, <1>6 DEF Values
  <2>2. offset = Start(sent, Len(got))
        /\ (NextField = "bytes" => Len(v) = Len(sent.fields[Len(got) + 1]))
        => /\ Start(sent, Len(got) + 1) = offset + FieldSize
           /\ v # sent.fields[Len(got) + 1] =>
                 Region(sent, Len(got) + 1) \cap Changed(payload, Encode(sent)) # {}
    BY <1>1, <1>2, <1>7
  <2> QED
    BY <1>1, <2>1, <2>2, ReadStep
<1>9. ASSUME Representable, harm # "flip", LengthsKept PROVE LengthsKept'
  <2>1. /\ DOMAIN got' = 1 .. n + 1 /\ DOMAIN got = 1 .. n /\ n \in Nat
        /\ got'[n + 1] = v /\ \A i \in 1 .. n : got'[i] = got[i]
    <3>1. v \in Values /\ got' = Append(got, v)
      BY <1>1, <1>2, <1>6 DEF Values
    <3> QED
      BY <1>2, <1>3, <3>1, Appended
  <2>2. \A i \in 1 .. n + 1 : i \in 1 .. n \/ i = n + 1
    BY <2>1
  <2>3. Changed(payload, Encode(sent)) = {} /\ offset = Start(sent, n)
    BY <1>2, <1>9 DEF IInv, PayloadInv, DecodeInv
  <2>4. Decoder(sent.type)[n + 1] = "bytes" /\ Start(sent, n) + Width32 <= Len(payload)
    BY <1>1, <1>3, <1>5, <2>3
  <2>5. Len(v) = Len(sent.fields[n + 1])
    BY <1>2, <1>3, <1>6, <1>9, <2>3, <2>4, LengthRead
  <2> QED
    BY <1>1, <1>9, <2>1, <2>2, <2>5 DEF LengthsKept
<1> QED
  BY <1>8, <1>9
-----------------------------------------------------------------------------
(* The theorems.                                                           *)

\* Every step preserves the invariant.
LEMMA StepInv == IInv /\ [Next]_vars => IInv'
<1> SUFFICES ASSUME IInv, [Next]_vars PROVE IInv'
  OBVIOUS
<1>1. CASE CutFrame \/ AppendFrame \/ FlipByte
  BY <1>1, LinkStep
<1>2. CASE BadHeader \/ WrongType \/ Truncated
  BY <1>2, ThrowStep DEF BadHeader, WrongType, Truncated
<1>3. CASE ParseHeader
  BY <1>3, HeaderStep
<1>4. CASE ReadNumber
  BY <1>4, ReadNumberStep
<1>5. CASE ReadBytes
  BY <1>5, ReadBytesStep
<1>6. CASE Return
  BY <1>6, ReturnStep
<1>7. CASE UNCHANGED vars
  <2>1. UNCHANGED <<sent, link, harm, stage, header, payload, offset, got>>
    BY <1>7 DEF vars
  <2>2. TypeOK' /\ InBounds' /\ LinkInv' /\ PayloadInv' /\ StageInv'
    BY <2>1 DEF IInv, TypeOK, InBounds, LinkInv, PayloadInv, StageInv
  <2>3. DecodeInv'
    BY <2>1, ReceiverKept DEF IInv
  <2> QED
    BY <2>2, <2>3 DEF IInv
<1> QED
  BY <1>1, <1>2, <1>3, <1>4, <1>5, <1>6, <1>7 DEF Next

\* The inductive invariant holds always.
LEMMA Invariant == Spec => []IInv
<1>1. Init => IInv
  BY InitInv
<1>2. IInv /\ [Next]_vars => IInv'
  BY StepInv
<1> QED
  BY <1>1, <1>2, PTL DEF Spec

\* Lengths are kept by every step of a run in which no byte is flipped, and the
\* length in the header is that of the payload.
LEMMA StepLengths ==
    ASSUME Representable, IInv, LengthInv, HeaderTellsRest, [Next]_vars
    PROVE  LengthInv' /\ HeaderTellsRest'
<1>1. CASE CutFrame \/ AppendFrame \/ FlipByte
  <2>1. stage = "waiting" /\ UNCHANGED <<sent, header, got>>
    BY <1>1 DEF CutFrame, AppendFrame, FlipByte, OnLink, receiverVars
  <2>2. header' = NoHeader /\ got' = <<>>
    BY <2>1 DEF IInv, StageInv
  <2> QED
    BY <2>1, <2>2 DEF LengthInv, LengthsKept, HeaderTellsRest
<1>2. CASE BadHeader \/ WrongType \/ Truncated \/ Return \/ UNCHANGED vars
  <2>1. UNCHANGED <<sent, harm, header, got>>
    BY <1>2 DEF BadHeader, WrongType, Truncated, Throw, Return, vars
  <2> QED
    BY <2>1 DEF LengthInv, LengthsKept, HeaderTellsRest
<1>3. CASE ParseHeader
  <2>1. UNCHANGED <<sent, harm, got>>
    BY <1>3 DEF ParseHeader
  <2>2. harm # "flip" => header'.payload_len = Len(Encode(sent))
    BY <1>3, HeaderStep
  <2> QED
    BY <2>1, <2>2 DEF LengthInv, LengthsKept, HeaderTellsRest
<1>4. CASE ReadNumber
  <2>1. UNCHANGED <<sent, harm, header>>
    BY <1>4 DEF ReadNumber
  <2>2. LengthsKept => LengthsKept'
    BY <1>4, ReadNumberStep
  <2> QED
    BY <2>1, <2>2 DEF LengthInv, HeaderTellsRest
<1>5. CASE ReadBytes
  <2>1. UNCHANGED <<sent, harm, header>>
    BY <1>5 DEF ReadBytes
  <2>2. harm # "flip" /\ LengthsKept => LengthsKept'
    BY <1>5, ReadBytesStep
  <2> QED
    BY <2>1, <2>2 DEF LengthInv, HeaderTellsRest
<1> QED
  BY <1>1, <1>2, <1>3, <1>4, <1>5 DEF Next

\* In a run in which no byte is flipped all lengths are right.
LEMMA InvariantLengths ==
    ASSUME Representable
    PROVE  Spec => [](IInv /\ LengthInv /\ HeaderTellsRest)
<1>1. Init => IInv /\ LengthInv /\ HeaderTellsRest
  <2>1. Init => LengthInv /\ HeaderTellsRest
    BY DEF Init, LengthInv, LengthsKept, HeaderTellsRest
  <2> QED
    BY <2>1, InitInv
<1>2. IInv /\ LengthInv /\ HeaderTellsRest /\ [Next]_vars
      => (IInv /\ LengthInv /\ HeaderTellsRest)'
  BY StepInv, StepLengths
<1> QED
  BY <1>1, <1>2, PTL DEF Spec

\* The types of the receiver's variables, for every frame and every fault.
THEOREM TypeCorrect == Spec => []TypeOK
<1>1. IInv => TypeOK
  BY DEF IInv
<1> QED
  BY <1>1, Invariant, PTL

\* Whatever lengths the frame claims, ReadBytes and the reads of numbers stay
\* in the payload.
THEOREM NeverOutOfBounds == Spec => []InBounds
<1>1. IInv => InBounds
  BY DEF IInv
<1> QED
  BY <1>1, Invariant, PTL

\* The regions of two fields have no position in common.
LEMMA RegionsApart ==
    ASSUME NEW m \in Messages, NEW i \in 1 .. NumberOfFields(m),
           NEW j \in 1 .. NumberOfFields(m), i < j
    PROVE  Region(m, i) \cap Region(m, j) = {}
<1>1. NumberOfFields(m) \in 2 .. 4
  BY FieldTypes
<1>2. i \in 0 .. NumberOfFields(m) /\ j - 1 \in i .. NumberOfFields(m)
      /\ i - 1 \in 0 .. NumberOfFields(m) /\ j - 1 \in 0 .. NumberOfFields(m)
      /\ j \in 0 .. NumberOfFields(m)
  BY <1>1
<1>3. Start(m, i) <= Start(m, j - 1)
  BY <1>2, WrittenBegins
<1>4. Start(m, i) \in Nat /\ Start(m, i - 1) \in Nat /\ Start(m, j) \in Nat
      /\ Start(m, j - 1) \in Nat
  BY <1>2, WrittenType
<1> QED
  BY <1>3, <1>4 DEF Region

\* A changed byte that leaves all lengths as they were changes one field: the
\* fields a decoder reads wrong have a changed byte of their own each.
THEOREM DamageStaysLocal == Spec => []DamageIsLocal
<1>1. IInv => DamageIsLocal
  <2> SUFFICES ASSUME IInv, LengthsKept,
                      NEW i \in DOMAIN got, NEW j \in DOMAIN got,
                      got[i] # sent.fields[i], got[j] # sent.fields[j]
               PROVE  i = j
    BY DEF DamageIsLocal, LengthsKept
  <2>1. sent \in Messages /\ got \in Seq(Values) /\ Len(got) <= NumberOfFields(sent)
    BY DEF IInv, TypeOK, StageInv, NumberOfFields
  <2>2. i \in 1 .. NumberOfFields(sent) /\ j \in 1 .. NumberOfFields(sent)
    <3>1. NumberOfFields(sent) \in 2 .. 4
      BY <2>1, FieldTypes
    <3> QED
      BY <2>1, <3>1
  <2>3. PICK p \in Region(sent, i) : p \in Changed(payload, Encode(sent))
    BY DEF IInv, DecodeInv
  <2>4. PICK q \in Region(sent, j) : q \in Changed(payload, Encode(sent))
    BY DEF IInv, DecodeInv
  <2>5. p = q
    BY <2>3, <2>4 DEF IInv, PayloadInv, AtMostOne
  <2>6. ~(i < j) /\ ~(j < i)
    BY <2>1, <2>2, <2>3, <2>4, <2>5, RegionsApart
  <2> QED
    BY <2>2, <2>6
<1> QED
  BY <1>1, Invariant, PTL

\* At the end of a message whose lengths are right, all of it has been read.
LEMMA AllRead ==
    ASSUME IInv, stage = "decoded", LengthsKept
    PROVE  offset = Len(Encode(sent))
<1>1. sent \in Messages /\ Len(got) = NumberOfFields(sent) /\ offset = Start(sent, Len(got))
  BY DEF IInv, TypeOK, StageInv, DecodeInv
<1>2. Encode(sent) = Written(sent, NumberOfFields(sent))
  BY <1>1, EncodeIsWritten
<1> QED
  BY <1>1, <1>2 DEF Start

\* If every payload's length fits into 32 bits, what the decoders return is
\* what the encoders were given.
THEOREM RoundTripHolds ==
    ASSUME Representable
    PROVE  Spec => []RoundTrip
<1>1. IInv /\ LengthInv => RoundTrip
  <2> SUFFICES ASSUME IInv, LengthInv, stage = "decoded", harm \in {"none", "append"}
               PROVE  got = sent.fields
    BY DEF RoundTrip
  <2>1. sent \in Messages /\ got \in Seq(Values) /\ Len(got) = NumberOfFields(sent)
    BY DEF IInv, TypeOK, StageInv
  <2>2. sent.fields \in Seq(Values) /\ Len(sent.fields) = NumberOfFields(sent)
    BY <2>1, FieldTypes
  <2>3. Changed(payload, Encode(sent)) = {}
    BY DEF IInv, PayloadInv
  <2>4. \A i \in DOMAIN got : got[i] = sent.fields[i]
    BY <2>3 DEF IInv, LengthInv, DecodeInv
  <2>5. \A i \in 1 .. Len(got) : got[i] = sent.fields[i]
    BY <2>1, <2>4
  <2> QED
    BY <2>1, <2>2, <2>5, SeqEqual
<1>2. Spec => [](IInv /\ LengthInv /\ HeaderTellsRest)
  BY InvariantLengths
<1> QED
  BY <1>1, <1>2, PTL

\* If every payload's length fits into 32 bits, a frame of which any number of
\* bytes is missing is never taken for a message.
THEOREM CutNeverDecodes ==
    ASSUME Representable
    PROVE  Spec => []CutIsNoticed
<1>1. IInv /\ LengthInv => CutIsNoticed
  <2> SUFFICES ASSUME IInv, LengthInv, harm = "cut", stage = "decoded" PROVE FALSE
    BY DEF CutIsNoticed
  <2>1. offset = Len(Encode(sent))
    BY AllRead DEF LengthInv
  <2>2. Len(payload) < Len(Encode(sent)) /\ offset <= Len(payload)
    BY DEF IInv, PayloadInv, InBounds
  <2>3. Len(payload) \in Nat /\ Len(Encode(sent)) \in Nat
    BY EncodeType DEF IInv, TypeOK
  <2> QED
    BY <2>1, <2>2, <2>3
<1>2. Spec => [](IInv /\ LengthInv /\ HeaderTellsRest)
  BY InvariantLengths
<1> QED
  BY <1>1, <1>2, PTL

\* If every payload's length fits into 32 bits, the header tells it, also when
\* fewer bytes have come or more.
THEOREM HeaderIsRight ==
    ASSUME Representable
    PROVE  Spec => []HeaderTellsRest
<1>1. Spec => [](IInv /\ LengthInv /\ HeaderTellsRest)
  BY InvariantLengths
<1> QED
  BY <1>1, PTL
=============================================================================
