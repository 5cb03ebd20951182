--------------------------- MODULE AdmissionProofs ---------------------------
(***************************************************************************)
(* Proofs about Admission, for any services, requests, specs, annotations, *)
(* width of an int32 and budget of outside events.                         *)
(***************************************************************************)
EXTENDS Admission, WatchedObjectProofs, WellFoundedInduction, SequenceTheorems

-----------------------------------------------------------------------------
(* itoa.  Induction is by a least counterexample, which WFMin provides.    *)

\* Every nonempty set of naturals has a least element.
LEMMA LeastNatural ==
    ASSUME NEW T, T \subseteq Nat, T # {}
    PROVE  \E x \in T : \A y \in T : x <= y
<1>1. IsWellFoundedOn(OpToRel(<, Nat), Nat)
  BY NatLessThanWellFounded
<1>2. PICK x \in T : \A y \in T : ~(<<y, x>> \in OpToRel(<, Nat))
  BY <1>1, WFMin
<1>3. \A y \in T : ~(y < x)
  BY <1>2 DEF OpToRel
<1>4. ASSUME NEW y \in T PROVE x <= y
  <2>1. x \in Nat /\ y \in Nat
    OBVIOUS
  <2> QED
    BY <1>3, <2>1
<1> QED
  BY <1>4

\* What the loop of itoa does to a number.
LEMMA Quotient ==
    ASSUME NEW n \in Nat, n # 0
    PROVE  /\ n \div 10 \in Nat
           /\ n \div 10 < n
           /\ n % 10 \in 0 .. 9
           /\ n = 10 * (n \div 10) + (n % 10)
OBVIOUS

\* f is Digits up to n.
DigitsUpTo(f, n) ==
    /\ f \in [0 .. n -> Seq(0 .. 9)]
    /\ \A m \in 0 .. n :
          f[m] = IF m = 0 THEN <<>> ELSE Append(f[m \div 10], m % 10)

\* There is at most one such function.
LEMMA DigitsAgree ==
    ASSUME NEW f, NEW n \in Nat, DigitsUpTo(f, n),
           NEW g, NEW k \in Nat, DigitsUpTo(g, k)
    PROVE  \A m \in Nat : m <= n /\ m <= k => f[m] = g[m]
<1> DEFINE T == {m \in Nat : m <= n /\ m <= k /\ f[m] # g[m]}
<1>1. SUFFICES ASSUME T # {} PROVE FALSE
  OBVIOUS
<1>2. PICK m \in T : \A y \in T : m <= y
  BY <1>1, LeastNatural
<1>3. m \in Nat /\ m \in 0 .. n /\ m \in 0 .. k /\ f[m] # g[m]
  BY <1>2
<1>4. m # 0
  BY <1>3 DEF DigitsUpTo
<1>5. m \div 10 \in Nat /\ m \div 10 < m
  BY <1>3, <1>4, Quotient
<1>6. f[m \div 10] = g[m \div 10]
  <2>1. m \div 10 \notin T
    BY <1>2, <1>3, <1>5
  <2> QED
    BY <1>3, <1>5, <2>1
<1>7. /\ f[m] = Append(f[m \div 10], m % 10)
      /\ g[m] = Append(g[m \div 10], m % 10)
  BY <1>3, <1>4 DEF DigitsUpTo
<1> QED
  BY <1>3, <1>6, <1>7

\* There is one for every n.
LEMMA DigitsExist == \A n \in Nat : \E f : DigitsUpTo(f, n)
<1> DEFINE T == {n \in Nat : ~ \E f : DigitsUpTo(f, n)}
<1>1. SUFFICES ASSUME T # {} PROVE FALSE
  OBVIOUS
<1>2. PICK n \in T : \A y \in T : n <= y
  BY <1>1, LeastNatural
<1>3. n \in Nat /\ ~ \E f : DigitsUpTo(f, n)
  BY <1>2
<1>4. CASE n = 0
  <2> DEFINE f == [m \in 0 .. 0 |-> <<>>]
  <2>1. DigitsUpTo(f, 0)
    BY DEF DigitsUpTo
  <2> QED
    BY <1>3, <1>4, <2>1
<1>5. CASE n # 0
  <2>1. n - 1 \in Nat /\ n - 1 < n
    BY <1>3, <1>5
  <2>2. n - 1 \notin T
    BY <1>2, <1>3, <2>1
  <2>3. PICK f : DigitsUpTo(f, n - 1)
    BY <2>1, <2>2
  <2> DEFINE g == [m \in 0 .. n |->
                      IF m = n THEN Append(f[n \div 10], n % 10) ELSE f[m]]
  <2>4. n \div 10 \in 0 .. n - 1 /\ n % 10 \in 0 .. 9
    BY <1>3, <1>5, Quotient
  <2>5. f[n \div 10] \in Seq(0 .. 9)
    BY <2>3, <2>4 DEF DigitsUpTo
  <2>6. Append(f[n \div 10], n % 10) \in Seq(0 .. 9)
    BY <2>4, <2>5
  <2>7. \A m \in 0 .. n - 1 : g[m] = f[m] /\ f[m] \in Seq(0 .. 9)
    BY <1>3, <2>3 DEF DigitsUpTo
  <2>8. g \in [0 .. n -> Seq(0 .. 9)]
    <3>1. \A m \in 0 .. n : m = n \/ m \in 0 .. n - 1
      BY <1>3
    <3>2. g[n] = Append(f[n \div 10], n % 10)
      BY <1>3
    <3>3. g = [m \in 0 .. n |-> g[m]]
      OBVIOUS
    <3> HIDE DEF g
    <3>4. \A m \in 0 .. n : g[m] \in Seq(0 .. 9)
      BY <2>6, <2>7, <3>1, <3>2
    <3> QED
      BY <3>3, <3>4
  <2>9. ASSUME NEW m \in 0 .. n
        PROVE  g[m] = IF m = 0 THEN <<>> ELSE Append(g[m \div 10], m % 10)
    <3>1. CASE m = n
      <4>1. g[n] = Append(f[n \div 10], n % 10)
        BY <1>3
      <4>2. g[n \div 10] = f[n \div 10]
        BY <2>4, <2>7
      <4> QED
        BY <1>5, <3>1, <4>1, <4>2
    <3>2. CASE m # n
      <4>1. m \in 0 .. n - 1 /\ m \in Nat
        BY <1>3, <2>9, <3>2
      <4>2. f[m] = IF m = 0 THEN <<>> ELSE Append(f[m \div 10], m % 10)
        BY <2>3, <4>1 DEF DigitsUpTo
      <4>3. m # 0 => m \div 10 \in 0 .. n - 1
        BY <1>3, <4>1, Quotient
      <4> HIDE DEF g
      <4> QED
        BY <2>7, <4>1, <4>2, <4>3
    <3> QED
      BY <3>1, <3>2
  <2>10. DigitsUpTo(g, n)
    BY <2>8, <2>9 DEF DigitsUpTo
  <2> QED
    BY <1>3, <2>10
<1> QED
  BY <1>4, <1>5

\* Digits is the function its definition describes.
LEMMA DigitsDef ==
    /\ \A n \in Nat : Digits[n] \in Seq(0 .. 9)
    /\ Digits[0] = <<>>
    /\ \A n \in Nat \ {0} : Digits[n] = Append(Digits[n \div 10], n % 10)
<1> DEFINE F == [n \in Nat |-> (CHOOSE f : DigitsUpTo(f, n))[n]]
<1>1. \A n \in Nat : DigitsUpTo(CHOOSE f : DigitsUpTo(f, n), n)
  BY DigitsExist
<1>2. ASSUME NEW n \in Nat, NEW f, DigitsUpTo(f, n), NEW m \in 0 .. n
      PROVE  F[m] = f[m]
  <2>1. m \in Nat /\ m <= n
    BY <1>2
  <2>2. DigitsUpTo(CHOOSE g : DigitsUpTo(g, m), m)
    BY <1>1, <2>1
  <2>3. (CHOOSE g : DigitsUpTo(g, m))[m] = f[m]
    BY <1>2, <2>1, <2>2, DigitsAgree
  <2> QED
    BY <2>1, <2>3
<1> HIDE DEF F
<1>3. ASSUME NEW n \in Nat
      PROVE  /\ F[n] \in Seq(0 .. 9)
             /\ F[n] = IF n = 0 THEN <<>> ELSE Append(F[n \div 10], n % 10)
  <2>1. PICK f : DigitsUpTo(f, n)
    BY DigitsExist
  <2>2. n \in 0 .. n /\ (n # 0 => n \div 10 \in 0 .. n)
    BY Quotient
  <2>3. F[n] = f[n] /\ (n # 0 => F[n \div 10] = f[n \div 10])
    BY <1>2, <2>1, <2>2
  <2> QED
    BY <2>1, <2>2, <2>3 DEF DigitsUpTo
<1>4. F = [n \in Nat |-> IF n = 0 THEN <<>> ELSE Append(F[n \div 10], n % 10)]
  <2>1. F = [n \in Nat |-> F[n]]
    BY DEF F
  <2> QED
    BY <1>3, <2>1
<1>5. Digits = [n \in Nat |->
                   IF n = 0 THEN <<>> ELSE Append(Digits[n \div 10], n % 10)]
  BY <1>4 DEF Digits
<1>6. Digits[0] = <<>>
  BY <1>5
<1>7. \A n \in Nat \ {0} : Digits[n] = Append(Digits[n \div 10], n % 10)
  BY <1>5
<1>8. \A n \in Nat : Digits[n] \in Seq(0 .. 9)
  <2> DEFINE T == {n \in Nat : Digits[n] \notin Seq(0 .. 9)}
  <2>1. SUFFICES ASSUME T # {} PROVE FALSE
    OBVIOUS
  <2>2. PICK n \in T : \A y \in T : n <= y
    BY <2>1, LeastNatural
  <2>3. n \in Nat /\ n # 0 /\ Digits[n] \notin Seq(0 .. 9)
    <3>1. n \in Nat /\ Digits[n] \notin Seq(0 .. 9)
      BY <2>2
    <3>2. <<>> \in Seq(0 .. 9)
      OBVIOUS
    <3> QED
      BY <1>6, <3>1, <3>2
  <2>4. n \div 10 \in Nat /\ n \div 10 < n /\ n % 10 \in 0 .. 9
    BY <2>3, Quotient
  <2>5. Digits[n \div 10] \in Seq(0 .. 9)
    <3>1. n \div 10 \notin T
      BY <2>2, <2>3, <2>4
    <3> QED
      BY <2>4, <3>1
  <2>6. Append(Digits[n \div 10], n % 10) \in Seq(0 .. 9)
    BY <2>4, <2>5
  <2> QED
    BY <1>7, <2>3, <2>6
<1> QED
  BY <1>6, <1>7, <1>8

\* The digits of a sequence but the last.
LEMMA FrontLast ==
    ASSUME NEW s \in Seq(Int), s # <<>>
    PROVE  /\ Front(s) \in Seq(Int)
           /\ Len(Front(s)) = Len(s) - 1
           /\ Last(s) \in Int
           /\ Len(s) \in Nat \ {0}
<1>1. Len(s) \in Nat \ {0}
  OBVIOUS
<1>2. Len(s) \in 1 .. Len(s) /\ \A i \in 1 .. Len(s) : s[i] \in Int
  BY <1>1
<1>3. /\ SubSeq(s, 1, Len(s) - 1) \in Seq(Int)
      /\ Len(SubSeq(s, 1, Len(s) - 1)) = Len(s) - 1
  <2> DEFINE k == Len(s) - 1
  <2>1. k \in Nat /\ \A i \in 1 .. k : s[i] \in Int
    BY <1>1, <1>2
  <2> HIDE DEF k
  <2>2. /\ SubSeq(s, 1, k) \in Seq(Int)
        /\ Len(SubSeq(s, 1, k)) = IF 1 <= k THEN k - 1 + 1 ELSE 0
    BY <2>1, SubSeqProperties
  <2>3. Len(SubSeq(s, 1, k)) = k
    BY <2>1, <2>2
  <2> QED
    BY <2>2, <2>3 DEF k
<1> QED
  BY <1>1, <1>2, <1>3 DEF Front, Last

\* f is Number on the sequences of up to n digits.
Short(n) == {s \in Seq(Int) : Len(s) <= n}

NumberUpTo(f, n) ==
    /\ f \in [Short(n) -> Int]
    /\ \A s \in Short(n) :
          f[s] = IF s = <<>> THEN 0 ELSE 10 * f[Front(s)] + Last(s)

\* There is at most one such function.
LEMMA NumberAgree ==
    ASSUME NEW f, NEW n \in Nat, NumberUpTo(f, n),
           NEW g, NEW k \in Nat, NumberUpTo(g, k)
    PROVE  \A s \in Short(n) \cap Short(k) : f[s] = g[s]
<1> DEFINE T == {m \in Nat : \E s \in Short(n) \cap Short(k) : Len(s) = m /\ f[s] # g[s]}
<1>1. SUFFICES ASSUME T # {} PROVE FALSE
  <2>1. \A s \in Short(n) : Len(s) \in Nat
    BY DEF Short
  <2> QED
    BY <2>1
<1>2. PICK m \in T : \A y \in T : m <= y
  BY <1>1, LeastNatural
<1>3. PICK s \in Short(n) \cap Short(k) : Len(s) = m /\ f[s] # g[s]
  BY <1>2
<1>4. s \in Seq(Int) /\ Len(s) <= n /\ Len(s) <= k
  BY <1>3 DEF Short
<1>5. s # <<>>
  BY <1>3 DEF NumberUpTo
<1>6. /\ Front(s) \in Seq(Int) /\ Len(Front(s)) = m - 1 /\ m \in Nat \ {0}
  BY <1>3, <1>4, <1>5, FrontLast
<1>7. Front(s) \in Short(n) \cap Short(k)
  BY <1>3, <1>4, <1>6 DEF Short
<1>8. f[Front(s)] = g[Front(s)]
  <2>1. m - 1 \in Nat /\ ~(m <= m - 1)
    BY <1>6
  <2>2. m - 1 \notin T
    BY <1>2, <2>1
  <2> QED
    BY <1>6, <1>7, <2>1, <2>2
<1>9. /\ f[s] = 10 * f[Front(s)] + Last(s)
      /\ g[s] = 10 * g[Front(s)] + Last(s)
  BY <1>3, <1>5 DEF NumberUpTo
<1> QED
  BY <1>3, <1>8, <1>9

\* There is one for every n.
LEMMA NumberExists == \A n \in Nat : \E f : NumberUpTo(f, n)
<1> DEFINE T == {n \in Nat : ~ \E f : NumberUpTo(f, n)}
<1>1. SUFFICES ASSUME T # {} PROVE FALSE
  OBVIOUS
<1>2. PICK n \in T : \A y \in T : n <= y
  BY <1>1, LeastNatural
<1>3. n \in Nat /\ ~ \E f : NumberUpTo(f, n)
  BY <1>2
<1>4. CASE n = 0
  <2> DEFINE f == [s \in Short(0) |-> 0]
  <2>1. \A s \in Short(0) : s = <<>>
    BY DEF Short
  <2>2. NumberUpTo(f, 0)
    BY <2>1 DEF NumberUpTo
  <2> QED
    BY <1>3, <1>4, <2>2
<1>5. CASE n # 0
  <2>1. n - 1 \in Nat /\ ~(n <= n - 1)
    BY <1>3, <1>5
  <2>2. n - 1 \notin T
    BY <1>2, <2>1
  <2>3. PICK f : NumberUpTo(f, n - 1)
    BY <2>1, <2>2
  <2> DEFINE g == [s \in Short(n) |->
                      IF s = <<>> THEN 0 ELSE 10 * f[Front(s)] + Last(s)]
  <2>4. ASSUME NEW s \in Short(n), s # <<>>
        PROVE  /\ Front(s) \in Short(n - 1) /\ Front(s) \in Short(n)
               /\ Last(s) \in Int
    <3>1. s \in Seq(Int) /\ Len(s) <= n /\ Len(s) \in Nat
      BY <2>4 DEF Short
    <3>2. /\ Front(s) \in Seq(Int) /\ Len(Front(s)) = Len(s) - 1
          /\ Last(s) \in Int
      BY <2>4, <3>1, FrontLast
    <3>3. Len(Front(s)) <= n - 1 /\ Len(Front(s)) <= n
      BY <1>3, <3>1, <3>2
    <3> QED
      BY <3>2, <3>3 DEF Short
  <2>5. \A s \in Short(n) : s # <<>> => f[Front(s)] \in Int
    BY <2>3, <2>4 DEF NumberUpTo
  <2>6. g \in [Short(n) -> Int]
    BY <2>4, <2>5
  <2>7. ASSUME NEW s \in Short(n - 1) PROVE s \in Short(n) /\ g[s] = f[s]
    <3>1. s \in Short(n)
      BY <1>3, <2>7 DEF Short
    <3> QED
      BY <2>3, <2>7, <3>1 DEF NumberUpTo
  <2>8. \A s \in Short(n) : g[s] = IF s = <<>> THEN 0 ELSE 10 * g[Front(s)] + Last(s)
    <3> SUFFICES ASSUME NEW s \in Short(n)
                 PROVE  g[s] = IF s = <<>> THEN 0 ELSE 10 * g[Front(s)] + Last(s)
      OBVIOUS
    <3>1. g[s] = IF s = <<>> THEN 0 ELSE 10 * f[Front(s)] + Last(s)
      OBVIOUS
    <3>2. s # <<>> => g[Front(s)] = f[Front(s)]
      BY <2>4, <2>7
    <3> HIDE DEF g
    <3> QED
      BY <3>1, <3>2
  <2>9. NumberUpTo(g, n)
    BY <2>6, <2>8 DEF NumberUpTo
  <2> QED
    BY <1>3, <2>9
<1> QED
  BY <1>4, <1>5

\* Number is the function its definition describes.
LEMMA NumberDef ==
    /\ Number[<<>>] = 0
    /\ \A s \in Seq(Int) : s # <<>> => Number[s] = 10 * Number[Front(s)] + Last(s)
<1> DEFINE F == [s \in Seq(Int) |-> (CHOOSE f : NumberUpTo(f, Len(s)))[s]]
<1>1. ASSUME NEW n \in Nat, NEW f, NumberUpTo(f, n), NEW s \in Short(n)
      PROVE  F[s] = f[s]
  <2>1. s \in Seq(Int) /\ Len(s) \in Nat /\ s \in Short(Len(s))
    BY <1>1 DEF Short
  <2>2. NumberUpTo(CHOOSE g : NumberUpTo(g, Len(s)), Len(s))
    BY <2>1, NumberExists
  <2>3. (CHOOSE g : NumberUpTo(g, Len(s)))[s] = f[s]
    BY <1>1, <2>1, <2>2, NumberAgree
  <2> QED
    BY <2>1, <2>3
<1> HIDE DEF F
<1>2. ASSUME NEW s \in Seq(Int)
      PROVE  F[s] = IF s = <<>> THEN 0 ELSE 10 * F[Front(s)] + Last(s)
  <2>1. Len(s) \in Nat /\ s \in Short(Len(s))
    BY DEF Short
  <2>2. PICK f : NumberUpTo(f, Len(s))
    BY <2>1, NumberExists
  <2>3. s # <<>> => Front(s) \in Short(Len(s))
    BY <2>1, FrontLast DEF Short
  <2>4. F[s] = f[s] /\ (s # <<>> => F[Front(s)] = f[Front(s)])
    BY <1>1, <2>1, <2>2, <2>3
  <2> QED
    BY <2>1, <2>2, <2>4 DEF NumberUpTo
<1>3. F = [s \in Seq(Int) |-> IF s = <<>> THEN 0 ELSE 10 * F[Front(s)] + Last(s)]
  <2>1. F = [s \in Seq(Int) |-> F[s]]
    BY DEF F
  <2> QED
    BY <1>2, <2>1
<1>4. Number = [s \in Seq(Int) |->
                   IF s = <<>> THEN 0 ELSE 10 * Number[Front(s)] + Last(s)]
  BY <1>3 DEF Number
<1>5. <<>> \in Seq(Int)
  OBVIOUS
<1>6. \A s \in Seq(Int) :
         Number[s] = IF s = <<>> THEN 0 ELSE 10 * Number[Front(s)] + Last(s)
  BY <1>4
<1> QED
  BY <1>5, <1>6

\* The digits of a number stand for that number.
LEMMA NumberOfDigits == \A n \in Nat : Number[Digits[n]] = n
<1> DEFINE T == {n \in Nat : Number[Digits[n]] # n}
<1>1. SUFFICES ASSUME T # {} PROVE FALSE
  OBVIOUS
<1>2. PICK n \in T : \A y \in T : n <= y
  BY <1>1, LeastNatural
<1>3. n \in Nat /\ Number[Digits[n]] # n
  BY <1>2
<1>4. n # 0
  BY <1>3, DigitsDef, NumberDef
<1>5. /\ n \div 10 \in Nat /\ n \div 10 < n /\ n % 10 \in 0 .. 9
      /\ n = 10 * (n \div 10) + (n % 10)
  BY <1>3, <1>4, Quotient
<1> DEFINE q == Digits[n \div 10]
           d == n % 10
<1>6. q \in Seq(0 .. 9) /\ Digits[n] = Append(q, d)
  BY <1>3, <1>4, <1>5, DigitsDef
<1>7. Number[q] = n \div 10
  <2>1. n \div 10 \notin T
    BY <1>2, <1>3, <1>5
  <2> QED
    BY <1>5, <2>1
<1>8. d \in 0 .. 9 /\ n = 10 * (n \div 10) + d
  BY <1>5
<1> HIDE DEF q, d
<1>9. /\ Append(q, d) \in Seq(Int)
      /\ Append(q, d) # <<>>
      /\ Front(Append(q, d)) = q
      /\ Last(Append(q, d)) = d
  <2>1. q \in Seq(Int)
    BY <1>6, SeqMonotonic, 0 .. 9 \subseteq Int
  <2>2. d \in Int /\ Len(q) \in Nat /\ q = [i \in 1 .. Len(q) |-> q[i]]
    BY <1>8, <2>1
  <2> DEFINE t == Append(q, d)
  <2>3. /\ t \in Seq(Int) /\ t # <<>> /\ Len(t) = Len(q) + 1
        /\ \A i \in 1 .. Len(q) : t[i] = q[i]
        /\ t[Len(q) + 1] = d
    BY <2>1, <2>2, AppendProperties
  <2> HIDE DEF t
  <2>4. Last(t) = d /\ Front(t) = SubSeq(t, 1, Len(q))
    BY <2>2, <2>3 DEF Front, Last
  <2>5. SubSeq(t, 1, Len(q)) = [i \in 1 .. Len(q) |-> t[i]]
    BY <2>2, <2>3
  <2>6. [i \in 1 .. Len(q) |-> t[i]] = [i \in 1 .. Len(q) |-> q[i]]
    BY <2>3
  <2> QED
    BY <2>2, <2>3, <2>4, <2>5, <2>6 DEF t
<1>10. Number[Append(q, d)] = 10 * Number[q] + d
  BY <1>9, NumberDef
<1> QED
  BY <1>3, <1>6, <1>7, <1>8, <1>10

\* A number above 0 has digits.
LEMMA DigitsNonempty == \A n \in Nat \ {0} : Digits[n] # <<>>
<1> SUFFICES ASSUME NEW n \in Nat \ {0} PROVE Digits[n] # <<>>
  OBVIOUS
<1>1. n \div 10 \in Nat /\ n % 10 \in 0 .. 9
  BY Quotient
<1> DEFINE q == Digits[n \div 10]
           d == n % 10
<1>2. Digits[n] = Append(q, d) /\ q \in Seq(0 .. 9) /\ d \in 0 .. 9
  BY <1>1, DigitsDef
<1> HIDE DEF q, d
<1>3. Append(q, d) # <<>>
  BY <1>2, AppendProperties
<1> QED
  BY <1>2, <1>3

\* The negation of an int32: the number's, except for the smallest one, which
\* stays.
LEMMA WrapNegated ==
    ASSUME NEW i \in Int32, i < 0
    PROVE  /\ i # IntMin => Wrap(-i) = -i
           /\ i = IntMin => Wrap(-i) = i
           /\ IntMin \in Int
<1> DEFINE H == 2 ^ (Width - 1)
<1>1. H \in Nat /\ H > 0 /\ 2 ^ Width = 2 * H /\ IntMin = -H
  BY PowerAssumption DEF IntMin
<1> HIDE DEF H
<1>2. i \in Int /\ -H <= i
  BY <1>1 DEF Int32
<1>3. Wrap(-i) = ((-i + H) % (2 * H)) - H
  BY <1>1, <1>2 DEF Wrap
<1> DEFINE D == 2 * H
<1>4. D \in Nat /\ D > 0
  BY <1>1
<1>5. CASE i = IntMin
  <2>1. -i + H = D
    BY <1>1, <1>5
  <2> HIDE DEF D
  <2>2. D % D = 0
    BY <1>4
  <2> QED
    BY <1>1, <1>3, <1>5, <2>1, <2>2 DEF D
<1>6. CASE i # IntMin
  <2> DEFINE x == -i + H
  <2>1. x \in Nat /\ x < D
    BY <1>1, <1>2, <1>6
  <2>2. Wrap(-i) = (x % D) - H
    BY <1>3
  <2> HIDE DEF D, x
  <2>3. x % D = x
    BY <1>4, <2>1
  <2>4. x - H = -i
    BY <1>1, <1>2 DEF x
  <2> QED
    BY <1>1, <1>6, <2>2, <2>3, <2>4
<1> QED
  BY <1>5, <1>6

\* itoa writes the numeral of every natural and of every int32 but the
\* smallest, whose negation overflows: it comes out without a digit.
THEOREM ItoaSays ==
    ASSUME NEW i \in Int32 \cup Nat
    PROVE  itoa(i) \in Text /\ (Says(itoa(i), i) <=> i # IntMin)
<1>0. i \in Int /\ IntMin \in Int /\ IntMin < 0
  BY PowerAssumption DEF Int32, IntMin
<1>1. CASE i = 0
  <2>1. itoa(i) = [neg |-> FALSE, digits |-> <<0>>]
    BY <1>1 DEF itoa
  <2>2. <<0>> \in Seq(0 .. 9) /\ <<0>> \in Seq(Int) /\ <<0>> # <<>>
    OBVIOUS
  <2>3. Front(<<0>>) = <<>> /\ Last(<<0>>) = 0
    BY DEF Front, Last
  <2>4. Number[<<0>>] = 10 * Number[<<>>] + 0 /\ Number[<<>>] = 0
    BY <2>2, <2>3, NumberDef
  <2>5. Number[<<0>>] = 0
    BY <2>4
  <2>6. itoa(i).digits = <<0>> /\ itoa(i).neg = FALSE
    BY <2>1
  <2>7. Value(itoa(i)) = 0
    BY <2>5, <2>6 DEF Value
  <2>8. itoa(i) \in Text
    BY <2>1, <2>2 DEF Text
  <2>9. Says(itoa(i), i)
    BY <1>0, <1>1, <2>2, <2>6, <2>7, <2>8, AdmissionAssumption DEF Says
  <2> QED
    BY <1>0, <1>1, <2>8, <2>9
<1>2. ASSUME NEW n \in Nat \ {0}, itoa(i) = [neg |-> i < 0, digits |-> Digits[n]],
             n = (IF i < 0 THEN -i ELSE i), i # IntMin
      PROVE  itoa(i) \in Text /\ Says(itoa(i), i)
  <2>1. Digits[n] \in Seq(0 .. 9) /\ Digits[n] # <<>> /\ Number[Digits[n]] = n
    BY DigitsDef, DigitsNonempty, NumberOfDigits
  <2>2. itoa(i).digits = Digits[n] /\ itoa(i).neg = (i < 0)
    BY <1>2
  <2>3. itoa(i) \in Text
    BY <1>0, <1>2, <2>1 DEF Text
  <2>4. Value(itoa(i)) = i
    <3>1. CASE i < 0
      <4>1. itoa(i).neg = TRUE /\ n = -i
        BY <1>2, <2>2, <3>1
      <4>2. Value(itoa(i)) = -Number[itoa(i).digits]
        BY <4>1 DEF Value
      <4> QED
        BY <1>0, <2>1, <2>2, <4>1, <4>2
    <3>2. CASE ~(i < 0)
      <4>0. (i < 0) = FALSE
        BY <1>0, <3>2
      <4>1. itoa(i).neg = FALSE /\ n = i
        BY <1>2, <2>2, <4>0
      <4>2. Value(itoa(i)) = Number[itoa(i).digits]
        BY <4>1 DEF Value
      <4> QED
        BY <2>1, <2>2, <4>1, <4>2
    <3> QED
      BY <3>1, <3>2
  <2>5. Says(itoa(i), i)
    BY <1>2, <2>1, <2>2, <2>3, <2>4, AdmissionAssumption DEF Says
  <2> QED
    BY <2>3, <2>5
<1>3. CASE i > 0
  <2>1. itoa(i) = [neg |-> i < 0, digits |-> Digits[i]]
    BY <1>0, <1>3 DEF itoa
  <2> QED
    BY <1>0, <1>2, <1>3, <2>1
<1>4. CASE i < 0 /\ i # IntMin
  <2>1. Wrap(-i) = -i
    BY <1>0, <1>4, WrapNegated
  <2>2. -i \in Nat \ {0} /\ -i > 0
    BY <1>0, <1>4
  <2>3. itoa(i) = [neg |-> i < 0, digits |-> Digits[-i]]
    BY <1>4, <2>1, <2>2 DEF itoa
  <2> QED
    BY <1>2, <1>4, <2>2, <2>3
<1>5. CASE i = IntMin
  <2>1. Wrap(-i) = i /\ ~(i > 0) /\ i < 0 /\ i # 0
    BY <1>0, <1>5, WrapNegated DEF Int32
  <2>2. itoa(i) = [neg |-> i < 0, digits |-> <<>>]
    BY <2>1 DEF itoa
  <2>3. itoa(i) = [neg |-> TRUE, digits |-> <<>>]
    BY <2>1, <2>2
  <2>4. itoa(i) \in Text
    BY <2>3, EmptySeq DEF Text
  <2>5. itoa(i).digits = <<>>
    BY <2>3
  <2>6. ~Says(itoa(i), i)
    BY <2>5 DEF Says
  <2> QED
    BY <1>5, <2>4, <2>6
<1> QED
  BY <1>0, <1>1, <1>3, <1>4, <1>5

-----------------------------------------------------------------------------
(* Types.                                                                  *)

\* Spending from the budget leaves a budget.
LEMMA TypeSpend ==
    ASSUME TypeOK, NEW kind \in Kinds, Spend(kind)
    PROVE  budget' \in [Kinds -> Nat]
<1>1. budget[kind] \in Nat /\ budget[kind] > 0
  BY DEF TypeOK, Spend
<1>2. budget[kind] - 1 \in Nat
  BY <1>1
<1> QED
  BY <1>2 DEF TypeOK, Spend

\* An idle request is well formed.
LEMMA IdleType == Idle \in Request
BY DEF Idle, Request, NoAnnotations, Annotation

\* The objects of each name are objects.
LEMMA ObjectOfType == \A k \in Deps : ObjectOf(k) \subseteq DepObject
BY DEF ObjectOf, DepObject

\* A Tenant, a policy or a Model is not None.
LEMMA DepsAre ==
    /\ "tenant" \in Deps /\ ObjectOf("tenant") = Tenant
    /\ "policy" \in Deps
    /\ Models \subseteq Deps
BY DEF Deps, ObjectOf

\* What a lookup returns.
LEMMA LookupType ==
    ASSUME TypeOK, NEW k \in Deps
    PROVE  /\ dep[k] \in Replica(DepObject)
           /\ Lookup(k) \in ObjectOf(k) \cup {None}
           /\ Lookup(k) = log[k][dep[k].cache.rv + 1]
           /\ dep[k].cache.rv \in Nat
           /\ dep[k].cur.rv \in Nat
<1>1. dep[k] \in Replica(DepObject)
  BY DEF TypeOK
<1>2. dep[k].cache \in Versions(dep[k])
  BY DEF Versions
<1>3. /\ Lookup(k) \in ObjectOf(k) \cup {None}
      /\ Lookup(k) = log[k][dep[k].cache.rv + 1]
  BY <1>2 DEF TypeOK, Lookup
<1> QED
  BY <1>1, <1>3 DEF Replica, Version

\* A request under way.
LEMMA RequestType ==
    ASSUME TypeOK, NEW r \in Requests, req[r].pc # "idle"
    PROVE  /\ req[r] \in Request
           /\ req[r].name \in Services
           /\ req[r].obj \in AdmittedService
           /\ req[r].obj.spec \in AdmissionSpec
           /\ req[r].obj.spec.model \in Models
           /\ req[r].floor \in [Deps -> Nat]
<1>1. req[r] \in Request /\ req[r].name # None /\ req[r].obj # None
  BY DEF TypeOK
<1>2. /\ req[r].name \in Services /\ req[r].obj \in AdmittedService
      /\ req[r].floor \in [Deps -> Nat]
  BY <1>1 DEF Request
<1>3. req[r].obj.spec \in AdmissionSpec
  BY <1>2 DEF AdmittedService
<1> QED
  BY <1>1, <1>2, <1>3 DEF AdmissionSpec

\* The priority of a service, from a Tenant and a spec.
LEMMA CalculateType ==
    ASSUME NEW t \in Tenant, NEW spec \in AdmissionSpec
    PROVE  Calculate(t.priority, spec.workloadClass, spec.priority) \in Int32 \cup Nat
<1>1. t.priority \in Nat
  BY DEF Tenant
<1>2. spec.priority \in Int32 \cup {None}
  BY DEF AdmissionSpec
<1>3. CASE spec.priority # None
  BY <1>2, <1>3 DEF Calculate
<1>4. CASE spec.priority = None
  <2>1. t.priority \div 3 \in Nat /\ t.priority \div 10 \in Nat
    BY <1>1
  <2> QED
    BY <1>1, <1>4, <2>1 DEF Calculate
<1> QED
  BY <1>3, <1>4

\* What MutateInferenceService makes of an object: a well-formed one, with
\* the same spec, whose annotations fit the Tenant it found and the
\* annotations that came in.
LEMMA Mutated ==
    ASSUME NEW o \in AdmittedService, NEW t \in Tenant \cup {None}
    PROVE  /\ MutateInferenceService(o, t) \in AdmittedService
           /\ FitsSpec(MutateInferenceService(o, t), t, o.annotations)
<1> DEFINE p == MutateInferenceService(o, t)
           c == Calculate(t.priority, o.spec.workloadClass, o.spec.priority)
           d == IF t = None THEN o.annotations.derivedPriority ELSE itoa(c)
           a == [tenant |-> Namespace, fairnessID |-> Namespace, derivedPriority |-> d]
<1>1. o.spec \in AdmissionSpec /\ o.annotations \in Annotation
  BY DEF AdmittedService
<1>2. o.annotations.derivedPriority \in Text \cup {None}
  BY <1>1 DEF Annotation
<1>3. t # None => itoa(c) \in Text /\ (c # IntMin => Says(itoa(c), c))
  <2> SUFFICES ASSUME t # None
               PROVE  itoa(c) \in Text /\ (c # IntMin => Says(itoa(c), c))
    OBVIOUS
  <2>1. c \in Int32 \cup Nat
    BY <1>1, CalculateType
  <2> HIDE DEF c
  <2> QED
    BY <2>1, ItoaSays
<1>4. p = [o EXCEPT !.annotations = a]
  BY DEF MutateInferenceService
<1> HIDE DEF p, c
<1>5. d \in Text \cup {None}
  BY <1>2, <1>3
<1>6. a \in Annotation
  BY <1>5 DEF Annotation
<1>7. p.spec = o.spec /\ p.annotations = a /\ p \in AdmittedService
  BY <1>4, <1>6 DEF AdmittedService
<1>8. PriorityOf(p, t) = c
  BY <1>7 DEF PriorityOf, c
<1>9. p.annotations.tenant = Namespace /\ p.annotations.fairnessID = Namespace
  BY <1>7
<1>10. p.annotations.derivedPriority = d
  BY <1>7
<1> QED
  BY <1>3, <1>7, <1>8, <1>9, <1>10 DEF FitsSpec, p

-----------------------------------------------------------------------------
(* What a request relies on, and that history only grows.                  *)

\* What IInv says of one request.
RequestOK(q) ==
    /\ q \in Request
    /\ q.pc # "idle" => q.name # None /\ q.obj # None
    /\ Fresh(q) /\ SawTenant(q) /\ Annotated(q)
    /\ q.pc = "store" => Admissible(q)

\* IInv, request by request.
LEMMA IInvRequests == IInv => \A r \in Requests : RequestOK(req[r])
BY DEF IInv, TypeOK, RequestOK, AdmittedOnRecentState

\* An idle request relies on nothing.
LEMMA IdleOK == RequestOK(Idle)
<1>1. Idle.pc = "idle"
  BY DEF Idle
<1> QED
  BY <1>1, IdleType DEF RequestOK, Fresh, SawTenant, Annotated

\* Nothing is taken from the log, and the store and the caches never go back.
HistoryGrows ==
    \A k \in Deps :
        /\ \A j \in DOMAIN log[k] : j \in DOMAIN log'[k] /\ log'[k][j] = log[k][j]
        /\ dep[k].cur.rv <= dep'[k].cur.rv
        /\ dep[k].cache.rv <= dep'[k].cache.rv
        /\ dep'[k].cur.rv \in Nat /\ dep'[k].cache.rv \in Nat

\* What was recent stays recent.
LEMMA RecentGrows ==
    ASSUME IInv, HistoryGrows, NEW q \in Request, NEW k \in Deps
    PROVE  \A x \in Recent(q, k) : x \in Recent(q, k)'
<1> SUFFICES ASSUME NEW j \in q.floor[k] .. dep[k].cur.rv
             PROVE  log[k][j + 1] \in Recent(q, k)'
  BY DEF Recent
<1>1. q.floor[k] \in Nat /\ dep[k].cur.rv \in Nat /\ dep'[k].cur.rv \in Nat
  BY LookupType DEF IInv, Request, HistoryGrows
<1>2. j \in Nat /\ j + 1 \in 1 .. Len(log[k])
  BY <1>1 DEF IInv, Ordered
<1>3. log'[k][j + 1] = log[k][j + 1]
  <2>1. log[k] \in Seq(DepObject \cup {None})
    BY DEF IInv, TypeOK
  <2>2. DOMAIN log[k] = 1 .. Len(log[k])
    BY <2>1
  <2> QED
    BY <1>2, <2>2 DEF HistoryGrows
<1>4. j \in q.floor[k] .. dep'[k].cur.rv
  BY <1>1, <1>2 DEF HistoryGrows
<1> QED
  BY <1>3, <1>4 DEF Recent

\* What explains annotations goes on explaining them.
LEMMA ExplainedLater ==
    ASSUME IInv, HistoryGrows, NEW q \in Request, NEW o, Explained(q, o)
    PROVE  Explained(q, o)'
<1>1. PICK t \in Recent(q, "tenant") : FitsSpec(o, t, q.sent)
  BY DEF Explained
<1>2. t \in Recent(q, "tenant")'
  BY <1>1, RecentGrows, DepsAre
<1>3. FitsSpec(o, t, q.sent)'
  BY <1>1 DEF FitsSpec
<1> QED
  BY <1>2, <1>3 DEF Explained

\* A request goes on relying on what it relied on.
LEMMA RequestKept ==
    ASSUME IInv, HistoryGrows, NEW q, RequestOK(q)
    PROVE  RequestOK(q)'
<1>1. q \in Request /\ (q.pc # "idle" => q.name # None /\ q.obj # None)
  BY DEF RequestOK
<1>2. \A k \in Deps : \A x \in Recent(q, k) : x \in Recent(q, k)'
  BY <1>1, RecentGrows
<1>3. "tenant" \in Deps /\ "policy" \in Deps /\ Models \subseteq Deps
  BY DepsAre
<1>4. Fresh(q)'
  <2> SUFFICES ASSUME q.pc # "idle", NEW k \in Deps
               PROVE  q.floor[k] <= dep'[k].cache.rv
    BY DEF Fresh
  <2>1. /\ q.floor[k] \in Nat /\ dep[k].cache.rv \in Nat
        /\ q.floor[k] <= dep[k].cache.rv
    BY <1>1, LookupType DEF IInv, Request, RequestOK, Fresh
  <2>2. dep[k].cache.rv <= dep'[k].cache.rv /\ dep'[k].cache.rv \in Nat
    BY DEF HistoryGrows
  <2> QED
    BY <2>1, <2>2
<1>5. SawTenant(q)'
  BY <1>2, <1>3 DEF RequestOK, SawTenant, PassedFirstChecks
<1>6. Annotated(q)'
  <2>1. Annotated(q)
    BY DEF RequestOK
  <2> QED
    BY <1>1, <2>1, ExplainedLater DEF Annotated
<1>7. ASSUME q.pc = "store" PROVE Admissible(q)'
  <2>1. q.obj.spec.model \in Deps
    <3>1. q.obj \in AdmittedService
      BY <1>1, <1>7 DEF Request
    <3>2. q.obj.spec.model \in Models
      BY <3>1 DEF AdmittedService, AdmissionSpec
    <3> QED
      BY <1>3, <3>2
  <2>2. Admissible(q)
    BY <1>7 DEF RequestOK
  <2> QED
    BY <1>2, <1>3, <2>1, <2>2 DEF Admissible, PassedFirstChecks
<1> QED
  BY <1>1, <1>4, <1>5, <1>6, <1>7 DEF RequestOK

\* A step that writes no Tenant, policy or Model, and no cache.
LEMMA HistorySame ==
    ASSUME IInv, dep' = dep, log' = log
    PROVE  HistoryGrows
<1>1. \A k \in Deps : dep[k].cur.rv \in Nat /\ dep[k].cache.rv \in Nat
  BY LookupType DEF IInv
<1> QED
  BY <1>1 DEF HistoryGrows

\* What a request looks up is recent.
LEMMA LookupRecent ==
    ASSUME IInv, NEW q \in Request, q.pc # "idle", Fresh(q), NEW k \in Deps
    PROVE  Lookup(k) \in Recent(q, k)
<1>1. /\ Lookup(k) = log[k][dep[k].cache.rv + 1]
      /\ dep[k].cache.rv \in Nat /\ dep[k].cur.rv \in Nat
  BY LookupType DEF IInv
<1>2. q.floor[k] \in Nat /\ q.floor[k] <= dep[k].cache.rv
  BY DEF Fresh, Request
<1>3. dep[k].cache.rv <= dep[k].cur.rv
  BY DEF IInv, Ordered, Versions
<1>4. dep[k].cache.rv \in q.floor[k] .. dep[k].cur.rv
  BY <1>1, <1>2, <1>3
<1> QED
  BY <1>1, <1>4 DEF Recent

\* What it finds of the Tenant.
LEMMA LookupTenant == IInv => Lookup("tenant") \in Tenant \cup {None}
BY DepsAre, LookupType DEF IInv

-----------------------------------------------------------------------------
(* Steps of requests.                                                      *)

\* A step that changes one request, and perhaps a stored service, leaves the
\* invariant if it leaves that request in order.
LEMMA RequestStep ==
    ASSUME IInv, NEW r \in Requests, NEW q, RequestOK(q),
           req' = [req EXCEPT ![r] = q],
           dep' = dep, log' = log,
           isvc' \in [Services -> Version(AdmittedService)],
           budget' \in [Kinds -> Nat]
    PROVE  IInv'
<1>1. HistoryGrows
  BY HistorySame
<1>2. \A u \in Requests : RequestOK(req[u])
  BY IInvRequests
<1>3. req \in [Requests -> Request]
  BY DEF IInv, TypeOK
<1>4. ASSUME NEW u \in Requests PROVE RequestOK(req[u])'
  <2>1. CASE u = r
    <3>1. req'[u] = q
      BY <1>3, <2>1
    <3>2. RequestOK(q)'
      BY <1>1, RequestKept
    <3> QED
      BY <3>1, <3>2
  <2>2. CASE u # r
    <3>1. req'[u] = req[u]
      BY <1>3, <2>2
    <3> DEFINE o == req[u]
    <3>2. RequestOK(o)
      BY <1>2
    <3>3. RequestOK(req'[u])
      BY <3>1, <3>2
    <3> QED
      BY <1>1, <3>3, RequestKept
  <2> QED
    BY <2>1, <2>2
<1>5. req' \in [Requests -> Request]
  BY <1>3 DEF RequestOK
<1>6. TypeOK'
  BY <1>4, <1>5 DEF IInv, TypeOK, RequestOK
<1>7. \A k \in Deps : Ordered(k)'
  BY DEF IInv, Ordered
<1>8. AdmittedOnRecentState'
  BY <1>4 DEF AdmittedOnRecentState, RequestOK
<1> QED
  BY <1>4, <1>6, <1>7, <1>8 DEF IInv, RequestOK

\* A step that touches no stored service leaves those in order.
LEMMA QuietStep ==
    ASSUME IInv, NEW r \in Requests, NEW q, RequestOK(q),
           req' = [req EXCEPT ![r] = q],
           dep' = dep, log' = log, isvc' = isvc, budget' \in [Kinds -> Nat]
    PROVE  IInv'
<1>1. isvc' \in [Services -> Version(AdmittedService)]
  BY DEF IInv, TypeOK
<1> QED
  BY <1>1, RequestStep

\* A new request.
LEMMA SubmitKeeps ==
    ASSUME IInv, NEW r \in Requests, NEW s \in Services, NEW spec \in ServiceSpecs,
           Submit(r, s, spec)
    PROVE  IInv'
<1>0. TypeOK
  BY DEF IInv
<1>1. PICK a \in Annotations \cup
                   (IF isvc[s].obj = None THEN {} ELSE {isvc[s].obj.annotations}) :
         req' = [req EXCEPT ![r] =
                   [Idle EXCEPT !.pc = "mutate", !.name = s,
                                !.base = isvc[s].rv,
                                !.obj = [spec |-> spec, annotations |-> a],
                                !.floor = [k \in Deps |-> dep[k].cache.rv],
                                !.sent = a]]
  BY DEF Submit
<1> DEFINE o == [spec |-> spec, annotations |-> a]
           f == [k \in Deps |-> dep[k].cache.rv]
           q == [Idle EXCEPT !.pc = "mutate", !.name = s, !.base = isvc[s].rv,
                             !.obj = o, !.floor = f, !.sent = a]
<1>2. isvc[s] \in Version(AdmittedService)
  BY <1>0 DEF TypeOK
<1>3. a \in Annotation
  BY <1>2, AdmissionAssumption DEF Version, AdmittedService
<1>4. o \in AdmittedService
  BY <1>3, AdmissionAssumption DEF AdmittedService
<1>5. f \in [Deps -> Nat]
  BY <1>0, LookupType
<1>6. isvc[s].rv \in Nat
  BY <1>2 DEF Version
<1>7. s # None /\ o # None
  BY <1>4, AdmissionAssumption
<1>8. f = [k \in Deps |-> dep[k].cache.rv] /\ o.annotations = a
  OBVIOUS
<1> HIDE DEF o, f
<1>10. q \in Request
  BY <1>3, <1>4, <1>5, <1>6, IdleType DEF Request
<1>11. q.pc = "mutate" /\ q.name = s /\ q.obj = o /\ q.floor = f /\ q.sent = a
  BY IdleType DEF Request
<1>12. req' = [req EXCEPT ![r] = q]
  BY <1>1 DEF o, f
<1> HIDE DEF q
<1>13. Fresh(q)
  <2>1. \A k \in Deps : dep[k].cache.rv \in Nat
    BY <1>0, LookupType
  <2> QED
    BY <1>8, <1>11, <2>1 DEF Fresh
<1>14. RequestOK(q)
  BY <1>7, <1>8, <1>10, <1>11, <1>13 DEF RequestOK, SawTenant, Annotated
<1>15. budget' \in [Kinds -> Nat]
  BY <1>0, TypeSpend DEF Submit, Kinds
<1>16. dep' = dep /\ log' = log /\ isvc' = isvc
  BY DEF Submit
<1> QED
  BY <1>12, <1>14, <1>15, <1>16, QuietStep

\* The mutating webhook.
LEMMA DefaultKeeps ==
    ASSUME IInv, NEW r \in Requests, Default(r)
    PROVE  IInv'
<1>0. TypeOK /\ req[r].pc = "mutate" /\ req[r].pc # "idle"
  BY DEF IInv, Default
<1> DEFINE o == MutateInferenceService(req[r].obj, Lookup("tenant"))
           q == [req[r] EXCEPT !.pc = "tenant", !.obj = o]
<1>1. req[r] \in Request /\ req[r].name \in Services /\ req[r].obj \in AdmittedService
  BY <1>0, RequestType
<1>2. o \in AdmittedService /\ FitsSpec(o, Lookup("tenant"), req[r].sent)
  <2>1. req[r].obj.annotations = req[r].sent
    BY <1>0 DEF IInv, Annotated
  <2> QED
    BY <1>1, <2>1, LookupTenant, Mutated
<1>3. req' = [req EXCEPT ![r] = q]
  BY <1>0, <1>1 DEF Default, TypeOK, Request
<1> HIDE DEF o
<1>4. /\ q \in Request /\ q.pc = "tenant" /\ q.obj = o
      /\ q.name = req[r].name /\ q.floor = req[r].floor /\ q.sent = req[r].sent
  BY <1>1, <1>2 DEF Request
<1> HIDE DEF q
<1>5. Fresh(req[r])
  BY DEF IInv
<1>6. Fresh(q)
  BY <1>0, <1>4, <1>5 DEF Fresh
<1>7. q.name # None /\ q.obj # None
  BY <1>1, <1>2, <1>4, AdmissionAssumption
<1>8. Explained(q, q.obj)
  <2>1. Lookup("tenant") \in Recent(q, "tenant")
    BY <1>4, <1>6, LookupRecent, DepsAre
  <2> QED
    BY <1>2, <1>4, <2>1 DEF Explained
<1>9. RequestOK(q)
  BY <1>4, <1>6, <1>7, <1>8 DEF RequestOK, SawTenant, Annotated
<1>10. dep' = dep /\ log' = log /\ isvc' = isvc /\ budget' \in [Kinds -> Nat]
  BY <1>0 DEF Default, TypeOK
<1> QED
  BY <1>3, <1>9, <1>10, QuietStep

\* A refusal.
LEMMA DenyKeeps ==
    ASSUME IInv, NEW r \in Requests, Deny(r),
           dep' = dep, log' = log, isvc' = isvc, budget' \in [Kinds -> Nat]
    PROVE  IInv'
<1>1. req' = [req EXCEPT ![r] = Idle]
  BY DEF Deny
<1> QED
  BY <1>1, IdleOK, QuietStep

\* The lookups of the validating webhook.
LEMMA ValidateKeeps ==
    ASSUME IInv, NEW r \in Requests,
           ValidateTenantExists(r) \/ GetEffectivePlatformPolicy(r)
              \/ ValidateSignedModel(r) \/ PolicyLookupFails(r)
    PROVE  IInv'
<1>0. TypeOK /\ req[r].pc \in {"tenant", "policy", "model"} /\ req[r].pc # "idle"
  BY DEF IInv, ValidateTenantExists, GetEffectivePlatformPolicy,
     ValidateSignedModel, PolicyLookupFails
<1>1. /\ req[r] \in Request /\ req[r].name # None /\ req[r].obj # None
      /\ req[r].failOpen \in BOOLEAN
      /\ req[r].obj.spec.model \in Deps
      /\ "tenant" \in Deps /\ "policy" \in Deps
  <2>1. req[r] \in Request /\ req[r].obj.spec.model \in Models
    BY <1>0, RequestType
  <2> QED
    BY <1>0, <2>1, DepsAre DEF TypeOK, Request
<1>2. /\ dep' = dep /\ log' = log /\ isvc' = isvc
      /\ budget' \in [Kinds -> Nat]
  <2>1. CASE budget' = budget
    BY <1>0, <2>1 DEF ValidateTenantExists, GetEffectivePlatformPolicy,
       ValidateSignedModel, PolicyLookupFails, TypeOK
  <2>2. CASE PolicyLookupFails(r)
    BY <1>0, <2>2, TypeSpend DEF PolicyLookupFails, Kinds
  <2> QED
    BY <2>1, <2>2 DEF ValidateTenantExists, GetEffectivePlatformPolicy,
       ValidateSignedModel
<1>3. \A k \in Deps : Lookup(k) \in Recent(req[r], k)
  BY <1>0, <1>1, LookupRecent DEF IInv
<1>4. Annotated(req[r])
  BY DEF IInv
<1>5. CASE Deny(r)
  BY <1>2, <1>5, DenyKeeps
\* The step to pc p, with b for failOpen.
<1>6. ASSUME NEW p \in {"policy", "model", "store"}, NEW b \in BOOLEAN,
             req' = [req EXCEPT ![r] = [req[r] EXCEPT !.pc = p, !.failOpen = b]],
             PassedFirstChecks(req[r]),
             p = "store" =>
                \/ b
                \/ \E x \in Recent(req[r], "policy") : x = None \/ ~x.required
                \/ \E m \in Recent(req[r], req[r].obj.spec.model) :
                      m = None \/ m.requireSignedImage
      PROVE  IInv'
  <2> DEFINE q == [req[r] EXCEPT !.pc = p, !.failOpen = b]
  <2>1. /\ q \in Request
        /\ q.pc = p /\ q.failOpen = b
        /\ q.name = req[r].name /\ q.obj = req[r].obj /\ q.floor = req[r].floor
        /\ q.sent = req[r].sent
    BY <1>1 DEF Request
  <2>2. req' = [req EXCEPT ![r] = q]
    BY <1>6
  <2> HIDE DEF q
  <2>3. \A k : Recent(q, k) = Recent(req[r], k)
    BY <2>1 DEF Recent
  <2>4. Fresh(req[r])
    BY DEF IInv
  <2>5. Fresh(q)
    BY <1>0, <2>1, <2>4 DEF Fresh
  <2>6. PassedFirstChecks(q)
    BY <1>6, <2>1, <2>3 DEF PassedFirstChecks
  <2>7. SawTenant(q)
    BY <2>6 DEF SawTenant
  <2>8. Annotated(q)
    BY <1>0, <1>4, <2>1, <2>3 DEF Annotated, Explained
  <2>9. q.pc = "store" => Admissible(q)
    BY <1>6, <2>1, <2>6, <2>3 DEF Admissible
  <2>10. RequestOK(q)
    BY <1>1, <2>1, <2>7, <2>8, <2>9, <2>5 DEF RequestOK
  <2> QED
    BY <1>2, <2>2, <2>10, QuietStep
<1>7. ASSUME NEW p \in {"policy", "model", "store"}, req' = [req EXCEPT ![r].pc = p]
      PROVE  req' = [req EXCEPT ![r] =
                        [req[r] EXCEPT !.pc = p, !.failOpen = req[r].failOpen]]
  <2>1. [req[r] EXCEPT !.pc = p] =
           [req[r] EXCEPT !.pc = p, !.failOpen = req[r].failOpen]
    BY <1>1 DEF Request
  <2>2. req' = [req EXCEPT ![r] = [req[r] EXCEPT !.pc = p]]
    BY <1>7
  <2> QED
    BY <2>1, <2>2
<1>8. ASSUME req[r].pc # "tenant" PROVE PassedFirstChecks(req[r])
  BY <1>0, <1>8 DEF IInv, SawTenant
<1>9. CASE ValidateTenantExists(r)
  <2>1. CASE /\ Lookup("tenant") # None
             /\ validateResourceProfile(req[r].obj.spec)
             /\ validateSLO(req[r].obj.spec)
             /\ req' = [req EXCEPT ![r].pc = "policy"]
    <3>1. PassedFirstChecks(req[r])
      <4>1. \E t \in Recent(req[r], "tenant") : t # None
        BY <1>1, <1>3, <2>1
      <4> QED
        BY <2>1, <4>1 DEF PassedFirstChecks, validateResourceProfile, validateSLO,
           ResolveFails
    <3>2. req' = [req EXCEPT ![r] =
                     [req[r] EXCEPT !.pc = "policy", !.failOpen = req[r].failOpen]]
      BY <1>7, <2>1
    <3> QED
      BY <1>1, <1>6, <3>1, <3>2
  <2> QED
    BY <1>5, <1>9, <2>1 DEF ValidateTenantExists
<1>10. CASE GetEffectivePlatformPolicy(r)
  <2>0. PassedFirstChecks(req[r])
    BY <1>8, <1>10 DEF GetEffectivePlatformPolicy
  <2>1. CASE /\ Lookup("policy") = None \/ ~Lookup("policy").required
             /\ Allow(r)
    <3>1. \E x \in Recent(req[r], "policy") : x = None \/ ~x.required
      BY <1>1, <1>3, <2>1
    <3>2. req' = [req EXCEPT ![r] =
                     [req[r] EXCEPT !.pc = "store", !.failOpen = req[r].failOpen]]
      BY <1>7, <2>1 DEF Allow
    <3> QED
      BY <1>1, <1>6, <2>0, <3>1, <3>2
  <2>2. CASE req' = [req EXCEPT ![r].pc = "model"]
    <3>1. req' = [req EXCEPT ![r] =
                     [req[r] EXCEPT !.pc = "model", !.failOpen = req[r].failOpen]]
      BY <1>7, <2>2
    <3> QED
      BY <1>1, <1>6, <2>0, <3>1
  <2> QED
    BY <1>10, <2>1, <2>2 DEF GetEffectivePlatformPolicy
<1>11. CASE ValidateSignedModel(r)
  <2>0. PassedFirstChecks(req[r])
    BY <1>8, <1>11 DEF ValidateSignedModel
  <2>1. CASE SatisfiesPolicy(Lookup(req[r].obj.spec.model)) /\ Allow(r)
    <3>1. \E m \in Recent(req[r], req[r].obj.spec.model) :
             m = None \/ m.requireSignedImage
      BY <1>1, <1>3, <2>1 DEF SatisfiesPolicy
    <3>2. req' = [req EXCEPT ![r] =
                     [req[r] EXCEPT !.pc = "store", !.failOpen = req[r].failOpen]]
      BY <1>7, <2>1 DEF Allow
    <3> QED
      BY <1>1, <1>6, <2>0, <3>1, <3>2
  <2> QED
    BY <1>5, <1>11, <2>1 DEF ValidateSignedModel
<1>12. CASE PolicyLookupFails(r)
  <2>0. PassedFirstChecks(req[r])
    BY <1>8, <1>12 DEF PolicyLookupFails
  <2>1. req' = [req EXCEPT ![r] = [req[r] EXCEPT !.pc = "store", !.failOpen = TRUE]]
    BY <1>0, <1>1, <1>12 DEF PolicyLookupFails, TypeOK
  <2> QED
    BY <1>6, <2>0, <2>1
<1> QED
  BY <1>9, <1>10, <1>11, <1>12

\* A webhook call that fails refuses the request.
LEMMA WebhookFailsKeeps ==
    ASSUME IInv, NEW r \in Requests, WebhookFails(r)
    PROVE  IInv'
<1>1. budget' \in [Kinds -> Nat]
  BY TypeSpend DEF WebhookFails, Kinds, IInv
<1> QED
  BY <1>1, DenyKeeps DEF WebhookFails

\* The API server stores the object, or refuses it.
LEMMA StoreKeeps ==
    ASSUME IInv, NEW r \in Requests, Store(r)
    PROVE  IInv'
<1>0. TypeOK /\ req[r].pc = "store" /\ req[r].pc # "idle"
  BY DEF IInv, Store
<1> DEFINE s == req[r].name
           o == req[r].obj
           v == [rv |-> isvc[s].rv + 1, obj |-> o]
<1>1. s \in Services /\ o \in AdmittedService
  BY <1>0, RequestType
<1>3. /\ dep' = dep /\ log' = log /\ budget' \in [Kinds -> Nat]
      /\ req' = [req EXCEPT ![r] = Idle]
  BY <1>0 DEF Store, TypeOK
<1>4. isvc \in [Services -> Version(AdmittedService)]
  BY <1>0 DEF TypeOK
<1>5. isvc' = isvc \/ isvc' = [isvc EXCEPT ![s] = v]
  BY <1>1, <1>4 DEF Store
<1>6. v \in Version(AdmittedService) /\ v.obj = o
  BY <1>1, <1>4 DEF Version
<1> HIDE DEF s, o, v
<1>7. isvc' \in [Services -> Version(AdmittedService)]
  BY <1>1, <1>4, <1>5, <1>6
<1> QED
  BY <1>3, <1>7, IdleOK, RequestStep

-----------------------------------------------------------------------------
(* Steps of everything but the requests.                                   *)

\* What IInv says of one looked-up object.
DepOK(k) ==
    /\ Ordered(k)
    /\ \A v \in Versions(dep[k]) :
          v.obj \in ObjectOf(k) \cup {None} /\ log[k][v.rv + 1] = v.obj

\* IInv, object by object.
LEMMA IInvDeps == IInv => \A k \in Deps : DepOK(k)
BY DEF IInv, TypeOK, DepOK

\* A step in which history grows, some requests end and services may change.
LEMMA OutsideStep ==
    ASSUME IInv, HistoryGrows,
           dep' \in [Deps -> Replica(DepObject)],
           log' \in [Deps -> Seq(DepObject \cup {None})],
           \A k \in Deps : DepOK(k)',
           req' \in [Requests -> Request],
           \A r \in Requests : req'[r] \in {req[r], Idle},
           isvc' \in [Services -> Version(AdmittedService)],
           budget' \in [Kinds -> Nat]
    PROVE  IInv'
<1>1. ASSUME NEW r \in Requests PROVE RequestOK(req[r])'
  <2>1. RequestOK(req'[r])
    BY IInvRequests, IdleOK
  <2> QED
    BY <2>1, RequestKept
<1>2. TypeOK'
  BY <1>1 DEF TypeOK, RequestOK, DepOK
<1>3. \A k \in Deps : Ordered(k)'
  BY DEF DepOK
<1>4. AdmittedOnRecentState'
  BY <1>1 DEF AdmittedOnRecentState, RequestOK
<1> QED
  BY <1>1, <1>2, <1>3, <1>4 DEF IInv, RequestOK

\* A service is deleted.
LEMMA DeleteKeeps ==
    ASSUME IInv, NEW s \in Services, DeleteService(s)
    PROVE  IInv'
<1>1. HistoryGrows
  BY HistorySame DEF DeleteService
<1>2. \A k \in Deps : DepOK(k)'
  <2>1. dep' = dep /\ log' = log
    BY DEF DeleteService
  <2> QED
    BY <2>1, IInvDeps DEF DepOK, Ordered
<1>3. /\ dep' \in [Deps -> Replica(DepObject)]
      /\ log' \in [Deps -> Seq(DepObject \cup {None})]
      /\ req' \in [Requests -> Request] /\ req' = req
      /\ isvc \in [Services -> Version(AdmittedService)]
  BY DEF DeleteService, IInv, TypeOK
<1>4. budget' \in [Kinds -> Nat]
  BY TypeSpend DEF DeleteService, Kinds, IInv
<1>5. isvc' = [isvc EXCEPT ![s] = [rv |-> isvc[s].rv + 1, obj |-> None]]
  BY DEF DeleteService
<1>6. [rv |-> isvc[s].rv + 1, obj |-> None] \in Version(AdmittedService)
  BY <1>3 DEF Version
<1>7. isvc' \in [Services -> Version(AdmittedService)]
  BY <1>3, <1>5, <1>6
<1> QED
  BY <1>1, <1>2, <1>3, <1>4, <1>7, OutsideStep

\* One looked-up object changes: it and the others stay in order, and so does
\* the rest.
LEMMA DepStep ==
    ASSUME IInv, NEW k \in Deps, NEW d \in Replica(DepObject),
           NEW l \in Seq(DepObject \cup {None}),
           dep' = [dep EXCEPT ![k] = d], log' = [log EXCEPT ![k] = l],
           DepOK(k)',
           \A j \in DOMAIN log[k] : j \in DOMAIN l /\ l[j] = log[k][j],
           dep[k].cur.rv <= d.cur.rv, dep[k].cache.rv <= d.cache.rv,
           isvc' = isvc, req' = req, budget' \in [Kinds -> Nat]
    PROVE  IInv'
<1>1. /\ dep \in [Deps -> Replica(DepObject)]
      /\ log \in [Deps -> Seq(DepObject \cup {None})]
      /\ req' \in [Requests -> Request]
      /\ isvc' \in [Services -> Version(AdmittedService)]
  BY DEF IInv, TypeOK
<1>2. dep' \in [Deps -> Replica(DepObject)] /\ log' \in [Deps -> Seq(DepObject \cup {None})]
  BY <1>1
<1>3. \A u \in Deps : dep'[u] = IF u = k THEN d ELSE dep[u]
  BY <1>1
<1>4. \A u \in Deps : log'[u] = IF u = k THEN l ELSE log[u]
  BY <1>1
<1>5. \A u \in Deps : DepOK(u)'
  <2>1. ASSUME NEW u \in Deps, u # k PROVE DepOK(u)'
    <3>1. dep'[u] = dep[u] /\ log'[u] = log[u]
      BY <1>3, <1>4, <2>1
    <3> QED
      BY <3>1, IInvDeps DEF DepOK, Ordered
  <2> QED
    BY <2>1
<1>6. d.cur.rv \in Nat /\ d.cache.rv \in Nat
  BY DEF Replica, Version
<1>7. \A u \in Deps : dep[u].cur.rv \in Nat /\ dep[u].cache.rv \in Nat
  BY LookupType DEF IInv
<1>8. HistoryGrows
  BY <1>3, <1>4, <1>6, <1>7 DEF HistoryGrows
<1> QED
  BY <1>1, <1>2, <1>5, <1>8, OutsideStep

\* The Tenant, the policy or a Model is written.
LEMMA WriteDepKeeps ==
    ASSUME IInv, NEW k \in Deps, NEW o \in DepStates[k], WriteDep(k, o)
    PROVE  IInv'
<1> DEFINE d == Put(dep[k], o)
           l == Append(log[k], o)
           n == [rv |-> dep[k].cur.rv + 1, obj |-> o]
<1>1. o \in ObjectOf(k) \cup {None} /\ o \in DepObject \cup {None}
  BY AdmissionAssumption, ObjectOfType
<1>2. dep[k] \in Replica(DepObject) /\ log[k] \in Seq(DepObject \cup {None})
  BY DEF IInv, TypeOK
<1>3. d \in Replica(DepObject)
  BY <1>1, <1>2, PutType
<1>4. /\ l \in Seq(DepObject \cup {None})
      /\ Len(l) = Len(log[k]) + 1
      /\ \A j \in DOMAIN log[k] : j \in DOMAIN l /\ l[j] = log[k][j]
      /\ l[Len(log[k]) + 1] = o
      /\ DOMAIN log[k] = 1 .. Len(log[k])
  BY <1>1, <1>2
<1>5. /\ d.cur = n /\ d.cache = dep[k].cache /\ d.watch = dep[k].watch \cup {n}
      /\ \A v \in Versions(d) : v \in Versions(dep[k]) \/ v = n
  BY DEF Put, Versions
<1>6. /\ dep' = [dep EXCEPT ![k] = d] /\ log' = [log EXCEPT ![k] = l]
      /\ isvc' = isvc /\ req' = req
  BY DEF WriteDep
<1>7. dep'[k] = d /\ log'[k] = l
  BY <1>6 DEF IInv, TypeOK
<1>8. /\ dep[k].cur.rv \in Nat /\ dep[k].cache.rv \in Nat
      /\ \A v \in Versions(dep[k]) : v.rv \in Nat
      /\ dep[k].cache \in Versions(dep[k])
  BY <1>2, VersionsType DEF Version
<1>9. DepOK(k)
  BY IInvDeps
<1>10. n.rv = dep[k].cur.rv + 1 /\ n.obj = o
  OBVIOUS
<1> HIDE DEF d, l, n
<1>11. ASSUME NEW v \in Versions(d)
       PROVE  /\ v.rv <= d.cur.rv
              /\ v.obj \in ObjectOf(k) \cup {None} /\ l[v.rv + 1] = v.obj
  <2>1. CASE v = n
    BY <1>1, <1>4, <1>5, <1>8, <1>9, <1>10, <2>1 DEF DepOK, Ordered
  <2>2. CASE v \in Versions(dep[k])
    <3>1. /\ v.rv \in Nat /\ v.rv <= dep[k].cur.rv
          /\ v.obj \in ObjectOf(k) \cup {None} /\ log[k][v.rv + 1] = v.obj
      BY <1>8, <1>9, <2>2 DEF DepOK, Ordered
    <3> DEFINE i == v.rv
               j == dep[k].cur.rv
    <3>2. v.rv + 1 \in DOMAIN log[k]
      <4>1. i \in Nat /\ j \in Nat /\ i <= j
        BY <1>8, <3>1
      <4>2. DOMAIN log[k] = 1 .. j + 1
        BY <1>4, <1>9 DEF DepOK, Ordered
      <4> HIDE DEF i, j
      <4>3. i + 1 \in 1 .. j + 1
        BY <4>1
      <4> QED
        BY <4>2, <4>3 DEF i
    <3>3. l[v.rv + 1] = v.obj
      BY <1>4, <3>1, <3>2
    <3>4. v.rv <= d.cur.rv
      BY <1>5, <1>8, <1>10, <3>1
    <3> QED
      BY <3>1, <3>3, <3>4
  <2> QED
    BY <1>5, <2>1, <2>2
<1>12. Len(l) = d.cur.rv + 1
  BY <1>4, <1>5, <1>9, <1>10 DEF DepOK, Ordered
<1>13. \A v \in d.watch : d.cache.rv <= v.rv
  <2>1. dep[k].cache.rv <= n.rv
    BY <1>8, <1>9, <1>10 DEF DepOK, Ordered
  <2> QED
    BY <1>5, <1>9, <2>1 DEF DepOK, Ordered
<1>14. DepOK(k)'
  BY <1>7, <1>11, <1>12, <1>13 DEF DepOK, Ordered
<1>15. dep[k].cur.rv <= d.cur.rv /\ dep[k].cache.rv <= d.cache.rv
  BY <1>5, <1>8, <1>10
<1>16. budget' \in [Kinds -> Nat]
  BY TypeSpend DEF WriteDep, Kinds, IInv
<1> QED
  BY <1>3, <1>4, <1>6, <1>14, <1>15, <1>16, DepStep

\* The watch brings a version to the cache.
LEMMA DeliverDepKeeps ==
    ASSUME IInv, NEW k \in Deps, DeliverDep(k)
    PROVE  IInv'
<1>1. PICK w \in dep[k].watch : dep' = [dep EXCEPT ![k] = Deliver(dep[k], w)]
  BY DEF DeliverDep
<1> DEFINE d == Deliver(dep[k], w)
<1>2. dep[k] \in Replica(DepObject) /\ log[k] \in Seq(DepObject \cup {None})
  BY DEF IInv, TypeOK
<1>3. d \in Replica(DepObject)
  BY <1>2, DeliverType
<1>4. /\ d.cur = dep[k].cur /\ d.cache = w
      /\ \A v \in d.watch : v.rv > w.rv
      /\ Versions(d) \subseteq Versions(dep[k])
  BY <1>2, DeliverVersions DEF Deliver
<1>5. log' = log /\ isvc' = isvc /\ req' = req /\ budget' \in [Kinds -> Nat]
  BY DEF DeliverDep, IInv, TypeOK
<1>6. dep'[k] = d
  BY <1>1 DEF IInv, TypeOK
<1>7. DepOK(k)
  BY IInvDeps
<1>8. dep[k].cur.rv \in Nat /\ dep[k].cache.rv <= w.rv
  BY <1>2, <1>7 DEF DepOK, Ordered, Replica, Version
<1>9. \A v \in d.watch : d.cache.rv <= v.rv
  <2>1. d.watch \subseteq Version(DepObject) /\ w \in Version(DepObject)
    BY <1>2, <1>3 DEF Replica
  <2>2. \A v \in d.watch : v.rv \in Nat /\ w.rv \in Nat
    BY <2>1 DEF Version
  <2> QED
    BY <1>4, <2>2
<1> HIDE DEF d
<1>10. DepOK(k)'
  BY <1>4, <1>5, <1>6, <1>7, <1>9 DEF DepOK, Ordered
<1>11. dep[k].cur.rv <= d.cur.rv /\ dep[k].cache.rv <= d.cache.rv
  BY <1>4, <1>8
<1>12. dep' = [dep EXCEPT ![k] = d]
  BY <1>1 DEF d
<1>13. log' = [log EXCEPT ![k] = log[k]]
  BY <1>5 DEF IInv, TypeOK
<1> QED
  BY <1>2, <1>3, <1>5, <1>10, <1>11, <1>12, <1>13, DepStep

\* The process starts again: calls end, caches list.
LEMMA RestartKeeps ==
    ASSUME IInv, Restart
    PROVE  IInv'
<1>1. /\ dep \in [Deps -> Replica(DepObject)]
      /\ log' \in [Deps -> Seq(DepObject \cup {None})] /\ log' = log
      /\ req \in [Requests -> Request]
      /\ isvc' \in [Services -> Version(AdmittedService)] /\ isvc' = isvc
  BY DEF IInv, TypeOK, Restart
<1>2. \A k \in Deps : dep'[k] = Relist(dep[k])
  BY DEF Restart
<1>3. dep' \in [Deps -> Replica(DepObject)]
  BY <1>1, RelistType DEF Restart
<1>4. ASSUME NEW k \in Deps
      PROVE  /\ DepOK(k)'
             /\ dep[k].cur.rv <= dep'[k].cur.rv /\ dep[k].cache.rv <= dep'[k].cache.rv
             /\ dep'[k].cur.rv \in Nat /\ dep'[k].cache.rv \in Nat
  <2> DEFINE d == dep[k]
             e == dep'[k]
  <2>0. d \in Replica(DepObject) /\ e = Relist(d)
    BY <1>1, <1>2
  <2> HIDE DEF d, e
  <2>1. /\ e.cur = d.cur /\ e.cache = d.cur /\ e.watch = {}
        /\ Versions(e) \subseteq Versions(d)
    BY <2>0 DEF Relist, Versions
  <2> USE DEF d, e
  <2>2. /\ dep[k].cur.rv \in Nat /\ dep[k].cache.rv \in Nat
        /\ dep[k].cache \in Versions(dep[k])
    BY <1>1, VersionsType DEF Version
  <2>3. DepOK(k)
    BY IInvDeps
  <2>4. DepOK(k)'
    BY <1>1, <2>1, <2>3 DEF DepOK, Ordered
  <2>5. dep[k].cache.rv <= dep[k].cur.rv
    BY <2>2, <2>3 DEF DepOK, Ordered
  <2> QED
    BY <2>1, <2>2, <2>4, <2>5
<1>5. HistoryGrows
  BY <1>1, <1>4 DEF HistoryGrows
<1>6. req' \in [Requests -> Request] /\ \A r \in Requests : req'[r] \in {req[r], Idle}
  BY <1>1, IdleType DEF Restart
<1>7. budget' \in [Kinds -> Nat]
  BY TypeSpend DEF Restart, Kinds, IInv
<1> QED
  BY <1>1, <1>3, <1>4, <1>5, <1>6, <1>7, OutsideStep

-----------------------------------------------------------------------------
(* The theorems.                                                           *)

\* IInv holds when nothing has happened yet.
LEMMA IndInit == Init => IInv
<1> SUFFICES ASSUME Init PROVE IInv
  OBVIOUS
<1>1. \A k \in Deps : InitialDeps[k] \in ObjectOf(k) \cup {None}
  BY AdmissionAssumption
<1>2. \A k \in Deps : InitialDeps[k] \in DepObject \cup {None}
  BY <1>1, ObjectOfType
<1>3. ASSUME NEW k \in Deps
      PROVE  /\ dep[k] \in Replica(DepObject)
             /\ log[k] = <<InitialDeps[k]>>
             /\ \A v \in Versions(dep[k]) : v.rv = 0 /\ v.obj = InitialDeps[k]
             /\ dep[k].cur.rv = 0 /\ dep[k].watch = {}
  BY <1>2 DEF Init, InitialReplica, Replica, Version, Versions
<1>4. ASSUME NEW k \in Deps PROVE DepOK(k)
  <2> DEFINE o == InitialDeps[k]
  <2>0. o \in DepObject \cup {None} /\ log[k] = <<o>>
    BY <1>2, <1>3
  <2> HIDE DEF o
  <2>1. Len(log[k]) = 1 /\ log[k][1] = o
    BY <2>0
  <2> QED
    BY <1>1, <1>3, <2>1 DEF DepOK, Ordered, o
<1>5. dep \in [Deps -> Replica(DepObject)] /\ log \in [Deps -> Seq(DepObject \cup {None})]
  <2>1. \A k \in Deps : <<InitialDeps[k]>> \in Seq(DepObject \cup {None})
    BY <1>2
  <2> QED
    BY <1>3, <2>1 DEF Init
<1>6. isvc \in [Services -> Version(AdmittedService)] /\ \A s \in Services : isvc[s].obj = None
  BY DEF Init, Version
<1>7. req \in [Requests -> Request] /\ \A r \in Requests : RequestOK(req[r])
  BY IdleType, IdleOK DEF Init
<1>8. budget \in [Kinds -> Nat]
  BY AdmissionAssumption DEF Init
<1>9. TypeOK
  BY <1>4, <1>5, <1>6, <1>7, <1>8 DEF TypeOK, DepOK, RequestOK
<1> QED
  BY <1>4, <1>6, <1>7, <1>9
     DEF IInv, DepOK, RequestOK, AdmittedOnRecentState

\* No step leaves IInv.
LEMMA IndNext == IInv /\ [Next]_vars => IInv'
<1> SUFFICES ASSUME IInv, [Next]_vars PROVE IInv'
  OBVIOUS
<1>1. CASE Next
  <2>1. ASSUME NEW r \in Requests, NEW s \in Services, NEW spec \in ServiceSpecs,
               Submit(r, s, spec)
        PROVE  IInv'
    BY <2>1, SubmitKeeps
  <2>2. ASSUME NEW r \in Requests, Default(r) PROVE IInv'
    BY <2>2, DefaultKeeps
  <2>3. ASSUME NEW r \in Requests,
               ValidateTenantExists(r) \/ GetEffectivePlatformPolicy(r)
                  \/ ValidateSignedModel(r) \/ PolicyLookupFails(r)
        PROVE  IInv'
    BY <2>3, ValidateKeeps
  <2>4. ASSUME NEW r \in Requests, WebhookFails(r) PROVE IInv'
    BY <2>4, WebhookFailsKeeps
  <2>5. ASSUME NEW r \in Requests, Store(r) PROVE IInv'
    BY <2>5, StoreKeeps
  <2>6. ASSUME NEW s \in Services, DeleteService(s) PROVE IInv'
    BY <2>6, DeleteKeeps
  <2>7. ASSUME NEW k \in Deps, DeliverDep(k) PROVE IInv'
    BY <2>7, DeliverDepKeeps
  <2>8. ASSUME NEW k \in Deps, NEW o \in DepStates[k], WriteDep(k, o) PROVE IInv'
    BY <2>8, WriteDepKeeps
  <2>9. CASE Restart
    BY <2>9, RestartKeeps
  <2> QED
    BY <1>1, <2>1, <2>2, <2>3, <2>4, <2>5, <2>6, <2>7, <2>8, <2>9 DEF Next
<1>2. CASE UNCHANGED vars
  <2>1. /\ dep' = dep /\ isvc' = isvc /\ req' = req /\ budget' = budget /\ log' = log
    BY <1>2 DEF vars
  <2>2. \A k \in Deps : DepOK(k)'
    BY <2>1, IInvDeps DEF DepOK, Ordered
  <2>3. HistoryGrows
    BY <2>1, HistorySame
  <2> QED
    BY <2>1, <2>2, <2>3, OutsideStep DEF IInv, TypeOK
<1> QED
  BY <1>1, <1>2

\* The inductive invariant holds throughout: the log is the history of what is
\* stored, the caches only move forward, and each request's floor, annotations
\* and verdict fit that history.
THEOREM Inductive == Spec => []IInv
BY IndInit, IndNext, PTL DEF Spec

\* The stored services, the requests and the looked-up objects keep their
\* types; in particular itoa writes nothing but decimal digits after the sign.
THEOREM TypeCorrect == Spec => []TypeOK
<1>1. IInv => TypeOK
  BY DEF IInv
<1> QED
  BY <1>1, Inductive, PTL

\* Every request that ValidateInferenceService admits is admitted for reasons
\* that were true at some time since it came in, whatever the caches, the
\* writers of the looked-up objects and the other requests do.
THEOREM AdmittedIsRecent == Spec => []AdmittedOnRecentState
<1>1. IInv => AdmittedOnRecentState
  BY DEF IInv
<1> QED
  BY <1>1, Inductive, PTL

\* A step writes a service only for a request that has passed the webhooks,
\* and leaves annotations which a Tenant since then explains.
LEMMA WriteExplained ==
    ASSUME IInv, [Next]_vars, NEW s \in Services,
           isvc'[s] # isvc[s], isvc'[s].obj # None
    PROVE  \E r \in Requests : /\ req[r].pc = "store" /\ req'[r] = Idle
                              /\ req[r].name = s
                              /\ Explained(req[r], isvc'[s].obj)
<1>0. /\ isvc \in [Services -> Version(AdmittedService)]
      /\ req \in [Requests -> Request]
  BY DEF IInv, TypeOK
<1>1. isvc' # isvc
  OBVIOUS
<1>2. ASSUME NEW u \in Services, DeleteService(u) PROVE FALSE
  <2>1. isvc' = [isvc EXCEPT ![u] = [rv |-> isvc[u].rv + 1, obj |-> None]]
    BY <1>2 DEF DeleteService
  <2> QED
    BY <1>0, <2>1
<1>3. \E r \in Requests : Store(r)
  BY <1>1, <1>2 DEF Next, vars, Submit, Default, ValidateTenantExists,
     GetEffectivePlatformPolicy, ValidateSignedModel, PolicyLookupFails,
     WebhookFails, DeliverDep, WriteDep, Restart
<1>4. PICK r \in Requests : Store(r)
  BY <1>3
<1> DEFINE n == req[r].name
           v == [rv |-> isvc[n].rv + 1, obj |-> req[r].obj]
<1>5. req[r].pc = "store" /\ req' = [req EXCEPT ![r] = Idle]
  BY <1>4 DEF Store
<1>6. n \in Services
  BY <1>5, RequestType DEF IInv
<1>7. isvc' = [isvc EXCEPT ![n] = v]
  BY <1>0, <1>1, <1>4, <1>6 DEF Store
<1> HIDE DEF n, v
<1>8. s = n /\ isvc'[s] = v
  BY <1>0, <1>6, <1>7
<1>9. isvc'[s].obj = req[r].obj
  BY <1>8 DEF v
<1>10. Explained(req[r], req[r].obj)
  BY <1>5 DEF IInv, Annotated
<1>11. req'[r] = Idle
  BY <1>0, <1>5
<1> QED
  BY <1>5, <1>8, <1>9, <1>10, <1>11 DEF n

\* Whatever annotations clients send, however requests overlap and whatever
\* becomes of the Tenant: the annotations stored with a service name its
\* namespace and carry the numeral of the priority of the stored spec for a
\* default the Tenant has had since the request came in.  What is excepted is
\* stated: the smallest int32, and a request that met no Tenant in
\* MutateInferenceService, which keeps the priority it came with.
THEOREM AnnotationsFit == Spec => AnnotationsFitSpec
<1>1. IInv /\ [Next]_vars =>
         [\A s \in Services : isvc'[s] # isvc[s] /\ isvc'[s].obj # None =>
             \E r \in Requests :
                 /\ req[r].pc = "store" /\ req'[r] = Idle
                 /\ req[r].name = s
                 /\ Explained(req[r], isvc'[s].obj)]_vars
  BY WriteExplained
<1> QED
  BY <1>1, Inductive, PTL DEF Spec, AnnotationsFitSpec
=============================================================================
