---------------------- MODULE OverloadResolutionProofs ----------------------
(***************************************************************************)
(* For every library of overloads, every call with any number of parameters *)
(* and of candidates for each, and every nesting of calls: what the linker  *)
(* leaves are the cheapest uses of the functions, in their order, and each  *)
(* argument reaches its function as what the function takes.                *)
(***************************************************************************)
EXTENDS OverloadResolution, FiniteSetTheorems, WellFoundedInduction, TLAPS
-----------------------------------------------------------------------------
(* A set of natural numbers that is not empty has a least element: strict  *)
(* inclusion of the intervals 1..n is well-founded.                        *)
LEMMA Least ==
    ASSUME NEW T \in SUBSET Nat, T # {}
    PROVE  \E m \in T : \A k \in T : m <= k
  <1> DEFINE I == {1..n : n \in T}
  <1>1. IsWellFoundedOn(StrictSubsetOrdering(Nat), FiniteSubsetsOf(Nat))
    BY FS_StrictSubsetOrderingWellFounded
  <1>2. I \subseteq FiniteSubsetsOf(Nat)
    <2>1. \A n \in T : IsFiniteSet(1..n)
      BY FS_Interval
    <2> QED
      BY <2>1 DEF FiniteSubsetsOf
  <1>3. I # {}
    OBVIOUS
  <1>4. PICK x \in I : \A y \in I : ~(<<y, x>> \in StrictSubsetOrdering(Nat))
    <2> HIDE DEF I
    <2> QED
      BY <1>1, <1>2, <1>3, WFMin
  <1>5. PICK m \in T : x = 1..m
    OBVIOUS
  <1>6. ASSUME NEW k \in T, k < m
        PROVE  FALSE
    <2>1. 1..k \in I /\ x \in SUBSET Nat /\ 1..k \in SUBSET Nat
      BY <1>5
    <2>2. 1..k \subseteq 1..m /\ m \notin 1..k /\ m \in 1..m
      BY <1>6
    <2>3. <<1..k, x>> \in StrictSubsetOrdering(Nat)
      BY <2>1, <2>2, <1>5 DEF StrictSubsetOrdering
    <2> QED
      BY <2>3, <2>1, <1>4
  <1> QED
    BY <1>6

(* A set that has 0 and with n also n + 1 has every natural number.        *)
LEMMA Induct ==
    ASSUME NEW T, 0 \in T, \A n \in Nat : n \in T => n + 1 \in T
    PROVE  Nat \subseteq T
  <1> SUFFICES ASSUME Nat \ T # {} PROVE FALSE
    OBVIOUS
  <1>1. PICK m \in Nat \ T : \A k \in Nat \ T : m <= k
    BY Least
  <1>2. m # 0 /\ m - 1 \in Nat
    BY <1>1
  <1>3. m - 1 \in T
    BY <1>1, <1>2
  <1>4. (m - 1) + 1 = m
    BY <1>1
  <1> QED
    BY <1>1, <1>2, <1>3, <1>4

(* What grows, or stays, from each number to the next has not shrunk from  *)
(* one number to any later one.                                            *)
LEMMA Grows ==
    ASSUME NEW f, NEW n \in Nat, \A i \in 1..n : f[i] \in Int,
           \A i \in 1..n : i + 1 \in 1..n => f[i] <= f[i + 1],
           NEW i \in 1..n, NEW j \in 1..n, i <= j
    PROVE  f[i] <= f[j]
  <1> DEFINE T == {k \in Nat : i + k \in 1..n => f[i] <= f[i + k]}
  <1>1. 0 \in T
    <2>1. i + 0 = i
      OBVIOUS
    <2> QED
      BY <2>1
  <1>2. ASSUME NEW k \in Nat, k \in T
        PROVE  k + 1 \in T
    <2> SUFFICES ASSUME i + (k + 1) \in 1..n PROVE f[i] <= f[i + (k + 1)]
      OBVIOUS
    <2>1. i + k \in 1..n /\ (i + k) + 1 = i + (k + 1)
      OBVIOUS
    <2>2. f[i] <= f[i + k] /\ f[i + k] <= f[(i + k) + 1]
      BY <1>2, <2>1
    <2> QED
      BY <2>1, <2>2
  <1>3. Nat \subseteq T
    <2> HIDE DEF T
    <2> QED
      BY <1>1, <1>2, Induct
  <1>4. j - i \in Nat /\ i + (j - i) = j
    OBVIOUS
  <1> QED
    BY <1>3, <1>4
-----------------------------------------------------------------------------
(* The warning "cannot find accuration of conversion" is never given.      *)
EveryConversionIsRated == Conversions \subseteq DOMAIN Accuracies

-----------------------------------------------------------------------------
(* A casting has an accuracy, and makes what the parameter takes.          *)
LEMMA CastingFits ==
    ASSUME NEW p, NEW a \in ScriptTypes, NEW level2,
           NEW c \in FindMatching(p, a, level2)
    PROVE  /\ c.accuracy \in Int
           /\ EveryConversionIsRated => c.accuracy \in Nat
           /\ Fits(p, a, c.cast) \/ PassedAsElements(p, a)
  <1>1. \/ p = a /\ c = Casting(0, "none")
        \/ p = Ref(a.base) /\ a.mode = "semi" /\ c = Casting(0, "none")
        \/ p = RefVoid /\ a.mode = "ref" /\ c = Casting(2, "none")
        \/ /\ p.base # a.base /\ p.mode = "ref" /\ a.base \in DOMAIN Elements
           /\ c = ArrayCasting(p, a)
        \/ p = Semi(a.base) /\ a.mode = "value" /\ c = Casting(2, "makeRef")
        \/ p = Value(a.base) /\ a.mode = "semi" /\ c = Casting(2, "deref")
        \/ <<a, p>> \in Conversions /\ c = Casting(ConversionAccuracy(a, p), "convert")
        \/ /\ a.mode = "semi" /\ <<Value(a.base), p>> \in Conversions
           /\ c = Casting(ConversionAccuracy(Value(a.base), p) + 2, "derefConvert")
    BY DEF FindMatching, FindMatchingLevel1, FindMatchingLevel2
  <1>2. ASSUME NEW s, NEW t, <<s, t>> \in Conversions
        PROVE  /\ ConversionAccuracy(s, t) \in Int
               /\ EveryConversionIsRated => ConversionAccuracy(s, t) \in Nat
    BY <1>2, AccuraciesAssumption DEF ConversionAccuracy, EveryConversionIsRated
  <1>3. CASE p = a /\ c = Casting(0, "none")
    BY <1>3 DEF Casting, Fits
  <1>4. CASE p = Ref(a.base) /\ a.mode = "semi" /\ c = Casting(0, "none")
    BY <1>4 DEF Casting, Fits, Ref
  <1>5. CASE p = RefVoid /\ a.mode = "ref" /\ c = Casting(2, "none")
    BY <1>5 DEF Casting, Fits, RefVoid, Ref
  <1>6. CASE /\ p.base # a.base /\ p.mode = "ref" /\ a.base \in DOMAIN Elements
             /\ c = ArrayCasting(p, a)
    <2>1. CASE Elements[a.base] # p.base
      BY <1>6, <2>1 DEF ArrayCasting, Casting, PassedAsElements
    <2>2. CASE Elements[a.base] = p.base /\ a.mode = "semi"
      <3>1. c = Casting(2, "none")
        BY <1>6, <2>2 DEF ArrayCasting
      <3>2. Fits(p, a, "none")
        BY <1>6, <2>2 DEF Fits
      <3> QED
        BY <3>1, <3>2 DEF Casting
    <2>3. CASE Elements[a.base] = p.base /\ a.mode # "semi"
      <3>1. c = Casting(2, "makeRef")
        BY <1>6, <2>3 DEF ArrayCasting
      <3>2. Fits(p, a, "makeRef") <=> p.mode # "value" /\ a.mode = "value"
        BY DEF Fits
      <3>3. a.mode = "value" \/ a.mode = "ref"
        BY <2>3 DEF ScriptTypes
      <3> QED
        BY <1>6, <3>1, <3>2, <3>3 DEF Casting, PassedAsElements
    <2> QED
      BY <2>1, <2>2, <2>3
  <1>7. CASE p = Semi(a.base) /\ a.mode = "value" /\ c = Casting(2, "makeRef")
    BY <1>7 DEF Casting, Fits, Semi
  <1>8. CASE p = Value(a.base) /\ a.mode = "semi" /\ c = Casting(2, "deref")
    BY <1>8 DEF Casting, Fits, Value
  <1>9. CASE <<a, p>> \in Conversions /\ c = Casting(ConversionAccuracy(a, p), "convert")
    BY <1>2, <1>9 DEF Casting, Fits
  <1>10. CASE /\ a.mode = "semi" /\ <<Value(a.base), p>> \in Conversions
              /\ c = Casting(ConversionAccuracy(Value(a.base), p) + 2, "derefConvert")
    BY <1>2, <1>10 DEF Casting, Fits
  <1> QED
    BY <1>1, <1>3, <1>4, <1>5, <1>6, <1>7, <1>8, <1>9, <1>10

(* A type is taken as it is at no cost.                                    *)
LEMMA SameTypeMatches ==
    ASSUME NEW p, NEW a, p = a, NEW level2
    PROVE  FindMatching(p, a, level2) = {Casting(0, "none")}
  <1>1. FindMatchingLevel1(p, a) = {Casting(0, "none")}
    BY Zenon DEF FindMatchingLevel1
  <1> QED
    BY <1>1 DEF FindMatching

(* What is accepted without conversions is accepted with them.             *)
LEMMA AcceptedWithConversions ==
    ASSUME NEW f, NEW path, NEW level2, Accepts(f, path, level2)
    PROVE  Accepts(f, path, TRUE)
  BY DEF Accepts, FindMatching

-----------------------------------------------------------------------------
LEMMA Times ==
    ASSUME NEW x, x \in Nat, NEW y, y \in Nat
    PROVE  x * y \in Nat
  OBVIOUS

(* A function that is defined from the one behind each number exists.      *)
Recurs(n, a, c, z) ==
    \E f \in [0 .. n -> Nat] :
        /\ f[n] = z
        /\ \A i \in 0 .. n - 1 : f[i] = a[i + 1] * f[i + 1] + c[i + 1]

LEMMA Recurrence ==
    ASSUME NEW n, n \in Nat, NEW a, a \in [1 .. n -> Nat], NEW c, c \in [1 .. n -> Nat],
           NEW z, z \in Nat
    PROVE  Recurs(n, a, c, z)
  <1> DEFINE Holds(m, f) ==
                /\ f[n] = z
                /\ \A i \in m .. n - 1 : f[i] = a[i + 1] * f[i + 1] + c[i + 1]
             T == {m \in Nat : m =< n => \E f \in [n - m .. n -> Nat] : Holds(n - m, f)}
  <1>1. 0 \in T
    <2> DEFINE f == [i \in n .. n |-> z]
    <2>1. f \in [n - 0 .. n -> Nat] /\ Holds(n - 0, f)
      OBVIOUS
    <2> QED
      BY <2>1
  <1>2. ASSUME NEW m \in Nat, m \in T
        PROVE  m + 1 \in T
    <2> HIDE DEF Holds
    <2> DEFINE There(x) == x =< n => \E f \in [n - x .. n -> Nat] : Holds(n - x, f)
    <2>0. T = {x \in Nat : There(x)} /\ m + 1 \in Nat
      OBVIOUS
    <2> HIDE DEF T
    <2> SUFFICES ASSUME m + 1 =< n
                 PROVE  \E f \in [n - (m + 1) .. n -> Nat] : Holds(n - (m + 1), f)
      <3>1. (m + 1 \in T) <=> There(m + 1)
        <4> HIDE DEF There
        <4> QED
          BY <2>0
      <3> QED
        BY <3>1
    <2> USE DEF T
    <2> DEFINE k == n - m
    <2>1. k \in 1 .. n /\ n - (m + 1) = k - 1
      OBVIOUS
    <2>2. PICK f \in [k .. n -> Nat] : Holds(k, f)
      <3>1. m =< n
        OBVIOUS
      <3> QED
        BY <1>2, <3>1
    <2> USE DEF Holds
    <2> HIDE DEF k
    <2> DEFINE g == [i \in k - 1 .. n |-> IF i = k - 1 THEN a[k] * f[k] + c[k] ELSE f[i]]
    <2>3. a[k] * f[k] + c[k] \in Nat
      <3>1. a[k] \in Nat /\ f[k] \in Nat /\ c[k] \in Nat
        BY <2>1, <2>2
      <3>2. a[k] * f[k] \in Nat
        BY <3>1, Times
      <3> QED
        BY <3>1, <3>2
    <2>4. g \in [k - 1 .. n -> Nat]
      BY <2>1, <2>2, <2>3
    <2>5. /\ \A i \in k .. n : g[i] = f[i]
          /\ g[k - 1] = a[k] * f[k] + c[k]
      BY <2>1
    <2> HIDE DEF g
    <2>6. g[n] = z
      BY <2>1, <2>2, <2>5
    <2>7. ASSUME NEW i \in k - 1 .. n - 1
          PROVE  g[i] = a[i + 1] * g[i + 1] + c[i + 1]
      <3>1. CASE i = k - 1
        <4>1. i + 1 = k /\ g[i + 1] = f[k]
          BY <2>1, <2>5, <3>1
        <4> QED
          BY <2>5, <3>1, <4>1
      <3>2. CASE i # k - 1
        <4>1. i \in k .. n - 1 /\ i \in k .. n /\ i + 1 \in k .. n
          BY <2>1, <2>7, <3>2
        <4> QED
          BY <2>2, <2>5, <4>1
      <3> QED
        BY <3>1, <3>2
    <2> QED
      BY <2>1, <2>4, <2>6, <2>7
  <1>3. n \in T
    <2> HIDE DEF T
    <2> QED
      BY <1>1, <1>2, Induct
  <1>4. n - n = 0 /\ n =< n
    OBVIOUS
  <1>5. \E f \in [0 .. n -> Nat] : Holds(0, f)
    <2> HIDE DEF Holds
    <2> QED
      BY <1>3, <1>4
  <1> QED
    BY <1>5 DEF Recurs

(* The sum of the accuracies: none where they are none.                    *)
LEMMA Totals ==
    ASSUME NEW castings, Len(castings) \in Nat,
           \A i \in 1 .. Len(castings) : castings[i].accuracy \in Int
    PROVE  /\ Total(castings) \in Int
           /\ (\A i \in 1 .. Len(castings) : castings[i].accuracy \in Nat)
                 => Total(castings) \in Nat
           /\ (\A i \in 1 .. Len(castings) : castings[i].accuracy = 0)
                 => Total(castings) = 0
  <1> DEFINE n == Len(castings)
             acc(i) == castings[i].accuracy
             IsSum(f) == f = [k \in 0 .. n |-> IF k = 0 THEN 0 ELSE f[k - 1] + acc(k)]
             T == {m \in Nat : m =< n =>
                      \E f \in [0 .. m -> Int] :
                          /\ f[0] = 0
                          /\ \A k \in 1 .. m : f[k] = f[k - 1] + acc(k)}
  <1>1. 0 \in T
    <2> DEFINE f == [k \in 0 .. 0 |-> 0]
    <2>1. f \in [0 .. 0 -> Int] /\ f[0] = 0 /\ \A k \in 1 .. 0 : f[k] = f[k - 1] + acc(k)
      OBVIOUS
    <2> QED
      BY <2>1
  <1>2. ASSUME NEW m \in Nat, m \in T
        PROVE  m + 1 \in T
    <2> SUFFICES ASSUME m + 1 =< n
                 PROVE  \E f \in [0 .. m + 1 -> Int] :
                            /\ f[0] = 0
                            /\ \A k \in 1 .. m + 1 : f[k] = f[k - 1] + acc(k)
      OBVIOUS
    <2>1. PICK f \in [0 .. m -> Int] : /\ f[0] = 0
                                       /\ \A k \in 1 .. m : f[k] = f[k - 1] + acc(k)
      <3>1. m =< n
        OBVIOUS
      <3> HIDE DEF acc, n
      <3> QED
        BY <1>2, <3>1
    <2>2. acc(m + 1) \in Int
      OBVIOUS
    <2> HIDE DEF acc
    <2> DEFINE g == [k \in 0 .. m + 1 |-> IF k = m + 1 THEN f[m] + acc(m + 1) ELSE f[k]]
    <2>3. g \in [0 .. m + 1 -> Int] /\ g[0] = 0
      BY <2>1, <2>2
    <2>4. (\A k \in 0 .. m : g[k] = f[k]) /\ g[m + 1] = f[m] + acc(m + 1)
      OBVIOUS
    <2> HIDE DEF g
    <2>5. ASSUME NEW k \in 1 .. m + 1
          PROVE  g[k] = g[k - 1] + acc(k)
      <3>1. CASE k = m + 1
        BY <2>4, <3>1
      <3>2. CASE k # m + 1
        <4>1. k \in 1 .. m /\ k \in 0 .. m /\ k - 1 \in 0 .. m
          BY <2>5, <3>2
        <4> QED
          BY <2>1, <2>4, <4>1
      <3> QED
        BY <3>1, <3>2
    <2> QED
      BY <2>3, <2>5
  <1>3. n \in T
    <2> HIDE DEF T
    <2> QED
      BY <1>1, <1>2, Induct
  <1>4. \E f : IsSum(f)
    <2>1. PICK f \in [0 .. n -> Int] : /\ f[0] = 0
                                       /\ \A k \in 1 .. n : f[k] = f[k - 1] + acc(k)
      BY <1>3
    <2> HIDE DEF acc
    <2>2. f = [k \in 0 .. n |-> IF k = 0 THEN 0 ELSE f[k - 1] + acc(k)]
      BY <2>1
    <2> QED
      BY <2>2
  <1> DEFINE sum == CHOOSE f : IsSum(f)
  <1>5. IsSum(sum)
    BY <1>4
  <1>6. Total(castings) = sum[n]
    BY DEF Total
  <1>7. /\ sum[0] = 0
        /\ \A k \in 0 .. n - 1 : sum[k + 1] = sum[k] + acc(k + 1)
    <2> HIDE DEF acc, sum
    <2> QED
      BY <1>5
  <1>8. \A k \in 0 .. n - 1 : acc(k + 1) \in Int
    OBVIOUS
  <1> HIDE DEF sum
  <1>9. sum[n] \in Int
    <2> DEFINE U == {m \in Nat : m =< n => sum[m] \in Int}
    <2>1. 0 \in U
      BY <1>7
    <2>2. \A m \in Nat : m \in U => m + 1 \in U
      <3> HIDE DEF acc
      <3> QED
        BY <1>7, <1>8
    <2>3. n \in U
      <3> HIDE DEF U
      <3> QED
        BY <2>1, <2>2, Induct
    <2> QED
      BY <2>3
  <1>10. (\A i \in 1 .. n : acc(i) \in Nat) => sum[n] \in Nat
    <2> SUFFICES ASSUME \A k \in 0 .. n - 1 : acc(k + 1) \in Nat PROVE sum[n] \in Nat
      OBVIOUS
    <2> DEFINE U == {m \in Nat : m =< n => sum[m] \in Nat}
    <2>1. 0 \in U
      BY <1>7
    <2>2. \A m \in Nat : m \in U => m + 1 \in U
      <3> HIDE DEF acc
      <3> QED
        BY <1>7
    <2>3. n \in U
      <3> HIDE DEF U
      <3> QED
        BY <2>1, <2>2, Induct
    <2> QED
      BY <2>3
  <1>11. (\A i \in 1 .. n : acc(i) = 0) => sum[n] = 0
    <2> SUFFICES ASSUME \A k \in 0 .. n - 1 : acc(k + 1) = 0 PROVE sum[n] = 0
      OBVIOUS
    <2> DEFINE U == {m \in Nat : m =< n => sum[m] = 0}
    <2>1. 0 \in U
      BY <1>7
    <2>2. \A m \in Nat : m \in U => m + 1 \in U
      <3> HIDE DEF acc
      <3> QED
        BY <1>7
    <2>3. n \in U
      <3> HIDE DEF U
      <3> QED
        BY <2>1, <2>2, Induct
    <2> QED
      BY <2>3
  <1> QED
    BY <1>6, <1>9, <1>10, <1>11

-----------------------------------------------------------------------------
(* The numbers of choices behind each parameter.                           *)
LEMMA Behind ==
    ASSUME NEW args \in Seq(Seq(ScriptTypes))
    PROVE  /\ ChoicesBehind(args) \in [0 .. Len(args) -> Nat]
           /\ ChoicesBehind(args)[Len(args)] = 1
           /\ \A i \in 0 .. Len(args) - 1 :
                 /\ Len(args[i + 1]) \in Nat
                 /\ ChoicesBehind(args)[i] =
                        Len(args[i + 1]) * ChoicesBehind(args)[i + 1]
  <1> DEFINE n == Len(args)
             IsCount(f) == f = [i \in 0 .. n |-> IF i = n THEN 1 ELSE Len(args[i + 1]) * f[i + 1]]
             a == [i \in 1 .. n |-> Len(args[i])]
             c == [i \in 1 .. n |-> 0]
  <1>1. n \in Nat /\ \A i \in 1 .. n : Len(args[i]) \in Nat
    OBVIOUS
  <1>2. a \in [1 .. n -> Nat] /\ c \in [1 .. n -> Nat] /\ 1 \in Nat
    BY <1>1
  <1>3. \A i \in 0 .. n - 1 : /\ i + 1 \in 1 .. n /\ a[i + 1] = Len(args[i + 1])
                              /\ c[i + 1] = 0 /\ Len(args[i + 1]) \in Nat
    BY <1>1
  <1>4. \E f : IsCount(f)
    <2> HIDE DEF a, c, n
    <2>1. PICK f \in [0 .. n -> Nat] :
              /\ f[n] = 1
              /\ \A i \in 0 .. n - 1 : f[i] = a[i + 1] * f[i + 1] + c[i + 1]
      <3>1. n \in Nat /\ a \in [1 .. n -> Nat] /\ c \in [1 .. n -> Nat] /\ 1 \in Nat
        BY <1>1, <1>2
      <3>2. Recurs(n, a, c, 1)
        BY <3>1, Recurrence
      <3> QED
        BY <3>2 DEF Recurs
    <2>2. \A i \in 0 .. n - 1 : f[i] = Len(args[i + 1]) * f[i + 1]
      <3> SUFFICES ASSUME NEW i \in 0 .. n - 1
                   PROVE  f[i] = Len(args[i + 1]) * f[i + 1]
        OBVIOUS
      <3>1. f[i] = Len(args[i + 1]) * f[i + 1] + 0
        BY <1>3, <2>1
      <3>2. i + 1 \in 0 .. n
        BY <1>1
      <3>3. f[i + 1] \in Nat
        BY <2>1, <3>2
      <3>4. Len(args[i + 1]) * f[i + 1] \in Nat
        BY <1>3, <3>3, Times
      <3> QED
        BY <3>1, <3>4
    <2>3. IsCount(f)
      BY <1>1, <2>1, <2>2
    <2> QED
      BY <2>3
  <1> DEFINE b == CHOOSE f : IsCount(f)
  <1>5. ChoicesBehind(args) = b
    BY DEF ChoicesBehind
  <1>6. IsCount(b)
    BY <1>4
  <1> HIDE DEF b, a, c
  <1>7. /\ b[n] = 1 /\ DOMAIN b = 0 .. n
        /\ \A i \in 0 .. n - 1 : b[i] = Len(args[i + 1]) * b[i + 1]
    <2> HIDE DEF n
    <2> QED
      BY <1>1, <1>6 DEF n
  <1>8. \A i \in 0 .. n : b[i] \in Nat
    <2> DEFINE U == {m \in Nat : m =< n => b[n - m] \in Nat}
    <2>1. 0 \in U
      BY <1>1, <1>7
    <2>2. ASSUME NEW m \in Nat, m \in U
          PROVE  m + 1 \in U
      <3> SUFFICES ASSUME m + 1 =< n PROVE b[n - (m + 1)] \in Nat
        OBVIOUS
      <3>1. n - (m + 1) \in 0 .. n - 1 /\ (n - (m + 1)) + 1 = n - m /\ m =< n
        BY <1>1
      <3>2. b[n - m] \in Nat
        BY <2>2, <3>1
      <3>3. b[n - (m + 1)] = Len(args[(n - (m + 1)) + 1]) * b[n - m]
        BY <1>7, <3>1
      <3>4. Len(args[(n - (m + 1)) + 1]) \in Nat
        BY <1>3, <3>1
      <3>5. \A x, y \in Nat : x * y \in Nat
        OBVIOUS
      <3> QED
        BY <3>2, <3>3, <3>4, <3>5
    <2>3. Nat \subseteq U
      <3> HIDE DEF U
      <3> QED
        BY <2>1, <2>2, Induct
    <2> SUFFICES ASSUME NEW i \in 0 .. n PROVE b[i] \in Nat
      OBVIOUS
    <2>4. n - i \in Nat /\ n - i =< n /\ n - (n - i) = i
      BY <1>1
    <2> QED
      BY <2>3, <2>4
  <1>9. b \in [0 .. n -> Nat]
    <2>1. b = [i \in 0 .. n |-> b[i]]
      BY <1>6, <1>7
    <2> QED
      BY <1>8, <2>1
  <1> QED
    BY <1>3, <1>5, <1>7, <1>9

(* Division, and a number put together from its quotient and remainder.    *)
LEMMA Remainder ==
    ASSUME NEW x \in Nat, NEW y \in Nat, y # 0
    PROVE  x \div y \in Nat /\ x % y \in 0 .. y - 1
  OBVIOUS

LEMMA PutTogether ==
    ASSUME NEW q \in Nat, NEW r \in Nat, NEW y \in Nat, r < y,
           NEW x, x = q * y + r
    PROVE  x \div y = q /\ x % y = r
  <1>1. (q * y + r) \div y = q /\ (q * y + r) % y = r
    OBVIOUS
  <1> QED
    BY <1>1

(* A number and the digits before it: what is put together is a number, and *)
(* less than one more of the digit.                                        *)
LEMMA DigitType ==
    ASSUME NEW x \in Nat, NEW y \in Nat, NEW w \in Nat
    PROVE  x * y + w \in Nat
  OBVIOUS

LEMMA DigitFits ==
    ASSUME NEW x \in Nat, NEW y \in Nat, NEW z \in Nat, NEW w \in Nat, w < y, x + 1 =< z
    PROVE  x * y + w < z * y
  <1>1. x * y \in Nat /\ z * y \in Nat /\ (x + 1) * y \in Nat
    OBVIOUS
  <1>2. (x + 1) * y = x * y + y
    OBVIOUS
  <1>3. (x + 1) * y =< z * y
    OBVIOUS
  <1> QED
    BY <1>1, <1>2, <1>3

(* The choices of one candidate for each parameter.                        *)
Selections(args) ==
    {p \in [DOMAIN args -> UNION {Range(args[i]) : i \in DOMAIN args}] :
        \A i \in DOMAIN p : p[i] \in Range(args[i])}

LEMMA ChoiceTypes ==
    ASSUME NEW args \in Seq(Seq(ScriptTypes)), NEW p \in Selections(args)
    PROVE  /\ p \in Seq(ScriptTypes) /\ Len(p) = Len(args)
           /\ \A i \in 1 .. Len(args) : p[i] \in Range(args[i])
  <1>1. /\ DOMAIN p = 1 .. Len(args) /\ Len(args) \in Nat
        /\ p = [i \in 1 .. Len(args) |-> p[i]]
        /\ \A i \in 1 .. Len(args) : p[i] \in Range(args[i])
    BY DEF Selections
  <1>2. \A i \in 1 .. Len(args) : p[i] \in ScriptTypes
    <2> SUFFICES ASSUME NEW i \in 1 .. Len(args) PROVE p[i] \in ScriptTypes
      OBVIOUS
    <2>1. args[i] \in Seq(ScriptTypes)
      OBVIOUS
    <2>2. Range(args[i]) \subseteq ScriptTypes
      BY <2>1 DEF Range
    <2> QED
      BY <1>1, <2>2
  <1> QED
    BY <1>1, <1>2

(* Every path that is listed is a choice.                                  *)
LEMMA PathsAreChoices ==
    ASSUME NEW args \in Seq(Seq(ScriptTypes))
    PROVE  ListPaths(args) \in Seq(Selections(args))
  <1> DEFINE n == Len(args)
             b == ChoicesBehind(args)
             path(k) == [i \in DOMAIN args |->
                            args[i][(((k - 1) \div b[i]) % Len(args[i])) + 1]]
  <1>1. /\ n \in Nat /\ DOMAIN args = 1 .. n /\ b \in [0 .. n -> Nat]
        /\ \A i \in 0 .. n - 1 : /\ Len(args[i + 1]) \in Nat
                                 /\ b[i] = Len(args[i + 1]) * b[i + 1]
    BY Behind
  <1>2. ListPaths(args) = [k \in 1 .. b[0] |-> path(k)]
    BY DEF ListPaths
  <1>3. ASSUME b[0] # 0
        PROVE  \A i \in 0 .. n : b[i] # 0
    <2> DEFINE U == {m \in Nat : m =< n => b[m] # 0}
    <2>1. 0 \in U
      BY <1>3
    <2>2. ASSUME NEW m \in Nat, m \in U
          PROVE  m + 1 \in U
      <3> SUFFICES ASSUME m + 1 =< n PROVE b[m + 1] # 0
        OBVIOUS
      <3>1. m \in 0 .. n - 1 /\ b[m] # 0
        BY <1>1, <2>2
      <3>2. b[m] = Len(args[m + 1]) * b[m + 1] /\ Len(args[m + 1]) \in Nat
        BY <1>1, <3>1
      <3>3. \A x \in Nat : x * 0 = 0
        OBVIOUS
      <3> QED
        BY <3>1, <3>2, <3>3
    <2>3. Nat \subseteq U
      <3> HIDE DEF U
      <3> QED
        BY <2>1, <2>2, Induct
    <2> QED
      BY <1>1, <2>3
  <1>4. ASSUME NEW k \in 1 .. b[0]
        PROVE  path(k) \in Selections(args)
    <2>1. ASSUME NEW i \in 1 .. n
          PROVE  path(k)[i] \in Range(args[i])
      <3>1. b[0] \in Nat /\ b[0] # 0 /\ k - 1 \in Nat
        <4>1. 0 \in 0 .. n /\ b \in [0 .. n -> Nat]
          BY <1>1
        <4> HIDE DEF n, b, path
        <4>2. b[0] \in Nat
          BY <4>1
        <4> QED
          BY <4>2
      <3>2. i - 1 \in 0 .. n - 1 /\ (i - 1) + 1 = i /\ i \in 0 .. n /\ i - 1 \in 0 .. n
        BY <1>1
      <3>3. b[i] \in Nat /\ b[i] # 0 /\ b[i - 1] # 0 /\ Len(args[i]) \in Nat
            /\ b[i - 1] = Len(args[i]) * b[i]
        BY <1>1, <1>3, <3>1, <3>2
      <3>4. Len(args[i]) # 0
        <4>1. \A x \in Nat : 0 * x = 0
          OBVIOUS
        <4> QED
          BY <3>3, <4>1
      <3> HIDE DEF b
      <3>6. ((k - 1) \div b[i]) \in Nat
        BY <3>1, <3>3, Remainder
      <3>7. ((k - 1) \div b[i]) % Len(args[i]) \in 0 .. Len(args[i]) - 1
        BY <3>3, <3>4, <3>6, Remainder
      <3>8. (((k - 1) \div b[i]) % Len(args[i])) + 1 \in 1 .. Len(args[i])
        BY <3>3, <3>7
      <3>9. args[i] \in Seq(ScriptTypes)
        BY <1>1
      <3> QED
        BY <1>1, <3>8, <3>9 DEF Range
    <2>2. DOMAIN path(k) = DOMAIN args
      OBVIOUS
    <2> HIDE DEF path
    <2>3. path(k) \in [DOMAIN args -> UNION {Range(args[i]) : i \in DOMAIN args}]
      <3>1. path(k) = [i \in DOMAIN args |-> path(k)[i]]
        BY DEF path
      <3> QED
        BY <1>1, <2>1, <3>1
    <2> QED
      BY <1>1, <2>1, <2>2, <2>3 DEF Selections
  <1>5. b[0] \in Nat
    BY <1>1
  <1> DEFINE m == b[0]
  <1>6. /\ m \in Nat /\ ListPaths(args) = [k \in 1 .. m |-> path(k)]
        /\ \A k \in 1 .. m : path(k) \in Selections(args)
    BY <1>2, <1>4, <1>5
  <1> HIDE DEF b, path, m
  <1> QED
    BY <1>6

(* Every choice is listed: the numbers chosen for the parameters are the    *)
(* digits of its place, each with the radix of its parameter.              *)
LEMMA ChoicesAreListed ==
    ASSUME NEW args \in Seq(Seq(ScriptTypes)), NEW p \in Selections(args)
    PROVE  p \in Range(ListPaths(args))
  <1> DEFINE n == Len(args)
             b == ChoicesBehind(args)
             len(i) == Len(args[i])
  <1>1. /\ n \in Nat /\ DOMAIN args = 1 .. n /\ b \in [0 .. n -> Nat] /\ b[n] = 1
        /\ \A i \in 0 .. n - 1 : len(i + 1) \in Nat /\ b[i] = len(i + 1) * b[i + 1]
    BY Behind
  <1>2. DOMAIN p = 1 .. n /\ \A i \in 1 .. n : p[i] \in Range(args[i])
    BY <1>1 DEF Selections
  <1>3. \A i \in 1 .. n : \E j \in Nat : /\ j + 1 \in 1 .. len(i)
                                         /\ p[i] = args[i][j + 1]
    <2> SUFFICES ASSUME NEW i \in 1 .. n
                 PROVE  \E j \in Nat : j + 1 \in 1 .. len(i) /\ p[i] = args[i][j + 1]
      OBVIOUS
    <2>1. args[i] \in Seq(ScriptTypes) /\ DOMAIN args[i] = 1 .. len(i)
      BY <1>1
    <2>2. PICK k \in 1 .. len(i) : p[i] = args[i][k]
      BY <1>2, <2>1 DEF Range
    <2>3. k - 1 \in Nat /\ (k - 1) + 1 = k
      BY <2>1
    <2> QED
      BY <2>2, <2>3
  <1> DEFINE d == [i \in 1 .. n |-> CHOOSE j \in Nat : /\ j + 1 \in 1 .. len(i)
                                                       /\ p[i] = args[i][j + 1]]
             one == [i \in 1 .. n |-> 1]
             c == [i \in 1 .. n |-> d[i] * b[i]]
  <1>4. \A i \in 1 .. n : /\ d[i] \in Nat /\ d[i] + 1 \in 1 .. len(i)
                          /\ p[i] = args[i][d[i] + 1]
    BY <1>3
  <1> HIDE DEF d, b, len
  <1>5. one \in [1 .. n -> Nat] /\ c \in [1 .. n -> Nat]
    <2>1. ASSUME NEW i \in 1 .. n PROVE d[i] * b[i] \in Nat
      <3>1. d[i] \in Nat /\ b[i] \in Nat
        BY <1>1, <1>4
      <3> QED
        BY <3>1, Times
    <2> QED
      BY <2>1
  <1>6. \A i \in 0 .. n - 1 : i + 1 \in 1 .. n /\ i + 1 \in 0 .. n /\ i \in 0 .. n
    BY <1>1
  <1>7. PICK K \in [0 .. n -> Nat] :
            /\ K[n] = 0
            /\ \A i \in 0 .. n - 1 : K[i] = d[i + 1] * b[i + 1] + K[i + 1]
    <2>1. PICK K \in [0 .. n -> Nat] :
              /\ K[n] = 0
              /\ \A i \in 0 .. n - 1 : K[i] = one[i + 1] * K[i + 1] + c[i + 1]
      <3> HIDE DEF one, c, n
      <3> QED
        <4>1. 0 \in Nat /\ n \in Nat
          BY <1>1
        <4>2. Recurs(n, one, c, 0)
          BY <1>5, <4>1, Recurrence
        <4>3. \E K \in [0 .. n -> Nat] :
                 /\ K[n] = 0
                 /\ \A i \in 0 .. n - 1 : K[i] = one[i + 1] * K[i + 1] + c[i + 1]
          BY <4>2 DEF Recurs
        <4> QED
          BY <4>3
    <2>2. \A i \in 0 .. n - 1 : K[i] = d[i + 1] * b[i + 1] + K[i + 1]
      <3> SUFFICES ASSUME NEW i \in 0 .. n - 1
                   PROVE  K[i] = d[i + 1] * b[i + 1] + K[i + 1]
        OBVIOUS
      <3>1. one[i + 1] = 1 /\ c[i + 1] = d[i + 1] * b[i + 1] /\ c[i + 1] \in Nat
            /\ K[i + 1] \in Nat
        BY <1>5, <1>6
      <3>2. K[i] = one[i + 1] * K[i + 1] + c[i + 1]
        BY <2>1
      <3> HIDE DEF one, c
      <3> QED
        BY <3>1, <3>2
    <2> QED
      BY <2>1, <2>2
  <1> HIDE DEF one, c
  (* What is left behind the first i digits is less than their unit.       *)
  <1>8. \A i \in 0 .. n : K[i] < b[i]
    <2> DEFINE U == {m \in Nat : m =< n => K[n - m] < b[n - m]}
    <2>1. 0 \in U
      BY <1>1, <1>7
    <2>2. ASSUME NEW m \in Nat, m \in U
          PROVE  m + 1 \in U
      <3> SUFFICES ASSUME m + 1 =< n PROVE K[n - (m + 1)] < b[n - (m + 1)]
        OBVIOUS
      <3> DEFINE i == n - (m + 1)
      <3>1. i \in 0 .. n - 1 /\ i + 1 = n - m /\ m =< n
        BY <1>1
      <3>2. K[i + 1] < b[i + 1]
        BY <2>2, <3>1
      <3> HIDE DEF i
      <3>3. /\ d[i + 1] \in Nat /\ d[i + 1] + 1 =< len(i + 1) /\ len(i + 1) \in Nat
            /\ b[i + 1] \in Nat /\ K[i + 1] \in Nat
            /\ b[i] = len(i + 1) * b[i + 1]
            /\ K[i] = d[i + 1] * b[i + 1] + K[i + 1]
        <4>1. i + 1 \in 1 .. n /\ i + 1 \in 0 .. n
          BY <1>6, <3>1
        <4>2. len(i + 1) \in Nat /\ b[i] = len(i + 1) * b[i + 1] /\ b[i + 1] \in Nat
          BY <1>1, <3>1, <4>1
        <4>3. d[i + 1] \in Nat /\ d[i + 1] + 1 \in 1 .. len(i + 1)
          BY <1>4, <4>1
        <4>4. K[i + 1] \in Nat /\ K[i] = d[i + 1] * b[i + 1] + K[i + 1]
          BY <1>7, <3>1, <4>1
        <4> QED
          BY <4>2, <4>3, <4>4
      <3>4. d[i + 1] * b[i + 1] + K[i + 1] < len(i + 1) * b[i + 1]
        BY <3>2, <3>3, DigitFits
      <3> QED
        BY <3>3, <3>4 DEF i
    <2>3. Nat \subseteq U
      <3> HIDE DEF U
      <3> QED
        BY <2>1, <2>2, Induct
    <2> SUFFICES ASSUME NEW i \in 0 .. n PROVE K[i] < b[i]
      OBVIOUS
    <2>4. n - i \in Nat /\ n - i =< n /\ n - (n - i) = i
      BY <1>1
    <2> QED
      BY <2>3, <2>4
  (* The first i digits, and what is left.                                 *)
  <1>9. \A i \in 0 .. n : \E q \in Nat : K[0] = q * b[i] + K[i]
    <2> DEFINE U == {m \in Nat : m =< n => \E q \in Nat : K[0] = q * b[m] + K[m]}
    <2>1. 0 \in U
      <3>1. b[0] \in Nat /\ K[0] \in Nat /\ 0 \in Nat
        BY <1>1
      <3>2. K[0] = 0 * b[0] + K[0]
        BY <3>1
      <3> QED
        BY <3>1, <3>2
    <2>2. ASSUME NEW m \in Nat, m \in U
          PROVE  m + 1 \in U
      <3> SUFFICES ASSUME m + 1 =< n
                   PROVE  \E q \in Nat : K[0] = q * b[m + 1] + K[m + 1]
        OBVIOUS
      <3>1. m \in 0 .. n - 1 /\ m =< n
        BY <1>1
      <3>2. PICK q \in Nat : K[0] = q * b[m] + K[m]
        BY <2>2, <3>1
      <3>3. /\ d[m + 1] \in Nat /\ len(m + 1) \in Nat /\ b[m + 1] \in Nat
            /\ K[m + 1] \in Nat
            /\ b[m] = len(m + 1) * b[m + 1]
            /\ K[m] = d[m + 1] * b[m + 1] + K[m + 1]
        BY <1>1, <1>4, <1>6, <1>7, <3>1
      <3>5. K[0] = (q * len(m + 1) + d[m + 1]) * b[m + 1] + K[m + 1]
            /\ q * len(m + 1) + d[m + 1] \in Nat
        <4> DEFINE y == len(m + 1)
                   z == b[m + 1]
                   w == d[m + 1]
                   v == K[m + 1]
                   t == b[m]
                   r == K[m]
                   k0 == K[0]
        <4>1. /\ y \in Nat /\ z \in Nat /\ w \in Nat /\ v \in Nat
              /\ t = y * z /\ r = w * z + v /\ k0 = q * t + r
          BY <3>2, <3>3
        <4>2. k0 = (q * y + w) * z + v /\ q * y + w \in Nat
          <5> HIDE DEF y, z, w, v, t, r, k0
          <5>1. q * y + w \in Nat
            BY <4>1, DigitType
          <5>2. k0 = (q * y + w) * z + v
            BY <4>1
          <5> QED
            BY <5>1, <5>2
        <4> QED
          BY <4>2
      <3> QED
        BY <3>5
    <2>3. Nat \subseteq U
      <3> HIDE DEF U
      <3> QED
        BY <2>1, <2>2, Induct
    <2> QED
      BY <1>1, <2>3
  <1>10. \A i \in 1 .. n : ((K[0] \div b[i]) % len(i)) = d[i]
    <2> SUFFICES ASSUME NEW i \in 1 .. n PROVE ((K[0] \div b[i]) % len(i)) = d[i]
      OBVIOUS
    <2>1. i - 1 \in 0 .. n - 1 /\ i - 1 \in 0 .. n /\ (i - 1) + 1 = i /\ i \in 0 .. n
      BY <1>1
    <2>2. PICK q \in Nat : K[0] = q * b[i - 1] + K[i - 1]
      BY <1>9, <2>1
    <2>3. /\ d[i] \in Nat /\ d[i] < len(i) /\ len(i) \in Nat /\ b[i] \in Nat
          /\ K[i] \in Nat /\ K[i] < b[i]
          /\ b[i - 1] = len(i) * b[i] /\ K[i - 1] = d[i] * b[i] + K[i]
      <3>1. len(i) \in Nat /\ b[i - 1] = len(i) * b[i] /\ b[i] \in Nat
        BY <1>1, <2>1
      <3>2. d[i] \in Nat /\ d[i] + 1 \in 1 .. len(i)
        BY <1>4
      <3>3. K[i] \in Nat /\ K[i] < b[i] /\ K[i - 1] = d[i] * b[i] + K[i]
        BY <1>7, <1>8, <2>1
      <3> QED
        BY <3>1, <3>2, <3>3
    <2>4. q * len(i) \in Nat
      BY <2>3
    <2>5. K[0] = (q * len(i) + d[i]) * b[i] + K[i] /\ q * len(i) + d[i] \in Nat
      <3> DEFINE y == len(i)
                 z == b[i]
                 w == d[i]
                 v == K[i]
                 t == b[i - 1]
                 r == K[i - 1]
                 k0 == K[0]
      <3>1. /\ y \in Nat /\ z \in Nat /\ w \in Nat /\ v \in Nat
            /\ t = y * z /\ r = w * z + v /\ k0 = q * t + r
        BY <2>2, <2>3
      <3>2. k0 = (q * y + w) * z + v /\ q * y + w \in Nat
        <4> HIDE DEF y, z, w, v, t, r, k0
        <4>1. q * y + w \in Nat
          BY <3>1, DigitType
        <4>2. k0 = (q * y + w) * z + v
          BY <3>1
        <4> QED
          BY <4>1, <4>2
      <3> QED
        BY <3>2
    <2>6. K[0] \div b[i] = q * len(i) + d[i]
      <3> DEFINE Q == q * len(i) + d[i]
      <3>1. Q \in Nat /\ K[0] = Q * b[i] + K[i]
        BY <2>5
      <3> HIDE DEF Q
      <3>2. K[0] \div b[i] = Q
        BY <2>3, <3>1, PutTogether
      <3> QED
        BY <3>2 DEF Q
    <2>7. (q * len(i) + d[i]) % len(i) = d[i]
      <3> DEFINE y == len(i)
                 w == d[i]
                 x == q * y + w
      <3>1. y \in Nat /\ w \in Nat /\ w < y
        BY <2>3
      <3> HIDE DEF y, w
      <3>2. x % y = w
        BY <3>1, PutTogether
      <3> QED
        BY <3>2 DEF y, w
    <2> QED
      BY <2>6, <2>7
  <1> DEFINE k == K[0] + 1
  <1>11. k \in 1 .. b[0] /\ k - 1 = K[0]
    <2>1. K[0] \in Nat /\ b[0] \in Nat /\ K[0] < b[0]
      BY <1>1, <1>8
    <2> QED
      BY <2>1
  <1> HIDE DEF k
  <1>12. ListPaths(args)[k] = p
    <2>1. ListPaths(args)[k] = [i \in DOMAIN args |->
              args[i][(((k - 1) \div b[i]) % len(i)) + 1]]
      BY <1>11 DEF ListPaths, b, len
    <2>2. \A i \in 1 .. n : args[i][(((k - 1) \div b[i]) % len(i)) + 1] = p[i]
      BY <1>4, <1>10, <1>11
    <2>3. p = [i \in 1 .. n |-> p[i]]
      BY DEF Selections
    <2> QED
      BY <1>1, <2>1, <2>2, <2>3
  <1>13. k \in DOMAIN ListPaths(args)
    BY <1>11 DEF ListPaths, b
  <1> QED
    BY <1>12, <1>13 DEF Range

-----------------------------------------------------------------------------
(* A candidate: its castings are matches, and its total is their sum.      *)
LEMMA CandidateFits ==
    ASSUME NEW f, NEW path \in Seq(ScriptTypes), Accepts(f, path, TRUE)
    PROVE  /\ Candidate(f, path).total \in Int
           /\ EveryConversionIsRated => Candidate(f, path).total \in Nat
           /\ f.params = path => Candidate(f, path).total = 0
           /\ Candidate(f, path).path = path
           /\ \A i \in DOMAIN path :
                 \/ Fits(f.params[i], path[i], Candidate(f, path).castings[i].cast)
                 \/ PassedAsElements(f.params[i], path[i])
  <1> DEFINE n == Len(path)
             match(i) == CHOOSE c \in FindMatching(f.params[i], path[i], TRUE) : TRUE
             castings == [i \in DOMAIN path |-> match(i)]
  <1>1. n \in Nat /\ DOMAIN path = 1 .. n /\ \A i \in 1 .. n : path[i] \in ScriptTypes
    OBVIOUS
  <1>2. \A i \in 1 .. n : castings[i] \in FindMatching(f.params[i], path[i], TRUE)
    <2> SUFFICES ASSUME NEW i \in 1 .. n
                 PROVE  castings[i] \in FindMatching(f.params[i], path[i], TRUE)
      OBVIOUS
    <2>1. FindMatching(f.params[i], path[i], TRUE) # {}
      BY <1>1 DEF Accepts
    <2>2. (CHOOSE c \in FindMatching(f.params[i], path[i], TRUE) : TRUE)
              \in FindMatching(f.params[i], path[i], TRUE)
      BY <2>1
    <2> QED
      BY <1>1, <2>2
  <1>3. Len(castings) = n
    <2> HIDE DEF match
    <2>1. castings = [i \in 1 .. n |-> match(i)]
      BY <1>1
    <2> HIDE DEF n
    <2> QED
      BY <1>1, <2>1
  <1>4. /\ Candidate(f, path).path = path
        /\ Candidate(f, path).castings = castings
        /\ Candidate(f, path).total = Total(castings)
    BY DEF Candidate
  <1> HIDE DEF castings
  <1>5. \A i \in 1 .. n : /\ castings[i].accuracy \in Int
                          /\ EveryConversionIsRated => castings[i].accuracy \in Nat
                          /\ \/ Fits(f.params[i], path[i], castings[i].cast)
                             \/ PassedAsElements(f.params[i], path[i])
    BY <1>1, <1>2, CastingFits
  <1>6. ASSUME f.params = path
        PROVE  \A i \in 1 .. n : castings[i].accuracy = 0
    <2> SUFFICES ASSUME NEW i \in 1 .. n PROVE castings[i].accuracy = 0
      OBVIOUS
    <2>1. FindMatching(f.params[i], path[i], TRUE) = {Casting(0, "none")}
      BY <1>6, SameTypeMatches
    <2>2. castings[i] = Casting(0, "none")
      BY <1>2, <2>1
    <2> QED
      BY <2>2 DEF Casting
  <1>7. /\ Total(castings) \in Int
        /\ EveryConversionIsRated => Total(castings) \in Nat
        /\ f.params = path => Total(castings) = 0
    BY <1>1, <1>3, <1>5, <1>6, Totals
  <1> QED
    BY <1>1, <1>4, <1>5, <1>7

(* A function accepts its own parameters.                                  *)
LEMMA ExactIsAccepted ==
    ASSUME NEW f, NEW path \in Seq(ScriptTypes), f.params = path, NEW level2
    PROVE  Accepts(f, path, level2)
  <1>1. \A i \in DOMAIN path : FindMatching(f.params[i], path[i], level2) = {Casting(0, "none")}
    BY SameTypeMatches
  <1> QED
    BY <1>1 DEF Accepts

-----------------------------------------------------------------------------
Outcomes == {"linking", "found", "refused", "linked", "notFound", "dynamic",
             "constructed"}
Typed ==
    /\ call \in CallTypes
    /\ paths \in Seq(Selections(call.args))
    /\ outcome.is \in Outcomes
    /\ outcome = [is |-> outcome.is, functions |-> outcome.functions]
    /\ outcome.is \in {"found", "linked"} => outcome.functions \in Seq(DOMAIN Library)

(* Every candidate found so far is a use that the function accepts.        *)
BestAreAccepted ==
    /\ DOMAIN best \subseteq DOMAIN Library
    /\ \A id \in DOMAIN best : \E p \in Selections(call.args) :
          Accepts(Library[id], p, TRUE) /\ best[id] = Candidate(Library[id], p)

(* No path that was considered is taken by a function at a lesser cost.    *)
NoneIsCheaper ==
    call.kind = "call" =>
        \A p \in Selections(call.args) :
            \/ p \in Range(paths)
            \/ \A id \in DOMAIN Library :
                  Accepts(Library[id], p, FALSE) =>
                      /\ id \in DOMAIN best
                      /\ best[id].total =< Candidate(Library[id], p).total

Decided ==
    /\ outcome.is \in {"found", "linked", "refused"} => paths = <<>>
    /\ outcome.is \in {"found", "linked"} =>
          outcome.functions \in Sorted /\ ~ Ambiguous

BestIsConstructed == EveryConversionIsRated => BestMatchIsChosen

IInv ==
    Typed /\ BestAreAccepted /\ NoneIsCheaper /\ Decided /\ BestIsConstructed

(* The totals of the candidates are numbers.                               *)
LEMMA BestTotals ==
    ASSUME Typed, BestAreAccepted, NEW id \in DOMAIN best
    PROVE  /\ best[id].total \in Int
           /\ EveryConversionIsRated => best[id].total \in Nat
  <1>1. PICK p \in Selections(call.args) :
            Accepts(Library[id], p, TRUE) /\ best[id] = Candidate(Library[id], p)
    BY DEF BestAreAccepted
  <1>2. p \in Seq(ScriptTypes)
    <2>1. call.args \in Seq(Seq(ScriptTypes))
      BY DEF Typed, CallTypes
    <2> QED
      BY <2>1, ChoiceTypes
  <1> QED
    BY <1>1, <1>2, CandidateFits

(* A call to link: no path is considered yet.                              *)
LEMMA InvInit == Init => IInv
  <1> SUFFICES ASSUME Init PROVE IInv
    OBVIOUS
  <1>1. /\ call \in CallTypes /\ paths = ListPaths(call.args) /\ best = <<>>
        /\ outcome = [is |-> "linking", functions |-> <<>>]
    BY CallsAssumption DEF Init
  <1>2. call.args \in Seq(Seq(ScriptTypes))
    BY <1>1 DEF CallTypes
  <1>3. Typed
    BY <1>1, <1>2, PathsAreChoices DEF Typed, Outcomes
  <1>4. BestAreAccepted
    BY <1>1 DEF BestAreAccepted
  <1>5. NoneIsCheaper
    BY <1>1, <1>2, ChoicesAreListed DEF NoneIsCheaper
  <1>6. Decided /\ BestIsConstructed
    BY <1>1 DEF Decided, BestIsConstructed, BestMatchIsChosen
  <1> QED
    BY <1>3, <1>4, <1>5, <1>6 DEF IInv

(* Who survives a path accepts it; and in a call, who accepts it without a  *)
(* conversion survives.                                                    *)
LEMMA SurvivorsAccept ==
    ASSUME NEW path
    PROVE  /\ Survivors(path) \subseteq DOMAIN Library
           /\ \A id \in Survivors(path) : Accepts(Library[id], path, TRUE)
           /\ call.kind = "call" =>
                 \A id \in DOMAIN Library :
                     Accepts(Library[id], path, FALSE) => id \in Survivors(path)
  <1> DEFINE first == Filter(path, OnlyOne(path))
  <1>1. Survivors(path) \in {{}, first, Filter(path, TRUE)}
    BY DEF Survivors
  <1>2. \A level2, id : id \in Filter(path, level2) =>
            id \in DOMAIN Library /\ Accepts(Library[id], path, TRUE)
    BY AcceptedWithConversions DEF Filter
  <1>3. ASSUME call.kind = "call", NEW id \in DOMAIN Library,
               Accepts(Library[id], path, FALSE)
        PROVE  id \in Survivors(path)
    <2>1. ~ MakesRef(path)
      BY <1>3 DEF MakesRef
    <2>2. id \in first
      <3>1. Accepts(Library[id], path, TRUE)
        BY <1>3, AcceptedWithConversions
      <3>2. OnlyOne(path) \in BOOLEAN
        BY DEF OnlyOne
      <3>3. Accepts(Library[id], path, OnlyOne(path))
        <4>1. CASE OnlyOne(path) = TRUE
          BY <3>1, <4>1
        <4>2. CASE OnlyOne(path) = FALSE
          BY <1>3, <4>2
        <4> QED
          BY <3>2, <4>1, <4>2
      <3> QED
        BY <3>3 DEF Filter
    <2>3. Survivors(path) = first
      <3>1. first # {}
        BY <2>2
      <3> HIDE DEF first
      <3> QED
        BY <2>1, <3>1 DEF Survivors, first
    <2> QED
      BY <2>2, <2>3
  <1> HIDE DEF first
  <1> QED
    BY <1>1, <1>2, <1>3 DEF first

(* One path more: a function found before keeps the better of its two.     *)
LEMMA ConsiderKeeps ==
    ASSUME IInv, ConsiderPath
    PROVE  IInv'
  <1> DEFINE path == Head(paths)
             new(id) == Candidate(Library[id], path)
             keeps(id) == /\ id \in DOMAIN best
                          /\ \/ id \notin Survivors(path)
                             \/ best[id].total =< new(id).total
  <1>1. /\ outcome.is = "linking" /\ paths # <<>> /\ paths' = Tail(paths)
        /\ call' = call /\ outcome' = outcome
        /\ best' = [id \in DOMAIN best \cup Survivors(path) |->
                       IF keeps(id) THEN best[id] ELSE new(id)]
    BY DEF ConsiderPath
  <1>2. call.args \in Seq(Seq(ScriptTypes)) /\ paths \in Seq(Selections(call.args))
    BY DEF IInv, Typed, CallTypes
  <1>3. /\ path \in Selections(call.args) /\ paths' \in Seq(Selections(call.args))
        /\ \A p \in Range(paths) : p = path \/ p \in Range(paths')
    <2>1. /\ Len(paths) \in Nat /\ DOMAIN paths = 1 .. Len(paths) /\ Len(paths) # 0
          /\ Len(Tail(paths)) = Len(paths) - 1
          /\ \A i \in 1 .. Len(paths) - 1 : Tail(paths)[i] = paths[i + 1]
          /\ path = paths[1] /\ paths[1] \in Selections(call.args)
          /\ Tail(paths) \in Seq(Selections(call.args))
      BY <1>1, <1>2
    <2>2. ASSUME NEW i \in 1 .. Len(paths), i # 1
          PROVE  paths[i] \in Range(paths')
      <3>1. i - 1 \in 1 .. Len(paths) - 1 /\ (i - 1) + 1 = i
        BY <2>1, <2>2
      <3>2. i - 1 \in DOMAIN paths' /\ paths'[i - 1] = paths[i]
        BY <1>1, <2>1, <3>1
      <3> QED
        BY <3>2 DEF Range
    <2> QED
      BY <1>1, <2>1, <2>2 DEF Range
  <1>4. /\ Survivors(path) \subseteq DOMAIN Library
        /\ \A id \in Survivors(path) : Accepts(Library[id], path, TRUE)
    BY SurvivorsAccept
  <1>5. path \in Seq(ScriptTypes)
    BY <1>2, <1>3, ChoiceTypes
  <1>6. \A id \in Survivors(path) : new(id).total \in Int
    BY <1>4, <1>5, CandidateFits
  <1>7. \A id \in DOMAIN best : best[id].total \in Int
    BY BestTotals DEF IInv
  <1> HIDE DEF path, new
  <1>8. DOMAIN best' = DOMAIN best \cup Survivors(path)
    BY <1>1
  <1>9. Typed'
    BY <1>1, <1>3 DEF IInv, Typed, Library
  <1>10. BestAreAccepted'
    <2>1. DOMAIN best' \subseteq DOMAIN Library
      BY <1>4, <1>8 DEF IInv, BestAreAccepted
    <2>2. ASSUME NEW id \in DOMAIN best'
          PROVE  \E p \in Selections(call.args) :
                     Accepts(Library[id], p, TRUE) /\ best'[id] = Candidate(Library[id], p)
      <3>1. CASE keeps(id)
        <4>1. best'[id] = best[id] /\ id \in DOMAIN best
          BY <1>1, <1>8, <3>1
        <4> QED
          BY <4>1 DEF IInv, BestAreAccepted
      <3>2. CASE ~ keeps(id)
        <4>1. best'[id] = Candidate(Library[id], path) /\ id \in Survivors(path)
          BY <1>1, <1>8, <3>2 DEF new
        <4> QED
          BY <1>3, <1>4, <4>1
      <3> QED
        BY <3>1, <3>2
    <2> QED
      BY <1>1, <2>1, <2>2 DEF BestAreAccepted, Library
  <1>11. NoneIsCheaper'
    <2> SUFFICES ASSUME call.kind = "call", NEW p \in Selections(call.args),
                        p \notin Range(paths'),
                        NEW id \in DOMAIN Library, Accepts(Library[id], p, FALSE)
                 PROVE  /\ id \in DOMAIN best'
                        /\ best'[id].total =< Candidate(Library[id], p).total
      BY <1>1 DEF NoneIsCheaper, Library
    <2>1. Candidate(Library[id], p).total \in Int
      <3>1. p \in Seq(ScriptTypes) /\ Accepts(Library[id], p, TRUE)
        BY <1>2, ChoiceTypes, AcceptedWithConversions
      <3> QED
        BY <3>1, CandidateFits
    <2>2. CASE p = path
      <3>1. id \in Survivors(path) /\ Candidate(Library[id], p) = new(id)
        BY <2>2, SurvivorsAccept DEF new
      <3>2. id \in DOMAIN best' /\ best'[id] = IF keeps(id) THEN best[id] ELSE new(id)
        BY <1>1, <1>8, <3>1
      <3>3. new(id).total \in Int
        BY <1>6, <3>1
      <3> QED
        BY <3>1, <3>2, <3>3
    <2>3. CASE p # path
      <3>1. p \notin Range(paths)
        BY <1>3, <2>3
      <3>2. id \in DOMAIN best /\ best[id].total =< Candidate(Library[id], p).total
        BY <3>1 DEF IInv, NoneIsCheaper
      <3>3. id \in DOMAIN best' /\ best'[id] = IF keeps(id) THEN best[id] ELSE new(id)
        BY <1>1, <1>8, <3>2
      <3>4. best'[id].total =< best[id].total
        <4>1. CASE keeps(id)
          BY <1>7, <3>2, <3>3, <4>1
        <4>2. CASE ~ keeps(id)
          BY <1>6, <1>7, <3>2, <3>3, <4>2
        <4> QED
          BY <4>1, <4>2
      <3>5. best'[id].total \in Int
        BY <1>6, <1>7, <3>2, <3>3
      <3> QED
        BY <1>7, <2>1, <3>2, <3>3, <3>4, <3>5
    <2> QED
      BY <2>2, <2>3
  <1>12. Decided' /\ BestIsConstructed'
    BY <1>1 DEF Decided, BestIsConstructed, BestMatchIsChosen
  <1> QED
    BY <1>9, <1>10, <1>11, <1>12 DEF IInv

(* The end of filterCandidate, and what becomes of a call that it refused. *)
LEMMA DecideKeeps ==
    ASSUME IInv, Decide \/ FallBack \/ LinkRoot
    PROVE  IInv'
  <1>1. /\ call' = call /\ paths' = paths /\ best' = best
        /\ outcome'.is \in Outcomes \ {"linking", "constructed"}
        /\ outcome' = [is |-> outcome'.is, functions |-> outcome'.functions]
        /\ outcome'.is \in {"found", "linked", "refused"} => paths = <<>>
        /\ \/ outcome'.functions = <<>> /\ outcome'.is \notin {"found", "linked"}
           \/ outcome'.functions \in Sorted /\ ~ Ambiguous
    <2>1. CASE Decide
      BY <2>1 DEF Decide, Outcomes
    <2>2. CASE FallBack
      BY <2>2 DEF FallBack, Outcomes
    <2>3. CASE LinkRoot
      <3>1. /\ outcome.is = "found" /\ UNCHANGED <<call, paths, best>>
            /\ outcome' = [outcome EXCEPT
                   !.is = IF Len(outcome.functions) = 1 THEN "linked" ELSE "notFound"]
        BY <2>3 DEF LinkRoot
      <3>2. outcome = [is |-> outcome.is, functions |-> outcome.functions]
        BY DEF IInv, Typed
      <3>3. /\ outcome'.functions = outcome.functions
            /\ outcome'.is \in {"linked", "notFound"}
            /\ outcome' = [is |-> outcome'.is, functions |-> outcome'.functions]
        BY <3>1, <3>2
      <3> QED
        BY <3>1, <3>3 DEF IInv, Decided, Outcomes
    <2> QED
      BY <2>1, <2>2, <2>3
  <1>2. outcome'.functions \in Seq(DOMAIN Library)
    <2>1. DOMAIN best \subseteq DOMAIN Library
      BY DEF IInv, BestAreAccepted
    <2>2. IsFiniteSet(DOMAIN best)
      <3>1. Library \in Seq([params : Seq(ScriptTypes), result : ScriptTypes])
        BY DEF IInv, Typed, CallTypes, Library
      <3>2. DOMAIN Library = 1 .. Len(Library) /\ Len(Library) \in Nat
        BY <3>1
      <3>3. IsFiniteSet(1 .. Len(Library))
        BY <3>2, FS_Interval
      <3> QED
        BY <2>1, <3>2, <3>3, FS_Subset
    <2>3. Cardinality(DOMAIN best) \in Nat
      BY <2>2, FS_CardinalityType
    <2>4. CASE outcome'.functions \in Sorted
      <3>1. outcome'.functions \in [1 .. Cardinality(DOMAIN best) -> DOMAIN best]
        BY <2>4 DEF Sorted, SetToSeqs
      <3>2. outcome'.functions \in Seq(DOMAIN best)
        BY <2>3, <3>1
      <3> QED
        BY <2>1, <3>2
    <2>5. CASE outcome'.functions = <<>>
      BY <2>5
    <2> QED
      BY <1>1, <2>4, <2>5
  <1>3. Typed'
    BY <1>1, <1>2 DEF IInv, Typed, Library
  <1>4. BestAreAccepted' /\ NoneIsCheaper'
    BY <1>1 DEF IInv, BestAreAccepted, NoneIsCheaper, Library
  <1>5. Decided'
    <2>1. Sorted' = Sorted /\ (Ambiguous <=> Ambiguous')
      BY <1>1 DEF Sorted, Ambiguous, Library
    <2> QED
      BY <1>1, <2>1 DEF Decided
  <1>6. BestIsConstructed'
    BY <1>1 DEF BestIsConstructed, BestMatchIsChosen
  <1> QED
    BY <1>3, <1>4, <1>5, <1>6 DEF IInv

LEMMA EntryOf ==
    ASSUME NEW R, NEW s \in Seq(R), NEW i \in DOMAIN s
    PROVE  s[i] \in R
  OBVIOUS

(* The call around a call begins with the types of its candidates.         *)
LEMMA OuterKeeps ==
    ASSUME IInv, LinkOuter
    PROVE  IInv'
  <1> DEFINE types == [i \in DOMAIN outcome.functions |->
                          Library[outcome.functions[i]].result]
             outer == call.outer[1]
             args == <<types>> \o outer.args
  <1>1. /\ call.outer # <<>> /\ call' = [outer EXCEPT !.args = args]
        /\ paths' = ListPaths(args) /\ best' = <<>>
        /\ outcome' = [is |-> "linking", functions |-> <<>>]
    BY DEF LinkOuter
  <1>2. outer \in CallTypes
    <2>1. call.outer \in {<<>>} \cup {<<c>> : c \in OuterCalls}
      BY DEF IInv, Typed, CallTypes
    <2>2. PICK c \in OuterCalls : call.outer = <<c>>
      BY <1>1, <2>1
    <2> QED
      BY <2>2, CallsAssumption
  <1>3. types \in Seq(ScriptTypes)
    <2>1. /\ Library \in Seq([params : Seq(ScriptTypes), result : ScriptTypes])
          /\ outcome.functions \in Seq(DOMAIN Library)
      BY DEF IInv, Typed, CallTypes, Library, LinkOuter
    <2>2. \A i \in DOMAIN outcome.functions :
              Library[outcome.functions[i]].result \in ScriptTypes
      <3> SUFFICES ASSUME NEW i \in DOMAIN outcome.functions
                   PROVE  Library[outcome.functions[i]].result \in ScriptTypes
        OBVIOUS
      <3> DEFINE id == outcome.functions[i]
      <3>1. id \in DOMAIN Library
        BY <2>1
      <3> HIDE DEF id
      <3>2. Library[id] \in [params : Seq(ScriptTypes), result : ScriptTypes]
        BY <2>1, <3>1, EntryOf
      <3>3. Library[id].result \in ScriptTypes
        BY <3>2
      <3> QED
        BY <3>3 DEF id
    <2>3. /\ DOMAIN outcome.functions = 1 .. Len(outcome.functions)
          /\ Len(outcome.functions) \in Nat
      BY <2>1
    <2> QED
      BY <2>2, <2>3
  <1> HIDE DEF types, outer
  <1>4. args \in Seq(Seq(ScriptTypes))
    <2>1. <<types>> \in Seq(Seq(ScriptTypes)) /\ outer.args \in Seq(Seq(ScriptTypes))
      BY <1>2, <1>3 DEF CallTypes
    <2> QED
      BY <2>1
  <1> HIDE DEF args
  <1>5. call' \in CallTypes /\ call'.args = args
    BY <1>1, <1>2, <1>4 DEF CallTypes
  <1>6. Typed'
    BY <1>1, <1>4, <1>5, PathsAreChoices DEF Typed, Outcomes
  <1>7. BestAreAccepted'
    BY <1>1 DEF BestAreAccepted
  <1>8. NoneIsCheaper'
    BY <1>1, <1>4, <1>5, ChoicesAreListed DEF NoneIsCheaper
  <1>9. Decided' /\ BestIsConstructed'
    BY <1>1 DEF Decided, BestIsConstructed, BestMatchIsChosen
  <1> QED
    BY <1>6, <1>7, <1>8, <1>9 DEF IInv

(* The least total of some functions that accept a path, the first among    *)
(* equals, is there.                                                       *)
LEMMA SingleIsLeast ==
    ASSUME EveryConversionIsRated, Typed, NEW path \in Seq(ScriptTypes),
           NEW ids \in SUBSET DOMAIN Library, ids # {},
           \A id \in ids : Accepts(Library[id], path, TRUE)
    PROVE  /\ SelectSingle(ids, path) \in ids
           /\ \A id \in ids : Candidate(Library[SelectSingle(ids, path)], path).total
                                =< Candidate(Library[id], path).total
  <1> DEFINE total(id) == Candidate(Library[id], path).total
             totals == {total(id) : id \in ids}
             Best(id) == \A other \in ids :
                 total(id) < total(other) \/ (total(id) = total(other) /\ id =< other)
  <1>1. \A id \in ids : total(id) \in Nat
    BY CandidateFits
  <1>2. ids \subseteq Nat
    <2>1. Library \in Seq([params : Seq(ScriptTypes), result : ScriptTypes])
      BY DEF Typed, CallTypes, Library
    <2>2. DOMAIN Library = 1 .. Len(Library) /\ Len(Library) \in Nat
      BY <2>1
    <2> QED
      BY <2>2
  <1> HIDE DEF total
  <1>3. PICK m \in totals : \A t \in totals : m =< t
    <2>1. totals \in SUBSET Nat /\ totals # {}
      BY <1>1
    <2> HIDE DEF totals
    <2> QED
      BY <2>1, Least
  <1> DEFINE least == {id \in ids : total(id) = m}
  <1>4. PICK k \in least : \A id \in least : k =< id
    <2>1. least \in SUBSET Nat /\ least # {}
      BY <1>2, <1>3
    <2> HIDE DEF least
    <2> QED
      BY <2>1, Least
  <1>5. k \in ids /\ Best(k)
    <2>1. \A other \in ids : total(k) =< total(other)
      BY <1>3, <1>4
    <2>2. \A other \in ids : total(k) = total(other) => k =< other
      BY <1>4
    <2> QED
      BY <1>1, <1>4, <2>1, <2>2
  <1>6. SelectSingle(ids, path) = CHOOSE id \in ids : Best(id)
    BY DEF SelectSingle, total
  <1>7. SelectSingle(ids, path) \in ids /\ Best(SelectSingle(ids, path))
    <2> HIDE DEF Best
    <2> QED
      BY <1>5, <1>6
  <1>8. \A id \in ids : total(SelectSingle(ids, path)) =< total(id)
    BY <1>1, <1>7
  <1> QED
    BY <1>7, <1>8 DEF total

(* The constructor that is chosen takes the values at the least cost.      *)
LEMMA SelectKeeps ==
    ASSUME IInv, SelectConstructor \/ SelectBinaryConstructor
    PROVE  IInv'
  <1> DEFINE path == paths[1]
             exact == {id \in DOMAIN Library : Library[id].params = path}
  <1>1. PICK ids : /\ Select(ids)
                   /\ \/ ids = Filter(path, TRUE)
                      \/ ids = exact /\ exact # {}
    BY DEF SelectConstructor, SelectBinaryConstructor
  <1>2. ids \subseteq DOMAIN Library
    BY <1>1 DEF Filter
  <1>3. /\ call' = call /\ paths' = paths /\ best' = best
        /\ outcome' = IF ids = {} THEN [is |-> "notFound", functions |-> <<>>]
                      ELSE [is |-> "constructed",
                            functions |-> <<SelectSingle(ids, path)>>]
    BY <1>1 DEF Select
  <1>4. Typed'
    BY <1>3 DEF IInv, Typed, Library, Outcomes
  <1>5. BestAreAccepted' /\ NoneIsCheaper' /\ Decided'
    BY <1>3 DEF IInv, BestAreAccepted, NoneIsCheaper, Decided, Library
  <1>6. BestIsConstructed'
    <2> SUFFICES ASSUME EveryConversionIsRated, ids # {},
                        NEW id \in DOMAIN Library, Library[id].params = path
                 PROVE  Candidate(Library[SelectSingle(ids, path)], path).total = 0
      <3>1. outcome'.is = "constructed" =>
                ids # {} /\ outcome'.functions[1] = SelectSingle(ids, path)
        BY <1>3
      <3>2. Library' = Library /\ paths'[1] = path
        BY <1>3 DEF Library
      <3> QED
        BY <3>1, <3>2 DEF BestIsConstructed, BestMatchIsChosen
    <2>1. path \in Seq(ScriptTypes)
      <3>1. Library \in Seq([params : Seq(ScriptTypes), result : ScriptTypes])
        BY DEF IInv, Typed, CallTypes, Library
      <3>2. Library[id] \in [params : Seq(ScriptTypes), result : ScriptTypes]
        BY <3>1, EntryOf
      <3>3. Library[id].params \in Seq(ScriptTypes)
        BY <3>2
      <3> QED
        BY <3>3
    <2> HIDE DEF path
    <2>2. \A k \in DOMAIN Library : Library[k].params = path => Accepts(Library[k], path, TRUE)
      BY <2>1, ExactIsAccepted
    <2>3. (\A k \in ids : Accepts(Library[k], path, TRUE)) /\ id \in ids
      BY <1>1, <2>2 DEF Filter
    <2> DEFINE chosen == SelectSingle(ids, path)
    <2>4. /\ chosen \in ids
          /\ Candidate(Library[chosen], path).total =< Candidate(Library[id], path).total
      BY <1>2, <2>1, <2>3, SingleIsLeast DEF IInv
    <2>5. Candidate(Library[id], path).total = 0
      BY <2>1, <2>3, CandidateFits
    <2>6. Candidate(Library[chosen], path).total \in Nat
      BY <2>1, <2>3, <2>4, CandidateFits
    <2> QED
      BY <2>4, <2>5, <2>6
  <1> QED
    BY <1>4, <1>5, <1>6 DEF IInv

(* Every step keeps what was said of the candidates.                       *)
LEMMA InvNext == IInv /\ [Next]_vars => IInv'
  <1> SUFFICES ASSUME IInv, [Next]_vars PROVE IInv'
    OBVIOUS
  <1>1. CASE ConsiderPath
    BY <1>1, ConsiderKeeps
  <1>2. CASE Decide \/ FallBack \/ LinkRoot
    BY <1>2, DecideKeeps
  <1>3. CASE LinkOuter
    BY <1>3, OuterKeeps
  <1>4. CASE SelectConstructor \/ SelectBinaryConstructor
    BY <1>4, SelectKeeps
  <1>5. CASE UNCHANGED vars
    <2>1. /\ call' = call /\ paths' = paths /\ best' = best /\ outcome' = outcome
          /\ Library' = Library
      BY <1>5 DEF vars, Library
    <2>2. Sorted' = Sorted /\ (Ambiguous <=> Ambiguous')
      BY <2>1 DEF Sorted, Ambiguous
    <2> QED
      BY <2>1, <2>2 DEF IInv, Typed, BestAreAccepted, NoneIsCheaper, Decided,
                        BestIsConstructed, BestMatchIsChosen
  <1> QED
    BY <1>1, <1>2, <1>3, <1>4, <1>5 DEF Next

LEMMA InvHolds == Spec => []IInv
  <1> QED
    BY InvInit, InvNext, PTL DEF Spec

-----------------------------------------------------------------------------
(* Linking a call leaves every function the cheapest way to use it, over    *)
(* all combinations of the candidates of its parameters, and leaves no     *)
(* function out that can be used without a conversion: the turns of        *)
(* filterCandidate look at every path that listPaths makes, and an overload *)
(* found before gives way only to a cheaper use of itself.                 *)
THEOREM CheapestUse == Spec => []CandidatesAreTheCheapest
  <1>1. IInv => CandidatesAreTheCheapest
    <2> SUFFICES ASSUME IInv, call.kind = "call",
                        outcome.is \in {"found", "linked", "refused"},
                        NEW id \in DOMAIN Library
                 PROVE  LET all == {p \in AllPaths : Accepts(Library[id], p, FALSE)} IN
                        /\ all # {} => id \in DOMAIN best
                        /\ id \in DOMAIN best => best[id].path \in AllPaths
                        /\ id \in DOMAIN best => \A p \in all :
                               best[id].total =< Candidate(Library[id], p).total
      BY DEF CandidatesAreTheCheapest
    <2>1. AllPaths = Selections(call.args)
      <3>1. call.args \in Seq(Seq(ScriptTypes))
        BY DEF IInv, Typed, CallTypes
      <3> QED
        BY <3>1 DEF AllPaths, Selections
    <2>2. Range(paths) = {}
      BY DEF IInv, Decided, Range
    <2>3. \A p \in AllPaths : Accepts(Library[id], p, FALSE) =>
              id \in DOMAIN best /\ best[id].total =< Candidate(Library[id], p).total
      BY <2>1, <2>2 DEF IInv, NoneIsCheaper
    <2>4. ASSUME id \in DOMAIN best PROVE best[id].path \in AllPaths
      <3>1. PICK p \in Selections(call.args) : best[id] = Candidate(Library[id], p)
        BY <2>4 DEF IInv, BestAreAccepted
      <3>2. best[id].path = p
        BY <3>1 DEF Candidate
      <3> QED
        BY <2>1, <3>1, <3>2
    <2> QED
      BY <2>3, <2>4
  <1> QED
    BY <1>1, InvHolds, PTL

(* An outcome orders the candidates, each of which is there once.          *)
LEMMA Order ==
    ASSUME IInv, outcome.is \in {"found", "linked"}
    PROVE  LET n == Cardinality(DOMAIN best) s == outcome.functions IN
           /\ n \in Nat /\ DOMAIN s = 1 .. n /\ Range(s) = DOMAIN best
           /\ \A i \in 1 .. n : s[i] \in DOMAIN best
           /\ \A i \in 1 .. n : i + 1 \in 1 .. n =>
                 best[s[i]].total =< best[s[i + 1]].total
  <1> DEFINE n == Cardinality(DOMAIN best)
             s == outcome.functions
  <1>1. IsFiniteSet(DOMAIN best)
    <2>1. DOMAIN best \subseteq DOMAIN Library
      BY DEF IInv, BestAreAccepted
    <2>2. Library \in Seq([params : Seq(ScriptTypes), result : ScriptTypes])
      BY DEF IInv, Typed, CallTypes, Library
    <2>3. DOMAIN Library = 1 .. Len(Library) /\ Len(Library) \in Nat
      BY <2>2
    <2>4. IsFiniteSet(DOMAIN Library)
      BY <2>3, FS_Interval
    <2> QED
      BY <2>1, <2>4, FS_Subset
  <1>2. n \in Nat
    BY <1>1, FS_CardinalityType
  <1>3. /\ s \in [1 .. n -> DOMAIN best]
        /\ \A i, j \in 1 .. n : i # j => s[i] # s[j]
        /\ \A i \in 1 .. Len(s) - 1 : best[s[i]].total =< best[s[i + 1]].total
    BY DEF IInv, Decided, Sorted, SetToSeqs
  <1>4. Len(s) = n
    BY <1>2, <1>3
  <1>5. Range(s) = DOMAIN best
    <2>1. s \in Injection(1 .. n, DOMAIN best)
      BY <1>3 DEF Injection, IsInjective
    <2>2. Cardinality(1 .. n) = n
      BY <1>2, FS_Interval
    <2>3. s \in Surjection(1 .. n, DOMAIN best)
      BY <1>1, <2>1, <2>2, FS_Injection
    <2>4. \A t \in DOMAIN best : \E k \in 1 .. n : s[k] = t
      BY <2>3 DEF Surjection
    <2>5. DOMAIN s = 1 .. n /\ \A k \in 1 .. n : s[k] \in DOMAIN best
      BY <1>3
    <2> HIDE DEF s, n
    <2> QED
      BY <2>4, <2>5 DEF Range
  <1>6. \A i \in 1 .. n : i + 1 \in 1 .. n => best[s[i]].total =< best[s[i + 1]].total
    BY <1>2, <1>3, <1>4
  <1> QED
    BY <1>2, <1>3, <1>5, <1>6

(* What a call passes is what the function takes: a candidate is kept only  *)
(* with a path that it accepts, and every casting by which findMatchingLevel1 *)
(* or findMatchingLevel2 accepts an argument makes the parameter's type of  *)
(* it.  The ones that do not are the arrays that PassedAsElements names.   *)
THEOREM ArgumentsAreTaken == Spec => []ArgumentsFit
  <1>1. IInv => ArgumentsFit
    <2> SUFFICES ASSUME IInv, outcome.is \in {"found", "linked"},
                        NEW id \in Range(outcome.functions),
                        NEW i \in DOMAIN best[id].path
                 PROVE  \/ Fits(Library[id].params[i], best[id].path[i],
                                best[id].castings[i].cast)
                        \/ PassedAsElements(Library[id].params[i], best[id].path[i])
      BY DEF ArgumentsFit
    <2>1. id \in DOMAIN best
      BY Order
    <2>2. PICK p \in Selections(call.args) :
              Accepts(Library[id], p, TRUE) /\ best[id] = Candidate(Library[id], p)
      BY <2>1 DEF IInv, BestAreAccepted
    <2>3. p \in Seq(ScriptTypes)
      BY ChoiceTypes DEF IInv, Typed, CallTypes
    <2>4. best[id].path = p
      BY <2>2, <2>3, CandidateFits
    <2> QED
      BY <2>2, <2>3, <2>4, CandidateFits
  <1> QED
    BY <1>1, InvHolds, PTL

(* The candidates of a call return different types and are in the order of  *)
(* their cost; and, where every conversion has an accuracy, a function that *)
(* takes the types of some path as they are leaves the first place to none  *)
(* that costs anything.  Without an accuracy a conversion costs -1, less   *)
(* than no conversion at all.                                              *)
THEOREM CandidatesAreOrdered ==
    ASSUME EveryConversionIsRated
    PROVE  Spec => []CandidatesAreInOrder
  <1>1. IInv => CandidatesAreInOrder
    <2> SUFFICES ASSUME IInv,
                        outcome.is \in {"found", "linked"}
                 PROVE  /\ CandidatesAreDistinct /\ CheapestComesFirst
                        /\ call.kind = "call" => ExactComesFirst
      BY DEF CandidatesAreInOrder
    <2> DEFINE n == Cardinality(DOMAIN best)
               s == outcome.functions
               cost == [i \in 1 .. n |-> best[s[i]].total]
    <2>1. /\ n \in Nat /\ DOMAIN s = 1 .. n /\ Range(s) = DOMAIN best
          /\ \A i \in 1 .. n : s[i] \in DOMAIN best
          /\ \A i \in 1 .. n : i + 1 \in 1 .. n =>
                best[s[i]].total =< best[s[i + 1]].total
      BY Order
    <2>2. CandidatesAreDistinct
      BY <2>1 DEF IInv, Decided, Ambiguous, CandidatesAreDistinct
    <2>3. \A i \in 1 .. n : cost[i] \in Int /\ cost[i] \in Nat
      BY <2>1, BestTotals DEF IInv
    <2>4. \A i, j \in 1 .. n : i =< j => cost[i] =< cost[j]
      <3>1. \A i \in 1 .. n : i + 1 \in 1 .. n => cost[i] =< cost[i + 1]
        BY <2>1
      <3> HIDE DEF cost, n
      <3> QED
        BY <2>1, <2>3, <3>1, Grows
    <2>5. CheapestComesFirst
      <3>1. \A i, j \in 1 .. n : i < j => i =< j
        BY <2>1
      <3> QED
        BY <2>1, <2>4, <3>1 DEF CheapestComesFirst
    <2>6. ASSUME call.kind = "call", NEW id \in DOMAIN Library,
                 Library[id].params \in AllPaths
          PROVE  best[s[1]].total = 0
      <3> DEFINE p == Library[id].params
      <3>1. call.args \in Seq(Seq(ScriptTypes))
        BY DEF IInv, Typed, CallTypes
      <3>2. p \in Selections(call.args)
        BY <2>6, <3>1 DEF AllPaths, Selections
      <3>3. p \in Seq(ScriptTypes)
        BY <3>1, <3>2, ChoiceTypes
      <3>4. Accepts(Library[id], p, FALSE) /\ Accepts(Library[id], p, TRUE)
        BY <3>3, ExactIsAccepted
      <3>5. Candidate(Library[id], p).total = 0
        BY <3>3, <3>4, CandidateFits
      <3>6. Range(paths) = {}
        BY DEF IInv, Decided, Range
      <3>7. id \in DOMAIN best /\ best[id].total =< 0
        BY <2>6, <3>2, <3>4, <3>5, <3>6 DEF IInv, NoneIsCheaper
      <3>8. PICK j \in 1 .. n : s[j] = id
        BY <2>1, <3>7 DEF Range
      <3>9. 1 \in 1 .. n /\ 1 =< j
        BY <2>1
      <3>10. cost[1] =< cost[j] /\ cost[j] =< 0 /\ cost[1] \in Nat /\ cost[j] \in Nat
        BY <2>3, <2>4, <3>7, <3>8, <3>9
      <3>11. cost[1] = best[s[1]].total
        BY <3>9
      <3> HIDE DEF cost
      <3> QED
        BY <3>10, <3>11
    <2>7. call.kind = "call" => ExactComesFirst
      BY <2>6 DEF ExactComesFirst
    <2> QED
      BY <2>2, <2>5, <2>7
  <1> QED
    BY <1>1, InvHolds, PTL

(* An object is initialised by a constructor that takes every value as it   *)
(* is, where there is one and every conversion has an accuracy: neither one *)
(* that converts, nor the order of the overloads, gets in between.         *)
THEOREM BestConstructorIsChosen ==
    ASSUME EveryConversionIsRated
    PROVE  Spec => []BestMatchIsChosen
  <1>1. IInv => BestMatchIsChosen
    BY DEF IInv, BestIsConstructed
  <1> QED
    BY <1>1, InvHolds, PTL
=============================================================================
