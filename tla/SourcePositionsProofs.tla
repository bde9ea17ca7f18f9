----------------------- MODULE SourcePositionsProofs -----------------------
(***************************************************************************)
(* For every script, wherever its text lies in memory and however often    *)
(* the suite compiles: the text is the script without its comments, and    *)
(* the furthest error is shown at its line and column.                     *)
(***************************************************************************)
EXTENDS SourcePositions, FiniteSetTheorems, WellFoundedInduction, TLAPS
-----------------------------------------------------------------------------
(* A set of natural numbers that is not empty has a least element: strict  *)
(* inclusion of the intervals 1..n is well-founded.                        *)
LEMMA Least ==
    ASSUME NEW T \in SUBSET Nat, T # {}
    PROVE  \E m \in T : \A k \in T : m <= k
  <1> DEFINE I == {1..n : n \in T}
  <1>1. IsWellFoundedOn(StrictSubsetOrdering(Nat), FiniteSubsetsOf(Nat))
    BY FS_StrictSubsetOrderingWellFounded
  <1>2. I \subseteq FiniteSubsetsOf(Nat)
    <2>1. \A n \in T : IsFiniteSet(1..n)
      BY FS_Interval
    <2> QED
      BY <2>1 DEF FiniteSubsetsOf
  <1>3. I # {}
    OBVIOUS
  <1>4. PICK x \in I : \A y \in I : ~(<<y, x>> \in StrictSubsetOrdering(Nat))
    <2> HIDE DEF I
    <2> QED
      BY <1>1, <1>2, <1>3, WFMin
  <1>5. PICK m \in T : x = 1..m
    OBVIOUS
  <1>6. ASSUME NEW k \in T, k < m
        PROVE  FALSE
    <2>1. 1..k \in I /\ x \in SUBSET Nat /\ 1..k \in SUBSET Nat
      BY <1>5
    <2>2. 1..k \subseteq 1..m /\ m \notin 1..k /\ m \in 1..m
      BY <1>6
    <2>3. <<1..k, x>> \in StrictSubsetOrdering(Nat)
      BY <2>1, <2>2, <1>5 DEF StrictSubsetOrdering
    <2> QED
      BY <2>3, <2>1, <1>4
  <1> QED
    BY <1>6
-----------------------------------------------------------------------------
(* How many of a set of offsets lie below one.                              *)
Below(P, i) == {j \in 0 .. i - 1 : j \in P}
Count(P, i) == Cardinality(Below(P, i))

LEMMA CountType ==
    ASSUME NEW P, NEW i \in Nat
    PROVE  IsFiniteSet(Below(P, i)) /\ Count(P, i) \in Nat
  <1>1. IsFiniteSet(0 .. i - 1)
    BY FS_Interval
  <1>2. Below(P, i) \in SUBSET (0 .. i - 1)
    BY DEF Below
  <1>3. IsFiniteSet(Below(P, i))
    BY <1>1, <1>2, FS_Subset
  <1> QED
    BY <1>3, FS_CardinalityType DEF Count

LEMMA CountNext ==
    ASSUME NEW P
    PROVE  /\ Count(P, 0) = 0
           /\ \A i \in Nat :
                 Count(P, i + 1) = IF i \in P THEN Count(P, i) + 1 ELSE Count(P, i)
  <1>1. Count(P, 0) = 0
    <2>1. Below(P, 0) = {}
      BY DEF Below
    <2> QED
      BY <2>1, FS_EmptySet DEF Count
  <1>2. ASSUME NEW i \in Nat
        PROVE  Count(P, i + 1) = IF i \in P THEN Count(P, i) + 1 ELSE Count(P, i)
    <2>1. IsFiniteSet(Below(P, i)) /\ i \notin Below(P, i)
      <3>1. i \notin Below(P, i)
        BY DEF Below
      <3> QED
        BY <3>1, CountType
    <2>2. CASE i \in P
      <3>1. Below(P, i + 1) = Below(P, i) \cup {i}
        BY <2>2 DEF Below
      <3>2. Cardinality(Below(P, i) \cup {i}) = Cardinality(Below(P, i)) + 1
        BY <2>1, FS_AddElement
      <3> QED
        BY <2>2, <3>1, <3>2 DEF Count
    <2>3. CASE i \notin P
      <3>1. Below(P, i + 1) = Below(P, i)
        BY <2>3 DEF Below
      <3> QED
        BY <2>3, <3>1 DEF Count
    <2> QED
      BY <2>2, <2>3
  <1> QED
    BY <1>1, <1>2

LEMMA CountBetween ==
    ASSUME NEW P, NEW a \in Nat, NEW b \in Nat, a <= b
    PROVE  /\ IsFiniteSet({j \in a .. b - 1 : j \in P})
           /\ Cardinality({j \in a .. b - 1 : j \in P}) = Count(P, b) - Count(P, a)
  <1> DEFINE Slice == {j \in a .. b - 1 : j \in P}
  <1>1. IsFiniteSet(Below(P, a)) /\ IsFiniteSet(Below(P, b))
    BY CountType
  <1>2. Slice \in SUBSET Below(P, b)
    BY DEF Below
  <1>3. IsFiniteSet(Slice)
    BY <1>1, <1>2, FS_Subset
  <1>4. Below(P, b) = Below(P, a) \cup Slice /\ Below(P, a) \cap Slice = {}
    BY DEF Below
  <1>5. Cardinality(Below(P, a) \cup Slice) =
            Cardinality(Below(P, a)) + Cardinality(Slice)
                - Cardinality(Below(P, a) \cap Slice)
    <2> HIDE DEF Slice
    <2> QED
      BY <1>1, <1>3, FS_Union
  <1>6. Cardinality(Slice) \in Nat /\ Count(P, a) \in Nat
    <2> HIDE DEF Slice
    <2> QED
      BY <1>3, FS_CardinalityType, CountType
  <1>7. Count(P, b) = Count(P, a) + Cardinality(Slice)
    <2> HIDE DEF Slice
    <2> QED
      BY <1>4, <1>5, <1>6, FS_EmptySet DEF Count
  <1> HIDE DEF Slice
  <1>8. Cardinality(Slice) = Count(P, b) - Count(P, a)
    BY <1>6, <1>7
  <1> USE DEF Slice
  <1> QED
    BY <1>3, <1>8

LEMMA CountGrows ==
    ASSUME NEW P, NEW a \in Nat, NEW b \in Nat, a <= b
    PROVE  /\ Count(P, a) <= Count(P, b)
           /\ a < b /\ a \in P => Count(P, a) < Count(P, b)
           /\ (\A j \in a .. b - 1 : j \in P) => Count(P, b) = Count(P, a) + (b - a)
           /\ (\A j \in a .. b - 1 : j \notin P) => Count(P, b) = Count(P, a)
  <1> DEFINE Slice == {j \in a .. b - 1 : j \in P}
  <1>1. IsFiniteSet(Slice) /\ Cardinality(Slice) = Count(P, b) - Count(P, a)
    BY CountBetween
  <1>2. Count(P, a) \in Nat /\ Count(P, b) \in Nat
    BY CountType
  <1>3. Cardinality(Slice) \in Nat /\ (Cardinality(Slice) = 0 <=> Slice = {})
    <2> HIDE DEF Slice
    <2> QED
      BY <1>1, FS_CardinalityType, FS_EmptySet
  <1>4. a < b /\ a \in P => Slice # {}
    <2>1. a < b => a \in a .. b - 1
      OBVIOUS
    <2> QED
      BY <2>1
  <1>5. (\A j \in a .. b - 1 : j \notin P) => Slice = {}
    OBVIOUS
  <1>6. (\A j \in a .. b - 1 : j \in P) => Slice = a .. b - 1
    OBVIOUS
  <1>7. Cardinality(a .. b - 1) = b - a
    <2>1. Cardinality(a .. b - 1) = IF a > b - 1 THEN 0 ELSE (b - 1) - a + 1
      BY FS_Interval
    <2> QED
      BY <2>1
  <1> HIDE DEF Slice
  <1> QED
    BY <1>1, <1>2, <1>3, <1>4, <1>5, <1>6, <1>7

-----------------------------------------------------------------------------
(* A sequence of the offsets below m that are in P, in their order.         *)
Enumerates(t, P, m) ==
    /\ t \in Seq(Nat)
    /\ Len(t) = Count(P, m)
    /\ \A k \in 1 .. Len(t) : t[k] \in P /\ t[k] < m /\ Count(P, t[k]) = k - 1

(* Two elements that as many precede are one.                               *)
LEMMA CountTells ==
    ASSUME NEW P, NEW i \in Nat, NEW j \in Nat, i \in P, j \in P,
           Count(P, i) = Count(P, j)
    PROVE  i = j
  <1>1. Count(P, i) \in Nat
    BY CountType
  <1>2. ~(i < j)
    BY <1>1, CountGrows
  <1>3. ~(j < i)
    BY <1>1, CountGrows
  <1> QED
    BY <1>2, <1>3

LEMMA EnumeratesEach ==
    ASSUME NEW t, NEW P, NEW m \in Nat, Enumerates(t, P, m),
           NEW i \in Nat, i \in P, i < m
    PROVE  Count(P, i) + 1 \in 1 .. Len(t) /\ t[Count(P, i) + 1] = i
  <1> DEFINE k == Count(P, i) + 1
  <1>1. Count(P, i) \in Nat /\ Count(P, i) < Count(P, m) /\ Count(P, m) \in Nat
    BY CountType, CountGrows
  <1>2. k \in 1 .. Len(t)
    BY <1>1 DEF Enumerates
  <1>3. t[k] \in Nat /\ t[k] \in P /\ Count(P, t[k]) = k - 1
    BY <1>2 DEF Enumerates
  <1>4. t[k] = i
    <2>1. Count(P, t[k]) = Count(P, i)
      BY <1>1, <1>3
    <2> HIDE DEF k
    <2> QED
      BY <1>3, <2>1, CountTells
  <1> QED
    BY <1>2, <1>4

LEMMA EnumeratesInOrder ==
    ASSUME NEW t, NEW P, NEW m \in Nat, Enumerates(t, P, m)
    PROVE  /\ {t[k] : k \in DOMAIN t} = {i \in 0 .. m - 1 : i \in P}
           /\ \A k, l \in DOMAIN t : k < l => t[k] < t[l]
  <1>1. DOMAIN t = 1 .. Len(t) /\ t \in Seq(Nat)
    BY DEF Enumerates
  <1>2. ASSUME NEW k \in 1 .. Len(t)
        PROVE  t[k] \in 0 .. m - 1 /\ t[k] \in P
    BY <1>1, <1>2 DEF Enumerates
  <1>3. ASSUME NEW i \in 0 .. m - 1, i \in P
        PROVE  \E k \in 1 .. Len(t) : t[k] = i
    <2>1. i \in Nat /\ i < m
      OBVIOUS
    <2> QED
      BY <2>1, <1>3, EnumeratesEach
  <1>4. ASSUME NEW k \in 1 .. Len(t), NEW l \in 1 .. Len(t), k < l
        PROVE  t[k] < t[l]
    <2>1. t[k] \in Nat /\ t[l] \in Nat /\ Count(P, t[k]) = k - 1 /\ Count(P, t[l]) = l - 1
      BY <1>1 DEF Enumerates
    <2>2. t[l] <= t[k] => Count(P, t[l]) <= Count(P, t[k])
      BY <2>1, CountGrows
    <2> QED
      BY <2>1, <2>2, <1>4
  <1> QED
    BY <1>1, <1>2, <1>3, <1>4

LEMMA EnumeratesGap ==
    ASSUME NEW t, NEW P, NEW a \in Nat, NEW b \in Nat, a <= b, Enumerates(t, P, a),
           \A j \in a .. b - 1 : j \notin P
    PROVE  Enumerates(t, P, b)
  <1>1. Count(P, b) = Count(P, a)
    BY CountGrows
  <1>2. \A k \in 1 .. Len(t) : t[k] \in Nat
    BY DEF Enumerates
  <1> QED
    BY <1>1, <1>2 DEF Enumerates

LEMMA EnumeratesMore ==
    ASSUME NEW t, NEW P, NEW a \in Nat, NEW b \in Nat, a <= b, Enumerates(t, P, a),
           \A j \in a .. b - 1 : j \in P
    PROVE  Enumerates(t \o Offsets(a, b), P, b)
  <1> DEFINE more == Offsets(a, b)
             u == t \o more
  <1>1. more \in Seq(Nat) /\ Len(more) = b - a
        /\ \A x \in 1 .. b - a : more[x] = a + x - 1
    BY DEF Offsets
  <1> HIDE DEF more
  <1>2. t \in Seq(Nat) /\ Len(t) \in Nat /\ Len(t) = Count(P, a)
    BY DEF Enumerates
  <1>3. u \in Seq(Nat) /\ Len(u) = Len(t) + (b - a)
    <2>1. t \in Seq(Nat) /\ more \in Seq(Nat)
      BY <1>1, <1>2
    <2>2. u \in Seq(Nat) /\ Len(u) = Len(t) + Len(more)
      BY <2>1
    <2> QED
      BY <2>2, <1>1
  <1>4. Len(u) = Count(P, b)
    <2>1. Count(P, b) = Count(P, a) + (b - a)
      BY CountGrows
    <2> QED
      BY <1>2, <1>3, <2>1
  <1>5. ASSUME NEW k \in 1 .. Len(u)
        PROVE  u[k] \in P /\ u[k] < b /\ Count(P, u[k]) = k - 1
    <2>1. CASE k <= Len(t)
      <3>1. k \in 1 .. Len(t) /\ u[k] = t[k]
        BY <2>1, <1>1, <1>2
      <3>2. t[k] \in Nat /\ t[k] \in P /\ t[k] < a /\ Count(P, t[k]) = k - 1
        BY <3>1, <1>2 DEF Enumerates
      <3> QED
        BY <3>1, <3>2
    <2>2. CASE k > Len(t)
      <3> DEFINE x == k - Len(t)
      <3>1. x \in 1 .. b - a /\ u[k] = a + x - 1
        <4>1. x \in 1 .. Len(more)
          BY <2>2, <1>1, <1>2, <1>3
        <4>2. u[k] = more[x]
          <5>1. t \in Seq(Nat) /\ more \in Seq(Nat)
            BY <1>1, <1>2
          <5>2. k \in Nat /\ Len(t) < k /\ k <= Len(t) + Len(more)
            BY <1>1, <1>2, <1>3, <2>2
          <5> HIDE DEF x
          <5>3. (t \o more)[k] = more[k - Len(t)]
            BY <5>1, <5>2
          <5> QED
            BY <5>3 DEF x
        <4> QED
          BY <4>1, <4>2, <1>1
      <3>2. a + x - 1 \in Nat /\ a <= a + x - 1 /\ a + x - 1 < b /\ a + x - 1 \in a .. b - 1
        BY <3>1
      <3>3. \A j \in a .. (a + x - 1) - 1 : j \in P
        BY <3>2
      <3>4. Count(P, a + x - 1) = Count(P, a) + ((a + x - 1) - a)
        BY <3>2, <3>3, CountGrows
      <3>5. Count(P, a + x - 1) = k - 1
        BY <3>4, <1>2, <2>2
      <3>6. a + x - 1 \in P
        BY <3>2
      <3> QED
        BY <3>1, <3>2, <3>5, <3>6
    <2> QED
      BY <2>1, <2>2, <1>2, <1>3
  <1>6. Enumerates(u, P, b)
    <2> HIDE DEF u
    <2> QED
      BY <1>3, <1>4, <1>5 DEF Enumerates
  <1> QED
    BY <1>6 DEF more

-----------------------------------------------------------------------------
(* The characters of the script.                                            *)
Kept == {i \in Nat : ~InComment(i)}
Feeds == {i \in Nat : Char(i) = NewLine}
Starts(j) == j + 1 < Size /\ Char(j) = Slash /\ Char(j + 1) = Slash

ScriptType == script \in Seq({Slash, NewLine, Letter})

LEMMA CharactersDiffer == Slash # NewLine /\ Letter # NewLine
  <1>1. \A x, y : Cardinality({x, y}) # 3
    <2> TAKE x, y
    <2>1. IsFiniteSet({x}) /\ Cardinality({x}) = 1
      BY FS_Singleton
    <2>2. Cardinality({x} \cup {y}) = IF y \in {x} THEN Cardinality({x})
                                      ELSE Cardinality({x}) + 1
      BY <2>1, FS_AddElement
    <2>3. {x, y} = {x} \cup {y}
      OBVIOUS
    <2> QED
      BY <2>1, <2>2, <2>3
  <1>2. Slash = NewLine => {Slash, NewLine, Letter} = {NewLine, Letter}
    OBVIOUS
  <1>3. Letter = NewLine => {Slash, NewLine, Letter} = {Slash, NewLine}
    OBVIOUS
  <1> QED
    BY <1>1, <1>2, <1>3, SourcesAssumption

(* As long as the script is the same, so is what is said of it.             *)
LEMMA SameScript ==
    ASSUME script' = script, behind' = behind
    PROVE  /\ Size' = Size
           /\ Kept' = Kept
           /\ Feeds' = Feeds
           /\ \A i : /\ Char(i)' = Char(i)
                     /\ NewLines(i)' = NewLines(i)
                     /\ LineBegin(i)' = LineBegin(i)
                     /\ InComment(i)' = InComment(i)
                     /\ Starts(i)' = Starts(i)
           /\ OpenComment' = OpenComment
  <1>1. Size' = Size
    BY DEF Size
  <1>2. \A i : Char(i)' = Char(i)
    BY DEF Char, Size
  <1>3. \A i : NewLines(i)' = NewLines(i)
    BY DEF NewLines, Char, Size
  <1>4. \A i : LineBegin(i)' = LineBegin(i)
    BY DEF LineBegin, NewLines, Char, Size
  <1>5. \A i : InComment(i)' = InComment(i)
    BY DEF InComment, LineBegin, NewLines, Char, Size
  <1>6. Kept' = Kept
    BY DEF Kept, InComment, LineBegin, NewLines, Char, Size
  <1>7. Feeds' = Feeds
    BY DEF Feeds, Char, Size
  <1>8. \A i : Starts(i)' = Starts(i)
    BY DEF Starts, Char, Size
  <1>9. OpenComment' = OpenComment
    BY DEF OpenComment, InComment, LineBegin, NewLines, Char, Size
  <1> QED
    BY <1>1, <1>2, <1>3, <1>4, <1>5, <1>6, <1>7, <1>8, <1>9

LEMMA NewLinesAreFeeds ==
    ASSUME NEW i \in Nat
    PROVE  /\ NewLines(i) = Below(Feeds, i)
           /\ Cardinality(NewLines(i)) = Count(Feeds, i)
  <1>1. NewLines(i) = Below(Feeds, i)
    BY DEF NewLines, Below, Feeds
  <1> QED
    BY <1>1 DEF Count

(* A line begins behind the last line feed before.                          *)
LEMMA LineBegins ==
    ASSUME NEW i \in Nat
    PROVE  /\ LineBegin(i) \in 0 .. i
           /\ LineBegin(i) > 0 => LineBegin(i) - 1 \in Feeds
           /\ \A j \in LineBegin(i) .. i - 1 : j \notin Feeds
  <1>1. CASE NewLines(i) = {}
    BY <1>1 DEF LineBegin, NewLines, Feeds
  <1>2. CASE NewLines(i) # {}
    <2> DEFINE T == {i - 1 - j : j \in NewLines(i)}
               last == CHOOSE j \in NewLines(i) : \A k \in NewLines(i) : k =< j
    <2>1. T \in SUBSET Nat /\ T # {}
      BY <1>2 DEF NewLines
    <2>2. PICK m \in T : \A k \in T : m <= k
      <3> HIDE DEF T
      <3> QED
        BY <2>1, Least
    <2>3. PICK x \in NewLines(i) : m = i - 1 - x
      OBVIOUS
    <2>4. \A k \in NewLines(i) : k =< x
      <3> TAKE k \in NewLines(i)
      <3>1. m <= i - 1 - k
        BY <2>2
      <3>2. k \in Int /\ x \in Int
        BY DEF NewLines
      <3> QED
        BY <3>1, <3>2, <2>3
    <2>5. last \in NewLines(i) /\ \A k \in NewLines(i) : k =< last
      BY <2>4
    <2> HIDE DEF last
    <2>6. LineBegin(i) = 1 + last
      BY <1>2 DEF LineBegin, last
    <2>7. last \in 0 .. i - 1 /\ Char(last) = NewLine
      BY <2>5 DEF NewLines
    <2>8. ASSUME NEW j \in LineBegin(i) .. i - 1
          PROVE  j \notin Feeds
      <3>1. j > last /\ j \in 0 .. i - 1
        BY <2>6, <2>7
      <3>2. j \notin NewLines(i)
        BY <3>1, <2>5, <2>7
      <3> QED
        BY <3>1, <3>2 DEF NewLines, Feeds
    <2>9. LineBegin(i) \in 0 .. i /\ LineBegin(i) - 1 = last /\ last \in Feeds
      BY <2>6, <2>7 DEF Feeds
    <2> QED
      BY <2>8, <2>9
  <1> QED
    BY <1>1, <1>2

LEMMA LineBeginIs ==
    ASSUME NEW i \in Nat, NEW a \in 0 .. i, a > 0 => a - 1 \in Feeds,
           \A j \in a .. i - 1 : j \notin Feeds
    PROVE  LineBegin(i) = a
  <1> DEFINE b == LineBegin(i)
  <1>1. /\ b \in 0 .. i
        /\ b > 0 => b - 1 \in Feeds
        /\ \A j \in b .. i - 1 : j \notin Feeds
    BY LineBegins
  <1> HIDE DEF b
  <1>2. ~ (a < b)
    <2> SUFFICES ASSUME a < b PROVE FALSE
      OBVIOUS
    <2>1. b - 1 \in a .. i - 1 /\ b > 0
      BY <1>1
    <2> QED
      BY <2>1, <1>1
  <1>3. ~ (b < a)
    <2> SUFFICES ASSUME b < a PROVE FALSE
      OBVIOUS
    <2>1. a - 1 \in b .. i - 1 /\ a > 0
      BY <1>1
    <2> QED
      BY <2>1, <1>1
  <1>4. b = a
    BY <1>1, <1>2, <1>3
  <1> QED
    BY <1>4 DEF b

LEMMA LineBeginNext ==
    ASSUME NEW i \in Nat
    PROVE  LineBegin(i + 1) = IF i \in Feeds THEN i + 1 ELSE LineBegin(i)
  <1>1. CASE i \in Feeds
    <2>1. i + 1 \in 0 .. i + 1 /\ (i + 1) - 1 \in Feeds
          /\ \A j \in i + 1 .. (i + 1) - 1 : j \notin Feeds
      BY <1>1
    <2>2. LineBegin(i + 1) = i + 1
      BY <2>1, LineBeginIs
    <2> QED
      BY <1>1, <2>2
  <1>2. CASE i \notin Feeds
    <2> DEFINE a == LineBegin(i)
    <2>1. /\ a \in 0 .. i
          /\ a > 0 => a - 1 \in Feeds
          /\ \A j \in a .. i - 1 : j \notin Feeds
      BY LineBegins
    <2> HIDE DEF a
    <2>2. a \in 0 .. i + 1 /\ \A j \in a .. (i + 1) - 1 : j \notin Feeds
      <3>1. \A j \in a .. (i + 1) - 1 : j = i \/ j \in a .. i - 1
        BY <2>1
      <3> QED
        BY <3>1, <2>1, <1>2
    <2>3. LineBegin(i + 1) = a
      BY <2>1, <2>2, LineBeginIs
    <2> QED
      BY <1>2, <2>3 DEF a
  <1> QED
    BY <1>1, <1>2

(* Without a line feed between them, two offsets are on one line.           *)
LEMMA LineBeginStays ==
    ASSUME NEW i \in Nat, NEW j \in Nat, i <= j, \A k \in i .. j - 1 : k \notin Feeds
    PROVE  LineBegin(j) = LineBegin(i)
  <1> DEFINE a == LineBegin(i)
  <1>1. /\ a \in 0 .. i
        /\ a > 0 => a - 1 \in Feeds
        /\ \A k \in a .. i - 1 : k \notin Feeds
    BY LineBegins
  <1> HIDE DEF a
  <1>2. a \in 0 .. j /\ \A k \in a .. j - 1 : k \notin Feeds
    <2>1. \A k \in a .. j - 1 : k \in a .. i - 1 \/ k \in i .. j - 1
      BY <1>1
    <2> QED
      BY <2>1, <1>1
  <1>3. LineBegin(j) = a
    BY <1>1, <1>2, LineBeginIs
  <1> QED
    BY <1>3 DEF a

-----------------------------------------------------------------------------
(* The lines that end below m, where line feeds are in F and the text has   *)
(* what is in P: where they end in the text.                                *)
Ends(l, F, P, m) ==
    /\ l \in Seq(Nat)
    /\ Len(l) >= Count(F, m)
    /\ \A k \in 1 .. Count(F, m) : \E j \in 0 .. m - 1 :
          j \in F /\ Count(F, j) = k - 1 /\ l[k] = Count(P, j + 1)

LEMMA EndsNone ==
    ASSUME NEW F, NEW P
    PROVE  Ends(<<>>, F, P, 0)
  <1>1. Count(F, 0) = 0
    BY CountNext
  <1> QED
    BY <1>1 DEF Ends

LEMMA EndsGap ==
    ASSUME NEW l, NEW F, NEW P, NEW a \in Nat, NEW b \in Nat, a <= b,
           Ends(l, F, P, a), \A j \in a .. b - 1 : j \notin F
    PROVE  Ends(l, F, P, b) /\ Count(F, b) = Count(F, a)
  <1>1. Count(F, b) = Count(F, a)
    BY CountGrows
  <1>2. \A j \in 0 .. a - 1 : j \in 0 .. b - 1
    OBVIOUS
  <1> QED
    BY <1>1, <1>2 DEF Ends

LEMMA EndsNext ==
    ASSUME NEW l, NEW F, NEW P, NEW m \in Nat, m \in F,
           Ends(l, F, P, m), Len(l) = Count(F, m)
    PROVE  /\ Ends(Append(l, Count(P, m + 1)), F, P, m + 1)
           /\ Len(Append(l, Count(P, m + 1))) = Count(F, m + 1)
  <1> DEFINE n == Count(F, m)
             e == Count(P, m + 1)
             u == Append(l, e)
  <1>1. n \in Nat /\ e \in Nat /\ Count(F, m + 1) = n + 1
    <2>1. m + 1 \in Nat
      OBVIOUS
    <2>2. n \in Nat /\ e \in Nat
      BY <2>1, CountType
    <2> QED
      BY <2>2, CountNext
  <1>2. l \in Seq(Nat) /\ Len(l) = n
    BY DEF Ends
  <1> HIDE DEF e
  <1>3. /\ u \in Seq(Nat) /\ Len(u) = n + 1 /\ u[n + 1] = e
        /\ \A k \in 1 .. n : u[k] = l[k]
    BY <1>1, <1>2
  <1> HIDE DEF u
  <1>4. ASSUME NEW k \in 1 .. n + 1
        PROVE  \E j \in 0 .. (m + 1) - 1 :
                  j \in F /\ Count(F, j) = k - 1 /\ u[k] = Count(P, j + 1)
    <2>1. CASE k = n + 1
      <3>1. m \in 0 .. (m + 1) - 1 /\ Count(F, m) = k - 1 /\ u[k] = Count(P, m + 1)
        BY <2>1, <1>1, <1>3 DEF e
      <3> QED
        BY <3>1
    <2>2. CASE k # n + 1
      <3>1. k \in 1 .. n
        BY <2>2, <1>1
      <3>2. PICK j \in 0 .. m - 1 :
                j \in F /\ Count(F, j) = k - 1 /\ l[k] = Count(P, j + 1)
        BY <3>1 DEF Ends
      <3>3. j \in 0 .. (m + 1) - 1 /\ u[k] = l[k]
        BY <3>1, <1>3
      <3> QED
        BY <3>2, <3>3
    <2> QED
      BY <2>1, <2>2
  <1>5. Ends(u, F, P, m + 1) /\ Len(u) = Count(F, m + 1)
    BY <1>1, <1>3, <1>4 DEF Ends
  <1> QED
    BY <1>5 DEF u, e

LEMMA EndsMore ==
    ASSUME NEW l, NEW F, NEW P, NEW m \in Nat, NEW e \in Nat,
           Ends(l, F, P, m)
    PROVE  Ends(Append(l, e), F, P, m)
  <1>1. l \in Seq(Nat) /\ Count(F, m) \in Nat /\ Len(l) >= Count(F, m)
    BY CountType DEF Ends
  <1>2. /\ Append(l, e) \in Seq(Nat) /\ Len(Append(l, e)) = Len(l) + 1
        /\ \A k \in 1 .. Len(l) : Append(l, e)[k] = l[k]
    BY <1>1
  <1>3. \A k \in 1 .. Count(F, m) : k \in 1 .. Len(l)
    BY <1>1
  <1>4. \A k \in 1 .. Count(F, m) : Append(l, e)[k] = l[k]
    BY <1>2, <1>3
  <1> QED
    BY <1>1, <1>2, <1>4 DEF Ends

-----------------------------------------------------------------------------
(* The furthest offset of a sequence of reports.                            *)
Report == [at : Nat, forced : BOOLEAN]

Since(es) == {i \in DOMAIN es : \A j \in DOMAIN es : es[j].forced => j =< i}

Forced(es) == \E i \in DOMAIN es : es[i].forced

(* Where none of them is of a unit, what was there earlier counts as well.  *)
IsFurthest(es, earlier, k) ==
    /\ (\E i \in Since(es) : es[i].at = k) \/ (~Forced(es) /\ k = earlier)
    /\ \A i \in Since(es) : es[i].at =< k
    /\ Forced(es) \/ earlier =< k

LEMMA FurthestIs ==
    ASSUME errors \in Seq(Report), begin \in Nat, before \in Nat,
           NEW k \in Int, IsFurthest(errors, before - begin, k)
    PROVE  Furthest = k
  <1> DEFINE forced == {i \in DOMAIN errors : errors[i].forced}
             since == {i \in DOMAIN errors : \A j \in forced : j =< i}
             earlier == IF forced = {} THEN {before - begin} ELSE {}
             ends == {errors[i].at : i \in since} \cup earlier
  <1>1. since = Since(errors) /\ (Forced(errors) <=> forced # {})
    BY DEF Since, Forced
  <1>2. k \in ends /\ \A x \in ends : x =< k
    <2> HIDE DEF since, forced
    <2> QED
      BY <1>1 DEF IsFurthest
  <1>3. \A x \in ends : x \in Int
    <2>1. \A i \in DOMAIN errors : errors[i].at \in Nat
      <3>1. \A i \in DOMAIN errors : errors[i] \in Report
        OBVIOUS
      <3> QED
        BY <3>1 DEF Report
    <2> QED
      BY <2>1
  <1>4. Furthest = CHOOSE x \in ends : \A j \in ends : j =< x
    BY DEF Furthest
  <1> HIDE DEF ends
  <1>5. \A x \in ends : (\A j \in ends : j =< x) <=> x = k
    BY <1>2, <1>3
  <1> QED
    BY <1>2, <1>4, <1>5

LEMMA NoReport ==
    ASSUME NEW k \in Int
    PROVE  IsFurthest(<<>>, k, k)
  <1>1. DOMAIN <<>> = {}
    OBVIOUS
  <1> QED
    BY <1>1 DEF IsFurthest, Since, Forced

LEMMA NextReport ==
    ASSUME NEW es \in Seq(Report), NEW r \in Report, NEW earlier \in Int
    PROVE  /\ r.forced => IsFurthest(Append(es, r), earlier, r.at)
           /\ ~r.forced => \A k \in Int :
                 IsFurthest(es, earlier, k) =>
                     IsFurthest(Append(es, r), earlier, Max2(k, r.at))
  <1> DEFINE u == Append(es, r)
             n == Len(es)
  <1>1. /\ n \in Nat /\ u \in Seq(Report) /\ DOMAIN u = 1 .. n + 1 /\ DOMAIN es = 1 .. n
        /\ u[n + 1] = r /\ \A i \in 1 .. n : u[i] = es[i]
    OBVIOUS
  <1>2. r.at \in Nat /\ \A i \in 1 .. n : es[i].at \in Nat
    <2>1. \A i \in 1 .. n : es[i] \in Report
      BY <1>1
    <2> QED
      BY <2>1 DEF Report
  <1> HIDE DEF u
  <1>3. ASSUME r.forced
        PROVE  IsFurthest(u, earlier, r.at)
    <2>1. Since(u) = {n + 1}
      <3>1. n + 1 \in Since(u)
        BY <1>1 DEF Since
      <3>2. \A i \in Since(u) : n + 1 =< i /\ i \in 1 .. n + 1
        <4>1. n + 1 \in DOMAIN u /\ u[n + 1].forced
          BY <1>1, <1>3
        <4> QED
          BY <4>1, <1>1 DEF Since
      <3> QED
        BY <3>1, <3>2, <1>1
    <2>2. Forced(u)
      BY <1>1, <1>3 DEF Forced
    <2> QED
      BY <2>1, <2>2, <1>1, <1>2 DEF IsFurthest
  <1>4. ASSUME ~r.forced, NEW k \in Int, IsFurthest(es, earlier, k)
        PROVE  IsFurthest(u, earlier, Max2(k, r.at))
    <2>1. Since(u) = Since(es) \cup {n + 1}
      <3>1. \A j \in 1 .. n + 1 : u[j].forced <=> j \in 1 .. n /\ es[j].forced
        BY <1>1, <1>4
      <3>2. n + 1 \in Since(u)
        BY <1>1 DEF Since
      <3>3. \A i \in 1 .. n : i \in Since(u) <=> i \in Since(es)
        <4> TAKE i \in 1 .. n
        <4>1. i \in 1 .. n + 1 /\ \A j \in 1 .. n : j \in 1 .. n + 1
          BY <1>1
        <4> QED
          BY <4>1, <3>1, <1>1 DEF Since
      <3>4. Since(u) \subseteq 1 .. n + 1 /\ Since(es) \subseteq 1 .. n
        BY <1>1 DEF Since
      <3> QED
        BY <3>2, <3>3, <3>4, <1>1
    <2>2. Since(es) \subseteq 1 .. n
      BY <1>1 DEF Since
    <2>3. Forced(u) <=> Forced(es)
      <3>1. \A j \in 1 .. n + 1 : u[j].forced => j \in 1 .. n /\ es[j].forced
        BY <1>1, <1>4
      <3>2. \A j \in 1 .. n : j \in 1 .. n + 1 /\ u[j] = es[j]
        BY <1>1
      <3> QED
        BY <3>1, <3>2, <1>1 DEF Forced
    <2>4. \A x \in Since(es) : u[x].at = es[x].at /\ u[x].at =< k /\ u[x].at \in Nat
      BY <2>2, <1>1, <1>2, <1>4 DEF IsFurthest
    <2>5. u[n + 1].at = r.at /\ n + 1 \in Since(u)
      BY <2>1, <1>1
    <2>6. \A x \in Since(u) : u[x].at =< Max2(k, r.at)
      BY <2>1, <2>4, <2>5, <1>2 DEF Max2
    <2>7. (\E x \in Since(u) : u[x].at = Max2(k, r.at))
          \/ (~Forced(u) /\ Max2(k, r.at) = earlier)
      <3>1. CASE k > r.at
        <4>1. Max2(k, r.at) = k
          BY <3>1 DEF Max2
        <4>2. (\E x \in Since(es) : es[x].at = k) \/ (~Forced(es) /\ k = earlier)
          BY <1>4 DEF IsFurthest
        <4> QED
          BY <4>1, <4>2, <2>1, <2>3, <2>4
      <3>2. CASE ~(k > r.at)
        BY <3>2, <2>5 DEF Max2
      <3> QED
        BY <3>1, <3>2
    <2>8. Forced(u) \/ earlier =< Max2(k, r.at)
      <3>1. Forced(es) \/ earlier =< k
        BY <1>4 DEF IsFurthest
      <3> QED
        BY <3>1, <2>3, <1>2 DEF Max2
    <2> QED
      BY <2>6, <2>7, <2>8 DEF IsFurthest
  <1> QED
    BY <1>3, <1>4 DEF u
-----------------------------------------------------------------------------
(* What has been read: outside of a comment, unless one ended the script.   *)
(* What is kept from subStart on is not in the text yet, but for an open    *)
(* comment: then all of it is, and subStart was not moved.                  *)
ReadTo ==
    /\ c \in 0 .. Size /\ subStart \in 0 .. c
    /\ lineStart = LineBegin(c)
    /\ c < Size => \A j \in lineStart .. c - 1 : ~Starts(j)
    /\ skipped = c - Count(Kept, c)
    /\ Ends(lines, Feeds, Kept, c) /\ Len(lines) = Count(Feeds, c)
    /\ text \in Seq(Nat)
    /\ IF c = Size /\ OpenComment THEN Enumerates(text, Kept, Size)
       ELSE /\ Enumerates(text, Kept, subStart)
            /\ \A i \in subStart .. c - 1 : i \in Kept

(* The text, with what an open comment leaves behind it, and the map of its *)
(* lines; the last line may have no line feed.                              *)
CodeFirst ==
    \E code, rest \in Seq(Nat) :
        /\ text = code \o rest
        /\ Enumerates(code, Kept, Size)
        /\ ~OpenComment => rest = <<>>

Parsed ==
    /\ CodeFirst
    /\ Ends(lines, Feeds, Kept, Size)
    /\ IF LineBegin(Size) < Size
       THEN /\ Len(lines) = Count(Feeds, Size) + 1
            /\ lines[Len(lines)] = Count(Kept, Size)
       ELSE Len(lines) = Count(Feeds, Size)

(* The address kept is that of the furthest report, or the one of an        *)
(* earlier compilation where that is higher and no unit was reported.       *)
Reports ==
    /\ begin \in Nat /\ reached \in Nat /\ before \in Nat
    /\ errors \in Seq(Report)
    /\ phase # "reading" => IsFurthest(errors, before - begin, reached - begin)
    /\ phase = "idle" /\ compiles > 0 => errors # <<>>

(* The inductive invariant.                                                 *)
IInv ==
    /\ phase \in {"idle", "reading", "parsing"} /\ compiles \in Nat
    /\ ScriptType
    /\ phase = "reading" => ReadTo /\ errors = <<>>
    /\ phase = "parsing" \/ (phase = "idle" /\ compiles > 0) => Parsed
    /\ Reports

LEMMA TheScript ==
    ASSUME ScriptType
    PROVE  /\ Size \in Nat
           /\ \A i \in Nat : i \in Feeds <=> Char(i) = NewLine
           /\ \A i \in Nat : i \in Kept <=> ~InComment(i)
           /\ Feeds \subseteq Kept
           /\ \A j \in Nat : Starts(j) => j \notin Feeds /\ j + 1 \notin Feeds
  <1>1. Size \in Nat
    BY DEF Size, ScriptType
  <1>2. Feeds \subseteq Kept
    BY DEF Feeds, Kept, InComment
  <1>3. \A j \in Nat : Starts(j) => j \notin Feeds /\ j + 1 \notin Feeds
    BY CharactersDiffer DEF Starts, Feeds
  <1> QED
    BY <1>1, <1>2, <1>3 DEF Feeds, Kept

(* A character outside of a comment that does not begin one is kept.        *)
LEMMA CodeIsKept ==
    ASSUME ScriptType, NEW i \in Nat, ~Starts(i),
           \A j \in LineBegin(i) .. i - 1 : ~Starts(j)
    PROVE  i \in Kept
  <1>1. LineBegin(i) \in 0 .. i
    BY LineBegins
  <1>2. \A j \in LineBegin(i) .. i : j = i \/ j \in LineBegin(i) .. i - 1
    BY <1>1
  <1>3. \A j \in LineBegin(i) .. i : ~Starts(j)
    BY <1>2
  <1>4. ~InComment(i)
    BY <1>3 DEF InComment, Starts
  <1> QED
    BY <1>4 DEF Kept

(* A comment reaches to the next line feed.                                 *)
LEMMA CommentIsCut ==
    ASSUME ScriptType, NEW first \in Nat, NEW end \in Nat, Starts(first), first <= end,
           \A j \in first .. end - 1 : j \notin Feeds
    PROVE  \A j \in first .. end - 1 : j \notin Kept
  <1> SUFFICES ASSUME NEW j \in first .. end - 1 PROVE InComment(j)
    BY TheScript
  <1>1. j \in Nat /\ first <= j /\ \A k \in first .. j - 1 : k \in first .. end - 1
    OBVIOUS
  <1>2. LineBegin(j) = LineBegin(first)
    BY <1>1, LineBeginStays
  <1>3. LineBegin(first) \in 0 .. first
    BY LineBegins
  <1>4. first \in LineBegin(j) .. j
    BY <1>1, <1>2, <1>3
  <1>5. Char(j) # NewLine
    BY <1>1, TheScript
  <1> QED
    BY <1>4, <1>5 DEF InComment, Starts

LEMMA CommentEnds ==
    ASSUME ScriptType, c \in Nat, c < Size, AtComment
    PROVE  /\ Starts(c)
           /\ CommentEnd \in c + 2 .. Size
           /\ CommentEnd < Size => CommentEnd \in Feeds
           /\ \A j \in c .. CommentEnd - 1 : j \notin Feeds
  <1> DEFINE newLines == {i \in c + 2 .. Size - 1 : Char(i) = NewLine}
  <1>1. Starts(c) /\ Size \in Nat /\ c + 2 <= Size
    BY TheScript DEF AtComment, Starts
  <1>2. c \notin Feeds /\ c + 1 \notin Feeds
    BY <1>1, TheScript
  <1>3. CASE newLines = {}
    <2>1. CommentEnd = Size
      BY <1>3 DEF CommentEnd
    <2>2. ASSUME NEW j \in c .. Size - 1
          PROVE  j \notin Feeds
      <3>1. j = c \/ j = c + 1 \/ j \in c + 2 .. Size - 1
        BY <1>1
      <3>2. j \in c + 2 .. Size - 1 => Char(j) # NewLine
        BY <1>3
      <3> QED
        BY <3>1, <3>2, <1>2 DEF Feeds
    <2> QED
      BY <1>1, <2>1, <2>2
  <1>4. CASE newLines # {}
    <2> DEFINE end == CHOOSE i \in newLines : \A j \in newLines : i =< j
    <2>1. newLines \in SUBSET Nat
      BY <1>1
    <2>2. \E i \in newLines : \A j \in newLines : i =< j
      <3> HIDE DEF newLines
      <3> QED
        BY <1>4, <2>1, Least
    <2>3. end \in newLines /\ \A j \in newLines : end =< j
      <3> HIDE DEF newLines
      <3> QED
        BY <2>2
    <2>4. CommentEnd = end
      BY <1>4 DEF CommentEnd
    <2> HIDE DEF end
    <2>5. end \in c + 2 .. Size - 1 /\ end \in Feeds
      BY <2>1, <2>3 DEF Feeds
    <2>6. ASSUME NEW j \in c .. end - 1
          PROVE  j \notin Feeds
      <3>1. j = c \/ j = c + 1 \/ j \in c + 2 .. Size - 1
        BY <1>1, <2>5
      <3>2. j \notin newLines
        BY <2>3, <2>5
      <3> QED
        BY <3>1, <3>2, <1>2 DEF Feeds
    <2> QED
      BY <1>1, <2>4, <2>5, <2>6
  <1> QED
    BY <1>3, <1>4

-----------------------------------------------------------------------------
(* The steps of the preprocessor.                                           *)
LEMMA ReadCharStep ==
    ASSUME ScriptType, ReadTo, ReadChar
    PROVE  ReadTo'
  <1>1. /\ c < Size /\ ~AtComment /\ c' = c + 1 /\ subStart' = subStart
        /\ skipped' = skipped /\ text' = text /\ script' = script /\ behind' = behind
    BY DEF ReadChar
  <1>2. /\ Size' = Size /\ Kept' = Kept /\ Feeds' = Feeds
        /\ \A i : LineBegin(i)' = LineBegin(i) /\ Starts(i)' = Starts(i)
        /\ OpenComment' = OpenComment
    BY <1>1, SameScript
  <1>3. /\ Size \in Nat /\ c \in Nat /\ subStart \in 0 .. c
        /\ lineStart = LineBegin(c)
        /\ \A j \in lineStart .. c - 1 : ~Starts(j)
        /\ skipped = c - Count(Kept, c)
        /\ Ends(lines, Feeds, Kept, c) /\ Len(lines) = Count(Feeds, c)
        /\ Enumerates(text, Kept, subStart)
        /\ \A i \in subStart .. c - 1 : i \in Kept
        /\ text \in Seq(Nat)
    BY <1>1, TheScript DEF ReadTo
  <1>4. ~Starts(c)
    BY <1>1 DEF AtComment, Starts
  <1>5. c \in Kept
    BY <1>3, <1>4, CodeIsKept
  <1>6. Count(Kept, c + 1) = Count(Kept, c) + 1 /\ Count(Kept, c) \in Nat
    BY <1>3, <1>5, CountNext, CountType
  <1>7. skipped' = (c + 1) - Count(Kept, c + 1)
    BY <1>1, <1>3, <1>6
  <1>8. \A i \in subStart .. (c + 1) - 1 : i \in Kept
    <2>1. \A i \in subStart .. (c + 1) - 1 : i = c \/ i \in subStart .. c - 1
      BY <1>3
    <2> QED
      BY <2>1, <1>3, <1>5
  <1>9. c \in Feeds <=> Char(c) = NewLine
    BY <1>3, TheScript
  <1>10. /\ lineStart' = LineBegin(c + 1)
         /\ Ends(lines', Feeds, Kept, c + 1) /\ Len(lines') = Count(Feeds, c + 1)
         /\ \A j \in lineStart' .. c : ~Starts(j)
    <2>1. CASE Char(c) = NewLine
      <3>1. lines' = Append(lines, c + 1 - skipped) /\ lineStart' = c + 1
        BY <2>1 DEF ReadChar, EndLine
      <3>2. c + 1 - skipped = Count(Kept, c + 1)
        BY <1>3, <1>6
      <3>3. /\ Ends(Append(lines, Count(Kept, c + 1)), Feeds, Kept, c + 1)
            /\ Len(Append(lines, Count(Kept, c + 1))) = Count(Feeds, c + 1)
        BY <1>3, <1>9, <2>1, EndsNext
      <3>4. lineStart' = LineBegin(c + 1)
        BY <1>3, <1>9, <2>1, <3>1, LineBeginNext
      <3>5. \A j \in lineStart' .. c : ~Starts(j)
        BY <1>3, <3>1
      <3> QED
        BY <3>1, <3>2, <3>3, <3>4, <3>5
    <2>2. CASE Char(c) # NewLine
      <3>1. lines' = lines /\ lineStart' = lineStart
        BY <2>2 DEF ReadChar
      <3>2. \A j \in c .. (c + 1) - 1 : j \notin Feeds
        BY <1>3, <1>9, <2>2
      <3>3. Ends(lines, Feeds, Kept, c + 1) /\ Count(Feeds, c + 1) = Count(Feeds, c)
        BY <1>3, <3>2, EndsGap
      <3>4. lineStart' = LineBegin(c + 1)
        BY <1>3, <1>9, <2>2, <3>1, LineBeginNext
      <3>5. \A j \in lineStart .. c : ~Starts(j)
        <4>1. \A j \in lineStart .. c : j = c \/ j \in lineStart .. c - 1
          BY <1>3, LineBegins
        <4> QED
          BY <4>1, <1>3, <1>4
      <3> QED
        BY <1>3, <3>1, <3>3, <3>4, <3>5
    <2> QED
      BY <2>1, <2>2
  <1>11. c + 1 \in 0 .. Size /\ subStart \in 0 .. c + 1 /\ (c + 1) - 1 = c
    BY <1>1, <1>3
  <1>12. c + 1 = Size => ~OpenComment
    <2>1. c + 1 = Size => Size - 1 = c
      BY <1>3
    <2> QED
      BY <2>1, <1>3, <1>5, TheScript DEF OpenComment
  <1> QED
    BY <1>1, <1>2, <1>3, <1>7, <1>8, <1>10, <1>11, <1>12 DEF ReadTo

LEMMA ReadCommentStep ==
    ASSUME ScriptType, ReadTo, ReadComment
    PROVE  ReadTo'
  <1> DEFINE end == CommentEnd
  <1>1. /\ c < Size /\ AtComment /\ script' = script /\ behind' = behind
        /\ text' = text \o Offsets(subStart, c)
        /\ skipped' = skipped + (end - c)
        /\ subStart' = IF Char(end) = NewLine THEN end ELSE subStart
    BY DEF ReadComment
  <1>2. /\ Size' = Size /\ Kept' = Kept /\ Feeds' = Feeds
        /\ \A i : LineBegin(i)' = LineBegin(i) /\ Starts(i)' = Starts(i)
        /\ OpenComment' = OpenComment
    BY <1>1, SameScript
  <1>3. /\ Size \in Nat /\ c \in Nat /\ subStart \in 0 .. c
        /\ lineStart = LineBegin(c)
        /\ skipped = c - Count(Kept, c)
        /\ Ends(lines, Feeds, Kept, c) /\ Len(lines) = Count(Feeds, c)
        /\ Enumerates(text, Kept, subStart)
        /\ \A i \in subStart .. c - 1 : i \in Kept
        /\ text \in Seq(Nat)
    BY <1>1, TheScript DEF ReadTo
  <1>4. /\ Starts(c) /\ end \in c + 2 .. Size
        /\ end < Size => end \in Feeds
        /\ \A j \in c .. end - 1 : j \notin Feeds
    BY <1>1, <1>3, CommentEnds
  <1>5. ((end = Size) => c' = end /\ lines' = lines /\ lineStart' = lineStart)
        /\ (end # Size => /\ c' = end + 1
                          /\ lines' = Append(lines, end + 1 - (skipped + (end - c)))
                          /\ lineStart' = end + 1)
    BY DEF ReadComment, EndLine
  <1> HIDE DEF end
  <1>6. end \in Nat /\ c <= end /\ c < end
    BY <1>3, <1>4
  <1>7. \A j \in c .. end - 1 : j \notin Kept
    BY <1>3, <1>4, <1>6, CommentIsCut
  <1>8. Count(Kept, end) = Count(Kept, c) /\ Count(Kept, c) \in Nat
    BY <1>3, <1>6, <1>7, CountGrows, CountType
  <1>9. Enumerates(text', Kept, end)
    <2>1. Enumerates(text', Kept, c)
      BY <1>1, <1>3, EnumeratesMore
    <2> QED
      BY <2>1, <1>3, <1>6, <1>7, EnumeratesGap
  <1>10. Ends(lines, Feeds, Kept, end) /\ Len(lines) = Count(Feeds, end)
    BY <1>3, <1>4, <1>6, EndsGap
  <1>11. skipped' = end - Count(Kept, end)
    BY <1>1, <1>3, <1>6, <1>8
  <1>12. text' \in Seq(Nat)
    BY <1>9 DEF Enumerates
  <1>13. CASE end = Size
    <2>1. c' = Size /\ lines' = lines /\ lineStart' = lineStart
      BY <1>5, <1>13
    <2>2. lineStart = LineBegin(Size)
      BY <1>3, <1>4, <1>6, <1>13, LineBeginStays
    <2>3. subStart' \in 0 .. Size
      BY <1>1, <1>3, <1>6, <1>13
    <2>4. ASSUME ~OpenComment
          PROVE  subStart' = Size
      <3>1. Size - 1 \in c .. end - 1 /\ Size - 1 \in Nat /\ Size > 0
        BY <1>3, <1>6, <1>13
      <3>2. InComment(Size - 1)
        BY <3>1, <1>7, TheScript
      <3>3. behind = NewLine
        BY <2>4, <3>1, <3>2 DEF OpenComment
      <3>4. Char(Size) = NewLine
        BY <3>3, <1>3 DEF Char
      <3> QED
        BY <3>4, <1>1, <1>13
    <2>5. ~OpenComment => /\ Enumerates(text', Kept, subStart')
                          /\ \A i \in subStart' .. Size - 1 : i \in Kept
      BY <2>4, <1>9, <1>13, <1>3
    <2>6. Size \in 0 .. Size /\ ~ (Size < Size)
      BY <1>3
    <2> QED
      BY <1>2, <1>9, <1>10, <1>11, <1>12, <1>13, <2>1, <2>2, <2>3, <2>5, <2>6 DEF ReadTo
  <1>14. CASE end # Size
    <2>1. end \in Feeds /\ end \in Kept /\ end < Size
      BY <1>3, <1>4, <1>6, <1>14, TheScript
    <2>2. Char(end) = NewLine
      BY <2>1, <1>6, TheScript
    <2>3. /\ c' = end + 1 /\ lineStart' = end + 1 /\ subStart' = end
          /\ lines' = Append(lines, end + 1 - (skipped + (end - c)))
      BY <1>1, <1>5, <1>14, <2>2
    <2>4. Count(Kept, end + 1) = Count(Kept, end) + 1
      BY <1>6, <2>1, CountNext
    <2>5. end + 1 - (skipped + (end - c)) = Count(Kept, end + 1)
      BY <1>3, <1>6, <1>8, <2>4
    <2>6. /\ Ends(lines', Feeds, Kept, end + 1)
          /\ Len(lines') = Count(Feeds, end + 1)
      BY <1>6, <1>10, <2>1, <2>3, <2>5, EndsNext
    <2>7. lineStart' = LineBegin(end + 1)
      BY <1>6, <2>1, <2>3, LineBeginNext
    <2>8. skipped' = (end + 1) - Count(Kept, end + 1)
      BY <1>6, <1>8, <1>11, <2>4
    <2>9. /\ end + 1 \in 0 .. Size /\ end \in 0 .. end + 1
          /\ \A j \in end + 1 .. (end + 1) - 1 : ~Starts(j)
          /\ \A i \in end .. (end + 1) - 1 : i \in Kept
      <3>1. \A i \in end .. (end + 1) - 1 : i = end
        BY <1>6
      <3> QED
        BY <3>1, <1>3, <1>6, <2>1
    <2>10. end + 1 = Size => ~OpenComment
      <3>1. end + 1 = Size => Size - 1 = end
        BY <1>6
      <3> QED
        BY <3>1, <1>6, <2>1, TheScript DEF OpenComment
    <2> QED
      BY <1>2, <1>9, <1>12, <2>3, <2>6, <2>7, <2>8, <2>9, <2>10 DEF ReadTo
  <1> QED
    BY <1>13, <1>14

LEMMA FinishTextStep ==
    ASSUME ScriptType, ReadTo, FinishText
    PROVE  Parsed'
  <1>1. /\ c = Size /\ script' = script /\ behind' = behind
        /\ text' = text \o Offsets(subStart, Size)
        /\ lines' = IF Size > lineStart THEN Append(lines, Size - skipped) ELSE lines
    BY DEF FinishText
  <1>2. /\ Size' = Size /\ Kept' = Kept /\ Feeds' = Feeds
        /\ \A i : LineBegin(i)' = LineBegin(i)
        /\ OpenComment' = OpenComment
    BY <1>1, SameScript
  <1>3. /\ Size \in Nat /\ subStart \in 0 .. Size
        /\ lineStart = LineBegin(Size)
        /\ skipped = Size - Count(Kept, Size)
        /\ Ends(lines, Feeds, Kept, Size) /\ Len(lines) = Count(Feeds, Size)
        /\ OpenComment => Enumerates(text, Kept, Size)
        /\ ~OpenComment => /\ Enumerates(text, Kept, subStart)
                           /\ \A i \in subStart .. Size - 1 : i \in Kept
        /\ text \in Seq(Nat)
    BY <1>1, TheScript DEF ReadTo
  <1>4. Offsets(subStart, Size) \in Seq(Nat)
    BY <1>3 DEF Offsets
  <1>5. \E code, rest \in Seq(Nat) :
           /\ text' = code \o rest
           /\ Enumerates(code, Kept, Size)
           /\ ~OpenComment => rest = <<>>
    <2>1. CASE OpenComment
      BY <2>1, <1>1, <1>3, <1>4
    <2>2. CASE ~OpenComment
      <3>1. Enumerates(text', Kept, Size)
        BY <2>2, <1>1, <1>3, EnumeratesMore
      <3>2. text' \in Seq(Nat)
        BY <3>1 DEF Enumerates
      <3>3. text' = text' \o <<>> /\ <<>> \in Seq(Nat)
        BY <3>2
      <3> QED
        BY <3>1, <3>2, <3>3
    <2> QED
      BY <2>1, <2>2
  <1>6. Count(Kept, Size) \in Nat /\ Size - skipped = Count(Kept, Size)
        /\ LineBegin(Size) \in Nat
    BY <1>3, CountType, LineBegins
  <1>7. CASE LineBegin(Size) < Size
    <2>1. lines' = Append(lines, Count(Kept, Size))
      BY <1>1, <1>3, <1>6, <1>7
    <2>2. Ends(lines', Feeds, Kept, Size)
      BY <2>1, <1>3, <1>6, EndsMore
    <2>3. Len(lines') = Count(Feeds, Size) + 1 /\ lines'[Len(lines')] = Count(Kept, Size)
      <3>1. lines \in Seq(Nat)
        BY <1>3 DEF Ends
      <3> QED
        BY <3>1, <2>1, <1>3, <1>6
    <2> QED
      BY <1>2, <1>5, <1>7, <2>2, <2>3 DEF Parsed, CodeFirst
  <1>8. CASE ~ (LineBegin(Size) < Size)
    <2>1. lines' = lines
      BY <1>1, <1>3, <1>6, <1>8
    <2> QED
      BY <1>2, <1>3, <1>5, <1>8, <2>1 DEF Parsed, CodeFirst
  <1> QED
    BY <1>7, <1>8

-----------------------------------------------------------------------------
(* The steps of the parsers: a report moves the address kept.               *)
LEMMA ReportStep ==
    ASSUME Reports, phase = "parsing", phase' = "parsing",
           NEW r \in Report, errors' = Append(errors, r),
           begin' = begin, before' = before,
           reached' = IF r.forced THEN begin + r.at ELSE Max2(reached, begin + r.at)
    PROVE  Reports'
  <1>1. /\ begin \in Nat /\ reached \in Nat /\ before \in Nat
        /\ errors \in Seq(Report) /\ r.at \in Nat
        /\ IsFurthest(errors, before - begin, reached - begin)
    BY DEF Reports, Report
  <1>2. reached' \in Nat /\ errors' \in Seq(Report) /\ errors' # <<>>
    BY <1>1 DEF Max2
  <1>3. before - begin \in Int /\ reached - begin \in Int
    BY <1>1
  <1>4. IsFurthest(errors', before - begin, reached' - begin)
    <2>1. CASE r.forced
      <3>1. reached' - begin = r.at
        BY <1>1, <2>1
      <3>2. IsFurthest(Append(errors, r), before - begin, r.at)
        BY <1>1, <1>3, <2>1, NextReport
      <3> QED
        BY <3>1, <3>2
    <2>2. CASE ~r.forced
      <3>1. reached' - begin = Max2(reached - begin, r.at)
        BY <1>1, <2>2 DEF Max2
      <3>2. IsFurthest(Append(errors, r), before - begin, Max2(reached - begin, r.at))
        BY <1>1, <1>3, <2>2, NextReport
      <3> QED
        BY <3>1, <3>2
    <2> QED
      BY <2>1, <2>2
  <1> QED
    BY <1>1, <1>2, <1>4 DEF Reports

(* Parsing leaves the text and its lines alone.                             *)
LEMMA ParsedStays ==
    ASSUME Parsed, script' = script, behind' = behind, text' = text, lines' = lines
    PROVE  Parsed'
  <1>1. /\ Size' = Size /\ Kept' = Kept /\ Feeds' = Feeds
        /\ \A i : LineBegin(i)' = LineBegin(i)
        /\ OpenComment' = OpenComment
    BY SameScript
  <1> QED
    BY <1>1 DEF Parsed, CodeFirst

LEMMA ReadToStays ==
    ASSUME ReadTo, UNCHANGED vars
    PROVE  ReadTo'
  <1>1. /\ script' = script /\ behind' = behind /\ text' = text /\ lines' = lines
        /\ c' = c /\ subStart' = subStart /\ lineStart' = lineStart /\ skipped' = skipped
    BY DEF vars, reading
  <1>2. /\ Size' = Size /\ Kept' = Kept /\ Feeds' = Feeds
        /\ \A i : LineBegin(i)' = LineBegin(i) /\ Starts(i)' = Starts(i)
        /\ OpenComment' = OpenComment
    BY <1>1, SameScript
  <1> QED
    BY <1>1, <1>2 DEF ReadTo

LEMMA CompileStep ==
    ASSUME IInv, Compile
    PROVE  IInv'
  <1>1. /\ phase' = "reading" /\ compiles' = compiles + 1 /\ script' \in Scripts
        /\ c' = 0 /\ subStart' = 0 /\ lineStart' = 0 /\ skipped' = 0
        /\ text' = <<>> /\ lines' = <<>> /\ errors' = <<>>
        /\ begin' = begin /\ reached' = reached /\ before' = before
    BY DEF Compile
  <1>2. ScriptType'
    BY <1>1, SourcesAssumption DEF ScriptType
  <1>3. Size' \in Nat
    BY <1>2 DEF ScriptType, Size
  <1>4. LineBegin(0)' = 0
    BY DEF LineBegin, NewLines
  <1>5. Count(Kept', 0) = 0 /\ Count(Feeds', 0) = 0
    BY CountNext
  <1>6. Enumerates(<<>>, Kept', 0)
    BY <1>5 DEF Enumerates
  <1>7. Ends(<<>>, Feeds', Kept', 0)
    BY EndsNone
  <1>8. ReadTo'
    <2>1. Size' = 0 => ~OpenComment'
      BY <1>3 DEF OpenComment
    <2> QED
      BY <1>1, <1>3, <1>4, <1>5, <1>6, <1>7, <2>1 DEF ReadTo
  <1>9. Reports'
    <2>1. begin \in Nat /\ reached \in Nat /\ before \in Nat
      BY DEF IInv, Reports
    <2> QED
      BY <1>1, <2>1 DEF Reports
  <1> QED
    BY <1>1, <1>2, <1>8, <1>9 DEF IInv

(* The invariant holds in every state that is reached.                      *)
THEOREM Invariance == Spec => []IInv
  <1>1. Init => IInv
    <2>1. IsFurthest(<<>>, 0, 0)
      BY NoReport
    <2> QED
      BY <2>1 DEF Init, IInv, ScriptType, Reports
  <1>2. IInv /\ [Next]_vars => IInv'
    <2> SUFFICES ASSUME IInv, [Next]_vars PROVE IInv'
      OBVIOUS
    <2>1. CASE Compile
      BY <2>1, CompileStep
    <2>2. CASE ReadComment \/ ReadChar
      <3>1. ScriptType /\ ReadTo /\ errors = <<>> /\ phase = "reading"
            /\ compiles \in Nat /\ Reports
        BY <2>2 DEF IInv, ReadComment, ReadChar
      <3>2. ReadTo'
        BY <2>2, <3>1, ReadCommentStep, ReadCharStep
      <3>3. /\ phase' = phase /\ compiles' = compiles /\ script' = script
            /\ begin' = begin /\ reached' = reached /\ errors' = errors
            /\ before' = before
        BY <2>2 DEF ReadComment, ReadChar, parsing
      <3>4. Reports'
        BY <3>1, <3>3 DEF Reports
      <3> QED
        BY <3>1, <3>2, <3>3, <3>4 DEF IInv, ScriptType
    <2>3. CASE FinishText
      <3>1. ScriptType /\ ReadTo /\ errors = <<>> /\ compiles \in Nat /\ Reports
        BY <2>3 DEF IInv, FinishText
      <3>2. Parsed'
        BY <2>3, <3>1, FinishTextStep
      <3>3. /\ phase' = "parsing" /\ compiles' = compiles /\ script' = script
            /\ begin' \in Nat /\ reached' = reached /\ errors' = errors
            /\ before' = reached
        BY <2>3, SourcesAssumption DEF FinishText
      <3>4. Reports'
        <4>1. reached \in Nat /\ reached - begin' \in Int
          BY <3>1, <3>3 DEF Reports
        <4>2. IsFurthest(<<>>, reached - begin', reached - begin')
          BY <4>1, NoReport
        <4> QED
          BY <3>1, <3>3, <4>1, <4>2 DEF Reports
      <3> QED
        BY <3>1, <3>2, <3>3, <3>4 DEF IInv, ScriptType
    <2>4. CASE ReportChar \/ ReportUnit
      <3>1. /\ phase = "parsing" /\ phase' = "parsing" /\ compiles' = compiles
            /\ script' = script /\ behind' = behind /\ text' = text /\ lines' = lines
            /\ begin' = begin /\ before' = before
        BY <2>4 DEF ReportChar, ReportUnit
      <3>2. ScriptType /\ Parsed /\ Reports /\ compiles \in Nat /\ text \in Seq(Nat)
        <4>1. ScriptType /\ Parsed /\ Reports /\ compiles \in Nat
          BY <3>1 DEF IInv
        <4>2. text \in Seq(Nat)
          BY <4>1 DEF Parsed, CodeFirst
        <4> QED
          BY <4>1, <4>2
      <3>3. \E r \in Report :
               /\ errors' = Append(errors, r)
               /\ reached' = IF r.forced THEN begin + r.at ELSE Max2(reached, begin + r.at)
        <4>1. \A k \in 0 .. Len(text) : k \in Nat
          BY <3>2
        <4>2. CASE ReportChar
          <5>1. PICK k \in 0 .. Len(text) :
                    /\ reached' = SetErrorChar(k)
                    /\ errors' = Append(errors, [at |-> k, forced |-> FALSE])
            BY <4>2 DEF ReportChar
          <5>2. [at |-> k, forced |-> FALSE] \in Report
            BY <4>1 DEF Report
          <5> QED
            BY <5>1, <5>2 DEF SetErrorChar
        <4>3. CASE ReportUnit
          <5>1. PICK k \in 0 .. Len(text) :
                    /\ reached' = begin + k
                    /\ errors' = Append(errors, [at |-> k, forced |-> TRUE])
            BY <4>3 DEF ReportUnit
          <5>2. [at |-> k, forced |-> TRUE] \in Report
            BY <4>1 DEF Report
          <5> QED
            BY <5>1, <5>2
        <4> QED
          BY <2>4, <4>2, <4>3
      <3>4. Reports'
        BY <3>1, <3>2, <3>3, ReportStep
      <3>5. Parsed'
        BY <3>1, <3>2, ParsedStays
      <3> QED
        BY <3>1, <3>2, <3>4, <3>5 DEF IInv, ScriptType
    <2>5. CASE FinishParse
      <3>1. /\ phase = "parsing" /\ phase' = "idle" /\ errors # <<>> /\ compiles' = compiles
            /\ script' = script /\ behind' = behind /\ text' = text /\ lines' = lines
            /\ begin' = begin /\ reached' = reached /\ errors' = errors
            /\ before' = before
        BY <2>5 DEF FinishParse, parsing
      <3>2. ScriptType /\ Parsed /\ Reports /\ compiles \in Nat
        BY <3>1 DEF IInv
      <3>3. Parsed'
        BY <3>1, <3>2, ParsedStays
      <3>4. Reports'
        BY <3>1, <3>2 DEF Reports
      <3> QED
        BY <3>1, <3>2, <3>3, <3>4 DEF IInv, ScriptType
    <2>6. CASE UNCHANGED vars
      <3>1. /\ phase' = phase /\ compiles' = compiles
            /\ script' = script /\ behind' = behind /\ text' = text /\ lines' = lines
            /\ begin' = begin /\ reached' = reached /\ errors' = errors
            /\ before' = before
        BY <2>6 DEF vars, parsing
      <3>2. ReadTo => ReadTo'
        BY <2>6, ReadToStays
      <3>3. Parsed => Parsed'
        BY <3>1, ParsedStays
      <3>4. Reports'
        BY <3>1 DEF IInv, Reports
      <3> QED
        BY <3>1, <3>2, <3>3, <3>4 DEF IInv, ScriptType
    <2> QED
      BY <2>1, <2>2, <2>3, <2>4, <2>5, <2>6 DEF Next
  <1> QED
    BY <1>1, <1>2, PTL DEF Spec

-----------------------------------------------------------------------------
(* The lines before that of an offset end before it, its own behind it.     *)
LEMMA LinesSeparate ==
    ASSUME ScriptType, Parsed, NEW i \in Nat, i \in Kept, i < Size
    PROVE  LET x == Count(Kept, i)
               n == Count(Feeds, i)
           IN  /\ n \in Nat /\ x \in Nat
               /\ n + 1 \in 1 .. Len(lines)
               /\ lines[n + 1] > x
               /\ \A k \in 1 .. n : lines[k] =< x
               /\ IF n = 0 THEN LineBegin(i) = 0
                  ELSE lines[n] = Count(Kept, LineBegin(i))
  <1> DEFINE x == Count(Kept, i)
             n == Count(Feeds, i)
             all == Count(Feeds, Size)
  <1>1. /\ Size \in Nat /\ x \in Nat /\ n \in Nat /\ all \in Nat /\ n <= all
        /\ x < Count(Kept, Size)
    BY TheScript, CountType, CountGrows
  <1>2. /\ lines \in Seq(Nat) /\ Len(lines) >= all
        /\ \A k \in 1 .. all : \E j \in 0 .. Size - 1 :
              /\ j \in Feeds /\ Count(Feeds, j) = k - 1
              /\ lines[k] = Count(Kept, j + 1)
    BY DEF Parsed, Ends
  <1>3. LineBegin(i) \in 0 .. i
    BY LineBegins
  <1>4. ASSUME NEW k \in 1 .. n
        PROVE  /\ lines[k] =< x
               /\ k = n => lines[k] = Count(Kept, LineBegin(i))
    <2>1. PICK j \in 0 .. Size - 1 :
              /\ j \in Feeds /\ Count(Feeds, j) = k - 1
              /\ lines[k] = Count(Kept, j + 1)
      <3>1. k \in 1 .. all
        <4> HIDE DEF n, all
        <4> QED
          BY <1>1
      <3> HIDE DEF all
      <3> QED
        BY <3>1, <1>2
    <2>2. j \in Nat /\ j < i
      <3>1. j \in Nat
        OBVIOUS
      <3>2. i <= j => n <= Count(Feeds, j)
        BY <3>1, CountGrows
      <3> QED
        BY <3>1, <3>2, <2>1, <1>1
    <2>3. Count(Kept, j + 1) <= x
      BY <2>2, CountGrows
    <2>4. ASSUME k = n
          PROVE  LineBegin(i) = j + 1
      <3>1. j + 1 \in 0 .. i /\ (j + 1) - 1 = j
        BY <2>2
      <3>2. ASSUME NEW y \in j + 1 .. i - 1, y \in Feeds
            PROVE  FALSE
        <4>1. y \in Nat /\ j < y /\ y < i
          BY <2>2
        <4>2. Count(Feeds, j) < Count(Feeds, y) /\ Count(Feeds, y) < n
          BY <4>1, <2>1, <2>2, <3>2, CountGrows
        <4>3. Count(Feeds, y) \in Nat
          BY <4>1, CountType
        <4> QED
          BY <4>2, <4>3, <2>1, <2>4, <1>1
      <3> QED
        BY <3>1, <3>2, <2>1, LineBeginIs
    <2> QED
      BY <2>1, <2>3, <2>4
  <1>5. n + 1 \in 1 .. Len(lines) /\ lines[n + 1] > x
    <2>1. CASE n < all
      <3>1. n + 1 \in 1 .. all
        BY <1>1, <2>1
      <3>2. PICK j \in 0 .. Size - 1 :
                /\ j \in Feeds /\ Count(Feeds, j) = n
                /\ lines[n + 1] = Count(Kept, j + 1)
        <4> HIDE DEF n, all
        <4>1. (n + 1) - 1 = n
          BY <1>1
        <4>2. \E j \in 0 .. Size - 1 :
                 /\ j \in Feeds /\ Count(Feeds, j) = (n + 1) - 1
                 /\ lines[n + 1] = Count(Kept, j + 1)
          BY <3>1, <1>2
        <4> QED
          BY <4>1, <4>2
      <3>3. j \in Nat /\ i <= j
        <4>1. j \in Nat
          OBVIOUS
        <4>2. j < i => Count(Feeds, j) < n
          BY <4>1, <3>2, CountGrows
        <4> QED
          BY <4>1, <4>2, <3>2, <1>1
      <3>4. i < j + 1 /\ j + 1 \in Nat
        BY <3>3
      <3>5. x < Count(Kept, j + 1)
        BY <3>4, CountGrows
      <3>6. Count(Kept, j + 1) \in Nat
        BY <3>4, CountType
      <3> QED
        BY <3>1, <3>2, <3>5, <3>6, <1>1, <1>2
    <2>2. CASE n = all
      <3>1. ASSUME NEW y \in i .. Size - 1, y \in Feeds
            PROVE  FALSE
        <4>1. y \in Nat /\ i <= y /\ y < Size
          BY <1>1
        <4>2. n <= Count(Feeds, y) /\ Count(Feeds, y) < all
          BY <4>1, <1>1, <3>1, CountGrows
        <4>3. Count(Feeds, y) \in Nat
          BY <4>1, CountType
        <4> QED
          BY <4>2, <4>3, <2>2, <1>1
      <3>2. LineBegin(Size) = LineBegin(i)
        BY <3>1, <1>1, LineBeginStays
      <3>3. LineBegin(Size) < Size
        BY <3>2, <1>1, <1>3
      <3>4. Len(lines) = n + 1 /\ lines[n + 1] = Count(Kept, Size)
        BY <3>3, <2>2 DEF Parsed
      <3>5. Count(Kept, Size) \in Nat
        BY <1>1, CountType
      <3> QED
        BY <3>4, <3>5, <1>1
    <2> QED
      BY <2>1, <2>2, <1>1
  <1>6. n = 0 => LineBegin(i) = 0
    <2> SUFFICES ASSUME n = 0, LineBegin(i) > 0 PROVE FALSE
      BY <1>3
    <2> DEFINE y == LineBegin(i) - 1
    <2>1. y \in Feeds /\ y \in Nat /\ y < i
      BY <1>3, LineBegins
    <2>2. Count(Feeds, y) < n /\ Count(Feeds, y) \in Nat
      <3> HIDE DEF y
      <3> QED
        BY <2>1, CountGrows, CountType
    <2> HIDE DEF y
    <2> QED
      BY <2>2
  <1>7. n # 0 => n \in 1 .. n
    BY <1>1
  <1> HIDE DEF x, n, all
  <1>8. /\ n \in Nat /\ x \in Nat
        /\ n + 1 \in 1 .. Len(lines)
        /\ lines[n + 1] > x
        /\ \A k \in 1 .. n : lines[k] =< x
        /\ IF n = 0 THEN LineBegin(i) = 0
           ELSE lines[n] = Count(Kept, LineBegin(i))
    BY <1>1, <1>4, <1>5, <1>6, <1>7
  <1> QED
    BY <1>8 DEF x, n

(* The way back leads to the line and column of each character of the text. *)
LEMMA WayBack ==
    ASSUME ScriptType, Parsed, NEW i \in Nat, i \in Kept, i < Size
    PROVE  OriginalPosition(Count(Kept, i)) = InScript(i)
  <1> DEFINE x == Count(Kept, i)
             n == Count(Feeds, i)
             begins == LineBegin(i)
  <1>1. /\ n \in Nat /\ x \in Nat
        /\ n + 1 \in 1 .. Len(lines)
        /\ lines[n + 1] > x
        /\ \A k \in 1 .. n : lines[k] =< x
        /\ IF n = 0 THEN begins = 0 ELSE lines[n] = Count(Kept, begins)
    BY LinesSeparate
  <1>2. lines \in Seq(Nat)
    BY DEF Parsed, Ends
  <1>3. begins \in 0 .. i
    BY LineBegins
  <1>4. InScript(i) = [line |-> n, column |-> x - Count(Kept, begins)]
    <2>1. Cardinality(NewLines(i)) = n
      BY NewLinesAreFeeds
    <2>2. {j \in begins .. i - 1 : ~InComment(j)} = {j \in begins .. i - 1 : j \in Kept}
      BY <1>3 DEF Kept
    <2>3. Cardinality({j \in begins .. i - 1 : j \in Kept}) = x - Count(Kept, begins)
      BY <1>3, CountBetween
    <2> QED
      BY <2>1, <2>2, <2>3 DEF InScript
  <1>5. Count(Kept, begins) = IF n + 1 = 1 THEN 0 ELSE lines[(n + 1) - 1]
    BY <1>1, CountNext
  <1> DEFINE after == {k \in DOMAIN lines : lines[k] > x}
             line == CHOOSE k \in after : \A j \in after : k =< j
  <1> HIDE DEF x, n, begins
  <1>6. n + 1 \in after /\ \A j \in after : n + 1 =< j /\ j \in Nat
    <2>1. DOMAIN lines = 1 .. Len(lines) /\ \A k \in 1 .. Len(lines) : lines[k] \in Nat
      BY <1>2
    <2>2. ASSUME NEW j \in after
          PROVE  n + 1 =< j /\ j \in Nat
      <3>1. j \in 1 .. Len(lines) /\ lines[j] > x /\ lines[j] \in Nat
        BY <2>1
      <3>2. j \in 1 .. n => lines[j] =< x
        BY <1>1
      <3> QED
        BY <3>1, <3>2, <1>1
    <2> QED
      BY <2>1, <2>2, <1>1
  <1>7. line = n + 1
    <2> HIDE DEF after
    <2>1. \A k \in after : (\A j \in after : k =< j) <=> k = n + 1
      BY <1>1, <1>6
    <2> QED
      BY <2>1, <1>6
  <1>8. after # {} /\ ~(x < 0) /\ lines # <<>>
    <2> HIDE DEF after
    <2>1. lines # <<>>
      BY <1>1, <1>2
    <2> QED
      BY <2>1, <1>1, <1>6
  <1>9. OriginalPosition(x) =
            [line |-> line - 1,
             column |-> x - (IF line = 1 THEN 0 ELSE lines[line - 1])]
    BY <1>8 DEF OriginalPosition
  <1> HIDE DEF line, after
  <1>10. OriginalPosition(x) = [line |-> n, column |-> x - Count(Kept, begins)]
    BY <1>1, <1>5, <1>7, <1>9
  <1>11. OriginalPosition(x) = InScript(i)
    BY <1>4, <1>10
  <1> QED
    BY <1>11 DEF x

(* Behind the code there is no line any more: the end of the script.        *)
LEMMA BehindTheCode ==
    ASSUME ScriptType, Parsed, NEW x \in Nat, Count(Kept, Size) =< x
    PROVE  OriginalPosition(x) = EndOfScript
  <1> DEFINE all == Count(Feeds, Size)
             size == Count(Kept, Size)
             after == {k \in DOMAIN lines : lines[k] > x}
  <1>1. Size \in Nat /\ all \in Nat /\ size \in Nat /\ LineBegin(Size) \in 0 .. Size
    BY TheScript, CountType, LineBegins
  <1>2. /\ lines \in Seq(Nat) /\ Len(lines) >= all
        /\ \A k \in 1 .. all : \E j \in 0 .. Size - 1 : lines[k] = Count(Kept, j + 1)
    BY DEF Parsed, Ends
  <1>3. IF LineBegin(Size) < Size THEN Len(lines) = all + 1 /\ lines[Len(lines)] = size
        ELSE Len(lines) = all
    BY DEF Parsed
  <1>4. \A k \in 1 .. all : lines[k] =< size
    <2> SUFFICES ASSUME NEW k \in 1 .. all PROVE lines[k] =< size
      OBVIOUS
    <2>1. PICK j \in 0 .. Size - 1 : lines[k] = Count(Kept, j + 1)
      <3> HIDE DEF all
      <3> QED
        BY <1>2
    <2>2. j + 1 \in Nat /\ j + 1 <= Size
      BY <1>1
    <2>3. Count(Kept, j + 1) <= size
      BY <2>2, <1>1, CountGrows
    <2> QED
      BY <2>1, <2>3
  <1>5. Cardinality(NewLines(Size)) = all
    BY <1>1, NewLinesAreFeeds
  <1>6. lines = <<>> <=> Size = 0
    <2>1. CASE Size = 0
      <3>1. all = 0
        BY <2>1, CountNext
      <3> QED
        BY <3>1, <2>1, <1>1, <1>2, <1>3
    <2>2. CASE Size # 0
      <3>1. CASE LineBegin(Size) < Size
        BY <3>1, <2>2, <1>1, <1>2, <1>3
      <3>2. CASE ~(LineBegin(Size) < Size)
        <4> DEFINE y == LineBegin(Size) - 1
        <4>1. y \in Feeds /\ y \in Nat /\ y < Size
          BY <3>2, <2>2, <1>1, LineBegins
        <4>2. Count(Feeds, y) < all /\ Count(Feeds, y) \in Nat
          <5> HIDE DEF y
          <5> QED
            BY <4>1, <1>1, CountGrows, CountType
        <4> HIDE DEF y, all
        <4>3. all > 0
          BY <4>2, <1>1
        <4> QED
          BY <4>3, <3>2, <2>2, <1>1, <1>2, <1>3
      <3> QED
        BY <3>1, <3>2
    <2> QED
      BY <2>1, <2>2
  <1> HIDE DEF all, size
  <1>7. after = {}
    <2>1. ASSUME NEW k \in 1 .. Len(lines)
          PROVE  lines[k] =< size /\ lines[k] \in Nat
      BY <1>1, <1>2, <1>3, <1>4
    <2>2. DOMAIN lines = 1 .. Len(lines)
      BY <1>2
    <2>3. size =< x
      BY DEF size
    <2> QED
      BY <2>1, <2>2, <2>3, <1>1
  <1>8. Len(lines) = all + (IF LineBegin(Size) < Size THEN 1 ELSE 0)
    BY <1>1, <1>3
  <1>9. OriginalPosition(x) = IF lines = <<>> THEN [line |-> -1, column |-> -1]
                              ELSE [line |-> Len(lines), column |-> 0]
    <2>1. ~(x < 0)
      OBVIOUS
    <2> QED
      BY <1>7, <2>1 DEF OriginalPosition
  <1> QED
    BY <1>5, <1>6, <1>8, <1>9 DEF EndOfScript

(* For all scripts, addresses and numbers of compilations: what is parsed   *)
(* is the script without its comments, each character of it leads back to   *)
(* its line and column, and the furthest error is shown there; of an open   *)
(* comment's leftovers the end of the script is shown.                      *)
THEOREM ErrorsAreShown == Spec => []ErrorsAreShownWhereTheyAre
  <1>1. IInv => ErrorsAreShownWhereTheyAre
    <2> SUFFICES ASSUME IInv, phase = "idle", compiles > 0
                 PROVE  MapsBack /\ ShowsFurthest
      BY DEF ErrorsAreShownWhereTheyAre
    <2>1. ScriptType /\ Parsed /\ Reports /\ Size \in Nat /\ errors # <<>>
      BY TheScript DEF IInv, Reports
    <2>2. PICK code \in Seq(Nat), rest \in Seq(Nat) :
              /\ text = code \o rest
              /\ Enumerates(code, Kept, Size)
              /\ ~OpenComment => rest = <<>>
      BY <2>1 DEF Parsed, CodeFirst
    <2>3. CodeSize = Count(Kept, Size) /\ CodeSize = Len(code) /\ CodeSize \in Nat
      <3>1. {i \in 0 .. Size - 1 : ~InComment(i)} = Below(Kept, Size)
        BY <2>1 DEF Kept, Below
      <3>2. CodeSize = Count(Kept, Size)
        BY <3>1 DEF CodeSize, Count
      <3>3. Len(code) = Count(Kept, Size) /\ Len(code) \in Nat
        BY <2>2 DEF Enumerates
      <3> QED
        BY <3>2, <3>3
    <2>4. /\ \A k \in 1 .. CodeSize : text[k] = code[k]
          /\ Len(text) = CodeSize + Len(rest) /\ Len(rest) \in Nat
          /\ SubSeq(text, 1, CodeSize) = code
      <3> HIDE DEF CodeSize
      <3>1. /\ \A k \in 1 .. CodeSize : text[k] = code[k]
            /\ Len(text) = CodeSize + Len(rest) /\ Len(rest) \in Nat
            /\ text \in Seq(Nat)
        BY <2>2, <2>3
      <3>2. SubSeq(text, 1, CodeSize) = [k \in 1 .. CodeSize |-> text[k]]
        BY <3>1, <2>3
      <3>3. code = [k \in 1 .. CodeSize |-> code[k]]
        BY <2>3
      <3>4. SubSeq(text, 1, CodeSize) = [k \in 1 .. CodeSize |-> code[k]]
        BY <3>1, <3>2
      <3> QED
        BY <3>1, <3>3, <3>4
    <2>5. \A k \in 1 .. CodeSize :
              /\ text[k] \in Nat /\ text[k] \in Kept /\ text[k] < Size
              /\ Count(Kept, text[k]) = k - 1
      <3> HIDE DEF CodeSize
      <3> QED
        BY <2>2, <2>3, <2>4 DEF Enumerates
    <2>6. ASSUME NEW k \in 1 .. CodeSize
          PROVE  OriginalPosition(k - 1) = InScript(text[k])
      <3> HIDE DEF CodeSize
      <3>1. OriginalPosition(Count(Kept, text[k])) = InScript(text[k])
        BY <2>1, <2>5, WayBack
      <3> QED
        BY <3>1, <2>5
    <2>7. IsCode(code)
      <3>1. /\ {code[k] : k \in DOMAIN code} = {i \in 0 .. Size - 1 : i \in Kept}
            /\ \A k, l \in DOMAIN code : k < l => code[k] < code[l]
        BY <2>1, <2>2, EnumeratesInOrder
      <3>2. {i \in 0 .. Size - 1 : i \in Kept} = {i \in 0 .. Size - 1 : ~InComment(i)}
        BY <2>1 DEF Kept
      <3> QED
        BY <3>1, <3>2 DEF IsCode
    <2>8. MapsBack
      <3>1. ~OpenComment => Len(text) = CodeSize
        BY <2>2, <2>3
      <3> HIDE DEF CodeSize
      <3>2. CodeSize =< Len(text)
        BY <2>3, <2>4
      <3>3. IsCode(SubSeq(text, 1, CodeSize))
        BY <2>4, <2>7
      <3> QED
        BY <3>1, <3>2, <3>3, <2>6 DEF MapsBack
    <2>9. ShowsFurthest
      <3> DEFINE k == reached - begin
      <3>1. /\ errors \in Seq(Report) /\ reached \in Nat /\ begin \in Nat
            /\ before \in Nat /\ k \in Int
            /\ IsFurthest(errors, before - begin, k)
        BY <2>1 DEF Reports
      <3>2. Furthest = k
        BY <3>1, FurthestIs
      <3>3. k \in Nat
        <4>1. \A i \in DOMAIN errors : errors[i].at \in Nat
          <5>1. \A i \in DOMAIN errors : errors[i] \in Report
            BY <3>1
          <5> QED
            BY <5>1 DEF Report
        <4>2. Len(errors) \in Since(errors)
          <5>1. Len(errors) \in Nat \ {0} /\ DOMAIN errors = 1 .. Len(errors)
            BY <3>1, <2>1
          <5> QED
            BY <5>1 DEF Since
        <4>3. errors[Len(errors)].at =< k /\ errors[Len(errors)].at \in Nat
          <5>1. Len(errors) \in DOMAIN errors
            BY <4>2 DEF Since
          <5> HIDE DEF k
          <5> QED
            BY <5>1, <4>1, <4>2, <3>1 DEF IsFurthest
        <4> QED
          BY <4>3, <3>1
      <3>4. LastCompiledPosition = OriginalPosition(k)
        BY DEF LastCompiledPosition
      <3> HIDE DEF k, CodeSize
      <3>5. ASSUME k < CodeSize
            PROVE  OriginalPosition(k) = InScript(text[k + 1])
        <4>1. k + 1 \in 1 .. CodeSize /\ (k + 1) - 1 = k
          BY <3>3, <3>5, <2>3
        <4>2. OriginalPosition((k + 1) - 1) = InScript(text[k + 1])
          BY <4>1, <2>6
        <4> QED
          BY <4>1, <4>2
      <3>6. ASSUME ~(k < CodeSize)
            PROVE  OriginalPosition(k) = EndOfScript
        <4>1. Count(Kept, Size) =< k
          BY <3>3, <3>6, <2>3
        <4> QED
          BY <4>1, <2>1, <3>3, BehindTheCode
      <3> QED
        BY <3>2, <3>4, <3>5, <3>6 DEF ShowsFurthest
    <2> QED
      BY <2>8, <2>9
  <1> QED
    BY <1>1, Invariance, PTL
=============================================================================
