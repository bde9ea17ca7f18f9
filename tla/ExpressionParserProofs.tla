----------------------- MODULE ExpressionParserProofs -----------------------
(***************************************************************************)
(* The parser of ExpressionParser keeps its types and advances, and no     *)
(* operand of an accepted expression is lost, doubled or moved: for all    *)
(* sequences of tokens and trees of any depth.                             *)
(***************************************************************************)
EXTENDS ExpressionParser, FiniteSetTheorems, WellFoundedInduction,
        SequenceTheorems, TLAPS
-----------------------------------------------------------------------------
(* Induction, over the natural numbers and over sequences.                 *)

(* A set of natural numbers that is not empty has a least element: strict  *)
(* inclusion of the intervals 1..n is well-founded.                        *)
LEMMA Least ==
    ASSUME NEW T \in SUBSET Nat, T # {}
    PROVE  \E m \in T : \A k \in T : m <= k
  <1> DEFINE I == {1..n : n \in T}
  <1>1. IsWellFoundedOn(StrictSubsetOrdering(Nat), FiniteSubsetsOf(Nat))
    BY FS_StrictSubsetOrderingWellFounded
  <1>2. I \subseteq FiniteSubsetsOf(Nat)
    <2>1. \A n \in T : IsFiniteSet(1..n)
      BY FS_Interval
    <2> QED
      BY <2>1 DEF FiniteSubsetsOf
  <1>3. I # {}
    OBVIOUS
  <1>4. PICK x \in I : \A y \in I : ~(<<y, x>> \in StrictSubsetOrdering(Nat))
    <2> HIDE DEF I
    <2> QED
      BY <1>1, <1>2, <1>3, WFMin
  <1>5. PICK m \in T : x = 1..m
    OBVIOUS
  <1>6. ASSUME NEW k \in T, k < m
        PROVE  FALSE
    <2>1. 1..k \in I /\ x \in SUBSET Nat /\ 1..k \in SUBSET Nat
      BY <1>5
    <2>2. 1..k \subseteq 1..m /\ m \notin 1..k /\ m \in 1..m
      BY <1>6
    <2>3. <<1..k, x>> \in StrictSubsetOrdering(Nat)
      BY <2>1, <2>2, <1>5 DEF StrictSubsetOrdering
    <2> QED
      BY <2>3, <2>1, <1>4
  <1> QED
    BY <1>6

(* A set that has 0 and with n also n + 1 has every natural number.        *)
LEMMA Induct ==
    ASSUME NEW T, 0 \in T, \A n \in Nat : n \in T => n + 1 \in T
    PROVE  Nat \subseteq T
  <1> SUFFICES ASSUME Nat \ T # {} PROVE FALSE
    OBVIOUS
  <1>1. PICK m \in Nat \ T : \A k \in Nat \ T : m <= k
    BY Least
  <1>2. m # 0 /\ m - 1 \in Nat /\ (m - 1) + 1 = m
    BY <1>1
  <1>3. m - 1 \in T
    BY <1>1, <1>2
  <1> QED
    BY <1>1, <1>2, <1>3

(* What holds of the empty sequence and, with a sequence, of each longer   *)
(* one holds of all.                                                       *)
LEMMA SequenceInduct ==
    ASSUME NEW S, NEW T, <<>> \in T,
           \A s \in Seq(S) : s \in T => \A x \in S : Append(s, x) \in T
    PROVE  Seq(S) \subseteq T
  <1> DEFINE N == {n \in Nat : \A s \in Seq(S) : Len(s) = n => s \in T}
  <1>1. 0 \in N
    BY EmptySeq
  <1>2. ASSUME NEW n \in Nat, n \in N
        PROVE  n + 1 \in N
    <2> SUFFICES ASSUME NEW s \in Seq(S), Len(s) = n + 1
                 PROVE  s \in T
      OBVIOUS
    <2> DEFINE front == SubSeq(s, 1, n)
    <2>1. front \in Seq(S) /\ Len(front) = n /\ s[n + 1] \in S
      OBVIOUS
    <2>2. s = Append(front, s[n + 1])
      OBVIOUS
    <2>3. front \in T
      BY <1>2, <2>1
    <2> QED
      BY <2>1, <2>2, <2>3
  <1>3. Nat \subseteq N
    <2> HIDE DEF N
    <2> QED
      BY <1>1, <1>2, Induct
  <1> QED
    BY <1>3
-----------------------------------------------------------------------------
(* Sequences laid behind each other.                                       *)

(* The sequences up to the i-th, laid behind each other.                   *)
Laid(seqs, f, n) ==
    /\ f = [i \in 1..n |-> f[i]]
    /\ \A i \in 1..n : f[i] = IF i = 1 THEN seqs[i] ELSE f[i - 1] \o seqs[i]

LEMMA LaidExists ==
    ASSUME NEW S, NEW seqs \in Seq(Seq(S)), NEW n \in Nat, n + 1 <= Len(seqs)
    PROVE  \E f : Laid(seqs, f, n + 1)
  <1> DEFINE T == {m \in Nat : \E f : Laid(seqs, f, m + 1)}
  <1>1. 0 \in T
    <2> DEFINE f == [i \in 1..1 |-> seqs[1]]
    <2>1. Laid(seqs, f, 1)
      BY DEF Laid
    <2> QED
      BY <2>1
  <1>2. ASSUME NEW m \in Nat, m \in T
        PROVE  m + 1 \in T
    <2>1. PICK f : Laid(seqs, f, m + 1)
      BY <1>2
    <2> DEFINE k == (m + 1) + 1
               g == [i \in 1..k |-> IF i = k THEN f[m + 1] \o seqs[k] ELSE f[i]]
    <2>2. ASSUME NEW i \in 1..k
          PROVE  g[i] = IF i = 1 THEN seqs[i] ELSE g[i - 1] \o seqs[i]
      <3>1. CASE i = k
        <4>1. k # 1 /\ m + 1 \in 1..k /\ k \in 1..k /\ m + 1 # k /\ k - 1 = m + 1
          OBVIOUS
        <4>2. g[m + 1] = f[m + 1] /\ g[k] = f[m + 1] \o seqs[k]
          <5> HIDE DEF k
          <5> QED
            BY <4>1
        <4> QED
          BY <3>1, <4>1, <4>2
      <3>2. CASE i # k
        <4>1. i \in 1..(m + 1) /\ g[i] = f[i]
          BY <3>2
        <4>2. i # 1 => i - 1 \in 1..k /\ i - 1 # k /\ g[i - 1] = f[i - 1]
          BY <3>2
        <4> QED
          BY <2>1, <4>1, <4>2 DEF Laid
      <3> QED
        BY <3>1, <3>2
    <2>3. g = [i \in 1..k |-> g[i]]
      OBVIOUS
    <2>4. Laid(seqs, g, k)
      <3> HIDE DEF g
      <3> QED
        BY <2>2, <2>3 DEF Laid
    <2> QED
      BY <2>4
  <1>3. Nat \subseteq T
    <2> HIDE DEF T
    <2> QED
      BY <1>1, <1>2, Induct
  <1> QED
    BY <1>3

(* There is one way to lay them, and FlattenSeq is its end.                *)
LEMMA LaidIsFlattened ==
    ASSUME NEW S, NEW seqs \in Seq(Seq(S)), seqs # <<>>,
           NEW f, Laid(seqs, f, Len(seqs))
    PROVE  FlattenSeq(seqs) = f[Len(seqs)] /\ \A i \in 1..Len(seqs) : f[i] \in Seq(S)
  <1> DEFINE n == Len(seqs)
             c == CHOOSE g : g = [i \in 1..n |-> IF i = 1 THEN seqs[i] ELSE g[i - 1] \o seqs[i]]
  <1>0. n \in Nat \ {0} /\ \A i \in 1..n : seqs[i] \in Seq(S)
    OBVIOUS
  <1>1. f = [i \in 1..n |-> IF i = 1 THEN seqs[i] ELSE f[i - 1] \o seqs[i]]
    BY DEF Laid
  <1>2. c = [i \in 1..n |-> IF i = 1 THEN seqs[i] ELSE c[i - 1] \o seqs[i]]
    BY <1>1
  <1>3. FlattenSeq(seqs) = c[n]
    BY <1>0 DEF FlattenSeq
  <1> HIDE DEF c, n
  <1> DEFINE T == {i \in Nat : i + 1 \in 1..n => c[i + 1] = f[i + 1] /\ f[i + 1] \in Seq(S)}
  <1>4. 0 \in T
    BY <1>0, <1>1, <1>2
  <1>5. ASSUME NEW i \in Nat, i \in T
        PROVE  i + 1 \in T
    <2> SUFFICES ASSUME (i + 1) + 1 \in 1..n
                 PROVE  c[(i + 1) + 1] = f[(i + 1) + 1] /\ f[(i + 1) + 1] \in Seq(S)
      OBVIOUS
    <2>1. i + 1 \in 1..n /\ ((i + 1) + 1) - 1 = i + 1 /\ (i + 1) + 1 # 1
      BY <1>0
    <2>2. c[i + 1] = f[i + 1] /\ f[i + 1] \in Seq(S)
      BY <1>5, <2>1
    <2>3. /\ c[(i + 1) + 1] = c[i + 1] \o seqs[(i + 1) + 1]
          /\ f[(i + 1) + 1] = f[i + 1] \o seqs[(i + 1) + 1]
      BY <1>1, <1>2, <2>1
    <2>4. seqs[(i + 1) + 1] \in Seq(S)
      BY <1>0
    <2> QED
      BY <2>2, <2>3, <2>4
  <1>6. Nat \subseteq T
    <2> HIDE DEF T
    <2> QED
      BY <1>4, <1>5, Induct
  <1>7. \A i \in 1..n : c[i] = f[i] /\ f[i] \in Seq(S)
    <2> TAKE i \in 1..n
    <2>1. i - 1 \in Nat /\ (i - 1) + 1 = i
      BY <1>0
    <2>2. i - 1 \in T
      BY <1>6, <2>1
    <2> QED
      BY <2>1, <2>2
  <1> QED
    BY <1>0, <1>3, <1>7 DEF n

(* Nothing laid behind each other is nothing; a sequence put behind others  *)
(* is laid behind them.                                                    *)
LEMMA FlattenEmpty == FlattenSeq(<<>>) = <<>>
  BY DEF FlattenSeq

LEMMA FlattenType ==
    ASSUME NEW S, NEW seqs \in Seq(Seq(S))
    PROVE  FlattenSeq(seqs) \in Seq(S)
  <1>1. CASE seqs = <<>>
    BY <1>1, FlattenEmpty, EmptySeq
  <1>2. CASE seqs # <<>>
    <2>1. Len(seqs) - 1 \in Nat /\ (Len(seqs) - 1) + 1 = Len(seqs)
      BY <1>2
    <2>2. PICK f : Laid(seqs, f, Len(seqs))
      BY <2>1, LaidExists
    <2> QED
      BY <1>2, <2>1, <2>2, LaidIsFlattened
  <1> QED
    BY <1>1, <1>2

LEMMA FlattenAppend ==
    ASSUME NEW S, NEW seqs \in Seq(Seq(S)), NEW x \in Seq(S)
    PROVE  FlattenSeq(Append(seqs, x)) = FlattenSeq(seqs) \o x
  <1> DEFINE n == Len(seqs)
             all == Append(seqs, x)
  <1>0. /\ n \in Nat /\ all \in Seq(Seq(S)) /\ Len(all) = n + 1
        /\ all # <<>> /\ all[n + 1] = x /\ \A i \in 1..n : all[i] = seqs[i]
    <2>1. n \in Nat
      OBVIOUS
    <2>2. all \in Seq(Seq(S)) /\ Len(all) = n + 1
      BY AppendProperties
    <2>3. all # <<>>
      <3> HIDE DEF all, n
      <3>1. Len(all) # 0
        BY <2>1, <2>2
      <3> QED
        BY <3>1
    <2> QED
      BY <2>1, <2>2, <2>3, AppendProperties
  <1>1. PICK f : Laid(all, f, n + 1)
    <2> HIDE DEF all, n
    <2> QED
      BY <1>0, LaidExists
  <1>2. FlattenSeq(all) = f[n + 1]
    <2> HIDE DEF all, n
    <2> QED
      BY <1>0, <1>1, LaidIsFlattened
  <1>3. CASE n = 0
    <2>1. seqs = <<>> /\ f[1] = x
      BY <1>0, <1>1, <1>3 DEF Laid
    <2> QED
      BY <1>2, <1>3, <2>1, FlattenEmpty
  <1>4. CASE n # 0
    <2> DEFINE g == [i \in 1..n |-> f[i]]
    <2>1. \A i \in 1..n : f[i] = IF i = 1 THEN seqs[i] ELSE f[i - 1] \o seqs[i]
      <3> TAKE i \in 1..n
      <3>1. i \in 1..(n + 1)
        BY <1>0
      <3> HIDE DEF all
      <3> QED
        BY <1>0, <1>1, <3>1 DEF Laid
    <2>2. ASSUME NEW i \in 1..n
          PROVE  g[i] = IF i = 1 THEN seqs[i] ELSE g[i - 1] \o seqs[i]
      <3>1. i # 1 => i - 1 \in 1..n
        BY <1>0
      <3> QED
        BY <2>1, <3>1
    <2>3. Laid(seqs, g, n)
      <3>1. g = [i \in 1..n |-> g[i]]
        OBVIOUS
      <3> HIDE DEF g
      <3> QED
        BY <2>2, <3>1 DEF Laid
    <2>4. FlattenSeq(seqs) = g[n]
      <3>1. seqs # <<>>
        BY <1>4
      <3> HIDE DEF g
      <3> QED
        BY <2>3, <3>1, LaidIsFlattened
    <2>5. f[n + 1] = f[n] \o x
      <3>1. n + 1 \in 1..(n + 1) /\ n + 1 # 1 /\ (n + 1) - 1 = n
        BY <1>0, <1>4
      <3> HIDE DEF all
      <3> QED
        BY <1>0, <1>1, <3>1 DEF Laid
    <2>6. g[n] = f[n]
      BY <1>0, <1>4
    <2> QED
      BY <1>2, <2>4, <2>5, <2>6
  <1> QED
    BY <1>3, <1>4

LEMMA FlattenOne ==
    ASSUME NEW S, NEW x \in Seq(S)
    PROVE  FlattenSeq(<<x>>) = x
  <1>1. <<x>> = Append(<<>>, x) /\ <<>> \in Seq(Seq(S)) /\ <<>> \o x = x
    OBVIOUS
  <1> QED
    BY <1>1, FlattenAppend, FlattenEmpty

LEMMA FlattenConcat ==
    ASSUME NEW S, NEW s \in Seq(Seq(S)), NEW t \in Seq(Seq(S))
    PROVE  FlattenSeq(s \o t) = FlattenSeq(s) \o FlattenSeq(t)
  <1> DEFINE T == {u \in Seq(Seq(S)) : FlattenSeq(s \o u) = FlattenSeq(s) \o FlattenSeq(u)}
  <1>0. FlattenSeq(s) \in Seq(S)
    BY FlattenType
  <1>1. <<>> \in T
    BY <1>0, FlattenEmpty
  <1>2. ASSUME NEW u \in Seq(Seq(S)), u \in T, NEW x \in Seq(S)
        PROVE  Append(u, x) \in T
    <2>1. s \o Append(u, x) = Append(s \o u, x) /\ s \o u \in Seq(Seq(S))
      OBVIOUS
    <2>2. FlattenSeq(s \o Append(u, x)) = FlattenSeq(s \o u) \o x
      BY <2>1, FlattenAppend
    <2>3. FlattenSeq(Append(u, x)) = FlattenSeq(u) \o x
      BY FlattenAppend
    <2>4. FlattenSeq(u) \in Seq(S)
      BY FlattenType
    <2>5. FlattenSeq(s \o u) = FlattenSeq(s) \o FlattenSeq(u)
      BY <1>2
    <2>6. (FlattenSeq(s) \o FlattenSeq(u)) \o x = FlattenSeq(s) \o (FlattenSeq(u) \o x)
      BY <1>0, <2>4, ConcatAssociative
    <2>7. Append(u, x) \in Seq(Seq(S))
      OBVIOUS
    <2>8. FlattenSeq(s \o Append(u, x)) = FlattenSeq(s) \o FlattenSeq(Append(u, x))
      BY <2>2, <2>3, <2>5, <2>6
    <2> QED
      BY <2>7, <2>8
  <1>3. Seq(Seq(S)) \subseteq T
    <2> HIDE DEF T
    <2> QED
      BY <1>1, <1>2, SequenceInduct
  <1> QED
    BY <1>3
-----------------------------------------------------------------------------
(* Trees and their levels.                                                 *)

Op == DOMAIN Priority \union Operand \union {"(", "{", "[", ",", "round", "curly", "square"}

Units == [op : Op, i : Nat, args : {<<>>}]

(* Some trees: the units, and trees of trees.                              *)
AreTrees(S) ==
    /\ Units \subseteq S
    /\ S \subseteq [op : Op \union {"none", "params"}, i : Nat, args : Seq(S)]
    /\ \A x \in S : IsOperand(x) => x.args = <<>>

Openings(nodes) ==
    [j \in 1..Len(nodes) |-> IF nodes[j].args = <<>> THEN <<nodes[j]>> ELSE nodes[j].args]

IndexOf(node) == IF IsValue(node) THEN <<node.i>> ELSE <<>>

LEMMA OpeningsType ==
    ASSUME NEW S, AreTrees(S), NEW nodes \in Seq(S)
    PROVE  Openings(nodes) \in Seq(Seq(S)) /\ Len(Openings(nodes)) = Len(nodes)
  <1>1. ASSUME NEW j \in 1..Len(nodes)
        PROVE  (IF nodes[j].args = <<>> THEN <<nodes[j]>> ELSE nodes[j].args) \in Seq(S)
    <2>1. nodes[j] \in S
      OBVIOUS
    <2>2. nodes[j].args \in Seq(S)
      BY <2>1 DEF AreTrees
    <2> QED
      BY <2>1, <2>2
  <1> QED
    BY <1>1 DEF Openings

LEMMA OpenedType ==
    ASSUME NEW S, AreTrees(S), NEW nodes \in Seq(S)
    PROVE  Opened(nodes) \in Seq(S)
  BY OpeningsType, FlattenType DEF Opened, Openings

LEMMA OpenedConcat ==
    ASSUME NEW S, AreTrees(S), NEW a \in Seq(S), NEW b \in Seq(S)
    PROVE  Opened(a \o b) = Opened(a) \o Opened(b)
  <1>1. Openings(a \o b) = Openings(a) \o Openings(b)
    <2>1. /\ a \o b \in Seq(S) /\ Len(a \o b) = Len(a) + Len(b)
          /\ Len(a) \in Nat /\ Len(b) \in Nat
      BY ConcatProperties
    <2>2. /\ Openings(a) \in Seq(Seq(S)) /\ Len(Openings(a)) = Len(a)
          /\ Openings(b) \in Seq(Seq(S)) /\ Len(Openings(b)) = Len(b)
          /\ Openings(a \o b) \in Seq(Seq(S)) /\ Len(Openings(a \o b)) = Len(a) + Len(b)
      BY <2>1, OpeningsType
    <2>3. ASSUME NEW j \in 1..(Len(a) + Len(b))
          PROVE  Openings(a \o b)[j] = (Openings(a) \o Openings(b))[j]
      <3>1. CASE j <= Len(a)
        <4>1. (a \o b)[j] = a[j] /\ (Openings(a) \o Openings(b))[j] = Openings(a)[j]
          BY <2>2, <3>1
        <4> QED
          BY <2>1, <3>1, <4>1 DEF Openings
      <3>2. CASE j > Len(a)
        <4>1. j - Len(a) \in 1..Len(b)
          BY <2>1, <3>2
        <4>2. (a \o b)[j] = b[j - Len(a)]
          BY <2>1, <3>2, ConcatProperties
        <4>3. (Openings(a) \o Openings(b))[j] = Openings(b)[j - Len(a)]
          <5> DEFINE x == Openings(a)
                     y == Openings(b)
          <5>1. /\ x \in Seq(Seq(S)) /\ y \in Seq(Seq(S)) /\ Len(x) = Len(a)
                /\ j \in 1..(Len(x) + Len(y)) /\ ~ (j <= Len(x))
            BY <2>1, <2>2, <3>2
          <5> HIDE DEF x, y
          <5>2. (x \o y)[j] = y[j - Len(x)]
            BY ONLY <5>1, ConcatProperties
          <5> QED
            BY <5>1, <5>2 DEF x, y
        <4> QED
          BY <2>1, <3>2, <4>1, <4>2, <4>3 DEF Openings
      <3>3. j <= Len(a) \/ j > Len(a)
        BY <2>1, <2>3
      <3> QED
        BY <3>1, <3>2, <3>3
    <2>4. /\ Openings(a) \o Openings(b) \in Seq(Seq(S))
          /\ Len(Openings(a) \o Openings(b)) = Len(a) + Len(b)
      BY <2>2, ConcatProperties
    <2> QED
      BY <2>2, <2>3, <2>4, SeqEqual
  <1>2. \A s : Opened(s) = FlattenSeq(Openings(s))
    BY DEF Opened, Openings
  <1>3. Openings(a) \in Seq(Seq(S)) /\ Openings(b) \in Seq(Seq(S))
    BY OpeningsType
  <1> QED
    BY <1>1, <1>2, <1>3, FlattenConcat

LEMMA OpenedOne ==
    ASSUME NEW S, AreTrees(S), NEW x \in S
    PROVE  Opened(<<x>>) = IF x.args = <<>> THEN <<x>> ELSE x.args
  <1>1. Openings(<<x>>) = <<IF x.args = <<>> THEN <<x>> ELSE x.args>>
    BY DEF Openings
  <1>2. x.args \in Seq(S) /\ <<x>> \in Seq(S)
    BY DEF AreTrees
  <1> QED
    BY <1>1, <1>2, FlattenOne DEF Opened, Openings

LEMMA OpenedEmpty == Opened(<<>>) = <<>>
  BY FlattenEmpty DEF Opened

(* Leaves have no level below.                                             *)
LEMMA OpenedLeaves ==
    ASSUME NEW S, AreTrees(S), NEW nodes \in Seq(S), AreLeaves(nodes)
    PROVE  Opened(nodes) = nodes
  <1> DEFINE T == {s \in Seq(S) : AreLeaves(s) => Opened(s) = s}
  <1>1. <<>> \in T
    BY OpenedEmpty
  <1>2. ASSUME NEW s \in Seq(S), s \in T, NEW x \in S
        PROVE  Append(s, x) \in T
    <2> SUFFICES ASSUME AreLeaves(Append(s, x)) PROVE Opened(Append(s, x)) = Append(s, x)
      OBVIOUS
    <2>1. AreLeaves(s) /\ x.args = <<>>
      <3>1. /\ Len(Append(s, x)) = Len(s) + 1 /\ Append(s, x)[Len(s) + 1] = x
            /\ \A j \in 1..Len(s) : Append(s, x)[j] = s[j]
        BY AppendProperties
      <3> QED
        BY <3>1 DEF AreLeaves
    <2>2. Opened(s) = s /\ Opened(<<x>>) = <<x>>
      BY <1>2, <2>1, OpenedOne
    <2>3. Append(s, x) = s \o <<x>> /\ <<x>> \in Seq(S)
      BY AppendIsConcat
    <2>4. Opened(s \o <<x>>) = Opened(s) \o Opened(<<x>>)
      BY <2>3, OpenedConcat
    <2> QED
      BY <2>2, <2>3, <2>4
  <1>3. Seq(S) \subseteq T
    <2> HIDE DEF T
    <2> QED
      BY <1>1, <1>2, SequenceInduct
  <1> QED
    BY <1>3

IndexesOf(leaves) == [j \in 1..Len(leaves) |-> IndexOf(leaves[j])]

LEMMA IndexesDef == \A leaves : Indexes(leaves) = FlattenSeq(IndexesOf(leaves))
  BY DEF Indexes, IndexesOf, IndexOf

LEMMA IndexesType ==
    ASSUME NEW S, AreTrees(S), NEW leaves \in Seq(S)
    PROVE  /\ IndexesOf(leaves) \in Seq(Seq(Nat)) /\ Len(IndexesOf(leaves)) = Len(leaves)
           /\ Indexes(leaves) \in Seq(Nat)
  <1>1. ASSUME NEW j \in 1..Len(leaves)
        PROVE  IndexOf(leaves[j]) \in Seq(Nat)
    <2>1. leaves[j].i \in Nat
      BY DEF AreTrees
    <2> QED
      BY <2>1 DEF IndexOf
  <1>2. IndexesOf(leaves) \in Seq(Seq(Nat)) /\ Len(IndexesOf(leaves)) = Len(leaves)
    BY <1>1 DEF IndexesOf
  <1> QED
    BY <1>2, IndexesDef, FlattenType

LEMMA IndexesConcat ==
    ASSUME NEW S, AreTrees(S), NEW a \in Seq(S), NEW b \in Seq(S)
    PROVE  Indexes(a \o b) = Indexes(a) \o Indexes(b)
  <1>1. /\ a \o b \in Seq(S) /\ Len(a \o b) = Len(a) + Len(b)
        /\ Len(a) \in Nat /\ Len(b) \in Nat
    BY ConcatProperties
  <1>2. /\ IndexesOf(a) \in Seq(Seq(Nat)) /\ Len(IndexesOf(a)) = Len(a)
        /\ IndexesOf(b) \in Seq(Seq(Nat)) /\ Len(IndexesOf(b)) = Len(b)
        /\ IndexesOf(a \o b) \in Seq(Seq(Nat)) /\ Len(IndexesOf(a \o b)) = Len(a) + Len(b)
    BY <1>1, IndexesType
  <1>3. ASSUME NEW j \in 1..(Len(a) + Len(b))
        PROVE  IndexesOf(a \o b)[j] = (IndexesOf(a) \o IndexesOf(b))[j]
    <2>1. CASE j <= Len(a)
      <3>1. (a \o b)[j] = a[j] /\ (IndexesOf(a) \o IndexesOf(b))[j] = IndexesOf(a)[j]
        BY <1>2, <2>1
      <3> QED
        BY <1>1, <2>1, <3>1 DEF IndexesOf
    <2>2. CASE j > Len(a)
      <3>1. /\ (a \o b)[j] = b[j - Len(a)] /\ j - Len(a) \in 1..Len(b)
            /\ (IndexesOf(a) \o IndexesOf(b))[j] = IndexesOf(b)[j - Len(a)]
        BY <1>2, <2>2
      <3> QED
        BY <1>1, <2>2, <3>1 DEF IndexesOf
    <2>3. j <= Len(a) \/ j > Len(a)
      BY <1>1, <1>3
    <2> QED
      BY <2>1, <2>2, <2>3
  <1>4. /\ IndexesOf(a) \o IndexesOf(b) \in Seq(Seq(Nat))
        /\ Len(IndexesOf(a) \o IndexesOf(b)) = Len(a) + Len(b)
    BY <1>2, ConcatProperties
  <1>5. IndexesOf(a \o b) = IndexesOf(a) \o IndexesOf(b)
    BY <1>2, <1>3, <1>4, SeqEqual
  <1> QED
    BY <1>2, <1>5, IndexesDef, FlattenConcat

LEMMA IndexesOne ==
    ASSUME NEW S, AreTrees(S), NEW x \in S
    PROVE  Indexes(<<x>>) = IndexOf(x)
  <1>1. IndexesOf(<<x>>) = <<IndexOf(x)>>
    BY DEF IndexesOf
  <1>2. x.i \in Nat
    BY DEF AreTrees
  <1>3. IndexOf(x) \in Seq(Nat)
    BY <1>2 DEF IndexOf
  <1> QED
    BY <1>1, <1>3, IndexesDef, FlattenOne

LEMMA IndexesEmpty == Indexes(<<>>) = <<>>
  BY FlattenEmpty DEF Indexes
-----------------------------------------------------------------------------
(* Three steps are repeated: a level is opened, trees are grown from trees, *)
(* an operator is applied.                                                  *)
Taller(S) ==
    S \union {x \in [op : Op \union {"none", "params"}, i : Nat, args : Seq(S)] :
                 IsOperand(x) => x.args = <<>>}

Step(kind, x) ==
    IF kind = "open" THEN Opened(x) ELSE IF kind = "grow" THEN Taller(x) ELSE Apply(x)

(* f has what the step makes of z, repeated up to n times.                 *)
Repeats(kind, z, f, n) ==
    f = [k \in 0..n |-> IF k = 0 THEN z ELSE Step(kind, f[k - 1])]

Repeated(kind, z, n) == (CHOOSE f : Repeats(kind, z, f, n))[n]

LEMMA RepeatsExists ==
    ASSUME NEW kind, NEW z, NEW n \in Nat
    PROVE  \E f : Repeats(kind, z, f, n)
  <1> DEFINE T == {m \in Nat : \E f : Repeats(kind, z, f, m)}
  <1>1. 0 \in T
    <2> DEFINE f == [k \in 0..0 |-> z]
    <2>1. Repeats(kind, z, f, 0)
      BY DEF Repeats
    <2> QED
      BY <2>1
  <1>2. ASSUME NEW m \in Nat, m \in T
        PROVE  m + 1 \in T
    <2>1. PICK f : Repeats(kind, z, f, m)
      BY <1>2
    <2> DEFINE g == [k \in 0..(m + 1) |-> IF k = m + 1 THEN Step(kind, f[m]) ELSE f[k]]
    <2>2. ASSUME NEW k \in 0..(m + 1)
          PROVE  g[k] = IF k = 0 THEN z ELSE Step(kind, g[k - 1])
      <3>1. CASE k = m + 1
        <4>1. k # 0 /\ k - 1 = m /\ m \in 0..(m + 1) /\ m # m + 1
          BY <3>1
        <4>2. g[m] = f[m] /\ g[k] = Step(kind, f[m])
          BY <3>1, <4>1
        <4> HIDE DEF g
        <4> QED
          BY <4>1, <4>2
      <3>2. CASE k # m + 1
        <4>1. k \in 0..m /\ g[k] = f[k]
          BY <3>2
        <4>2. k # 0 => k - 1 \in 0..(m + 1) /\ k - 1 # m + 1 /\ g[k - 1] = f[k - 1]
          BY <3>2
        <4>3. f[k] = IF k = 0 THEN z ELSE Step(kind, f[k - 1])
          BY <2>1, <4>1 DEF Repeats
        <4> HIDE DEF g
        <4> QED
          BY <4>1, <4>2, <4>3
      <3> QED
        BY <3>1, <3>2
    <2>3. g = [k \in 0..(m + 1) |-> g[k]]
      OBVIOUS
    <2>4. Repeats(kind, z, g, m + 1)
      <3> HIDE DEF g
      <3> QED
        BY <2>2, <2>3 DEF Repeats
    <2> QED
      BY <2>4
  <1>3. Nat \subseteq T
    <2> HIDE DEF T
    <2> QED
      BY <1>1, <1>2, Induct
  <1> QED
    BY <1>3

LEMMA RepeatsOnce ==
    ASSUME NEW kind, NEW z, NEW n \in Nat, NEW f, Repeats(kind, z, f, n),
           NEW m \in Nat, NEW g, Repeats(kind, z, g, m), NEW l \in Nat, l <= n, l <= m
    PROVE  f[l] = g[l]
  <1> DEFINE T == {k \in Nat : k <= n /\ k <= m => f[k] = g[k]}
  <1>1. 0 \in T
    BY DEF Repeats
  <1>2. ASSUME NEW k \in Nat, k \in T
        PROVE  k + 1 \in T
    <2> SUFFICES ASSUME k + 1 <= n, k + 1 <= m PROVE f[k + 1] = g[k + 1]
      OBVIOUS
    <2>1. /\ k + 1 \in 0..n /\ k + 1 \in 0..m /\ k + 1 # 0 /\ (k + 1) - 1 = k
          /\ k <= n /\ k <= m
      OBVIOUS
    <2>2. f[k + 1] = Step(kind, f[k]) /\ g[k + 1] = Step(kind, g[k])
      BY <2>1 DEF Repeats
    <2> QED
      BY <1>2, <2>1, <2>2
  <1>3. Nat \subseteq T
    <2> HIDE DEF T
    <2> QED
      BY <1>1, <1>2, Induct
  <1> QED
    BY <1>3

LEMMA RepeatedIs ==
    ASSUME NEW kind, NEW z, NEW n \in Nat, NEW f, Repeats(kind, z, f, n),
           NEW l \in Nat, l <= n
    PROVE  f[l] = Repeated(kind, z, l)
  <1> DEFINE g == CHOOSE g : Repeats(kind, z, g, l)
  <1>1. Repeats(kind, z, g, l)
    <2>1. \E h : Repeats(kind, z, h, l)
      BY RepeatsExists
    <2> QED
      BY <2>1, Zenon
  <1>2. Repeated(kind, z, l) = g[l]
    BY DEF Repeated
  <1> HIDE DEF g
  <1> QED
    BY <1>1, <1>2, RepeatsOnce

LEMMA RepeatedStep ==
    ASSUME NEW kind, NEW z, NEW n \in Nat
    PROVE  /\ Repeated(kind, z, 0) = z
           /\ Repeated(kind, z, n + 1) = Step(kind, Repeated(kind, z, n))
  <1>1. PICK f : Repeats(kind, z, f, n + 1)
    BY RepeatsExists
  <1>2. 0 \in 0..(n + 1) /\ n + 1 \in 0..(n + 1) /\ n + 1 # 0 /\ (n + 1) - 1 = n
    OBVIOUS
  <1>3. f[0] = z /\ f[n + 1] = Step(kind, f[n])
    BY <1>1, <1>2 DEF Repeats
  <1>4. f[0] = Repeated(kind, z, 0)
    BY <1>1, RepeatedIs
  <1>5. f[n] = Repeated(kind, z, n)
    BY <1>1, RepeatedIs
  <1>6. f[n + 1] = Repeated(kind, z, n + 1)
    BY <1>1, RepeatedIs
  <1> QED
    BY <1>3, <1>4, <1>5, <1>6

(* Level is such a repetition.                                             *)
LEMMA LevelIsRepeated ==
    ASSUME NEW nodes, NEW n \in Nat
    PROVE  Level(nodes, n) = Repeated("open", nodes, n)
  <1> DEFINE Is(f) == f = [k \in 0..n |-> IF k = 0 THEN nodes ELSE Opened(f[k - 1])]
             c == CHOOSE f : Is(f)
  <1>1. Level(nodes, n) = c[n]
    BY DEF Level
  <1>2. ASSUME NEW f
        PROVE  Is(f) <=> Repeats("open", nodes, f, n)
    BY DEF Repeats, Step
  <1>3. \E f : Is(f)
    <2> HIDE DEF Is
    <2> QED
      BY <1>2, RepeatsExists
  <1>4. Is(c)
    <2> HIDE DEF Is
    <2> QED
      BY <1>3, Zenon
  <1>5. Repeats("open", nodes, c, n)
    <2> HIDE DEF Is, c
    <2> QED
      BY <1>2, <1>4
  <1> HIDE DEF c
  <1> QED
    BY <1>1, <1>5, RepeatedIs

LEMMA LevelZero == \A nodes : Level(nodes, 0) = nodes
  BY LevelIsRepeated, RepeatedStep

LEMMA LevelNext ==
    ASSUME NEW nodes, NEW n \in Nat
    PROVE  Level(nodes, n + 1) = Opened(Level(nodes, n))
  <1>1. Level(nodes, n) = Repeated("open", nodes, n)
    BY LevelIsRepeated
  <1>2. Level(nodes, n + 1) = Repeated("open", nodes, n + 1)
    BY LevelIsRepeated
  <1> QED
    BY <1>1, <1>2, RepeatedStep DEF Step

LEMMA LevelType ==
    ASSUME NEW S, AreTrees(S), NEW nodes \in Seq(S), NEW n \in Nat
    PROVE  Level(nodes, n) \in Seq(S)
  <1> DEFINE T == {k \in Nat : Level(nodes, k) \in Seq(S)}
  <1>1. 0 \in T
    BY LevelZero
  <1>2. \A k \in Nat : k \in T => k + 1 \in T
    BY LevelNext, OpenedType
  <1>3. Nat \subseteq T
    <2> HIDE DEF T
    <2> QED
      BY <1>1, <1>2, Induct
  <1> QED
    BY <1>3

LEMMA LevelConcat ==
    ASSUME NEW S, AreTrees(S), NEW a \in Seq(S), NEW b \in Seq(S), NEW n \in Nat
    PROVE  Level(a \o b, n) = Level(a, n) \o Level(b, n)
  <1> DEFINE T == {k \in Nat : Level(a \o b, k) = Level(a, k) \o Level(b, k)}
  <1>1. 0 \in T
    BY LevelZero
  <1>2. ASSUME NEW k \in Nat, k \in T
        PROVE  k + 1 \in T
    <2>1. /\ Level(a, k) \in Seq(S) /\ Level(b, k) \in Seq(S)
          /\ Level(a \o b, k) = Level(a, k) \o Level(b, k)
      BY <1>2, LevelType
    <2>2. Opened(Level(a, k) \o Level(b, k)) = Opened(Level(a, k)) \o Opened(Level(b, k))
      BY <2>1, OpenedConcat
    <2>3. /\ Level(a \o b, k + 1) = Opened(Level(a \o b, k))
          /\ Level(a, k + 1) = Opened(Level(a, k)) /\ Level(b, k + 1) = Opened(Level(b, k))
      BY LevelNext
    <2>4. Level(a \o b, k + 1) = Level(a, k + 1) \o Level(b, k + 1)
      BY <2>1, <2>2, <2>3, Zenon
    <2> QED
      BY <2>4
  <1>3. Nat \subseteq T
    <2> HIDE DEF T
    <2> QED
      BY <1>1, <1>2, Induct
  <1> QED
    BY <1>3

LEMMA LevelEmpty == \A n \in Nat : Level(<<>>, n) = <<>>
  <1> DEFINE T == {k \in Nat : Level(<<>>, k) = <<>>}
  <1>1. 0 \in T
    BY LevelZero
  <1>2. \A k \in Nat : k \in T => k + 1 \in T
    BY LevelNext, OpenedEmpty
  <1>3. Nat \subseteq T
    <2> HIDE DEF T
    <2> QED
      BY <1>1, <1>2, Induct
  <1> QED
    BY <1>3

(* The levels of a tree are its root and then those of its parameters.     *)
LEMMA LevelBelow ==
    ASSUME NEW S, AreTrees(S), NEW x \in S, x.args # <<>>, NEW n \in Nat
    PROVE  Level(<<x>>, n + 1) = Level(x.args, n)
  <1> DEFINE T == {k \in Nat : Level(<<x>>, k + 1) = Level(x.args, k)}
  <1>1. 0 \in T
    <2>1. Level(<<x>>, 0 + 1) = Opened(Level(<<x>>, 0))
      BY LevelNext
    <2> QED
      BY <2>1, LevelZero, OpenedOne
  <1>2. ASSUME NEW k \in Nat, k \in T
        PROVE  k + 1 \in T
    <2>1. Level(<<x>>, (k + 1) + 1) = Opened(Level(<<x>>, k + 1))
      BY LevelNext
    <2>2. Level(x.args, k + 1) = Opened(Level(x.args, k))
      BY LevelNext
    <2> QED
      BY <1>2, <2>1, <2>2
  <1>3. Nat \subseteq T
    <2> HIDE DEF T
    <2> QED
      BY <1>1, <1>2, Induct
  <1> QED
    BY <1>3

(* A level of leaves is the last.                                          *)
LEMMA LeavesStay ==
    ASSUME NEW S, AreTrees(S), NEW nodes \in Seq(S), NEW n \in Nat,
           AreLeaves(Level(nodes, n)), NEW m \in Nat, n <= m
    PROVE  Level(nodes, m) = Level(nodes, n)
  <1> DEFINE T == {k \in Nat : Level(nodes, n + k) = Level(nodes, n)}
  <1>1. 0 \in T
    OBVIOUS
  <1>2. ASSUME NEW k \in Nat, k \in T
        PROVE  k + 1 \in T
    <2>1. Level(nodes, (n + k) + 1) = Opened(Level(nodes, n + k))
      BY LevelNext
    <2>2. Opened(Level(nodes, n)) = Level(nodes, n)
      BY LevelType, OpenedLeaves
    <2>3. n + (k + 1) = (n + k) + 1
      OBVIOUS
    <2> QED
      BY <1>2, <2>1, <2>2, <2>3
  <1>3. Nat \subseteq T
    <2> HIDE DEF T
    <2> QED
      BY <1>1, <1>2, Induct
  <1>4. m - n \in Nat /\ n + (m - n) = m
    OBVIOUS
  <1> QED
    BY <1>3, <1>4

LEMMA LeavesConcat ==
    ASSUME NEW S, NEW a \in Seq(S), NEW b \in Seq(S)
    PROVE  AreLeaves(a \o b) <=> AreLeaves(a) /\ AreLeaves(b)
  <1> DEFINE c == a \o b
  <1>1. /\ Len(c) = Len(a) + Len(b)
        /\ \A j \in 1..Len(a) : j \in 1..Len(c) /\ c[j] = a[j]
        /\ \A j \in 1..Len(b) : Len(a) + j \in 1..Len(c) /\ c[Len(a) + j] = b[j]
    OBVIOUS
  <1>2. \A j \in 1..Len(c) :
            j \in 1..Len(a) \/ (j - Len(a) \in 1..Len(b) /\ c[j] = b[j - Len(a)])
    OBVIOUS
  <1> HIDE DEF c
  <1>3. AreLeaves(c) => AreLeaves(a)
    BY <1>1 DEF AreLeaves
  <1>4. AreLeaves(c) => AreLeaves(b)
    BY <1>1 DEF AreLeaves
  <1>5. AreLeaves(a) /\ AreLeaves(b) => AreLeaves(c)
    <2> SUFFICES ASSUME AreLeaves(a), AreLeaves(b), NEW j \in 1..Len(c)
                 PROVE  c[j].args = <<>>
      BY DEF AreLeaves
    <2>1. CASE j \in 1..Len(a)
      BY <1>1, <2>1 DEF AreLeaves
    <2>2. CASE j - Len(a) \in 1..Len(b) /\ c[j] = b[j - Len(a)]
      BY <2>2 DEF AreLeaves
    <2> QED
      BY <1>2, <2>1, <2>2
  <1> QED
    BY <1>3, <1>4, <1>5 DEF c
-----------------------------------------------------------------------------
(* The trees "after" have the operands of the trees "before", in their     *)
(* order: if they end in leaves, the others end in leaves with the same    *)
(* operands.                                                               *)
Keeps(before, after) ==
    \A m \in Nat : AreLeaves(Level(after, m)) =>
        \E n \in Nat : /\ AreLeaves(Level(before, n))
                       /\ Indexes(Level(before, n)) = Indexes(Level(after, m))

LEMMA KeepsRefl == \A nodes : Keeps(nodes, nodes)
  BY DEF Keeps

LEMMA KeepsTrans == \A a, b, c : Keeps(a, b) /\ Keeps(b, c) => Keeps(a, c)
  BY Zenon DEF Keeps

(* At every level, two sequences behind each other.                        *)
LevelsJoin(a, b) == \A k \in Nat : Level(a \o b, k) = Level(a, k) \o Level(b, k)

LEMMA LevelsJoinIs ==
    ASSUME NEW S, AreTrees(S), NEW a \in Seq(S), NEW b \in Seq(S)
    PROVE  LevelsJoin(a, b)
  BY LevelConcat DEF LevelsJoin

LEMMA KeepsConcat ==
    ASSUME NEW S, AreTrees(S), NEW a \in Seq(S), NEW b \in Seq(S),
           NEW c \in Seq(S), NEW d \in Seq(S), Keeps(a, c), Keeps(b, d)
    PROVE  Keeps(a \o b, c \o d)
  <1> SUFFICES ASSUME NEW m \in Nat, AreLeaves(Level(c \o d, m))
               PROVE  \E n \in Nat : /\ AreLeaves(Level(a \o b, n))
                                     /\ Indexes(Level(a \o b, n)) = Indexes(Level(c \o d, m))
    BY DEF Keeps
  <1>1. /\ Level(c, m) \in Seq(S) /\ Level(d, m) \in Seq(S)
        /\ Level(c \o d, m) = Level(c, m) \o Level(d, m)
    BY LevelType, LevelConcat
  <1>2. AreLeaves(Level(c, m)) /\ AreLeaves(Level(d, m))
    BY <1>1, LeavesConcat
  <1>3. PICK n1 \in Nat : /\ AreLeaves(Level(a, n1))
                         /\ Indexes(Level(a, n1)) = Indexes(Level(c, m))
    BY <1>2 DEF Keeps
  <1>4. PICK n2 \in Nat : /\ AreLeaves(Level(b, n2))
                         /\ Indexes(Level(b, n2)) = Indexes(Level(d, m))
    BY <1>2 DEF Keeps
  <1>0. PICK n \in Nat : n1 <= n /\ n2 <= n
    <2>1. n1 + n2 \in Nat /\ n1 <= n1 + n2 /\ n2 <= n1 + n2
      OBVIOUS
    <2> QED
      BY <2>1
  <1>5. Level(a, n) = Level(a, n1) /\ Level(b, n) = Level(b, n2)
    BY <1>0, <1>3, <1>4, LeavesStay
  <1>6. /\ Level(a, n) \in Seq(S) /\ Level(b, n) \in Seq(S)
        /\ Level(a \o b, n) = Level(a, n) \o Level(b, n)
    <2>1. \A k \in Nat : Level(a, k) \in Seq(S) /\ Level(b, k) \in Seq(S)
      BY LevelType
    <2>2. LevelsJoin(a, b)
      BY LevelsJoinIs
    <2>3. Level(a \o b, n) = Level(a, n) \o Level(b, n)
      BY <1>0, <2>2 DEF LevelsJoin
    <2> QED
      BY <1>0, <2>1, <2>3
  <1>7. AreLeaves(Level(a \o b, n))
    BY <1>3, <1>4, <1>5, <1>6, LeavesConcat
  <1>8. /\ Indexes(Level(a \o b, n)) = Indexes(Level(a, n)) \o Indexes(Level(b, n))
        /\ Indexes(Level(c \o d, m)) = Indexes(Level(c, m)) \o Indexes(Level(d, m))
    BY <1>1, <1>6, IndexesConcat
  <1> QED
    BY <1>3, <1>4, <1>5, <1>7, <1>8

LEMMA KeepsBehind ==
    ASSUME NEW S, AreTrees(S), NEW a \in Seq(S), NEW b \in Seq(S), NEW c \in Seq(S),
           Keeps(b, c)
    PROVE  Keeps(a \o b, a \o c)
  BY KeepsRefl, KeepsConcat

(* A leaf, of which there is one level.                                    *)
LEMMA LeafLevel ==
    ASSUME NEW S, AreTrees(S), NEW x \in S, x.args = <<>>, NEW n \in Nat
    PROVE  Level(<<x>>, n) = <<x>> /\ AreLeaves(<<x>>)
  <1>1. AreLeaves(<<x>>) /\ <<x>> \in Seq(S) /\ Level(<<x>>, 0) = <<x>>
    BY LevelZero DEF AreLeaves
  <1>2. AreLeaves(Level(<<x>>, 0)) /\ 0 \in Nat /\ 0 <= n
    BY <1>1
  <1>3. Level(<<x>>, n) = Level(<<x>>, 0)
    BY <1>1, <1>2, LeavesStay
  <1> QED
    BY <1>1, <1>3

(* Trees become the parameters of an operator, or are parameters no more.  *)
LEMMA KeepsWrapped ==
    ASSUME NEW S, AreTrees(S), NEW x \in S, ~ IsValue(x)
    PROVE  Keeps(x.args, <<x>>) /\ Keeps(<<x>>, x.args)
  <1>1. CASE x.args = <<>>
    <2>1. \A n \in Nat : Level(<<x>>, n) = <<x>> /\ AreLeaves(<<x>>)
      BY <1>1, LeafLevel
    <2>2. Indexes(<<x>>) = <<>> /\ Indexes(<<>>) = <<>>
      BY IndexesOne, IndexesEmpty DEF IndexOf
    <2>3. AreLeaves(<<>>)
      BY DEF AreLeaves
    <2> QED
      BY <1>1, <2>1, <2>2, <2>3, LevelEmpty DEF Keeps
  <1>2. CASE x.args # <<>>
    <2>1. \A n \in Nat : Level(<<x>>, n + 1) = Level(x.args, n)
      BY <1>2, LevelBelow
    <2>2. ~ AreLeaves(Level(<<x>>, 0))
      BY <1>2, LevelZero DEF AreLeaves
    <2>3. ASSUME NEW m \in Nat, AreLeaves(Level(<<x>>, m))
          PROVE  \E n \in Nat : /\ AreLeaves(Level(x.args, n))
                                /\ Indexes(Level(x.args, n)) = Indexes(Level(<<x>>, m))
      <3>1. m # 0 /\ m - 1 \in Nat /\ (m - 1) + 1 = m
        BY <2>2, <2>3
      <3>2. Level(<<x>>, m) = Level(x.args, m - 1)
        BY <2>1, <3>1
      <3> QED
        BY <2>3, <3>1, <3>2
    <2>4. Keeps(<<x>>, x.args)
      <3>1. \A n \in Nat : n + 1 \in Nat
        OBVIOUS
      <3> QED
        BY <2>1, <3>1 DEF Keeps
    <2> QED
      BY <2>3, <2>4 DEF Keeps
  <1> QED
    BY <1>1, <1>2

(* A leaf that is no value counts for nothing.                             *)
LEMMA KeepsDropped ==
    ASSUME NEW S, AreTrees(S), NEW x \in S, ~ IsValue(x), x.args = <<>>
    PROVE  Keeps(<<x>>, <<>>) /\ Keeps(<<>>, <<x>>)
  BY KeepsWrapped
-----------------------------------------------------------------------------
(* The trees that can be grown from the units are trees, and an operator   *)
(* with some of them as parameters is again one.                           *)
Parents == {x \in Op : x \notin Operand} \union {"none", "params"}

AreAllTrees(S) ==
    /\ AreTrees(S)
    /\ [op : Parents, i : Nat, args : Seq(S)] \subseteq S

LEMMA AllTreesExist == \E S : AreAllTrees(S)
  <1> DEFINE G(n) == Repeated("grow", Units, n)
             S == UNION {G(n) : n \in Nat}
  <1>1. G(0) = Units /\ \A n \in Nat : G(n + 1) = Taller(G(n))
    BY RepeatedStep DEF Step
  <1> HIDE DEF G
  <1>2. ASSUME NEW n \in Nat, NEW m \in Nat
        PROVE  G(n) \subseteq G(n + m)
    <2> DEFINE T == {k \in Nat : G(n) \subseteq G(n + k)}
    <2>1. 0 \in T
      OBVIOUS
    <2>2. ASSUME NEW k \in Nat, k \in T
          PROVE  k + 1 \in T
      <3>1. n + (k + 1) = (n + k) + 1 /\ n + k \in Nat
        OBVIOUS
      <3>2. G((n + k) + 1) = Taller(G(n + k))
        BY <1>1, <3>1
      <3>3. G(n + k) \subseteq G((n + k) + 1)
        BY <3>2 DEF Taller
      <3> QED
        BY <2>2, <3>1, <3>3
    <2>3. Nat \subseteq T
      <3> HIDE DEF T
      <3> QED
        BY <2>1, <2>2, Induct
    <2> QED
      BY <2>3
  <1>3. \A n \in Nat : G(n) \subseteq S
    OBVIOUS
  <1>4. ASSUME NEW n \in Nat
        PROVE  \A x \in G(n) : /\ x \in [op : Op \union {"none", "params"}, i : Nat, args : Seq(S)]
                               /\ IsOperand(x) => x.args = <<>>
    <2> DEFINE Good(x) == /\ x \in [op : Op \union {"none", "params"}, i : Nat, args : Seq(S)]
                          /\ IsOperand(x) => x.args = <<>>
               T == {k \in Nat : \A x \in G(k) : Good(x)}
    <2> HIDE DEF S
    <2>1. 0 \in T
      <3>1. ASSUME NEW x \in Units
            PROVE  Good(x)
        <4>1. /\ x = [op |-> x.op, i |-> x.i, args |-> <<>>]
              /\ x.op \in Op /\ x.i \in Nat /\ <<>> \in Seq(S) /\ x.args = <<>>
          BY DEF Units
        <4> QED
          BY <4>1
      <3> HIDE DEF Good
      <3> QED
        BY <1>1, <3>1
    <2>2. ASSUME NEW k \in Nat, k \in T
          PROVE  k + 1 \in T
      <3>1. Seq(G(k)) \subseteq Seq(S)
        BY <1>3
      <3>2. G(k + 1) = Taller(G(k))
        BY <1>1
      <3>3. ASSUME NEW x \in G(k + 1)
            PROVE  Good(x)
        BY <2>2, <3>1, <3>2 DEF Taller
      <3> QED
        BY <3>3
    <2>3. Nat \subseteq T
      <3> HIDE DEF T
      <3> QED
        BY <2>1, <2>2, Induct
    <2> QED
      BY <2>3
  <1>5. ASSUME NEW args \in Seq(S)
        PROVE  \E n \in Nat : args \in Seq(G(n))
    <2> DEFINE T == {s \in Seq(S) : \E n \in Nat : s \in Seq(G(n))}
    <2>1. <<>> \in T
      OBVIOUS
    <2>2. ASSUME NEW s \in Seq(S), s \in T, NEW x \in S
          PROVE  Append(s, x) \in T
      <3>1. PICK n \in Nat : s \in Seq(G(n))
        BY <2>2
      <3>2. PICK m \in Nat : x \in G(m)
        OBVIOUS
      <3> HIDE DEF S
      <3>3. G(n) \subseteq G(n + m) /\ G(m) \subseteq G(m + n) /\ m + n = n + m /\ n + m \in Nat
        <4>1. m + n = n + m /\ n + m \in Nat
          OBVIOUS
        <4>2. G(n) \subseteq G(n + m)
          BY <1>2
        <4>3. G(m) \subseteq G(m + n)
          BY <1>2
        <4> QED
          BY <4>1, <4>2, <4>3
      <3>4. s \in Seq(G(n + m)) /\ x \in G(n + m)
        BY <3>1, <3>2, <3>3
      <3>5. Append(s, x) \in Seq(G(n + m)) /\ Append(s, x) \in Seq(S)
        BY <3>4
      <3> QED
        BY <3>3, <3>5
    <2>3. Seq(S) \subseteq T
      <3> HIDE DEF T, S
      <3> QED
        BY <2>1, <2>2, SequenceInduct
    <2> QED
      BY <2>3
  <1>6. AreTrees(S)
    <2>1. Units \subseteq S
      BY <1>1, <1>3
    <2>2. ASSUME NEW x \in S
          PROVE  /\ x \in [op : Op \union {"none", "params"}, i : Nat, args : Seq(S)]
                 /\ IsOperand(x) => x.args = <<>>
      <3>1. PICK n \in Nat : x \in G(n)
        OBVIOUS
      <3> HIDE DEF S
      <3> QED
        BY <1>4, <3>1
    <2> HIDE DEF S
    <2> QED
      BY <2>1, <2>2 DEF AreTrees
  <1>7. ASSUME NEW x \in [op : Parents, i : Nat, args : Seq(S)]
        PROVE  x \in S
    <2>1. PICK n \in Nat : x.args \in Seq(G(n))
      BY <1>5
    <2>2. /\ x \in [op : Op \union {"none", "params"}, i : Nat, args : Seq(G(n))]
          /\ ~ IsOperand(x)
      <3>1. x.op \in Parents /\ x.i \in Nat /\ x = [op |-> x.op, i |-> x.i, args |-> x.args]
        OBVIOUS
      <3>2. x.op \in Op \union {"none", "params"} /\ x.op \notin Operand
        BY <3>1 DEF Parents, Operand
      <3> HIDE DEF S
      <3> QED
        BY <2>1, <3>1, <3>2 DEF IsOperand
    <2>3. x \in G(n + 1)
      BY <1>1, <2>2 DEF Taller
    <2> QED
      BY <1>3, <2>3
  <1> QED
    <2> HIDE DEF S
    <2> QED
      BY <1>6, <1>7 DEF AreAllTrees

Trees == CHOOSE S : AreAllTrees(S)

LEMMA TreesAre == AreAllTrees(Trees) /\ AreTrees(Trees)
  BY AllTreesExist, Zenon DEF Trees, AreAllTrees
-----------------------------------------------------------------------------
(* Applying operators.                                                     *)

Layer == [out : Seq(Trees), ops : Seq(Trees)]

AreFunctions(ops) == \A j \in 1..Len(ops) : IsFunction(ops[j])

LEMMA Functions ==
    /\ DOMAIN Priority \subseteq Parents
    /\ \A op \in DOMAIN Priority : MaxParam[op] \in Nat /\ MaxParam[op] >= 1
    /\ \A op \in DOMAIN Priority : Priority[op] \in Nat
    /\ \A op \in DOMAIN Priority : op # "choice" => Priority["choice"] < Priority[op]
  <1>1. DOMAIN Priority = {"call", "subscript", "postfix", "cast", "neg", "prefix", "deref",
                           "mul", "add", "sub", "eq", "question", "clause", "assign", "choice"}
    BY DEF Priority
  <1>2. DOMAIN Priority \subseteq Parents
    BY <1>1 DEF Parents, Op, Operand
  <1>3. ASSUME NEW op \in DOMAIN Priority
        PROVE  /\ MaxParam[op] \in Nat /\ MaxParam[op] >= 1
               /\ Priority[op] \in Nat
               /\ op # "choice" => Priority["choice"] < Priority[op]
    BY <1>1, <1>3 DEF Priority, MaxParam
  <1> QED
    BY <1>2, <1>3

LEMMA MaxIs ==
    ASSUME NEW n \in Nat, NEW T \in SUBSET (1..n)
    PROVE  /\ Max({0} \union T) \in {0} \union T
           /\ \A j \in T : j <= Max({0} \union T)
           /\ Max({0} \union T) \in 0..n
  <1> DEFINE U == {m \in Nat : \A j \in T : j <= m}
  <1>1. U \in SUBSET Nat /\ n \in U
    OBVIOUS
  <1>2. PICK m \in U : \A k \in U : m <= k
    <2> HIDE DEF U
    <2> QED
      BY <1>1, Least
  <1>3. m \in {0} \union T
    <2> SUFFICES ASSUME m # 0, m \notin T PROVE FALSE
      OBVIOUS
    <2>1. m - 1 \in U
      OBVIOUS
    <2> QED
      BY <1>2, <2>1
  <1>4. \A j \in {0} \union T : m >= j
    BY <1>2
  <1>5. \E x \in {0} \union T : \A y \in {0} \union T : x >= y
    BY <1>3, <1>4
  <1>6. /\ Max({0} \union T) \in {0} \union T
        /\ \A y \in {0} \union T : Max({0} \union T) >= y
    BY <1>5 DEF Max
  <1>7. ASSUME NEW x \in {0} \union T, \A y \in {0} \union T : x >= y
        PROVE  x \in {0} \union T /\ (\A j \in T : j <= x) /\ x \in 0..n
    BY <1>7
  <1> QED
    BY <1>6, <1>7

LEMMA MinIs ==
    ASSUME NEW a \in Nat, NEW b \in Nat
    PROVE  Min({a, b}) = IF a <= b THEN a ELSE b
  <1> DEFINE m == IF a <= b THEN a ELSE b
  <1>1. m \in {a, b} /\ \A y \in {a, b} : m =< y
    OBVIOUS
  <1>2. ASSUME NEW x \in {a, b}, \A y \in {a, b} : x =< y
        PROVE  x = m
    <2>1. x \in Nat /\ x <= a /\ x <= b
      BY <1>2
    <2>2. CASE a <= b
      BY <1>2, <2>1, <2>2
    <2>3. CASE ~ (a <= b)
      BY <1>2, <2>1, <2>3
    <2> QED
      BY <2>2, <2>3
  <1> QED
    BY <1>1, <1>2 DEF Min

(* An operator takes the end of the output, and becomes output.            *)
LEMMA ApplyIs ==
    ASSUME NEW layer \in Layer, layer.ops # <<>>, IsFunction(Last(layer.ops))
    PROVE  /\ Apply(layer) \in Layer
           /\ Apply(layer).ops = Front(layer.ops)
           /\ Apply(layer).out # <<>>
           /\ Last(Apply(layer).out).op = Last(layer.ops).op
           /\ layer.out # <<>> => Last(Apply(layer).out).args # <<>>
           /\ Keeps(layer.out, Apply(layer).out)
  <1> DEFINE f == Last(layer.ops)
             out == layer.out
             taken == Min({MaxParam[f.op], Len(out)})
             rest == Len(out) - taken
             args == SubSeq(out, rest + 1, Len(out))
             node == [f EXCEPT !.args = args]
             below == SubSeq(out, 1, rest)
  <1>1. out \in Seq(Trees) /\ layer.ops \in Seq(Trees) /\ Len(out) \in Nat
    BY DEF Layer
  <1>2. f \in Trees /\ f.op \in DOMAIN Priority
    BY <1>1 DEF Last, IsFunction
  <1>3. MaxParam[f.op] \in Nat /\ MaxParam[f.op] >= 1 /\ f.op \in Parents /\ f.op \notin Operand
    BY <1>2, Functions DEF Parents, Operand
  <1>4. /\ taken \in Nat /\ taken <= Len(out) /\ rest \in 0..Len(out)
        /\ Len(out) # 0 => taken >= 1
    BY <1>1, <1>3, MinIs
  <1> HIDE DEF taken
  <1>5. below \in Seq(Trees) /\ args \in Seq(Trees) /\ Len(args) = taken
    BY <1>1, <1>4
  <1>6. node = [op |-> f.op, i |-> f.i, args |-> args] /\ f.i \in Nat
    <2>1. f \in [op : Op \union {"none", "params"}, i : Nat, args : Seq(Trees)]
      BY <1>2, TreesAre DEF AreTrees
    <2> HIDE DEF f, args
    <2> QED
      BY <2>1
  <1>7. node \in Trees /\ ~ IsValue(node)
    BY <1>3, <1>5, <1>6, TreesAre DEF AreAllTrees, IsValue, IsOperand
  <1>8. Apply(layer) = [out |-> Append(below, node), ops |-> Front(layer.ops)]
    BY DEF Apply, taken
  <1>9. out = below \o args
    <2> HIDE DEF rest, out
    <2>1. 1 \in 1..(Len(out) + 1) /\ rest \in (1 - 1)..Len(out) /\ Len(out) \in rest..Len(out)
      BY <1>1, <1>4
    <2>2. SubSeq(out, 1, rest) \o SubSeq(out, rest + 1, Len(out)) = SubSeq(out, 1, Len(out))
      BY <1>1, <2>1, ConcatAdjacentSubSeq
    <2> QED
      BY <1>1, <2>2, SubSeqFull
  <1> HIDE DEF node, args, below, rest
  <1>10. Append(below, node) = below \o <<node>> /\ <<node>> \in Seq(Trees)
    BY <1>5, <1>7
  <1>11. Keeps(args, <<node>>)
    BY <1>6, <1>7, TreesAre, KeepsWrapped
  <1>12. Keeps(out, Append(below, node))
    BY <1>5, <1>9, <1>10, <1>11, TreesAre, KeepsBehind
  <1>13. Append(below, node) \in Seq(Trees) /\ Last(Append(below, node)) = node
         /\ Append(below, node) # <<>>
    BY <1>5, <1>7 DEF Last
  <1>14. Front(layer.ops) \in Seq(Trees)
    BY <1>1 DEF Front
  <1>15. out # <<>> => args # <<>>
    BY <1>1, <1>4, <1>5
  <1> QED
    BY <1>6, <1>8, <1>12, <1>13, <1>14, <1>15 DEF Layer

(* Operators applied one after the other, down to those that are kept.     *)
LEMMA AppliedIs ==
    ASSUME NEW layer \in Layer, NEW kept \in 0..Len(layer.ops),
           \A j \in (kept + 1)..Len(layer.ops) : IsFunction(layer.ops[j]),
           NEW after, after = Repeated("apply", layer, Len(layer.ops) - kept)
    PROVE  /\ after \in Layer
           /\ after.ops = SubSeq(layer.ops, 1, kept)
           /\ Keeps(layer.out, after.out)
           /\ kept = Len(layer.ops) => after = layer
           /\ kept < Len(layer.ops) =>
                 /\ after.out # <<>> /\ Last(after.out).op = layer.ops[kept + 1].op
                 /\ layer.out # <<>> => Last(after.out).args # <<>>
  <1> DEFINE ops == layer.ops
             len == Len(layer.ops)
             R(n) == Repeated("apply", layer, n)
             Good(n, x) ==
                 /\ x \in Layer
                 /\ x.ops = SubSeq(ops, 1, len - n)
                 /\ Keeps(layer.out, x.out)
                 /\ layer.out # <<>> => x.out # <<>>
                 /\ n # 0 => /\ x.out # <<>> /\ Last(x.out).op = ops[(len - n) + 1].op
                             /\ layer.out # <<>> => Last(x.out).args # <<>>
             T == {n \in Nat : n <= len - kept => Good(n, R(n))}
  <1>1. ops \in Seq(Trees) /\ len \in Nat /\ kept \in Nat
    BY DEF Layer
  <1>2. R(0) = layer /\ \A n \in Nat : R(n + 1) = Apply(R(n))
    BY RepeatedStep DEF Step
  <1> HIDE DEF R
  <1>3. 0 \in T
    <2>1. SubSeq(ops, 1, len - 0) = ops /\ Keeps(layer.out, layer.out)
      BY <1>1, SubSeqFull, KeepsRefl
    <2> QED
      BY <1>2, <2>1
  <1>4. ASSUME NEW n \in Nat, n \in T
        PROVE  n + 1 \in T
    <2> SUFFICES ASSUME n + 1 <= len - kept PROVE Good(n + 1, R(n + 1))
      OBVIOUS
    <2> DEFINE x == R(n)
               y == R(n + 1)
               k == len - n
    <2>1. Good(n, x) /\ y = Apply(x)
      <3>1. n <= len - kept
        BY <1>1
      <3> HIDE DEF Good
      <3> QED
        BY <1>2, <1>4, <3>1
    <2>2. k \in (kept + 1)..len /\ k \in 1..len /\ len - (n + 1) = k - 1 /\ n + 1 # 0
          /\ (len - (n + 1)) + 1 = k
      BY <1>1
    <2> HIDE DEF x, y, k
    <2>3. x.ops = SubSeq(ops, 1, k)
      BY <2>1 DEF k
    <2>4. Len(x.ops) = k /\ Last(x.ops) = ops[k] /\ x.ops # <<>>
      <3> DEFINE z == SubSeq(ops, 1, k)
      <3>1. z \in Seq(Trees) /\ Len(z) = k /\ z[k] = ops[k]
        BY <1>1, <2>2
      <3> HIDE DEF z
      <3>2. z # <<>> /\ Last(z) = ops[k]
        BY <2>2, <3>1 DEF Last
      <3> QED
        BY <2>3, <3>1, <3>2 DEF z
    <2>5. Front(x.ops) = SubSeq(ops, 1, k - 1)
      <3>1. SubSeq(SubSeq(ops, 1, k), 1, k - 1) = SubSeq(ops, 1, k - 1)
        BY <1>1, <2>2
      <3> QED
        BY <2>3, <2>4, <3>1 DEF Front
    <2>6. IsFunction(ops[k])
      BY <2>2
    <2>7. /\ y \in Layer /\ y.ops = Front(x.ops) /\ y.out # <<>>
          /\ Last(y.out).op = ops[k].op
          /\ x.out # <<>> => Last(y.out).args # <<>>
          /\ Keeps(x.out, y.out)
      BY <2>1, <2>4, <2>6, ApplyIs
    <2>8. Keeps(layer.out, y.out)
      BY <2>1, <2>7, KeepsTrans
    <2>9. Good(n + 1, y)
      BY <2>1, <2>2, <2>5, <2>7, <2>8
    <2> QED
      BY <2>9 DEF y
  <1>5. Nat \subseteq T
    <2> HIDE DEF T
    <2> QED
      BY <1>3, <1>4, Induct
  <1> DEFINE n == len - kept
  <1>6. n \in Nat /\ n <= len - kept /\ len - n = kept /\ (kept = len <=> n = 0)
    BY <1>1
  <1>7. Good(n, R(n)) /\ after = R(n)
    <2>1. after = R(n)
      BY DEF R
    <2> HIDE DEF Good, n
    <2> QED
      BY <1>5, <1>6, <2>1
  <1> HIDE DEF n
  <1>8. kept = len => after = layer
    BY <1>2, <1>6, <1>7
  <1>9. kept < len => n # 0
    BY <1>1, <1>6
  <1> QED
    BY <1>6, <1>7, <1>8, <1>9

AppliedTo(layer, n) ==
    LET applied[m \in 0..Len(layer.ops)] == IF m = 0 THEN layer ELSE Apply(applied[m - 1])
    IN  applied[n]

LEMMA AppliedToIsRepeated ==
    ASSUME NEW layer \in Layer, NEW n \in 0..Len(layer.ops)
    PROVE  AppliedTo(layer, n) = Repeated("apply", layer, n)
  <1> DEFINE len == Len(layer.ops)
             Is(f) == f = [m \in 0..len |-> IF m = 0 THEN layer ELSE Apply(f[m - 1])]
             c == CHOOSE f : Is(f)
  <1>0. len \in Nat
    BY DEF Layer
  <1>1. AppliedTo(layer, n) = c[n]
    BY DEF AppliedTo
  <1>2. ASSUME NEW f
        PROVE  Is(f) <=> Repeats("apply", layer, f, len)
    BY DEF Repeats, Step
  <1> HIDE DEF len
  <1>3. \E f : Is(f)
    <2> HIDE DEF Is
    <2> QED
      BY <1>0, <1>2, RepeatsExists
  <1>4. Is(c)
    <2> HIDE DEF Is
    <2> QED
      BY <1>3, Zenon
  <1>5. Repeats("apply", layer, c, len)
    <2> HIDE DEF Is, c
    <2> QED
      BY <1>2, <1>4
  <1> HIDE DEF c
  <1>6. n \in Nat /\ n <= len
    BY <1>0 DEF len
  <1> QED
    BY <1>0, <1>1, <1>5, <1>6, RepeatedIs

(* makeExpression applies all operators above the topmost bracket.         *)
LEMMA MakeExpressionIs ==
    ASSUME NEW layer \in Layer, NEW made, made = MakeExpression(layer)
    PROVE  /\ made \in Layer
           /\ Keeps(layer.out, made.out)
           /\ layer.out = <<>> => made = layer
           /\ \E kept \in 0..Len(layer.ops) : made.ops = SubSeq(layer.ops, 1, kept)
           /\ AreFunctions(layer.ops) /\ layer.out # <<>> =>
                 /\ made.ops = <<>>
                 /\ layer.ops # <<>> => /\ made.out # <<>> /\ Last(made.out).args # <<>>
                                        /\ Last(made.out).op = layer.ops[1].op
  <1> DEFINE ops == layer.ops
             len == Len(layer.ops)
             stays == {j \in 1..len : ~ IsFunction(ops[j])}
             kept == Max({0} \union stays)
  <1>1. ops \in Seq(Trees) /\ len \in Nat /\ SubSeq(ops, 1, len) = ops
    BY SubSeqFull DEF Layer
  <1>2. CASE layer.out = <<>>
    <2>1. made = layer
      BY <1>2 DEF MakeExpression
    <2>2. len \in 0..len
      BY <1>1
    <2> QED
      BY <1>1, <1>2, <2>1, <2>2, KeepsRefl
  <1>3. CASE layer.out # <<>>
    <2>1. made = AppliedTo(layer, len - kept)
      BY <1>3 DEF MakeExpression, ApplyUntil, AppliedTo
    <2>2. kept \in 0..len /\ \A j \in (kept + 1)..len : IsFunction(ops[j])
      <3>1. stays \in SUBSET (1..len)
        OBVIOUS
      <3>2. (\A j \in stays : j <= kept) /\ kept \in 0..len
        <4> HIDE DEF stays, len
        <4> QED
          BY <1>1, <3>1, MaxIs
      <3> HIDE DEF kept
      <3>3. \A j \in (kept + 1)..len : j \in 1..len /\ ~ (j <= kept)
        BY <1>1, <3>2
      <3> QED
        BY <3>2, <3>3
    <2>3. AreFunctions(ops) => kept = 0
      <3>1. stays \in SUBSET (1..len)
        OBVIOUS
      <3>2. kept \in {0} \union stays
        <4> HIDE DEF stays, len
        <4> QED
          BY <1>1, <3>1, MaxIs
      <3> QED
        BY <3>2 DEF AreFunctions
    <2> HIDE DEF kept, stays
    <2>4. len - kept \in 0..len
      BY <1>1, <2>2
    <2>5. made = Repeated("apply", layer, len - kept)
      BY <2>1, <2>4, AppliedToIsRepeated
    <2>6. /\ made \in Layer
          /\ made.ops = SubSeq(ops, 1, kept)
          /\ Keeps(layer.out, made.out)
          /\ kept < len => /\ made.out # <<>> /\ Last(made.out).op = ops[kept + 1].op
                           /\ layer.out # <<>> => Last(made.out).args # <<>>
      BY <2>2, <2>5, AppliedIs
    <2>7. ASSUME AreFunctions(ops)
          PROVE  /\ made.ops = <<>>
                 /\ ops # <<>> => /\ made.out # <<>> /\ Last(made.out).args # <<>>
                                  /\ Last(made.out).op = ops[1].op
      <3>1. kept = 0 /\ made.ops = <<>>
        BY <2>3, <2>6, <2>7
      <3>2. ops # <<>> => kept < len /\ kept + 1 = 1
        BY <1>1, <3>1
      <3> QED
        BY <1>3, <2>6, <3>1, <3>2
    <2> QED
      BY <1>3, <2>2, <2>6, <2>7
  <1> QED
    BY <1>2, <1>3

(* A function that is put applies the operators that do not stay below it. *)
LEMMA ReducedIs ==
    ASSUME NEW layer \in Layer, AreFunctions(layer.ops), NEW f, IsFunction(f),
           NEW after, after = Reduced(layer, f)
    PROVE  /\ after \in Layer
           /\ Keeps(layer.out, after.out)
           /\ \E kept \in 0..Len(layer.ops) :
                 /\ after.ops = SubSeq(layer.ops, 1, kept)
                 /\ kept # 0 => IsOrdered(layer.ops[kept], f)
                 /\ \A j \in (kept + 1)..Len(layer.ops) : ~ IsOrdered(layer.ops[j], f)
  <1> DEFINE ops == layer.ops
             len == Len(layer.ops)
             stays == {j \in 1..len : ~ IsFunction(ops[j]) \/ IsOrdered(ops[j], f)}
             kept == Max({0} \union stays)
  <1>1. ops \in Seq(Trees) /\ len \in Nat
    BY DEF Layer
  <1>2. after = AppliedTo(layer, len - kept)
    BY DEF Reduced, ApplyUntil, AppliedTo
  <1>3. (\A j \in stays : j <= kept) /\ kept \in 0..len /\ kept \in {0} \union stays
    <2>1. stays \in SUBSET (1..len)
      OBVIOUS
    <2> HIDE DEF stays, len
    <2> QED
      BY <1>1, <2>1, MaxIs
  <1> HIDE DEF kept
  <1>4. \A j \in (kept + 1)..len : j \in 1..len /\ ~ (j <= kept)
    BY <1>1, <1>3
  <1>5. \A j \in (kept + 1)..len : IsFunction(ops[j]) /\ ~ IsOrdered(ops[j], f)
    BY <1>3, <1>4
  <1>6. kept # 0 => IsOrdered(ops[kept], f)
    BY <1>3 DEF AreFunctions
  <1> HIDE DEF stays
  <1>7. len - kept \in 0..len
    BY <1>1, <1>3
  <1>8. after = Repeated("apply", layer, len - kept)
    BY <1>2, <1>7, AppliedToIsRepeated
  <1>9. /\ after \in Layer
        /\ after.ops = SubSeq(ops, 1, kept)
        /\ Keeps(layer.out, after.out)
    BY <1>3, <1>5, <1>8, AppliedIs
  <1> QED
    BY <1>3, <1>5, <1>6, <1>9
-----------------------------------------------------------------------------
(* Sequences that end in an element.                                       *)
LEMMA EndsInLast ==
    ASSUME NEW S, NEW s \in Seq(S), s # <<>>
    PROVE  /\ Front(s) \in Seq(S) /\ Last(s) \in S /\ s = Append(Front(s), Last(s))
           /\ Len(s) \in Nat \ {0} /\ Len(Front(s)) = Len(s) - 1
           /\ \A j \in 1..(Len(s) - 1) : Front(s)[j] = s[j]
  <1>1. Len(s) \in Nat \ {0}
    OBVIOUS
  <1>2. Last(s) \in S
    BY <1>1 DEF Last
  <1>3. /\ SubSeq(s, 1, Len(s) - 1) \in Seq(S)
        /\ Len(SubSeq(s, 1, Len(s) - 1)) = Len(s) - 1
        /\ \A j \in 1..(Len(s) - 1) : SubSeq(s, 1, Len(s) - 1)[j] = s[j]
    <2>1. \A n \in Int : \A j \in 1..n : (1 + j) - 1 = j
      OBVIOUS
    <2>2. \A i \in 1..(Len(s) - 1) : s[i] \in S
      OBVIOUS
    <2> DEFINE n == Len(s) - 1
    <2>3. n \in Nat /\ (n - 1) + 1 = n /\ n \in Int /\ 1 \in Int /\ (~ (1 <= n) => n = 0)
      <3>1. n \in Nat
        BY <1>1
      <3> HIDE DEF n
      <3> QED
        BY <3>1
    <2> HIDE DEF n
    <2>4. /\ SubSeq(s, 1, n) \in Seq(S)
          /\ Len(SubSeq(s, 1, n)) = IF 1 <= n THEN (n - 1) + 1 ELSE 0
          /\ \A i \in 1..((n - 1) + 1) : SubSeq(s, 1, n)[i] = s[(1 + i) - 1]
      BY <2>2, <2>3, SubSeqProperties DEF n
    <2>5. \A i \in 1..n : SubSeq(s, 1, n)[i] = s[i]
      BY <2>1, <2>3, <2>4
    <2> QED
      BY <2>3, <2>4, <2>5 DEF n
  <1>4. s = Append(SubSeq(s, 1, Len(s) - 1), s[Len(s)])
    BY <1>1
  <1> QED
    BY <1>1, <1>2, <1>3, <1>4 DEF Front, Last

LEMMA EndsInAppended ==
    ASSUME NEW S, NEW s \in Seq(S), NEW x \in S
    PROVE  /\ Append(s, x) \in Seq(S) /\ Append(s, x) # <<>>
           /\ Front(Append(s, x)) = s /\ Last(Append(s, x)) = x
           /\ Len(Append(s, x)) = Len(s) + 1 /\ Append(s, x)[Len(s) + 1] = x
           /\ \A j \in 1..Len(s) : Append(s, x)[j] = s[j]
  <1>1. /\ Append(s, x) \in Seq(S) /\ Append(s, x) # <<>>
        /\ Len(Append(s, x)) = Len(s) + 1 /\ Append(s, x)[Len(s) + 1] = x
        /\ \A j \in 1..Len(s) : Append(s, x)[j] = s[j]
    BY AppendProperties
  <1>2. Front(Append(s, x)) = s /\ Last(Append(s, x)) = x
    BY DEF Front, Last
  <1> QED
    BY <1>1, <1>2
-----------------------------------------------------------------------------
(* The trees on the outputs of layers.                                     *)

Outs(layers) == [k \in 1..Len(layers) |-> layers[k].out]
Nodes(layers) == FlattenSeq(Outs(layers))

LEMMA OutsType ==
    ASSUME NEW layers \in Seq(Layer)
    PROVE  /\ Outs(layers) \in Seq(Seq(Trees)) /\ Len(Outs(layers)) = Len(layers)
           /\ Nodes(layers) \in Seq(Trees)
  <1>1. ASSUME NEW k \in 1..Len(layers)
        PROVE  layers[k].out \in Seq(Trees)
    <2>1. layers[k] \in Layer
      OBVIOUS
    <2> QED
      BY <2>1 DEF Layer
  <1>2. Outs(layers) \in Seq(Seq(Trees)) /\ Len(Outs(layers)) = Len(layers)
    BY <1>1 DEF Outs
  <1> QED
    BY <1>2, FlattenType DEF Nodes

LEMMA NodesEmpty == Nodes(<<>>) = <<>>
  BY FlattenEmpty DEF Nodes, Outs

LEMMA NodesAppend ==
    ASSUME NEW layers \in Seq(Layer), NEW layer \in Layer
    PROVE  Nodes(Append(layers, layer)) = Nodes(layers) \o layer.out
  <1>1. Outs(Append(layers, layer)) = Append(Outs(layers), layer.out)
    BY DEF Outs
  <1>2. layer.out \in Seq(Trees)
    BY DEF Layer
  <1> QED
    BY <1>1, <1>2, OutsType, FlattenAppend DEF Nodes

LEMMA NodesConcat ==
    ASSUME NEW a \in Seq(Layer), NEW b \in Seq(Layer)
    PROVE  Nodes(a \o b) = Nodes(a) \o Nodes(b)
  <1>1. Outs(a \o b) = Outs(a) \o Outs(b)
    <2>1. /\ a \o b \in Seq(Layer) /\ Len(a \o b) = Len(a) + Len(b)
          /\ Len(a) \in Nat /\ Len(b) \in Nat
      BY ConcatProperties
    <2>2. /\ Outs(a) \in Seq(Seq(Trees)) /\ Len(Outs(a)) = Len(a)
          /\ Outs(b) \in Seq(Seq(Trees)) /\ Len(Outs(b)) = Len(b)
          /\ Outs(a \o b) \in Seq(Seq(Trees)) /\ Len(Outs(a \o b)) = Len(a) + Len(b)
      BY <2>1, OutsType
    <2>3. ASSUME NEW j \in 1..(Len(a) + Len(b))
          PROVE  Outs(a \o b)[j] = (Outs(a) \o Outs(b))[j]
      <3>1. CASE j <= Len(a)
        <4>1. (a \o b)[j] = a[j] /\ (Outs(a) \o Outs(b))[j] = Outs(a)[j]
          BY <2>2, <3>1
        <4> QED
          BY <2>1, <3>1, <4>1 DEF Outs
      <3>2. CASE j > Len(a)
        <4>1. j - Len(a) \in 1..Len(b)
          BY <2>1, <3>2
        <4>2. (a \o b)[j] = b[j - Len(a)]
          BY <2>1, <3>2, ConcatProperties
        <4>3. (Outs(a) \o Outs(b))[j] = Outs(b)[j - Len(a)]
          <5> DEFINE x == Outs(a)
                     y == Outs(b)
          <5>1. /\ x \in Seq(Seq(Trees)) /\ y \in Seq(Seq(Trees)) /\ Len(x) = Len(a)
                /\ j \in 1..(Len(x) + Len(y)) /\ ~ (j <= Len(x))
            BY <2>1, <2>2, <3>2
          <5> HIDE DEF x, y
          <5>2. (x \o y)[j] = y[j - Len(x)]
            BY ONLY <5>1, ConcatProperties
          <5> QED
            BY <5>1, <5>2 DEF x, y
        <4> QED
          BY <2>1, <3>2, <4>1, <4>2, <4>3 DEF Outs
      <3>3. j <= Len(a) \/ j > Len(a)
        BY <2>1, <2>3
      <3> QED
        BY <3>1, <3>2, <3>3
    <2>4. /\ Outs(a) \o Outs(b) \in Seq(Seq(Trees))
          /\ Len(Outs(a) \o Outs(b)) = Len(a) + Len(b)
      BY <2>2, ConcatProperties
    <2> QED
      BY <2>2, <2>3, <2>4, SeqEqual
  <1> QED
    BY <1>1, OutsType, FlattenConcat DEF Nodes

LEMMA NodesReplaced ==
    ASSUME NEW layers \in Seq(Layer), layers # <<>>, NEW layer \in Layer
    PROVE  /\ Replaced(layers, layer) \in Seq(Layer)
           /\ Nodes(layers) = Nodes(Front(layers)) \o Top(layers).out
           /\ Nodes(Replaced(layers, layer)) = Nodes(Front(layers)) \o layer.out
           /\ Nodes(Front(layers)) \in Seq(Trees) /\ Top(layers).out \in Seq(Trees)
  <1>1. /\ Front(layers) \in Seq(Layer) /\ Last(layers) \in Layer
        /\ layers = Append(Front(layers), Last(layers))
    BY EndsInLast
  <1>2. Nodes(layers) = Nodes(Front(layers)) \o Top(layers).out
    BY <1>1, NodesAppend DEF Top
  <1>3. Nodes(Replaced(layers, layer)) = Nodes(Front(layers)) \o layer.out
    BY <1>1, NodesAppend DEF Replaced
  <1>4. Nodes(Front(layers)) \in Seq(Trees)
    BY <1>1, OutsType
  <1> QED
    BY <1>1, <1>2, <1>3, <1>4 DEF Top, Replaced, Layer

(* Layers of one tree each have the trees themselves.                      *)
LEMMA SinglesAreNodes ==
    ASSUME NEW layers \in Seq(Layer), \A j \in 1..Len(layers) : IsSingle(layers[j])
    PROVE  /\ Nodes(layers) = [j \in 1..Len(layers) |-> layers[j].out[1]]
           /\ Nodes(layers) \in Seq(Trees)
  <1> DEFINE Firsts(s) == [j \in 1..Len(s) |-> s[j].out[1]]
             T == {s \in Seq(Layer) :
                      (\A j \in 1..Len(s) : IsSingle(s[j])) => Nodes(s) = Firsts(s)}
  <1>1. <<>> \in T
    <2>1. Firsts(<<>>) = <<>> /\ <<>> \in Seq(Layer)
      OBVIOUS
    <2> QED
      BY <2>1, NodesEmpty
  <1>2. ASSUME NEW s \in Seq(Layer), s \in T, NEW x \in Layer
        PROVE  Append(s, x) \in T
    <2> SUFFICES ASSUME \A j \in 1..Len(Append(s, x)) : IsSingle(Append(s, x)[j])
                 PROVE  Nodes(Append(s, x)) = Firsts(Append(s, x))
      BY EndsInAppended
    <2>1. /\ Len(Append(s, x)) = Len(s) + 1 /\ Append(s, x)[Len(s) + 1] = x
          /\ \A j \in 1..Len(s) : Append(s, x)[j] = s[j]
      BY EndsInAppended
    <2>2. (\A j \in 1..Len(s) : IsSingle(s[j])) /\ IsSingle(x)
      BY <2>1
    <2>3. Nodes(s) = Firsts(s)
      BY <1>2, <2>2
    <2>4. x.out = <<x.out[1]>>
      BY <2>2 DEF IsSingle, Layer
    <2>5. Nodes(Append(s, x)) = Firsts(s) \o <<x.out[1]>>
      BY <2>3, <2>4, NodesAppend
    <2>6. Firsts(s) \o <<x.out[1]>> = Firsts(Append(s, x))
      BY <2>1
    <2> QED
      BY <2>5, <2>6
  <1>3. Seq(Layer) \subseteq T
    <2> HIDE DEF T
    <2> QED
      BY <1>1, <1>2, SequenceInduct
  <1> QED
    BY <1>3, OutsType

(* Making expressions of all layers keeps their operands.                  *)
Made(layers) == [j \in 1..Len(layers) |-> MakeExpression(layers[j])]

LEMMA MadeKeeps ==
    ASSUME NEW layers \in Seq(Layer)
    PROVE  Made(layers) \in Seq(Layer) /\ Keeps(Nodes(layers), Nodes(Made(layers)))
  <1> DEFINE T == {s \in Seq(Layer) :
                      Made(s) \in Seq(Layer) /\ Keeps(Nodes(s), Nodes(Made(s)))}
  <1>1. <<>> \in T
    <2>1. Made(<<>>) = <<>> /\ <<>> \in Seq(Layer)
      BY DEF Made
    <2>2. Keeps(Nodes(<<>>), Nodes(Made(<<>>)))
      BY <2>1, KeepsRefl
    <2>3. Made(<<>>) \in Seq(Layer)
      BY <2>1
    <2> QED
      BY <2>1, <2>2, <2>3
  <1>2. ASSUME NEW s \in Seq(Layer), s \in T, NEW x \in Layer
        PROVE  Append(s, x) \in T
    <2>1. MakeExpression(x) \in Layer /\ Keeps(x.out, MakeExpression(x).out)
      BY MakeExpressionIs
    <2>2. Made(Append(s, x)) = Append(Made(s), MakeExpression(x))
      BY DEF Made
    <2>3. Made(s) \in Seq(Layer) /\ Keeps(Nodes(s), Nodes(Made(s)))
      BY <1>2
    <2>4. /\ Nodes(Append(s, x)) = Nodes(s) \o x.out
          /\ Nodes(Made(Append(s, x))) = Nodes(Made(s)) \o MakeExpression(x).out
      BY <2>1, <2>2, <2>3, NodesAppend
    <2>5. /\ Nodes(s) \in Seq(Trees) /\ Nodes(Made(s)) \in Seq(Trees)
          /\ x.out \in Seq(Trees) /\ MakeExpression(x).out \in Seq(Trees)
      BY <2>1, <2>3, OutsType DEF Layer
    <2>6. Keeps(Nodes(Append(s, x)), Nodes(Made(Append(s, x))))
      BY <2>1, <2>3, <2>4, <2>5, TreesAre, KeepsConcat
    <2>7. Append(s, x) \in Seq(Layer) /\ Made(Append(s, x)) \in Seq(Layer)
      BY <2>1, <2>2, <2>3, EndsInAppended
    <2> QED
      BY <2>6, <2>7
  <1>3. Seq(Layer) \subseteq T
    <2> HIDE DEF T
    <2> QED
      BY <1>1, <1>2, SequenceInduct
  <1> QED
    BY <1>3
-----------------------------------------------------------------------------
(* The layers of a call: on the last of them there is no bracket.          *)

LayersOK(layers) ==
    /\ layers \in Seq(Layer) /\ layers # <<>>
    /\ \A k \in 1..Len(layers) : LayerOK(layers[k])
    /\ AreFunctions(Last(layers).ops)

(* The bottom of an else clause is its own function, until the clause has  *)
(* got its parameter.                                                      *)
Bottom(layers) == layers[1].ops # <<>> /\ layers[1].ops[1].op = "choice"

GotParameter(layers) ==
    /\ layers[1].out # <<>> /\ Last(layers[1].out).op = "choice"
    /\ Last(layers[1].out).args # <<>>

LEMMA LayerOKKept ==
    ASSUME NEW layer \in Layer, LayerOK(layer), NEW after \in Layer,
           NEW kept \in 0..Len(layer.ops), after.ops = SubSeq(layer.ops, 1, kept)
    PROVE  /\ LayerOK(after)
           /\ AreFunctions(layer.ops) => AreFunctions(after.ops)
           /\ Len(after.ops) = kept /\ \A j \in 1..kept : after.ops[j] = layer.ops[j]
  <1>1. layer.ops \in Seq(Trees) /\ Len(layer.ops) \in Nat
    BY DEF Layer
  <1>2. Len(after.ops) = kept /\ \A j \in 1..kept : after.ops[j] = layer.ops[j]
    BY <1>1
  <1>3. \A j \in 1..kept : /\ j \in 1..Len(layer.ops)
                           /\ j = Len(layer.ops) => j = kept
    BY <1>1
  <1>4. ASSUME NEW j \in 1..Len(after.ops)
        PROVE  after.ops[j].args = <<>> /\ (IsFunction(after.ops[j]) \/ j = Len(after.ops))
    BY <1>2, <1>3 DEF LayerOK
  <1>5. ASSUME NEW j \in 1..(Len(after.ops) - 1), IsFunction(after.ops[j + 1])
        PROVE  IsOrdered(after.ops[j], after.ops[j + 1]) \/ after.ops[j + 1].op = "cast"
    <2>1. j \in 1..(Len(layer.ops) - 1) /\ j \in 1..kept /\ j + 1 \in 1..kept
      BY <1>1, <1>2
    <2> QED
      BY <1>2, <1>5, <2>1 DEF LayerOK
  <1>6. AreFunctions(layer.ops) => AreFunctions(after.ops)
    BY <1>2, <1>3 DEF AreFunctions
  <1> QED
    BY <1>2, <1>4, <1>5, <1>6 DEF LayerOK

(* The same, for layers that are expressions.                              *)
IsKept(layer, after, kept) ==
    /\ layer \in Layer /\ LayerOK(layer) /\ after \in Layer
    /\ kept \in 0..Len(layer.ops) /\ after.ops = SubSeq(layer.ops, 1, kept)

KeptOK(layer, after, kept) ==
    /\ LayerOK(after)
    /\ AreFunctions(layer.ops) => AreFunctions(after.ops)
    /\ Len(after.ops) = kept /\ \A j \in 1..kept : after.ops[j] = layer.ops[j]

LEMMA KeptIsOK ==
    ASSUME NEW layer, NEW after, NEW kept, IsKept(layer, after, kept)
    PROVE  KeptOK(layer, after, kept)
  <1>1. /\ layer \in Layer /\ LayerOK(layer) /\ after \in Layer
        /\ kept \in 0..Len(layer.ops) /\ after.ops = SubSeq(layer.ops, 1, kept)
    BY DEF IsKept
  <1>2. /\ LayerOK(after)
        /\ AreFunctions(layer.ops) => AreFunctions(after.ops)
        /\ Len(after.ops) = kept /\ \A j \in 1..kept : after.ops[j] = layer.ops[j]
    BY <1>1, LayerOKKept
  <1> QED
    BY <1>2 DEF KeptOK

(* On functions that are ordered another may be put, or a bracket.         *)
LEMMA LayerOKPush ==
    ASSUME NEW layer \in Layer, LayerOK(layer), AreFunctions(layer.ops),
           NEW node \in Trees, node.args = <<>>,
           IsFunction(node) /\ Len(layer.ops) # 0 =>
               IsOrdered(layer.ops[Len(layer.ops)], node) \/ node.op = "cast",
           NEW after, after = PushOperator(layer, node)
    PROVE  /\ after \in Layer /\ LayerOK(after) /\ after.out = layer.out
           /\ IsFunction(node) => AreFunctions(after.ops)
           /\ Len(after.ops) = Len(layer.ops) + 1 /\ Len(layer.ops) \in Nat
           /\ after.ops[Len(layer.ops) + 1] = node
           /\ \A j \in 1..Len(layer.ops) : after.ops[j] = layer.ops[j]
  <1> DEFINE n == Len(layer.ops)
  <1>1. layer.ops \in Seq(Trees) /\ n \in Nat /\ layer.out \in Seq(Trees)
    BY DEF Layer
  <1>2. after = [out |-> layer.out, ops |-> Append(layer.ops, node)]
    BY DEF PushOperator, Layer
  <1>3. /\ after.ops \in Seq(Trees) /\ Len(after.ops) = n + 1 /\ after.ops[n + 1] = node
        /\ \A j \in 1..n : after.ops[j] = layer.ops[j]
    BY <1>1, <1>2, EndsInAppended
  <1> HIDE DEF n
  <1>4. ASSUME NEW j \in 1..(n + 1)
        PROVE  after.ops[j].args = <<>> /\ (IsFunction(after.ops[j]) \/ j = n + 1)
    <2>1. CASE j = n + 1
      BY <1>3, <2>1
    <2>2. CASE j # n + 1
      <3>1. j \in 1..n
        BY <1>1, <2>2
      <3> QED
        BY <1>3, <3>1 DEF LayerOK, AreFunctions, n
    <2> QED
      BY <2>1, <2>2
  <1>5. ASSUME NEW j \in 1..n, IsFunction(after.ops[j + 1])
        PROVE  IsOrdered(after.ops[j], after.ops[j + 1]) \/ after.ops[j + 1].op = "cast"
    <2>1. CASE j = n
      BY <1>3, <1>5, <2>1 DEF n
    <2>2. CASE j # n
      <3>1. j \in 1..(n - 1) /\ j + 1 \in 1..n
        BY <1>1, <2>2
      <3> QED
        BY <1>3, <1>5, <3>1 DEF LayerOK, n
    <2> QED
      BY <2>1, <2>2
  <1>6. LayerOK(after)
    <2>1. (n + 1) - 1 = n
      BY <1>1
    <2> QED
      BY <1>3, <1>4, <1>5, <2>1 DEF LayerOK
  <1>7. ASSUME IsFunction(node), NEW j \in 1..(n + 1)
        PROVE  IsFunction(after.ops[j])
    BY <1>3, <1>4, <1>7
  <1> QED
    BY <1>1, <1>2, <1>3, <1>6, <1>7 DEF Layer, AreFunctions, n

LEMMA LayersAppend ==
    ASSUME NEW layers \in Seq(Layer), \A k \in 1..Len(layers) : LayerOK(layers[k]),
           NEW layer \in Layer, LayerOK(layer), AreFunctions(layer.ops)
    PROVE  LayersOK(Append(layers, layer))
  <1>1. /\ Append(layers, layer) \in Seq(Layer) /\ Append(layers, layer) # <<>>
        /\ Last(Append(layers, layer)) = layer
        /\ Len(Append(layers, layer)) = Len(layers) + 1
        /\ Append(layers, layer)[Len(layers) + 1] = layer
        /\ \A j \in 1..Len(layers) : Append(layers, layer)[j] = layers[j]
    BY EndsInAppended
  <1>2. \A k \in 1..(Len(layers) + 1) : k \in 1..Len(layers) \/ k = Len(layers) + 1
    OBVIOUS
  <1>3. \A k \in 1..Len(Append(layers, layer)) : LayerOK(Append(layers, layer)[k])
    BY <1>1, <1>2
  <1> QED
    BY <1>1, <1>3 DEF LayersOK

(* The last layer is replaced.                                             *)
LEMMA LayersReplaced ==
    ASSUME NEW layers, LayersOK(layers), NEW layer \in Layer, LayerOK(layer),
           NEW after, after = Replaced(layers, layer)
    PROVE  /\ Top(layers) \in Layer /\ LayerOK(Top(layers)) /\ AreFunctions(Top(layers).ops)
           /\ after \in Seq(Layer) /\ after # <<>> /\ Len(after) = Len(layers)
           /\ Len(layers) \in Nat \ {0} /\ Top(layers) = layers[Len(layers)]
           /\ Top(after) = layer /\ after[Len(layers)] = layer
           /\ \A k \in 1..(Len(layers) - 1) : after[k] = layers[k]
           /\ \A k \in 1..Len(after) : LayerOK(after[k])
           /\ AreFunctions(layer.ops) => LayersOK(after)
  <1>1. /\ layers \in Seq(Layer) /\ layers # <<>>
        /\ \A k \in 1..Len(layers) : LayerOK(layers[k])
        /\ AreFunctions(Last(layers).ops)
    BY DEF LayersOK
  <1>2. /\ Front(layers) \in Seq(Layer) /\ Last(layers) \in Layer
        /\ Len(layers) \in Nat \ {0} /\ Len(Front(layers)) = Len(layers) - 1
        /\ \A j \in 1..(Len(layers) - 1) : Front(layers)[j] = layers[j]
    BY <1>1, EndsInLast
  <1>3. /\ after \in Seq(Layer) /\ after # <<>> /\ Last(after) = layer
        /\ Len(after) = Len(Front(layers)) + 1
        /\ after[Len(Front(layers)) + 1] = layer
        /\ \A j \in 1..Len(Front(layers)) : after[j] = Front(layers)[j]
    BY <1>2, EndsInAppended DEF Replaced
  <1>4. Len(layers) \in 1..Len(layers) /\ (Len(layers) - 1) + 1 = Len(layers)
    BY <1>2
  <1>5. \A k \in 1..Len(layers) : k \in 1..(Len(layers) - 1) \/ k = Len(layers)
    BY <1>2
  <1>6. \A k \in 1..(Len(layers) - 1) : k \in 1..Len(layers)
    BY <1>2
  <1>7. Len(after) = Len(layers) /\ after[Len(layers)] = layer
    BY <1>2, <1>3, <1>4
  <1>8. \A k \in 1..(Len(layers) - 1) : after[k] = layers[k]
    BY <1>2, <1>3
  <1>9. \A k \in 1..Len(after) : LayerOK(after[k])
    BY <1>1, <1>5, <1>6, <1>7, <1>8
  <1>10. Last(layers) = layers[Len(layers)]
    BY DEF Last
  <1> QED
    BY <1>1, <1>2, <1>3, <1>4, <1>7, <1>8, <1>9, <1>10 DEF LayersOK, Top

LEMMA TopIs ==
    ASSUME NEW layers, LayersOK(layers)
    PROVE  /\ Top(layers) \in Layer /\ LayerOK(Top(layers)) /\ AreFunctions(Top(layers).ops)
           /\ Len(layers) \in Nat \ {0} /\ Top(layers) = layers[Len(layers)]
  <1>1. EmptyLayer \in Layer /\ LayerOK(EmptyLayer)
    BY DEF EmptyLayer, Layer, LayerOK
  <1> QED
    BY <1>1, LayersReplaced

LEMMA ReplacedAreLayers ==
    ASSUME NEW layers, LayersOK(layers), NEW layer, layer \in Layer, LayerOK(layer),
           AreFunctions(layer.ops)
    PROVE  LayersOK(Replaced(layers, layer))
  BY LayersReplaced

(* What happens to the bottom when only the last layer changes.            *)
LEMMA BottomReplaced ==
    ASSUME NEW layers, LayersOK(layers), NEW layer \in Layer, LayerOK(layer),
           Bottom(layers),
           Bottom(<<Top(layers)>>) => Bottom(<<layer>>)
    PROVE  Bottom(Replaced(layers, layer))
  <1>1. /\ Len(layers) \in Nat \ {0} /\ Top(layers) = layers[Len(layers)]
        /\ Replaced(layers, layer)[Len(layers)] = layer
        /\ \A k \in 1..(Len(layers) - 1) : Replaced(layers, layer)[k] = layers[k]
    BY LayersReplaced
  <1>2. CASE Len(layers) = 1
    BY <1>1, <1>2 DEF Bottom
  <1>3. CASE Len(layers) # 1
    <2>1. 1 \in 1..(Len(layers) - 1)
      <3>1. \A n \in Nat \ {0} : n # 1 => 1 \in 1..(n - 1)
        OBVIOUS
      <3> QED
        BY <1>1, <1>3, <3>1
    <2> QED
      BY <1>1, <2>1 DEF Bottom
  <1> QED
    BY <1>2, <1>3
-----------------------------------------------------------------------------
(* What is done with the layers keeps the operands.                        *)

LEMMA PutFunctionIs ==
    ASSUME NEW layers, LayersOK(layers), NEW f \in Trees, IsFunction(f), f.args = <<>>,
           NEW after, after = PutFunction(layers, f)
    PROVE  /\ LayersOK(after)
           /\ Keeps(Nodes(layers), Nodes(after))
           /\ Bottom(layers) => Bottom(after)
  <1> DEFINE top == Top(layers)
             reduced == Reduced(top, f)
             pushed == PushOperator(reduced, f)
  <1>1. top \in Layer /\ LayerOK(top) /\ AreFunctions(top.ops)
    BY TopIs
  <1>2. /\ reduced \in Layer /\ Keeps(top.out, reduced.out)
        /\ \E kept \in 0..Len(top.ops) :
              /\ reduced.ops = SubSeq(top.ops, 1, kept)
              /\ kept # 0 => IsOrdered(top.ops[kept], f)
              /\ \A j \in (kept + 1)..Len(top.ops) : ~ IsOrdered(top.ops[j], f)
    <2> HIDE DEF top
    <2> QED
      BY <1>1, ReducedIs
  <1>3. PICK kept \in 0..Len(top.ops) :
              /\ reduced.ops = SubSeq(top.ops, 1, kept)
              /\ kept # 0 => IsOrdered(top.ops[kept], f)
              /\ \A j \in (kept + 1)..Len(top.ops) : ~ IsOrdered(top.ops[j], f)
    BY <1>2
  <1> HIDE DEF reduced, top
  <1>4. /\ LayerOK(reduced) /\ AreFunctions(reduced.ops)
        /\ Len(reduced.ops) = kept /\ \A j \in 1..kept : reduced.ops[j] = top.ops[j]
    <2>1. IsKept(top, reduced, kept)
      BY <1>1, <1>2, <1>3 DEF IsKept
    <2>2. KeptOK(top, reduced, kept)
      BY ONLY <2>1, KeptIsOK
    <2> QED
      BY <1>1, <2>2 DEF KeptOK
  <1>5. Len(reduced.ops) # 0 => IsOrdered(reduced.ops[Len(reduced.ops)], f)
    BY <1>3, <1>4
  <1>6. /\ pushed \in Layer /\ LayerOK(pushed) /\ pushed.out = reduced.out
        /\ AreFunctions(pushed.ops)
        /\ Len(pushed.ops) = kept + 1 /\ pushed.ops[kept + 1] = f
        /\ \A j \in 1..kept : pushed.ops[j] = top.ops[j]
    <2>0. /\ reduced \in Layer /\ LayerOK(reduced) /\ AreFunctions(reduced.ops)
          /\ f \in Trees /\ f.args = <<>> /\ IsFunction(f)
          /\ IsFunction(f) /\ Len(reduced.ops) # 0 =>
               IsOrdered(reduced.ops[Len(reduced.ops)], f) \/ f.op = "cast"
      BY <1>2, <1>4, <1>5
    <2>1. /\ pushed \in Layer /\ LayerOK(pushed) /\ pushed.out = reduced.out
          /\ AreFunctions(pushed.ops)
          /\ Len(pushed.ops) = Len(reduced.ops) + 1
          /\ pushed.ops[Len(reduced.ops) + 1] = f
          /\ \A j \in 1..Len(reduced.ops) : pushed.ops[j] = reduced.ops[j]
      BY <2>0, LayerOKPush
    <2> HIDE DEF pushed
    <2> QED
      BY <1>4, <2>1
  <1> HIDE DEF pushed
  <1>7. after = Replaced(layers, pushed)
    BY DEF PutFunction, pushed, reduced, top
  <1>8. LayersOK(after)
    BY <1>6, <1>7, LayersReplaced
  <1>9. Keeps(Nodes(layers), Nodes(after))
    <2>1. /\ Nodes(layers) = Nodes(Front(layers)) \o top.out
          /\ Nodes(after) = Nodes(Front(layers)) \o pushed.out
          /\ Nodes(Front(layers)) \in Seq(Trees) /\ top.out \in Seq(Trees)
      BY <1>6, <1>7, NodesReplaced DEF LayersOK, top
    <2>2. pushed.out \in Seq(Trees) /\ Keeps(top.out, pushed.out)
      BY <1>2, <1>6 DEF Layer
    <2> QED
      BY <2>1, <2>2, TreesAre, KeepsBehind
  <1>10. ASSUME Bottom(<<top>>)
         PROVE  Bottom(<<pushed>>)
    <2>1. pushed.ops \in Seq(Trees) /\ top.ops \in Seq(Trees) /\ Len(top.ops) \in Nat
      BY <1>1, <1>6 DEF Layer
    <2>2. top.ops # <<>> /\ top.ops[1].op = "choice"
      BY <1>10 DEF Bottom
    <2>3. CASE kept = 0
      <3>1. 1 \in (kept + 1)..Len(top.ops)
        BY <2>1, <2>2, <2>3
      <3>2. ~ IsOrdered(top.ops[1], f)
        BY <1>3, <3>1
      <3>3. f.op = "choice"
        BY <2>2, <3>2, Functions DEF IsOrdered, IsFunction
      <3> QED
        BY <1>6, <2>1, <2>3, <3>3 DEF Bottom
    <2>4. CASE kept # 0
      <3>1. 1 \in 1..kept
        BY <2>4
      <3> QED
        BY <1>6, <2>1, <2>2, <3>1 DEF Bottom
    <2> QED
      BY <2>3, <2>4
  <1>11. Bottom(layers) => Bottom(after)
    BY <1>6, <1>7, <1>10, BottomReplaced DEF top
  <1> QED
    BY <1>8, <1>9, <1>11

LEMMA PushOutputIs ==
    ASSUME NEW layers, LayersOK(layers), NEW nodes \in Seq(Trees),
           NEW after, after = Replaced(layers, PushOutput(Top(layers), nodes))
    PROVE  /\ LayersOK(after)
           /\ Nodes(after) = Nodes(layers) \o nodes
           /\ Bottom(layers) => Bottom(after)
           /\ Nodes(layers) \in Seq(Trees)
           /\ Len(after) = Len(layers) /\ Len(layers) \in Nat \ {0}
           /\ after[Len(layers)].out = Top(layers).out \o nodes
           /\ Top(layers).out \in Seq(Trees)
  <1> DEFINE top == Top(layers)
             pushed == PushOutput(top, nodes)
  <1>1. top \in Layer /\ LayerOK(top) /\ AreFunctions(top.ops) /\ Len(layers) \in Nat \ {0}
    BY TopIs
  <1> HIDE DEF top
  <1>2. pushed = [out |-> top.out \o nodes, ops |-> top.ops] /\ top.out \in Seq(Trees)
    <2>1. top \in [out : Seq(Trees), ops : Seq(Trees)]
      BY <1>1 DEF Layer
    <2>2. top.out \in Seq(Trees)
      BY <2>1
    <2>3. \A v : [top EXCEPT !.out = v] = [out |-> v, ops |-> top.ops]
      BY <2>1
    <2> QED
      BY <2>2, <2>3 DEF PushOutput
  <1>3. pushed \in Layer /\ LayerOK(pushed) /\ AreFunctions(pushed.ops)
    BY <1>1, <1>2 DEF Layer, LayerOK
  <1> HIDE DEF pushed
  <1>4. after = Replaced(layers, pushed)
    BY DEF pushed, top
  <1>5. LayersOK(after) /\ Len(after) = Len(layers) /\ after[Len(layers)] = pushed
    BY <1>3, <1>4, LayersReplaced
  <1>6. /\ Nodes(layers) = Nodes(Front(layers)) \o top.out
        /\ Nodes(after) = Nodes(Front(layers)) \o pushed.out
        /\ Nodes(Front(layers)) \in Seq(Trees)
    BY <1>3, <1>4, NodesReplaced DEF LayersOK, top
  <1>7. Nodes(after) = Nodes(layers) \o nodes /\ Nodes(layers) \in Seq(Trees)
    <2>1. (Nodes(Front(layers)) \o top.out) \o nodes = Nodes(Front(layers)) \o (top.out \o nodes)
      <3>1. Nodes(Front(layers)) \in Seq(Trees) /\ top.out \in Seq(Trees) /\ nodes \in Seq(Trees)
        BY <1>2, <1>6
      <3>2. \A a, b, c \in Seq(Trees) : (a \o b) \o c = a \o (b \o c)
        BY ConcatAssociative
      <3> QED
        BY <3>1, <3>2
    <2>2. Nodes(Front(layers)) \o top.out \in Seq(Trees)
      BY <1>2, <1>6, ConcatProperties
    <2>3. pushed.out = top.out \o nodes
      BY <1>2
    <2> QED
      BY <1>6, <2>1, <2>2, <2>3
  <1>8. Bottom(layers) => Bottom(after)
    <2>1. Bottom(<<top>>) => Bottom(<<pushed>>)
      BY <1>2 DEF Bottom
    <2> QED
      BY <1>3, <1>4, <2>1, BottomReplaced DEF top
  <1> QED
    BY <1>1, <1>2, <1>5, <1>7, <1>8 DEF top

(* A layer is opened, by a bracket or behind a parameter.                  *)
LEMMA OpenedLayerIs ==
    ASSUME NEW layers \in Seq(Layer), \A k \in 1..Len(layers) : LayerOK(layers[k]),
           NEW after, after = Append(layers, EmptyLayer)
    PROVE  LayersOK(after) /\ Nodes(after) = Nodes(layers)
  <1>1. EmptyLayer \in Layer /\ LayerOK(EmptyLayer) /\ AreFunctions(EmptyLayer.ops)
        /\ EmptyLayer.out = <<>>
    BY DEF EmptyLayer, Layer, LayerOK, AreFunctions
  <1>2. LayersOK(after)
    BY <1>1, LayersAppend
  <1>3. Nodes(after) = Nodes(layers) \o <<>> /\ Nodes(layers) \in Seq(Trees)
    BY <1>1, NodesAppend, OutsType
  <1> QED
    BY <1>2, <1>3

LEMMA OpenBracketIs ==
    ASSUME NEW layers, LayersOK(layers), NEW unit \in Trees, unit.args = <<>>,
           ~ IsFunction(unit), NEW after, after = OpenBracket(layers, unit)
    PROVE  /\ LayersOK(after)
           /\ Nodes(after) = Nodes(layers)
           /\ Bottom(layers) => Bottom(after)
  <1> DEFINE top == Top(layers)
             pushed == PushOperator(top, unit)
             below == Replaced(layers, pushed)
  <1>1. top \in Layer /\ LayerOK(top) /\ AreFunctions(top.ops) /\ Len(layers) \in Nat \ {0}
    BY TopIs
  <1> HIDE DEF top
  <1>2. /\ pushed \in Layer /\ LayerOK(pushed) /\ pushed.out = top.out
        /\ Len(pushed.ops) = Len(top.ops) + 1 /\ Len(top.ops) \in Nat
        /\ \A j \in 1..Len(top.ops) : pushed.ops[j] = top.ops[j]
    BY <1>1, LayerOKPush
  <1> HIDE DEF pushed
  <1>3. /\ below \in Seq(Layer) /\ \A k \in 1..Len(below) : LayerOK(below[k])
        /\ below # <<>> /\ Len(below) = Len(layers)
    BY <1>2, LayersReplaced
  <1>4. Nodes(below) = Nodes(layers)
    BY <1>2, NodesReplaced DEF LayersOK, top
  <1>5. Bottom(layers) => Bottom(below)
    <2>1. Bottom(<<top>>) => Bottom(<<pushed>>)
      <3>1. top.ops \in Seq(Trees)
        BY <1>1 DEF Layer
      <3>2. top.ops # <<>> => 1 \in 1..Len(top.ops)
        BY <3>1
      <3>3. Len(pushed.ops) # 0
        BY <1>2
      <3>4. pushed.ops # <<>>
        BY <3>3
      <3> QED
        BY <1>2, <3>2, <3>4 DEF Bottom
    <2> QED
      BY <1>2, <2>1, BottomReplaced DEF top
  <1>6. after = Append(below, EmptyLayer)
    BY DEF OpenBracket, below, pushed, top
  <1> HIDE DEF below
  <1>7. LayersOK(after) /\ Nodes(after) = Nodes(below)
    BY <1>3, <1>6, OpenedLayerIs
  <1>8. after[1] = below[1]
    BY <1>3, <1>6
  <1> QED
    BY <1>4, <1>5, <1>7, <1>8 DEF Bottom

LEMMA SeparateIs ==
    ASSUME NEW layers, LayersOK(layers), NEW after, after = Separate(layers)
    PROVE  /\ LayersOK(after)
           /\ Keeps(Nodes(layers), Nodes(after))
           /\ Bottom(layers) => Bottom(after) \/ GotParameter(after)
  <1> DEFINE top == Top(layers)
             made == MakeExpression(top)
             below == Replaced(layers, made)
  <1>1. /\ top \in Layer /\ LayerOK(top) /\ AreFunctions(top.ops)
        /\ Len(layers) \in Nat \ {0} /\ top = layers[Len(layers)]
    BY TopIs
  <1> HIDE DEF top
  <1>2. /\ made \in Layer
        /\ Keeps(top.out, made.out)
        /\ top.out = <<>> => made = top
        /\ \E kept \in 0..Len(top.ops) : made.ops = SubSeq(top.ops, 1, kept)
        /\ top.out # <<>> /\ top.ops # <<>> =>
              /\ made.out # <<>> /\ Last(made.out).args # <<>>
              /\ Last(made.out).op = top.ops[1].op
    BY <1>1, MakeExpressionIs
  <1> HIDE DEF made
  <1>3. LayerOK(made)
    BY <1>1, <1>2, LayerOKKept
  <1>4. /\ below \in Seq(Layer) /\ \A k \in 1..Len(below) : LayerOK(below[k])
        /\ below # <<>> /\ Len(below) = Len(layers) /\ below[Len(layers)] = made
        /\ \A k \in 1..(Len(layers) - 1) : below[k] = layers[k]
    BY <1>2, <1>3, LayersReplaced
  <1>5. Keeps(Nodes(layers), Nodes(below))
    <2>1. /\ Nodes(layers) = Nodes(Front(layers)) \o top.out
          /\ Nodes(below) = Nodes(Front(layers)) \o made.out
          /\ Nodes(Front(layers)) \in Seq(Trees) /\ top.out \in Seq(Trees)
      BY <1>2, NodesReplaced DEF LayersOK, top
    <2>2. made.out \in Seq(Trees)
      BY <1>2 DEF Layer
    <2> QED
      BY <1>2, <2>1, <2>2, TreesAre, KeepsBehind
  <1>6. after = Append(below, EmptyLayer)
    BY DEF Separate, below, made, top
  <1>7. LayersOK(after) /\ Nodes(after) = Nodes(below)
    <2> HIDE DEF below
    <2> QED
      BY <1>4, <1>6, OpenedLayerIs
  <1>8. after[1] = below[1]
    <2> HIDE DEF below
    <2> QED
      BY <1>4, <1>6
  <1>9. Bottom(layers) => Bottom(below) \/ GotParameter(below)
    <2> HIDE DEF below
    <2>1. CASE Len(layers) = 1
      <3>1. below[1] = made /\ layers[1] = top
        BY <1>1, <1>4, <2>1
      <3> QED
        BY <1>2, <3>1 DEF Bottom, GotParameter
    <2>2. CASE Len(layers) # 1
      <3>1. \A n \in Nat \ {0} : n # 1 => 1 \in 1..(n - 1)
        OBVIOUS
      <3>2. below[1] = layers[1]
        BY <1>1, <1>4, <2>2, <3>1
      <3> QED
        BY <3>2 DEF Bottom
    <2> QED
      BY <2>1, <2>2
  <1> QED
    BY <1>5, <1>7, <1>8, <1>9 DEF Bottom, GotParameter

(* What is behind the layer of a bracket are its parameters.               *)
LEMMA OwnerIs ==
    ASSUME NEW layers \in Seq(Layer), NEW opening, NEW k, k = OwnerOf(layers, opening), k # 0
    PROVE  /\ k \in 1..Len(layers)
           /\ layers[k].ops # <<>> /\ Last(layers[k].ops).op = opening
           /\ \A j \in (k + 1)..Len(layers) : IsSingle(layers[j])
  <1> DEFINE opened == {j \in 1..Len(layers) :
                           layers[j].ops # <<>> /\ Last(layers[j].ops).op = opening}
             owner == Max({0} \union opened)
  <1>1. Len(layers) \in Nat /\ opened \in SUBSET (1..Len(layers))
    OBVIOUS
  <1>2. owner \in {0} \union opened
    <2> HIDE DEF opened
    <2> QED
      BY <1>1, MaxIs
  <1>3. k = IF \A j \in (owner + 1)..Len(layers) : IsSingle(layers[j]) THEN owner ELSE 0
    BY DEF OwnerOf
  <1> HIDE DEF owner
  <1> QED
    BY <1>2, <1>3

Parameters(layers, k) == [j \in 1..(Len(layers) - k) |-> layers[k + j].out[1]]

LEMMA ParametersAre ==
    ASSUME NEW layers \in Seq(Layer), NEW k \in 1..Len(layers),
           \A j \in (k + 1)..Len(layers) : IsSingle(layers[j]),
           NEW params, params = Parameters(layers, k)
    PROVE  /\ params \in Seq(Trees)
           /\ Nodes(layers) = Nodes(SubSeq(layers, 1, k)) \o params
           /\ SubSeq(layers, 1, k) \in Seq(Layer)
  <1> DEFINE n == Len(layers)
             behind == SubSeq(layers, k + 1, n)
             below == SubSeq(layers, 1, k)
  <1>1. n \in Nat /\ k \in Nat /\ k <= n
    OBVIOUS
  <1>2. /\ below \in Seq(Layer) /\ behind \in Seq(Layer)
        /\ Len(behind) = n - k /\ \A j \in 1..(n - k) : behind[j] = layers[k + j]
    BY <1>1
  <1>3. below \o behind = layers
    <2>1. 1 \in 1..(n + 1) /\ k \in (1 - 1)..n /\ n \in k..n
      BY <1>1
    <2>2. SubSeq(layers, 1, k) \o SubSeq(layers, k + 1, n) = SubSeq(layers, 1, n)
      BY <2>1, ConcatAdjacentSubSeq
    <2> QED
      BY <2>2, SubSeqFull
  <1> HIDE DEF behind, below
  <1>4. \A j \in 1..Len(behind) : IsSingle(behind[j])
    <2>1. \A j \in 1..(n - k) : k + j \in (k + 1)..n
      BY <1>1
    <2> QED
      BY <1>2, <2>1
  <1>5. /\ Nodes(behind) = [j \in 1..Len(behind) |-> behind[j].out[1]]
        /\ Nodes(behind) \in Seq(Trees)
    BY <1>2, <1>4, SinglesAreNodes
  <1>6. params = Nodes(behind)
    BY <1>2, <1>5 DEF Parameters
  <1>7. Nodes(below \o behind) = Nodes(below) \o Nodes(behind)
    BY <1>2, NodesConcat
  <1> QED
    BY <1>2, <1>3, <1>5, <1>6, <1>7 DEF below

(* The layers when the bracket on the k-th is gone with what is above it.  *)
Unbracketed(layers, k) ==
    Append(SubSeq(layers, 1, k - 1), [layers[k] EXCEPT !.ops = Front(@)])

(* The layers with the expression of the last made, or without it when it  *)
(* is empty, and the bracket found in them.                                *)
IsBracketed(layers, filled, opening, k) ==
    /\ LayersOK(layers)
    /\ filled \in Seq(Layer) /\ Len(filled) <= Len(layers)
    /\ \A j \in 1..Len(filled) : LayerOK(filled[j])
    /\ \A j \in 1..(Len(layers) - 1) : j <= Len(filled) => filled[j] = layers[j]
    /\ Len(filled) = Len(layers) => filled[Len(layers)].ops = <<>>
    /\ opening # "choice" /\ k = OwnerOf(filled, opening) /\ k # 0

LEMMA UnbracketedIs ==
    ASSUME NEW layers, NEW filled, NEW opening, NEW k, IsBracketed(layers, filled, opening, k),
           NEW base, base = Unbracketed(filled, k)
    PROVE  /\ LayersOK(base)
           /\ Parameters(filled, k) \in Seq(Trees)
           /\ Nodes(filled) = Nodes(base) \o Parameters(filled, k)
           /\ Nodes(base) \in Seq(Trees)
           /\ Bottom(layers) => Bottom(base)
           /\ k \in 1..Len(filled)
           /\ Top(base) = [filled[k] EXCEPT !.ops = Front(@)]
           /\ \A layer \in Layer : /\ Replaced(SubSeq(filled, 1, k), layer) = Replaced(base, layer)
                                   /\ Append(SubSeq(filled, 1, k - 1), layer) = Replaced(base, layer)
  <1> DEFINE below == SubSeq(filled, 1, k)
             front == SubSeq(filled, 1, k - 1)
             owner == filled[k]
             layer == [owner EXCEPT !.ops = Front(@)]
             params == Parameters(filled, k)
  <1>0. /\ LayersOK(layers)
        /\ filled \in Seq(Layer) /\ Len(filled) <= Len(layers)
        /\ \A j \in 1..Len(filled) : LayerOK(filled[j])
        /\ \A j \in 1..(Len(layers) - 1) : j <= Len(filled) => filled[j] = layers[j]
        /\ Len(filled) = Len(layers) => filled[Len(layers)].ops = <<>>
        /\ opening # "choice" /\ k = OwnerOf(filled, opening) /\ k # 0
    BY DEF IsBracketed
  <1>1. /\ k \in 1..Len(filled)
        /\ owner.ops # <<>> /\ Last(owner.ops).op = opening
        /\ \A j \in (k + 1)..Len(filled) : IsSingle(filled[j])
    BY <1>0, OwnerIs
  <1>2. /\ params \in Seq(Trees) /\ Nodes(filled) = Nodes(below) \o params
        /\ below \in Seq(Layer)
    BY <1>0, <1>1, ParametersAre
  <1> HIDE DEF params
  <1>3. owner \in Layer /\ LayerOK(owner)
    BY <1>0, <1>1
  <1>4. /\ Len(filled) \in Nat /\ k \in Nat /\ k >= 1 /\ k <= Len(filled)
        /\ Len(below) = k /\ below # <<>> /\ below[k] = owner
        /\ \A j \in 1..(k - 1) : below[j] = filled[j]
    BY <1>0, <1>1
  <1>5. /\ front \in Seq(Layer) /\ Len(front) = k - 1
        /\ \A j \in 1..(k - 1) : front[j] = filled[j]
    <2>1. filled \in Seq(Layer)
      BY <1>0
    <2> QED
      BY <1>4, <2>1
  <1>6. Front(below) = front /\ Last(below) = owner
    <2>1. SubSeq(SubSeq(filled, 1, k), 1, k - 1) = SubSeq(filled, 1, k - 1)
      BY <1>0, <1>4
    <2> QED
      BY <1>4, <2>1 DEF Front, Last
  <1> HIDE DEF below, front, owner
  <1>7. /\ owner.ops \in Seq(Trees) /\ owner.out \in Seq(Trees)
        /\ owner = [out |-> owner.out, ops |-> owner.ops]
    BY <1>3 DEF Layer
  <1>8. /\ Front(owner.ops) \in Seq(Trees) /\ Len(owner.ops) \in Nat \ {0}
        /\ Len(Front(owner.ops)) = Len(owner.ops) - 1
        /\ Front(owner.ops) = SubSeq(owner.ops, 1, Len(owner.ops) - 1)
        /\ \A j \in 1..(Len(owner.ops) - 1) : Front(owner.ops)[j] = owner.ops[j]
    BY <1>1, <1>7, EndsInLast DEF Front
  <1>9. layer = [out |-> owner.out, ops |-> Front(owner.ops)]
    BY <1>7
  <1> HIDE DEF layer
  <1>10. layer \in Layer /\ layer.out = owner.out /\ layer.ops = Front(owner.ops)
    BY <1>7, <1>8, <1>9 DEF Layer
  <1>11. LayerOK(layer)
    <2>1. \A n \in Nat \ {0} : n - 1 \in 0..n
      OBVIOUS
    <2>2. Len(owner.ops) - 1 \in 0..Len(owner.ops)
      BY <1>8, <2>1
    <2> QED
      BY <1>3, <1>8, <1>10, <2>2, LayerOKKept
  <1>12. AreFunctions(layer.ops)
    <2>1. ASSUME NEW j \in 1..Len(layer.ops)
          PROVE  IsFunction(layer.ops[j])
      <3>1. j \in 1..Len(owner.ops) /\ j # Len(owner.ops) /\ layer.ops[j] = owner.ops[j]
        BY <1>8, <1>10
      <3> QED
        BY <1>3, <3>1 DEF LayerOK
    <2> QED
      BY <2>1 DEF AreFunctions
  <1>13. base = Append(front, layer)
    BY DEF Unbracketed, front, layer, owner
  <1>14. LayersOK(base)
    <2>1. \A j \in 1..Len(front) : LayerOK(front[j])
      <3>1. \A j \in 1..(k - 1) : j \in 1..Len(filled)
        BY <1>4
      <3> QED
        BY <1>0, <1>5, <3>1
    <2> QED
      BY <1>5, <1>10, <1>11, <1>12, <1>13, <2>1, LayersAppend
  <1>15. Nodes(base) = Nodes(below)
    <2>1. Nodes(base) = Nodes(front) \o owner.out
      BY <1>5, <1>10, <1>13, NodesAppend
    <2>2. Nodes(below) = Nodes(Front(below)) \o Top(below).out
      BY <1>2, <1>3, <1>4, NodesReplaced
    <2> QED
      BY <1>6, <2>1, <2>2 DEF Top
  <1>16. /\ Front(base) = front /\ Top(base) = layer
         /\ \A j \in 1..(k - 1) : base[j] = front[j]
         /\ base[k] = layer /\ base \in Seq(Layer)
    <2>1. /\ Append(front, layer) \in Seq(Layer)
          /\ Front(Append(front, layer)) = front /\ Last(Append(front, layer)) = layer
          /\ Append(front, layer)[Len(front) + 1] = layer
          /\ \A j \in 1..Len(front) : Append(front, layer)[j] = front[j]
      BY <1>5, <1>10, EndsInAppended
    <2>2. Len(front) + 1 = k
      BY <1>4, <1>5
    <2> QED
      BY <1>5, <1>13, <2>1, <2>2 DEF Top
  <1>17. ASSUME NEW x \in Layer
         PROVE  /\ Replaced(SubSeq(filled, 1, k), x) = Replaced(base, x)
                /\ Append(SubSeq(filled, 1, k - 1), x) = Replaced(base, x)
    BY <1>6, <1>16 DEF Replaced, below, front
  <1>18. k <= Len(layers) - 1
    <2>1. Len(layers) \in Nat
      BY <1>0 DEF LayersOK
    <2>2. k # Len(layers)
      <3> SUFFICES ASSUME k = Len(layers) PROVE FALSE
        OBVIOUS
      <3>1. Len(filled) = Len(layers)
        BY <1>0, <1>4, <2>1
      <3> QED
        BY <1>0, <1>1, <3>1 DEF owner
    <2> QED
      BY <1>0, <1>4, <2>1, <2>2
  <1>19. ASSUME Bottom(layers)
         PROVE  Bottom(base)
    <2>1. layers[1].ops # <<>> /\ layers[1].ops[1].op = "choice" /\ filled[1] = layers[1]
      <3>1. 1 \in 1..(Len(layers) - 1) /\ 1 <= Len(filled)
        <4>1. Len(layers) \in Nat
          BY <1>0 DEF LayersOK
        <4> QED
          BY <1>4, <1>18, <4>1
      <3> QED
        BY <1>0, <1>19, <3>1 DEF Bottom
    <2>2. CASE k = 1
      <3>1. base[1] = layer /\ owner = layers[1]
        BY <1>16, <2>1, <2>2 DEF owner
      <3>2. Len(owner.ops) # 1
        BY <1>0, <1>1, <2>1, <3>1 DEF Last
      <3>3. \A n \in Nat \ {0} : n # 1 => 1 \in 1..(n - 1) /\ n - 1 # 0
        OBVIOUS
      <3>4. /\ Front(owner.ops)[1] = owner.ops[1] /\ Len(Front(owner.ops)) # 0
        BY <1>8, <3>2, <3>3
      <3>5. Front(owner.ops) # <<>>
        BY <3>4
      <3> QED
        BY <1>10, <2>1, <3>1, <3>4, <3>5 DEF Bottom
    <2>3. CASE k # 1
      <3>1. 1 \in 1..(k - 1)
        BY <1>4, <2>3
      <3> QED
        BY <1>5, <1>16, <2>1, <3>1 DEF Bottom
    <2> QED
      BY <2>2, <2>3
  <1>20. Nodes(base) \in Seq(Trees)
    BY <1>16, OutsType
  <1> QED
    BY <1>1, <1>2, <1>14, <1>15, <1>16, <1>17, <1>19, <1>20 DEF layer, owner, params

LEMMA OpeningsAreNot ==
    /\ OpeningOf["round"] # "choice" /\ OpeningOf["curly"] # "choice" /\ "[" # "choice"
    /\ ~ ("(" \in DOMAIN Priority) /\ ~ ("{" \in DOMAIN Priority) /\ ~ ("[" \in DOMAIN Priority)
    /\ ~ ("(" \in Operand) /\ ~ ("{" \in Operand) /\ ~ ("[" \in Operand)
  <1>1. DOMAIN Priority = {"call", "subscript", "postfix", "cast", "neg", "prefix", "deref",
                           "mul", "add", "sub", "eq", "question", "clause", "assign", "choice"}
    BY DEF Priority
  <1>2. OpeningOf["round"] = "(" /\ OpeningOf["curly"] = "{"
    BY DEF OpeningOf
  <1>3. OpeningOf["round"] # "choice" /\ OpeningOf["curly"] # "choice" /\ "[" # "choice"
    BY <1>2
  <1>4. ~ ("(" \in DOMAIN Priority) /\ ~ ("{" \in DOMAIN Priority) /\ ~ ("[" \in DOMAIN Priority)
    BY <1>1
  <1>5. ~ ("(" \in Operand) /\ ~ ("{" \in Operand) /\ ~ ("[" \in Operand)
    BY DEF Operand
  <1> QED
    BY <1>3, <1>4, <1>5

(* A call, or a subscript, and the list of its parameters.                 *)
PushedCall(layers, op, params) ==
    LET called == PutFunction(layers, Unit(op))
    IN  Replaced(called, PushOutput(Top(called), <<Node("params", 0, params)>>))

LEMMA PushedCallIs ==
    ASSUME NEW layers, LayersOK(layers), NEW op \in DOMAIN Priority, NEW params \in Seq(Trees),
           NEW after, after = PushedCall(layers, op, params)
    PROVE  /\ LayersOK(after)
           /\ Keeps(Nodes(layers) \o params, Nodes(after))
           /\ Bottom(layers) => Bottom(after)
  <1> DEFINE f == Unit(op)
             called == PutFunction(layers, f)
             list == Node("params", 0, params)
  <1>1. f \in Trees /\ IsFunction(f) /\ f.args = <<>>
    <2>1. op \in Parents /\ 0 \in Nat /\ <<>> \in Seq(Trees)
      BY Functions
    <2>2. f \in [op : Parents, i : Nat, args : Seq(Trees)]
      BY <2>1 DEF Unit, Node
    <2> QED
      BY <2>2, TreesAre DEF AreAllTrees, IsFunction, Unit, Node
  <1>2. list \in Trees /\ ~ IsValue(list) /\ list.args = params
    <2>1. "params" \in Parents /\ 0 \in Nat /\ "params" \notin Operand
      BY DEF Parents, Operand
    <2>2. list \in [op : Parents, i : Nat, args : Seq(Trees)]
      BY <2>1 DEF Node
    <2> QED
      BY <2>1, <2>2, TreesAre DEF AreAllTrees, Node, IsValue, IsOperand
  <1> HIDE DEF f, list
  <1>3. /\ LayersOK(called) /\ Keeps(Nodes(layers), Nodes(called))
        /\ Bottom(layers) => Bottom(called)
    BY <1>1, PutFunctionIs
  <1> HIDE DEF called
  <1>4. after = Replaced(called, PushOutput(Top(called), <<list>>)) /\ <<list>> \in Seq(Trees)
    BY <1>2 DEF PushedCall, called, f, list
  <1>5. /\ LayersOK(after) /\ Nodes(after) = Nodes(called) \o <<list>>
        /\ Bottom(called) => Bottom(after)
        /\ Nodes(called) \in Seq(Trees)
    BY <1>3, <1>4, PushOutputIs
  <1>6. Keeps(params, <<list>>)
    BY <1>2, TreesAre, KeepsWrapped
  <1>7. Nodes(layers) \in Seq(Trees)
    BY OutsType DEF LayersOK
  <1>8. Keeps(Nodes(layers) \o params, Nodes(called) \o <<list>>)
    BY <1>3, <1>4, <1>5, <1>6, <1>7, TreesAre, KeepsConcat
  <1> QED
    BY <1>3, <1>5, <1>8

(* A closing bracket: the layers above its opening one become parameters.  *)
LEMMA CloseBracketIs ==
    ASSUME NEW layers, LayersOK(layers), NEW unit, OpeningOf[unit.op] # "choice",
           NEW after, after = CloseBracket(layers, unit), after # Failure
    PROVE  /\ LayersOK(after)
           /\ Keeps(Nodes(layers), Nodes(after))
           /\ Bottom(layers) => Bottom(after)
  <1> DEFINE top == Top(layers)
             made == MakeExpression(top)
             filled == IF made.out = <<>> THEN Front(layers) ELSE Replaced(layers, made)
             opening == OpeningOf[unit.op]
             k == OwnerOf(filled, opening)
             params == [j \in 1..(Len(filled) - k) |-> filled[k + j].out[1]]
             layer == [filled[k] EXCEPT !.ops = Front(@)]
             base == Unbracketed(filled, k)
             cast == Node("cast", params[1].i, <<>>)
             called == PutFunction(base, Unit("call"))
             list == Node("params", 0, params)
  <1>1. /\ top \in Layer /\ LayerOK(top) /\ AreFunctions(top.ops)
        /\ Len(layers) \in Nat \ {0} /\ layers \in Seq(Layer) /\ layers # <<>>
        /\ \A j \in 1..Len(layers) : LayerOK(layers[j])
    BY TopIs DEF LayersOK
  <1> HIDE DEF top
  <1>2. /\ made \in Layer /\ Keeps(top.out, made.out)
        /\ \E kept \in 0..Len(top.ops) : made.ops = SubSeq(top.ops, 1, kept)
    BY <1>1, MakeExpressionIs
  <1> HIDE DEF made
  <1>3. LayerOK(made)
    BY <1>1, <1>2, LayerOKKept
  <1>4. made.ops = <<>> /\ k # 0
    BY DEF CloseBracket, filled, made, top, k, opening
  <1>5. /\ filled \in Seq(Layer) /\ \A j \in 1..Len(filled) : LayerOK(filled[j])
        /\ Len(filled) <= Len(layers)
        /\ \A j \in 1..(Len(layers) - 1) : j <= Len(filled) => filled[j] = layers[j]
        /\ Len(filled) = Len(layers) => filled[Len(layers)].ops = <<>>
        /\ Keeps(Nodes(layers), Nodes(filled))
    <2>1. /\ Nodes(layers) = Nodes(Front(layers)) \o top.out
          /\ Nodes(Replaced(layers, made)) = Nodes(Front(layers)) \o made.out
          /\ Nodes(Front(layers)) \in Seq(Trees) /\ top.out \in Seq(Trees)
          /\ made.out \in Seq(Trees)
      BY <1>1, <1>2, NodesReplaced DEF top, Layer
    <2>2. Keeps(Nodes(layers), Nodes(Front(layers)) \o made.out)
      BY <1>2, <2>1, TreesAre, KeepsBehind
    <2>3. CASE made.out = <<>>
      <3>1. /\ Front(layers) \in Seq(Layer) /\ Len(Front(layers)) = Len(layers) - 1
            /\ \A j \in 1..(Len(layers) - 1) : Front(layers)[j] = layers[j]
        BY <1>1, EndsInLast
      <3>2. /\ \A n \in Nat \ {0} : \A j \in 1..(n - 1) : j \in 1..n
            /\ \A n \in Nat \ {0} : n - 1 <= n /\ n - 1 # n
        OBVIOUS
      <3>3. Nodes(Front(layers)) \o made.out = Nodes(Front(layers))
        BY <2>1, <2>3
      <3>4. filled = Front(layers)
        BY <2>3
      <3> HIDE DEF filled
      <3> QED
        BY <1>1, <2>2, <3>1, <3>2, <3>3, <3>4
    <2>4. CASE made.out # <<>>
      <3>1. /\ filled \in Seq(Layer) /\ Len(filled) = Len(layers)
            /\ filled[Len(layers)] = made
            /\ \A j \in 1..(Len(layers) - 1) : filled[j] = layers[j]
            /\ \A j \in 1..Len(filled) : LayerOK(filled[j])
        BY <1>2, <1>3, <2>4, LayersReplaced
      <3>2. filled = Replaced(layers, made)
        BY <2>4
      <3> HIDE DEF filled
      <3>3. Len(filled) <= Len(layers) /\ filled[Len(layers)].ops = <<>>
        BY <1>1, <1>4, <3>1
      <3>4. Keeps(Nodes(layers), Nodes(filled))
        BY <2>1, <2>2, <3>2
      <3> QED
        BY <3>1, <3>3, <3>4
    <2> QED
      BY <2>3, <2>4
  <1> HIDE DEF filled, opening
  <1>6. opening # "choice"
    BY DEF opening
  <1>7. /\ LayersOK(base)
        /\ params \in Seq(Trees) /\ Nodes(filled) = Nodes(base) \o params
        /\ Nodes(base) \in Seq(Trees)
        /\ Bottom(layers) => Bottom(base)
        /\ Top(base) = layer
        /\ \A x \in Layer : Replaced(SubSeq(filled, 1, k), x) = Replaced(base, x)
    <2> HIDE DEF params, base, k
    <2>1. params = Parameters(filled, k)
      BY DEF params, Parameters
    <2>2. k = OwnerOf(filled, opening) /\ base = Unbracketed(filled, k)
      BY DEF k, base
    <2> HIDE DEF layer
    <2>3. IsBracketed(layers, filled, opening, k)
      BY <1>4, <1>5, <1>6, <2>2 DEF IsBracketed
    <2>4. /\ LayersOK(base)
          /\ Parameters(filled, k) \in Seq(Trees)
          /\ Nodes(filled) = Nodes(base) \o Parameters(filled, k)
          /\ Nodes(base) \in Seq(Trees)
          /\ Bottom(layers) => Bottom(base)
          /\ Top(base) = [filled[k] EXCEPT !.ops = Front(@)]
          /\ \A x \in Layer : Replaced(SubSeq(filled, 1, k), x) = Replaced(base, x)
      BY <2>2, <2>3, UnbracketedIs
    <2> QED
      BY <2>1, <2>4 DEF layer
  <1> HIDE DEF k, params, base, layer
  <1>8. /\ layer \in Layer /\ LayerOK(layer) /\ AreFunctions(layer.ops)
    BY <1>7, TopIs
  <1>9. \/ /\ Len(params) = 1 /\ params[1].op = "type"
           /\ after = Replaced(SubSeq(filled, 1, k), PushOperator(layer, cast))
        \/ after = LET c == PutFunction(Replaced(SubSeq(filled, 1, k), layer), Unit("call"))
                   IN  Replaced(c, PushOutput(Top(c), <<list>>))
        \/ after = Replaced(SubSeq(filled, 1, k), PushOutput(layer, params))
    BY <1>4, Zenon DEF CloseBracket, filled, made, top, k, opening, params, layer, cast, list
  <1>10. Keeps(Nodes(layers), Nodes(base) \o params)
    BY <1>5, <1>7
  <1>11. CASE /\ Len(params) = 1 /\ params[1].op = "type"
              /\ after = Replaced(SubSeq(filled, 1, k), PushOperator(layer, cast))
    <2> DEFINE pushed == PushOperator(layer, cast)
    <2>1. params[1] \in Trees /\ params = <<params[1]>>
      <3>1. \A s \in Seq(Trees) : Len(s) = 1 => s[1] \in Trees /\ s = <<s[1]>>
        OBVIOUS
      <3> QED
        BY <1>7, <1>11, <3>1
    <2>2. ~ IsValue(params[1]) /\ params[1].args = <<>> /\ params[1].i \in Nat
      <3>1. "type" \in Operand
        BY DEF Operand
      <3> QED
        BY <1>11, <2>1, <3>1, TreesAre DEF AreTrees, IsValue, IsOperand
    <2>3. cast \in Trees /\ cast.args = <<>> /\ IsFunction(cast) /\ cast.op = "cast"
      <3>1. "cast" \in DOMAIN Priority
        BY DEF Priority
      <3>2. "cast" \in Parents
        BY <3>1, Functions
      <3>3. cast \in [op : Parents, i : Nat, args : Seq(Trees)]
        BY <2>2, <3>2 DEF Node
      <3> QED
        BY <3>1, <3>3, TreesAre DEF AreAllTrees, IsFunction, Node
    <2> HIDE DEF cast
    <2>4. /\ pushed \in Layer /\ LayerOK(pushed) /\ AreFunctions(pushed.ops)
          /\ pushed.out = layer.out
          /\ Len(pushed.ops) = Len(layer.ops) + 1 /\ Len(layer.ops) \in Nat
          /\ \A j \in 1..Len(layer.ops) : pushed.ops[j] = layer.ops[j]
      BY <1>8, <2>3, LayerOKPush
    <2> HIDE DEF pushed
    <2>5. after = Replaced(base, pushed)
      BY <1>7, <1>11, <2>4 DEF pushed
    <2>6. LayersOK(after)
      BY <1>7, <2>4, <2>5, LayersReplaced
    <2>7. Nodes(after) = Nodes(base)
      BY <1>7, <2>4, <2>5, NodesReplaced DEF LayersOK
    <2>8. Keeps(Nodes(base) \o params, Nodes(base))
      <3>1. Keeps(params, <<>>) /\ <<>> \in Seq(Trees)
        BY <2>1, <2>2, TreesAre, KeepsDropped
      <3>2. Nodes(base) \o <<>> = Nodes(base)
        BY <1>7
      <3>3. Keeps(Nodes(base) \o params, Nodes(base) \o <<>>)
        BY <1>7, <3>1, TreesAre, KeepsBehind
      <3> QED
        BY <3>2, <3>3
    <2>9. Bottom(base) => Bottom(after)
      <3>1. Bottom(<<layer>>) => Bottom(<<pushed>>)
        <4>1. layer.ops \in Seq(Trees) /\ pushed.ops \in Seq(Trees)
          BY <1>8, <2>4 DEF Layer
        <4>2. layer.ops # <<>> => 1 \in 1..Len(layer.ops)
          BY <4>1
        <4>3. pushed.ops # <<>>
          BY <2>4, <4>1
        <4> QED
          BY <2>4, <4>2, <4>3 DEF Bottom
      <3> QED
        BY <1>7, <2>4, <2>5, <3>1, BottomReplaced
    <2> QED
      BY <1>7, <1>10, <2>6, <2>7, <2>8, <2>9, KeepsTrans
  <1>12. CASE after = LET c == PutFunction(Replaced(SubSeq(filled, 1, k), layer), Unit("call"))
                      IN  Replaced(c, PushOutput(Top(c), <<list>>))
    <2>1. Replaced(SubSeq(filled, 1, k), layer) = base
      <3>1. base = Append(Front(base), Last(base)) /\ Last(base) = layer
        BY <1>7, EndsInLast DEF LayersOK, Top
      <3> QED
        BY <1>7, <1>8, <3>1 DEF Replaced
    <2>2. after = Replaced(called, PushOutput(Top(called), <<list>>))
      BY <1>12, <2>1
    <2>3. PushedCall(base, "call", params) = after
      BY <2>2 DEF PushedCall
    <2>4. "call" \in DOMAIN Priority
      BY DEF Priority
    <2> QED
      BY <1>7, <1>10, <2>3, <2>4, PushedCallIs, KeepsTrans
  <1>13. CASE after = Replaced(SubSeq(filled, 1, k), PushOutput(layer, params))
    <2>1. PushOutput(layer, params) \in Layer
      <3>1. layer.out \in Seq(Trees) /\ layer.ops \in Seq(Trees)
            /\ layer = [out |-> layer.out, ops |-> layer.ops]
        BY <1>8 DEF Layer
      <3>2. layer.out \o params \in Seq(Trees)
        BY <1>7, <3>1, ConcatProperties
      <3>3. \A v : [layer EXCEPT !.out = v] = [out |-> v, ops |-> layer.ops]
        BY <3>1
      <3> QED
        BY <3>1, <3>2, <3>3 DEF PushOutput, Layer
    <2>2. after = Replaced(base, PushOutput(Top(base), params))
      BY <1>7, <1>13, <2>1
    <2>3. LayersOK(after) /\ Nodes(after) = Nodes(base) \o params
          /\ (Bottom(base) => Bottom(after))
      BY <1>7, <2>2, PushOutputIs
    <2> QED
      BY <1>7, <1>10, <2>3
  <1> QED
    BY <1>9, <1>11, <1>12, <1>13

LEMMA CloseSquareBracketIs ==
    ASSUME NEW layers, LayersOK(layers),
           NEW after, after = CloseSquareBracket(layers), after # Failure
    PROVE  /\ LayersOK(after)
           /\ Keeps(Nodes(layers), Nodes(after))
           /\ Bottom(layers) => Bottom(after)
  <1> DEFINE top == Top(layers)
             made == MakeExpression(top)
             filled == Replaced(layers, made)
             opening == "["
             k == OwnerOf(filled, opening)
             base == Unbracketed(filled, k)
  <1>1. /\ top \in Layer /\ LayerOK(top) /\ AreFunctions(top.ops)
        /\ Len(layers) \in Nat \ {0} /\ layers \in Seq(Layer) /\ layers # <<>>
    BY TopIs DEF LayersOK
  <1> HIDE DEF top
  <1>2. /\ made \in Layer /\ Keeps(top.out, made.out)
        /\ \E kept \in 0..Len(top.ops) : made.ops = SubSeq(top.ops, 1, kept)
    BY <1>1, MakeExpressionIs
  <1> HIDE DEF made
  <1>3. LayerOK(made)
    BY <1>1, <1>2, LayerOKKept
  <1>4. /\ filled \in Seq(Layer) /\ Len(filled) = Len(layers)
        /\ filled[Len(layers)] = made
        /\ \A j \in 1..(Len(layers) - 1) : filled[j] = layers[j]
        /\ \A j \in 1..Len(filled) : LayerOK(filled[j])
    BY <1>2, <1>3, LayersReplaced
  <1>5. Keeps(Nodes(layers), Nodes(filled))
    <2>1. /\ Nodes(layers) = Nodes(Front(layers)) \o top.out
          /\ Nodes(filled) = Nodes(Front(layers)) \o made.out
          /\ Nodes(Front(layers)) \in Seq(Trees) /\ top.out \in Seq(Trees)
          /\ made.out \in Seq(Trees)
      BY <1>1, <1>2, NodesReplaced DEF top, Layer
    <2> QED
      BY <1>2, <2>1, TreesAre, KeepsBehind
  <1>6. /\ IsSingle(made) /\ k # 0
        /\ after = LET c == PutFunction(Append(SubSeq(filled, 1, k - 1),
                                               [filled[k] EXCEPT !.ops = Front(@)]),
                                        Unit("subscript"))
                   IN  Replaced(c, PushOutput(Top(c),
                          <<Node("params", 0, [j \in 1..(Len(filled) - k) |->
                                                  filled[k + j].out[1]])>>))
    BY Zenon DEF CloseSquareBracket, filled, made, top, k, opening
  <1>7. after = PushedCall(base, "subscript", Parameters(filled, k))
    BY <1>6 DEF base, Unbracketed, PushedCall, Parameters
  <1>8. opening # "choice"
    BY OpeningsAreNot DEF opening
  <1> HIDE DEF filled, opening, k, base
  <1>9. k = OwnerOf(filled, opening) /\ base = Unbracketed(filled, k)
    BY DEF k, base
  <1>10. IsBracketed(layers, filled, opening, k)
    <2>1. Len(filled) <= Len(layers) /\ filled[Len(layers)].ops = <<>>
      BY <1>1, <1>4, <1>6 DEF IsSingle
    <2>2. \A j \in 1..Len(filled) : LayerOK(filled[j])
      BY <1>4
    <2> QED
      BY <1>4, <1>6, <1>8, <1>9, <2>1, <2>2 DEF IsBracketed
  <1>11. /\ LayersOK(base)
         /\ Parameters(filled, k) \in Seq(Trees)
         /\ Nodes(filled) = Nodes(base) \o Parameters(filled, k)
         /\ Bottom(layers) => Bottom(base)
    <2>1. ASSUME NEW f, NEW o, NEW j, NEW b, IsBracketed(layers, f, o, j),
                 b = Unbracketed(f, j)
          PROVE  /\ LayersOK(b)
                 /\ Parameters(f, j) \in Seq(Trees)
                 /\ Nodes(f) = Nodes(b) \o Parameters(f, j)
                 /\ Bottom(layers) => Bottom(b)
      BY <2>1, UnbracketedIs
    <2> QED
      BY <1>9, <1>10, <2>1, Zenon
  <1>12. "subscript" \in DOMAIN Priority
    BY DEF Priority
  <1>13. /\ LayersOK(after)
         /\ Keeps(Nodes(base) \o Parameters(filled, k), Nodes(after))
         /\ Bottom(base) => Bottom(after)
    BY <1>7, <1>11, <1>12, PushedCallIs
  <1>14. Keeps(Nodes(layers), Nodes(after))
    BY <1>5, <1>11, <1>13, KeepsTrans
  <1> QED
    BY <1>11, <1>13, <1>14

(* The cases of putAnExpUnit exclude each other.                           *)
LEMMA PutCases ==
    ASSUME NEW layers, NEW unit \in Units
    PROVE  \/ IsFunction(unit) /\ ~ IsOperand(unit)
              /\ PutAnExpUnit(layers, unit) = PutFunction(layers, unit)
           \/ IsOperand(unit) /\ ~ IsFunction(unit)
              /\ PutAnExpUnit(layers, unit) = Replaced(layers, PushOutput(Top(layers), <<unit>>))
           \/ ~ IsFunction(unit) /\ ~ IsOperand(unit)
              /\ \/ PutAnExpUnit(layers, unit) = OpenBracket(layers, unit)
                 \/ PutAnExpUnit(layers, unit) = Separate(layers)
                 \/ PutAnExpUnit(layers, unit) = CloseBracket(layers, unit)
                    /\ unit.op \in {"round", "curly"}
                 \/ PutAnExpUnit(layers, unit) = CloseSquareBracket(layers)
  <1> DEFINE op == unit.op
  <1>1. op \in Op
    BY DEF Units
  <1>2. DOMAIN Priority = {"call", "subscript", "postfix", "cast", "neg", "prefix", "deref",
                           "mul", "add", "sub", "eq", "question", "clause", "assign", "choice"}
    BY DEF Priority
  <1>3. CASE op \in DOMAIN Priority
    <2>1. /\ ~ IsOperand(unit) /\ ~ (op \in {"(", "{", "["}) /\ op # ","
          /\ ~ (op \in {"round", "curly"}) /\ op # "square"
      BY <1>2, <1>3, Zenon DEF IsOperand, Operand
    <2> QED
      BY <1>3, <2>1, Zenon DEF PutAnExpUnit, IsFunction
  <1>4. CASE op \in Operand
    <2>1. /\ ~ IsFunction(unit) /\ ~ (op \in {"(", "{", "["}) /\ op # ","
          /\ ~ (op \in {"round", "curly"}) /\ op # "square"
      BY <1>2, <1>4, Zenon DEF IsFunction, Operand
    <2> QED
      BY <1>4, <2>1, Zenon DEF PutAnExpUnit, IsOperand
  <1>5. CASE op \in {"(", "{", "["}
    <2>1. /\ ~ IsFunction(unit) /\ ~ IsOperand(unit) /\ op # ","
          /\ ~ (op \in {"round", "curly"}) /\ op # "square"
      BY <1>2, <1>5, Zenon DEF IsFunction, IsOperand, Operand
    <2> QED
      BY <1>5, <2>1, Zenon DEF PutAnExpUnit
  <1>6. CASE op = ","
    <2>1. /\ ~ IsFunction(unit) /\ ~ IsOperand(unit) /\ ~ (op \in {"(", "{", "["})
          /\ ~ (op \in {"round", "curly"}) /\ op # "square"
      BY <1>2, <1>6, Zenon DEF IsFunction, IsOperand, Operand
    <2> QED
      BY <1>6, <2>1, Zenon DEF PutAnExpUnit
  <1>7. CASE op \in {"round", "curly"}
    <2>1. /\ ~ IsFunction(unit) /\ ~ IsOperand(unit) /\ ~ (op \in {"(", "{", "["})
          /\ op # "," /\ op # "square"
      BY <1>2, <1>7, Zenon DEF IsFunction, IsOperand, Operand
    <2> QED
      BY <1>7, <2>1, Zenon DEF PutAnExpUnit
  <1>8. CASE op = "square"
    <2>1. /\ ~ IsFunction(unit) /\ ~ IsOperand(unit) /\ ~ (op \in {"(", "{", "["})
          /\ op # "," /\ ~ (op \in {"round", "curly"})
      BY <1>2, <1>8, Zenon DEF IsFunction, IsOperand, Operand
    <2> QED
      BY <1>8, <2>1, Zenon DEF PutAnExpUnit
  <1> QED
    BY <1>1, <1>3, <1>4, <1>5, <1>6, <1>7, <1>8, Zenon DEF Op

(* A unit that is put: its operand comes behind those of the layers.       *)
LEMMA PutIs ==
    ASSUME NEW layers, LayersOK(layers), NEW unit \in Units,
           NEW after, after = PutAnExpUnit(layers, unit), after # Failure
    PROVE  /\ LayersOK(after)
           /\ Keeps(Nodes(layers) \o <<unit>>, Nodes(after))
           /\ Bottom(layers) => Bottom(after) \/ GotParameter(after)
           /\ ~ IsOperand(unit) => Keeps(Nodes(layers), Nodes(layers) \o <<unit>>)
           /\ IsOperand(unit) =>
                 after = Replaced(layers, PushOutput(Top(layers), <<unit>>))
  <1>1. unit \in Trees /\ unit.args = <<>> /\ <<unit>> \in Seq(Trees)
    <2>1. Units \subseteq Trees
      BY TreesAre DEF AreTrees
    <2>2. unit \in Trees
      BY <2>1
    <2> QED
      BY <2>2 DEF Units
  <1>2. Nodes(layers) \in Seq(Trees) /\ Nodes(layers) \o <<>> = Nodes(layers)
    <2>1. Nodes(layers) \in Seq(Trees)
      BY OutsType DEF LayersOK
    <2> QED
      BY <2>1
  <1>3. ASSUME ~ IsOperand(unit)
        PROVE  /\ Keeps(Nodes(layers) \o <<unit>>, Nodes(layers))
               /\ Keeps(Nodes(layers), Nodes(layers) \o <<unit>>)
    <2>1. Keeps(<<unit>>, <<>>) /\ Keeps(<<>>, <<unit>>)
      BY <1>1, <1>3, TreesAre, KeepsDropped DEF IsValue
    <2>2. /\ Keeps(Nodes(layers) \o <<unit>>, Nodes(layers) \o <<>>)
          /\ Keeps(Nodes(layers) \o <<>>, Nodes(layers) \o <<unit>>)
      <3>1. <<>> \in Seq(Trees)
        OBVIOUS
      <3> QED
        BY <1>1, <1>2, <2>1, <3>1, TreesAre, KeepsBehind
    <2> QED
      BY <1>2, <2>2
  <1>4. ASSUME ~ IsOperand(unit), LayersOK(after), Keeps(Nodes(layers), Nodes(after)),
               Bottom(layers) => Bottom(after) \/ GotParameter(after)
        PROVE  /\ LayersOK(after)
               /\ Keeps(Nodes(layers) \o <<unit>>, Nodes(after))
               /\ Bottom(layers) => Bottom(after) \/ GotParameter(after)
               /\ ~ IsOperand(unit) => Keeps(Nodes(layers), Nodes(layers) \o <<unit>>)
               /\ IsOperand(unit) =>
                     after = Replaced(layers, PushOutput(Top(layers), <<unit>>))
    BY <1>3, <1>4, KeepsTrans
  <1>5. CASE IsFunction(unit) /\ ~ IsOperand(unit) /\ after = PutFunction(layers, unit)
    <2>1. /\ LayersOK(after) /\ Keeps(Nodes(layers), Nodes(after))
          /\ Bottom(layers) => Bottom(after)
      BY <1>1, <1>5, PutFunctionIs
    <2> QED
      BY <1>4, <1>5, <2>1
  <1>6. CASE IsOperand(unit) /\ after = Replaced(layers, PushOutput(Top(layers), <<unit>>))
    <2>1. /\ LayersOK(after) /\ Nodes(after) = Nodes(layers) \o <<unit>>
          /\ Bottom(layers) => Bottom(after)
      BY <1>1, <1>6, PushOutputIs
    <2> QED
      BY <1>6, <2>1, KeepsRefl
  <1>7. CASE ~ IsFunction(unit) /\ ~ IsOperand(unit) /\ after = OpenBracket(layers, unit)
    <2>1. /\ LayersOK(after) /\ Nodes(after) = Nodes(layers)
          /\ Bottom(layers) => Bottom(after)
      BY <1>1, <1>7, OpenBracketIs
    <2> QED
      BY <1>4, <1>7, <2>1, KeepsRefl
  <1>8. CASE ~ IsOperand(unit) /\ after = Separate(layers)
    BY <1>4, <1>8, SeparateIs
  <1>9. CASE ~ IsOperand(unit) /\ after = CloseBracket(layers, unit)
             /\ unit.op \in {"round", "curly"}
    <2>1. OpeningOf[unit.op] # "choice"
      BY <1>9, OpeningsAreNot
    <2>2. /\ LayersOK(after) /\ Keeps(Nodes(layers), Nodes(after))
          /\ Bottom(layers) => Bottom(after)
      BY <1>9, <2>1, CloseBracketIs
    <2> QED
      BY <1>4, <1>9, <2>2
  <1>10. CASE ~ IsOperand(unit) /\ after = CloseSquareBracket(layers)
    <2>1. /\ LayersOK(after) /\ Keeps(Nodes(layers), Nodes(after))
          /\ Bottom(layers) => Bottom(after)
      BY <1>10, CloseSquareBracketIs
    <2> QED
      BY <1>4, <1>10, <2>1
  <1> QED
    BY <1>5, <1>6, <1>7, <1>8, <1>9, <1>10, PutCases
-----------------------------------------------------------------------------
(* The nested calls: what each has of the trees, in the order of the units. *)

Act == [clause : {"none", "if", "else"}, question : Trees, layers : Seq(Layer)]

Part(a) == a.question.args \o Nodes(a.layers)
Parts(acts) == [n \in 1..Len(acts) |-> Part(acts[n])]
AllNodes(acts) == FlattenSeq(Parts(acts))

ActOK(a) ==
    /\ a \in Act /\ LayersOK(a.layers)
    /\ a.clause = "none" => a.question = Unit("none")
    /\ a.clause # "none" => a.question.op = "question"
    /\ a.clause = "if" => a.question.args = <<>>
    /\ a.clause = "else" => Bottom(a.layers)

ActsOK(acts) ==
    /\ acts \in Seq(Act)
    /\ \A n \in 1..Len(acts) : ActOK(acts[n]) /\ (acts[n].clause = "none" <=> n = 1)

LEMMA PartType ==
    ASSUME NEW a \in Act
    PROVE  /\ Part(a) \in Seq(Trees) /\ Nodes(a.layers) \in Seq(Trees)
           /\ a.question.args \in Seq(Trees) /\ a.question \in Trees
  <1>1. a.question \in Trees /\ a.layers \in Seq(Layer)
    BY DEF Act
  <1>2. a.question.args \in Seq(Trees)
    BY <1>1, TreesAre DEF AreTrees
  <1>3. Nodes(a.layers) \in Seq(Trees)
    BY <1>1, OutsType
  <1> QED
    BY <1>1, <1>2, <1>3, ConcatProperties DEF Part

LEMMA AllNodesType ==
    ASSUME NEW acts \in Seq(Act)
    PROVE  Parts(acts) \in Seq(Seq(Trees)) /\ AllNodes(acts) \in Seq(Trees)
  <1>1. \A n \in 1..Len(acts) : Part(acts[n]) \in Seq(Trees)
    <2>1. \A n \in 1..Len(acts) : acts[n] \in Act
      OBVIOUS
    <2> QED
      BY <2>1, PartType
  <1>2. Parts(acts) \in Seq(Seq(Trees))
    BY <1>1 DEF Parts
  <1> QED
    BY <1>2, FlattenType DEF AllNodes

LEMMA AllNodesAppend ==
    ASSUME NEW acts \in Seq(Act), NEW a \in Act
    PROVE  AllNodes(Append(acts, a)) = AllNodes(acts) \o Part(a)
  <1>1. Parts(Append(acts, a)) = Append(Parts(acts), Part(a))
    BY DEF Parts
  <1> QED
    BY <1>1, AllNodesType, PartType, FlattenAppend DEF AllNodes

LEMMA AllNodesOne ==
    ASSUME NEW a \in Act
    PROVE  AllNodes(<<a>>) = Part(a)
  <1>1. Parts(<<a>>) = <<Part(a)>>
    BY DEF Parts
  <1> QED
    BY <1>1, PartType, FlattenOne DEF AllNodes

(* The last call, and those it is inside of.                               *)
LEMMA ActsEnd ==
    ASSUME NEW acts, ActsOK(acts), acts # <<>>
    PROVE  /\ Front(acts) \in Seq(Act) /\ ActsOK(Front(acts))
           /\ Len(acts) \in Nat \ {0} /\ Len(Front(acts)) = Len(acts) - 1
           /\ ActOK(Last(acts)) /\ Last(acts) \in Act
           /\ Last(acts).clause = "none" <=> Len(acts) = 1
           /\ Last(acts).clause # "none" => Front(acts) # <<>>
           /\ AllNodes(acts) = AllNodes(Front(acts)) \o Part(Last(acts))
           /\ AllNodes(Front(acts)) \in Seq(Trees) /\ Part(Last(acts)) \in Seq(Trees)
           /\ AllNodes(acts) \in Seq(Trees)
  <1>1. acts \in Seq(Act)
    BY DEF ActsOK
  <1>2. /\ Front(acts) \in Seq(Act) /\ Last(acts) \in Act
        /\ acts = Append(Front(acts), Last(acts))
        /\ Len(acts) \in Nat \ {0} /\ Len(Front(acts)) = Len(acts) - 1
        /\ \A j \in 1..(Len(acts) - 1) : Front(acts)[j] = acts[j]
    BY <1>1, EndsInLast
  <1>3. /\ \A n \in Nat \ {0} : n \in 1..n
        /\ \A n \in Nat \ {0} : \A j \in 1..(n - 1) : j \in 1..n
        /\ \A n \in Nat \ {0} : n # 1 => n - 1 # 0
    OBVIOUS
  <1>4. Last(acts) = acts[Len(acts)]
    BY DEF Last
  <1>5. ActOK(Last(acts)) /\ (Last(acts).clause = "none" <=> Len(acts) = 1)
    BY <1>2, <1>3, <1>4 DEF ActsOK
  <1>6. ActsOK(Front(acts))
    <2>1. \A n \in 1..Len(Front(acts)) : n \in 1..Len(acts) /\ Front(acts)[n] = acts[n]
      BY <1>2, <1>3
    <2> QED
      BY <1>2, <2>1 DEF ActsOK
  <1>7. AllNodes(acts) = AllNodes(Front(acts)) \o Part(Last(acts))
    BY <1>2, AllNodesAppend
  <1>8. /\ AllNodes(Front(acts)) \in Seq(Trees) /\ Part(Last(acts)) \in Seq(Trees)
        /\ AllNodes(acts) \in Seq(Trees)
    BY <1>1, <1>2, AllNodesType, PartType
  <1>9. Last(acts).clause # "none" => Front(acts) # <<>>
    <2>1. Front(acts) = <<>> => Len(Front(acts)) = 0
      OBVIOUS
    <2> QED
      BY <1>2, <1>3, <1>5, <2>1
  <1> QED
    BY <1>2, <1>5, <1>6, <1>7, <1>8, <1>9

LEMMA ActsAppend ==
    ASSUME NEW acts, ActsOK(acts), NEW a, ActOK(a), a.clause = "none" <=> acts = <<>>
    PROVE  /\ ActsOK(Append(acts, a)) /\ Append(acts, a) # <<>>
           /\ Len(Append(acts, a)) = Len(acts) + 1
           /\ AllNodes(Append(acts, a)) = AllNodes(acts) \o Part(a)
           /\ Append(acts, a) \in Seq(Act)
  <1>1. acts \in Seq(Act) /\ a \in Act
    BY DEF ActsOK, ActOK
  <1> DEFINE s == Append(acts, a)
  <1>2. /\ s \in Seq(Act) /\ s # <<>> /\ Len(s) = Len(acts) + 1 /\ s[Len(acts) + 1] = a
        /\ \A j \in 1..Len(acts) : s[j] = acts[j]
    BY <1>1, EndsInAppended
  <1>3. /\ Len(acts) \in Nat
        /\ acts = <<>> <=> Len(acts) = 0
    BY <1>1
  <1>4. /\ \A n \in Nat : \A j \in 1..(n + 1) : j \in 1..n \/ j = n + 1
        /\ \A n \in Nat : n = 0 <=> n + 1 = 1
    OBVIOUS
  <1> HIDE DEF s
  <1>5. ASSUME NEW n \in 1..Len(s)
        PROVE  ActOK(s[n]) /\ (s[n].clause = "none" <=> n = 1)
    <2>1. CASE n \in 1..Len(acts)
      BY <1>2, <2>1 DEF ActsOK
    <2>2. CASE n = Len(acts) + 1
      BY <1>2, <1>3, <1>4, <2>2
    <2> QED
      BY <1>2, <1>3, <1>4, <2>1, <2>2
  <1>6. ActsOK(s)
    BY <1>2, <1>5 DEF ActsOK
  <1>7. AllNodes(s) = AllNodes(acts) \o Part(a)
    BY <1>1, AllNodesAppend DEF s
  <1> QED
    BY <1>2, <1>6, <1>7 DEF s

LEMMA ActsReplaced ==
    ASSUME NEW acts, ActsOK(acts), acts # <<>>, NEW a, ActOK(a),
           a.clause = "none" <=> Last(acts).clause = "none",
           NEW after, after = Replaced(acts, a)
    PROVE  /\ ActsOK(after) /\ after # <<>> /\ Len(after) = Len(acts)
           /\ AllNodes(after) = AllNodes(Front(acts)) \o Part(a)
  <1>1. /\ ActsOK(Front(acts)) /\ Front(acts) \in Seq(Act)
        /\ Len(acts) \in Nat \ {0} /\ Len(Front(acts)) = Len(acts) - 1
        /\ Last(acts).clause = "none" <=> Len(acts) = 1
    BY ActsEnd
  <1>2. after = Append(Front(acts), a)
    BY DEF Replaced
  <1>3. Front(acts) = <<>> <=> Len(Front(acts)) = 0
    BY <1>1
  <1>4. \A n \in Nat \ {0} : (n = 1 <=> n - 1 = 0) /\ (n - 1) + 1 = n
    OBVIOUS
  <1>5. a.clause = "none" <=> Front(acts) = <<>>
    BY <1>1, <1>3, <1>4
  <1>6. /\ ActsOK(after) /\ after # <<>> /\ Len(after) = Len(Front(acts)) + 1
        /\ AllNodes(after) = AllNodes(Front(acts)) \o Part(a)
    BY <1>1, <1>2, <1>5, ActsAppend
  <1> QED
    BY <1>1, <1>4, <1>6

(* What is added behind the last call, and kept there, is kept by all.     *)
LEMMA ReplacedKeeps ==
    ASSUME NEW acts, ActsOK(acts), acts # <<>>, NEW a, ActOK(a),
           a.clause = "none" <=> Last(acts).clause = "none",
           NEW behind \in Seq(Trees), Keeps(Part(Last(acts)) \o behind, Part(a))
    PROVE  Keeps(AllNodes(acts) \o behind, AllNodes(Replaced(acts, a)))
  <1> DEFINE front == AllNodes(Front(acts))
             last == Part(Last(acts))
  <1>1. front \in Seq(Trees) /\ last \in Seq(Trees) /\ AllNodes(acts) = front \o last
    BY ActsEnd
  <1>2. AllNodes(Replaced(acts, a)) = front \o Part(a)
    BY ActsReplaced
  <1>3. Part(a) \in Seq(Trees)
    BY PartType DEF ActOK
  <1> HIDE DEF front, last
  <1>4. (front \o last) \o behind = front \o (last \o behind) /\ last \o behind \in Seq(Trees)
    <2>1. \A x, y, z \in Seq(Trees) : (x \o y) \o z = x \o (y \o z)
      BY ConcatAssociative
    <2> QED
      BY <1>1, <2>1, ConcatProperties
  <1>5. Keeps(last \o behind, Part(a))
    BY DEF last
  <1>6. Keeps(front \o (last \o behind), front \o Part(a))
    BY <1>1, <1>3, <1>4, <1>5, TreesAre, KeepsBehind
  <1> QED
    BY <1>1, <1>2, <1>4, <1>6
-----------------------------------------------------------------------------
(* Reading: the units.                                                     *)

LEMMA UnitIs ==
    ASSUME NEW op \in Op
    PROVE  Unit(op) \in Units
  BY DEF Unit, Node, Units

LEMMA OpsAre ==
    /\ \A op \in {"neg", "add", "sub", "deref", "mul", "postfix", "prefix"} : op \in Op
    /\ \A op \in {"number", "negative", "name"} : op \in Op
    /\ "{" \in Op
  <1>1. DOMAIN Priority = {"call", "subscript", "postfix", "cast", "neg", "prefix", "deref",
                           "mul", "add", "sub", "eq", "question", "clause", "assign", "choice"}
    BY DEF Priority
  <1>2. \A op \in {"neg", "add", "sub", "deref", "mul", "postfix", "prefix"} : op \in Op
    BY <1>1, Zenon DEF Op
  <1>3. \A op \in {"number", "negative", "name"} : op \in Op
    BY Zenon DEF Op, Operand
  <1>4. "{" \in Op
    BY Zenon DEF Op
  <1> QED
    BY <1>2, <1>3, <1>4

LEMMA TokensAre ==
    ASSUME NEW token \in Token
    PROVE  \/ token \in {"-", "+", "*", "++", "number", "{"}
           \/ token \in Op
  <1>1. DOMAIN Priority = {"call", "subscript", "postfix", "cast", "neg", "prefix", "deref",
                           "mul", "add", "sub", "eq", "question", "clause", "assign", "choice"}
    BY DEF Priority
  <1>2. CASE token \in {"assign", "eq", "question", "choice"}
    BY <1>1, <1>2, Zenon DEF Op
  <1>3. CASE token \in {"variable", "name", "type"}
    BY <1>3, Zenon DEF Op, Operand
  <1>4. CASE token \in {"(", "[", ",", "round", "curly", "square"}
    BY <1>4, Zenon DEF Op
  <1> QED
    BY <1>2, <1>3, <1>4, Zenon DEF Token

(* What a token does to the list: it changes the last unit, or adds.       *)
LEMMA ReadIs ==
    ASSUME NEW list, NEW token \in Token
    PROVE  \/ Read(list, token) = list
           \/ \E op \in Op : Read(list, token) = Append(list, Unit(op))
           \/ list # <<>> /\ \E op \in Op : Read(list, token) = Append(Front(list), Unit(op))
           \/ Read(list, token) = list \o <<Unit("name"), Unit("{")>>
  <1> DEFINE Good(x) ==
               \/ x = list
               \/ \E op \in Op : x = Append(list, Unit(op))
               \/ list # <<>> /\ \E op \in Op : x = Append(Front(list), Unit(op))
  <1>0. \/ Read(list, token) \in {ReadMinus(list), ReadPlus(list), ReadStar(list),
                                  ReadIncrement(list), ReadNumber(list)}
        \/ Read(list, token) = list \o <<Unit("name"), Unit("{")>>
        \/ token \in Op /\ Read(list, token) = Append(list, Unit(token))
    <2>1. CASE token = "-"
      <3>1. Read(list, token) = ReadMinus(list)
        BY <2>1, Zenon DEF Read
      <3> QED
        BY <3>1
    <2>2. CASE token = "+"
      <3>1. Read(list, token) = ReadPlus(list)
        BY <2>2, Zenon DEF Read
      <3> QED
        BY <3>1
    <2>3. CASE token = "*"
      <3>1. Read(list, token) = ReadStar(list)
        BY <2>3, Zenon DEF Read
      <3> QED
        BY <3>1
    <2>4. CASE token = "++"
      <3>1. Read(list, token) = ReadIncrement(list)
        BY <2>4, Zenon DEF Read
      <3> QED
        BY <3>1
    <2>5. CASE token = "number"
      <3>1. Read(list, token) = ReadNumber(list)
        BY <2>5, Zenon DEF Read
      <3> QED
        BY <3>1
    <2>6. CASE token = "{"
      BY <2>6, Zenon DEF Read
    <2>7. CASE ~ (token \in {"-", "+", "*", "++", "number", "{"})
      <3>1. token \in Op
        BY <2>7, TokensAre, Zenon
      <3>2. Read(list, token) = Append(list, Unit(token))
        BY <2>7, Zenon DEF Read
      <3> QED
        BY <3>1, <3>2
    <2> QED
      BY <2>1, <2>2, <2>3, <2>4, <2>5, <2>6, <2>7, Zenon
  <1>1. PossiblyPrefix(list) \/ list # <<>>
    BY DEF PossiblyPrefix
  <1>2. Good(ReadMinus(list))
    BY <1>1, OpsAre DEF ReadMinus
  <1>3. Good(ReadPlus(list))
    BY OpsAre DEF ReadPlus
  <1>4. Good(ReadStar(list))
    BY OpsAre DEF ReadStar
  <1>5. Good(ReadIncrement(list))
    BY OpsAre DEF ReadIncrement
  <1>6. Good(ReadNumber(list))
    BY OpsAre DEF ReadNumber
  <1>7. ASSUME token \in Op, Read(list, token) = Append(list, Unit(token))
        PROVE  Good(Read(list, token))
    BY <1>7
  <1> HIDE DEF Good
  <1>8. Good(Read(list, token)) \/ Read(list, token) = list \o <<Unit("name"), Unit("{")>>
    BY <1>0, <1>2, <1>3, <1>4, <1>5, <1>6, <1>7, Zenon
  <1> QED
    BY <1>8, Zenon DEF Good

LEMMA ReadType ==
    ASSUME NEW list \in Seq(Units), NEW token \in Token
    PROVE  Read(list, token) \in Seq(Units)
  <1>1. ASSUME NEW op \in Op
        PROVE  Append(list, Unit(op)) \in Seq(Units)
    BY UnitIs, AppendProperties
  <1>2. ASSUME list # <<>>, NEW op \in Op
        PROVE  Append(Front(list), Unit(op)) \in Seq(Units)
    <2>1. Front(list) \in Seq(Units)
      BY <1>2, EndsInLast
    <2> QED
      BY <2>1, UnitIs, AppendProperties
  <1>3. list \o <<Unit("name"), Unit("{")>> \in Seq(Units)
    <2>1. Unit("name") \in Units /\ Unit("{") \in Units
      BY OpsAre, UnitIs, Zenon
    <2>2. ASSUME NEW x \in Units, NEW y \in Units
          PROVE  list \o <<x, y>> \in Seq(Units)
      BY <2>2
    <2> QED
      BY <2>1, <2>2, Zenon
  <1> QED
    BY <1>1, <1>2, <1>3, ReadIs, Zenon

LEMMA NumberedIs ==
    ASSUME NEW list \in Seq(Units)
    PROVE  /\ Numbered(list) \in Seq(Units) /\ Len(Numbered(list)) = Len(list)
           /\ \A i \in 1..Len(list) : Numbered(list)[i].i = i
  <1>1. ASSUME NEW i \in 1..Len(list)
        PROVE  [list[i] EXCEPT !.i = i] \in Units /\ [list[i] EXCEPT !.i = i].i = i
    <2>1. list[i] \in Units
      OBVIOUS
    <2>2. i \in Nat
      OBVIOUS
    <2> QED
      BY <2>1, <2>2 DEF Units
  <1>2. Len(list) \in Nat
    OBVIOUS
  <1> DEFINE N(i) == [list[i] EXCEPT !.i = i]
  <1>3. Numbered(list) = [i \in 1..Len(list) |-> N(i)]
    BY DEF Numbered
  <1>4. \A i \in 1..Len(list) : N(i) \in Units /\ N(i).i = i
    BY <1>1
  <1> HIDE DEF N
  <1>5. /\ Numbered(list) \in Seq(Units) /\ Len(Numbered(list)) = Len(list)
        /\ \A i \in 1..Len(list) : Numbered(list)[i] = N(i)
    BY <1>2, <1>3, <1>4
  <1> QED
    BY <1>4, <1>5

(* The units before a position.                                            *)
LEMMA UnitsBefore ==
    ASSUME NEW list \in Seq(Units), NEW n \in 1..Len(list)
    PROVE  /\ list[n] \in Units /\ list[n] \in Trees /\ list[n].args = <<>>
           /\ <<list[n]>> \in Seq(Trees) /\ (n + 1) - 1 = n
           /\ SubSeq(list, 1, n - 1) \in Seq(Trees)
           /\ SubSeq(list, 1, n) = SubSeq(list, 1, n - 1) \o <<list[n]>>
  <1>1. list[n] \in Units
    OBVIOUS
  <1>2. list[n] \in Trees
    BY <1>1, TreesAre DEF AreTrees
  <1>3. list[n].args = <<>>
    BY <1>1 DEF Units
  <1>4. SubSeq(list, 1, n - 1) \in Seq(Units)
    OBVIOUS
  <1>5. SubSeq(list, 1, n - 1) \in Seq(Trees)
    <2>1. Units \subseteq Trees
      BY TreesAre DEF AreTrees
    <2>2. \A s \in Seq(Units) : s \in Seq(Trees)
      BY <2>1
    <2> QED
      BY <1>4, <2>2
  <1>6. SubSeq(list, 1, n) = SubSeq(list, 1, n - 1) \o <<list[n]>>
    OBVIOUS
  <1> QED
    BY <1>1, <1>2, <1>3, <1>5, <1>6

LEMMA UnitsAreTrees ==
    ASSUME NEW list \in Seq(Units)
    PROVE  /\ list \in Seq(Trees) /\ AreLeaves(list)
           /\ SubSeq(list, 1, 0) = <<>> /\ SubSeq(list, 1, Len(list)) = list
  <1>1. Units \subseteq Trees
    BY TreesAre DEF AreTrees
  <1>2. list \in Seq(Trees)
    BY <1>1
  <1>3. AreLeaves(list)
    <2>1. \A j \in 1..Len(list) : list[j] \in Units
      OBVIOUS
    <2> QED
      BY <2>1 DEF AreLeaves, Units
  <1>4. SubSeq(list, 1, Len(list)) = list
    BY SubSeqFull
  <1> QED
    BY <1>2, <1>3, <1>4
-----------------------------------------------------------------------------
(* A call begins.                                                          *)
LEMMA ActivationIs ==
    ASSUME NEW clause \in {"none", "if", "else"}, NEW question \in Trees,
           NEW function \in Trees, function.args = <<>>,
           clause = "none" => question = Unit("none"),
           clause # "none" => question.op = "question" /\ IsFunction(function),
           clause = "if" => question.args = <<>>,
           clause = "else" => function.op = "choice",
           NEW a, a = Activation(clause, question, function)
    PROVE  /\ ActOK(a) /\ a.clause = clause
           /\ Part(a) = question.args
  <1> DEFINE layer == IF clause = "none" THEN EmptyLayer ELSE PushOperator(EmptyLayer, function)
  <1>1. a = [clause |-> clause, question |-> question, layers |-> <<layer>>]
    BY DEF Activation
  <1>2. /\ layer \in Layer /\ LayerOK(layer) /\ AreFunctions(layer.ops) /\ layer.out = <<>>
        /\ clause = "else" => layer.ops # <<>> /\ layer.ops[1].op = "choice"
    <2>1. /\ EmptyLayer \in Layer /\ LayerOK(EmptyLayer) /\ AreFunctions(EmptyLayer.ops)
          /\ EmptyLayer.out = <<>> /\ Len(EmptyLayer.ops) = 0
      BY DEF EmptyLayer, Layer, LayerOK, AreFunctions
    <2>2. CASE clause = "none"
      BY <2>1, <2>2
    <2>3. CASE clause # "none"
      <3>1. IsFunction(function) /\ (clause = "else" => function.op = "choice")
        BY <2>3
      <3>2. layer = PushOperator(EmptyLayer, function)
        BY <2>3
      <3> HIDE DEF layer
      <3>5. /\ EmptyLayer \in Layer /\ LayerOK(EmptyLayer) /\ AreFunctions(EmptyLayer.ops)
            /\ function \in Trees /\ function.args = <<>>
            /\ IsFunction(function) /\ Len(EmptyLayer.ops) # 0 =>
                  \/ IsOrdered(EmptyLayer.ops[Len(EmptyLayer.ops)], function)
                  \/ function.op = "cast"
        BY <2>1
      <3>3. /\ layer \in Layer /\ LayerOK(layer) /\ layer.out = EmptyLayer.out
            /\ AreFunctions(layer.ops)
            /\ layer.ops[Len(EmptyLayer.ops) + 1] = function
            /\ Len(layer.ops) = Len(EmptyLayer.ops) + 1
        BY <3>1, <3>2, <3>5, LayerOKPush
      <3>4. layer.ops[1] = function /\ layer.ops # <<>>
        BY <2>1, <3>3
      <3> QED
        BY <2>1, <3>1, <3>3, <3>4
    <2> QED
      BY <2>2, <2>3
  <1> HIDE DEF layer
  <1>3. <<layer>> \in Seq(Layer) /\ Append(<<>>, layer) = <<layer>> /\ <<>> \in Seq(Layer)
    BY <1>2
  <1>4. LayersOK(<<layer>>)
    <2>1. \A k \in 1..Len(<<>>) : LayerOK(<<>>[k])
      OBVIOUS
    <2> QED
      BY <1>2, <1>3, <2>1, LayersAppend
  <1>5. Nodes(<<layer>>) = <<>>
    <2>1. Nodes(Append(<<>>, layer)) = Nodes(<<>>) \o layer.out
      BY <1>2, <1>3, NodesAppend
    <2> QED
      BY <1>2, <1>3, <2>1, NodesEmpty
  <1>6. Bottom(<<layer>>) <=> layer.ops # <<>> /\ layer.ops[1].op = "choice"
    BY DEF Bottom
  <1>7. ActOK(a)
    <2>1. a \in Act
      BY <1>1, <1>3 DEF Act
    <2> QED
      BY <1>1, <1>2, <1>4, <1>6, <2>1 DEF ActOK
  <1>8. Part(a) = question.args
    <2>1. question.args \in Seq(Trees)
      BY TreesAre DEF AreTrees
    <2> QED
      BY <1>1, <1>5, <2>1 DEF Part
  <1> QED
    BY <1>1, <1>7, <1>8
-----------------------------------------------------------------------------
(* Putting the operator of a conditional applies operators of the layer on *)
(* top, as putting another function does.                                  *)
LEMMA ReducedTopIs ==
    ASSUME NEW layers, LayersOK(layers), NEW f, IsFunction(f), f.op # "choice",
           NEW after, after = Replaced(layers, Reduced(Top(layers), f))
    PROVE  /\ LayersOK(after)
           /\ Keeps(Nodes(layers), Nodes(after))
           /\ Bottom(layers) => Bottom(after)
           /\ Nodes(layers) \in Seq(Trees) /\ Nodes(after) \in Seq(Trees)
  <1> DEFINE top == Top(layers)
             reduced == Reduced(top, f)
  <1>1. top \in Layer /\ LayerOK(top) /\ AreFunctions(top.ops)
    BY TopIs
  <1>2. /\ reduced \in Layer /\ Keeps(top.out, reduced.out)
        /\ \E kept \in 0..Len(top.ops) :
              /\ reduced.ops = SubSeq(top.ops, 1, kept)
              /\ kept # 0 => IsOrdered(top.ops[kept], f)
              /\ \A j \in (kept + 1)..Len(top.ops) : ~ IsOrdered(top.ops[j], f)
    <2> HIDE DEF top
    <2> QED
      BY <1>1, ReducedIs
  <1>3. PICK kept \in 0..Len(top.ops) :
              /\ reduced.ops = SubSeq(top.ops, 1, kept)
              /\ kept # 0 => IsOrdered(top.ops[kept], f)
              /\ \A j \in (kept + 1)..Len(top.ops) : ~ IsOrdered(top.ops[j], f)
    BY <1>2
  <1>4. after = Replaced(layers, reduced)
    BY DEF reduced, top
  <1> HIDE DEF reduced, top
  <1>5. /\ LayerOK(reduced) /\ AreFunctions(reduced.ops)
        /\ Len(reduced.ops) = kept /\ \A j \in 1..kept : reduced.ops[j] = top.ops[j]
    <2>1. IsKept(top, reduced, kept)
      BY <1>1, <1>2, <1>3 DEF IsKept
    <2>2. KeptOK(top, reduced, kept)
      BY ONLY <2>1, KeptIsOK
    <2> QED
      BY <1>1, <2>2 DEF KeptOK
  <1>6. LayersOK(after)
    <2>1. LayersOK(Replaced(layers, reduced))
      BY <1>2, <1>5, ReplacedAreLayers
    <2> QED
      BY <1>4, <2>1
  <1>7. Keeps(Nodes(layers), Nodes(after)) /\ Nodes(layers) \in Seq(Trees)
        /\ Nodes(after) \in Seq(Trees)
    <2>1. /\ Nodes(layers) = Nodes(Front(layers)) \o top.out
          /\ Nodes(after) = Nodes(Front(layers)) \o reduced.out
          /\ Nodes(Front(layers)) \in Seq(Trees) /\ top.out \in Seq(Trees)
      BY <1>2, <1>4, NodesReplaced DEF LayersOK, top
    <2>2. reduced.out \in Seq(Trees) /\ Keeps(top.out, reduced.out)
      BY <1>2 DEF Layer
    <2> QED
      BY <2>1, <2>2, TreesAre, KeepsBehind, ConcatProperties
  <1>8. ASSUME Bottom(<<top>>)
        PROVE  Bottom(<<reduced>>)
    <2>1. reduced.ops \in Seq(Trees) /\ top.ops \in Seq(Trees) /\ Len(top.ops) \in Nat
      BY <1>1, <1>2 DEF Layer
    <2>2. top.ops # <<>> /\ top.ops[1].op = "choice"
      BY <1>8 DEF Bottom
    <2>3. kept # 0
      <3> SUFFICES ASSUME kept = 0 PROVE FALSE
        OBVIOUS
      <3>1. 1 \in (kept + 1)..Len(top.ops)
        BY <2>1, <2>2
      <3>2. ~ IsOrdered(top.ops[1], f)
        BY <1>3, <3>1
      <3> QED
        BY <2>2, <3>2, Functions DEF IsOrdered, IsFunction
    <2>4. 1 \in 1..kept
      BY <2>3
    <2> QED
      BY <1>5, <2>1, <2>2, <2>4 DEF Bottom
  <1>9. Bottom(layers) => Bottom(after)
    BY <1>2, <1>4, <1>5, <1>8, BottomReplaced DEF top
  <1> QED
    BY <1>6, <1>7, <1>9

(* A clause that leaves nothing out has one tree.                          *)
LEMMA OneTree ==
    ASSUME NEW layers \in Seq(Layer), layers # <<>>, ~ LeavesOut(layers)
    PROVE  /\ layers[1].out = <<Last(layers[1].out)>>
           /\ Nodes(layers) = <<Last(layers[1].out)>>
  <1> DEFINE T == {s \in Seq(Layer) :
                      (\A k \in 1..Len(s) : Len(s[k].out) = 0) => Nodes(s) = <<>>}
  <1>1. <<>> \in T
    <2>1. <<>> \in Seq(Layer)
      OBVIOUS
    <2> QED
      BY <2>1, NodesEmpty
  <1>2. ASSUME NEW s \in Seq(Layer), s \in T, NEW x \in Layer
        PROVE  Append(s, x) \in T
    <2> SUFFICES ASSUME \A k \in 1..Len(Append(s, x)) : Len(Append(s, x)[k].out) = 0
                 PROVE  Nodes(Append(s, x)) = <<>>
      BY EndsInAppended
    <2>1. /\ Len(Append(s, x)) = Len(s) + 1 /\ Append(s, x)[Len(s) + 1] = x
          /\ \A j \in 1..Len(s) : Append(s, x)[j] = s[j]
      BY EndsInAppended
    <2>2. (\A k \in 1..Len(s) : Len(s[k].out) = 0) /\ Len(x.out) = 0
      BY <2>1
    <2>3. Nodes(s) = <<>>
      BY <1>2, <2>2
    <2>4. x.out = <<>>
      BY <2>2 DEF Layer
    <2> QED
      BY <2>3, <2>4, NodesAppend
  <1>3. Seq(Layer) \subseteq T
    <2> HIDE DEF T
    <2> QED
      BY <1>1, <1>2, SequenceInduct
  <1> DEFINE tail == Tail(layers)
  <1>4. /\ tail \in Seq(Layer) /\ layers = <<layers[1]>> \o tail /\ layers[1] \in Layer
        /\ \A k \in 1..Len(tail) : k + 1 \in 1..Len(layers) /\ tail[k] = layers[k + 1]
        /\ 1 \in 1..Len(layers) /\ <<layers[1]>> \in Seq(Layer)
    OBVIOUS
  <1>5. \A k \in 1..Len(layers) : Len(layers[k].out) = (IF k = 1 THEN 1 ELSE 0)
    BY DEF LeavesOut
  <1>6. \A k \in 1..Len(tail) : Len(tail[k].out) = 0
    BY <1>4, <1>5
  <1> HIDE DEF tail
  <1>7. Nodes(tail) = <<>>
    BY <1>3, <1>4, <1>6
  <1>8. layers[1].out \in Seq(Trees) /\ Len(layers[1].out) = 1
    BY <1>4, <1>5 DEF Layer
  <1>9. \A s \in Seq(Trees) : Len(s) = 1 => s = <<s[1]>>
    OBVIOUS
  <1>10. layers[1].out = <<Last(layers[1].out)>>
    BY <1>8, <1>9 DEF Last
  <1>11. Nodes(<<layers[1]>>) = layers[1].out
    <2>1. Append(<<>>, layers[1]) = <<layers[1]>> /\ <<>> \in Seq(Layer)
      BY <1>4
    <2>2. Nodes(Append(<<>>, layers[1])) = Nodes(<<>>) \o layers[1].out
      BY <1>4, <2>1, NodesAppend
    <2> QED
      BY <1>8, <2>1, <2>2, NodesEmpty
  <1>12. Nodes(layers) = Nodes(<<layers[1]>>) \o Nodes(tail)
    BY <1>4, NodesConcat
  <1> QED
    BY <1>7, <1>8, <1>10, <1>11, <1>12

(* Making the expression of the layer at the bottom.                       *)
LEMMA MadeFirstIs ==
    ASSUME NEW layers, LayersOK(layers),
           NEW after, after = [layers EXCEPT ![1] = MakeExpression(@)]
    PROVE  /\ after \in Seq(Layer) /\ after # <<>> /\ Len(after) = Len(layers)
           /\ after[1] = MakeExpression(layers[1])
           /\ Keeps(Nodes(layers), Nodes(after))
  <1>1. layers \in Seq(Layer) /\ layers # <<>>
    BY DEF LayersOK
  <1> DEFINE tail == Tail(layers)
             made == MakeExpression(layers[1])
  <1>2. /\ tail \in Seq(Layer) /\ layers = <<layers[1]>> \o tail /\ layers[1] \in Layer
        /\ <<>> \in Seq(Layer)
    BY <1>1
  <1>3. made \in Layer /\ Keeps(layers[1].out, made.out)
    BY <1>2, MakeExpressionIs
  <1> HIDE DEF made
  <1>4. after \in Seq(Layer) /\ Len(after) = Len(layers) /\ after[1] = made
        /\ after = <<made>> \o tail /\ after # <<>>
    <2>1. after = [layers EXCEPT ![1] = made]
      BY DEF made
    <2> QED
      BY <1>1, <1>3, <2>1
  <1> HIDE DEF tail
  <1>5. ASSUME NEW x \in Layer
        PROVE  Nodes(<<x>> \o tail) = x.out \o Nodes(tail) /\ x.out \in Seq(Trees)
    <2>1. Append(<<>>, x) = <<x>> /\ <<x>> \in Seq(Layer)
      OBVIOUS
    <2>2. Nodes(<<x>>) = <<>> \o x.out
      BY <1>2, <2>1, NodesAppend, NodesEmpty
    <2>3. x.out \in Seq(Trees)
      BY DEF Layer
    <2>4. <<>> \o x.out = x.out
      BY <2>3
    <2> QED
      BY <1>2, <2>1, <2>2, <2>3, <2>4, NodesConcat
  <1>6. /\ Nodes(layers) = layers[1].out \o Nodes(tail)
        /\ Nodes(after) = made.out \o Nodes(tail)
        /\ layers[1].out \in Seq(Trees) /\ made.out \in Seq(Trees)
        /\ Nodes(tail) \in Seq(Trees)
    BY <1>2, <1>3, <1>4, <1>5, OutsType
  <1>7. Keeps(layers[1].out \o Nodes(tail), made.out \o Nodes(tail))
    BY <1>3, <1>6, TreesAre, KeepsRefl, KeepsConcat
  <1> QED
    BY <1>4, <1>6, <1>7 DEF made
-----------------------------------------------------------------------------
(* The end of a conditional operator: the call of the else clause ends, the *)
(* operator takes the condition of the outer call, and both clauses.        *)
WithOut(layer, out) == [layer EXCEPT !.out = out]

LEMMA LayerOutReplaced ==
    ASSUME NEW layers, LayersOK(layers), NEW out \in Seq(Trees),
           NEW after, after = Replaced(layers, WithOut(Top(layers), out))
    PROVE  /\ LayersOK(after)
           /\ Bottom(layers) => Bottom(after)
           /\ Nodes(layers) = Nodes(Front(layers)) \o Top(layers).out
           /\ Nodes(after) = Nodes(Front(layers)) \o out
           /\ Nodes(Front(layers)) \in Seq(Trees) /\ Top(layers).out \in Seq(Trees)
           /\ after \in Seq(Layer)
  <1> DEFINE top == Top(layers)
             put == [top EXCEPT !.out = out]
  <1>1. top \in Layer /\ LayerOK(top) /\ AreFunctions(top.ops)
    BY TopIs
  <1>2. after = Replaced(layers, put)
    BY DEF WithOut
  <1> HIDE DEF top
  <1>3. put = [out |-> out, ops |-> top.ops]
    <2>1. top \in [out : Seq(Trees), ops : Seq(Trees)]
      BY <1>1 DEF Layer
    <2> QED
      BY <2>1
  <1>4. put \in Layer /\ LayerOK(put) /\ AreFunctions(put.ops) /\ put.out = out
        /\ put.ops = top.ops
    BY <1>1, <1>3 DEF Layer, LayerOK
  <1> HIDE DEF put
  <1>5. LayersOK(after)
    <2>1. LayersOK(Replaced(layers, put))
      BY <1>4, ReplacedAreLayers
    <2> QED
      BY <1>2, <2>1
  <1>6. Bottom(layers) => Bottom(after)
    <2>1. Bottom(<<top>>) => Bottom(<<put>>)
      BY <1>4 DEF Bottom
    <2> QED
      BY <1>2, <1>4, <2>1, BottomReplaced DEF top
  <1>7. /\ Nodes(layers) = Nodes(Front(layers)) \o top.out
        /\ Nodes(after) = Nodes(Front(layers)) \o put.out
        /\ Nodes(Front(layers)) \in Seq(Trees) /\ top.out \in Seq(Trees)
        /\ after \in Seq(Layer)
    BY <1>2, <1>4, NodesReplaced DEF LayersOK, top
  <1> QED
    BY <1>4, <1>5, <1>6, <1>7 DEF top

(* The same, for layers that are expressions.                              *)
OutTakenIn(layers, out, after) ==
    /\ LayersOK(layers) /\ out \in Seq(Trees)
    /\ after = Replaced(layers, WithOut(Top(layers), out))

OutTaken(layers, out, after) ==
    /\ LayersOK(after)
    /\ Bottom(layers) => Bottom(after)
    /\ Nodes(layers) = Nodes(Front(layers)) \o Top(layers).out
    /\ Nodes(after) = Nodes(Front(layers)) \o out
    /\ Nodes(Front(layers)) \in Seq(Trees) /\ Top(layers).out \in Seq(Trees)
    /\ after \in Seq(Layer)

LEMMA OutTakenIs ==
    ASSUME NEW layers, NEW out, NEW after, OutTakenIn(layers, out, after)
    PROVE  OutTaken(layers, out, after)
  <1>1. /\ LayersOK(layers) /\ out \in Seq(Trees)
        /\ after = Replaced(layers, WithOut(Top(layers), out))
    BY DEF OutTakenIn
  <1>2. /\ LayersOK(after)
        /\ Bottom(layers) => Bottom(after)
        /\ Nodes(layers) = Nodes(Front(layers)) \o Top(layers).out
        /\ Nodes(after) = Nodes(Front(layers)) \o out
        /\ Nodes(Front(layers)) \in Seq(Trees) /\ Top(layers).out \in Seq(Trees)
        /\ after \in Seq(Layer)
    BY <1>1, LayerOutReplaced
  <1> QED
    BY <1>2 DEF OutTaken

Conditional(question, cond, else) == [question EXCEPT !.args = <<cond>> \o @ \o else]

Taking(outer, layer, node) ==
    [outer EXCEPT !.layers = Replaced(@, [layer EXCEPT !.out = Append(Front(@), node)])]

(* The tree of the operator has what the outer output, the first clause and *)
(* the second have.                                                         *)
LEMMA ConditionalKeeps ==
    ASSUME NEW cond \in Trees, NEW question \in Trees, question.op = "question",
           NEW nodes \in Seq(Trees), NEW c \in Trees, c.args # <<>>, Keeps(nodes, <<c>>),
           NEW node, node = Conditional(question, cond, c.args)
    PROVE  Keeps(<<cond>> \o (question.args \o nodes), <<node>>)
  <1> DEFINE args == <<cond>> \o question.args \o c.args
  <1>1. question.args \in Seq(Trees) /\ c.args \in Seq(Trees) /\ <<cond>> \in Seq(Trees)
        /\ <<c>> \in Seq(Trees)
        /\ question \in [op : Op \union {"none", "params"}, i : Nat, args : Seq(Trees)]
    BY TreesAre DEF AreTrees
  <1>2. args \in Seq(Trees) /\ args = <<cond>> \o (question.args \o c.args)
        /\ question.args \o c.args \in Seq(Trees)
        /\ question.args \o nodes \in Seq(Trees)
    <2>1. \A a, b, d \in Seq(Trees) : (a \o b) \o d = a \o (b \o d)
      BY ConcatAssociative
    <2> QED
      BY <1>1, <2>1, ConcatProperties
  <1>3. node = [question EXCEPT !.args = args]
    BY DEF Conditional
  <1> HIDE DEF args
  <1>4. node = [op |-> question.op, i |-> question.i, args |-> args] /\ question.i \in Nat
    BY <1>1, <1>3
  <1>5. "question" \in Parents
    BY Functions DEF Priority
  <1>6. node \in Trees /\ ~ IsValue(node) /\ node.args = args
    <2>1. node \in [op : Parents, i : Nat, args : Seq(Trees)] /\ node.op = "question"
      BY <1>2, <1>4, <1>5
    <2>2. node \in Trees
      BY <2>1, TreesAre DEF AreAllTrees
    <2>3. ~ IsValue(node)
      BY <2>1 DEF IsValue, IsOperand, Operand
    <2> QED
      BY <1>4, <2>2, <2>3
  <1>7. Keeps(<<c>>, c.args)
    <2>1. ~ IsValue(c)
      BY TreesAre DEF AreTrees, IsValue
    <2> QED
      BY <2>1, TreesAre, KeepsWrapped
  <1>8. Keeps(nodes, c.args)
    BY <1>7, KeepsTrans
  <1>9. Keeps(question.args \o nodes, question.args \o c.args)
    BY <1>1, <1>8, TreesAre, KeepsBehind
  <1>10. Keeps(<<cond>> \o (question.args \o nodes), args)
    BY <1>1, <1>2, <1>9, TreesAre, KeepsBehind
  <1>11. Keeps(args, <<node>>)
    BY <1>6, TreesAre, KeepsWrapped
  <1> QED
    BY <1>10, <1>11, KeepsTrans

Ending(acts, cur, outer, layer, layers) ==
    /\ ActsOK(acts) /\ acts # <<>>
    /\ cur = Last(acts) /\ cur.clause = "else"
    /\ outer = Last(Front(acts)) /\ layer = Top(outer.layers) /\ layer.out # <<>>
    /\ layers \in Seq(Layer) /\ layers # <<>> /\ layers[1].out # <<>>

LEMMA ConditionalIs ==
    ASSUME NEW acts, NEW cur, NEW outer, NEW layer, NEW layers,
           Ending(acts, cur, outer, layer, layers),
           NEW node,
           node = Conditional(cur.question, Last(layer.out), Last(layers[1].out).args),
           NEW changed, changed = Taking(outer, layer, node),
           NEW after, after = Replaced(Front(acts), changed)
    PROVE  /\ ActsOK(after) /\ after # <<>> /\ Len(after) = Len(acts) - 1
           /\ changed \in Act
           /\ ~ LeavesOut(layers) /\ Last(layers[1].out).args # <<>>
                 /\ Keeps(Nodes(cur.layers), Nodes(layers))
              => Keeps(AllNodes(acts), AllNodes(after))
  <1> DEFINE front == Front(acts)
             c == Last(layers[1].out)
             cond == Last(layer.out)
  <1>1. /\ ActsOK(acts) /\ acts # <<>> /\ cur = Last(acts) /\ cur.clause = "else"
        /\ outer = Last(front) /\ layer = Top(outer.layers) /\ layer.out # <<>>
        /\ layers \in Seq(Layer) /\ layers # <<>> /\ layers[1].out # <<>>
    BY DEF Ending
  <1>2. /\ ActsOK(front) /\ front # <<>> /\ Len(front) = Len(acts) - 1
        /\ ActOK(cur) /\ cur \in Act
        /\ AllNodes(acts) = AllNodes(front) \o Part(cur)
        /\ AllNodes(front) \in Seq(Trees) /\ Part(cur) \in Seq(Trees)
    <2>1. "else" # "none"
      OBVIOUS
    <2> QED
      BY <1>1, <2>1, ActsEnd
  <1> HIDE DEF front
  <1>3. /\ ActOK(outer) /\ outer \in Act
        /\ AllNodes(front) = AllNodes(Front(front)) \o Part(outer)
        /\ AllNodes(Front(front)) \in Seq(Trees) /\ Part(outer) \in Seq(Trees)
    BY <1>1, <1>2, ActsEnd
  <1>4. LayersOK(outer.layers) /\ outer.question.args \in Seq(Trees)
        /\ outer.layers \in Seq(Layer)
    BY <1>3, PartType DEF ActOK, LayersOK
  <1>5. layer \in Layer
    BY <1>1, <1>4, TopIs
  <1>6. layer.out \in Seq(Trees)
    BY <1>5 DEF Layer
  <1>7. cond \in Trees /\ Front(layer.out) \in Seq(Trees)
        /\ layer.out = Append(Front(layer.out), cond)
    BY <1>1, <1>6, EndsInLast
  <1>8. c \in Trees
    <2>1. layers[1] \in Layer
      BY <1>1
    <2>2. layers[1].out \in Seq(Trees)
      BY <2>1 DEF Layer
    <2> QED
      BY <1>1, <2>2, EndsInLast
  <1>9. cur.question \in Trees /\ cur.question.op = "question"
        /\ cur.question.args \in Seq(Trees) /\ Nodes(cur.layers) \in Seq(Trees)
    <2>1. "else" # "none"
      OBVIOUS
    <2> QED
      BY <1>1, <1>2, <2>1, PartType DEF ActOK
  <1>10. node \in Trees
    <2>1. cur.question \in [op : Op \union {"none", "params"}, i : Nat, args : Seq(Trees)]
      BY <1>9, TreesAre DEF AreTrees
    <2>2. c.args \in Seq(Trees) /\ <<cond>> \in Seq(Trees)
      BY <1>7, <1>8, TreesAre DEF AreTrees
    <2> DEFINE args == <<cond>> \o cur.question.args \o c.args
    <2>3. args \in Seq(Trees)
      BY <1>9, <2>2, ConcatProperties
    <2>4. node = [cur.question EXCEPT !.args = args]
      BY DEF Conditional
    <2> HIDE DEF args
    <2>5. node = [op |-> cur.question.op, i |-> cur.question.i, args |-> args]
          /\ cur.question.i \in Nat
      BY <2>1, <2>4
    <2>6. "question" \in Parents
      BY Functions DEF Priority
    <2> QED
      BY <1>9, <2>3, <2>5, <2>6, TreesAre DEF AreAllTrees
  <1> HIDE DEF c, cond
  <1> DEFINE out == Append(Front(layer.out), node)
             list == Replaced(outer.layers, [layer EXCEPT !.out = out])
  <1>11. out \in Seq(Trees) /\ out = Front(layer.out) \o <<node>>
         /\ layer.out = Front(layer.out) \o <<cond>>
         /\ <<node>> \in Seq(Trees) /\ <<cond>> \in Seq(Trees)
    <2>1. \A s \in Seq(Trees) : \A x \in Trees :
             Append(s, x) \in Seq(Trees) /\ Append(s, x) = s \o <<x>> /\ <<x>> \in Seq(Trees)
      OBVIOUS
    <2>2. layer.out = Front(layer.out) \o <<cond>> /\ <<cond>> \in Seq(Trees)
      BY <1>7, <2>1
    <2>3. out \in Seq(Trees) /\ out = Front(layer.out) \o <<node>> /\ <<node>> \in Seq(Trees)
      BY <1>7, <1>10, <2>1
    <2> QED
      BY <2>2, <2>3
  <1>12. list = Replaced(outer.layers, WithOut(Top(outer.layers), out))
    BY <1>1 DEF WithOut
  <1> HIDE DEF out
  <1>13. /\ LayersOK(list)
         /\ Bottom(outer.layers) => Bottom(list)
         /\ Nodes(outer.layers) = Nodes(Front(outer.layers)) \o layer.out
         /\ Nodes(list) = Nodes(Front(outer.layers)) \o out
         /\ Nodes(Front(outer.layers)) \in Seq(Trees) /\ list \in Seq(Layer)
    <2> HIDE DEF list
    <2>1. OutTakenIn(outer.layers, out, list)
      BY <1>4, <1>11, <1>12 DEF OutTakenIn
    <2>2. OutTaken(outer.layers, out, list)
      BY ONLY <2>1, OutTakenIs
    <2> QED
      BY <1>1, <2>2 DEF OutTaken
  <1>14. changed = [outer EXCEPT !.layers = list]
    BY DEF out, Taking
  <1> HIDE DEF list
  <1>15. changed = [clause |-> outer.clause, question |-> outer.question, layers |-> list]
         /\ outer.clause \in {"none", "if", "else"} /\ outer.question \in Trees
    BY <1>3, <1>14 DEF Act
  <1>16. ActOK(changed)
    <2>1. changed \in Act
      BY <1>13, <1>15 DEF Act
    <2> QED
      BY <1>3, <1>13, <1>15, <2>1 DEF ActOK
  <1>17. /\ ActsOK(after) /\ after # <<>> /\ Len(after) = Len(front)
         /\ AllNodes(after) = AllNodes(Front(front)) \o Part(changed)
    <2>1. changed.clause = "none" <=> Last(front).clause = "none"
      BY <1>1, <1>15
    <2>2. after = Replaced(front, changed)
      BY DEF front
    <2> QED
      BY <1>2, <1>16, <2>1, <2>2, ActsReplaced
  <1>18. ASSUME ~ LeavesOut(layers), Last(layers[1].out).args # <<>>,
                Keeps(Nodes(cur.layers), Nodes(layers))
         PROVE  Keeps(AllNodes(acts), AllNodes(after))
    <2> DEFINE q == cur.question.args
               nodes == Nodes(cur.layers)
               before == Nodes(Front(outer.layers)) \o Front(layer.out)
               base == outer.question.args \o before
    <2>1. Nodes(layers) = <<c>>
      BY <1>1, <1>18, OneTree DEF c
    <2>2. c.args # <<>> /\ Keeps(nodes, <<c>>)
      BY <1>18, <2>1 DEF c
    <2>3. node = Conditional(cur.question, cond, c.args) /\ cond \in Trees /\ c \in Trees
      BY <1>7, <1>8 DEF c, cond
    <2>4. Keeps(<<cond>> \o (q \o nodes), <<node>>)
      BY <1>9, <2>2, <2>3, ConditionalKeeps
    <2>5. before \in Seq(Trees) /\ base \in Seq(Trees)
      BY <1>4, <1>7, <1>13, ConcatProperties
    <2>6. Part(outer) = base \o <<cond>> /\ Part(changed) = base \o <<node>>
      <3> DEFINE o == outer.question.args
                 nf == Nodes(Front(outer.layers))
                 lf == Front(layer.out)
      <3>1. Part(outer) = o \o (nf \o (lf \o <<cond>>))
        BY <1>11, <1>13 DEF Part
      <3>2. Part(changed) = o \o (nf \o (lf \o <<node>>))
        <4>1. changed.question = outer.question /\ changed.layers = list
          BY <1>15
        <4>2. Nodes(list) = nf \o (lf \o <<node>>)
          BY <1>11, <1>13
        <4> QED
          BY <4>1, <4>2 DEF Part
      <3>3. o \in Seq(Trees) /\ nf \in Seq(Trees) /\ lf \in Seq(Trees)
        BY <1>4, <1>7, <1>13
      <3>4. base = o \o (nf \o lf)
        OBVIOUS
      <3> HIDE DEF o, nf, lf, base
      <3>5. ASSUME NEW x \in Seq(Trees)
            PROVE  o \o (nf \o (lf \o x)) = (o \o (nf \o lf)) \o x
        <4>1. \A u, v, w \in Seq(Trees) : (u \o v) \o w = u \o (v \o w)
          BY ConcatAssociative
        <4>2. nf \o lf \in Seq(Trees)
          BY <3>3, ConcatProperties
        <4>3. (nf \o lf) \o x = nf \o (lf \o x)
          BY <3>3, <4>1
        <4>4. (o \o (nf \o lf)) \o x = o \o ((nf \o lf) \o x)
          BY <3>3, <4>1, <4>2
        <4> QED
          BY <4>3, <4>4
      <3> QED
        BY <1>11, <3>1, <3>2, <3>4, <3>5
    <2>7. Part(cur) = q \o nodes /\ q \o nodes \in Seq(Trees)
      BY <1>9, ConcatProperties DEF Part
    <2> DEFINE all == AllNodes(Front(front)) \o base
    <2> HIDE DEF base, before
    <2>8. /\ AllNodes(acts) = all \o (<<cond>> \o (q \o nodes))
          /\ AllNodes(after) = all \o <<node>>
          /\ all \in Seq(Trees) /\ <<cond>> \o (q \o nodes) \in Seq(Trees)
      <3> DEFINE f == AllNodes(Front(front))
                 qn == q \o nodes
      <3>1. f \in Seq(Trees) /\ qn \in Seq(Trees) /\ base \in Seq(Trees)
            /\ <<cond>> \in Seq(Trees) /\ <<node>> \in Seq(Trees)
        BY <1>3, <1>11, <2>5, <2>7
      <3>2. AllNodes(acts) = (f \o (base \o <<cond>>)) \o qn
        BY <1>2, <1>3, <2>6, <2>7
      <3>3. AllNodes(after) = f \o (base \o <<node>>)
        BY <1>17, <2>6
      <3> HIDE DEF f, qn
      <3>4. \A u, v, w \in Seq(Trees) : (u \o v) \o w = u \o (v \o w)
        BY ConcatAssociative
      <3>5. f \o base \in Seq(Trees) /\ <<cond>> \o qn \in Seq(Trees)
        BY <3>1, ConcatProperties
      <3>6. (f \o base) \o <<cond>> = f \o (base \o <<cond>>)
        BY <3>1, <3>4
      <3>7. (f \o base) \o <<node>> = f \o (base \o <<node>>)
        BY <3>1, <3>4
      <3>8. ((f \o base) \o <<cond>>) \o qn = (f \o base) \o (<<cond>> \o qn)
        BY <3>1, <3>4, <3>5
      <3> QED
        BY <3>2, <3>3, <3>5, <3>6, <3>7, <3>8 DEF f, qn
    <2> HIDE DEF all
    <2> QED
      BY <1>11, <2>4, <2>8, TreesAre, KeepsBehind
  <1>19. changed \in Act
    BY <1>16 DEF ActOK
  <1> QED
    BY <1>2, <1>17, <1>18, <1>19
-----------------------------------------------------------------------------
(* What remains of the first n units when some are lost.                   *)
UnlessLost(us, lo, i) == IF i \in lo THEN <<>> ELSE <<us[i]>>
RemainingOf(us, lo, n) == FlattenSeq([i \in 1..n |-> UnlessLost(us, lo, i)])

LEMMA RemainingIs == \A n : Remaining(n) = RemainingOf(units, lost, n)
  BY DEF Remaining, RemainingOf, UnlessLost

LEMMA UnlessLostType ==
    ASSUME NEW us \in Seq(Units), NEW lo, NEW n \in Nat, n <= Len(us)
    PROVE  [i \in 1..n |-> UnlessLost(us, lo, i)] \in Seq(Seq(Units))
  <1>1. ASSUME NEW i \in 1..n
        PROVE  UnlessLost(us, lo, i) \in Seq(Units)
    <2>1. us[i] \in Units
      OBVIOUS
    <2> QED
      BY <2>1 DEF UnlessLost
  <1> DEFINE F(i) == UnlessLost(us, lo, i)
  <1>2. \A i \in 1..n : F(i) \in Seq(Units)
    BY <1>1
  <1> HIDE DEF F
  <1>3. [i \in 1..n |-> F(i)] \in Seq(Seq(Units))
    BY <1>2
  <1> QED
    BY <1>3 DEF F

LEMMA RemainingType ==
    ASSUME NEW us \in Seq(Units), NEW lo, NEW n \in Nat, n <= Len(us)
    PROVE  RemainingOf(us, lo, n) \in Seq(Units) /\ RemainingOf(us, lo, n) \in Seq(Trees)
  <1>1. RemainingOf(us, lo, n) \in Seq(Units)
    BY UnlessLostType, FlattenType DEF RemainingOf
  <1> QED
    BY <1>1, UnitsAreTrees

LEMMA RemainingNone ==
    ASSUME NEW us, NEW lo
    PROVE  RemainingOf(us, lo, 0) = <<>>
  <1>1. [i \in 1..0 |-> UnlessLost(us, lo, i)] = <<>>
    OBVIOUS
  <1> QED
    BY <1>1, FlattenEmpty DEF RemainingOf

LEMMA RemainingNext ==
    ASSUME NEW us \in Seq(Units), NEW lo, NEW n \in Nat, n + 1 <= Len(us)
    PROVE  RemainingOf(us, lo, n + 1) = RemainingOf(us, lo, n) \o UnlessLost(us, lo, n + 1)
  <1> DEFINE F(i) == UnlessLost(us, lo, i)
             first == [i \in 1..n |-> F(i)]
             all == [i \in 1..(n + 1) |-> F(i)]
  <1>1. n <= Len(us) /\ n + 1 \in Nat /\ n + 1 \in 1..(n + 1) /\ n + 1 \in 1..Len(us)
    OBVIOUS
  <1>2. first \in Seq(Seq(Units)) /\ all \in Seq(Seq(Units))
    BY <1>1, UnlessLostType
  <1>3. F(n + 1) \in Seq(Units)
    <2>1. us[n + 1] \in Units
      BY <1>1
    <2> QED
      BY <2>1 DEF UnlessLost
  <1>4. all = Append(first, F(n + 1))
    <2> HIDE DEF F
    <2>1. Len(first) = n /\ Len(all) = n + 1
      OBVIOUS
    <2> QED
      BY <2>1
  <1>5. FlattenSeq(Append(first, F(n + 1))) = FlattenSeq(first) \o F(n + 1)
    <2> HIDE DEF F, first
    <2> QED
      BY <1>2, <1>3, FlattenAppend
  <1> QED
    BY <1>4, <1>5 DEF RemainingOf

LEMMA RemainingSame ==
    ASSUME NEW us, NEW lo, NEW other, NEW n \in Nat,
           \A i \in 1..n : i \in lo <=> i \in other
    PROVE  RemainingOf(us, lo, n) = RemainingOf(us, other, n)
  <1>1. \A i \in 1..n : UnlessLost(us, lo, i) = UnlessLost(us, other, i)
    BY DEF UnlessLost
  <1>2. [i \in 1..n |-> UnlessLost(us, lo, i)] = [i \in 1..n |-> UnlessLost(us, other, i)]
    BY <1>1
  <1> QED
    BY <1>2 DEF RemainingOf

(* What is lost behind the n-th unit leaves what remains of the first n.   *)
LEMMA RemainingLost ==
    ASSUME NEW us \in Seq(Units), NEW lo, NEW n \in Nat, NEW m \in Nat,
           n <= m, m <= Len(us), \A i \in (n + 1)..m : i \in lo
    PROVE  RemainingOf(us, lo, m) = RemainingOf(us, lo, n)
  <1> DEFINE T == {k \in Nat : n + k <= m => RemainingOf(us, lo, n + k) = RemainingOf(us, lo, n)}
  <1>1. 0 \in T
    OBVIOUS
  <1>2. ASSUME NEW k \in Nat, k \in T
        PROVE  k + 1 \in T
    <2> SUFFICES ASSUME n + (k + 1) <= m
                 PROVE  RemainingOf(us, lo, n + (k + 1)) = RemainingOf(us, lo, n)
      OBVIOUS
    <2>1. /\ n + k <= m /\ n + k \in Nat /\ n + (k + 1) = (n + k) + 1
          /\ (n + k) + 1 <= Len(us) /\ (n + k) + 1 \in (n + 1)..m /\ n + k <= Len(us)
      OBVIOUS
    <2>2. RemainingOf(us, lo, n + k) = RemainingOf(us, lo, n)
      BY <1>2, <2>1
    <2>3. RemainingOf(us, lo, (n + k) + 1)
            = RemainingOf(us, lo, n + k) \o UnlessLost(us, lo, (n + k) + 1)
      BY <2>1, RemainingNext
    <2>4. UnlessLost(us, lo, (n + k) + 1) = <<>>
      BY <2>1 DEF UnlessLost
    <2>5. RemainingOf(us, lo, n + k) \in Seq(Units)
      BY <2>1, RemainingType
    <2>6. RemainingOf(us, lo, n + k) \o <<>> = RemainingOf(us, lo, n + k)
      BY <2>5
    <2> QED
      BY <2>1, <2>2, <2>3, <2>4, <2>6
  <1>3. Nat \subseteq T
    <2> HIDE DEF T
    <2> QED
      BY <1>1, <1>2, Induct
  <1>4. m - n \in Nat /\ n + (m - n) = m /\ m <= m
    OBVIOUS
  <1>5. m - n \in T
    BY <1>3, <1>4
  <1>6. n + (m - n) <= m => RemainingOf(us, lo, n + (m - n)) = RemainingOf(us, lo, n)
    BY <1>5
  <1> QED
    BY <1>4, <1>6

(* The question marks that stand open, in their order, and what the calls  *)
(* outside of each have of the units before it.                            *)
OpenAt(acts, us, lo, to, n) ==
    /\ acts[n].question.i \in 1..to
    /\ \A m \in 2..n : acts[m].question.i <= acts[n].question.i
    /\ Keeps(RemainingOf(us, lo, acts[n].question.i - 1), AllNodes(SubSeq(acts, 1, n - 1)))

Standing(acts, us, lo, to) == \A n \in 2..Len(acts) : OpenAt(acts, us, lo, to, n)

LEMMA StandingNone ==
    ASSUME NEW acts, NEW us, NEW lo, NEW to, Len(acts) = 1
    PROVE  Standing(acts, us, lo, to)
  BY DEF Standing

LEMMA StandingFurther ==
    ASSUME NEW acts, NEW us, NEW lo, NEW to \in Nat, Standing(acts, us, lo, to)
    PROVE  Standing(acts, us, lo, to + 1)
  BY DEF Standing, OpenAt

(* Sequences that begin alike.                                             *)
LEMMA OpenAtSame ==
    ASSUME NEW acts, NEW other, NEW us, NEW lo, NEW to, NEW n \in Nat, n >= 2,
           OpenAt(acts, us, lo, to, n),
           \A j \in 1..(n - 1) : other[j] = acts[j],
           other[n].question.i = acts[n].question.i
    PROVE  OpenAt(other, us, lo, to, n)
  <1>1. SubSeq(other, 1, n - 1) = SubSeq(acts, 1, n - 1)
    <2>1. \A j \in 1..(n - 1) : other[1 + j - 1] = acts[1 + j - 1]
      OBVIOUS
    <2> QED
      BY <2>1
  <1>2. \A m \in 2..n : other[m].question.i = acts[m].question.i
    OBVIOUS
  <1>3. n \in 2..n
    OBVIOUS
  <1> QED
    BY <1>1, <1>2, <1>3 DEF OpenAt

LEMMA StandingReplaced ==
    ASSUME NEW acts \in Seq(Act), acts # <<>>, NEW a \in Act,
           a.question.i = Last(acts).question.i,
           NEW us, NEW lo, NEW to, Standing(acts, us, lo, to)
    PROVE  Standing(Replaced(acts, a), us, lo, to)
  <1> DEFINE after == Replaced(acts, a)
             k == Len(acts)
  <1>1. /\ Front(acts) \in Seq(Act) /\ k \in Nat \ {0} /\ Len(Front(acts)) = k - 1
        /\ \A j \in 1..(k - 1) : Front(acts)[j] = acts[j]
    BY EndsInLast
  <1>2. /\ Len(after) = (k - 1) + 1 /\ after[(k - 1) + 1] = a
        /\ \A j \in 1..(k - 1) : after[j] = Front(acts)[j]
    BY <1>1, EndsInAppended DEF Replaced
  <1>3. Last(acts) = acts[k]
    BY DEF Last
  <1> HIDE DEF after, k
  <1>4. Len(after) = k /\ after[k] = a /\ \A j \in 1..(k - 1) : after[j] = acts[j]
    BY <1>1, <1>2
  <1>5. ASSUME NEW n \in 2..k
        PROVE  OpenAt(after, us, lo, to, n)
    <2>1. /\ OpenAt(acts, us, lo, to, n) /\ n \in Nat /\ n >= 2
          /\ \A j \in 1..(n - 1) : j \in 1..(k - 1)
          /\ n = k \/ n \in 1..(k - 1)
      BY <1>1 DEF Standing, k
    <2>2. after[n].question.i = acts[n].question.i
      BY <1>3, <1>4, <2>1
    <2> QED
      BY <1>4, <2>1, <2>2, OpenAtSame
  <1>6. Standing(after, us, lo, to)
    BY <1>4, <1>5 DEF Standing
  <1> QED
    BY <1>6 DEF after

(* The calls a call is inside of.                                          *)
LEMMA StandingFront ==
    ASSUME NEW acts \in Seq(Act), acts # <<>>,
           NEW us, NEW lo, NEW to, Standing(acts, us, lo, to)
    PROVE  /\ Standing(Front(acts), us, lo, to)
           /\ Len(acts) # 1 => OpenAt(acts, us, lo, to, Len(acts))
  <1> DEFINE k == Len(acts)
             front == Front(acts)
  <1>1. /\ k \in Nat \ {0} /\ Len(front) = k - 1
        /\ \A j \in 1..(k - 1) : front[j] = acts[j]
    BY EndsInLast
  <1> HIDE DEF front
  <1>2. ASSUME NEW n \in 2..(k - 1)
        PROVE  OpenAt(front, us, lo, to, n)
    <2>1. /\ n \in 2..k /\ n \in Nat /\ n >= 2 /\ n \in 1..(k - 1)
          /\ \A j \in 1..(n - 1) : j \in 1..(k - 1)
      BY <1>1
    <2>2. OpenAt(acts, us, lo, to, n)
      BY <2>1 DEF Standing
    <2>3. front[n].question.i = acts[n].question.i
          /\ \A j \in 1..(n - 1) : front[j] = acts[j]
      BY <1>1, <2>1
    <2> HIDE DEF k
    <2> QED
      BY <2>1, <2>2, <2>3, OpenAtSame
  <1>3. k # 1 => k \in 2..k
    BY <1>1
  <1> QED
    BY <1>1, <1>2, <1>3 DEF Standing, front

(* A question mark is opened.                                              *)
LEMMA StandingAppend ==
    ASSUME NEW acts \in Seq(Act), acts # <<>>, NEW a \in Act,
           NEW us, NEW lo, NEW to \in Nat, Standing(acts, us, lo, to),
           a.question.i = to + 1, Keeps(RemainingOf(us, lo, to), AllNodes(acts))
    PROVE  Standing(Append(acts, a), us, lo, to + 1)
  <1> DEFINE after == Append(acts, a)
             k == Len(acts)
  <1>1. /\ k \in Nat \ {0} /\ Len(after) = k + 1 /\ after[k + 1] = a
        /\ \A j \in 1..k : after[j] = acts[j]
    BY EndsInAppended
  <1>2. SubSeq(after, 1, k) = acts
    <2>1. Front(after) = acts
      BY EndsInAppended
    <2>2. Front(after) = SubSeq(after, 1, (k + 1) - 1) /\ (k + 1) - 1 = k
      BY <1>1 DEF Front
    <2> QED
      BY <2>1, <2>2
  <1>3. Standing(acts, us, lo, to + 1)
    BY StandingFurther
  <1>4. \A m \in 2..k : acts[m].question.i \in 1..to
    BY DEF Standing, OpenAt
  <1> HIDE DEF after
  <1>5. ASSUME NEW n \in 2..(k + 1)
        PROVE  OpenAt(after, us, lo, to + 1, n)
    <2>1. CASE n \in 2..k
      <3>1. OpenAt(acts, us, lo, to + 1, n)
        BY <1>3, <2>1 DEF Standing
      <3>2. /\ n \in Nat /\ n >= 2 /\ n \in 1..k /\ \A j \in 1..(n - 1) : j \in 1..k
        BY <1>1, <2>1
      <3> HIDE DEF k
      <3> QED
        BY <1>1, <3>1, <3>2, OpenAtSame
    <2>2. CASE n = k + 1
      <3> HIDE DEF k
      <3>4. after[n] = a
        BY <1>1, <2>2
      <3>1. after[n].question.i = to + 1 /\ to + 1 \in 1..(to + 1) /\ (to + 1) - 1 = to
            /\ n - 1 = k
        <4>1. n - 1 = k
          BY <1>1, <2>2
        <4>2. to + 1 \in 1..(to + 1) /\ (to + 1) - 1 = to
          OBVIOUS
        <4> QED
          BY <3>4, <4>1, <4>2
      <3>2. ASSUME NEW m \in 2..n
            PROVE  after[m].question.i <= after[n].question.i
        <4>1. m \in 2..k \/ m = n
          BY <1>1, <2>2
        <4>2. CASE m \in 2..k
          <5>1. after[m] = acts[m]
            BY <1>1, <4>2
          <5>2. acts[m].question.i \in 1..to
            BY <1>4, <4>2
          <5> QED
            BY <3>1, <5>1, <5>2
        <4>3. CASE m = n
          BY <3>1, <4>3
        <4> QED
          BY <4>1, <4>2, <4>3
      <3>3. Keeps(RemainingOf(us, lo, after[n].question.i - 1), AllNodes(SubSeq(after, 1, n - 1)))
        BY <1>2, <3>1
      <3> QED
        BY <3>1, <3>2, <3>3 DEF OpenAt
    <2>3. n \in 2..k \/ n = k + 1
      BY <1>1
    <2> QED
      BY <2>1, <2>2, <2>3
  <1>6. Standing(after, us, lo, to + 1)
    BY <1>1, <1>5 DEF Standing
  <1> QED
    BY <1>6 DEF after

(* The last call is lost, with what it has of the units.                   *)
LEMMA StandingLost ==
    ASSUME NEW acts \in Seq(Act), acts # <<>>, Len(acts) # 1,
           NEW us \in Seq(Units), NEW lo, NEW to \in Nat, to <= Len(us),
           Standing(acts, us, lo, to),
           NEW after, after = lo \union (Last(acts).question.i .. to)
    PROVE  /\ Standing(Front(acts), us, after, to)
           /\ Keeps(RemainingOf(us, after, to), AllNodes(Front(acts)))
           /\ Last(acts).question.i \in 1..to
  <1> DEFINE k == Len(acts)
             q == Last(acts).question.i
             front == Front(acts)
  <1>1. k \in Nat \ {0} /\ Len(front) = k - 1 /\ \A j \in 1..(k - 1) : front[j] = acts[j]
    BY EndsInLast
  <1>2. Standing(front, us, lo, to) /\ OpenAt(acts, us, lo, to, k)
    BY StandingFront
  <1>3. Last(acts) = acts[k] /\ front = SubSeq(acts, 1, k - 1)
    BY DEF Last, Front
  <1>4. /\ q \in 1..to /\ Keeps(RemainingOf(us, lo, q - 1), AllNodes(front))
        /\ \A m \in 2..k : acts[m].question.i <= q
    BY <1>2, <1>3 DEF OpenAt
  <1> HIDE DEF q, front, k
  <1>5. ASSUME NEW n \in Nat, n <= q - 1
        PROVE  RemainingOf(us, after, n) = RemainingOf(us, lo, n)
    <2>1. \A i \in 1..n : i \in lo <=> i \in after
      BY <1>4, <1>5 DEF q
    <2> QED
      BY <2>1, RemainingSame
  <1>6. Keeps(RemainingOf(us, after, to), AllNodes(front))
    <2>1. q - 1 \in Nat /\ q - 1 <= to /\ (q - 1) + 1 = q /\ q - 1 <= q - 1
      BY <1>4
    <2>2. \A i \in ((q - 1) + 1)..to : i \in after
      BY <2>1 DEF q
    <2>3. RemainingOf(us, after, to) = RemainingOf(us, after, q - 1)
      BY <2>1, <2>2, RemainingLost
    <2>4. RemainingOf(us, after, q - 1) = RemainingOf(us, lo, q - 1)
      BY <1>5, <2>1
    <2> QED
      BY <1>4, <2>3, <2>4
  <1>7. ASSUME NEW n \in 2..(k - 1)
        PROVE  OpenAt(front, us, after, to, n)
    <2>1. OpenAt(front, us, lo, to, n)
      BY <1>1, <1>2 DEF Standing
    <2> DEFINE i == front[n].question.i
    <2>2. i \in 1..to /\ i <= q
      <3>1. n \in 2..k /\ n \in 1..(k - 1)
        BY <1>1
      <3>2. front[n] = acts[n]
        BY <1>1, <3>1
      <3> QED
        BY <1>4, <2>1, <3>1, <3>2 DEF OpenAt
    <2> HIDE DEF i
    <2>3. i - 1 \in Nat /\ i - 1 <= q - 1
      BY <1>4, <2>2
    <2>4. RemainingOf(us, after, i - 1) = RemainingOf(us, lo, i - 1)
      BY <1>5, <2>3
    <2> QED
      BY <2>1, <2>4 DEF OpenAt, i
  <1>8. Standing(front, us, after, to)
    BY <1>1, <1>7 DEF Standing
  <1> QED
    BY <1>4, <1>6, <1>8 DEF q, front
-----------------------------------------------------------------------------
(* The inductive invariant: the types, and what remains of the units that  *)
(* have been read is kept by the trees of the nested calls, laid behind    *)
(* each other.                                                             *)
Parsing == phase \in {"compiling", "failing"}

Types ==
    /\ source \in Sources /\ read \in 0..Len(source.tokens)
    /\ phase \in {"reading", "compiling", "failing", "accepted", "rejected", "undefined"}
    /\ units \in Seq(Units) /\ next \in Nat \ {0} /\ result \in Seq(Trees)
    /\ phase = "reading" => next = 1
    /\ phase # "reading" => \A i \in 1..Len(units) : units[i].i = i
    /\ Parsing => activations # <<>> /\ next \in 1..(Len(units) + 1)
    /\ ActsOK(activations)
    /\ lost \subseteq 0..(next - 1)
    /\ phase = "accepted" <=> result # <<>>

Kept ==
    /\ Parsing /\ ~ dropped =>
          /\ Keeps(RemainingOf(units, lost, next - 1), AllNodes(activations))
          /\ Standing(activations, units, lost, next - 1)
    /\ phase = "accepted" /\ ~ dropped =>
          Keeps(RemainingOf(units, lost, Len(units)), Reverse(result))

IInv == Types /\ Kept

LEMMA ParsingIs ==
    ASSUME Types, Parsing
    PROVE  /\ activations # <<>> /\ ActsOK(activations)
           /\ ActOK(Current) /\ Current \in Act /\ LayersOK(Current.layers)
           /\ Nodes(Current.layers) \in Seq(Trees)
           /\ AllNodes(activations) \in Seq(Trees)
           /\ result = <<>>
  <1>1. activations # <<>> /\ ActsOK(activations) /\ result = <<>>
    BY DEF Types, Parsing
  <1>2. ActOK(Current) /\ AllNodes(activations) \in Seq(Trees)
    BY <1>1, ActsEnd DEF Current
  <1>3. Current \in Act /\ LayersOK(Current.layers)
    BY <1>2 DEF ActOK
  <1> QED
    BY <1>1, <1>2, <1>3, PartType

LEMMA CompilingIs ==
    ASSUME Types, Compiling
    PROVE  /\ Parsing /\ activations # <<>> /\ ActsOK(activations)
           /\ ActOK(Current) /\ Current \in Act /\ LayersOK(Current.layers)
           /\ Nodes(Current.layers) \in Seq(Trees)
           /\ AllNodes(activations) \in Seq(Trees)
           /\ result = <<>>
  <1>1. Parsing
    BY DEF Compiling, Parsing
  <1> QED
    BY <1>1, ParsingIs

LEMMA AtUnitIs ==
    ASSUME Types, AtUnit
    PROVE  /\ next \in 1..Len(units) /\ units[next] \in Units /\ units[next] \in Trees
           /\ units[next].args = <<>> /\ <<units[next]>> \in Seq(Trees)
           /\ units[next].i = next /\ next \notin lost
           /\ next - 1 \in Nat /\ next - 1 <= Len(units) /\ (next - 1) + 1 = next
           /\ RemainingOf(units, lost, next - 1) \in Seq(Trees)
           /\ RemainingOf(units, lost, next)
                = RemainingOf(units, lost, next - 1) \o <<units[next]>>
  <1>1. /\ next \in 1..Len(units) /\ units \in Seq(Units) /\ lost \subseteq 0..(next - 1)
        /\ \A i \in 1..Len(units) : units[i].i = i
    <2>1. next \in Nat \ {0} /\ next <= Len(units) /\ units \in Seq(Units)
      BY DEF Types, AtUnit
    <2>2. next \in 1..Len(units)
      BY <2>1
    <2> QED
      BY <2>1, <2>2 DEF Types, AtUnit, Compiling
  <1>2. /\ units[next] \in Units /\ units[next] \in Trees
        /\ units[next].args = <<>> /\ <<units[next]>> \in Seq(Trees)
    BY <1>1, UnitsBefore
  <1>3. /\ next - 1 \in Nat /\ next - 1 <= Len(units) /\ (next - 1) + 1 = next
        /\ next \notin lost
    BY <1>1
  <1>4. RemainingOf(units, lost, next - 1) \in Seq(Trees)
    BY <1>1, <1>3, RemainingType
  <1>5. RemainingOf(units, lost, (next - 1) + 1)
          = RemainingOf(units, lost, next - 1) \o UnlessLost(units, lost, (next - 1) + 1)
    <2>1. (next - 1) + 1 <= Len(units)
      BY <1>1, <1>3
    <2> QED
      BY <1>1, <1>3, <2>1, RemainingNext
  <1>6. UnlessLost(units, lost, next) = <<units[next]>>
    BY <1>3 DEF UnlessLost
  <1> QED
    BY <1>1, <1>2, <1>3, <1>4, <1>5, <1>6

(* The parser ends without a result, or begins to hand an error on.        *)
LEMMA GoToKeeps ==
    ASSUME IInv, Compiling, NEW p \in {"failing", "rejected", "undefined"}, GoTo(p)
    PROVE  IInv' /\ phase' # phase
  <1>1. /\ phase = "compiling" /\ phase' = p
        /\ UNCHANGED <<source, read, units, activations, next, result, dropped, lost>>
    BY DEF Compiling, GoTo
  <1>2. Types'
    BY <1>1 DEF IInv, Types, Parsing
  <1>3. Kept'
    BY <1>1 DEF IInv, Kept, Parsing
  <1> QED
    BY <1>1, <1>2, <1>3 DEF IInv

(* A unit has been put.                                                    *)
LEMMA UnitKeeps ==
    ASSUME IInv, AtUnit, UNCHANGED <<source, read, units, phase, result, lost>>,
           next' = next + 1, ActsOK(activations'), activations' # <<>>,
           ~ dropped' => /\ ~ dropped
                         /\ Keeps(AllNodes(activations) \o <<units[next]>>, AllNodes(activations'))
                         /\ Standing(activations', units, lost, next)
    PROVE  IInv'
  <1>1. Types /\ Kept /\ Compiling
    BY DEF IInv, AtUnit
  <1>2. /\ next \in 1..Len(units) /\ <<units[next]>> \in Seq(Trees)
        /\ RemainingOf(units, lost, next - 1) \in Seq(Trees)
        /\ RemainingOf(units, lost, next)
             = RemainingOf(units, lost, next - 1) \o <<units[next]>>
        /\ (next + 1) - 1 = next
    <2>1. /\ next \in 1..Len(units) /\ <<units[next]>> \in Seq(Trees)
          /\ RemainingOf(units, lost, next - 1) \in Seq(Trees)
          /\ RemainingOf(units, lost, next)
               = RemainingOf(units, lost, next - 1) \o <<units[next]>>
      BY <1>1, AtUnitIs
    <2>2. (next + 1) - 1 = next
      BY <2>1
    <2> QED
      BY <2>1, <2>2
  <1>3. Types'
    <2>1. next + 1 \in Nat \ {0} /\ next + 1 \in 1..(Len(units) + 1)
      BY <1>2
    <2>2. phase = "compiling"
      BY <1>1 DEF Compiling
    <2>3. lost \subseteq 0..((next + 1) - 1)
      <3>1. \A i \in 0..(next - 1) : i \in 0..next
        BY <1>2
      <3> QED
        BY <1>1, <1>2, <3>1 DEF Types
    <2> QED
      BY <1>1, <2>1, <2>2, <2>3 DEF Types, Parsing
  <1>4. ASSUME ~ dropped'
        PROVE  Keeps(RemainingOf(units, lost, next), AllNodes(activations'))
    <2>1. Keeps(RemainingOf(units, lost, next - 1), AllNodes(activations))
      BY <1>1, <1>4, CompilingIs DEF Kept
    <2>2. AllNodes(activations) \in Seq(Trees)
      BY <1>1, CompilingIs
    <2>3. Keeps(RemainingOf(units, lost, next - 1) \o <<units[next]>>,
                AllNodes(activations) \o <<units[next]>>)
      BY <1>2, <2>1, <2>2, TreesAre, KeepsRefl, KeepsConcat
    <2> QED
      BY <1>2, <1>4, <2>3, KeepsTrans
  <1>5. Kept'
    BY <1>1, <1>2, <1>4 DEF Kept, Compiling
  <1> QED
    BY <1>3, <1>5 DEF IInv

(* No unit has been put.                                                   *)
LEMMA EndKeeps ==
    ASSUME IInv, Parsing, UNCHANGED <<source, read, units, result, next>>, Parsing',
           ActsOK(activations'), activations' # <<>>, lost' \subseteq 0..(next - 1),
           ~ dropped' => /\ ~ dropped
                         /\ Keeps(RemainingOf(units, lost', next - 1), AllNodes(activations'))
                         /\ Standing(activations', units, lost', next - 1)
    PROVE  IInv'
  <1>1. Types'
    BY DEF IInv, Types, Parsing
  <1>2. Kept'
    BY DEF IInv, Kept, Parsing
  <1> QED
    BY <1>1, <1>2 DEF IInv
-----------------------------------------------------------------------------
(* The actions.                                                            *)
LEMMA InitHolds == Init => IInv
  <1> SUFFICES ASSUME Init PROVE IInv
    OBVIOUS
  <1>1. source.tokens \in Seq(Token)
    BY SourcesAssumption DEF Init
  <1>2. 0 \in 0..Len(source.tokens)
    BY <1>1
  <1>3. <<>> \in Seq(Units) /\ <<>> \in Seq(Trees) /\ <<>> \in Seq(Act) /\ Len(<<>>) = 0
    OBVIOUS
  <1>4. ActsOK(<<>>)
    BY <1>3 DEF ActsOK
  <1>5. Types
    BY <1>2, <1>3, <1>4 DEF Init, Types, Parsing
  <1>6. Kept
    BY DEF Init, Kept, Parsing
  <1> QED
    BY <1>5, <1>6 DEF IInv

LEMMA ReadTokenKeeps ==
    ASSUME IInv, ReadToken
    PROVE  IInv'
  <1>1. source.tokens \in Seq(Token) /\ read \in 0..Len(source.tokens)
        /\ read < Len(source.tokens) /\ units \in Seq(Units)
    BY SourcesAssumption DEF IInv, Types, ReadToken
  <1>2. source.tokens[read + 1] \in Token /\ read + 1 \in 0..Len(source.tokens)
    BY <1>1
  <1>3. units' \in Seq(Units)
    BY <1>1, <1>2, ReadType DEF ReadToken
  <1>4. Types'
    BY <1>2, <1>3 DEF IInv, Types, ReadToken, Parsing
  <1>5. Kept'
    BY DEF IInv, Kept, ReadToken, Parsing
  <1> QED
    BY <1>4, <1>5 DEF IInv

LEMMA CompileKeeps ==
    ASSUME IInv, Compile
    PROVE  IInv'
  <1>1. units \in Seq(Units) /\ phase = "reading" /\ next = 1 /\ ActsOK(activations)
        /\ result = <<>> /\ units' = Numbered(units)
        /\ UNCHANGED <<source, read, next, result, dropped, lost>>
        /\ source \in Sources /\ read \in 0..Len(source.tokens)
        /\ lost \subseteq 0..(next - 1)
    BY DEF IInv, Types, Compile
  <1>2. /\ units' \in Seq(Units) /\ \A i \in 1..Len(units') : units'[i].i = i
        /\ Len(units') \in Nat /\ 1 \in 1..(Len(units') + 1)
    <2>1. /\ units' \in Seq(Units) /\ Len(units') = Len(units)
          /\ \A i \in 1..Len(units) : units'[i].i = i
      BY <1>1, NumberedIs
    <2>2. Len(units') \in Nat
      BY <2>1
    <2>3. \A n \in Nat : 1 \in 1..(n + 1)
      OBVIOUS
    <2> QED
      BY <2>1, <2>2, <2>3
  <1>3. CASE activations' = <<Activation("none", Unit("none"), Unit("none"))>>
             /\ phase' = "compiling"
    <2> DEFINE a == Activation("none", Unit("none"), Unit("none"))
    <2>1. Unit("none") \in Trees /\ Unit("none").args = <<>>
      <3>1. "none" \in Parents
        BY DEF Parents
      <3>2. Unit("none") \in [op : Parents, i : Nat, args : Seq(Trees)]
        BY <3>1 DEF Unit, Node
      <3> QED
        BY <3>2, TreesAre DEF AreAllTrees, Unit, Node
    <2>2. ActOK(a) /\ a.clause = "none" /\ Part(a) = <<>>
      <3>1. "none" \in {"none", "if", "else"} /\ "none" # "if" /\ "none" # "else"
        OBVIOUS
      <3> QED
        BY <2>1, <3>1, ActivationIs
    <2> HIDE DEF a
    <2>3. ActsOK(<<>>)
      BY DEF ActsOK
    <2>4. ActsOK(<<a>>) /\ <<a>> # <<>>
      <3>1. Append(<<>>, a) = <<a>>
        OBVIOUS
      <3> QED
        BY <2>2, <2>3, <3>1, ActsAppend
    <2>5. AllNodes(<<a>>) = <<>>
      BY <2>2, AllNodesOne DEF ActOK
    <2>6. activations' = <<a>>
      BY <1>3 DEF a
    <2>7. Types'
      BY <1>1, <1>2, <1>3, <2>4, <2>6 DEF Types, Parsing
    <2>8. RemainingOf(units', lost', next' - 1) = <<>>
      BY <1>1, RemainingNone
    <2>9. Standing(activations', units', lost', next' - 1)
      <3>1. Len(activations') = 1
        BY <2>6
      <3> QED
        BY <3>1, StandingNone
    <2>10. Kept'
      BY <1>3, <2>5, <2>6, <2>8, <2>9, KeepsRefl DEF Kept
    <2> QED
      BY <2>7, <2>10 DEF IInv
  <1>4. CASE activations' = activations /\ phase' = "rejected"
    <2>1. Types'
      BY <1>1, <1>2, <1>4 DEF Types, Parsing
    <2>2. Kept'
      BY <1>4 DEF Kept, Parsing
    <2> QED
      BY <2>1, <2>2 DEF IInv
  <1> QED
    BY <1>3, <1>4 DEF Compile

(* An operand that is put ends no clause without others beside it.         *)
LEMMA OperandCollected ==
    ASSUME NEW layers, LayersOK(layers), NEW unit \in Trees, unit.args = <<>>,
           NEW after, after = Replaced(layers, PushOutput(Top(layers), <<unit>>)),
           Last(after[1].out).args # <<>>
    PROVE  LeavesOut(after)
  <1> DEFINE n == Len(layers)
             top == Top(layers)
  <1>1. <<unit>> \in Seq(Trees)
    OBVIOUS
  <1>2. /\ Len(after) = n /\ n \in Nat \ {0}
        /\ after[n].out = top.out \o <<unit>> /\ top.out \in Seq(Trees)
    BY <1>1, PushOutputIs
  <1> HIDE DEF n, top
  <1>3. \A s \in Seq(Trees) : /\ Last(s \o <<unit>>) = unit
                              /\ Len(s \o <<unit>>) # 0
    BY DEF Last
  <1>4. Last(after[n].out) = unit /\ Len(after[n].out) # 0
    BY <1>2, <1>3
  <1>5. n # 1 /\ n \in 1..Len(after)
    BY <1>2, <1>4
  <1> QED
    BY <1>4, <1>5 DEF LeavesOut

(* The question marks stand when the last call goes on past a unit.        *)
LEMMA StandsOn ==
    ASSUME IInv, AtUnit, ~ dropped, NEW a \in Act,
           a.question.i = Last(activations).question.i
    PROVE  Standing(Replaced(activations, a), units, lost, next)
  <1>1. Types /\ Kept /\ Compiling
    BY DEF IInv, AtUnit
  <1>2. activations \in Seq(Act) /\ activations # <<>> /\ Parsing
    BY <1>1, CompilingIs DEF ActsOK
  <1>3. next - 1 \in Nat /\ (next - 1) + 1 = next
    BY <1>1, AtUnitIs
  <1>4. Standing(activations, units, lost, next - 1)
    BY <1>1, <1>2 DEF Kept
  <1>5. Standing(Replaced(activations, a), units, lost, next - 1)
    BY <1>2, <1>4, StandingReplaced
  <1>6. Standing(Replaced(activations, a), units, lost, (next - 1) + 1)
    BY <1>3, <1>5, StandingFurther
  <1> QED
    BY <1>3, <1>6

LEMMA PutUnitKeeps ==
    ASSUME IInv, PutUnit
    PROVE  IInv'
  <1> DEFINE a == [Current EXCEPT !.layers = Put]
             u == units[next]
  <1>1. Types /\ Compiling /\ AtUnit /\ Put # Failure /\ ~ IsCollected(Put)
        /\ activations' = Replaced(activations, a) /\ next' = next + 1
        /\ UNCHANGED <<source, read, units, phase, result, dropped, lost>>
    BY DEF IInv, PutUnit, AtUnit
  <1>2. /\ activations # <<>> /\ ActsOK(activations)
        /\ ActOK(Current) /\ Current \in Act /\ LayersOK(Current.layers)
        /\ Nodes(Current.layers) \in Seq(Trees)
    BY <1>1, CompilingIs
  <1>3. u \in Units /\ u \in Trees /\ <<u>> \in Seq(Trees)
    BY <1>1, AtUnitIs
  <1> HIDE DEF u
  <1>4. Put = PutAnExpUnit(Current.layers, u)
    BY DEF Put, u
  <1> DEFINE put == Put
  <1>5. /\ LayersOK(put) /\ Keeps(Nodes(Current.layers) \o <<u>>, Nodes(put))
        /\ Bottom(Current.layers) => Bottom(put) \/ GotParameter(put)
    <2> DEFINE layers == Current.layers
    <2>1. LayersOK(layers) /\ put = PutAnExpUnit(layers, u) /\ put # Failure
      BY <1>1, <1>2, <1>4
    <2> HIDE DEF layers, put
    <2>2. /\ LayersOK(put) /\ Keeps(Nodes(layers) \o <<u>>, Nodes(put))
          /\ Bottom(layers) => Bottom(put) \/ GotParameter(put)
      BY <1>3, <2>1, PutIs
    <2> QED
      BY <2>2 DEF layers
  <1>6. put # Failure /\ ~ IsCollected(put)
    BY <1>1
  <1>7. a = [Current EXCEPT !.layers = put]
    OBVIOUS
  <1> HIDE DEF put, a
  <1>8. put \in Seq(Layer) /\ Nodes(put) \in Seq(Trees)
    BY <1>5, OutsType DEF LayersOK
  <1>9. a = [clause |-> Current.clause, question |-> Current.question, layers |-> put]
        /\ Current.clause \in {"none", "if", "else"} /\ Current.question \in Trees
        /\ Current.question.args \in Seq(Trees)
    BY <1>2, <1>7, PartType DEF Act
  <1>10. Current.clause = "else" => Bottom(put)
    <2>1. GotParameter(put) /\ Current.clause = "else" => IsCollected(put)
      BY <1>6 DEF GotParameter, IsCollected
    <2> QED
      BY <1>2, <1>5, <1>6, <2>1 DEF ActOK
  <1>11. ActOK(a)
    <2>1. a \in Act
      BY <1>8, <1>9 DEF Act
    <2> QED
      BY <1>2, <1>5, <1>9, <1>10, <2>1 DEF ActOK
  <1>12. Keeps(Part(Current) \o <<u>>, Part(a))
    <2> DEFINE q == Current.question.args
               nodes == Nodes(Current.layers)
    <2>1. Part(Current) = q \o nodes /\ Part(a) = q \o Nodes(put)
      BY <1>9 DEF Part
    <2>2. q \in Seq(Trees) /\ nodes \in Seq(Trees)
      BY <1>2, <1>9
    <2>3. Keeps(nodes \o <<u>>, Nodes(put))
      BY <1>5
    <2> HIDE DEF q, nodes
    <2>4. (q \o nodes) \o <<u>> = q \o (nodes \o <<u>>) /\ nodes \o <<u>> \in Seq(Trees)
      <3>1. \A x, y, z \in Seq(Trees) : (x \o y) \o z = x \o (y \o z)
        BY ConcatAssociative
      <3> QED
        BY <1>3, <2>2, <3>1, ConcatProperties
    <2>5. Keeps(q \o (nodes \o <<u>>), q \o Nodes(put))
      BY <1>8, <2>2, <2>3, <2>4, TreesAre, KeepsBehind
    <2> QED
      BY <2>1, <2>4, <2>5
  <1>13. a.clause = "none" <=> Last(activations).clause = "none"
    BY <1>9 DEF Current
  <1>14. ActsOK(activations') /\ activations' # <<>>
    BY <1>1, <1>2, <1>11, <1>13, ActsReplaced
  <1>15. Keeps(AllNodes(activations) \o <<u>>, AllNodes(activations'))
    <2>1. Keeps(Part(Last(activations)) \o <<u>>, Part(a))
      BY <1>12 DEF Current
    <2> QED
      BY <1>1, <1>2, <1>3, <1>11, <1>13, <2>1, ReplacedKeeps
  <1>16. ~ dropped => Standing(activations', units, lost, next)
    <2>1. a.question.i = Last(activations).question.i
      BY <1>9 DEF Current
    <2> QED
      BY <1>1, <1>2, <1>11, <2>1, StandsOn DEF ActOK
  <1> QED
    BY <1>1, <1>14, <1>15, <1>16, UnitKeeps DEF u

LEMMA BeginIfKeeps ==
    ASSUME IInv, BeginIf
    PROVE  IInv'
  <1> DEFINE u == units[next]
             reduced == Replaced(Current.layers, Reduced(Top(Current.layers), u))
             a == [Current EXCEPT !.layers = reduced]
             b == Activation("if", u, Unit("clause"))
             outer == Replaced(activations, a)
  <1>1. Types /\ Compiling /\ AtUnit /\ u.op = "question"
        /\ activations' = Append(outer, b) /\ next' = next + 1
        /\ UNCHANGED <<source, read, units, phase, result, dropped, lost>>
    BY DEF IInv, BeginIf, AtUnit
  <1>2. /\ activations # <<>> /\ ActsOK(activations)
        /\ ActOK(Current) /\ Current \in Act /\ LayersOK(Current.layers)
        /\ AllNodes(activations) \in Seq(Trees)
    BY <1>1, CompilingIs
  <1>3. /\ u \in Trees /\ u.args = <<>> /\ <<u>> \in Seq(Trees) /\ u.i = next
        /\ next - 1 \in Nat /\ (next - 1) + 1 = next
    BY <1>1, AtUnitIs
  <1> HIDE DEF u
  <1>4. IsFunction(u) /\ u.op # "choice" /\ ~ IsValue(u)
    <2>1. "question" \in DOMAIN Priority /\ "question" \notin Operand
      BY DEF Priority, Operand
    <2> QED
      BY <1>1, <2>1 DEF IsFunction, IsValue, IsOperand
  <1>5. /\ LayersOK(reduced) /\ Keeps(Nodes(Current.layers), Nodes(reduced))
        /\ Bottom(Current.layers) => Bottom(reduced)
        /\ Nodes(Current.layers) \in Seq(Trees) /\ Nodes(reduced) \in Seq(Trees)
    BY <1>2, <1>4, ReducedTopIs
  <1> HIDE DEF reduced
  <1>6. reduced \in Seq(Layer)
    BY <1>5 DEF LayersOK
  <1>7. a = [clause |-> Current.clause, question |-> Current.question, layers |-> reduced]
        /\ Current.clause \in {"none", "if", "else"} /\ Current.question \in Trees
        /\ Current.question.args \in Seq(Trees)
    BY <1>2, PartType DEF Act
  <1> HIDE DEF a, b
  <1>8. ActOK(a)
    <2>1. a \in Act
      BY <1>6, <1>7 DEF Act
    <2> QED
      BY <1>2, <1>5, <1>7, <2>1 DEF ActOK
  <1>17. b.question = u
    BY DEF b, Activation
  <1>9. Keeps(Part(Current), Part(a))
    <2>1. Part(a) = Current.question.args \o Nodes(reduced)
      BY <1>7 DEF Part
    <2> QED
      BY <1>5, <1>7, <2>1, TreesAre, KeepsBehind DEF Part
  <1>10. ActOK(b) /\ b.clause = "if" /\ Part(b) = <<>>
    <2>1. "clause" \in DOMAIN Priority /\ "clause" \in Parents
      BY Functions DEF Priority
    <2>2. Unit("clause") \in [op : Parents, i : Nat, args : Seq(Trees)]
          /\ Unit("clause").args = <<>> /\ IsFunction(Unit("clause"))
      BY <2>1 DEF Unit, Node, IsFunction
    <2>3. Unit("clause") \in Trees
      BY <2>2, TreesAre DEF AreAllTrees
    <2>4. "if" \in {"none", "if", "else"} /\ "if" # "none" /\ "if" # "else"
      OBVIOUS
    <2>5. ActOK(b) /\ b.clause = "if" /\ Part(b) = u.args
      BY <1>1, <1>3, <2>2, <2>3, <2>4, ActivationIs DEF b
    <2> QED
      BY <1>3, <2>5
  <1>11. a.clause = "none" <=> Last(activations).clause = "none"
    BY <1>7 DEF Current
  <1>12. ActsOK(outer) /\ outer # <<>>
    BY <1>2, <1>8, <1>11, ActsReplaced
  <1>13. Keeps(AllNodes(activations), AllNodes(outer)) /\ AllNodes(outer) \in Seq(Trees)
    <2>1. Part(Current) \in Seq(Trees) /\ <<>> \in Seq(Trees)
      BY <1>2, PartType
    <2>2. Keeps(Part(Last(activations)) \o <<>>, Part(a))
      BY <1>9, <2>1 DEF Current
    <2>3. Keeps(AllNodes(activations) \o <<>>, AllNodes(outer))
      BY <1>2, <1>8, <1>11, <2>1, <2>2, ReplacedKeeps
    <2> QED
      BY <1>2, <1>12, <2>3, AllNodesType DEF ActsOK
  <1> HIDE DEF outer
  <1>14. /\ ActsOK(activations') /\ activations' # <<>>
         /\ AllNodes(activations') = AllNodes(outer)
    <2>1. b.clause = "none" <=> outer = <<>>
      BY <1>10, <1>12
    <2>2. /\ ActsOK(Append(outer, b)) /\ Append(outer, b) # <<>>
          /\ AllNodes(Append(outer, b)) = AllNodes(outer) \o Part(b)
      BY <1>10, <1>12, <2>1, ActsAppend
    <2> QED
      BY <1>1, <1>10, <1>13, <2>2
  <1>15. Keeps(AllNodes(activations) \o <<u>>, AllNodes(activations'))
    <2>1. Keeps(<<u>>, <<>>) /\ <<>> \in Seq(Trees)
      BY <1>3, <1>4, TreesAre, KeepsDropped
    <2>2. Keeps(AllNodes(activations) \o <<u>>, AllNodes(activations) \o <<>>)
      BY <1>2, <1>3, <2>1, TreesAre, KeepsBehind
    <2> QED
      BY <1>2, <1>13, <1>14, <2>2, KeepsTrans
  <1>16. ~ dropped => Standing(activations', units, lost, next)
    <2> SUFFICES ASSUME ~ dropped PROVE Standing(activations', units, lost, next)
      OBVIOUS
    <2>1. Keeps(RemainingOf(units, lost, next - 1), AllNodes(activations))
          /\ Standing(activations, units, lost, next - 1)
      BY <1>1, CompilingIs DEF IInv, Kept
    <2>2. activations \in Seq(Act) /\ outer \in Seq(Act) /\ a \in Act /\ b \in Act
      BY <1>2, <1>8, <1>10, <1>12 DEF ActsOK, ActOK
    <2>3. Standing(outer, units, lost, next - 1)
      <3>1. a.question.i = Last(activations).question.i
        BY <1>7 DEF Current
      <3> QED
        BY <1>2, <2>1, <2>2, <3>1, StandingReplaced DEF outer
    <2>4. Keeps(RemainingOf(units, lost, next - 1), AllNodes(outer))
      BY <1>13, <2>1, KeepsTrans
    <2>5. b.question.i = (next - 1) + 1
      BY <1>3, <1>17
    <2>6. Standing(Append(outer, b), units, lost, (next - 1) + 1)
      BY <1>3, <1>12, <2>2, <2>3, <2>4, <2>5, StandingAppend
    <2> QED
      BY <1>1, <1>3, <2>6
  <1> QED
    BY <1>1, <1>14, <1>15, <1>16, UnitKeeps DEF u

LEMMA BeginElseKeeps ==
    ASSUME IInv, BeginElse
    PROVE  IInv'
  <1> DEFINE u == units[next]
             put == Put
             c == Last(put[1].out)
             q == [Current.question EXCEPT !.args = c.args]
             a == Activation("else", q, u)
  <1>1. Types /\ Compiling /\ AtUnit /\ Current.clause = "if" /\ IsCollected(put)
        /\ put # Failure
    BY DEF IInv, BeginElse, AtUnit, IsCollected
  <1>2. \/ /\ u.op = "choice" /\ activations' = Replaced(activations, a)
           /\ next' = next + 1 /\ dropped' = (dropped \/ LeavesOut(put))
           /\ UNCHANGED <<source, read, units, phase, result, lost>>
        \/ GoTo("failing")
    BY DEF BeginElse
  <1>3. CASE GoTo("failing")
    BY <1>1, <1>3, GoToKeeps
  <1>4. CASE /\ u.op = "choice" /\ activations' = Replaced(activations, a)
             /\ next' = next + 1 /\ dropped' = (dropped \/ LeavesOut(put))
             /\ UNCHANGED <<source, read, units, phase, result, lost>>
    <2>1. /\ activations # <<>> /\ ActsOK(activations)
          /\ ActOK(Current) /\ Current \in Act /\ LayersOK(Current.layers)
          /\ Nodes(Current.layers) \in Seq(Trees)
      BY <1>1, CompilingIs
    <2>2. u \in Units /\ u \in Trees /\ u.args = <<>> /\ <<u>> \in Seq(Trees)
      BY <1>1, AtUnitIs
    <2> HIDE DEF u
    <2>3. put = PutAnExpUnit(Current.layers, u)
      BY DEF Put, u
    <2>4. /\ LayersOK(put) /\ Keeps(Nodes(Current.layers) \o <<u>>, Nodes(put))
      <3> DEFINE layers == Current.layers
      <3>1. LayersOK(layers) /\ put = PutAnExpUnit(layers, u) /\ put # Failure
        BY <1>1, <2>1, <2>3
      <3> HIDE DEF layers, put
      <3>2. LayersOK(put) /\ Keeps(Nodes(layers) \o <<u>>, Nodes(put))
        BY <2>2, <3>1, PutIs
      <3> QED
        BY <3>2 DEF layers
    <2>5. c.args # <<>> /\ put[1].out # <<>>
      BY <1>1 DEF IsCollected
    <2> HIDE DEF put
    <2>6. put \in Seq(Layer) /\ put # <<>> /\ Nodes(put) \in Seq(Trees)
      BY <2>4, OutsType DEF LayersOK
    <2>7. c \in Trees
      <3>1. put[1] \in Layer
        BY <2>6
      <3>2. put[1].out \in Seq(Trees)
        BY <3>1 DEF Layer
      <3> QED
        BY <2>5, <3>2, EndsInLast
    <2>8. ~ LeavesOut(put) => Nodes(put) = <<c>>
      BY <2>6, OneTree
    <2> HIDE DEF c
    <2>9. c.args \in Seq(Trees) /\ ~ IsValue(c) /\ <<c>> \in Seq(Trees)
      BY <2>5, <2>7, TreesAre DEF AreTrees, IsValue
    <2>10. /\ Current.question \in Trees /\ Current.question.op = "question"
           /\ Current.question.args = <<>>
      <3>1. "if" # "none"
        OBVIOUS
      <3> QED
        BY <1>1, <2>1, <3>1, PartType DEF ActOK
    <2>11. q \in Trees /\ q.op = "question" /\ q.args = c.args /\ q.i = Current.question.i
      <3>1. Current.question \in [op : Op \union {"none", "params"}, i : Nat, args : Seq(Trees)]
        BY <2>10, TreesAre DEF AreTrees
      <3>2. q = [op |-> "question", i |-> Current.question.i, args |-> c.args]
            /\ Current.question.i \in Nat
        BY <2>10, <3>1
      <3>3. "question" \in Parents
        BY Functions DEF Priority
      <3>4. q \in [op : Parents, i : Nat, args : Seq(Trees)]
        BY <2>9, <3>2, <3>3
      <3> QED
        BY <3>2, <3>4, TreesAre DEF AreAllTrees
    <2> HIDE DEF q
    <2>12. ActOK(a) /\ a.clause = "else" /\ Part(a) = c.args
      <3>1. "else" \in {"none", "if", "else"} /\ "else" # "none" /\ "else" # "if"
        OBVIOUS
      <3>2. IsFunction(u) /\ u.op = "choice"
        BY <1>4, Functions DEF IsFunction, Priority
      <3>3. ActOK(a) /\ a.clause = "else" /\ Part(a) = q.args
        BY <2>2, <2>11, <3>1, <3>2, ActivationIs
      <3> QED
        BY <2>11, <3>3
    <2>16. a.question = q
      BY DEF Activation
    <2> HIDE DEF a
    <2>13. a.clause = "none" <=> Last(activations).clause = "none"
      BY <1>1, <2>12 DEF Current
    <2>14. ActsOK(activations') /\ activations' # <<>>
      BY <1>4, <2>1, <2>12, <2>13, ActsReplaced
    <2>15. ASSUME ~ dropped'
           PROVE  /\ ~ dropped
                  /\ Keeps(AllNodes(activations) \o <<u>>, AllNodes(activations'))
                  /\ Standing(activations', units, lost, next)
      <3>1. ~ dropped /\ ~ LeavesOut(put)
        BY <1>4, <2>15
      <3>2. Keeps(Nodes(Current.layers) \o <<u>>, <<c>>)
        BY <2>4, <2>8, <3>1
      <3>3. Keeps(<<c>>, c.args)
        BY <2>7, <2>9, TreesAre, KeepsWrapped
      <3>4. Part(Current) = Nodes(Current.layers)
        BY <2>1, <2>10 DEF Part
      <3>5. Keeps(Part(Last(activations)) \o <<u>>, Part(a))
        BY <2>12, <3>2, <3>3, <3>4, KeepsTrans DEF Current
      <3>6. Keeps(AllNodes(activations) \o <<u>>, AllNodes(Replaced(activations, a)))
        BY <2>1, <2>2, <2>12, <2>13, <3>5, ReplacedKeeps
      <3>7. Standing(Replaced(activations, a), units, lost, next)
        <4>1. a.question.i = Last(activations).question.i /\ a \in Act
          BY <2>11, <2>12, <2>16 DEF Current, ActOK
        <4> QED
          BY <1>1, <3>1, <4>1, StandsOn
      <3> QED
        BY <1>4, <3>1, <3>6, <3>7
    <2> QED
      BY <1>1, <1>4, <2>14, <2>15, UnitKeeps DEF u
  <1> QED
    BY <1>2, <1>3, <1>4

(* The end of a conditional operator, whoever has found it.                *)
LEMMA FinishConditionalKeeps ==
    ASSUME IInv, Parsing, Current.clause = "else",
           NEW layers \in Seq(Layer), layers # <<>>, layers[1].out # <<>>,
           Last(layers[1].out).args # <<>>,
           ~ LeavesOut(layers) => Keeps(Nodes(Current.layers), Nodes(layers)),
           FinishConditional(layers), UNCHANGED <<source, read, units, result, lost>>
    PROVE  /\ IInv'
           /\ phase' = "undefined" \/ (next' = next /\ Len(activations') < Len(activations))
  <1> DEFINE outer == Last(Front(activations))
             layer == Top(outer.layers)
             node == Conditional(Current.question, Last(layer.out), Last(layers[1].out).args)
             changed == Taking(outer, layer, node)
  <1>1. Types /\ Kept /\ activations # <<>> /\ ActsOK(activations)
    BY ParsingIs DEF IInv
  <1>2. \/ /\ layer.out = <<>> /\ phase' = "undefined" /\ UNCHANGED <<activations, next, dropped>>
        \/ /\ layer.out # <<>>
           /\ activations' = Replaced(Front(activations), changed)
           /\ next' = next /\ phase' = "compiling" /\ dropped' = (dropped \/ LeavesOut(layers))
    BY DEF FinishConditional, Conditional, Taking
  <1>3. CASE phase' = "undefined" /\ UNCHANGED <<activations, next, dropped>>
    <2>1. Types'
      BY <1>1, <1>3 DEF Types, Parsing
    <2>2. Kept'
      BY <1>3 DEF Kept, Parsing
    <2> QED
      BY <1>3, <2>1, <2>2 DEF IInv
  <1>4. CASE /\ layer.out # <<>>
             /\ activations' = Replaced(Front(activations), changed)
             /\ next' = next /\ phase' = "compiling" /\ dropped' = (dropped \/ LeavesOut(layers))
    <2>1. Ending(activations, Current, outer, layer, layers)
      BY <1>1, <1>4 DEF Ending, Current
    <2>7. changed.question = outer.question
      <3>1. outer \in Act
        BY <1>1, <2>1, ActsEnd DEF Current
      <3> QED
        BY <3>1 DEF Taking, Act
    <2> HIDE DEF outer, layer
    <2>2. /\ ActsOK(activations') /\ activations' # <<>>
          /\ Len(activations') = Len(activations) - 1 /\ changed \in Act
          /\ ~ LeavesOut(layers) /\ Last(layers[1].out).args # <<>>
                /\ Keeps(Nodes(Current.layers), Nodes(layers))
             => Keeps(AllNodes(activations), AllNodes(activations'))
      BY <1>4, <2>1, ConditionalIs
    <2>3. ASSUME ~ dropped'
          PROVE  /\ ~ dropped
                 /\ Keeps(RemainingOf(units, lost, next - 1), AllNodes(activations'))
                 /\ Standing(activations', units, lost, next - 1)
      <3>1. /\ ~ dropped
            /\ Keeps(AllNodes(activations), AllNodes(activations'))
        BY <1>4, <2>2, <2>3
      <3>2. /\ Keeps(RemainingOf(units, lost, next - 1), AllNodes(activations))
            /\ Standing(activations, units, lost, next - 1)
        BY <1>1, <3>1 DEF Kept
      <3>3. Standing(Front(activations), units, lost, next - 1)
        BY <1>1, <3>2, StandingFront DEF ActsOK
      <3>4. Standing(Replaced(Front(activations), changed), units, lost, next - 1)
        <4>1. Front(activations) \in Seq(Act) /\ Front(activations) # <<>>
          <5>1. "else" # "none"
            OBVIOUS
          <5> QED
            BY <1>1, <5>1, ActsEnd DEF Current
        <4>2. changed.question.i = Last(Front(activations)).question.i
          BY <2>7 DEF outer
        <4> QED
          BY <2>2, <3>3, <4>1, <4>2, StandingReplaced
      <3> QED
        BY <1>4, <3>1, <3>2, <3>4, KeepsTrans
    <2>4. IInv'
      <3>1. Parsing' /\ lost' = lost /\ lost \subseteq 0..(next - 1)
        BY <1>1, <1>4 DEF Parsing, Types
      <3> QED
        BY <1>4, <2>2, <2>3, <3>1, EndKeeps
    <2>5. Len(activations) \in Nat
      BY <1>1, ActsEnd
    <2>6. Len(activations') < Len(activations)
      BY <2>2, <2>5
    <2> QED
      BY <1>4, <2>4, <2>6
  <1> QED
    BY <1>2, <1>3, <1>4

LEMMA EndElseKeeps ==
    ASSUME IInv, EndElse
    PROVE  /\ IInv'
           /\ phase' = "undefined" \/ (next' = next /\ Len(activations') < Len(activations))
  <1>1. Types /\ Compiling /\ AtUnit /\ Current.clause = "else"
        /\ UNCHANGED <<source, read, units, result, lost>>
    BY DEF IInv, EndElse, AtUnit
  <1>2. LayersOK(Current.layers) /\ Nodes(Current.layers) \in Seq(Trees) /\ Parsing
    BY <1>1, CompilingIs
  <1>3. CASE IsCollected(Put) /\ FinishConditional(Put)
    <2> DEFINE u == units[next]
               layers == Current.layers
               put == Put
    <2>1. u \in Units /\ u \in Trees /\ u.args = <<>>
      BY <1>1, AtUnitIs
    <2>2. /\ put # Failure /\ put[1].out # <<>> /\ Last(put[1].out).args # <<>>
          /\ put = PutAnExpUnit(layers, u) /\ FinishConditional(put)
      BY <1>3 DEF IsCollected, Put
    <2> HIDE DEF put, u
    <2>3. LayersOK(layers)
      BY <1>2
    <2> HIDE DEF layers
    <2>4. /\ LayersOK(put)
          /\ Keeps(Nodes(layers) \o <<u>>, Nodes(put))
          /\ ~ IsOperand(u) => Keeps(Nodes(layers), Nodes(layers) \o <<u>>)
          /\ IsOperand(u) => put = Replaced(layers, PushOutput(Top(layers), <<u>>))
      BY <2>1, <2>2, <2>3, PutIs
    <2>5. IsOperand(u) => LeavesOut(put)
      BY <2>1, <2>2, <2>3, <2>4, OperandCollected
    <2>6. ~ LeavesOut(put) => Keeps(Nodes(layers), Nodes(put))
      BY <2>4, <2>5, KeepsTrans
    <2>7. put \in Seq(Layer) /\ put # <<>>
      BY <2>4 DEF LayersOK
    <2>8. ~ LeavesOut(put) => Keeps(Nodes(Current.layers), Nodes(put))
      BY <2>6 DEF layers
    <2> QED
      BY <1>1, <1>2, <2>2, <2>7, <2>8, FinishConditionalKeeps
  <1>4. CASE ElseEndsAtBracket /\ FinishConditional(MadeFirst)
    <2> DEFINE made == MadeFirst
    <2>1. /\ made \in Seq(Layer) /\ made # <<>>
          /\ Keeps(Nodes(Current.layers), Nodes(made))
      BY <1>2, MadeFirstIs DEF MadeFirst
    <2>2. made[1].out # <<>> /\ Last(made[1].out).args # <<>> /\ FinishConditional(made)
      BY <1>4 DEF ElseEndsAtBracket, IsCollected
    <2> HIDE DEF made
    <2> QED
      BY <1>1, <1>2, <2>1, <2>2, FinishConditionalKeeps
  <1> QED
    BY <1>3, <1>4 DEF EndElse

(* The list of expressions: from the last layer to the first.              *)
LEMMA ListIs ==
    ASSUME NEW layers, LayersOK(layers), NEW list, list = MakeExpressionList(layers),
           list # Failure
    PROVE  /\ list \in Seq(Trees) /\ Len(list) = Len(layers)
           /\ \A j \in 1..Len(layers) : IsSingle(MakeExpression(layers[j]))
           /\ Keeps(Nodes(layers), Reverse(list))
  <1> DEFINE made == Made(layers)
             firsts == [j \in 1..Len(layers) |-> made[j].out[1]]
  <1>1. layers \in Seq(Layer) /\ Len(layers) \in Nat
    BY DEF LayersOK
  <1>2. /\ \A j \in 1..Len(layers) : IsSingle(made[j])
        /\ list = Reverse(firsts)
    BY DEF MakeExpressionList, Made, Failure
  <1>3. made \in Seq(Layer) /\ Keeps(Nodes(layers), Nodes(made)) /\ Len(made) = Len(layers)
        /\ \A j \in 1..Len(layers) : made[j] = MakeExpression(layers[j])
    BY <1>1, MadeKeeps DEF Made
  <1> HIDE DEF made
  <1>4. Nodes(made) = firsts /\ firsts \in Seq(Trees) /\ Len(firsts) = Len(layers)
    <2>1. Nodes(made) = [j \in 1..Len(made) |-> made[j].out[1]] /\ Nodes(made) \in Seq(Trees)
      BY <1>2, <1>3, SinglesAreNodes
    <2>2. Nodes(made) = firsts
      BY <1>3, <2>1
    <2>3. Len(firsts) = Len(layers)
      BY <1>1
    <2> QED
      BY <2>1, <2>2, <2>3
  <1> HIDE DEF firsts
  <1>5. list \in Seq(Trees) /\ Len(list) = Len(layers) /\ Reverse(list) = firsts
    <2>1. \A s \in Seq(Trees) : /\ Reverse(s) \in Seq(Trees) /\ Len(Reverse(s)) = Len(s)
                                /\ Reverse(Reverse(s)) = s
      <3> SUFFICES ASSUME NEW s \in Seq(Trees)
                   PROVE  /\ Reverse(s) \in Seq(Trees) /\ Len(Reverse(s)) = Len(s)
                          /\ Reverse(Reverse(s)) = s
        OBVIOUS
      <3> DEFINE n == Len(s)
                 r == Reverse(s)
      <3>1. n \in Nat /\ r = [i \in 1..n |-> s[(n - i) + 1]]
        BY DEF Reverse
      <3>2. \A i \in 1..n : (n - i) + 1 \in 1..n /\ (n - ((n - i) + 1)) + 1 = i
        BY <3>1
      <3>3. r \in Seq(Trees) /\ Len(r) = n /\ \A i \in 1..n : r[i] = s[(n - i) + 1]
        BY <3>1, <3>2
      <3>4. Reverse(r) = [i \in 1..Len(r) |-> r[(Len(r) - i) + 1]]
        BY DEF Reverse
      <3> HIDE DEF r, n
      <3>5. Reverse(r) = [i \in 1..n |-> s[i]]
        BY <3>2, <3>3, <3>4
      <3>6. [i \in 1..n |-> s[i]] = s
        BY DEF n
      <3> QED
        BY <3>3, <3>5, <3>6 DEF r, n
    <2> QED
      BY <1>2, <1>4, <2>1
  <1> QED
    BY <1>2, <1>3, <1>4, <1>5

(* The end of the else clause whose expression is the only one.            *)
LEMMA OneExpressionKeeps ==
    ASSUME IInv, Parsing, Current.clause = "else", IsOneExpression,
           FinishConditional(MadeFirst), UNCHANGED <<source, read, units, result, lost>>
    PROVE  /\ IInv'
           /\ phase' = "undefined" \/ (next' = next /\ Len(activations') < Len(activations))
  <1> DEFINE layers == Current.layers
             made == MadeFirst
  <1>1. Types /\ Len(MakeExpressionList(layers)) = 1 /\ FinishConditional(made)
    BY DEF IInv, IsOneExpression
  <1>2. LayersOK(layers) /\ Nodes(layers) \in Seq(Trees) /\ Bottom(layers)
    BY <1>1, ParsingIs DEF ActOK
  <1>3. /\ made \in Seq(Layer) /\ made # <<>> /\ Keeps(Nodes(layers), Nodes(made))
        /\ made[1] = MakeExpression(layers[1])
    BY <1>2, MadeFirstIs DEF MadeFirst
  <1> HIDE DEF layers, made
  <1>4. Len(layers) = 1 /\ IsSingle(MakeExpression(layers[1]))
    <2>1. MakeExpressionList(layers) # Failure
      BY <1>1 DEF Failure
    <2>2. /\ Len(MakeExpressionList(layers)) = Len(layers)
          /\ \A j \in 1..Len(layers) : IsSingle(MakeExpression(layers[j]))
      BY <1>2, <2>1, ListIs
    <2>3. Len(layers) = 1
      BY <1>1, <2>2
    <2>4. 1 \in 1..Len(layers)
      BY <2>3
    <2> QED
      BY <2>2, <2>3, <2>4
  <1>5. layers[1] \in Layer /\ AreFunctions(layers[1].ops)
    BY <1>2, <1>4 DEF LayersOK, Last
  <1>6. layers[1].out # <<>>
    <2> SUFFICES ASSUME layers[1].out = <<>> PROVE FALSE
      OBVIOUS
    <2>1. MakeExpression(layers[1]) = layers[1]
      BY <1>5, MakeExpressionIs
    <2>2. IsSingle(layers[1])
      BY <1>4, <2>1
    <2>3. Len(layers[1].out) = 1
      BY <2>2 DEF IsSingle
    <2> QED
      BY <2>3
  <1>7. made[1].out # <<>> /\ Last(made[1].out).args # <<>>
    BY <1>2, <1>3, <1>5, <1>6, MakeExpressionIs DEF Bottom
  <1>8. ~ LeavesOut(made) => Keeps(Nodes(Current.layers), Nodes(made))
    BY <1>3 DEF layers
  <1> QED
    BY <1>1, <1>3, <1>7, <1>8, FinishConditionalKeeps

LEMMA EndElseAtEndKeeps ==
    ASSUME IInv, EndElseAtEnd
    PROVE  /\ IInv'
           /\ phase' # phase \/ (next' = next /\ Len(activations') < Len(activations))
  <1>1. Types /\ Compiling /\ Parsing /\ Current.clause = "else"
    BY CompilingIs DEF IInv, EndElseAtEnd, AtEnd
  <1>2. \/ /\ IsOneExpression /\ FinishConditional(MadeFirst)
           /\ UNCHANGED <<source, read, units, result, lost>>
        \/ GoTo("rejected")
    BY DEF EndElseAtEnd
  <1>3. CASE GoTo("rejected")
    BY <1>1, <1>3, GoToKeeps
  <1>4. CASE /\ IsOneExpression /\ FinishConditional(MadeFirst)
             /\ UNCHANGED <<source, read, units, result, lost>>
    <2>1. phase = "compiling"
      BY <1>1 DEF Compiling
    <2> QED
      BY <1>1, <1>4, <2>1, OneExpressionKeeps
  <1> QED
    BY <1>2, <1>3, <1>4

LEMMA RecoverElseKeeps ==
    ASSUME IInv, RecoverElse
    PROVE  /\ IInv'
           /\ phase' = "undefined" \/ (next' = next /\ Len(activations') < Len(activations))
  <1>1. /\ Parsing /\ Current.clause = "else" /\ IsOneExpression
        /\ FinishConditional(MadeFirst) /\ UNCHANGED <<source, read, units, result, lost>>
    BY DEF RecoverElse, ElseEndsAtError, Parsing
  <1> QED
    BY <1>1, OneExpressionKeeps

(* The call that has failed is lost with all it has.                       *)
LEMMA PassErrorKeeps ==
    ASSUME IInv, PassError
    PROVE  /\ IInv'
           /\ phase' = "rejected" \/ (next' = next /\ Len(activations') < Len(activations))
  <1>1. /\ Types /\ Kept /\ Parsing /\ phase = "failing"
        /\ UNCHANGED <<source, read, units, next, result, dropped>>
    BY DEF IInv, PassError, Parsing
  <1>2. /\ activations # <<>> /\ ActsOK(activations) /\ activations \in Seq(Act)
        /\ next \in 1..(Len(units) + 1) /\ units \in Seq(Units) /\ lost \subseteq 0..(next - 1)
    BY <1>1, ParsingIs DEF Types, ActsOK
  <1>3. CASE phase' = "rejected" /\ UNCHANGED <<activations, lost>>
    <2>1. Types'
      BY <1>1, <1>3 DEF Types, Parsing
    <2>2. Kept'
      BY <1>3 DEF Kept, Parsing
    <2> QED
      BY <1>3, <2>1, <2>2 DEF IInv
  <1>4. CASE /\ Current.clause # "none" /\ activations' = Front(activations)
             /\ lost' = lost \union (Current.question.i .. next - 1) /\ UNCHANGED phase
    <2>1. /\ ActsOK(Front(activations)) /\ Front(activations) # <<>>
          /\ Len(activations) \in Nat \ {0} /\ Len(activations) # 1
          /\ Len(Front(activations)) = Len(activations) - 1
      BY <1>2, <1>4, ActsEnd DEF Current
    <2>2. next - 1 \in Nat /\ next - 1 <= Len(units)
      BY <1>2
    <2>3. ASSUME ~ dropped
          PROVE  /\ Keeps(RemainingOf(units, lost', next - 1), AllNodes(activations'))
                 /\ Standing(activations', units, lost', next - 1)
      <3>1. Standing(activations, units, lost, next - 1)
        BY <1>1, <2>3 DEF Kept
      <3> DEFINE after == lost'
      <3>2. after = lost \union (Last(activations).question.i .. next - 1)
        BY <1>4 DEF Current
      <3> HIDE DEF after
      <3>3. /\ Standing(Front(activations), units, after, next - 1)
            /\ Keeps(RemainingOf(units, after, next - 1), AllNodes(Front(activations)))
        BY <1>2, <2>1, <2>2, <3>1, <3>2, StandingLost
      <3> QED
        BY <1>4, <3>3 DEF after
    <2>4. lost' \subseteq 0..(next - 1)
      <3>1. Current.question.i \in Nat
        <4>1. Current.question \in Trees
          BY <1>1, ParsingIs, PartType
        <4> QED
          BY <4>1, TreesAre DEF AreTrees
      <3>2. \A i \in Current.question.i .. next - 1 : i \in 0..(next - 1)
        BY <1>2, <3>1
      <3> QED
        BY <1>2, <1>4, <3>2
    <2>5. Len(activations') < Len(activations)
      BY <1>4, <2>1
    <2>6. Parsing'
      BY <1>1, <1>4 DEF Parsing
    <2>7. IInv'
      BY <1>1, <1>4, <2>1, <2>3, <2>4, <2>6, EndKeeps
    <2> QED
      BY <1>1, <2>5, <2>7
  <1> QED
    BY <1>3, <1>4 DEF PassError

LEMMA FinishKeeps ==
    ASSUME IInv, Finish
    PROVE  IInv' /\ phase' # phase
  <1> DEFINE layers == Current.layers
             list == MakeExpressionList(layers)
  <1>1. Types /\ Kept /\ Compiling /\ Current.clause = "none" /\ next > Len(units)
        /\ result' = list /\ UNCHANGED <<source, read, units, activations, next, dropped, lost>>
        /\ phase' = IF result' = Failure THEN "rejected" ELSE "accepted"
    BY DEF IInv, Finish, AtEnd
  <1>2. phase' # phase
    BY <1>1 DEF Compiling
  <1>3. CASE result' = Failure
    <2>1. phase' = "rejected" /\ result' = <<>>
      BY <1>1, <1>3 DEF Failure
    <2>2. Types'
      BY <1>1, <2>1 DEF Types, Compiling, Parsing
    <2>3. Kept'
      BY <2>1 DEF Kept, Parsing
    <2> QED
      BY <1>2, <2>2, <2>3 DEF IInv
  <1>4. CASE result' # Failure
    <2>1. /\ activations # <<>> /\ ActsOK(activations) /\ LayersOK(layers)
          /\ Current \in Act /\ ActOK(Current) /\ Nodes(layers) \in Seq(Trees)
      BY <1>1, CompilingIs
    <2> HIDE DEF layers
    <2>2. list \in Seq(Trees) /\ Keeps(Nodes(layers), Reverse(list))
      BY <1>1, <1>4, <2>1, ListIs
    <2> HIDE DEF list
    <2>3. phase' = "accepted" /\ result' # <<>>
      BY <1>1, <1>4 DEF Failure
    <2>4. Types'
      BY <1>1, <2>2, <2>3 DEF Types, Compiling, Parsing
    <2>5. AllNodes(activations) = Nodes(layers)
      <3>1. Len(activations) = 1 /\ activations \in Seq(Act)
        BY <1>1, <2>1, ActsEnd DEF Current, ActsOK
      <3>2. activations = <<Current>>
        BY <3>1 DEF Current, Last
      <3>3. AllNodes(<<Current>>) = Part(Current)
        BY <2>1, AllNodesOne
      <3>4. Current.question.args = <<>>
        BY <1>1, <2>1 DEF ActOK, Unit, Node
      <3> QED
        BY <2>1, <3>2, <3>3, <3>4 DEF Part, layers
    <2>6. next - 1 = Len(units)
      <3>1. units \in Seq(Units) /\ next \in 1..(Len(units) + 1) /\ Len(units) \in Nat
        BY <1>1 DEF Types, Compiling, Parsing
      <3> QED
        BY <1>1, <3>1
    <2>7. ~ dropped => Keeps(RemainingOf(units, lost, Len(units)), Reverse(list))
      <3>1. ~ dropped => Keeps(RemainingOf(units, lost, Len(units)), AllNodes(activations))
        BY <1>1, <2>6 DEF Kept, Compiling, Parsing
      <3> QED
        BY <2>2, <2>5, <3>1, KeepsTrans
    <2>8. Kept'
      BY <1>1, <2>3, <2>7 DEF Kept, Parsing
    <2> QED
      BY <1>2, <2>4, <2>8 DEF IInv
  <1> QED
    BY <1>3, <1>4
-----------------------------------------------------------------------------
(* Each step keeps the invariant, and goes on.                             *)

Advances ==
    \/ phase' # phase /\ ~ (phase = "failing" /\ phase' = "compiling")
    \/ read' > read
    \/ next' > next
    \/ next' = next /\ Len(activations') < Len(activations)

LEMMA NextKeeps == IInv /\ [Next]_vars => IInv'
  <1> SUFFICES ASSUME IInv, [Next]_vars PROVE IInv'
    OBVIOUS
  <1>1. CASE ReadToken
    BY <1>1, ReadTokenKeeps
  <1>2. CASE Compile
    BY <1>2, CompileKeeps
  <1>3. CASE PutUnit
    BY <1>3, PutUnitKeeps
  <1>4. CASE FailUnit
    <2>1. GoTo("failing") /\ Compiling
      BY <1>4 DEF FailUnit, AtUnit
    <2> QED
      BY <2>1, GoToKeeps
  <1>5. CASE BeginIf
    BY <1>5, BeginIfKeeps
  <1>12. CASE BeginIfAtEnd
    <2>1. GoTo("undefined") /\ Compiling
      BY <1>12 DEF BeginIfAtEnd, AtUnit
    <2> QED
      BY <2>1, GoToKeeps
  <1>6. CASE BeginElse
    BY <1>6, BeginElseKeeps
  <1>7. CASE EndElse
    BY <1>7, EndElseKeeps
  <1>13. CASE PassError
    BY <1>13, PassErrorKeeps
  <1>14. CASE RecoverElse
    BY <1>14, RecoverElseKeeps
  <1>8. CASE EndElseAtEnd
    BY <1>8, EndElseAtEndKeeps
  <1>9. CASE FailIfAtEnd
    <2>1. GoTo("rejected") /\ Compiling
      BY <1>9 DEF FailIfAtEnd, AtEnd
    <2> QED
      BY <2>1, GoToKeeps
  <1>10. CASE Finish
    BY <1>10, FinishKeeps
  <1>11. CASE UNCHANGED vars
    <2>1. Types'
      BY <1>11 DEF IInv, Types, vars, Parsing
    <2>2. Kept'
      BY <1>11 DEF IInv, Kept, vars, Parsing
    <2> QED
      BY <2>1, <2>2 DEF IInv
  <1> QED
    BY <1>1, <1>2, <1>3, <1>4, <1>5, <1>6, <1>7, <1>8, <1>9, <1>10, <1>11, <1>12, <1>13, <1>14
    DEF Next, Ended

LEMMA NextAdvances == IInv /\ Next /\ ~ Ended => Advances
  <1> SUFFICES ASSUME IInv, Next, ~ Ended PROVE Advances
    OBVIOUS
  <1>1. CASE ReadToken
    <2>1. read \in Nat /\ read' = read + 1
      <3>1. source.tokens \in Seq(Token) /\ read \in 0..Len(source.tokens)
        BY SourcesAssumption DEF IInv, Types
      <3> QED
        BY <1>1, <3>1 DEF ReadToken
    <2> QED
      BY <2>1 DEF Advances
  <1>2. CASE Compile
    BY <1>2 DEF Compile, Advances
  <1>3. CASE PutUnit \/ BeginIf
    <2>1. next \in Nat /\ next' = next + 1
      BY <1>3 DEF IInv, Types, PutUnit, BeginIf
    <2> QED
      BY <2>1 DEF Advances
  <1>4. CASE FailUnit \/ FailIfAtEnd \/ BeginIfAtEnd
    <2>1. phase = "compiling" /\ phase' \in {"failing", "rejected", "undefined"}
      BY <1>4 DEF FailUnit, FailIfAtEnd, BeginIfAtEnd, GoTo, AtUnit, AtEnd, Compiling
    <2> QED
      BY <2>1 DEF Advances
  <1>5. CASE BeginElse
    <2>1. next' = next + 1 \/ (phase = "compiling" /\ phase' = "failing")
      BY <1>5 DEF BeginElse, GoTo, AtUnit, Compiling
    <2>2. next \in Nat
      BY DEF IInv, Types
    <2> QED
      BY <2>1, <2>2 DEF Advances
  <1>6. CASE EndElse
    <2>1. phase = "compiling"
      BY <1>6 DEF EndElse, AtUnit, Compiling
    <2> QED
      BY <1>6, <2>1, EndElseKeeps DEF Advances
  <1>7. CASE EndElseAtEnd
    <2>1. phase = "compiling"
      BY <1>7 DEF EndElseAtEnd, AtEnd, Compiling
    <2> QED
      BY <1>7, <2>1, EndElseAtEndKeeps DEF Advances
  <1>9. CASE PassError \/ RecoverElse
    <2>1. phase = "failing"
      BY <1>9 DEF PassError, RecoverElse
    <2> QED
      BY <1>9, <2>1, PassErrorKeeps, RecoverElseKeeps DEF Advances
  <1>8. CASE Finish
    <2>1. phase = "compiling"
      BY <1>8 DEF Finish, AtEnd, Compiling
    <2> QED
      BY <1>8, <2>1, FinishKeeps DEF Advances
  <1> QED
    BY <1>1, <1>2, <1>3, <1>4, <1>5, <1>6, <1>7, <1>8, <1>9 DEF Next

LEMMA TypesImplyTypeOK == Types => TypeOK
  <1> SUFFICES ASSUME Types PROVE TypeOK
    OBVIOUS
  <1>1. units \in Seq(Units) /\ ActsOK(activations)
    BY DEF Types
  <1>2. \A i \in 1..Len(units) : units[i].args = <<>>
    <2>1. \A i \in 1..Len(units) : units[i] \in Units
      BY <1>1
    <2> QED
      BY <2>1 DEF Units
  <1>3. ASSUME NEW n \in 1..Len(activations)
        PROVE  /\ activations[n].clause \in (IF n = 1 THEN {"none"} ELSE {"if", "else"})
               /\ n > 1 => activations[n].question.op = "question"
               /\ activations[n].layers # <<>>
               /\ \A k \in 1..Len(activations[n].layers) : LayerOK(activations[n].layers[k])
    <2> DEFINE a == activations[n]
    <2>1. ActOK(a) /\ (a.clause = "none" <=> n = 1)
      BY <1>1 DEF ActsOK
    <2> HIDE DEF a
    <2>2. a.clause \in {"none", "if", "else"} /\ LayersOK(a.layers)
          /\ (a.clause # "none" => a.question.op = "question")
      BY <2>1 DEF ActOK, Act
    <2>3. n > 1 => n # 1
      OBVIOUS
    <2> QED
      BY <2>1, <2>2, <2>3 DEF a, LayersOK
  <1> QED
    BY <1>2, <1>3 DEF Types, TypeOK, Parsing

LEMMA KeptImpliesOperandsInOrder == IInv => OperandsInOrder
  <1> DEFINE leaves == Level(Reverse(result), Depth)
             remaining == RemainingOf(units, lost, Len(units))
  <1> SUFFICES ASSUME IInv, phase = "accepted", ~ dropped, AreLeaves(leaves)
               PROVE  Indexes(leaves) = Indexes(remaining)
    BY RemainingIs DEF OperandsInOrder
  <1>1. Keeps(remaining, Reverse(result)) /\ units \in Seq(Units)
    BY DEF IInv, Kept, Types
  <1>2. \E n \in Nat : /\ AreLeaves(Level(remaining, n))
                       /\ Indexes(Level(remaining, n)) = Indexes(leaves)
    BY <1>1, DepthAssumption DEF Keeps
  <1> HIDE DEF leaves
  <1>3. remaining \in Seq(Units)
    <2>1. Len(units) \in Nat /\ Len(units) <= Len(units)
      BY <1>1
    <2> QED
      BY <1>1, <2>1, RemainingType
  <1> HIDE DEF remaining
  <1>4. /\ remaining \in Seq(Trees) /\ AreLeaves(Level(remaining, 0))
        /\ Level(remaining, 0) = remaining
    BY <1>3, UnitsAreTrees, LevelZero
  <1>5. \A n \in Nat : Level(remaining, n) = Level(remaining, 0)
    <2> SUFFICES ASSUME NEW n \in Nat PROVE Level(remaining, n) = Level(remaining, 0)
      OBVIOUS
    <2>1. 0 \in Nat /\ 0 <= n
      OBVIOUS
    <2> QED
      BY <1>4, <2>1, TreesAre, LeavesStay
  <1> QED
    BY <1>2, <1>4, <1>5

LEMMA InvariantHolds == Spec => []IInv
  <1>1. Init => IInv
    BY InitHolds
  <1>2. IInv /\ [Next]_vars => IInv'
    BY NextKeeps
  <1> QED
    BY <1>1, <1>2, PTL DEF Spec

(* The units are numbered when the parser compiles, the operators of each  *)
(* layer stand in the order of their priorities, and each nested call      *)
(* belongs to a question mark, for every list of tokens.                   *)
THEOREM ParserTypeCorrect == Spec => []TypeOK
  <1>1. IInv => TypeOK
    BY TypesImplyTypeOK DEF IInv
  <1> QED
    BY <1>1, InvariantHolds, PTL

(* putAnExpUnit, the closing brackets, makeExpression and the nested calls *)
(* of compileConditionalExpression double and move no operand of an        *)
(* expression that is accepted, and lose none but those of a conditional   *)
(* operator whose error has been taken for the end of the else clause      *)
(* around it: from its question mark to the unit of the error.  Not so     *)
(* when a clause has had expressions beside its own.  For every list of    *)
(* tokens, and as deep as one looks into the trees.                        *)
THEOREM OperandsStayInOrder == Spec => []OperandsInOrder
  BY InvariantHolds, KeptImpliesOperandsInOrder, PTL

(* The calls that share the position in the units never go back, and none  *)
(* of them goes on forever: each step reads, puts a unit, or ends a clause *)
(* or the parser; an error that an else clause takes for its end ends it.  *)
THEOREM ParserGoesOn == Spec => ParserAdvances
  <1>1. IInv /\ [Next]_vars => [Advances]_vars
    <2>1. IInv /\ Next => Advances \/ UNCHANGED vars
      BY NextAdvances DEF Ended
    <2> QED
      BY <2>1
  <1> QED
    BY <1>1, InvariantHolds, PTL DEF Spec, ParserAdvances, Advances
=============================================================================
