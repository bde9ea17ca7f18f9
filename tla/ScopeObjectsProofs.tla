------------------------- MODULE ScopeObjectsProofs -------------------------
(***************************************************************************)
(* For every function, however its scopes are nested and left: the code    *)
(* that break, continue and return execute leaves the scopes that are open, *)
(* and every object that has a destructor is destroyed on the way, in the  *)
(* reverse order of the declarations.                                      *)
(***************************************************************************)
EXTENDS ScopeObjects, FiniteSetTheorems, WellFoundedInduction,
        SequenceTheorems, TLAPS
-----------------------------------------------------------------------------
(* A set of natural numbers that is not empty has a least element: strict  *)
(* inclusion of the intervals 1..n is well-founded.                        *)
LEMMA Least ==
    ASSUME NEW T \in SUBSET Nat, T # {}
    PROVE  \E m \in T : \A k \in T : m <= k
  <1> DEFINE I == {1..n : n \in T}
  <1>1. IsWellFoundedOn(StrictSubsetOrdering(Nat), FiniteSubsetsOf(Nat))
    BY FS_StrictSubsetOrderingWellFounded
  <1>2. I \subseteq FiniteSubsetsOf(Nat)
    <2>1. \A n \in T : IsFiniteSet(1..n)
      BY FS_Interval
    <2> QED
      BY <2>1 DEF FiniteSubsetsOf
  <1>3. I # {}
    OBVIOUS
  <1>4. PICK x \in I : \A y \in I : ~(<<y, x>> \in StrictSubsetOrdering(Nat))
    <2> HIDE DEF I
    <2> QED
      BY <1>1, <1>2, <1>3, WFMin
  <1>5. PICK m \in T : x = 1..m
    OBVIOUS
  <1>6. ASSUME NEW k \in T, k < m
        PROVE  FALSE
    <2>1. 1..k \in I /\ x \in SUBSET Nat /\ 1..k \in SUBSET Nat
      BY <1>5
    <2>2. 1..k \subseteq 1..m /\ m \notin 1..k /\ m \in 1..m
      BY <1>6
    <2>3. <<1..k, x>> \in StrictSubsetOrdering(Nat)
      BY <2>1, <2>2, <1>5 DEF StrictSubsetOrdering
    <2> QED
      BY <2>3, <2>1, <1>4
  <1> QED
    BY <1>6

(* A set that has 0 and with n also n + 1 has every natural number.        *)
LEMMA Induct ==
    ASSUME NEW T, 0 \in T, \A n \in Nat : n \in T => n + 1 \in T
    PROVE  Nat \subseteq T
  <1> SUFFICES ASSUME Nat \ T # {} PROVE FALSE
    OBVIOUS
  <1>1. PICK m \in Nat \ T : \A k \in Nat \ T : m <= k
    BY Least
  <1>2. m # 0 /\ m - 1 \in Nat
    BY <1>1
  <1>3. m - 1 \in T
    BY <1>1, <1>2
  <1>4. (m - 1) + 1 = m
    BY <1>1
  <1> QED
    BY <1>1, <1>2, <1>3, <1>4

(* A function of 0..n that is defined at each number from its value at the  *)
(* number before exists.                                                   *)
LEMMA Iterates ==
    ASSUME NEW V, NEW z \in V, NEW n \in Nat, NEW step \in [1..n -> [V -> V]]
    PROVE  \E f \in [0..n -> V] :
              f[0] = z /\ \A k \in 1..n : f[k] = step[k][f[k - 1]]
  <1> DEFINE Good(m, f) == f[0] = z /\ \A k \in 1..m : f[k] = step[k][f[k - 1]]
             T == {m \in Nat : m <= n => \E f \in [0..m -> V] : Good(m, f)}
  <1>1. 0 \in T
    <2> DEFINE f == [k \in 0..0 |-> z]
    <2>1. f \in [0..0 -> V] /\ Good(0, f)
      OBVIOUS
    <2> QED
      BY <2>1
  <1>2. ASSUME NEW m \in Nat, m \in T
        PROVE  m + 1 \in T
    <2> SUFFICES ASSUME m + 1 <= n
                 PROVE  \E f \in [0..m + 1 -> V] : Good(m + 1, f)
      OBVIOUS
    <2>1. PICK f \in [0..m -> V] : Good(m, f)
      <3>1. m <= n
        OBVIOUS
      <3> HIDE DEF Good
      <3> QED
        BY <1>2, <3>1
    <2>2. m + 1 \in 1..n /\ m \in 0..m /\ m = (m + 1) - 1
      OBVIOUS
    <2> DEFINE v == step[m + 1][f[m]]
               g == [k \in 0..m + 1 |-> IF k = m + 1 THEN v ELSE f[k]]
    <2>3. v \in V
      BY <2>1, <2>2
    <2>4. (\A k \in 0..m : g[k] = f[k]) /\ g[m + 1] = v
      OBVIOUS
    <2>5. g \in [0..m + 1 -> V]
      BY <2>1, <2>3
    <2> HIDE DEF g
    <2>6. ASSUME NEW k \in 1..m + 1
          PROVE  g[k] = step[k][g[k - 1]]
      <3>1. CASE k = m + 1
        <4>1. g[k - 1] = f[m]
          BY <2>2, <2>4, <3>1
        <4> QED
          BY <2>4, <3>1, <4>1
      <3>2. CASE k # m + 1
        <4>1. k \in 1..m /\ k \in 0..m /\ k - 1 \in 0..m
          BY <2>6, <3>2
        <4>2. g[k] = f[k] /\ g[k - 1] = f[k - 1]
          BY <2>4, <4>1
        <4> QED
          BY <2>1, <4>1, <4>2
      <3> QED
        BY <3>1, <3>2
    <2>7. g[0] = z
      BY <2>1, <2>4
    <2> QED
      BY <2>5, <2>6, <2>7
  <1>3. n \in T
    <2> HIDE DEF T
    <2> QED
      BY <1>1, <1>2, Induct
  <1> QED
    BY <1>3

(* The same, with what it says under a name.                               *)
Iterated(V, z, n, step) ==
    \E f \in [0..n -> V] : f[0] = z /\ \A k \in 1..n : f[k] = step[k][f[k - 1]]

LEMMA IteratedHas ==
    ASSUME NEW V, NEW z, z \in V, NEW n, n \in Nat, NEW step, step \in [1..n -> [V -> V]]
    PROVE  Iterated(V, z, n, step)
  BY Iterates DEF Iterated

(* Every node is below the root.                                           *)
Tree(N, root, parent) ==
    /\ root \in N /\ parent \in [N -> N]
    /\ \A S \in SUBSET N :
          root \in S /\ (\A t \in N : parent[t] \in S => t \in S) => S = N

(* What defines a function on the nodes of a tree: its value at some nodes, *)
(* the root among them, and otherwise what it makes of the parent's value. *)
Descent(N, root, parent, V, stop, at, step) ==
    /\ Tree(N, root, parent)
    /\ stop \in SUBSET N /\ root \in stop
    /\ at \in [N -> V] /\ step \in [N -> [V -> V]]

(* A function on the nodes of a tree that is defined from its value at the  *)
(* parent of a node, and outright at the root and at some other nodes,     *)
(* exists.                                                                 *)
LEMMA Descends ==
    ASSUME NEW N, NEW root, NEW parent, NEW V, NEW stop, NEW at, NEW step,
           Descent(N, root, parent, V, stop, at, step)
    PROVE  \E f \in [N -> V] : \A t \in N :
              f[t] = IF t \in stop THEN at[t] ELSE step[t][f[parent[t]]]
  <1> DEFINE Closed(S) ==
                 /\ \A t \in stop : <<t, at[t]>> \in S
                 /\ \A t \in N \ stop : \A v \in V :
                       <<parent[t], v>> \in S => <<t, step[t][v]>> \in S
             G == {x \in N \X V : \A S \in SUBSET (N \X V) : Closed(S) => x \in S}
             U == {t \in N : \E v \in V : /\ <<t, v>> \in G
                                          /\ \A w \in V : <<t, w>> \in G => w = v}
  <1>0. /\ root \in N /\ parent \in [N -> N]
        /\ \A S \in SUBSET N :
              root \in S /\ (\A t \in N : parent[t] \in S => t \in S) => S = N
        /\ stop \in SUBSET N /\ root \in stop
        /\ at \in [N -> V] /\ step \in [N -> [V -> V]]
    BY DEF Tree, Descent
  <1>1. G \in SUBSET (N \X V) /\ Closed(G)
    <2>1. \A t \in stop : <<t, at[t]>> \in G
      BY <1>0
    <2>2. ASSUME NEW t \in N \ stop, NEW v \in V, <<parent[t], v>> \in G
          PROVE  <<t, step[t][v]>> \in G
      <3>1. <<t, step[t][v]>> \in N \X V
        BY <1>0
      <3> QED
        BY <2>2, <3>1
    <2> QED
      BY <2>1, <2>2
  <1>2. \A S \in SUBSET (N \X V) : Closed(S) => G \subseteq S
    OBVIOUS
  <1> HIDE DEF G
  <1>3. ASSUME NEW t \in stop, NEW w \in V, <<t, w>> \in G
        PROVE  w = at[t]
    <2> SUFFICES ASSUME w # at[t] PROVE FALSE
      OBVIOUS
    <2> DEFINE S == G \ {<<t, w>>}
    <2>1. Closed(S)
      BY <1>1
    <2>2. <<t, w>> \notin S /\ S \in SUBSET (N \X V)
      BY <1>1
    <2> QED
      BY <1>2, <1>3, <2>1, <2>2
  <1>4. ASSUME NEW t \in N \ stop, NEW w \in V, <<t, w>> \in G
        PROVE  \E v \in V : <<parent[t], v>> \in G /\ w = step[t][v]
    <2> SUFFICES ASSUME \A v \in V : <<parent[t], v>> \in G => w # step[t][v]
                 PROVE  FALSE
      OBVIOUS
    <2> DEFINE S == G \ {<<t, w>>}
    <2>1. Closed(S)
      BY <1>1
    <2>2. <<t, w>> \notin S /\ S \in SUBSET (N \X V)
      BY <1>1
    <2> QED
      BY <1>2, <1>4, <2>1, <2>2
  <1>5. stop \subseteq U
    BY <1>0, <1>1, <1>3
  <1>6. ASSUME NEW t \in N, parent[t] \in U
        PROVE  t \in U
    <2>1. CASE t \in stop
      BY <1>5, <2>1
    <2>2. CASE t \notin stop
      <3>1. PICK v \in V : /\ <<parent[t], v>> \in G
                           /\ \A w \in V : <<parent[t], w>> \in G => w = v
        BY <1>6
      <3>2. step[t][v] \in V /\ <<t, step[t][v]>> \in G
        BY <1>0, <1>1, <2>2, <3>1
      <3>3. ASSUME NEW w \in V, <<t, w>> \in G
            PROVE  w = step[t][v]
        <4>1. PICK u \in V : <<parent[t], u>> \in G /\ w = step[t][u]
          BY <1>4, <2>2, <3>3
        <4> QED
          BY <3>1, <4>1
      <3> QED
        BY <3>2, <3>3
    <2> QED
      BY <2>1, <2>2
  <1>7. U = N
    <2>1. U \in SUBSET N /\ root \in U
      BY <1>0, <1>5
    <2> HIDE DEF U
    <2> QED
      BY <1>0, <1>6, <2>1
  <1> DEFINE f == [t \in N |-> CHOOSE v \in V : <<t, v>> \in G]
  <1>8. \A t \in N : /\ f[t] \in V /\ <<t, f[t]>> \in G
                     /\ \A w \in V : <<t, w>> \in G => w = f[t]
    <2> SUFFICES ASSUME NEW t \in N
                 PROVE  /\ f[t] \in V /\ <<t, f[t]>> \in G
                        /\ \A w \in V : <<t, w>> \in G => w = f[t]
      OBVIOUS
    <2>1. \E v \in V : /\ <<t, v>> \in G
                       /\ \A w \in V : <<t, w>> \in G => w = v
      BY <1>7
    <2> QED
      BY <2>1
  <1>9. f \in [N -> V]
    BY <1>8
  <1> HIDE DEF f
  <1>10. ASSUME NEW t \in N
         PROVE  f[t] = IF t \in stop THEN at[t] ELSE step[t][f[parent[t]]]
    <2>1. CASE t \in stop
      BY <1>0, <1>3, <1>8, <2>1
    <2>2. CASE t \notin stop
      <3>1. /\ f[parent[t]] \in V /\ <<parent[t], f[parent[t]]>> \in G
        BY <1>0, <1>8
      <3>2. <<t, step[t][f[parent[t]]]>> \in G /\ step[t][f[parent[t]]] \in V
        BY <1>0, <1>1, <2>2, <3>1
      <3> QED
        BY <1>8, <2>2, <3>2
    <2> QED
      BY <2>1, <2>2
  <1> QED
    BY <1>9, <1>10
-----------------------------------------------------------------------------
(* What the compiler has made sure of.                                     *)
LEMMA ProgramFacts ==
    ASSUME NEW p \in Programs
    PROVE  /\ p.kind \in [Scope -> {"function", "block", "loop"}]
           /\ p.parent \in [Scope -> Scope]
           /\ p.body \in [Scope -> Seq(Statement)]
           /\ Root \in Scope /\ NoScope \notin Scope
           /\ \A s \in Scope : p.kind[s] = "function" <=> s = Root
           /\ \A S \in SUBSET Scope :
                 Root \in S /\ (\A t \in Scope : p.parent[t] \in S => t \in S) => S = Scope
  <1>1. p \in Program /\ Root \in Scope /\ NoScope \notin Scope /\ InFunction(p)
        /\ \A s \in Scope : p.kind[s] = "function" <=> s = Root
    BY ProgramsAssumption
  <1>2. /\ p.kind \in [Scope -> {"function", "block", "loop"}]
        /\ p.parent \in [Scope -> Scope]
        /\ p.body \in [Scope -> Seq(Statement)]
    BY <1>1 DEF Program
  <1>3. \A S \in SUBSET Scope :
           Root \in S /\ (\A t \in Scope : p.parent[t] \in S => t \in S) => S = Scope
    BY <1>1 DEF InFunction
  <1> QED
    BY <1>1, <1>2, <1>3

-----------------------------------------------------------------------------
(* The indexes of objects: each declaration has the next.                  *)
LEMMA IndexType ==
    ASSUME NEW p, NEW s, NEW k \in Int
    PROVE  /\ IsFiniteSet({i \in 1..(k - 1) : p.body[s][i].op = "object"})
           /\ IndexAt(p, s, k) \in Nat
           /\ k <= 1 => IndexAt(p, s, k) = 0
  <1>1. IsFiniteSet({i \in 1..(k - 1) : p.body[s][i].op = "object"})
    <2>1. k - 1 \in Int
      OBVIOUS
    <2>2. IsFiniteSet(1..(k - 1))
      BY <2>1, FS_Interval
    <2>3. {i \in 1..(k - 1) : p.body[s][i].op = "object"} \subseteq 1..(k - 1)
      OBVIOUS
    <2> QED
      BY <2>2, <2>3, FS_Subset
  <1>2. k <= 1 => {i \in 1..(k - 1) : p.body[s][i].op = "object"} = {}
    OBVIOUS
  <1> QED
    BY <1>1, <1>2, FS_CardinalityType, FS_EmptySet DEF IndexAt

LEMMA IndexNext ==
    ASSUME NEW p, NEW s, NEW k \in Nat \ {0}
    PROVE  /\ p.body[s][k].op = "object" => IndexAt(p, s, k + 1) = IndexAt(p, s, k) + 1
           /\ p.body[s][k].op # "object" => IndexAt(p, s, k + 1) = IndexAt(p, s, k)
  <1> DEFINE S(n) == {i \in 1..(n - 1) : p.body[s][i].op = "object"}
  <1>1. IsFiniteSet(S(k)) /\ k \notin S(k)
    <2>1. k \in Int /\ k \notin S(k)
      OBVIOUS
    <2>2. IsFiniteSet(S(k))
      BY <2>1, IndexType
    <2> QED
      BY <2>1, <2>2
  <1>2. CASE p.body[s][k].op = "object"
    <2>1. S(k + 1) = S(k) \cup {k}
      BY <1>2
    <2> HIDE DEF S
    <2>2. Cardinality(S(k + 1)) = Cardinality(S(k)) + 1
      BY <1>1, <2>1, FS_AddElement
    <2> QED
      BY <1>2, <2>2 DEF IndexAt, S
  <1>3. CASE p.body[s][k].op # "object"
    <2>1. S(k + 1) = S(k)
      BY <1>3
    <2> QED
      BY <1>3, <2>1 DEF IndexAt
  <1> QED
    BY <1>2, <1>3

LEMMA IndexGrows ==
    ASSUME NEW p, NEW s, NEW j \in Nat \ {0}, NEW k \in Nat \ {0}
    PROVE  /\ j <= k => IndexAt(p, s, j) <= IndexAt(p, s, k)
           /\ j < k /\ p.body[s][j].op = "object" => IndexAt(p, s, j) < IndexAt(p, s, k)
  <1> DEFINE S(n) == {i \in 1..(n - 1) : p.body[s][i].op = "object"}
  <1>1. \A m, n \in Nat \ {0} : m <= n => IndexAt(p, s, m) <= IndexAt(p, s, n)
    <2> SUFFICES ASSUME NEW m \in Nat \ {0}, NEW n \in Nat \ {0}, m <= n
                 PROVE  IndexAt(p, s, m) <= IndexAt(p, s, n)
      OBVIOUS
    <2>1. S(m) \subseteq S(n)
      OBVIOUS
    <2>2. IsFiniteSet(S(n))
      <3>1. n \in Int
        OBVIOUS
      <3> QED
        BY <3>1, IndexType
    <2> HIDE DEF S
    <2>3. Cardinality(S(m)) <= Cardinality(S(n))
      BY <2>1, <2>2, FS_Subset
    <2> QED
      BY <2>3 DEF IndexAt, S
  <1>2. ASSUME j < k, p.body[s][j].op = "object"
        PROVE  IndexAt(p, s, j) < IndexAt(p, s, k)
    <2>1. IndexAt(p, s, j + 1) = IndexAt(p, s, j) + 1
      BY <1>2, IndexNext
    <2>2. IndexAt(p, s, j + 1) <= IndexAt(p, s, k)
      BY <1>1, <1>2
    <2>3. IndexAt(p, s, j) \in Nat /\ IndexAt(p, s, k) \in Nat
      <3>1. j \in Int /\ k \in Int
        OBVIOUS
      <3> QED
        BY <3>1, IndexType
    <2> QED
      BY <2>1, <2>2, <2>3
  <1> QED
    BY <1>1, <1>2

-----------------------------------------------------------------------------
(* How many exits come before a command.                                   *)
LEMMA ExitsType ==
    ASSUME NEW c, NEW k \in Int
    PROVE  /\ IsFiniteSet({i \in 1..(k - 1) : c[i].op = "exit"})
           /\ ExitsBefore(c, k) \in Nat
           /\ k <= 1 => ExitsBefore(c, k) = 0
  <1>1. IsFiniteSet({i \in 1..(k - 1) : c[i].op = "exit"})
    <2>1. k - 1 \in Int
      OBVIOUS
    <2>2. IsFiniteSet(1..(k - 1))
      BY <2>1, FS_Interval
    <2>3. {i \in 1..(k - 1) : c[i].op = "exit"} \subseteq 1..(k - 1)
      OBVIOUS
    <2> QED
      BY <2>2, <2>3, FS_Subset
  <1>2. k <= 1 => {i \in 1..(k - 1) : c[i].op = "exit"} = {}
    OBVIOUS
  <1> QED
    BY <1>1, <1>2, FS_CardinalityType, FS_EmptySet DEF ExitsBefore

LEMMA ExitsNext ==
    ASSUME NEW c, NEW k \in Nat \ {0}
    PROVE  /\ c[k].op = "exit" => ExitsBefore(c, k + 1) = ExitsBefore(c, k) + 1
           /\ c[k].op # "exit" => ExitsBefore(c, k + 1) = ExitsBefore(c, k)
  <1> DEFINE S(n) == {i \in 1..(n - 1) : c[i].op = "exit"}
  <1>1. IsFiniteSet(S(k)) /\ k \notin S(k)
    <2>1. k \in Int
      OBVIOUS
    <2> QED
      BY <2>1, ExitsType
  <1>2. CASE c[k].op = "exit"
    <2>1. S(k + 1) = S(k) \cup {k}
      BY <1>2
    <2> HIDE DEF S
    <2>2. Cardinality(S(k + 1)) = Cardinality(S(k)) + 1
      BY <1>1, <2>1, FS_AddElement
    <2> QED
      BY <1>2, <2>2 DEF ExitsBefore, S
  <1>3. CASE c[k].op # "exit"
    <2>1. S(k + 1) = S(k)
      BY <1>3
    <2> QED
      BY <1>3, <2>1 DEF ExitsBefore
  <1> QED
    BY <1>2, <1>3

(* The exits of a code that is put together.                               *)
LEMMA ExitsOfBoth ==
    ASSUME NEW C, NEW a \in Seq(C), NEW b \in Seq(C)
    PROVE  /\ \A k \in 1..Len(a) + 1 : ExitsBefore(a \o b, k) = ExitsBefore(a, k)
           /\ \A k \in 1..Len(b) + 1 :
                 ExitsBefore(a \o b, Len(a) + k) =
                     ExitsBefore(a, Len(a) + 1) + ExitsBefore(b, k)
  <1>1. ASSUME NEW k \in 1..Len(a) + 1
        PROVE  ExitsBefore(a \o b, k) = ExitsBefore(a, k)
    <2>1. \A i \in 1..(k - 1) : (a \o b)[i] = a[i]
      OBVIOUS
    <2>2. {i \in 1..(k - 1) : (a \o b)[i].op = "exit"} = {i \in 1..(k - 1) : a[i].op = "exit"}
      BY <2>1
    <2> QED
      BY <2>2 DEF ExitsBefore
  <1> DEFINE n == Len(b)
             m == Len(a)
             T == {k \in Nat : k <= n =>
                     ExitsBefore(a \o b, m + (k + 1)) =
                         ExitsBefore(a, m + 1) + ExitsBefore(b, k + 1)}
  <1>2. 0 \in T
    <2>1. ExitsBefore(b, 0 + 1) = 0
      <3>1. 0 + 1 \in Int /\ 0 + 1 <= 1
        OBVIOUS
      <3> QED
        BY <3>1, ExitsType
    <2>2. ExitsBefore(a \o b, m + (0 + 1)) = ExitsBefore(a, m + 1)
      <3>1. m + 1 \in 1..Len(a) + 1 /\ m + (0 + 1) = m + 1
        OBVIOUS
      <3> QED
        BY <1>1, <3>1
    <2>3. ExitsBefore(a, m + 1) \in Nat
      <3>1. m + 1 \in Int
        OBVIOUS
      <3> QED
        BY <3>1, ExitsType
    <2> QED
      BY <2>1, <2>2, <2>3
  <1>3. ASSUME NEW k \in Nat, k \in T
        PROVE  k + 1 \in T
    <2> SUFFICES ASSUME k + 1 <= n
                 PROVE  ExitsBefore(a \o b, m + ((k + 1) + 1)) =
                            ExitsBefore(a, m + 1) + ExitsBefore(b, (k + 1) + 1)
      OBVIOUS
    <2>1. ExitsBefore(a \o b, m + (k + 1)) =
              ExitsBefore(a, m + 1) + ExitsBefore(b, k + 1)
      BY <1>3
    <2>2. /\ (a \o b)[m + (k + 1)] = b[k + 1]
          /\ m + (k + 1) \in Nat \ {0} /\ k + 1 \in Nat \ {0}
          /\ (m + (k + 1)) + 1 = m + ((k + 1) + 1)
      OBVIOUS
    <2>3. /\ ExitsBefore(a, m + 1) \in Nat /\ ExitsBefore(b, k + 1) \in Nat
          /\ m + 1 \in Int
      <3>1. m + 1 \in Int /\ k + 1 \in Int
        OBVIOUS
      <3> QED
        BY <3>1, ExitsType
    <2>4. CASE b[k + 1].op = "exit"
      <3>1. ExitsBefore(b, (k + 1) + 1) = ExitsBefore(b, k + 1) + 1
        BY <2>2, <2>4, ExitsNext
      <3>2. ExitsBefore(a \o b, (m + (k + 1)) + 1) = ExitsBefore(a \o b, m + (k + 1)) + 1
        BY <2>2, <2>4, ExitsNext
      <3> QED
        BY <2>1, <2>2, <2>3, <3>1, <3>2
    <2>5. CASE b[k + 1].op # "exit"
      <3>1. ExitsBefore(b, (k + 1) + 1) = ExitsBefore(b, k + 1)
        BY <2>2, <2>5, ExitsNext
      <3>2. ExitsBefore(a \o b, (m + (k + 1)) + 1) = ExitsBefore(a \o b, m + (k + 1))
        BY <2>2, <2>5, ExitsNext
      <3> QED
        BY <2>1, <2>2, <2>3, <3>1, <3>2
    <2> QED
      BY <2>4, <2>5
  <1>4. \A k \in Nat : k <= n =>
            ExitsBefore(a \o b, m + (k + 1)) =
                ExitsBefore(a, m + 1) + ExitsBefore(b, k + 1)
    <2>1. Nat \subseteq T
      <3> HIDE DEF T
      <3> QED
        BY <1>2, <1>3, Induct
    <2> QED
      BY <2>1
  <1>5. ASSUME NEW k \in 1..n + 1
        PROVE  ExitsBefore(a \o b, m + k) = ExitsBefore(a, m + 1) + ExitsBefore(b, k)
    <2>1. k - 1 \in Nat /\ k - 1 <= n /\ (k - 1) + 1 = k
      OBVIOUS
    <2> QED
      BY <1>4, <2>1
  <1> QED
    BY <1>1, <1>5

-----------------------------------------------------------------------------
(* Commands to the front of some others.                                   *)
LEMMA InFront ==
    ASSUME NEW C, NEW c \in C, NEW b \in Seq(C)
    PROVE  /\ <<c>> \o b \in Seq(C) /\ Len(<<c>> \o b) = Len(b) + 1
           /\ (<<c>> \o b)[1] = c
           /\ \A i \in 1..Len(b) : (<<c>> \o b)[i + 1] = b[i]
           /\ \A i \in 1..Len(b) + 1 : i # 1 =>
                 i - 1 \in 1..Len(b) /\ (<<c>> \o b)[i] = b[i - 1]
  OBVIOUS

(* The destructors of a scope: one for each object that has one, the last   *)
(* declared first.                                                         *)
LEMMA DestructorsAre ==
    ASSUME NEW p \in Programs, NEW s \in Scope
    PROVE  LET d == Destructors(p, s) IN
           /\ d \in Seq(Command)
           /\ \A i \in 1..Len(d) : /\ d[i].op = "destroy" /\ d[i].scope = s
                                   /\ Owned(p, s, d[i].index)
           /\ \A j : Owned(p, s, j) => \E i \in 1..Len(d) : d[i] = Destroy(s, j)
           /\ \A i, j \in 1..Len(d) : i < j => d[i].index > d[j].index
  <1> DEFINE n == Len(p.body[s])
             V == Seq(Command)
             command(k) == Destroy(s, IndexAt(p, s, k))
             IsList(f) == f = [k \in 0..n |->
                 IF k = 0 THEN <<>>
                 ELSE IF Declares(p, s, k) THEN <<command(k)>> \o f[k - 1]
                 ELSE f[k - 1]]
             list == CHOOSE f : IsList(f)
             Good(m, d) ==
                 /\ d \in V
                 /\ \A i \in 1..Len(d) : \E k \in 1..m :
                       Declares(p, s, k) /\ d[i] = command(k)
                 /\ \A k \in 1..m : Declares(p, s, k) =>
                       \E i \in 1..Len(d) : d[i] = command(k)
                 /\ \A i, j \in 1..Len(d) : i < j => d[i].index > d[j].index
  <1>1. n \in Nat
    BY ProgramFacts
  <1>2. \A k \in 1..n : /\ command(k) \in Command /\ IndexAt(p, s, k) \in Nat
                        /\ command(k).index = IndexAt(p, s, k)
                        /\ command(k).op = "destroy" /\ command(k).scope = s
    <2> SUFFICES ASSUME NEW k \in 1..n
                 PROVE  /\ command(k) \in Command /\ IndexAt(p, s, k) \in Nat
                        /\ command(k).index = IndexAt(p, s, k)
                        /\ command(k).op = "destroy" /\ command(k).scope = s
      OBVIOUS
    <2>1. IndexAt(p, s, k) \in Nat
      <3>1. k \in Int
        BY <1>1
      <3> QED
        BY <3>1, IndexType
    <2> QED
      BY <2>1 DEF Destroy, Command
  <1>3. \E f : IsList(f)
    <2> DEFINE step == [k \in 1..n |-> [v \in V |->
                           IF Declares(p, s, k) THEN <<command(k)>> \o v ELSE v]]
    <2>1. step \in [1..n -> [V -> V]]
      <3> HIDE DEF command
      <3>1. \A k \in 1..n : \A v \in V : <<command(k)>> \o v \in V
        BY <1>2, InFront
      <3> HIDE DEF V, n
      <3> QED
        BY <3>1
    <2>2. <<>> \in V
      OBVIOUS
    <2> HIDE DEF V
    <2>3. \A k \in 1..n : \A v \in V :
              step[k][v] = IF Declares(p, s, k) THEN <<command(k)>> \o v ELSE v
      OBVIOUS
    <2> HIDE DEF n, step, command
    <2>4. PICK f \in [0..n -> V] : f[0] = <<>> /\ \A k \in 1..n : f[k] = step[k][f[k - 1]]
      <3>1. n \in Nat
        BY <1>1
      <3>2. Iterated(V, <<>>, n, step)
        BY <2>1, <2>2, <3>1, IteratedHas
      <3> QED
        BY <3>2 DEF Iterated
    <2>5. \A k \in 0..n : f[k] = IF k = 0 THEN <<>>
                                 ELSE IF Declares(p, s, k) THEN <<command(k)>> \o f[k - 1]
                                 ELSE f[k - 1]
      <3> SUFFICES ASSUME NEW k \in 0..n, k # 0
                   PROVE  f[k] = IF Declares(p, s, k) THEN <<command(k)>> \o f[k - 1]
                                 ELSE f[k - 1]
        BY <2>4
      <3>1. k \in 1..n /\ k - 1 \in 0..n
        BY <1>1
      <3>2. f[k - 1] \in V
        BY <2>4, <3>1
      <3> QED
        BY <2>3, <2>4, <3>1, <3>2
    <2>6. f = [k \in 0..n |-> f[k]]
      BY <2>4
    <2>7. IsList(f)
      BY <2>5, <2>6
    <2> QED
      BY <2>7
  <1>4. IsList(list)
    <2> HIDE DEF IsList
    <2> QED
      BY <1>3
  <1>5. Destructors(p, s) = list[n]
    BY DEF Destructors
  <1>6. /\ list[0] = <<>>
        /\ \A k \in 1..n : list[k] =
              IF Declares(p, s, k) THEN <<command(k)>> \o list[k - 1] ELSE list[k - 1]
    <2> HIDE DEF list, command
    <2>1. \A k \in 0..n : list[k] =
              IF k = 0 THEN <<>>
              ELSE IF Declares(p, s, k) THEN <<command(k)>> \o list[k - 1] ELSE list[k - 1]
      BY <1>4
    <2> HIDE DEF IsList, n
    <2>2. 0 \in 0..n /\ \A k \in 1..n : k \in 0..n /\ k # 0
      BY <1>1
    <2> QED
      BY <2>1, <2>2
  <1> HIDE DEF list, IsList
  <1>7. ASSUME NEW k \in Nat, k + 1 <= n, Good(k, list[k])
        PROVE  Good(k + 1, list[k + 1])
    <2> DEFINE d == list[k]
    <2>1. k + 1 \in 1..n /\ (k + 1) - 1 = k
      BY <1>1, <1>7
    <2>2. CASE ~ Declares(p, s, k + 1)
      <3>1. list[k + 1] = d
        BY <1>6, <2>1, <2>2
      <3>2. \A m \in 1..k + 1 : Declares(p, s, m) => m \in 1..k
        BY <2>2
      <3>3. \A m \in 1..k : m \in 1..k + 1
        OBVIOUS
      <3> HIDE DEF command, V
      <3>4. Good(k + 1, d)
        BY <1>7, <3>2, <3>3
      <3> QED
        BY <3>1, <3>4
    <2>3. CASE Declares(p, s, k + 1)
      <3> DEFINE c == command(k + 1)
                 e == <<c>> \o d
      <3>1. list[k + 1] = e
        BY <1>6, <2>1, <2>3
      <3>2. c \in Command /\ d \in Seq(Command)
        BY <1>2, <1>7, <2>1
      <3>3. /\ e \in Seq(Command) /\ Len(e) = Len(d) + 1 /\ e[1] = c
            /\ \A i \in 1..Len(d) : e[i + 1] = d[i]
            /\ \A i \in 1..Len(d) + 1 : i # 1 => i - 1 \in 1..Len(d) /\ e[i] = d[i - 1]
        <4> HIDE DEF c, d
        <4> QED
          BY <3>2, InFront
      <3>4. Len(d) \in Nat
        BY <3>2
      <3> HIDE DEF e
      <3>5. \A i \in 1..Len(e) : \E m \in 1..k + 1 : Declares(p, s, m) /\ e[i] = command(m)
        <4> SUFFICES ASSUME NEW i \in 1..Len(e)
                     PROVE  \E m \in 1..k + 1 : Declares(p, s, m) /\ e[i] = command(m)
          OBVIOUS
        <4>1. CASE i = 1
          BY <2>3, <3>3, <4>1
        <4>2. CASE i # 1
          <5>1. i - 1 \in 1..Len(d) /\ e[i] = d[i - 1]
            BY <3>3, <3>4, <4>2
          <5>2. PICK m \in 1..k : Declares(p, s, m) /\ d[i - 1] = command(m)
            BY <1>7, <5>1
          <5>3. m \in 1..k + 1
            OBVIOUS
          <5> QED
            BY <5>1, <5>2, <5>3
        <4> QED
          BY <4>1, <4>2
      <3>6. \A m \in 1..k + 1 : Declares(p, s, m) => \E i \in 1..Len(e) : e[i] = command(m)
        <4> SUFFICES ASSUME NEW m \in 1..k + 1, Declares(p, s, m)
                     PROVE  \E i \in 1..Len(e) : e[i] = command(m)
          OBVIOUS
        <4>1. CASE m = k + 1
          BY <3>3, <3>4, <4>1
        <4>2. CASE m # k + 1
          <5>1. m \in 1..k
            BY <4>2
          <5>2. PICK i \in 1..Len(d) : d[i] = command(m)
            BY <1>7, <5>1
          <5>3. i + 1 \in 1..Len(e) /\ e[i + 1] = d[i]
            BY <3>3, <3>4
          <5> QED
            BY <5>2, <5>3
        <4> QED
          BY <4>1, <4>2
      <3>7. \A i \in 1..Len(d) : c.index > d[i].index
        <4> SUFFICES ASSUME NEW i \in 1..Len(d) PROVE c.index > d[i].index
          OBVIOUS
        <4>1. PICK m \in 1..k : Declares(p, s, m) /\ d[i] = command(m)
          BY <1>7
        <4>2. /\ m \in Nat \ {0} /\ k + 1 \in Nat \ {0} /\ m < k + 1 /\ m \in 1..n
              /\ p.body[s][m].op = "object"
          BY <1>1, <2>1, <4>1 DEF Declares
        <4>3. IndexAt(p, s, m) < IndexAt(p, s, k + 1)
          BY <4>2, IndexGrows
        <4>4. c.index = IndexAt(p, s, k + 1) /\ d[i].index = IndexAt(p, s, m)
          BY <1>2, <2>1, <4>1, <4>2
        <4>5. IndexAt(p, s, k + 1) \in Nat /\ IndexAt(p, s, m) \in Nat
          BY <1>2, <2>1, <4>2
        <4> QED
          BY <4>3, <4>4, <4>5
      <3>8. \A i, j \in 1..Len(e) : i < j => e[i].index > e[j].index
        <4> SUFFICES ASSUME NEW i \in 1..Len(e), NEW j \in 1..Len(e), i < j
                     PROVE  e[i].index > e[j].index
          OBVIOUS
        <4>1. j # 1 /\ j - 1 \in 1..Len(d) /\ e[j] = d[j - 1]
          <5>1. j # 1
            BY <3>4
          <5> QED
            BY <3>3, <3>4, <5>1
        <4>2. CASE i = 1
          BY <3>3, <3>7, <4>1, <4>2
        <4>3. CASE i # 1
          <5>1. i - 1 \in 1..Len(d) /\ e[i] = d[i - 1] /\ i - 1 < j - 1
            BY <3>3, <3>4, <4>3
          <5> QED
            BY <1>7, <4>1, <5>1
        <4> QED
          BY <4>2, <4>3
      <3> QED
        BY <3>1, <3>3, <3>5, <3>6, <3>8
    <2> QED
      BY <2>2, <2>3
  <1>8. Good(0, list[0])
    BY <1>6
  <1>9. Good(n, list[n])
    <2> DEFINE T == {k \in Nat : k <= n => Good(k, list[k])}
    <2> HIDE DEF Good
    <2>1. 0 \in T
      BY <1>8
    <2>2. \A k \in Nat : k \in T => k + 1 \in T
      <3> SUFFICES ASSUME NEW k \in Nat, k \in T, k + 1 <= n
                   PROVE  Good(k + 1, list[k + 1])
        OBVIOUS
      <3>1. k <= n
        BY <1>1
      <3> QED
        BY <1>7, <3>1
    <2>3. Nat \subseteq T
      <3> HIDE DEF T
      <3> QED
        BY <2>1, <2>2, Induct
    <2> QED
      BY <1>1, <2>3
  <1> DEFINE d == list[n]
  <1>10. \A i \in 1..Len(d) : /\ d[i].op = "destroy" /\ d[i].scope = s
                              /\ Owned(p, s, d[i].index)
    <2> SUFFICES ASSUME NEW i \in 1..Len(d)
                 PROVE  d[i].op = "destroy" /\ d[i].scope = s /\ Owned(p, s, d[i].index)
      OBVIOUS
    <2>1. PICK k \in 1..n : Declares(p, s, k) /\ d[i] = command(k)
      BY <1>9
    <2> HIDE DEF command, d, Good
    <2>2. d[i].index = IndexAt(p, s, k) /\ d[i].op = "destroy" /\ d[i].scope = s
      BY <1>2, <2>1
    <2> QED
      BY <2>1, <2>2 DEF Owned
  <1>11. ASSUME NEW j, Owned(p, s, j)
         PROVE  \E i \in 1..Len(d) : d[i] = Destroy(s, j)
    <2>1. PICK k \in 1..n : Declares(p, s, k) /\ IndexAt(p, s, k) = j
      BY <1>11 DEF Owned
    <2> QED
      BY <1>9, <2>1
  <1> QED
    BY <1>5, <1>9, <1>10, <1>11

-----------------------------------------------------------------------------
(* The code that leaves one scope: its destructors, then perhaps the jump   *)
(* of a loop, and its exit at the end.                                     *)
Segment(p, t, c) ==
    /\ c \in Seq(Command) /\ Len(c) >= 1
    /\ \A i \in 1..Len(c) : c[i].scope = t /\ (c[i].op = "exit" <=> i = Len(c))
    /\ \A i \in 1..Len(c) : c[i].op = "destroy" => Owned(p, t, c[i].index)
    /\ \A j : Owned(p, t, j) => \E i \in 1..Len(c) : c[i] = Destroy(t, j)
    /\ \A i, j \in 1..Len(c) : i < j /\ c[j].op = "destroy" =>
           c[i].op = "destroy" /\ c[i].index > c[j].index

LEMMA Behind ==
    ASSUME NEW C, NEW d \in Seq(C), NEW x \in C, NEW y \in C
    PROVE  /\ (d \o <<>>) \o <<x>> = Append(d, x)
           /\ (d \o <<x>>) \o <<y>> = Append(Append(d, x), y)
  <1>1. d \o <<>> = d /\ d \o <<x>> = Append(d, x)
    OBVIOUS
  <1>2. \A e \in Seq(C), z \in C : e \o <<z>> = Append(e, z)
    OBVIOUS
  <1>3. Append(d, x) \in Seq(C)
    OBVIOUS
  <1> QED
    BY <1>1, <1>2, <1>3

LEMMA CodesOfScopes ==
    ASSUME NEW p \in Programs, NEW s \in Scope
    PROVE  Segment(p, s, EndCode(p, s)) /\ Segment(p, s, ExitCode(p, s))
  <1> DEFINE d == Destructors(p, s)
  <1>1. /\ d \in Seq(Command)
        /\ \A i \in 1..Len(d) : /\ d[i].op = "destroy" /\ d[i].scope = s
                                /\ Owned(p, s, d[i].index)
        /\ \A j : Owned(p, s, j) => \E i \in 1..Len(d) : d[i] = Destroy(s, j)
        /\ \A i, j \in 1..Len(d) : i < j => d[i].index > d[j].index
    BY DestructorsAre
  <1>2. /\ Exit(s) \in Command /\ Exit(s).op = "exit" /\ Exit(s).scope = s
        /\ JumpIf(s) \in Command /\ JumpIf(s).op = "jumpIf" /\ JumpIf(s).scope = s
    BY DEF Exit, JumpIf, Command
  <1> HIDE DEF d
  <1>3. Segment(p, s, EndCode(p, s))
    <2>1. EndCode(p, s) = IF p.kind[s] = "loop" THEN Append(Append(d, JumpIf(s)), Exit(s))
                                                ELSE Append(d, Exit(s))
      BY <1>1, <1>2, Behind DEF EndCode, d
    <2>2. CASE p.kind[s] # "loop"
      <3> DEFINE c == Append(d, Exit(s))
      <3>1. /\ c \in Seq(Command) /\ Len(c) = Len(d) + 1 /\ Len(d) \in Nat
            /\ c[Len(d) + 1] = Exit(s)
            /\ \A i \in 1..Len(d) : c[i] = d[i]
        BY <1>1, <1>2
      <3> HIDE DEF c
      <3>2. \A i \in 1..Len(c) : i \in 1..Len(d) \/ i = Len(c)
        BY <3>1
      <3>3. \A i \in 1..Len(d) : i # Len(c) /\ i \in 1..Len(c)
        BY <3>1
      <3>4. \A i \in 1..Len(c) : c[i].scope = s /\ (c[i].op = "exit" <=> i = Len(c))
        BY <1>1, <1>2, <3>1, <3>2, <3>3
      <3>5. \A i \in 1..Len(c) : c[i].op = "destroy" =>
                i \in 1..Len(d) /\ Owned(p, s, c[i].index)
        BY <1>1, <3>1, <3>2, <3>4
      <3>6. \A j : Owned(p, s, j) => \E i \in 1..Len(c) : c[i] = Destroy(s, j)
        BY <1>1, <3>1, <3>3
      <3>7. \A i, j \in 1..Len(c) : i < j /\ c[j].op = "destroy" =>
                c[i].op = "destroy" /\ c[i].index > c[j].index
        <4> SUFFICES ASSUME NEW i \in 1..Len(c), NEW j \in 1..Len(c), i < j,
                            c[j].op = "destroy"
                     PROVE  c[i].op = "destroy" /\ c[i].index > c[j].index
          OBVIOUS
        <4>1. j \in 1..Len(d) /\ i \in 1..Len(d)
          BY <3>1, <3>5
        <4> QED
          BY <1>1, <3>1, <4>1
      <3>8. Segment(p, s, c)
        BY <3>1, <3>4, <3>5, <3>6, <3>7 DEF Segment
      <3> QED
        BY <2>1, <2>2, <3>8 DEF c
    <2>3. CASE p.kind[s] = "loop"
      <3> DEFINE c == Append(Append(d, JumpIf(s)), Exit(s))
      <3>1. /\ c \in Seq(Command) /\ Len(c) = Len(d) + 2 /\ Len(d) \in Nat
            /\ c[Len(d) + 2] = Exit(s) /\ c[Len(d) + 1] = JumpIf(s)
            /\ \A i \in 1..Len(d) : c[i] = d[i]
        BY <1>1, <1>2
      <3> HIDE DEF c
      <3>2. \A i \in 1..Len(c) : i \in 1..Len(d) \/ i = Len(d) + 1 \/ i = Len(c)
        BY <3>1
      <3>3. /\ \A i \in 1..Len(d) : i # Len(c) /\ i \in 1..Len(c)
            /\ Len(d) + 1 # Len(c)
        BY <3>1
      <3>4. \A i \in 1..Len(c) : c[i].scope = s /\ (c[i].op = "exit" <=> i = Len(c))
        BY <1>1, <1>2, <3>1, <3>2, <3>3
      <3>5. \A i \in 1..Len(c) : c[i].op = "destroy" =>
                i \in 1..Len(d) /\ Owned(p, s, c[i].index)
        BY <1>1, <1>2, <3>1, <3>2, <3>4
      <3>6. \A j : Owned(p, s, j) => \E i \in 1..Len(c) : c[i] = Destroy(s, j)
        BY <1>1, <3>1, <3>3
      <3>7. \A i, j \in 1..Len(c) : i < j /\ c[j].op = "destroy" =>
                c[i].op = "destroy" /\ c[i].index > c[j].index
        <4> SUFFICES ASSUME NEW i \in 1..Len(c), NEW j \in 1..Len(c), i < j,
                            c[j].op = "destroy"
                     PROVE  c[i].op = "destroy" /\ c[i].index > c[j].index
          OBVIOUS
        <4>1. j \in 1..Len(d) /\ i \in 1..Len(d)
          BY <3>1, <3>5
        <4> QED
          BY <1>1, <3>1, <4>1
      <3>8. Segment(p, s, c)
        BY <3>1, <3>4, <3>5, <3>6, <3>7 DEF Segment
      <3> QED
        BY <2>1, <2>3, <3>8 DEF c
    <2> QED
      BY <2>2, <2>3
  <1>4. CASE d = <<>>
    <2> DEFINE c == <<Exit(s)>>
    <2>1. c \in Seq(Command) /\ Len(c) = 1 /\ c[1] = Exit(s)
      BY <1>2
    <2>2. \A j : ~ Owned(p, s, j)
      BY <1>1, <1>4
    <2> HIDE DEF c
    <2>3. \A i \in 1..Len(c) : i = 1
      BY <2>1
    <2>4. Segment(p, s, c)
      BY <1>2, <2>1, <2>2, <2>3 DEF Segment
    <2> QED
      BY <1>3, <1>4, <2>4 DEF ExitCode, c, d
  <1>5. CASE d # <<>>
    BY <1>3, <1>5 DEF ExitCode, d
  <1> QED
    BY <1>4, <1>5

(* The ways out are defined: the scopes of a function form a tree.         *)
LEMMA WaysOut ==
    ASSUME NEW p \in Programs, NEW kinds, "function" \in kinds,
           NEW last \in [Scope -> Seq(Command)]
    PROVE  LET code == WayOut(p, kinds, last) IN
           /\ code \in [Scope -> Seq(Command)]
           /\ \A t \in Scope : code[t] =
                 IF p.kind[t] \in kinds THEN last[t]
                 ELSE ExitCode(p, t) \o code[p.parent[t]]
  <1> DEFINE V == Seq(Command)
             IsCode(f) == f = [t \in Scope |-> IF p.kind[t] \in kinds THEN last[t]
                                               ELSE ExitCode(p, t) \o f[p.parent[t]]]
             stop == {t \in Scope : p.kind[t] \in kinds}
             step == [t \in Scope |-> [v \in V |-> ExitCode(p, t) \o v]]
  <1>1. /\ p.kind \in [Scope -> {"function", "block", "loop"}]
        /\ p.parent \in [Scope -> Scope] /\ Root \in Scope
        /\ \A s \in Scope : p.kind[s] = "function" <=> s = Root
        /\ \A S \in SUBSET Scope :
              Root \in S /\ (\A t \in Scope : p.parent[t] \in S => t \in S) => S = Scope
    BY ProgramFacts
  <1>2. step \in [Scope -> [V -> V]] /\ last \in [Scope -> V]
    <2>1. \A t \in Scope : ExitCode(p, t) \in Seq(Command)
      BY CodesOfScopes DEF Segment
    <2>2. \A t \in Scope : \A v \in V : ExitCode(p, t) \o v \in V
      BY <2>1
    <2> HIDE DEF V
    <2>3. step \in [Scope -> [V -> V]]
      BY <2>2
    <2> QED
      BY <2>3 DEF V
  <1>3. stop \in SUBSET Scope /\ Root \in stop
    BY <1>1
  <1>4. \A t \in Scope : \A v \in V : step[t][v] = ExitCode(p, t) \o v
    <2> HIDE DEF V
    <2> QED
      OBVIOUS
  <1>5. PICK f \in [Scope -> V] : \A t \in Scope :
            f[t] = IF t \in stop THEN last[t] ELSE step[t][f[p.parent[t]]]
    <2> DEFINE up == p.parent
    <2>1. Descent(Scope, Root, up, V, stop, last, step)
      <3>1. Tree(Scope, Root, up)
        BY <1>1 DEF Tree
      <3> HIDE DEF V, stop, step, up
      <3> QED
        BY <1>2, <1>3, <3>1 DEF Descent
    <2> HIDE DEF V, stop, step, up
    <2>2. \E f \in [Scope -> V] : \A t \in Scope :
              f[t] = IF t \in stop THEN last[t] ELSE step[t][f[up[t]]]
      BY <2>1, Descends
    <2> QED
      BY <2>2 DEF up
  <1>6. \A t \in Scope : f[t] = IF p.kind[t] \in kinds THEN last[t]
                                ELSE ExitCode(p, t) \o f[p.parent[t]]
    <2> SUFFICES ASSUME NEW t \in Scope
                 PROVE  f[t] = IF p.kind[t] \in kinds THEN last[t]
                               ELSE ExitCode(p, t) \o f[p.parent[t]]
      OBVIOUS
    <2>1. f[p.parent[t]] \in V
      BY <1>1, <1>5
    <2>2. step[t][f[p.parent[t]]] = ExitCode(p, t) \o f[p.parent[t]]
      BY <1>4, <2>1
    <2> HIDE DEF V, step
    <2> QED
      BY <1>5, <2>2
  <1>7. IsCode(f)
    <2>1. f = [t \in Scope |-> f[t]]
      BY <1>5
    <2> QED
      BY <1>6, <2>1
  <1> DEFINE code == CHOOSE g : IsCode(g)
  <1>8. IsCode(code)
    <2> HIDE DEF IsCode
    <2> QED
      BY <1>7
  <1>9. WayOut(p, kinds, last) = code
    BY DEF WayOut
  <1> HIDE DEF code
  <1>10. \A t \in Scope : code[t] = IF p.kind[t] \in kinds THEN last[t]
                                    ELSE ExitCode(p, t) \o code[p.parent[t]]
    BY <1>8
  <1>11. \A t \in Scope : code[t] \in V
    <2> DEFINE U == {t \in Scope : code[t] \in V}
    <2>1. Root \in U
      BY <1>1, <1>2, <1>10
    <2>2. \A t \in Scope : p.parent[t] \in U => t \in U
      <3> SUFFICES ASSUME NEW t \in Scope, code[p.parent[t]] \in V PROVE code[t] \in V
        OBVIOUS
      <3>1. ExitCode(p, t) \in Seq(Command)
        BY CodesOfScopes DEF Segment
      <3>2. ExitCode(p, t) \o code[p.parent[t]] \in V /\ last[t] \in V
        BY <1>2, <3>1
      <3> QED
        BY <1>10, <3>2
    <2>3. U \in SUBSET Scope
      OBVIOUS
    <2> HIDE DEF U
    <2>4. U = Scope
      BY <1>1, <2>1, <2>2, <2>3
    <2> QED
      BY <2>4 DEF U
  <1>12. code \in [Scope -> V]
    <2>1. code = [t \in Scope |-> code[t]]
      BY <1>8, <1>10
    <2> QED
      BY <1>11, <2>1
  <1> QED
    BY <1>9, <1>10, <1>12

-----------------------------------------------------------------------------
(* Scopes that are open: each one lies in the one before.                  *)
Chain(p, open) ==
    /\ open \in Seq(Scope) /\ Len(open) >= 1 /\ open[1] = Root
    /\ \A i \in 1..(Len(open) - 1) :
          open[i + 1] # Root /\ p.parent[open[i + 1]] = open[i]

(* The command at k meets the scope that is left after the exits before it. *)
Meets(p, c, open) ==
    \A k \in 1..Len(c) :
        /\ ExitsBefore(c, k) < Len(open)
        /\ c[k].scope = open[Len(open) - ExitsBefore(c, k)]
        /\ c[k].op = "destroy" => Owned(p, c[k].scope, c[k].index)

(* Each scope that is left has a destructor for each object that needs one. *)
Covers(p, c, open) ==
    /\ ExitsBefore(c, Len(c) + 1) <= Len(open)
    /\ \A e \in Nat : e < ExitsBefore(c, Len(c) + 1) =>
          \A j : Owned(p, open[Len(open) - e], j) =>
              \E l \in 1..Len(c) : /\ ExitsBefore(c, l) = e
                                   /\ c[l] = Destroy(open[Len(open) - e], j)

(* In each scope the destructors come first, in descending order.          *)
LastFirst(c) ==
    \A k, l \in 1..Len(c) :
        k < l /\ ExitsBefore(c, k) = ExitsBefore(c, l) /\ c[l].op = "destroy" =>
            c[k].op = "destroy" /\ c[k].index > c[l].index

EndsWithExit(c) == c # <<>> => c[Len(c)].op = "exit"

Leaves(p, c, open) ==
    /\ c \in Seq(Command)
    /\ Meets(p, c, open) /\ Covers(p, c, open) /\ LastFirst(c) /\ EndsWithExit(c)

LEMMA SegmentExits ==
    ASSUME NEW p, NEW t, NEW a, Segment(p, t, a)
    PROVE  /\ \A k \in 1..Len(a) : ExitsBefore(a, k) = 0
           /\ ExitsBefore(a, Len(a) + 1) = 1
  <1>1. Len(a) \in Nat \ {0} /\ \A i \in 1..Len(a) : a[i].op = "exit" <=> i = Len(a)
    BY DEF Segment
  <1>2. \A k \in 1..Len(a) : ExitsBefore(a, k) = 0
    <2> SUFFICES ASSUME NEW k \in 1..Len(a) PROVE ExitsBefore(a, k) = 0
      OBVIOUS
    <2>1. {i \in 1..(k - 1) : a[i].op = "exit"} = {}
      BY <1>1
    <2> QED
      BY <2>1, FS_EmptySet DEF ExitsBefore
  <1>3. Len(a) \in 1..Len(a) /\ a[Len(a)].op = "exit"
    BY <1>1
  <1>4. ExitsBefore(a, Len(a) + 1) = ExitsBefore(a, Len(a)) + 1
    BY <1>1, <1>3, ExitsNext
  <1> QED
    BY <1>2, <1>3, <1>4

(* A sequence without its last element.                                    *)
LEMMA FrontOf ==
    ASSUME NEW C, NEW q \in Seq(C), Len(q) >= 1
    PROVE  LET low == SubSeq(q, 1, Len(q) - 1) IN
           /\ low \in Seq(C) /\ Len(low) = Len(q) - 1
           /\ \A i \in 1..(Len(q) - 1) : low[i] = q[i]
  <1>1. 1 \in Int /\ Len(q) - 1 \in Int /\ Len(q) \in Nat
    OBVIOUS
  <1>2. \A i \in 1..(Len(q) - 1) : q[i] \in C /\ 1 + i - 1 = i
    BY <1>1
  <1>3. (Len(q) - 1) - 1 + 1 = Len(q) - 1
    BY <1>1
  <1> QED
    BY <1>1, <1>2, <1>3, SubSeqProperties

(* The code of a scope, followed by one that leaves the scopes around it.  *)
LEMMA SegmentInFront ==
    ASSUME NEW p, NEW a, NEW b, NEW open \in Seq(Scope), Len(open) >= 1,
           Segment(p, open[Len(open)], a),
           Leaves(p, b, SubSeq(open, 1, Len(open) - 1))
    PROVE  Leaves(p, a \o b, open)
  <1> DEFINE c == a \o b
             A == Len(a)
             B == Len(b)
             N == Len(open)
             t == open[N]
             low == SubSeq(open, 1, N - 1)
  <1>1. /\ a \in Seq(Command) /\ b \in Seq(Command)
        /\ A \in Nat \ {0} /\ B \in Nat /\ N \in Nat \ {0}
    BY DEF Segment, Leaves
  <1>2. /\ c \in Seq(Command) /\ Len(c) = A + B
        /\ \A i \in 1..A : c[i] = a[i]
        /\ \A i \in 1..B : c[A + i] = b[i]
    BY <1>1
  <1>3. /\ Len(low) = N - 1
        /\ \A i \in 1..(N - 1) : low[i] = open[i]
    <2>1. low \in Seq(Scope) /\ Len(low) = N - 1 /\ \A i \in 1..(N - 1) : low[i] = open[i]
      BY FrontOf
    <2> QED
      BY <2>1
  <1>4. /\ \A k \in 1..A : ExitsBefore(c, k) = 0
        /\ \A k \in 1..(B + 1) : ExitsBefore(c, A + k) = 1 + ExitsBefore(b, k)
    <2>1. /\ \A k \in 1..A : ExitsBefore(a, k) = 0
          /\ ExitsBefore(a, A + 1) = 1
      BY SegmentExits
    <2>2. /\ \A k \in 1..(A + 1) : ExitsBefore(c, k) = ExitsBefore(a, k)
          /\ \A k \in 1..(B + 1) :
                ExitsBefore(c, A + k) = ExitsBefore(a, A + 1) + ExitsBefore(b, k)
      BY <1>1, ExitsOfBoth
    <2>3. \A k \in 1..A : k \in 1..(A + 1)
      BY <1>1
    <2> HIDE DEF c
    <2> QED
      BY <2>1, <2>2, <2>3
  <1>5. \A k \in 1..(B + 1) : ExitsBefore(b, k) \in Nat
    <2>1. \A k \in 1..(B + 1) : k \in Int
      BY <1>1
    <2> QED
      BY <2>1, ExitsType
  <1>6. \A k \in 1..(A + B) : k \in 1..A \/ \E m \in 1..B : k = A + m
    <2> SUFFICES ASSUME NEW k \in 1..(A + B), k \notin 1..A PROVE \E m \in 1..B : k = A + m
      OBVIOUS
    <2>1. k - A \in 1..B /\ k = A + (k - A)
      BY <1>1
    <2> QED
      BY <2>1
  <1>7. /\ \A i \in 1..A : a[i].scope = t /\ (a[i].op = "destroy" => Owned(p, t, a[i].index))
        /\ \A j : Owned(p, t, j) => \E i \in 1..A : a[i] = Destroy(t, j)
        /\ \A i, j \in 1..A : i < j /\ a[j].op = "destroy" =>
              a[i].op = "destroy" /\ a[i].index > a[j].index
        /\ a[A].op = "exit"
    BY <1>1 DEF Segment
  <1>8. Meets(p, b, low) /\ Covers(p, b, low) /\ LastFirst(b) /\ EndsWithExit(b)
    BY DEF Leaves
  <1> HIDE DEF c, low, A, B, N, t
  <1>9. Meets(p, c, open)
    <2> SUFFICES ASSUME NEW k \in 1..(A + B)
                 PROVE  /\ ExitsBefore(c, k) < N
                        /\ c[k].scope = open[N - ExitsBefore(c, k)]
                        /\ c[k].op = "destroy" => Owned(p, c[k].scope, c[k].index)
      BY <1>2 DEF Meets, N
    <2>1. CASE k \in 1..A
      <3>1. ExitsBefore(c, k) = 0 /\ c[k] = a[k]
        BY <1>2, <1>4, <2>1
      <3>2. 0 < N /\ N - 0 = N
        BY <1>1
      <3>3. open[N] = t
        BY DEF t
      <3> QED
        BY <1>7, <2>1, <3>1, <3>2, <3>3
    <2>2. ASSUME NEW m \in 1..B, k = A + m
          PROVE  /\ ExitsBefore(c, k) < N
                 /\ c[k].scope = open[N - ExitsBefore(c, k)]
                 /\ c[k].op = "destroy" => Owned(p, c[k].scope, c[k].index)
      <3>1. m \in 1..(B + 1)
        BY <1>1
      <3>2. /\ ExitsBefore(b, m) < N - 1 /\ b[m].scope = low[(N - 1) - ExitsBefore(b, m)]
            /\ b[m].op = "destroy" => Owned(p, b[m].scope, b[m].index)
        BY <1>3, <1>8 DEF Meets, B
      <3>3. /\ ExitsBefore(c, k) = 1 + ExitsBefore(b, m) /\ c[k] = b[m]
            /\ ExitsBefore(b, m) \in Nat
        BY <1>2, <1>4, <1>5, <2>2, <3>1
      <3>4. /\ (N - 1) - ExitsBefore(b, m) = N - ExitsBefore(c, k)
            /\ (N - 1) - ExitsBefore(b, m) \in 1..(N - 1)
            /\ ExitsBefore(c, k) < N
        BY <1>1, <3>2, <3>3
      <3> QED
        BY <1>3, <3>2, <3>3, <3>4
    <2> QED
      BY <1>6, <2>1, <2>2
  <1>10. Covers(p, c, open)
    <2>1. /\ ExitsBefore(c, (A + B) + 1) = 1 + ExitsBefore(b, B + 1)
          /\ ExitsBefore(b, B + 1) \in Nat /\ ExitsBefore(b, B + 1) <= N - 1
      <3>1. B + 1 \in 1..(B + 1) /\ (A + B) + 1 = A + (B + 1)
        BY <1>1
      <3>2. ExitsBefore(b, B + 1) <= N - 1
        BY <1>3, <1>8 DEF Covers, B
      <3> QED
        BY <1>4, <1>5, <3>1, <3>2
    <2>2. ExitsBefore(c, (A + B) + 1) <= N
      BY <1>1, <2>1
    <2>3. ASSUME NEW e \in Nat, e < ExitsBefore(c, (A + B) + 1),
                 NEW j, Owned(p, open[N - e], j)
          PROVE  \E l \in 1..(A + B) : /\ ExitsBefore(c, l) = e
                                       /\ c[l] = Destroy(open[N - e], j)
      <3>1. CASE e = 0
        <4>1. open[N - e] = t
          BY <1>1, <3>1 DEF t
        <4>2. PICK i \in 1..A : a[i] = Destroy(t, j)
          BY <1>7, <2>3, <4>1
        <4>3. i \in 1..(A + B) /\ ExitsBefore(c, i) = e /\ c[i] = a[i]
          BY <1>1, <1>2, <1>4, <3>1
        <4> QED
          BY <4>1, <4>2, <4>3
      <3>2. CASE e # 0
        <4>1. /\ e - 1 \in Nat /\ e - 1 < ExitsBefore(b, B + 1)
              /\ (N - 1) - (e - 1) = N - e /\ N - e \in 1..(N - 1)
          BY <1>1, <2>1, <2>3, <3>2
        <4>2. low[(N - 1) - (e - 1)] = open[N - e]
          BY <1>3, <4>1
        <4>3. \A f \in Nat : f < ExitsBefore(b, B + 1) =>
                  \A h : Owned(p, low[(N - 1) - f], h) =>
                      \E l \in 1..B : /\ ExitsBefore(b, l) = f
                                      /\ b[l] = Destroy(low[(N - 1) - f], h)
          BY <1>3, <1>8 DEF Covers, B
        <4>4. PICK l \in 1..B : ExitsBefore(b, l) = e - 1 /\ b[l] = Destroy(open[N - e], j)
          BY <2>3, <4>1, <4>2, <4>3
        <4>5. A + l \in 1..(A + B) /\ l \in 1..(B + 1)
          BY <1>1
        <4>6. ExitsBefore(c, A + l) = 1 + (e - 1) /\ c[A + l] = b[l]
          BY <1>2, <1>4, <4>4, <4>5
        <4> QED
          BY <4>4, <4>5, <4>6
      <3> QED
        BY <3>1, <3>2
    <2> QED
      BY <1>2, <2>2, <2>3 DEF Covers, N
  <1>11. LastFirst(c)
    <2> SUFFICES ASSUME NEW k \in 1..(A + B), NEW l \in 1..(A + B), k < l,
                        ExitsBefore(c, k) = ExitsBefore(c, l), c[l].op = "destroy"
                 PROVE  c[k].op = "destroy" /\ c[k].index > c[l].index
      BY <1>2 DEF LastFirst
    <2>1. CASE l \in 1..A
      <3>1. k \in 1..A
        BY <1>1, <2>1
      <3> QED
        BY <1>2, <1>7, <2>1, <3>1
    <2>2. ASSUME NEW m \in 1..B, l = A + m
          PROVE  c[k].op = "destroy" /\ c[k].index > c[l].index
      <3>1. m \in 1..(B + 1)
        BY <1>1
      <3>2. ExitsBefore(c, l) = 1 + ExitsBefore(b, m) /\ ExitsBefore(b, m) \in Nat /\ c[l] = b[m]
        BY <1>2, <1>4, <1>5, <2>2, <3>1
      <3>3. k \notin 1..A
        <4>1. k \in 1..A => ExitsBefore(c, k) = 0
          BY <1>4
        <4> QED
          BY <3>2, <4>1
      <3>4. PICK h \in 1..B : k = A + h
        BY <1>6, <3>3
      <3>5. h \in 1..(B + 1) /\ h < m
        BY <1>1, <2>2, <3>4
      <3>6. ExitsBefore(c, k) = 1 + ExitsBefore(b, h) /\ ExitsBefore(b, h) \in Nat /\ c[k] = b[h]
        BY <1>2, <1>4, <1>5, <3>4, <3>5
      <3>7. ExitsBefore(b, h) = ExitsBefore(b, m)
        BY <3>2, <3>6
      <3> QED
        BY <1>8, <3>2, <3>5, <3>6, <3>7 DEF LastFirst, B
    <2> QED
      BY <1>6, <2>1, <2>2
  <1>12. EndsWithExit(c)
    <2>1. CASE B = 0
      <3>1. Len(c) = A /\ A \in 1..A
        BY <1>1, <1>2, <2>1
      <3> QED
        BY <1>2, <1>7, <3>1 DEF EndsWithExit
    <2>2. CASE B # 0
      <3>1. Len(c) = A + B /\ B \in 1..B /\ b # <<>>
        BY <1>1, <1>2, <2>2 DEF B
      <3>2. b[B].op = "exit"
        BY <1>8, <3>1 DEF EndsWithExit, B
      <3> QED
        BY <1>2, <3>1, <3>2 DEF EndsWithExit
    <2> QED
      BY <2>1, <2>2
  <1> QED
    BY <1>2, <1>9, <1>10, <1>11, <1>12 DEF Leaves, c

LEMMA NothingLeaves ==
    ASSUME NEW p, NEW open \in Seq(Scope)
    PROVE  Leaves(p, <<>>, open)
  <1>1. ExitsBefore(<<>>, 1) = 0 /\ Len(open) \in Nat /\ Len(<<>>) + 1 = 1
    <2>1. 1 \in Int /\ 1 <= 1
      OBVIOUS
    <2>2. ExitsBefore(<<>>, 1) = 0
      BY <2>1, ExitsType
    <2> QED
      BY <2>2
  <1>2. Covers(p, <<>>, open)
    BY <1>1 DEF Covers
  <1> QED
    BY <1>2 DEF Leaves, Meets, LastFirst, EndsWithExit

LEMMA SegmentLeaves ==
    ASSUME NEW p, NEW a, NEW open \in Seq(Scope), Len(open) >= 1,
           Segment(p, open[Len(open)], a)
    PROVE  Leaves(p, a, open)
  <1>1. SubSeq(open, 1, Len(open) - 1) \in Seq(Scope)
    BY FrontOf
  <1>2. Leaves(p, a \o <<>>, open)
    BY <1>1, NothingLeaves, SegmentInFront
  <1>3. a \o <<>> = a
    BY DEF Segment
  <1> QED
    BY <1>2, <1>3

-----------------------------------------------------------------------------
(* The scopes around the innermost one are open as well.                   *)
LEMMA ChainBelow ==
    ASSUME NEW p, NEW open, Chain(p, open), open[Len(open)] # Root
    PROVE  LET low == SubSeq(open, 1, Len(open) - 1) IN
           Chain(p, low) /\ low[Len(low)] = p.parent[open[Len(open)]]
  <1> DEFINE N == Len(open)
             low == SubSeq(open, 1, N - 1)
  <1>1. /\ open \in Seq(Scope) /\ N \in Nat /\ N >= 1 /\ open[1] = Root
        /\ \A i \in 1..(N - 1) : open[i + 1] # Root /\ p.parent[open[i + 1]] = open[i]
    BY DEF Chain
  <1>2. N # 1
    BY <1>1
  <1>3. low \in Seq(Scope) /\ Len(low) = N - 1 /\ \A i \in 1..(N - 1) : low[i] = open[i]
    BY <1>1, FrontOf
  <1> HIDE DEF N, low
  <1>4. /\ 1 \in 1..(N - 1) /\ N - 1 \in 1..(N - 1) /\ (N - 1) + 1 = N
        /\ \A i \in 1..(Len(low) - 1) : i \in 1..(N - 1) /\ i + 1 \in 1..(N - 1)
    BY <1>1, <1>2, <1>3
  <1>5. low[N - 1] = p.parent[open[N]]
    BY <1>1, <1>3, <1>4
  <1>6. Chain(p, low)
    <2>1. Len(low) >= 1 /\ low[1] = Root
      BY <1>1, <1>3, <1>4
    <2>2. \A i \in 1..(Len(low) - 1) :
              low[i + 1] # Root /\ p.parent[low[i + 1]] = low[i]
      BY <1>1, <1>3, <1>4
    <2> QED
      BY <1>3, <2>1, <2>2 DEF Chain
  <1> QED
    BY <1>3, <1>5, <1>6 DEF N, low

(* No scope is open twice.                                                 *)
LEMMA ChainDistinct ==
    ASSUME NEW p, NEW open, Chain(p, open),
           NEW i \in 1..Len(open), NEW k \in 1..Len(open), i < k
    PROVE  open[i] # open[k]
  <1> DEFINE N == Len(open)
             T == {m \in Nat : \A h \in 1..N : m + 1 < h => open[m + 1] # open[h]}
  <1>1. /\ N \in Nat /\ open[1] = Root
        /\ \A h \in 1..(N - 1) : open[h + 1] # Root /\ p.parent[open[h + 1]] = open[h]
    BY DEF Chain
  <1>2. \A h \in 1..N : 1 < h => h - 1 \in 1..(N - 1) /\ (h - 1) + 1 = h
    BY <1>1
  <1>3. 0 \in T
    <2>1. \A h \in 1..N : 1 < h => open[1] # open[h]
      BY <1>1, <1>2
    <2>2. 0 + 1 = 1
      OBVIOUS
    <2> QED
      BY <2>1, <2>2
  <1>4. ASSUME NEW m \in Nat, m \in T
        PROVE  m + 1 \in T
    <2> SUFFICES ASSUME NEW h \in 1..N, (m + 1) + 1 < h, open[(m + 1) + 1] = open[h]
                 PROVE  FALSE
      OBVIOUS
    <2>1. /\ m + 1 \in 1..(N - 1) /\ h - 1 \in 1..(N - 1) /\ (h - 1) + 1 = h
          /\ h - 1 \in 1..N /\ m + 1 < h - 1
      BY <1>1
    <2>2. open[m + 1] = open[h - 1]
      BY <1>1, <2>1
    <2> QED
      BY <1>4, <2>1, <2>2
  <1>5. i - 1 \in T
    <2>1. Nat \subseteq T
      <3> HIDE DEF T
      <3> QED
        BY <1>3, <1>4, Induct
    <2>2. i - 1 \in Nat
      OBVIOUS
    <2> QED
      BY <2>1, <2>2
  <1>6. (i - 1) + 1 = i
    OBVIOUS
  <1> QED
    BY <1>5, <1>6

(* Code behind some other ends it.                                         *)
LEMMA LastOfBoth ==
    ASSUME NEW C, NEW a \in Seq(C), NEW b \in Seq(C), b # <<>>
    PROVE  /\ a \o b \in Seq(C) /\ a \o b # <<>>
           /\ (a \o b)[Len(a \o b)] = b[Len(b)]
  <1>1. Len(a) \in Nat /\ Len(b) \in Nat \ {0} /\ Len(a \o b) = Len(a) + Len(b)
    OBVIOUS
  <1>2. Len(a) + Len(b) \in 1..(Len(a) + Len(b)) /\ ~ (Len(a) + Len(b) <= Len(a))
        /\ (Len(a) + Len(b)) - Len(a) = Len(b)
    BY <1>1
  <1>3. (a \o b)[Len(a) + Len(b)] = b[Len(b)]
    BY <1>2, ConcatProperties
  <1>4. a \o b \in Seq(C) /\ a \o b # <<>>
    BY <1>1
  <1> QED
    BY <1>1, <1>3, <1>4

(* A way out leaves all the open scopes that it passes, and the last one   *)
(* is of a kind asked for.                                                 *)
LEMMA WayOutLeaves ==
    ASSUME NEW p \in Programs, NEW kinds, "function" \in kinds,
           NEW last \in [Scope -> Seq(Command)], \A t \in Scope : Segment(p, t, last[t])
    PROVE  LET code == WayOut(p, kinds, last) IN
           \A t \in Scope :
              /\ code[t] \in Seq(Command) /\ code[t] # <<>>
              /\ p.kind[code[t][Len(code[t])].scope] \in kinds
              /\ \A open : Chain(p, open) /\ open[Len(open)] = t => Leaves(p, code[t], open)
  <1> DEFINE code == WayOut(p, kinds, last)
             Good(t) ==
                 /\ code[t] # <<>>
                 /\ p.kind[code[t][Len(code[t])].scope] \in kinds
                 /\ \A open : Chain(p, open) /\ open[Len(open)] = t => Leaves(p, code[t], open)
             U == {t \in Scope : Good(t)}
  <1>1. /\ code \in [Scope -> Seq(Command)]
        /\ \A t \in Scope : code[t] = IF p.kind[t] \in kinds THEN last[t]
                                      ELSE ExitCode(p, t) \o code[p.parent[t]]
    BY WaysOut
  <1>2. /\ p.parent \in [Scope -> Scope] /\ Root \in Scope
        /\ \A s \in Scope : p.kind[s] = "function" <=> s = Root
        /\ \A S \in SUBSET Scope :
              Root \in S /\ (\A t \in Scope : p.parent[t] \in S => t \in S) => S = Scope
    BY ProgramFacts
  <1> HIDE DEF code
  <1>3. ASSUME NEW t \in Scope, p.kind[t] \in kinds
        PROVE  Good(t)
    <2>1. code[t] = last[t] /\ Segment(p, t, code[t])
      BY <1>1, <1>3
    <2>2. code[t] # <<>> /\ code[t][Len(code[t])].scope = t
      BY <2>1 DEF Segment
    <2>3. ASSUME NEW open, Chain(p, open), open[Len(open)] = t
          PROVE  Leaves(p, code[t], open)
      BY <2>1, <2>3, SegmentLeaves DEF Chain
    <2> QED
      BY <1>3, <2>2, <2>3
  <1>4. ASSUME NEW t \in Scope, Good(p.parent[t]), p.kind[t] \notin kinds
        PROVE  Good(t)
    <2> DEFINE a == ExitCode(p, t)
               b == code[p.parent[t]]
    <2>1. code[t] = a \o b
      BY <1>1, <1>4
    <2>2. p.parent[t] \in Scope /\ t # Root
      BY <1>2, <1>4
    <2>3. Segment(p, t, a) /\ a \in Seq(Command) /\ b \in Seq(Command)
      BY <1>1, <2>2, CodesOfScopes DEF Segment
    <2>4. b # <<>> /\ p.kind[b[Len(b)].scope] \in kinds
      BY <1>4
    <2> HIDE DEF a, b
    <2>5. code[t] # <<>> /\ code[t][Len(code[t])] = b[Len(b)]
      BY <2>1, <2>3, <2>4, LastOfBoth
    <2>6. ASSUME NEW open, Chain(p, open), open[Len(open)] = t
          PROVE  Leaves(p, code[t], open)
      <3> DEFINE low == SubSeq(open, 1, Len(open) - 1)
      <3>1. Chain(p, low) /\ low[Len(low)] = p.parent[t]
        BY <2>2, <2>6, ChainBelow
      <3>2. Leaves(p, b, low)
        BY <1>4, <3>1 DEF b
      <3>3. open \in Seq(Scope) /\ Len(open) >= 1
        BY <2>6 DEF Chain
      <3> QED
        BY <2>1, <2>3, <2>6, <3>2, <3>3, SegmentInFront
    <2> QED
      BY <2>4, <2>5, <2>6
  <1>5. U = Scope
    <2>1. Root \in U
      BY <1>2, <1>3
    <2>2. \A t \in Scope : p.parent[t] \in U => t \in U
      <3> HIDE DEF Good
      <3> QED
        BY <1>3, <1>4
    <2>3. U \in SUBSET Scope
      OBVIOUS
    <2> HIDE DEF U
    <2> QED
      BY <1>2, <2>1, <2>2, <2>3
  <1>6. \A t \in Scope : Good(t)
    <2> HIDE DEF Good
    <2> QED
      BY <1>5
  <1> QED
    BY <1>1, <1>6 DEF code

(* A break in a loop leaves the loop.                                      *)
LEMMA BreakTarget ==
    ASSUME NEW p \in Programs, NEW s \in Scope, InLoop(p, s)
    PROVE  LET c == BreakCode(p, s) IN p.kind[c[Len(c)].scope] = "loop"
  <1> DEFINE kinds == {"loop", "function"}
             last == ExitCodes(p)
             code == WayOut(p, kinds, last)
             up == p.parent
             V == BOOLEAN
             stop == {t \in Scope : p.kind[t] # "block"}
             at == [t \in Scope |-> p.kind[t] = "loop"]
             step == [t \in Scope |-> [v \in V |-> v]]
             IsInside(f) == f = [t \in Scope |-> \/ p.kind[t] = "loop"
                                                 \/ p.kind[t] = "block" /\ f[p.parent[t]]]
             inside == CHOOSE f : IsInside(f)
  <1>1. /\ p.kind \in [Scope -> {"function", "block", "loop"}]
        /\ p.parent \in [Scope -> Scope] /\ Root \in Scope
        /\ \A t \in Scope : p.kind[t] = "function" <=> t = Root
        /\ \A S \in SUBSET Scope :
              Root \in S /\ (\A t \in Scope : p.parent[t] \in S => t \in S) => S = Scope
    BY ProgramFacts
  <1>2. \E f \in [Scope -> V] : \A t \in Scope :
            f[t] = IF t \in stop THEN at[t] ELSE step[t][f[up[t]]]
    <2>1. Descent(Scope, Root, up, V, stop, at, step)
      <3>1. Tree(Scope, Root, up)
        BY <1>1 DEF Tree
      <3>2. stop \in SUBSET Scope /\ Root \in stop
        BY <1>1
      <3>3. at \in [Scope -> V] /\ step \in [Scope -> [V -> V]]
        OBVIOUS
      <3> HIDE DEF V, stop, at, step, up
      <3> QED
        BY <3>1, <3>2, <3>3 DEF Descent
    <2> HIDE DEF V, stop, at, step, up
    <2> QED
      BY <2>1, Descends
  <1>3. PICK f \in [Scope -> V] : \A t \in Scope :
            f[t] = IF t \in stop THEN at[t] ELSE step[t][f[up[t]]]
    BY <1>2
  <1>4. \A t \in Scope : f[t] <=> (p.kind[t] = "loop" \/ (p.kind[t] = "block" /\ f[p.parent[t]]))
    <2> SUFFICES ASSUME NEW t \in Scope
                 PROVE  f[t] <=> (p.kind[t] = "loop" \/ (p.kind[t] = "block" /\ f[p.parent[t]]))
      OBVIOUS
    <2>1. f[up[t]] \in BOOLEAN /\ up[t] \in Scope
      BY <1>1, <1>3
    <2>2. step[t][f[up[t]]] = f[up[t]]
      BY <2>1
    <2>3. CASE p.kind[t] = "block"
      <3>1. t \notin stop
        BY <2>3
      <3>2. f[t] = f[up[t]]
        BY <1>3, <2>2, <3>1
      <3>3. p.kind[t] # "loop"
        BY <2>3
      <3> QED
        BY <2>3, <3>2, <3>3
    <2>4. CASE p.kind[t] # "block"
      <3>1. t \in stop /\ at[t] = (p.kind[t] = "loop")
        BY <2>4
      <3>2. f[t] = (p.kind[t] = "loop")
        BY <1>3, <3>1
      <3> QED
        BY <2>4, <3>2
    <2> QED
      BY <2>3, <2>4
  <1>5. IsInside(f)
    <2>1. \A t \in Scope :
              f[t] = (p.kind[t] = "loop" \/ (p.kind[t] = "block" /\ f[p.parent[t]]))
      <3> SUFFICES ASSUME NEW t \in Scope
                   PROVE  f[t] = (p.kind[t] = "loop" \/ (p.kind[t] = "block" /\ f[p.parent[t]]))
        OBVIOUS
      <3>1. f[t] \in BOOLEAN
        BY <1>3
      <3> QED
        BY <1>4, <3>1
    <2>2. f = [t \in Scope |-> f[t]]
      BY <1>3
    <2> QED
      BY <2>1, <2>2
  <1>6. IsInside(inside)
    <2> HIDE DEF IsInside
    <2> QED
      BY <1>5
  <1>7. inside[s]
    BY DEF InLoop
  <1> HIDE DEF inside
  <1>8. \A t \in Scope :
            inside[t] <=> (p.kind[t] = "loop" \/ (p.kind[t] = "block" /\ inside[p.parent[t]]))
    BY <1>6
  <1>9. last \in [Scope -> Seq(Command)] /\ \A t \in Scope : Segment(p, t, last[t])
    BY CodesOfScopes DEF ExitCodes, Segment
  <1>10. "function" \in kinds
    OBVIOUS
  <1> HIDE DEF last, kinds
  <1>11. \A t \in Scope : code[t] \in Seq(Command) /\ code[t] # <<>>
    BY <1>9, <1>10, WayOutLeaves
  <1>12. \A t \in Scope : code[t] = IF p.kind[t] \in kinds THEN last[t]
                                    ELSE ExitCode(p, t) \o code[p.parent[t]]
    BY <1>9, <1>10, WaysOut
  <1> HIDE DEF code
  <1> DEFINE U == {t \in Scope : inside[t] => p.kind[code[t][Len(code[t])].scope] = "loop"}
  <1>13. ASSUME NEW t \in Scope, p.kind[t] = "loop"
         PROVE  t \in U
    <2>1. code[t] = last[t]
      BY <1>12, <1>13 DEF kinds
    <2>2. code[t][Len(code[t])].scope = t
      BY <1>9, <2>1 DEF Segment
    <2> QED
      BY <1>13, <2>2
  <1>14. ASSUME NEW t \in Scope, p.kind[t] = "function"
         PROVE  t \in U
    <2>1. ~ inside[t]
      BY <1>8, <1>14
    <2> QED
      BY <2>1
  <1>15. ASSUME NEW t \in Scope, p.kind[t] = "block", p.parent[t] \in U
         PROVE  t \in U
    <2> DEFINE a == ExitCode(p, t)
               b == code[p.parent[t]]
    <2>1. code[t] = a \o b
      BY <1>12, <1>15 DEF kinds
    <2>2. a \in Seq(Command) /\ b \in Seq(Command) /\ b # <<>>
      BY <1>1, <1>11, CodesOfScopes DEF Segment
    <2>3. inside[t] => p.kind[b[Len(b)].scope] = "loop"
      BY <1>8, <1>15
    <2> HIDE DEF a, b
    <2>4. code[t][Len(code[t])] = b[Len(b)]
      BY <2>1, <2>2, LastOfBoth
    <2> QED
      BY <2>3, <2>4
  <1>16. U = Scope
    <2>1. Root \in U
      BY <1>1, <1>14
    <2>2. \A t \in Scope : p.parent[t] \in U => t \in U
      <3> HIDE DEF U
      <3> QED
        BY <1>1, <1>13, <1>14, <1>15
    <2>3. U \in SUBSET Scope
      OBVIOUS
    <2> HIDE DEF U
    <2> QED
      BY <1>1, <2>1, <2>2, <2>3
  <1>17. BreakCode(p, s) = code[s]
    BY DEF BreakCode, code, kinds, last
  <1> QED
    BY <1>7, <1>16, <1>17

(* What is left of a code when its first command has been executed.        *)
LEMMA TailExits ==
    ASSUME NEW C, NEW c \in Seq(C), c # <<>>
    PROVE  /\ Tail(c) \in Seq(C) /\ Len(Tail(c)) = Len(c) - 1 /\ Len(c) \in Nat \ {0}
           /\ \A k \in 1..(Len(c) - 1) : Tail(c)[k] = c[k + 1]
           /\ \A k \in 1..Len(c) : /\ ExitsBefore(Tail(c), k) \in Nat
                                   /\ c[1].op = "exit" =>
                                         ExitsBefore(c, k + 1) = 1 + ExitsBefore(Tail(c), k)
                                   /\ c[1].op # "exit" =>
                                         ExitsBefore(c, k + 1) = ExitsBefore(Tail(c), k)
           /\ ExitsBefore(c, 1) = 0
  <1> DEFINE h == <<c[1]>>
             t == Tail(c)
  <1>1. /\ t \in Seq(C) /\ Len(t) = Len(c) - 1 /\ Len(c) \in Nat \ {0}
        /\ \A k \in 1..(Len(c) - 1) : t[k] = c[k + 1]
    BY HeadTailProperties
  <1>2. h \in Seq(C) /\ Len(h) = 1 /\ h[1] = c[1] /\ c = h \o t
    OBVIOUS
  <1>3. /\ 1 \in Int /\ 1 <= 1 /\ 1 \in Nat \ {0} /\ 1 + 1 = 2
        /\ \A k \in 1..Len(c) : k \in Int /\ k \in 1..(Len(t) + 1) /\ Len(h) + k = k + 1
    BY <1>1, <1>2
  <1>4. ExitsBefore(c, 1) = 0 /\ ExitsBefore(h, 1) = 0
    BY <1>3, ExitsType
  <1>5. \A k \in 1..Len(c) : ExitsBefore(t, k) \in Nat
    BY <1>3, ExitsType
  <1>6. /\ h[1].op = "exit" => ExitsBefore(h, 1 + 1) = ExitsBefore(h, 1) + 1
        /\ h[1].op # "exit" => ExitsBefore(h, 1 + 1) = ExitsBefore(h, 1)
    BY <1>3, ExitsNext
  <1> HIDE DEF h, t
  <1>7. \A k \in 1..Len(c) : ExitsBefore(c, k + 1) = ExitsBefore(h, 1 + 1) + ExitsBefore(t, k)
    BY <1>1, <1>2, <1>3, ExitsOfBoth
  <1> QED
    BY <1>1, <1>2, <1>4, <1>5, <1>6, <1>7 DEF t

(* A mark is of several bits: what is left of it when another one is        *)
(* cleared.                                                                *)
LEMMA MarksApart ==
    ASSUME NEW marks \in SUBSET Nat, NEW j \in Nat, NEW r \in Nat, Mask(j) \subseteq marks
    PROVE  \/ IsConstructorExecuted(MarkConstructorNotExecuted(marks, r), j)
           \/ j = r
           \/ j > r /\ r % 8 >= 4 /\ j \div 8 = r \div 8
  <1>1. ASSUME NEW m \in Mask(j), m \notin Mask(r)
        PROVE  IsConstructorExecuted(MarkConstructorNotExecuted(marks, r), j)
    BY <1>1 DEF IsConstructorExecuted, MarkConstructorNotExecuted
  <1>2. j \in Mask(j)
    BY DEF Mask
  <1>3. CASE j < r
    <2>1. j \notin Mask(r)
      BY <1>3 DEF Mask
    <2> QED
      BY <1>1, <1>2, <2>1
  <1>4. CASE j \div 8 # r \div 8
    <2>1. j \notin Mask(r)
      BY <1>4 DEF Mask
    <2> QED
      BY <1>1, <1>2, <2>1
  <1>5. CASE j > r /\ r % 8 < 4 /\ j \div 8 = r \div 8
    <2>1. CASE j >= r + 4
      <3>1. j \notin Mask(r)
        BY <2>1 DEF Mask
      <3> QED
        BY <1>1, <1>2, <3>1
    <2>2. CASE j < r + 4
      <3>1. (r + 4) \div 8 = r \div 8
        <4>1. r = 8 * (r \div 8) + (r % 8) /\ r \div 8 \in Nat /\ r % 8 \in 0..7
          OBVIOUS
        <4> QED
          BY <1>5, <4>1
      <3>2. r + 4 \in Mask(j)
        BY <1>5, <2>2, <3>1 DEF Mask
      <3>3. r + 4 \notin Mask(r)
        BY DEF Mask
      <3> QED
        BY <1>1, <3>2, <3>3
    <2> QED
      BY <2>1, <2>2
  <1> QED
    BY <1>3, <1>4, <1>5

(* The object of an index is declared before a statement that is none if   *)
(* the objects are declared first.                                         *)
LEMMA OwnedBefore ==
    ASSUME NEW p \in Programs, NEW s \in Scope, Disciplined(p),
           NEW k \in Nat \ {0},
           k <= Len(p.body[s]) => p.body[s][k].op # "object",
           NEW j, Owned(p, s, j)
    PROVE  j < IndexAt(p, s, k)
  <1>1. PICK m \in 1..Len(p.body[s]) : Declares(p, s, m) /\ IndexAt(p, s, m) = j
    BY DEF Owned
  <1>2. Len(p.body[s]) \in Nat
    BY ProgramFacts
  <1>3. p.body[s][m].op = "object"
    BY <1>1 DEF Declares
  <1>4. ~ (k <= m)
    <2> SUFFICES ASSUME k <= m PROVE FALSE
      OBVIOUS
    <2>1. k \in 1..m /\ k <= Len(p.body[s])
      BY <1>2
    <2>2. p.body[s][k].op = "object"
      BY <1>3, <2>1 DEF Disciplined
    <2> QED
      BY <2>1, <2>2
  <1>5. m < k /\ m \in Nat \ {0} /\ k \in Nat \ {0}
    BY <1>2, <1>4
  <1> QED
    BY <1>1, <1>3, <1>5, IndexGrows

(* The object of an index is declared once.                                *)
LEMMA OwnedType ==
    ASSUME NEW p, NEW s, NEW j, Owned(p, s, j), Len(p.body[s]) \in Nat
    PROVE  j \in Nat
  <1>1. PICK m \in 1..Len(p.body[s]) : IndexAt(p, s, m) = j
    BY DEF Owned
  <1>2. m \in Int
    OBVIOUS
  <1> QED
    BY <1>1, <1>2, IndexType

-----------------------------------------------------------------------------
(* The invariant.                                                          *)
OpenScopes == [i \in 1..Len(frames) |-> frames[i].scope]

Exits == ExitsBefore(out, Len(out) + 1)

(* The scopes that are open lie in each other, and the commands on the way *)
(* out leave them, up to the jump's target.                                *)
WayInv ==
    /\ program \in Programs
    /\ frames # <<>> => Chain(program, OpenScopes)
    /\ Meets(program, out, OpenScopes) /\ LastFirst(out) /\ EndsWithExit(out)
    /\ Exits <= Len(frames)
    /\ out # <<>> /\ way = "break" => program.kind[out[Len(out)].scope] = "loop"
    /\ out # <<>> /\ way = "return" => out[Len(out)].scope = Root

(* The objects that return keeps from being destroyed.                     *)
Excepted(s, j) ==
    /\ way = "return" /\ result.scope = s
    /\ \/ j = result.index
       \/ /\ j > result.index
          /\ result.index % 8 >= 4
          /\ j \div 8 = result.index \div 8

(* Every living object is marked, and was declared before the statement    *)
(* that comes next.                                                        *)
Kept ==
    \A i \in 1..Len(frames) : \A j \in frames[i].live :
        /\ way # "return" => Mask(j) \subseteq frames[i].marks
        /\ IsConstructorExecuted(frames[i].marks, j) \/ Excepted(frames[i].scope, j)
        /\ Owned(program, frames[i].scope, j) =>
              j < IndexAt(program, frames[i].scope, frames[i].next)

(* On the way out the destructor of every living object of the scopes that *)
(* are left is still to come.                                              *)
Ahead ==
    \A e \in Nat : e < Exits =>
        \A j \in frames[Len(frames) - e].live :
            Owned(program, frames[Len(frames) - e].scope, j) =>
                \/ Excepted(frames[Len(frames) - e].scope, j)
                \/ \E l \in 1..Len(out) :
                      /\ ExitsBefore(out, l) = e
                      /\ out[l] = Destroy(frames[Len(frames) - e].scope, j)

(* Where objects are declared first, all those of the outer scopes live,   *)
(* and of the innermost one those declared so far and those to be destroyed. *)
WholeBelow ==
    \A i \in 1..(Len(frames) - 1) : \A j :
        Owned(program, frames[i].scope, j) => j \in frames[i].live

WholeTop ==
    frames # <<>> /\ way = "none" =>
        \A j : /\ Owned(program, Top.scope, j)
               /\ j < IndexAt(program, Top.scope, Top.next)
               => j \in Top.live

Alive ==
    \A k \in 1..Len(out) :
        ExitsBefore(out, k) = 0 /\ out[k].op = "destroy" => out[k].index \in Top.live

Spared ==
    /\ way = "return" =>
          \A i \in 1..Len(frames) :
              /\ frames[i].scope = result.scope
              /\ Owned(program, result.scope, result.index)
              => ~ IsConstructorExecuted(frames[i].marks, result.index)
    /\ Running /\ way # "return" => result = NoObject

Whole == Disciplined(program) => WholeBelow /\ WholeTop /\ Alive /\ Spared

IInv == TypeOK /\ WayInv /\ Kept /\ Ahead /\ Whole

-----------------------------------------------------------------------------
(* The scope on top.                                                       *)
LEMMA TopFacts ==
    ASSUME IInv, frames # <<>>
    PROVE  /\ Len(frames) \in Nat \ {0} /\ Len(frames) \in 1..Len(frames)
           /\ Top = frames[Len(frames)] /\ Top \in Frame
           /\ Top.scope \in Scope /\ Top.next \in Nat \ {0}
           /\ program \in Programs /\ program.body[Top.scope] \in Seq(Statement)
           /\ Chain(program, OpenScopes)
           /\ OpenScopes \in Seq(Scope) /\ Len(OpenScopes) = Len(frames)
           /\ \A i \in 1..Len(frames) :
                 frames[i] \in Frame /\ OpenScopes[i] = frames[i].scope
  <1>1. frames \in Seq(Frame) /\ program \in Programs
    BY DEF IInv, TypeOK, WayInv
  <1>2. Len(frames) \in Nat \ {0} /\ Len(frames) \in 1..Len(frames)
    BY <1>1
  <1>3. \A i \in 1..Len(frames) : frames[i] \in Frame /\ frames[i].scope \in Scope
    <2>1. \A i \in 1..Len(frames) : frames[i] \in Frame
      BY <1>1
    <2>2. \A f \in Frame : f.scope \in Scope
      BY DEF Frame
    <2> QED
      BY <2>1, <2>2
  <1>4. Top \in Frame /\ Top.scope \in Scope /\ Top.next \in Nat \ {0}
    BY <1>2, <1>3 DEF Top, Frame
  <1>5. program.body[Top.scope] \in Seq(Statement)
    BY <1>1, <1>4, ProgramFacts
  <1>6. OpenScopes \in Seq(Scope) /\ Len(OpenScopes) = Len(frames)
    BY <1>2, <1>3 DEF OpenScopes
  <1>7. \A i \in 1..Len(frames) : OpenScopes[i] = frames[i].scope
    BY DEF OpenScopes
  <1>8. Chain(program, OpenScopes)
    BY DEF IInv, WayInv
  <1> QED
    BY <1>1, <1>2, <1>3, <1>4, <1>5, <1>6, <1>7, <1>8 DEF Top

(* The statement that comes next.                                          *)
LEMMA CurrentFacts ==
    ASSUME IInv, AtStatement
    PROVE  /\ frames # <<>> /\ out = <<>> /\ Running /\ way = "none"
           /\ Top.next \in 1..Len(program.body[Top.scope])
           /\ Current \in Statement
  <1>1. frames # <<>> /\ out = <<>> /\ Running /\ way = "none"
    BY DEF IInv, TypeOK, AtStatement, Straight
  <1>2. program.body[Top.scope] \in Seq(Statement) /\ Top.next \in Nat \ {0}
    BY <1>1, TopFacts
  <1>3. Top.next \in 1..Len(program.body[Top.scope])
    BY <1>2 DEF AtStatement
  <1>4. Current \in Statement
    BY <1>2, <1>3 DEF Current
  <1> QED
    BY <1>1, <1>3, <1>4

(* The scope on top changes, and stays the one it is.                      *)
LEMMA Moves ==
    ASSUME IInv, frames # <<>>, NEW f \in Frame, f.scope = Top.scope,
           frames' = Replaced(f)
    PROVE  /\ frames' \in Seq(Frame) /\ frames' # <<>> /\ Len(frames') = Len(frames)
           /\ \A i \in 1..Len(frames) :
                 frames'[i] = IF i = Len(frames) THEN f ELSE frames[i]
           /\ \A i \in 1..Len(frames) : frames'[i].scope = frames[i].scope
           /\ Top' = f
           /\ OpenScopes' = OpenScopes
  <1>1. frames \in Seq(Frame) /\ Len(frames) \in Nat \ {0} /\ Top = frames[Len(frames)]
    BY TopFacts DEF IInv, TypeOK
  <1>2. /\ frames' \in Seq(Frame) /\ Len(frames') = Len(frames)
        /\ \A i \in 1..Len(frames) :
              frames'[i] = IF i = Len(frames) THEN f ELSE frames[i]
    BY <1>1 DEF Replaced
  <1>3. frames' # <<>> /\ Top' = f
    BY <1>1, <1>2 DEF Top
  <1>4. \A i \in 1..Len(frames) : frames'[i].scope = frames[i].scope
    BY <1>1, <1>2
  <1>5. OpenScopes' = OpenScopes
    BY <1>2, <1>4 DEF OpenScopes
  <1> QED
    BY <1>2, <1>3, <1>4, <1>5

LEMMA Unmoved ==
    ASSUME IInv, frames # <<>>
    PROVE  frames = Replaced(Top)
  <1>1. frames \in Seq(Frame) /\ Len(frames) \in Nat \ {0} /\ Top = frames[Len(frames)]
    BY TopFacts DEF IInv, TypeOK
  <1> QED
    BY <1>1 DEF Replaced

(* While no command is executed on a way out.                              *)
LEMMA NothingAhead ==
    ASSUME frames' \in Seq(Frame), program' \in Programs, out' = <<>>,
           frames' # <<>> => Chain(program', OpenScopes')
    PROVE  WayInv' /\ Ahead' /\ Alive'
  <1>1. Exits' = 0
    <2>1. 1 \in Int /\ 1 <= 1 /\ Len(<<>>) + 1 = 1
      OBVIOUS
    <2>2. ExitsBefore(<<>>, 1) = 0
      BY <2>1, ExitsType
    <2> QED
      BY <2>1, <2>2 DEF Exits
  <1>2. Len(frames') \in Nat /\ ~ \E k : k \in 1..Len(out')
    OBVIOUS
  <1>3. WayInv'
    BY <1>1, <1>2 DEF WayInv, Meets, LastFirst, EndsWithExit
  <1>4. Ahead'
    BY <1>1 DEF Ahead
  <1>5. Alive'
    BY <1>2 DEF Alive
  <1> QED
    BY <1>3, <1>4, <1>5

LEMMA ConstructKeeps ==
    ASSUME IInv, Construct
    PROVE  IInv'
  <1> DEFINE n == Len(frames)
             s == Top.scope
             index == IndexAt(program, s, Top.next)
             f == [Advanced EXCEPT !.marks = MarkConstructorExecuted(@, index),
                                   !.built = @ \union {index}, !.live = @ \union {index}]
  <1>1. /\ AtStatement /\ Current.op = "object" /\ frames' = Replaced(f)
        /\ UNCHANGED <<program, out, way, phase, result>>
    BY DEF Construct
  <1>2. /\ frames # <<>> /\ out = <<>> /\ Running /\ way = "none"
        /\ Top.next \in 1..Len(program.body[s])
    BY <1>1, CurrentFacts
  <1>3. /\ n \in Nat \ {0} /\ n \in 1..n /\ Top = frames[n] /\ Top \in Frame
        /\ s \in Scope /\ Top.next \in Nat \ {0} /\ program \in Programs
        /\ Chain(program, OpenScopes) /\ \A i \in 1..n : frames[i] \in Frame
    BY <1>2, TopFacts
  <1>4. index \in Nat
    <2>1. Top.next \in Int
      BY <1>3
    <2> QED
      BY <2>1, IndexType
  <1>5. Mask(index) \subseteq Nat /\ \A j \in Nat : j \in Mask(j)
    BY <1>4 DEF Mask
  <1>6. /\ f \in Frame /\ f.scope = s /\ f.next = Top.next + 1
        /\ f.marks = Top.marks \union Mask(index)
        /\ f.built = Top.built \union {index} /\ f.live = Top.live \union {index}
    <2> DEFINE t == Top
    <2>1. /\ t.next + 1 \in Nat \ {0} /\ t.marks \union Mask(index) \in SUBSET Nat
          /\ t.built \union {index} \in SUBSET Nat /\ t.live \union {index} \in SUBSET Nat
      BY <1>3, <1>4, <1>5 DEF Frame
    <2>2. Advanced = [t EXCEPT !.next = t.next + 1] /\ t \in Frame
      BY <1>3 DEF Advanced
    <2> HIDE DEF t
    <2>3. Advanced \in Frame /\ Advanced.scope = t.scope /\ Advanced.next = t.next + 1
          /\ Advanced.marks = t.marks /\ Advanced.built = t.built /\ Advanced.live = t.live
      BY <2>1, <2>2 DEF Frame
    <2> HIDE DEF index
    <2>4. /\ f \in Frame /\ f.scope = t.scope /\ f.next = t.next + 1
          /\ f.marks = t.marks \union Mask(index)
          /\ f.built = t.built \union {index} /\ f.live = t.live \union {index}
      BY <2>1, <2>3 DEF MarkConstructorExecuted, Frame
    <2> QED
      BY <2>4 DEF t
  <1>7. IndexAt(program, s, Top.next + 1) = index + 1
    BY <1>1, <1>3, IndexNext DEF Current
  <1> HIDE DEF f, index, s
  <1>8. /\ frames' \in Seq(Frame) /\ frames' # <<>> /\ Len(frames') = n
        /\ \A i \in 1..n : frames'[i] = IF i = n THEN f ELSE frames[i]
        /\ Top' = f /\ OpenScopes' = OpenScopes
    BY <1>1, <1>2, <1>6, Moves DEF s
  <1> HIDE DEF n
  <1>9. WayInv' /\ Ahead' /\ Alive'
    BY <1>1, <1>2, <1>3, <1>8, NothingAhead
  <1>10. TypeOK'
    <2>1. \A i \in 1..n : frames'[i].live \subseteq frames'[i].built
      <3>1. \A i \in 1..n : frames[i].live \subseteq frames[i].built
        BY DEF IInv, TypeOK, n
      <3> QED
        BY <1>3, <1>6, <1>8, <3>1
    <2> QED
      BY <1>1, <1>2, <1>8, <2>1 DEF IInv, TypeOK, Running
  <1>11. Kept'
    <2> SUFFICES ASSUME NEW i \in 1..n, NEW j \in frames'[i].live
                 PROVE  /\ Mask(j) \subseteq frames'[i].marks
                        /\ IsConstructorExecuted(frames'[i].marks, j)
                        /\ Owned(program, frames'[i].scope, j) =>
                              j < IndexAt(program, frames'[i].scope, frames'[i].next)
      BY <1>1, <1>8 DEF Kept
    <2>1. CASE i # n
      BY <1>2, <1>8, <2>1 DEF IInv, Kept, Excepted, n
    <2>2. CASE i = n
      <3>1. frames'[i] = f
        BY <1>8, <2>2
      <3>2. CASE j = index
        BY <1>4, <1>5, <1>6, <1>7, <3>1, <3>2 DEF IsConstructorExecuted
      <3>3. CASE j # index
        <4>1. j \in Top.live
          BY <1>6, <3>1, <3>3
        <4>2. /\ Mask(j) \subseteq Top.marks
              /\ IsConstructorExecuted(Top.marks, j)
              /\ Owned(program, s, j) => j < index
          BY <1>2, <1>3, <4>1 DEF IInv, Kept, Excepted, n, s, index
        <4>3. IsConstructorExecuted(f.marks, j) /\ Mask(j) \subseteq f.marks
          BY <1>6, <4>2 DEF IsConstructorExecuted
        <4>4. Owned(program, s, j) => j \in Nat
          <5>1. Len(program.body[s]) \in Nat
            BY <1>3, ProgramFacts
          <5> QED
            BY <5>1, OwnedType
        <4>5. Owned(program, s, j) => j < index + 1
          BY <1>4, <4>2, <4>4
        <4> QED
          BY <1>6, <1>7, <3>1, <4>3, <4>5
      <3> QED
        BY <3>2, <3>3
    <2> QED
      BY <2>1, <2>2
  <1>12. Whole'
    <2> SUFFICES ASSUME Disciplined(program)
                 PROVE  WholeBelow' /\ WholeTop' /\ Spared'
      BY <1>1, <1>9 DEF Whole
    <2>1. WholeBelow /\ WholeTop /\ Spared
      BY DEF IInv, Whole
    <2>2. WholeBelow'
      <3>1. \A i \in 1..(n - 1) : i \in 1..n /\ i # n
        BY <1>3
      <3>2. \A i \in 1..(n - 1) : frames'[i] = frames[i]
        BY <1>8, <3>1
      <3> QED
        BY <1>1, <1>8, <2>1, <3>2 DEF WholeBelow, n
    <2>3. WholeTop'
      <3> SUFFICES ASSUME NEW j, Owned(program, s, j), j < index + 1
                   PROVE  j \in f.live
        BY <1>1, <1>6, <1>7, <1>8 DEF WholeTop
      <3>1. j \in Nat
        <4>1. Len(program.body[s]) \in Nat
          BY <1>3, ProgramFacts
        <4> QED
          BY <4>1, OwnedType
      <3>2. j = index \/ j < index
        BY <1>4, <3>1
      <3> QED
        BY <1>2, <1>6, <2>1, <3>2 DEF WholeTop, s, index
    <2>4. Spared'
      BY <1>1, <1>2, <2>1 DEF Spared, Running
    <2> QED
      BY <2>2, <2>3, <2>4
  <1> QED
    BY <1>9, <1>10, <1>11, <1>12 DEF IInv

LEMMA AdvancedFacts ==
    ASSUME Top \in Frame
    PROVE  /\ Advanced \in Frame /\ Advanced.scope = Top.scope
           /\ Advanced.next = Top.next + 1 /\ Advanced.marks = Top.marks
           /\ Advanced.built = Top.built /\ Advanced.live = Top.live
  <1>1. \A t \in Frame : LET a == [t EXCEPT !.next = t.next + 1] IN
            /\ a \in Frame /\ a.scope = t.scope /\ a.next = t.next + 1
            /\ a.marks = t.marks /\ a.built = t.built /\ a.live = t.live
    BY DEF Frame
  <1>2. Advanced = [Top EXCEPT !.next = Top.next + 1]
    BY DEF Advanced
  <1> QED
    BY <1>1, <1>2

(* Past a statement that declares nothing.                                 *)
LEMMA PassKeeps ==
    ASSUME IInv, AtStatement, Current.op # "object",
           NEW i \in 1..Len(frames), NEW t \in Frame, t.scope = frames[i].scope,
           t.live = frames[i].live, t.marks = frames[i].marks,
           t.next = (IF i = Len(frames) THEN Top.next + 1 ELSE frames[i].next)
    PROVE  /\ \A j \in t.live : /\ Mask(j) \subseteq t.marks
                                /\ IsConstructorExecuted(t.marks, j)
                                /\ Owned(program, t.scope, j) =>
                                      j < IndexAt(program, t.scope, t.next)
           /\ IndexAt(program, Top.scope, Top.next + 1) =
                  IndexAt(program, Top.scope, Top.next)
  <1>1. frames # <<>> /\ way = "none"
    BY CurrentFacts
  <1>2. Top = frames[Len(frames)] /\ Top.next \in Nat \ {0}
    BY <1>1, TopFacts
  <1>3. IndexAt(program, Top.scope, Top.next + 1) = IndexAt(program, Top.scope, Top.next)
    BY <1>2, IndexNext DEF Current
  <1>4. \A j \in frames[i].live :
            /\ Mask(j) \subseteq frames[i].marks
            /\ IsConstructorExecuted(frames[i].marks, j)
            /\ Owned(program, frames[i].scope, j) =>
                  j < IndexAt(program, frames[i].scope, frames[i].next)
    BY <1>1 DEF IInv, Kept, Excepted
  <1> QED
    BY <1>2, <1>3, <1>4

LEMMA PassesKeeps ==
    ASSUME IInv, Open(NoScope)
    PROVE  IInv'
  <1> DEFINE n == Len(frames)
             f == Advanced
  <1>1. /\ AtStatement /\ Current.op = "open" /\ frames' = Replaced(f)
        /\ UNCHANGED <<program, out, way, phase, result>>
    BY DEF Open
  <1>2. frames # <<>> /\ out = <<>> /\ Running /\ way = "none"
    BY <1>1, CurrentFacts
  <1>3. /\ n \in Nat \ {0} /\ n \in 1..n /\ Top = frames[n] /\ Top \in Frame
        /\ program \in Programs /\ Chain(program, OpenScopes)
    BY <1>2, TopFacts
  <1>4. /\ f \in Frame /\ f.scope = Top.scope /\ f.next = Top.next + 1
        /\ f.marks = Top.marks /\ f.built = Top.built /\ f.live = Top.live
    BY <1>3, AdvancedFacts
  <1> HIDE DEF f
  <1>5. /\ frames' \in Seq(Frame) /\ frames' # <<>> /\ Len(frames') = n
        /\ \A i \in 1..n : frames'[i] = IF i = n THEN f ELSE frames[i]
        /\ \A i \in 1..n : frames'[i].scope = frames[i].scope
        /\ Top' = f /\ OpenScopes' = OpenScopes
    BY <1>1, <1>2, <1>4, Moves
  <1>6. IndexAt(program, Top.scope, Top.next + 1) = IndexAt(program, Top.scope, Top.next)
    <2>1. Current.op # "object"
      BY <1>1
    <2> QED
      BY <1>1, <1>3, <1>4, <2>1, PassKeeps
  <1>7. WayInv' /\ Ahead' /\ Alive'
    BY <1>1, <1>2, <1>3, <1>5, NothingAhead
  <1>8. \A i \in 1..n : frames'[i].live = frames[i].live /\ frames'[i].built = frames[i].built
    BY <1>3, <1>4, <1>5
  <1>9. TypeOK'
    <2>1. \A i \in 1..n : frames'[i].live \subseteq frames'[i].built
      BY <1>8 DEF IInv, TypeOK
    <2> QED
      BY <1>1, <1>2, <1>5, <2>1 DEF IInv, TypeOK, Running
  <1>10. Kept'
    <2> SUFFICES ASSUME NEW i \in 1..n, NEW j \in frames'[i].live
                 PROVE  /\ Mask(j) \subseteq frames'[i].marks
                        /\ IsConstructorExecuted(frames'[i].marks, j)
                        /\ Owned(program, frames'[i].scope, j) =>
                              j < IndexAt(program, frames'[i].scope, frames'[i].next)
      BY <1>1, <1>5 DEF Kept
    <2>1. /\ frames'[i] \in Frame /\ frames'[i].scope = frames[i].scope
          /\ frames'[i].live = frames[i].live /\ frames'[i].marks = frames[i].marks
          /\ frames'[i].next = IF i = n THEN Top.next + 1 ELSE frames[i].next
      BY <1>3, <1>4, <1>5
    <2>2. Current.op # "object"
      BY <1>1
    <2> HIDE DEF n
    <2> QED
      BY <1>1, <2>1, <2>2, PassKeeps DEF n
  <1>11. Whole'
    <2> SUFFICES ASSUME Disciplined(program)
                 PROVE  WholeBelow' /\ WholeTop' /\ Spared'
      BY <1>1, <1>7 DEF Whole
    <2>1. WholeBelow /\ WholeTop /\ Spared
      BY DEF IInv, Whole
    <2>2. WholeBelow'
      <3>1. \A i \in 1..(n - 1) : i \in 1..n
        BY <1>3
      <3> QED
        BY <1>1, <1>5, <1>8, <2>1, <3>1 DEF WholeBelow
    <2>3. WholeTop'
      BY <1>1, <1>2, <1>4, <1>5, <1>6, <2>1 DEF WholeTop
    <2>4. Spared'
      BY <1>1, <1>2, <2>1 DEF Spared, Running
    <2> QED
      BY <2>2, <2>3, <2>4
  <1> QED
    BY <1>7, <1>9, <1>10, <1>11 DEF IInv

LEMMA EntersKeeps ==
    ASSUME IInv, NEW s \in Scope, Open(s)
    PROVE  IInv'
  <1> DEFINE n == Len(frames)
             f == Advanced
             low == Replaced(f)
  <1>1. /\ AtStatement /\ Current.op = "open" /\ s \in Current.scopes
        /\ UNCHANGED <<program, out, way, phase, result>>
    BY DEF Open
  <1>2. s # NoScope
    BY ProgramsAssumption
  <1>3. PICK marks \in FreshMarks(ObjectCount(program, s)) : frames' = Append(low, Entered(s, marks))
    BY <1>2 DEF Open
  <1>4. /\ frames # <<>> /\ out = <<>> /\ Running /\ way = "none"
        /\ Top.next \in 1..Len(program.body[Top.scope])
    BY <1>1, CurrentFacts
  <1>5. /\ n \in Nat \ {0} /\ n \in 1..n /\ Top = frames[n] /\ Top \in Frame
        /\ program \in Programs /\ Chain(program, OpenScopes)
        /\ Top.scope \in Scope /\ program.body[Top.scope] \in Seq(Statement)
        /\ OpenScopes \in Seq(Scope) /\ Len(OpenScopes) = n
        /\ \A i \in 1..n : frames[i] \in Frame /\ OpenScopes[i] = frames[i].scope
    BY <1>4, TopFacts
  <1>6. s # Root /\ program.parent[s] = Top.scope
    BY <1>1, <1>2, <1>4, <1>5, ProgramsAssumption DEF Current
  <1>7. /\ f \in Frame /\ f.scope = Top.scope /\ f.next = Top.next + 1
        /\ f.marks = Top.marks /\ f.built = Top.built /\ f.live = Top.live
    BY <1>5, AdvancedFacts
  <1> DEFINE g == Entered(s, marks)
  <1>8. g \in Frame /\ g.scope = s /\ g.next = 1 /\ g.live = {} /\ g.built = {}
    <2>1. marks \in SUBSET Nat
      BY ProgramsAssumption DEF FreshMarks
    <2> QED
      BY <2>1 DEF Entered, Frame
  <1>9. /\ low \in Seq(Frame) /\ Len(low) = n
        /\ \A i \in 1..n : low[i] = IF i = n THEN f ELSE frames[i]
    <2>1. frames \in Seq(Frame)
      BY DEF IInv, TypeOK
    <2> HIDE DEF f
    <2> QED
      BY <1>5, <1>7, <2>1 DEF Replaced
  <1> HIDE DEF f, g, low
  <1>10. /\ frames' \in Seq(Frame) /\ Len(frames') = n + 1 /\ frames' # <<>>
         /\ \A i \in 1..n : frames'[i] = IF i = n THEN f ELSE frames[i]
         /\ frames'[n + 1] = g
    <2>1. frames' = Append(low, g)
      BY <1>3 DEF g
    <2>2. /\ frames' \in Seq(Frame) /\ Len(frames') = Len(low) + 1 /\ frames' # <<>>
          /\ \A i \in 1..Len(low) : frames'[i] = low[i]
          /\ frames'[Len(low) + 1] = g
      BY <1>8, <1>9, <2>1, AppendProperties
    <2> QED
      BY <1>9, <2>2
  <1>11. Top' = g
    BY <1>10 DEF Top
  <1> HIDE DEF n
  <1>12. \A i \in 1..n : /\ frames'[i].live = frames[i].live
                         /\ frames'[i].built = frames[i].built
                         /\ frames'[i].marks = frames[i].marks
                         /\ frames'[i].scope = frames[i].scope
                         /\ frames'[i] \in Frame
                         /\ frames'[i].next = IF i = n THEN Top.next + 1 ELSE frames[i].next
    BY <1>5, <1>7, <1>10
  <1>13. \A i \in 1..(n + 1) : i \in 1..n \/ i = n + 1
    BY <1>5
  <1>14. Chain(program, OpenScopes')
    <2>1. /\ OpenScopes' \in Seq(Scope) /\ Len(OpenScopes') = n + 1
          /\ \A i \in 1..(n + 1) : OpenScopes'[i] = frames'[i].scope
      <3>1. OpenScopes' = [i \in 1..(n + 1) |-> frames'[i].scope]
        BY <1>10 DEF OpenScopes
      <3>2. \A i \in 1..(n + 1) : frames'[i].scope \in Scope
        BY <1>8, <1>10, <1>12, <1>13 DEF Frame
      <3> QED
        BY <1>5, <3>1, <3>2
    <2>2. \A i \in 1..n : OpenScopes'[i] = OpenScopes[i]
      BY <1>5, <1>12, <1>13, <2>1
    <2>3. OpenScopes'[n + 1] = s /\ OpenScopes[n] = Top.scope
      BY <1>5, <1>8, <1>10, <2>1
    <2>4. /\ OpenScopes[1] = Root
          /\ \A i \in 1..(n - 1) : /\ OpenScopes[i + 1] # Root
                                   /\ program.parent[OpenScopes[i + 1]] = OpenScopes[i]
      BY <1>5 DEF Chain
    <2>5. OpenScopes'[1] = Root /\ n + 1 >= 1
      BY <1>5, <2>2, <2>4
    <2>6. ASSUME NEW i \in 1..((n + 1) - 1)
          PROVE  /\ OpenScopes'[i + 1] # Root
                 /\ program.parent[OpenScopes'[i + 1]] = OpenScopes'[i]
      <3>1. CASE i = n
        BY <1>5, <1>6, <2>2, <2>3, <3>1
      <3>2. CASE i # n
        <4>1. i \in 1..(n - 1) /\ i \in 1..n /\ i + 1 \in 1..n
          BY <1>5, <3>2
        <4> QED
          BY <2>2, <2>4, <4>1
      <3> QED
        BY <3>1, <3>2
    <2> QED
      BY <2>1, <2>5, <2>6 DEF Chain
  <1>15. WayInv' /\ Ahead' /\ Alive'
    BY <1>1, <1>4, <1>5, <1>10, <1>14, NothingAhead
  <1>16. TypeOK'
    <2>1. \A i \in 1..(n + 1) : frames'[i].live \subseteq frames'[i].built
      BY <1>8, <1>10, <1>12, <1>13 DEF IInv, TypeOK, n
    <2> QED
      BY <1>1, <1>4, <1>10, <2>1 DEF IInv, TypeOK, Running
  <1>17. Kept'
    <2> SUFFICES ASSUME NEW i \in 1..(n + 1), NEW j \in frames'[i].live
                 PROVE  /\ Mask(j) \subseteq frames'[i].marks
                        /\ IsConstructorExecuted(frames'[i].marks, j)
                        /\ Owned(program, frames'[i].scope, j) =>
                              j < IndexAt(program, frames'[i].scope, frames'[i].next)
      BY <1>1, <1>10 DEF Kept
    <2>1. CASE i \in 1..n
      <3>1. Current.op # "object"
        BY <1>1
      <3> QED
        BY <1>1, <1>12, <2>1, <3>1, PassKeeps DEF n
    <2>2. CASE i = n + 1
      BY <1>8, <1>10, <2>2
    <2> QED
      BY <1>13, <2>1, <2>2
  <1>18. Whole'
    <2> SUFFICES ASSUME Disciplined(program)
                 PROVE  WholeBelow' /\ WholeTop' /\ Spared'
      BY <1>1, <1>15 DEF Whole
    <2>1. WholeBelow /\ WholeTop /\ Spared
      BY DEF IInv, Whole
    <2>2. WholeBelow'
      <3> SUFFICES ASSUME NEW i \in 1..n, NEW j, Owned(program, frames[i].scope, j)
                   PROVE  j \in frames[i].live
        <4>1. \A i \in 1..((n + 1) - 1) : i \in 1..n
          BY <1>5
        <4> QED
          BY <1>1, <1>10, <1>12, <4>1 DEF WholeBelow
      <3>1. CASE i # n
        <4>1. i \in 1..(n - 1)
          BY <1>5, <3>1
        <4> QED
          BY <2>1, <4>1 DEF WholeBelow, n
      <3>2. CASE i = n
        <4>1. /\ Top.next \in Nat \ {0}
              /\ program.body[Top.scope][Top.next].op # "object"
          BY <1>1, <1>4, <1>5 DEF Current
        <4>2. j < IndexAt(program, Top.scope, Top.next)
          BY <1>5, <3>2, <4>1, OwnedBefore
        <4> QED
          BY <1>4, <1>5, <2>1, <3>2, <4>2 DEF WholeTop
      <3> QED
        BY <3>1, <3>2
    <2>3. WholeTop'
      <3> SUFFICES ASSUME NEW j, Owned(program, s, j), j < IndexAt(program, s, 1)
                   PROVE  FALSE
        BY <1>1, <1>8, <1>11 DEF WholeTop
      <3>1. IndexAt(program, s, 1) = 0
        <4>1. 1 \in Int /\ 1 <= 1
          OBVIOUS
        <4> QED
          BY <4>1, IndexType
      <3>2. j \in Nat
        <4>1. Len(program.body[s]) \in Nat
          BY <1>5, ProgramFacts
        <4> QED
          BY <4>1, OwnedType
      <3> QED
        BY <3>1, <3>2
    <2>4. Spared'
      BY <1>1, <1>4, <2>1 DEF Spared, Running
    <2> QED
      BY <2>2, <2>3, <2>4
  <1> QED
    BY <1>15, <1>16, <1>17, <1>18 DEF IInv

-----------------------------------------------------------------------------
(* The ways out.                                                           *)
LEMMA LeaveKeeps ==
    ASSUME IInv, Straight, NEW code, NEW by \in {"end", "break", "continue", "return"},
           Leave(code, by), Leaves(program, code, OpenScopes), code # <<>>,
           by = "break" => program.kind[code[Len(code)].scope] = "loop",
           by = "return" => code[Len(code)].scope = Root,
           Top.next <= Len(program.body[Top.scope]) => Current.op # "object",
           NEW f \in Frame, frames' = Replaced(f), f.scope = Top.scope, f.next = Top.next,
           f.built = Top.built, f.live = Top.live,
           by # "return" => f.marks = Top.marks /\ result' = result,
           \A j \in f.live : IsConstructorExecuted(f.marks, j) \/ Excepted(Top.scope, j)',
           result' \in Object \union {NoObject},
           Disciplined(program) /\ by = "return" => Spared'
    PROVE  IInv'
  <1> DEFINE n == Len(frames)
  <1>1. out' = code /\ way' = by /\ UNCHANGED <<program, phase>>
    BY DEF Leave
  <1>2. frames # <<>> /\ out = <<>> /\ Running /\ way = "none"
    BY DEF IInv, TypeOK, Straight
  <1>3. /\ n \in Nat \ {0} /\ n \in 1..n /\ Top = frames[n] /\ Top.scope \in Scope
        /\ Top.next \in Nat \ {0}
        /\ program \in Programs /\ Chain(program, OpenScopes) /\ Len(OpenScopes) = n
        /\ \A i \in 1..n : frames[i] \in Frame /\ OpenScopes[i] = frames[i].scope
    BY <1>2, TopFacts
  <1>4. /\ frames' \in Seq(Frame) /\ frames' # <<>> /\ Len(frames') = n
        /\ \A i \in 1..n : frames'[i] = IF i = n THEN f ELSE frames[i]
        /\ \A i \in 1..n : frames'[i].scope = frames[i].scope
        /\ Top' = f /\ OpenScopes' = OpenScopes
    BY <1>2, Moves
  <1> HIDE DEF n
  <1>5. \A i \in 1..n : /\ frames'[i].live = frames[i].live
                        /\ frames'[i].built = frames[i].built
                        /\ frames'[i].next = frames[i].next
    BY <1>3, <1>4
  <1>6. /\ code \in Seq(Command) /\ Meets(program, code, OpenScopes)
        /\ Covers(program, code, OpenScopes) /\ LastFirst(code) /\ EndsWithExit(code)
    BY DEF Leaves
  <1>7. Exits' = ExitsBefore(code, Len(code) + 1) /\ Exits' <= n
    BY <1>1, <1>3, <1>6 DEF Exits, Covers
  <1>8. WayInv'
    BY <1>1, <1>3, <1>4, <1>6, <1>7 DEF WayInv
  <1>9. TypeOK'
    <2>1. \A i \in 1..n : frames'[i].live \subseteq frames'[i].built
      BY <1>5 DEF IInv, TypeOK, n
    <2> QED
      BY <1>1, <1>2, <1>4, <1>6, <2>1 DEF IInv, TypeOK, Running
  <1>10. Kept'
    <2> SUFFICES ASSUME NEW i \in 1..n, NEW j \in frames'[i].live
                 PROVE  /\ by # "return" => Mask(j) \subseteq frames'[i].marks
                        /\ \/ IsConstructorExecuted(frames'[i].marks, j)
                           \/ Excepted(frames[i].scope, j)'
                        /\ Owned(program, frames'[i].scope, j) =>
                              j < IndexAt(program, frames'[i].scope, frames'[i].next)
      BY <1>1, <1>4 DEF Kept
    <2>1. /\ Mask(j) \subseteq frames[i].marks
          /\ IsConstructorExecuted(frames[i].marks, j)
          /\ Owned(program, frames[i].scope, j) =>
                j < IndexAt(program, frames[i].scope, frames[i].next)
      BY <1>2, <1>5 DEF IInv, Kept, Excepted, n
    <2>2. CASE i # n
      BY <1>4, <2>1, <2>2
    <2>3. CASE i = n
      <3>1. /\ frames'[i] = f /\ frames[i] = Top
            /\ frames'[i].scope = Top'.scope
        BY <1>3, <1>4, <2>3
      <3>2. Excepted(Top.scope, j)' <=> Excepted(frames[i].scope, j)'
        BY <3>1 DEF Excepted
      <3>3. IsConstructorExecuted(f.marks, j) \/ Excepted(Top.scope, j)'
        BY <3>1
      <3> QED
        BY <2>1, <3>1, <3>2, <3>3
    <2> QED
      BY <2>2, <2>3
  <1>11. Ahead'
    <2> SUFFICES ASSUME NEW e \in Nat, e < Exits', NEW j \in frames'[n - e].live,
                        Owned(program, frames'[n - e].scope, j)
                 PROVE  \E l \in 1..Len(code) :
                            ExitsBefore(code, l) = e /\ code[l] = Destroy(frames'[n - e].scope, j)
      BY <1>1, <1>4 DEF Ahead
    <2>1. n - e \in 1..n
      <3>1. e < n
        <4>1. Exits' \in Nat
          <5>1. Len(code) + 1 \in Int
            BY <1>6
          <5> QED
            BY <1>7, <5>1, ExitsType
        <4> QED
          BY <1>3, <1>7, <4>1
      <3> QED
        BY <1>3, <3>1
    <2>2. OpenScopes[n - e] = frames'[n - e].scope
      BY <1>3, <1>4, <2>1
    <2>3. e < ExitsBefore(code, Len(code) + 1) /\ Owned(program, OpenScopes[n - e], j)
      BY <1>7, <2>2
    <2>4. \A d \in Nat : d < ExitsBefore(code, Len(code) + 1) =>
              \A k : Owned(program, OpenScopes[Len(OpenScopes) - d], k) =>
                  \E l \in 1..Len(code) :
                      /\ ExitsBefore(code, l) = d
                      /\ code[l] = Destroy(OpenScopes[Len(OpenScopes) - d], k)
      BY <1>6 DEF Covers
    <2>5. OpenScopes[Len(OpenScopes) - e] = frames'[n - e].scope
      BY <1>3, <2>2
    <2> QED
      BY <2>3, <2>4, <2>5
  <1>12. Whole'
    <2> SUFFICES ASSUME Disciplined(program)
                 PROVE  WholeBelow' /\ WholeTop' /\ Alive' /\ Spared'
      BY <1>1 DEF Whole
    <2>1. WholeBelow /\ WholeTop /\ Spared
      BY DEF IInv, Whole
    <2>2. WholeBelow'
      <3>1. \A i \in 1..(n - 1) : i \in 1..n
        BY <1>3
      <3> QED
        BY <1>1, <1>4, <1>5, <2>1, <3>1 DEF WholeBelow, n
    <2>3. WholeTop'
      BY <1>1 DEF WholeTop
    <2>4. Alive'
      <3> SUFFICES ASSUME NEW k \in 1..Len(code), ExitsBefore(code, k) = 0,
                          code[k].op = "destroy"
                   PROVE  code[k].index \in Top.live
        BY <1>1, <1>4 DEF Alive
      <3>1. /\ code[k].scope = OpenScopes[n - 0]
            /\ Owned(program, code[k].scope, code[k].index)
        BY <1>3, <1>6 DEF Meets
      <3>2. code[k].scope = Top.scope
        <4>1. n - 0 = n
          BY <1>3
        <4> QED
          BY <1>3, <3>1, <4>1
      <3>3. Top.next <= Len(program.body[Top.scope]) =>
                program.body[Top.scope][Top.next].op # "object"
        BY DEF Current
      <3>4. code[k].index < IndexAt(program, Top.scope, Top.next)
        BY <1>3, <3>1, <3>2, <3>3, OwnedBefore
      <3> QED
        BY <1>2, <2>1, <3>1, <3>2, <3>4 DEF WholeTop
    <2>5. Spared'
      BY <1>1, <1>2, <2>1 DEF Spared, Running
    <2> QED
      BY <2>2, <2>3, <2>4, <2>5
  <1> QED
    BY <1>8, <1>9, <1>10, <1>11, <1>12 DEF IInv

(* The marks of living objects when a way out that is no return begins.    *)
LEMMA LeavesMarked ==
    ASSUME IInv, Straight
    PROVE  /\ \A j \in Top.live : Mask(j) \subseteq Top.marks /\ IsConstructorExecuted(Top.marks, j)
           /\ Top \in Frame /\ frames # <<>> /\ frames = Replaced(Top)
           /\ result \in Object \union {NoObject}
           /\ program \in Programs /\ Top.scope \in Scope
           /\ Chain(program, OpenScopes) /\ OpenScopes[Len(OpenScopes)] = Top.scope
           /\ Top.next \in Nat \ {0} /\ Len(program.body[Top.scope]) \in Nat
  <1>1. frames # <<>> /\ way = "none" /\ result \in Object \union {NoObject}
    BY DEF IInv, TypeOK, Straight
  <1>2. /\ Len(frames) \in 1..Len(frames) /\ Top = frames[Len(frames)] /\ Top \in Frame
        /\ program \in Programs /\ Top.scope \in Scope /\ Top.next \in Nat \ {0}
        /\ Chain(program, OpenScopes) /\ Len(OpenScopes) = Len(frames)
        /\ OpenScopes[Len(frames)] = Top.scope
        /\ Len(program.body[Top.scope]) \in Nat
    BY <1>1, TopFacts
  <1>3. \A j \in Top.live : Mask(j) \subseteq Top.marks /\ IsConstructorExecuted(Top.marks, j)
    BY <1>1, <1>2 DEF IInv, Kept, Excepted
  <1> QED
    BY <1>1, <1>2, <1>3, Unmoved

LEMMA EndOfScopeKeeps ==
    ASSUME IInv, EndOfScope
    PROVE  IInv'
  <1> DEFINE code == EndCode(program, Top.scope)
  <1>1. /\ Straight /\ Leave(code, "end") /\ frames' = frames /\ result' = result
        /\ Top.next > Len(program.body[Top.scope])
    BY DEF EndOfScope
  <1>2. /\ \A j \in Top.live : IsConstructorExecuted(Top.marks, j)
        /\ Top \in Frame /\ frames' = Replaced(Top) /\ result' \in Object \union {NoObject}
        /\ program \in Programs /\ Top.scope \in Scope
        /\ Chain(program, OpenScopes) /\ OpenScopes[Len(OpenScopes)] = Top.scope
        /\ Top.next \in Nat \ {0} /\ Len(program.body[Top.scope]) \in Nat
    BY <1>1, LeavesMarked
  <1>3. Segment(program, Top.scope, code)
    BY <1>2, CodesOfScopes
  <1>4. Leaves(program, code, OpenScopes)
    <2>1. OpenScopes \in Seq(Scope) /\ Len(OpenScopes) >= 1
      BY <1>2 DEF Chain
    <2> QED
      BY <1>2, <1>3, <2>1, SegmentLeaves
  <1>5. code # <<>>
    BY <1>3 DEF Segment
  <1> HIDE DEF code
  <1>6. ~ (Top.next <= Len(program.body[Top.scope]))
    BY <1>1, <1>2
  <1> QED
    BY <1>1, <1>2, <1>4, <1>5, <1>6, LeaveKeeps

(* The codes of break, continue and return leave the open scopes.          *)
LEMMA JumpCodes ==
    ASSUME NEW p \in Programs, NEW s \in Scope,
           NEW open, Chain(p, open), open[Len(open)] = s
    PROVE  /\ BreakCode(p, s) # <<>> /\ Leaves(p, BreakCode(p, s), open)
           /\ ContinueCode(p, s) # <<>> /\ Leaves(p, ContinueCode(p, s), open)
           /\ ReturnCode(p, s) # <<>> /\ Leaves(p, ReturnCode(p, s), open)
           /\ LET c == ReturnCode(p, s) IN c[Len(c)].scope = Root
  <1> DEFINE ends == EndCodes(p)
             exits == ExitCodes(p)
             inner == {"loop", "function"}
             outer == {"function"}
  <1>1. /\ ends \in [Scope -> Seq(Command)] /\ \A t \in Scope : Segment(p, t, ends[t])
        /\ exits \in [Scope -> Seq(Command)] /\ \A t \in Scope : Segment(p, t, exits[t])
    <2>1. \A t \in Scope : /\ Segment(p, t, EndCode(p, t)) /\ EndCode(p, t) \in Seq(Command)
                           /\ Segment(p, t, ExitCode(p, t)) /\ ExitCode(p, t) \in Seq(Command)
      BY CodesOfScopes DEF Segment
    <2> QED
      BY <2>1 DEF EndCodes, ExitCodes
  <1>2. "function" \in inner /\ "function" \in outer
    OBVIOUS
  <1>3. /\ BreakCode(p, s) = WayOut(p, inner, exits)[s]
        /\ ContinueCode(p, s) = WayOut(p, inner, ends)[s]
        /\ ReturnCode(p, s) = WayOut(p, outer, exits)[s]
    BY DEF BreakCode, ContinueCode, ReturnCode
  <1> HIDE DEF ends, exits, inner
  <1>4. BreakCode(p, s) # <<>> /\ Leaves(p, BreakCode(p, s), open)
    BY <1>1, <1>2, <1>3, WayOutLeaves
  <1>5. ContinueCode(p, s) # <<>> /\ Leaves(p, ContinueCode(p, s), open)
    BY <1>1, <1>2, <1>3, WayOutLeaves
  <1> DEFINE c == ReturnCode(p, s)
  <1> HIDE DEF outer, c
  <1>6. c # <<>> /\ Leaves(p, c, open) /\ p.kind[c[Len(c)].scope] \in outer
    BY <1>1, <1>2, <1>3, WayOutLeaves DEF c
  <1>7. c[Len(c)].scope \in Scope
    <2>1. c \in Seq(Command) /\ Len(c) \in 1..Len(c)
      BY <1>6 DEF Leaves
    <2>2. \A x \in Command : x.scope \in Scope
      BY DEF Command
    <2>3. c[Len(c)] \in Command
      BY <2>1
    <2> QED
      BY <2>2, <2>3
  <1>8. c[Len(c)].scope = Root
    BY <1>6, <1>7, ProgramFacts DEF outer
  <1> QED
    BY <1>4, <1>5, <1>6, <1>8 DEF c

LEMMA BreakKeeps ==
    ASSUME IInv, Break
    PROVE  IInv'
  <1> DEFINE code == BreakCode(program, Top.scope)
  <1>1. /\ AtStatement /\ Straight /\ Current.op # "object" /\ InLoop(program, Top.scope)
        /\ Leave(code, "break") /\ frames' = frames /\ result' = result
    BY DEF Break, AtStatement
  <1>2. /\ \A j \in Top.live : IsConstructorExecuted(Top.marks, j)
        /\ Top \in Frame /\ frames' = Replaced(Top) /\ result' \in Object \union {NoObject}
        /\ program \in Programs /\ Top.scope \in Scope
        /\ Chain(program, OpenScopes) /\ OpenScopes[Len(OpenScopes)] = Top.scope
    BY <1>1, LeavesMarked
  <1>3. code # <<>> /\ Leaves(program, code, OpenScopes)
    BY <1>2, JumpCodes
  <1>4. program.kind[code[Len(code)].scope] = "loop"
    BY <1>1, <1>2, BreakTarget
  <1> HIDE DEF code
  <1> QED
    BY <1>1, <1>2, <1>3, <1>4, LeaveKeeps

LEMMA ContinueKeeps ==
    ASSUME IInv, Continue
    PROVE  IInv'
  <1> DEFINE code == ContinueCode(program, Top.scope)
  <1>1. /\ AtStatement /\ Straight /\ Current.op # "object"
        /\ Leave(code, "continue") /\ frames' = frames /\ result' = result
    BY DEF Continue, AtStatement
  <1>2. /\ \A j \in Top.live : IsConstructorExecuted(Top.marks, j)
        /\ Top \in Frame /\ frames' = Replaced(Top) /\ result' \in Object \union {NoObject}
        /\ program \in Programs /\ Top.scope \in Scope
        /\ Chain(program, OpenScopes) /\ OpenScopes[Len(OpenScopes)] = Top.scope
    BY <1>1, LeavesMarked
  <1>3. code # <<>> /\ Leaves(program, code, OpenScopes)
    BY <1>2, JumpCodes
  <1> HIDE DEF code
  <1> QED
    BY <1>1, <1>2, <1>3, LeaveKeeps

LEMMA ReturnKeeps ==
    ASSUME IInv, Return
    PROVE  IInv'
  <1> DEFINE n == Len(frames)
             s == Top.scope
             code == ReturnCode(program, s)
             of == Current.of
             r == of.index
             cleared == [Top EXCEPT !.marks = MarkConstructorNotExecuted(@, r)]
             spare == Excluded(program, s, Top.next, of)
             f == IF spare THEN cleared ELSE Top
  <1>1. /\ AtStatement /\ Straight /\ Current.op = "return"
        /\ Leave(code, "return") /\ result' = of
        /\ frames' = IF spare THEN Replaced(cleared) ELSE frames
    BY DEF Return, AtStatement
  <1>2. /\ \A j \in Top.live : /\ Mask(j) \subseteq Top.marks
                               /\ IsConstructorExecuted(Top.marks, j)
        /\ Top \in Frame /\ frames # <<>> /\ frames = Replaced(Top)
        /\ program \in Programs /\ s \in Scope /\ Top.next \in Nat \ {0}
        /\ Chain(program, OpenScopes) /\ OpenScopes[Len(OpenScopes)] = s
    BY <1>1, LeavesMarked
  <1>3. /\ code # <<>> /\ Leaves(program, code, OpenScopes)
        /\ code[Len(code)].scope = Root
    BY <1>2, JumpCodes
  <1>4. of \in Object \union {NoObject} /\ r \in Nat
    <2>1. Current \in Statement
      BY <1>1, CurrentFacts
    <2>2. of \in Object \union {NoObject}
      BY <1>1, <2>1 DEF Statement
    <2> QED
      BY <2>2 DEF Object, NoObject
  <1>5. /\ cleared \in Frame /\ cleared.scope = s /\ cleared.next = Top.next
        /\ cleared.built = Top.built /\ cleared.live = Top.live
        /\ cleared.marks = MarkConstructorNotExecuted(Top.marks, r)
    <2>1. MarkConstructorNotExecuted(Top.marks, r) \in SUBSET Nat
      BY <1>2 DEF MarkConstructorNotExecuted, Frame
    <2>2. cleared = [Top EXCEPT !.marks = MarkConstructorNotExecuted(Top.marks, r)]
      OBVIOUS
    <2>3. \A t \in Frame : \A m \in SUBSET Nat : LET c == [t EXCEPT !.marks = m] IN
              /\ c \in Frame /\ c.scope = t.scope /\ c.next = t.next
              /\ c.built = t.built /\ c.live = t.live /\ c.marks = m
      BY DEF Frame
    <2> HIDE DEF cleared
    <2> QED
      BY <1>2, <2>1, <2>2, <2>3
  <1> HIDE DEF code, of, cleared, spare, s
  <1>6. /\ f \in Frame /\ frames' = Replaced(f) /\ f.scope = s /\ f.next = Top.next
        /\ f.built = Top.built /\ f.live = Top.live
    <2>1. CASE spare
      BY <1>1, <1>5, <2>1
    <2>2. CASE ~ spare
      BY <1>1, <1>2, <2>2 DEF s
    <2> QED
      BY <2>1, <2>2
  <1>7. /\ Len(frames') = n /\ Top' = f
        /\ \A i \in 1..n : frames'[i] = IF i = n THEN f ELSE frames[i]
        /\ \A i \in 1..n : frames'[i].scope = frames[i].scope
    <2> HIDE DEF f
    <2> QED
      BY <1>2, <1>6, Moves DEF s
  <1>8. way' = "return" /\ program' = program /\ phase' = phase
    BY <1>1 DEF Leave
  <1>9. ASSUME NEW j \in f.live
        PROVE  IsConstructorExecuted(f.marks, j) \/ Excepted(Top.scope, j)'
    <2>1. j \in Top.live /\ j \in Nat
      BY <1>2, <1>6, <1>9 DEF Frame
    <2>2. CASE ~ spare
      BY <1>2, <2>1, <2>2
    <2>3. CASE spare
      <3>1. of.scope = s
        BY <2>3 DEF spare, Excluded
      <3>2. Mask(j) \subseteq Top.marks /\ Top.marks \in SUBSET Nat
        BY <1>2, <2>1 DEF Frame
      <3>3. \/ IsConstructorExecuted(MarkConstructorNotExecuted(Top.marks, r), j)
            \/ j = r
            \/ j > r /\ r % 8 >= 4 /\ j \div 8 = r \div 8
        BY <1>4, <2>1, <3>2, MarksApart
      <3>4. f.marks = MarkConstructorNotExecuted(Top.marks, r)
        BY <1>5, <2>3
      <3>5. Top'.scope = s
        BY <1>6, <1>7
      <3> HIDE DEF f
      <3>6. CASE j = r \/ (j > r /\ r % 8 >= 4 /\ j \div 8 = r \div 8)
        BY <1>1, <1>8, <3>1, <3>5, <3>6 DEF Excepted
      <3> QED
        BY <3>3, <3>4, <3>6
    <2> QED
      BY <2>2, <2>3
  <1>10. ASSUME Disciplined(program)
         PROVE  Spared'
    <2> SUFFICES ASSUME NEW i \in 1..n, frames[i].scope = of.scope,
                        Owned(program, of.scope, r)
                 PROVE  ~ IsConstructorExecuted(frames'[i].marks, r)
      BY <1>1, <1>7, <1>8 DEF Spared
    <2>1. /\ \A h \in 1..n : frames[h] \in Frame /\ OpenScopes[h] = frames[h].scope
          /\ n \in 1..n /\ n \in Nat /\ frames[n].scope = s /\ Len(OpenScopes) = n
      BY <1>2, TopFacts DEF s
    <2>2. of.scope = s
      <3>1. of.scope \in {s, NoScope}
        <4>1. /\ program.body[s][Top.next].op = "return"
              /\ program.body[s][Top.next].of = of
              /\ Top.next \in 1..Len(program.body[s])
          BY <1>1, CurrentFacts DEF Current, of, s
        <4> QED
          BY <1>2, <1>10, <4>1 DEF Disciplined
      <3>2. frames[i].scope \in Scope
        BY <2>1 DEF Frame
      <3> QED
        BY <3>1, <3>2, ProgramsAssumption
    <2>3. i = n
      <3>1. ~ (i < n)
        BY <1>2, <2>1, <2>2, ChainDistinct
      <3> QED
        BY <2>1, <3>1
    <2>4. r < IndexAt(program, s, Top.next)
      <3>1. program.body[s][Top.next].op # "object"
        BY <1>1 DEF Current, s
      <3> QED
        BY <1>2, <1>10, <2>2, <3>1, OwnedBefore
    <2>5. spare
      BY <2>2, <2>4 DEF spare, Excluded
    <2>6. frames'[i].marks = MarkConstructorNotExecuted(Top.marks, r)
      BY <1>5, <1>7, <2>3, <2>5
    <2> QED
      BY <2>6 DEF IsConstructorExecuted, MarkConstructorNotExecuted
  <1>11. Current.op # "object"
    BY <1>1
  <1> HIDE DEF f
  <1> QED
    BY <1>1, <1>3, <1>4, <1>6, <1>9, <1>10, <1>11, LeaveKeeps DEF s

-----------------------------------------------------------------------------
(* The commands on the way out.                                            *)

(* The command that comes next belongs to the scope on top, and the last   *)
(* one is an exit.                                                         *)
LEMMA OutFacts ==
    ASSUME IInv, Running, out # <<>>
    PROVE  /\ frames # <<>> /\ way # "none"
           /\ out \in Seq(Command) /\ out[1] \in Command /\ Head(out) = out[1]
           /\ Len(out) \in Nat \ {0} /\ \A k \in 1..Len(out) : out[k] \in Command
           /\ out[1].scope = Top.scope
           /\ out[1].op = "destroy" =>
                 /\ out[1] = Destroy(Top.scope, out[1].index)
                 /\ Owned(program, Top.scope, out[1].index)
           /\ out[Len(out)].op = "exit"
           /\ Exits \in Nat \ {0} /\ Exits <= Len(frames)
  <1>1. frames # <<>> /\ way # "none" /\ out \in Seq(Command)
    BY DEF IInv, TypeOK
  <1>2. /\ Len(out) \in Nat \ {0} /\ \A k \in 1..Len(out) : out[k] \in Command
        /\ Head(out) = out[1] /\ 1 \in 1..Len(out)
    BY <1>1
  <1>3. ExitsBefore(out, 1) = 0
    <2>1. 1 \in Int /\ 1 <= 1
      OBVIOUS
    <2> QED
      BY <2>1, ExitsType
  <1>4. /\ Len(frames) \in Nat \ {0} /\ Len(OpenScopes) = Len(frames)
        /\ OpenScopes[Len(frames)] = Top.scope /\ Len(frames) - 0 = Len(frames)
    BY <1>1, TopFacts
  <1>5. /\ out[1].scope = OpenScopes[Len(OpenScopes) - 0]
        /\ out[1].op = "destroy" => Owned(program, out[1].scope, out[1].index)
    BY <1>2, <1>3 DEF IInv, WayInv, Meets
  <1>6. out[1].scope = Top.scope
    BY <1>4, <1>5
  <1>7. out[1].op = "destroy" => out[1] = Destroy(Top.scope, out[1].index)
    <2>1. \A x \in Command : x.op = "destroy" => x = Destroy(x.scope, x.index)
      BY DEF Command, Destroy
    <2> QED
      BY <1>2, <1>6, <2>1
  <1>8. out[Len(out)].op = "exit"
    BY DEF IInv, WayInv, EndsWithExit
  <1>9. Exits = ExitsBefore(out, Len(out)) + 1
    BY <1>2, <1>8, ExitsNext DEF Exits
  <1>10. ExitsBefore(out, Len(out)) \in Nat
    <2>1. Len(out) \in Int
      BY <1>2
    <2> QED
      BY <2>1, ExitsType
  <1>11. Exits <= Len(frames)
    BY DEF IInv, WayInv
  <1> QED
    BY <1>1, <1>2, <1>5, <1>6, <1>7, <1>8, <1>9, <1>10, <1>11

(* A command is executed that is no exit.                                  *)
LEMMA TailKeeps ==
    ASSUME IInv, Running, out # <<>>, out[1].op # "exit", out' = Tail(out),
           UNCHANGED <<program, way, phase, result>>,
           NEW f \in Frame, frames' = Replaced(f), f.scope = Top.scope, f.next = Top.next,
           f.marks = Top.marks, f.built = Top.built, f.live \subseteq Top.live,
           \A j \in Top.live : j \in f.live \/ out[1] = Destroy(Top.scope, j),
           \A j \in f.live : out[1] = Destroy(Top.scope, j) => Excepted(Top.scope, j)
    PROVE  IInv'
  <1> DEFINE n == Len(frames)
             m == Len(out)
  <1>1. /\ frames # <<>> /\ way # "none" /\ m \in Nat \ {0}
        /\ \A k \in 1..m : out[k] \in Command
        /\ out[m].op = "exit" /\ Exits \in Nat \ {0} /\ Exits <= n
    BY OutFacts
  <1>2. /\ n \in Nat \ {0} /\ n \in 1..n /\ Top = frames[n] /\ Top.scope \in Scope
        /\ program \in Programs /\ Chain(program, OpenScopes) /\ Len(OpenScopes) = n
        /\ \A i \in 1..n : frames[i] \in Frame /\ OpenScopes[i] = frames[i].scope
    BY <1>1, TopFacts
  <1>3. /\ frames' \in Seq(Frame) /\ frames' # <<>> /\ Len(frames') = n
        /\ \A i \in 1..n : frames'[i] = IF i = n THEN f ELSE frames[i]
        /\ \A i \in 1..n : frames'[i].scope = frames[i].scope
        /\ Top' = f /\ OpenScopes' = OpenScopes
    BY <1>1, Moves
  <1>4. /\ out' \in Seq(Command) /\ Len(out') = m - 1
        /\ \A k \in 1..(m - 1) : out'[k] = out[k + 1]
        /\ \A k \in 1..m : ExitsBefore(out', k) = ExitsBefore(out, k + 1)
        /\ ExitsBefore(out, 1) = 0
    <2>1. out \in Seq(Command)
      BY DEF IInv, TypeOK
    <2> QED
      BY <2>1, TailExits
  <1> HIDE DEF n, m
  <1>5. m # 1 /\ m - 1 \in 1..(m - 1) /\ (m - 1) + 1 = m /\ m \in 1..m
    BY <1>1
  <1>6. out' # <<>> /\ out'[m - 1] = out[m]
    BY <1>4, <1>5
  <1>7. Exits' = Exits
    BY <1>4, <1>5 DEF Exits, m
  <1>8. \A k \in 1..(m - 1) : k + 1 \in 1..m /\ k \in 1..m
    BY <1>1
  <1>9. \A i \in 1..n : /\ frames'[i].live \subseteq frames[i].live
                        /\ frames'[i].built = frames[i].built
                        /\ frames'[i].marks = frames[i].marks
                        /\ frames'[i].next = frames[i].next
    BY <1>2, <1>3
  <1>11. WayInv'
    <2>1. Meets(program, out', OpenScopes)
      <3> SUFFICES ASSUME NEW k \in 1..(m - 1)
                   PROVE  /\ ExitsBefore(out', k) < n
                          /\ out'[k].scope = OpenScopes[n - ExitsBefore(out', k)]
                          /\ out'[k].op = "destroy" =>
                                Owned(program, out'[k].scope, out'[k].index)
        BY <1>2, <1>4 DEF Meets
      <3>1. Meets(program, out, OpenScopes)
        BY DEF IInv, WayInv
      <3> QED
        BY <1>2, <1>4, <1>8, <3>1 DEF Meets, m
    <2>2. LastFirst(out')
      <3> SUFFICES ASSUME NEW k \in 1..(m - 1), NEW l \in 1..(m - 1), k < l,
                          ExitsBefore(out', k) = ExitsBefore(out', l),
                          out'[l].op = "destroy"
                   PROVE  out'[k].op = "destroy" /\ out'[k].index > out'[l].index
        BY <1>4 DEF LastFirst
      <3>1. k + 1 \in 1..m /\ l + 1 \in 1..m /\ k + 1 < l + 1 /\ k \in 1..m /\ l \in 1..m
        BY <1>8
      <3>2. LastFirst(out)
        BY DEF IInv, WayInv
      <3> QED
        BY <1>4, <3>1, <3>2 DEF LastFirst, m
    <2>3. EndsWithExit(out')
      BY <1>1, <1>4, <1>6 DEF EndsWithExit
    <2>4. /\ way = "break" => program.kind[out'[Len(out')].scope] = "loop"
          /\ way = "return" => out'[Len(out')].scope = Root
      BY <1>4, <1>6 DEF IInv, WayInv, m
    <2> QED
      BY <1>1, <1>2, <1>3, <1>7, <2>1, <2>2, <2>3, <2>4 DEF WayInv
  <1>12. TypeOK'
    <2>1. \A i \in 1..n : frames[i].live \subseteq frames[i].built
      BY DEF IInv, TypeOK, n
    <2>2. \A i \in 1..n : frames'[i].live \subseteq frames'[i].built
      BY <1>9, <2>1
    <2> QED
      BY <1>1, <1>3, <1>4, <1>6, <2>2 DEF IInv, TypeOK, Running
  <1>13. Kept'
    <2> SUFFICES ASSUME NEW i \in 1..n, NEW j \in frames'[i].live
                 PROVE  /\ way # "return" => Mask(j) \subseteq frames'[i].marks
                        /\ \/ IsConstructorExecuted(frames'[i].marks, j)
                           \/ Excepted(frames[i].scope, j)'
                        /\ Owned(program, frames'[i].scope, j) =>
                              j < IndexAt(program, frames'[i].scope, frames'[i].next)
      BY <1>3 DEF Kept
    <2>1. j \in frames[i].live
      BY <1>9
    <2>2. /\ way # "return" => Mask(j) \subseteq frames[i].marks
          /\ IsConstructorExecuted(frames[i].marks, j) \/ Excepted(frames[i].scope, j)
          /\ Owned(program, frames[i].scope, j) =>
                j < IndexAt(program, frames[i].scope, frames[i].next)
      BY <2>1 DEF IInv, Kept, n
    <2>3. Excepted(frames[i].scope, j) => Excepted(frames[i].scope, j)'
      BY <1>3 DEF Excepted
    <2> QED
      BY <1>3, <1>9, <2>2, <2>3
  <1>14. Ahead'
    <2> SUFFICES ASSUME NEW e \in Nat, e < Exits, NEW j \in frames'[n - e].live,
                        Owned(program, frames'[n - e].scope, j)
                 PROVE  \/ Excepted(frames[n - e].scope, j)
                        \/ \E l \in 1..(m - 1) :
                              /\ ExitsBefore(out', l) = e
                              /\ out'[l] = Destroy(frames'[n - e].scope, j)
      <3>1. \A e \in Nat : e < Exits => frames'[n - e].scope = frames[n - e].scope
        <4>1. \A e \in Nat : e < Exits => n - e \in 1..n
          BY <1>1, <1>2
        <4> QED
          BY <1>3, <4>1
      <3> QED
        BY <1>3, <1>4, <1>7, <3>1 DEF Ahead, Excepted
    <2>1. n - e \in 1..n
      BY <1>1, <1>2
    <2>2. j \in frames[n - e].live /\ frames'[n - e].scope = frames[n - e].scope
      BY <1>3, <1>9, <2>1
    <2>3. \/ Excepted(frames[n - e].scope, j)
          \/ \E l \in 1..m : /\ ExitsBefore(out, l) = e
                             /\ out[l] = Destroy(frames[n - e].scope, j)
      BY <2>2 DEF IInv, Ahead, n, m
    <2>5. ASSUME NEW l \in 1..m, ExitsBefore(out, l) = e,
                 out[l] = Destroy(frames[n - e].scope, j), l # 1
          PROVE  \E h \in 1..(m - 1) : /\ ExitsBefore(out', h) = e
                                       /\ out'[h] = Destroy(frames'[n - e].scope, j)
      <3>1. l - 1 \in 1..(m - 1) /\ (l - 1) + 1 = l
        BY <1>1, <2>5
      <3>2. ExitsBefore(out', l - 1) = e /\ out'[l - 1] = out[l]
        BY <1>4, <1>8, <2>5, <3>1
      <3> QED
        BY <2>2, <2>5, <3>1, <3>2
    <2>6. ASSUME ExitsBefore(out, 1) = e, out[1] = Destroy(frames[n - e].scope, j)
          PROVE  Excepted(frames[n - e].scope, j)
      <3>1. n - e = n
        BY <1>2, <1>4, <2>6
      <3>2. frames'[n - e] = f /\ frames[n - e] = Top
        BY <1>2, <1>3, <3>1
      <3> QED
        BY <2>6, <3>2
    <2> QED
      BY <2>3, <2>5, <2>6
  <1>15. Whole'
    <2> SUFFICES ASSUME Disciplined(program)
                 PROVE  WholeBelow' /\ WholeTop' /\ Alive' /\ Spared'
      BY DEF Whole
    <2>1. WholeBelow /\ Alive /\ Spared
      BY DEF IInv, Whole
    <2>2. WholeBelow'
      <3>1. \A i \in 1..(n - 1) : i \in 1..n /\ i # n
        BY <1>2
      <3> QED
        BY <1>3, <2>1, <3>1 DEF WholeBelow, n
    <2>3. WholeTop'
      BY <1>1 DEF WholeTop
    <2>4. Alive'
      <3> SUFFICES ASSUME NEW k \in 1..(m - 1), ExitsBefore(out', k) = 0,
                          out'[k].op = "destroy"
                   PROVE  out'[k].index \in f.live
        BY <1>3, <1>4 DEF Alive
      <3>1. /\ out'[k] = out[k + 1] /\ ExitsBefore(out, k + 1) = 0
            /\ k + 1 \in 1..m /\ 1 \in 1..m /\ 1 < k + 1
        BY <1>1, <1>4, <1>8
      <3>2. out[k + 1].index \in Top.live
        BY <2>1, <3>1 DEF Alive, m
      <3>3. out[1].index > out[k + 1].index
        BY <1>4, <3>1 DEF IInv, WayInv, LastFirst, m
      <3>4. out[k + 1].index \in Nat
        BY <1>1, <3>1 DEF Command
      <3>5. out[1] # Destroy(Top.scope, out[k + 1].index)
        BY <3>3, <3>4 DEF Destroy
      <3> QED
        BY <3>1, <3>2, <3>5
    <2>5. Spared'
      BY <1>3, <1>9, <2>1 DEF Spared, Running, n
    <2> QED
      BY <2>2, <2>3, <2>4, <2>5
  <1> QED
    BY <1>11, <1>12, <1>13, <1>14, <1>15 DEF IInv

LEMMA RunDestructorKeeps ==
    ASSUME IInv, RunDestructor
    PROVE  IInv'
  <1> DEFINE index == Head(out).index
             shorter == [Top EXCEPT !.live = @ \ {index}]
  <1>1. /\ Running /\ out # <<>> /\ Head(out).op = "destroy" /\ out' = Tail(out)
        /\ UNCHANGED <<program, way, phase, result>>
        /\ frames' = IF IsConstructorExecuted(Top.marks, index)
                       THEN Replaced(shorter) ELSE frames
    BY DEF RunDestructor
  <1>2. frames # <<>> /\ out[1] = Destroy(Top.scope, index) /\ out[1].op # "exit"
    BY <1>1, OutFacts
  <1>3. Top \in Frame /\ Top = frames[Len(frames)] /\ Len(frames) \in 1..Len(frames)
    BY <1>2, TopFacts
  <1>4. \A j : out[1] = Destroy(Top.scope, j) => j = index
    BY <1>2 DEF Destroy
  <1>5. CASE IsConstructorExecuted(Top.marks, index)
    <2>1. /\ shorter \in Frame /\ shorter.scope = Top.scope /\ shorter.next = Top.next
          /\ shorter.marks = Top.marks /\ shorter.built = Top.built
          /\ shorter.live = Top.live \ {index}
      <3>1. \A t \in Frame : LET c == [t EXCEPT !.live = t.live \ {index}] IN
                /\ c \in Frame /\ c.scope = t.scope /\ c.next = t.next
                /\ c.marks = t.marks /\ c.built = t.built /\ c.live = t.live \ {index}
        BY DEF Frame
      <3>2. shorter = [Top EXCEPT !.live = Top.live \ {index}]
        OBVIOUS
      <3> HIDE DEF shorter, index
      <3> QED
        BY <1>3, <3>1, <3>2
    <2>2. frames' = Replaced(shorter)
      BY <1>1, <1>5
    <2> HIDE DEF shorter
    <2>3. /\ \A j \in Top.live : j \in shorter.live \/ out[1] = Destroy(Top.scope, j)
          /\ \A j \in shorter.live : out[1] # Destroy(Top.scope, j)
      BY <1>2, <1>4, <2>1
    <2> HIDE DEF index
    <2> QED
      BY <1>1, <1>2, <2>1, <2>2, <2>3, TailKeeps
  <1>6. CASE ~ IsConstructorExecuted(Top.marks, index)
    <2>1. frames' = Replaced(Top)
      BY <1>1, <1>2, <1>6, Unmoved
    <2>2. \A j \in Top.live : out[1] = Destroy(Top.scope, j) => Excepted(Top.scope, j)
      <3> SUFFICES ASSUME index \in Top.live PROVE Excepted(Top.scope, index)
        BY <1>4
      <3> HIDE DEF index
      <3> QED
        BY <1>3, <1>6 DEF IInv, Kept
    <2> HIDE DEF index
    <2> QED
      BY <1>1, <1>2, <1>3, <2>1, <2>2, TailKeeps
  <1> QED
    BY <1>5, <1>6

(* When the destructors of a scope are past, no object of it is left that   *)
(* has one, but for those a return keeps.                                  *)
LEMMA NoneLeft ==
    ASSUME IInv, Running, out # <<>>, out[1].op # "destroy",
           NEW j \in Top.live, Owned(program, Top.scope, j)
    PROVE  Excepted(Top.scope, j)
  <1>1. /\ frames # <<>> /\ Exits \in Nat \ {0} /\ Len(out) \in Nat \ {0}
    BY OutFacts
  <1>2. Len(frames) \in Nat \ {0} /\ Top = frames[Len(frames)]
    BY <1>1, TopFacts
  <1>3. Len(frames) - 0 = Len(frames) /\ 0 < Exits /\ 0 \in Nat
    BY <1>1, <1>2
  <1>4. \/ Excepted(Top.scope, j)
        \/ \E l \in 1..Len(out) : ExitsBefore(out, l) = 0 /\ out[l] = Destroy(Top.scope, j)
    BY <1>2, <1>3 DEF IInv, Ahead
  <1>5. ASSUME NEW l \in 1..Len(out), ExitsBefore(out, l) = 0, out[l] = Destroy(Top.scope, j)
        PROVE  FALSE
    <2>1. out[l].op = "destroy"
      BY <1>5 DEF Destroy
    <2>2. l # 1
      BY <2>1
    <2>3. 1 \in 1..Len(out) /\ 1 < l
      BY <1>1, <2>2
    <2>4. ExitsBefore(out, 1) = 0
      <3>1. 1 \in Int /\ 1 <= 1
        OBVIOUS
      <3> QED
        BY <3>1, ExitsType
    <2>5. out[1].op = "destroy"
      BY <1>5, <2>1, <2>3, <2>4 DEF IInv, WayInv, LastFirst
    <2> QED
      BY <2>5
  <1> QED
    BY <1>4, <1>5

LEMMA TestConditionKeeps ==
    ASSUME IInv, NEW holds \in BOOLEAN, TestCondition(holds)
    PROVE  IInv'
  <1> DEFINE n == Len(frames)
             f == [Top EXCEPT !.next = 1]
             again == holds /\ way \in {"end", "continue"}
  <1>1. /\ Running /\ out # <<>> /\ Head(out).op = "jumpIf"
        /\ UNCHANGED <<program, phase, result>>
        /\ IF again THEN frames' = Replaced(f) /\ out' = <<>> /\ way' = "none"
           ELSE out' = Tail(out) /\ UNCHANGED <<frames, way>>
    BY DEF TestCondition
  <1>2. frames # <<>> /\ out[1].op = "jumpIf"
    BY <1>1, OutFacts
  <1>3. /\ n \in Nat \ {0} /\ n \in 1..n /\ Top = frames[n] /\ Top \in Frame
        /\ program \in Programs /\ Chain(program, OpenScopes) /\ Top.scope \in Scope
    BY <1>2, TopFacts
  <1>4. CASE ~ again
    <2>1. frames' = Replaced(Top) /\ out' = Tail(out) /\ way' = way
      BY <1>1, <1>2, <1>4, Unmoved
    <2>2. out[1].op # "exit" /\ \A j : out[1] # Destroy(Top.scope, j)
      BY <1>2 DEF Destroy
    <2> QED
      BY <1>1, <1>3, <2>1, <2>2, TailKeeps
  <1>5. CASE again
    <2>1. /\ frames' = Replaced(f) /\ out' = <<>> /\ way' = "none"
          /\ way \in {"end", "continue"}
      BY <1>1, <1>5
    <2>2. /\ f \in Frame /\ f.scope = Top.scope /\ f.next = 1 /\ f.marks = Top.marks
          /\ f.built = Top.built /\ f.live = Top.live
      <3>1. \A t \in Frame : LET c == [t EXCEPT !.next = 1] IN
                /\ c \in Frame /\ c.scope = t.scope /\ c.next = 1
                /\ c.marks = t.marks /\ c.built = t.built /\ c.live = t.live
        BY DEF Frame
      <3> QED
        BY <1>3, <3>1
    <2> HIDE DEF f
    <2>3. /\ frames' \in Seq(Frame) /\ frames' # <<>> /\ Len(frames') = n
          /\ \A i \in 1..n : frames'[i] = IF i = n THEN f ELSE frames[i]
          /\ \A i \in 1..n : frames'[i].scope = frames[i].scope
          /\ Top' = f /\ OpenScopes' = OpenScopes
      BY <1>2, <2>1, <2>2, Moves
    <2> HIDE DEF n
    <2>4. \A i \in 1..n : /\ frames'[i].live = frames[i].live
                          /\ frames'[i].built = frames[i].built
                          /\ frames'[i].marks = frames[i].marks
      BY <1>3, <2>2, <2>3
    <2>5. WayInv' /\ Ahead' /\ Alive'
      BY <1>1, <1>3, <2>1, <2>3, NothingAhead
    <2>6. TypeOK'
      <3>1. \A i \in 1..n : frames'[i].live \subseteq frames'[i].built
        BY <2>4 DEF IInv, TypeOK, n
      <3> QED
        BY <1>1, <2>1, <2>3, <3>1 DEF IInv, TypeOK, Running
    <2>7. Kept'
      <3> SUFFICES ASSUME NEW i \in 1..n, NEW j \in frames'[i].live
                   PROVE  /\ Mask(j) \subseteq frames'[i].marks
                          /\ IsConstructorExecuted(frames'[i].marks, j)
                          /\ Owned(program, frames'[i].scope, j) =>
                                j < IndexAt(program, frames'[i].scope, frames'[i].next)
        BY <1>1, <2>3 DEF Kept
      <3>1. /\ Mask(j) \subseteq frames[i].marks
            /\ IsConstructorExecuted(frames[i].marks, j)
            /\ Owned(program, frames[i].scope, j) =>
                  j < IndexAt(program, frames[i].scope, frames[i].next)
        BY <2>1, <2>4 DEF IInv, Kept, Excepted, n
      <3>2. CASE i # n
        BY <2>3, <3>1, <3>2
      <3>3. CASE i = n
        <4>1. out[1].op # "destroy"
          BY <1>2
        <4>2. ~ Owned(program, Top.scope, j)
          BY <1>1, <1>3, <2>1, <2>4, <3>3, <4>1, NoneLeft DEF Excepted
        <4> QED
          BY <1>3, <2>3, <2>4, <3>1, <3>3, <4>2
      <3> QED
        BY <3>2, <3>3
    <2>8. Whole'
      <3> SUFFICES ASSUME Disciplined(program)
                   PROVE  WholeBelow' /\ WholeTop' /\ Spared'
        BY <1>1, <2>5 DEF Whole
      <3>1. WholeBelow /\ Spared
        BY DEF IInv, Whole
      <3>2. WholeBelow'
        <4>1. \A i \in 1..(n - 1) : i \in 1..n
          BY <1>3
        <4> QED
          BY <1>1, <2>3, <2>4, <3>1, <4>1 DEF WholeBelow, n
      <3>3. WholeTop'
        <4> SUFFICES ASSUME NEW j, Owned(program, Top.scope, j),
                            j < IndexAt(program, Top.scope, 1)
                     PROVE  FALSE
          BY <1>1, <2>2, <2>3 DEF WholeTop
        <4>1. IndexAt(program, Top.scope, 1) = 0
          <5>1. 1 \in Int /\ 1 <= 1
            OBVIOUS
          <5> QED
            BY <5>1, IndexType
        <4>2. j \in Nat
          <5>1. Len(program.body[Top.scope]) \in Nat
            BY <1>3, ProgramFacts
          <5> QED
            BY <5>1, OwnedType
        <4> QED
          BY <4>1, <4>2
      <3>4. Spared'
        BY <1>1, <2>1, <3>1 DEF Spared, Running
      <3> QED
        BY <3>2, <3>3, <3>4
    <2> QED
      BY <2>5, <2>6, <2>7, <2>8 DEF IInv
  <1> QED
    BY <1>4, <1>5

LEMMA SameKeeps ==
    ASSUME IInv, UNCHANGED <<program, frames, out, way, result>>,
           phase' \in {phase, "raised"}
    PROVE  IInv'
  <1>1. /\ program' = program /\ frames' = frames /\ out' = out /\ way' = way
        /\ result' = result /\ Running' => Running
    BY DEF Running
  <1>2. OpenScopes' = OpenScopes /\ Exits' = Exits /\ Top' = Top
    BY <1>1 DEF OpenScopes, Exits, Top
  <1>3. TypeOK'
    BY <1>1 DEF IInv, TypeOK
  <1>4. WayInv'
    BY <1>1, <1>2 DEF IInv, WayInv
  <1>5. Kept' /\ Ahead'
    BY <1>1, <1>2 DEF IInv, Kept, Ahead, Excepted
  <1>6. Whole'
    BY <1>1, <1>2 DEF IInv, Whole, WholeBelow, WholeTop, Alive, Spared
  <1> QED
    BY <1>3, <1>4, <1>5, <1>6 DEF IInv

(* The function's own scope is the outermost.                              *)
LEMMA RootIsOutermost ==
    ASSUME NEW p, NEW open, Chain(p, open), open[Len(open)] = Root
    PROVE  Len(open) = 1
  <1>1. Len(open) \in Nat /\ Len(open) >= 1 /\ open[1] = Root
    BY DEF Chain
  <1>2. 1 \in 1..Len(open) /\ Len(open) \in 1..Len(open)
    BY <1>1
  <1>3. ~ (1 < Len(open))
    BY <1>1, <1>2, ChainDistinct
  <1>4. \A k \in Nat : k >= 1 /\ ~ (1 < k) => k = 1
    OBVIOUS
  <1> QED
    BY <1>1, <1>3, <1>4

LEMMA ExitScopeKeeps ==
    ASSUME IInv, ExitScope
    PROVE  IInv'
  <1> DEFINE n == Len(frames)
             m == Len(out)
  <1>1. /\ Running /\ out # <<>> /\ Head(out).op = "exit"
        /\ frames' = SubSeq(frames, 1, n - 1) /\ out' = Tail(out)
        /\ way' = IF Tail(out) = <<>> THEN "none" ELSE way
        /\ phase' = IF n = 1 THEN "returned" ELSE phase
        /\ UNCHANGED <<program, result>>
    BY DEF ExitScope
  <1>2. /\ frames # <<>> /\ way # "none" /\ m \in Nat \ {0} /\ out[1].op = "exit"
        /\ \A k \in 1..m : out[k] \in Command
        /\ out[1].scope = Top.scope /\ Exits \in Nat \ {0} /\ Exits <= n
    BY <1>1, OutFacts
  <1>3. /\ n \in Nat \ {0} /\ n \in 1..n /\ Top = frames[n] /\ Top.scope \in Scope
        /\ program \in Programs /\ Chain(program, OpenScopes) /\ Len(OpenScopes) = n
        /\ \A i \in 1..n : frames[i] \in Frame /\ OpenScopes[i] = frames[i].scope
    BY <1>2, TopFacts
  <1>4. /\ frames' \in Seq(Frame) /\ Len(frames') = n - 1
        /\ \A i \in 1..(n - 1) : frames'[i] = frames[i]
    <2>1. frames \in Seq(Frame) /\ Len(frames) >= 1
      BY <1>3 DEF IInv, TypeOK
    <2> QED
      BY <1>1, <2>1, FrontOf
  <1>5. /\ out' \in Seq(Command) /\ Len(out') = m - 1
        /\ \A k \in 1..(m - 1) : out'[k] = out[k + 1]
        /\ \A k \in 1..m : /\ ExitsBefore(out', k) \in Nat
                           /\ ExitsBefore(out, k + 1) = 1 + ExitsBefore(out', k)
        /\ ExitsBefore(out, 1) = 0
    <2>1. out \in Seq(Command)
      BY DEF IInv, TypeOK
    <2> QED
      BY <1>1, <1>2, <2>1, TailExits
  <1>6. OpenScopes' = [i \in 1..(n - 1) |-> frames'[i].scope]
    BY <1>4 DEF OpenScopes
  <1>7. way = "return" /\ out' = <<>> => n = 1
    <2> SUFFICES ASSUME way = "return", m - 1 = 0 PROVE n = 1
      BY <1>5
    <2>1. m = 1
      BY <1>2
    <2>2. out[1].scope = Root
      BY <1>1, <2>1 DEF IInv, WayInv
    <2>3. OpenScopes[Len(OpenScopes)] = Root
      BY <1>2, <1>3, <2>2
    <2> QED
      BY <1>3, <2>3, RootIsOutermost
  <1>8. out' = <<>> <=> Tail(out) = <<>>
    BY <1>1
  <1>9. n # 1 /\ way = "return" => way' = "return"
    BY <1>1, <1>7
  <1>10. way' = "return" => way = "return"
    BY <1>1
  <1> HIDE DEF n, m
  <1>11. \A i \in 1..(n - 1) : i \in 1..n /\ n # 1
    BY <1>3
  <1>12. /\ OpenScopes' \in Seq(Scope) /\ Len(OpenScopes') = n - 1
         /\ \A i \in 1..(n - 1) : OpenScopes'[i] = OpenScopes[i]
    <2>1. \A i \in 1..(n - 1) : frames'[i].scope \in Scope
      <3>1. \A f \in Frame : f.scope \in Scope
        BY DEF Frame
      <3> QED
        BY <1>3, <1>4, <1>11, <3>1
    <2>2. n - 1 \in Nat
      BY <1>3
    <2> QED
      BY <1>3, <1>4, <1>6, <1>11, <2>1, <2>2
  <1>13. m \in 1..m /\ Exits = 1 + Exits' /\ Exits' \in Nat /\ (m - 1) + 1 = m
    BY <1>2, <1>5 DEF Exits, m
  <1>14. PICK x \in Nat : x = Exits' /\ Exits = 1 + x /\ x <= n - 1
    <2>1. Exits <= n /\ n \in Nat /\ Exits = 1 + Exits' /\ Exits' \in Nat
      BY <1>2, <1>3, <1>13
    <2>2. \A y, z \in Nat : 1 + y <= z => y <= z - 1
      OBVIOUS
    <2> QED
      BY <2>1, <2>2
  <1>15. n \in Nat \ {0} /\ \A e \in Nat : e < x =>
             (n - 1) - e \in 1..(n - 1) /\ (n - 1) - e = n - (e + 1) /\ n # 1
    <2>1. n \in Nat \ {0}
      BY <1>3
    <2> QED
      BY <1>14, <2>1
  <1>16. /\ \A k \in 1..(m - 1) : k + 1 \in 1..m /\ k \in 1..m
         /\ m - 1 # 0 => m - 1 \in 1..(m - 1)
    BY <1>2
  <1>17. WayInv'
    <2>1. frames' # <<>> => Chain(program, OpenScopes')
      <3> SUFFICES ASSUME frames' # <<>> PROVE Chain(program, OpenScopes')
        OBVIOUS
      <3>1. n - 1 >= 1
        BY <1>3, <1>4
      <3>2. /\ OpenScopes[1] = Root
            /\ \A i \in 1..(n - 1) : /\ OpenScopes[i + 1] # Root
                                     /\ program.parent[OpenScopes[i + 1]] = OpenScopes[i]
        BY <1>3 DEF Chain
      <3>3. /\ 1 \in 1..(n - 1)
            /\ \A i \in 1..((n - 1) - 1) : i \in 1..(n - 1) /\ i + 1 \in 1..(n - 1)
        BY <1>3, <3>1
      <3>4. \A i \in 1..((n - 1) - 1) : /\ OpenScopes'[i + 1] # Root
                                        /\ program.parent[OpenScopes'[i + 1]] = OpenScopes'[i]
        BY <1>12, <3>2, <3>3
      <3> QED
        BY <1>12, <3>1, <3>2, <3>3, <3>4 DEF Chain
    <2>2. Meets(program, out', OpenScopes')
      <3> SUFFICES ASSUME NEW k \in 1..(m - 1)
                   PROVE  /\ ExitsBefore(out', k) < n - 1
                          /\ out'[k].scope = OpenScopes'[(n - 1) - ExitsBefore(out', k)]
                          /\ out'[k].op = "destroy" =>
                                Owned(program, out'[k].scope, out'[k].index)
        BY <1>5, <1>12 DEF Meets
      <3>1. Meets(program, out, OpenScopes)
        BY DEF IInv, WayInv
      <3>2. /\ ExitsBefore(out, k + 1) < n
            /\ out[k + 1].scope = OpenScopes[n - ExitsBefore(out, k + 1)]
            /\ out[k + 1].op = "destroy" => Owned(program, out[k + 1].scope, out[k + 1].index)
        BY <1>3, <1>16, <3>1 DEF Meets, m
      <3>3. /\ ExitsBefore(out', k) \in Nat /\ out'[k] = out[k + 1]
            /\ ExitsBefore(out, k + 1) = 1 + ExitsBefore(out', k)
        BY <1>5, <1>16
      <3>4. /\ (n - 1) - ExitsBefore(out', k) = n - ExitsBefore(out, k + 1)
            /\ (n - 1) - ExitsBefore(out', k) \in 1..(n - 1)
            /\ ExitsBefore(out', k) < n - 1
        BY <1>3, <3>2, <3>3
      <3> QED
        BY <1>12, <3>2, <3>3, <3>4
    <2>3. LastFirst(out')
      <3> SUFFICES ASSUME NEW k \in 1..(m - 1), NEW l \in 1..(m - 1), k < l,
                          ExitsBefore(out', k) = ExitsBefore(out', l),
                          out'[l].op = "destroy"
                   PROVE  out'[k].op = "destroy" /\ out'[k].index > out'[l].index
        BY <1>5 DEF LastFirst
      <3>1. k + 1 \in 1..m /\ l + 1 \in 1..m /\ k + 1 < l + 1 /\ k \in 1..m /\ l \in 1..m
        BY <1>16
      <3>2. LastFirst(out)
        BY DEF IInv, WayInv
      <3>3. ExitsBefore(out, k + 1) = ExitsBefore(out, l + 1)
        BY <1>5, <3>1
      <3> QED
        BY <1>5, <3>1, <3>2, <3>3 DEF LastFirst, m
    <2>4. out' # <<>> => m - 1 # 0 /\ out'[Len(out')] = out[m]
      BY <1>5, <1>13, <1>16
    <2>5. EndsWithExit(out')
      BY <1>1, <2>4 DEF IInv, WayInv, EndsWithExit, m
    <2>6. /\ out' # <<>> /\ way' = "break" => program.kind[out'[Len(out')].scope] = "loop"
          /\ out' # <<>> /\ way' = "return" => out'[Len(out')].scope = Root
      BY <1>1, <2>4 DEF IInv, WayInv, m
    <2>7. Exits' <= Len(frames')
      BY <1>4, <1>14
    <2> QED
      BY <1>1, <1>3, <2>1, <2>2, <2>3, <2>5, <2>6, <2>7 DEF WayInv
  <1>18. TypeOK'
    <2>1. \A i \in 1..n : frames[i].live \subseteq frames[i].built
      BY DEF IInv, TypeOK, n
    <2>2. \A i \in 1..(n - 1) : frames'[i].live \subseteq frames'[i].built
      BY <1>4, <1>11, <2>1
    <2>3. Running' => frames' # <<>>
      <3>1. Running' => n # 1
        BY <1>1 DEF Running, n
      <3>2. frames' = <<>> => n - 1 = 0
        BY <1>4
      <3> QED
        BY <1>15, <3>1, <3>2
    <2>4. way' = "none" <=> out' = <<>>
      BY <1>1, <1>2
    <2>5. program' \in Program /\ result' \in Object \union {NoObject}
      BY <1>1 DEF IInv, TypeOK
    <2>6. /\ way' \in {"none", "end", "break", "continue", "return"}
          /\ phase' \in {"running", "returned", "raised"}
      BY <1>1 DEF IInv, TypeOK
    <2> QED
      BY <1>4, <1>5, <2>2, <2>3, <2>4, <2>5, <2>6 DEF TypeOK
  <1>19. Kept'
    <2> SUFFICES ASSUME NEW i \in 1..(n - 1), NEW j \in frames[i].live
                 PROVE  /\ way' # "return" => Mask(j) \subseteq frames[i].marks
                        /\ \/ IsConstructorExecuted(frames[i].marks, j)
                           \/ way' = "return" /\ Excepted(frames[i].scope, j)
                        /\ Owned(program, frames[i].scope, j) =>
                              j < IndexAt(program, frames[i].scope, frames[i].next)
      BY <1>1, <1>4 DEF Kept, Excepted
    <2>1. i \in 1..n /\ n # 1
      BY <1>11
    <2>2. /\ way # "return" => Mask(j) \subseteq frames[i].marks
          /\ IsConstructorExecuted(frames[i].marks, j) \/ Excepted(frames[i].scope, j)
          /\ Owned(program, frames[i].scope, j) =>
                j < IndexAt(program, frames[i].scope, frames[i].next)
      BY <2>1 DEF IInv, Kept, n
    <2>3. Excepted(frames[i].scope, j) => way = "return"
      BY DEF Excepted
    <2> QED
      BY <1>9, <2>1, <2>2, <2>3
  <1>20. Ahead'
    <2> SUFFICES ASSUME NEW e \in Nat, e < Exits', NEW j \in frames[(n - 1) - e].live,
                        Owned(program, frames[(n - 1) - e].scope, j)
                 PROVE  \/ way' = "return" /\ Excepted(frames[(n - 1) - e].scope, j)
                        \/ \E l \in 1..(m - 1) :
                              /\ ExitsBefore(out', l) = e
                              /\ out'[l] = Destroy(frames[(n - 1) - e].scope, j)
      <3>1. \A e \in Nat : e < Exits' => /\ frames'[(n - 1) - e] = frames[(n - 1) - e]
                                           /\ Len(frames') - e = (n - 1) - e
        <4>1. \A e \in Nat : e < Exits' => (n - 1) - e \in 1..(n - 1)
          BY <1>14, <1>15
        <4> QED
          BY <1>4, <4>1
      <3>2. /\ Len(frames') = n - 1 /\ Len(out') = m - 1
            /\ program' = program /\ result' = result
        BY <1>1, <1>4, <1>5
      <3> HIDE DEF n, m
      <3> QED
        BY <3>1, <3>2 DEF Ahead, Excepted
    <2>1. /\ e + 1 \in Nat /\ e + 1 < Exits /\ (n - 1) - e = n - (e + 1) /\ n # 1
      <3>1. e < x /\ Exits = 1 + x
        BY <1>14
      <3>2. (n - 1) - e = n - (e + 1) /\ n # 1
        BY <1>15, <3>1
      <3>3. e + 1 \in Nat /\ e + 1 < 1 + x
        BY <3>1
      <3> QED
        BY <3>1, <3>2, <3>3
    <2>2. \/ Excepted(frames[(n - 1) - e].scope, j)
          \/ \E l \in 1..m : /\ ExitsBefore(out, l) = e + 1
                             /\ out[l] = Destroy(frames[(n - 1) - e].scope, j)
      BY <2>1 DEF IInv, Ahead, n, m
    <2>3. ASSUME NEW l \in 1..m, ExitsBefore(out, l) = e + 1,
                 out[l] = Destroy(frames[(n - 1) - e].scope, j)
          PROVE  \E h \in 1..(m - 1) : /\ ExitsBefore(out', h) = e
                                       /\ out'[h] = Destroy(frames[(n - 1) - e].scope, j)
      <3>1. l # 1
        BY <1>5, <2>3
      <3>2. l - 1 \in 1..(m - 1) /\ (l - 1) + 1 = l
        BY <1>2, <3>1
      <3>3. out'[l - 1] = out[l] /\ ExitsBefore(out', l - 1) \in Nat
            /\ e + 1 = 1 + ExitsBefore(out', l - 1)
        BY <1>5, <1>16, <2>3, <3>2
      <3>4. ExitsBefore(out', l - 1) = e
        BY <3>3
      <3> QED
        BY <2>3, <3>2, <3>3, <3>4
    <2>4. Excepted(frames[(n - 1) - e].scope, j) => way' = "return"
      BY <1>9, <2>1 DEF Excepted
    <2> QED
      BY <2>2, <2>3, <2>4
  <1>21. Whole'
    <2> SUFFICES ASSUME Disciplined(program)
                 PROVE  WholeBelow' /\ WholeTop' /\ Alive' /\ Spared'
      BY <1>1 DEF Whole
    <2>1. WholeBelow /\ Spared
      BY DEF IInv, Whole
    <2>2. WholeBelow'
      <3>1. \A i \in 1..((n - 1) - 1) : i \in 1..(n - 1)
        BY <1>3
      <3> QED
        BY <1>1, <1>4, <2>1, <3>1 DEF WholeBelow, n
    <2>3. frames' # <<>> => n - 1 \in 1..(n - 1) /\ Top' = frames[n - 1]
      BY <1>3, <1>4 DEF Top
    <2>4. WholeTop'
      BY <1>1, <2>1, <2>3 DEF WholeTop, WholeBelow, n
    <2>5. Alive'
      <3> SUFFICES ASSUME NEW k \in 1..(m - 1), ExitsBefore(out', k) = 0,
                          out'[k].op = "destroy"
                   PROVE  out'[k].index \in Top'.live
        BY <1>5 DEF Alive
      <3>1. out'[k] = out[k + 1] /\ ExitsBefore(out, k + 1) = 1 /\ k + 1 \in 1..m
        BY <1>5, <1>16
      <3>2. /\ 1 < n /\ out[k + 1].scope = OpenScopes[n - 1]
            /\ Owned(program, out[k + 1].scope, out[k + 1].index)
        BY <1>3, <3>1 DEF IInv, WayInv, Meets, m
      <3>3. n - 1 \in 1..(n - 1) /\ frames' # <<>>
        BY <1>3, <1>4, <3>2
      <3>4. out[k + 1].index \in frames[n - 1].live
        BY <1>3, <1>11, <2>1, <3>2, <3>3 DEF WholeBelow, n
      <3> QED
        BY <2>3, <3>1, <3>3, <3>4
    <2>6. Spared'
      <3>1. way' = "return" =>
                \A i \in 1..(n - 1) :
                    frames[i].scope = result.scope /\ Owned(program, result.scope, result.index)
                    => ~ IsConstructorExecuted(frames[i].marks, result.index)
        BY <1>10, <1>11, <2>1 DEF Spared, n
      <3>2. Running' /\ way' # "return" => Running /\ way # "return"
        BY <1>1, <1>9 DEF Running, n
      <3> QED
        BY <1>1, <1>4, <2>1, <3>1, <3>2 DEF Spared
    <2> QED
      BY <2>2, <2>4, <2>5, <2>6
  <1> QED
    BY <1>17, <1>18, <1>19, <1>20, <1>21 DEF IInv

-----------------------------------------------------------------------------
LEMMA InitHolds ==
    ASSUME Init
    PROVE  IInv
  <1>1. PICK marks \in FreshMarks(ObjectCount(program, Root)) : frames = <<Entered(Root, marks)>>
    BY DEF Init
  <1> DEFINE g == Entered(Root, marks)
  <1>2. /\ program \in Programs /\ program \in Program /\ Root \in Scope
        /\ out = <<>> /\ way = "none" /\ phase = "running" /\ result = NoObject
    BY ProgramsAssumption DEF Init
  <1>3. g \in Frame /\ g.scope = Root /\ g.next = 1 /\ g.live = {} /\ g.built = {}
    <2>1. marks \in SUBSET Nat
      BY ProgramsAssumption DEF FreshMarks
    <2> QED
      BY <1>2, <2>1 DEF Entered, Frame
  <1> HIDE DEF g
  <1>4. /\ frames \in Seq(Frame) /\ Len(frames) = 1 /\ frames[1] = g /\ frames # <<>>
        /\ \A i \in 1..Len(frames) : frames[i] = g
        /\ ~ \E i : i \in 1..(Len(frames) - 1)
    <2>1. frames = <<g>>
      BY <1>1 DEF g
    <2> QED
      BY <1>3, <2>1
  <1>5. Top = g
    BY <1>4 DEF Top
  <1>6. Exits = 0 /\ ~ \E k : k \in 1..Len(out)
    <2>1. 1 \in Int /\ 1 <= 1 /\ Len(<<>>) + 1 = 1
      OBVIOUS
    <2>2. ExitsBefore(<<>>, 1) = 0
      BY <2>1, ExitsType
    <2> QED
      BY <1>2, <2>1, <2>2 DEF Exits
  <1>7. OpenScopes \in Seq(Scope) /\ Len(OpenScopes) = 1 /\ OpenScopes[1] = Root
    <2>1. OpenScopes = [i \in 1..1 |-> Root]
      BY <1>3, <1>4 DEF OpenScopes
    <2> QED
      BY <1>2, <2>1
  <1>8. Chain(program, OpenScopes)
    BY <1>7 DEF Chain
  <1>9. WayInv
    BY <1>2, <1>4, <1>6, <1>8 DEF WayInv, Meets, LastFirst, EndsWithExit
  <1>10. TypeOK
    BY <1>2, <1>3, <1>4 DEF TypeOK
  <1>11. Kept /\ Ahead
    BY <1>3, <1>4, <1>6 DEF Kept, Ahead
  <1>12. Whole
    <2>1. WholeTop
      <3> SUFFICES ASSUME NEW j, Owned(program, Root, j), j < IndexAt(program, Root, 1)
                   PROVE  FALSE
        BY <1>3, <1>5 DEF WholeTop
      <3>1. IndexAt(program, Root, 1) = 0
        <4>1. 1 \in Int /\ 1 <= 1
          OBVIOUS
        <4> QED
          BY <4>1, IndexType
      <3>2. j \in Nat
        <4>1. Len(program.body[Root]) \in Nat
          BY <1>2, ProgramFacts
        <4> QED
          BY <4>1, OwnedType
      <3> QED
        BY <3>1, <3>2
    <2>2. WholeBelow /\ Alive /\ Spared
      BY <1>2, <1>4, <1>6 DEF WholeBelow, Alive, Spared
    <2> QED
      BY <2>1, <2>2 DEF Whole
  <1> QED
    BY <1>9, <1>10, <1>11, <1>12 DEF IInv

LEMMA StepHolds ==
    ASSUME IInv, [Next]_vars
    PROVE  IInv'
  <1>1. CASE Construct
    BY <1>1, ConstructKeeps
  <1>2. ASSUME NEW s \in Scope \union {NoScope}, Open(s)
        PROVE  IInv'
    <2>1. CASE s = NoScope
      BY <1>2, <2>1, PassesKeeps
    <2>2. CASE s \in Scope
      BY <1>2, <2>2, EntersKeeps
    <2> QED
      BY <2>1, <2>2
  <1>3. CASE EndOfScope
    BY <1>3, EndOfScopeKeeps
  <1>4. CASE Break
    BY <1>4, BreakKeeps
  <1>5. CASE Continue
    BY <1>5, ContinueKeeps
  <1>6. CASE Return
    BY <1>6, ReturnKeeps
  <1>7. CASE RunDestructor
    BY <1>7, RunDestructorKeeps
  <1>8. ASSUME NEW holds \in BOOLEAN, TestCondition(holds)
        PROVE  IInv'
    BY <1>8, TestConditionKeeps
  <1>9. CASE ExitScope
    BY <1>9, ExitScopeKeeps
  <1>10. CASE Throw
    BY <1>10, SameKeeps DEF Throw
  <1>11. CASE UNCHANGED vars
    BY <1>11, SameKeeps DEF vars
  <1> QED
    BY <1>1, <1>2, <1>3, <1>4, <1>5, <1>6, <1>7, <1>8, <1>9, <1>10, <1>11 DEF Next

(* The inductive invariant holds in every run of every function.           *)
THEOREM Invariance == Spec => []IInv
  <1>1. Init => IInv
    BY InitHolds
  <1>2. IInv /\ [Next]_vars => IInv'
    BY StepHolds
  <1> QED
    BY <1>1, <1>2, PTL DEF Spec

(* The frames and the exit commands are of their types, objects that live  *)
(* were built, and commands are executed out of line only on a way out.    *)
THEOREM TypeCorrect == Spec => []TypeOK
  <1>1. IInv => TypeOK
    BY DEF IInv
  <1> QED
    BY <1>1, Invariance, PTL

(* Whatever scopes the compiler copied the ends of for a break, a continue  *)
(* or a return, they are those that are open when it is executed, innermost *)
(* first: destructors read the marks of their own scope, exits pop it.     *)
THEOREM ExitCodeMatches == Spec => []ExitCodeMatchesScopes
  <1>1. ASSUME IInv PROVE ExitCodeMatchesScopes
    <2>1. frames \in Seq(Frame) /\ Len(frames) \in Nat
      BY <1>1 DEF IInv, TypeOK
    <2>2. Len(OpenScopes) = Len(frames) /\ \A i \in 1..Len(frames) : OpenScopes[i] = frames[i].scope
      <3>1. DOMAIN OpenScopes = 1..Len(frames)
        BY DEF OpenScopes
      <3>2. OpenScopes \in Seq({frames[i].scope : i \in 1..Len(frames)})
        BY <2>1 DEF OpenScopes
      <3> QED
        BY <2>1, <3>1, <3>2 DEF OpenScopes
    <2>3. ASSUME NEW i \in 1..(Len(frames) - 1)
          PROVE  program.parent[frames[i + 1].scope] = frames[i].scope
      <3>1. frames # <<>> /\ i \in 1..Len(frames) /\ i + 1 \in 1..Len(frames)
        BY <2>1
      <3>2. program.parent[OpenScopes[i + 1]] = OpenScopes[i]
        BY <1>1, <2>2, <3>1 DEF IInv, WayInv, Chain
      <3> QED
        BY <2>2, <3>1, <3>2
    <2>4. ASSUME NEW k \in 1..Len(out)
          PROVE  /\ ExitsBefore(out, k) < Len(frames)
                 /\ out[k].scope = frames[Len(frames) - ExitsBefore(out, k)].scope
      <3>1. /\ ExitsBefore(out, k) < Len(frames)
            /\ out[k].scope = OpenScopes[Len(frames) - ExitsBefore(out, k)]
        BY <1>1, <2>2 DEF IInv, WayInv, Meets
      <3>2. ExitsBefore(out, k) \in Nat
        <4>1. k \in Int
          OBVIOUS
        <4> QED
          BY <4>1, ExitsType
      <3>3. Len(frames) - ExitsBefore(out, k) \in 1..Len(frames)
        BY <2>1, <3>1, <3>2
      <3> QED
        BY <2>2, <3>1, <3>3
    <2> QED
      BY <2>3, <2>4 DEF ExitCodeMatchesScopes
  <1> QED
    BY <1>1, Invariance, PTL

(* Of the actions only an exit ends a break or a return.                   *)
LEMMA WayEnds ==
    ASSUME IInv, Next, way \in {"break", "return"}, way' # way
    PROVE  ExitScope /\ Tail(out) = <<>>
  <1>1. way # "none" /\ way \notin {"end", "continue"}
    OBVIOUS
  <1>2. ~ Construct /\ ~ EndOfScope /\ ~ Break /\ ~ Continue /\ ~ Return /\ \A s : ~ Open(s)
    BY <1>1 DEF Construct, EndOfScope, Break, Continue, Return, Open, AtStatement, Straight
  <1>3. ~ RunDestructor /\ ~ Throw
    BY DEF RunDestructor, Throw
  <1>4. \A holds : ~ TestCondition(holds)
    BY <1>1 DEF TestCondition
  <1>5. ExitScope
    BY <1>2, <1>3, <1>4 DEF Next
  <1> QED
    BY <1>5 DEF ExitScope

(* break leaves its loop, return the function, whatever the conditions of   *)
(* the loops on the way are.                                               *)
THEOREM JumpsLeaveTheirTarget == Spec => JumpsLeave
  <1>1. ASSUME IInv, Next PROVE LeavesItsTarget
    <2> SUFFICES ASSUME way \in {"break", "return"}, way' # way
                 PROVE  /\ way = "break" => /\ Len(frames') < Len(frames)
                                            /\ program.kind[Top.scope] = "loop"
                        /\ way = "return" => phase' = "returned"
      BY DEF LeavesItsTarget
    <2>1. ExitScope /\ Tail(out) = <<>>
      BY <1>1, WayEnds
    <2>2. Running /\ out # <<>>
      BY <2>1 DEF ExitScope
    <2>3. out \in Seq(Command) /\ out[1].scope = Top.scope /\ frames # <<>>
      BY <1>1, <2>2, OutFacts
    <2>4. Len(out) = 1
      <3>1. Len(Tail(out)) = Len(out) - 1 /\ Len(out) \in Nat
        BY <2>2, <2>3, HeadTailProperties
      <3>2. Len(<<>>) = 0
        OBVIOUS
      <3>3. Len(out) - 1 = 0
        BY <2>1, <3>1, <3>2
      <3> QED
        BY <3>1, <3>3
    <2>5. /\ way = "break" => program.kind[Top.scope] = "loop"
          /\ way = "return" => Top.scope = Root
      BY <1>1, <2>2, <2>3, <2>4 DEF IInv, WayInv
    <2>6. /\ Chain(program, OpenScopes) /\ Len(OpenScopes) = Len(frames)
          /\ OpenScopes[Len(frames)] = Top.scope /\ Len(frames) \in Nat \ {0}
      BY <1>1, <2>3, TopFacts
    <2>7. way = "return" => phase' = "returned"
      BY <2>1, <2>5, <2>6, RootIsOutermost DEF ExitScope
    <2>8. Len(frames') < Len(frames)
      <3>1. frames' = SubSeq(frames, 1, Len(frames) - 1) /\ frames \in Seq(Frame)
        BY <1>1, <2>1 DEF ExitScope, IInv, TypeOK
      <3>2. Len(frames) >= 1
        BY <2>6
      <3>3. Len(frames') = Len(frames) - 1
        BY <3>1, <3>2, FrontOf
      <3> QED
        BY <2>6, <3>3
    <2> QED
      BY <2>5, <2>7, <2>8
  <1>2. IInv /\ [Next]_vars => [LeavesItsTarget]_vars
    BY <1>1
  <1> QED
    BY <1>2, Invariance, PTL DEF Spec, JumpsLeave

(* Of the actions only a constructor and an exit may lose an object.       *)
LEMMA OnlyThese ==
    ASSUME IInv, Next
    PROVE  /\ ~ Construct => event'.op # "construct"
           /\ ~ ExitScope => ~ (Len(frames') < Len(frames))
           /\ event'.op = "destroy" => RunDestructor
  <1>1. /\ NoEvent.op # "construct" /\ NoEvent.op # "destroy"
        /\ frames \in Seq(Frame) /\ Len(frames) \in Nat
    BY DEF NoEvent, IInv, TypeOK
  <1>2. \A t : Len(Replaced(t)) = Len(frames)
    <2>1. \A t : Len([frames EXCEPT ![Len(frames)] = t]) = Len(frames)
      BY <1>1
    <2> QED
      BY <2>1 DEF Replaced
  <1>3. CASE Construct
    BY <1>1, <1>2, <1>3 DEF Construct
  <1>4. ASSUME NEW s \in Scope \union {NoScope}, Open(s)
        PROVE  event' = NoEvent /\ ~ (Len(frames') < Len(frames))
    <2>1. event' = NoEvent
      BY <1>4 DEF Open
    <2>2. CASE s = NoScope
      BY <1>1, <1>2, <1>4, <2>2 DEF Open
    <2>3. CASE s # NoScope
      <3>1. PICK marks : frames' = Append(Replaced(Advanced), Entered(s, marks))
        BY <1>4, <2>3 DEF Open
      <3>2. AtStatement
        BY <1>4 DEF Open
      <3>3. Advanced \in Frame /\ Len(frames) \in 1..Len(frames)
        <4>1. frames # <<>>
          BY <3>2, CurrentFacts
        <4> QED
          BY <4>1, TopFacts, AdvancedFacts
      <3>4. Replaced(Advanced) \in Seq(Frame)
        BY <1>1, <3>3 DEF Replaced
      <3>5. Len(frames') = Len(Replaced(Advanced)) + 1
        BY <3>1, <3>4
      <3> QED
        BY <1>1, <1>2, <2>1, <3>5
    <2> QED
      BY <2>1, <2>2, <2>3
  <1>5. CASE EndOfScope \/ Break \/ Continue
    <2>1. event' = NoEvent /\ frames' = frames
      BY <1>5 DEF EndOfScope, Break, Continue, Leave
    <2> QED
      BY <1>1, <2>1
  <1>6. CASE Return
    <2>1. event' = NoEvent /\ (frames' = frames \/ \E t : frames' = Replaced(t))
      BY <1>6 DEF Return, Leave
    <2> QED
      BY <1>1, <1>2, <2>1
  <1>7. CASE RunDestructor
    <2>1. event' = NoEvent \/ event'.op = "destroy"
      BY <1>7 DEF RunDestructor
    <2>2. frames' = frames \/ \E t : frames' = Replaced(t)
      BY <1>7 DEF RunDestructor
    <2> QED
      BY <1>1, <1>2, <1>7, <2>1, <2>2
  <1>8. ASSUME NEW holds \in BOOLEAN, TestCondition(holds)
        PROVE  event' = NoEvent /\ ~ (Len(frames') < Len(frames))
    <2>1. event' = NoEvent /\ (frames' = frames \/ \E t : frames' = Replaced(t))
      BY <1>8 DEF TestCondition
    <2> QED
      BY <1>1, <1>2, <2>1
  <1>9. CASE ExitScope
    BY <1>1, <1>9 DEF ExitScope
  <1>10. CASE Throw
    BY <1>1, <1>10 DEF Throw
  <1> QED
    BY <1>1, <1>3, <1>4, <1>5, <1>6, <1>7, <1>8, <1>9, <1>10 DEF Next

(* No object that has a destructor is lost: it is destroyed before its      *)
(* scope is left and before it is constructed again in a loop, unless an    *)
(* exception ends the run or return keeps it.                              *)
THEOREM NoObjectLost == Spec => NoObjectIsLost
  <1>1. ASSUME IInv, Next PROVE LosesNoObject
    <2> SUFFICES ASSUME Len(frames') < Len(frames) \/ event'.op = "construct",
                        NEW j \in Top.live, Owned(program, Top.scope, j),
                        Len(frames') < Len(frames) \/ event'.index = j
                 PROVE  Excepted(Top.scope, j)
      BY DEF LosesNoObject, Excepted
    <2>1. CASE Construct
      <3>1. AtStatement /\ event'.index = IndexAt(program, Top.scope, Top.next)
        BY <2>1 DEF Construct
      <3>2. frames # <<>>
        BY <1>1, <3>1, CurrentFacts
      <3>3. Top = frames[Len(frames)] /\ Len(frames) \in 1..Len(frames) /\ Top.next \in Int
            /\ Len(program.body[Top.scope]) \in Nat
        BY <1>1, <3>2, TopFacts
      <3>4. j < IndexAt(program, Top.scope, Top.next)
        BY <1>1, <3>3 DEF IInv, Kept
      <3>5. IndexAt(program, Top.scope, Top.next) \in Nat /\ j \in Nat
        BY <3>3, IndexType, OwnedType
      <3>6. ~ ExitScope
        BY <2>1, <3>1 DEF ExitScope, Construct, AtStatement, Straight, IInv, TypeOK
      <3>7. ~ (Len(frames') < Len(frames))
        BY <1>1, <3>6, OnlyThese
      <3> QED
        BY <3>1, <3>4, <3>5, <3>7
    <2>2. CASE ~ Construct
      <3>1. ExitScope
        BY <1>1, <2>2, OnlyThese
      <3>2. Running /\ out # <<>>
        BY <3>1 DEF ExitScope
      <3>3. out[1].op # "destroy"
        BY <1>1, <3>1, <3>2, OutFacts DEF ExitScope
      <3> QED
        BY <1>1, <3>2, <3>3, NoneLeft
    <2> QED
      BY <2>1, <2>2
  <1>2. IInv /\ [Next]_vars => [LosesNoObject]_vars
    BY <1>1
  <1> QED
    BY <1>2, Invariance, PTL DEF Spec, NoObjectIsLost

(* When a destructor runs, no object declared later in its scope is alive,  *)
(* but for those that return keeps.                                        *)
THEOREM LastFirstDestroyed == Spec => ReverseOrder
  <1>1. ASSUME IInv, Next PROVE DestroysLastFirst
    <2> SUFFICES ASSUME event'.op = "destroy" PROVE DestroysLastFirst
      BY DEF DestroysLastFirst
    <2>1. RunDestructor
      BY <1>1, OnlyThese
    <2>2. Running /\ out # <<>> /\ event' = Head(out)
      BY <2>1 DEF RunDestructor, NoEvent
    <2>3. /\ frames # <<>> /\ out[1] \in Command /\ Head(out) = out[1]
          /\ Len(out) \in Nat \ {0} /\ out[1].scope = Top.scope
          /\ Exits \in Nat \ {0}
      BY <1>1, <2>2, OutFacts
    <2>4. /\ Len(frames) \in Nat \ {0} /\ Top = frames[Len(frames)] /\ Top \in Frame
      BY <1>1, <2>3, TopFacts
    <2>5. ASSUME NEW j \in Top.live, j > event'.index, Owned(program, Top.scope, j)
          PROVE  Excepted(Top.scope, j)
      <3>1. Len(frames) - 0 = Len(frames) /\ 0 < Exits /\ 0 \in Nat
        BY <2>3, <2>4
      <3>2. \/ Excepted(Top.scope, j)
            \/ \E l \in 1..Len(out) : ExitsBefore(out, l) = 0 /\ out[l] = Destroy(Top.scope, j)
        BY <1>1, <2>4, <2>5, <3>1 DEF IInv, Ahead
      <3>3. ASSUME NEW l \in 1..Len(out), ExitsBefore(out, l) = 0,
                   out[l] = Destroy(Top.scope, j)
            PROVE  FALSE
        <4>1. out[l].op = "destroy" /\ out[l].index = j
          BY <3>3 DEF Destroy
        <4>2. j \in Nat /\ event'.index \in Nat /\ out[1].index = event'.index
          BY <2>2, <2>3, <2>4 DEF Frame, Command
        <4>3. l # 1
          BY <2>5, <4>1, <4>2
        <4>4. 1 \in 1..Len(out) /\ 1 < l
          BY <2>3, <4>3
        <4>5. ExitsBefore(out, 1) = 0
          <5>1. 1 \in Int /\ 1 <= 1
            OBVIOUS
          <5> QED
            BY <5>1, ExitsType
        <4>6. out[1].index > j
          BY <1>1, <3>3, <4>1, <4>4, <4>5 DEF IInv, WayInv, LastFirst
        <4> QED
          BY <2>5, <4>2, <4>6
      <3> QED
        BY <3>2, <3>3
    <2>6. result.index \in Nat /\ \A j \in Top.live : j \in Nat
      <3>1. result \in Object \union {NoObject}
        BY <1>1 DEF IInv, TypeOK
      <3> QED
        BY <2>4, <3>1 DEF Object, NoObject, Frame
    <2>7. \A j \in Top.live : Excepted(Top.scope, j) =>
              way = "return" /\ result.scope = Top.scope /\ j >= result.index
      BY <2>6 DEF Excepted
    <2> QED
      BY <2>2, <2>3, <2>5, <2>7 DEF DestroysLastFirst
  <1>2. IInv /\ [Next]_vars => [DestroysLastFirst]_vars
    BY <1>1
  <1> QED
    BY <1>2, Invariance, PTL DEF Spec, ReverseOrder

(* In a function that declares the objects of a scope before anything that  *)
(* may leave it, and returns none of an outer scope, a destructor runs on   *)
(* living objects only, and never on the one returned.                     *)
THEOREM OnlyLivingDestroyed == Spec => DisciplinedLifetimes
  <1>1. ASSUME IInv, Next, Disciplined(program) PROVE DestroysOnlyTheLiving
    <2> SUFFICES ASSUME event'.op = "destroy"
                 PROVE  /\ event'.index \in Top.live
                        /\ [scope |-> event'.scope, index |-> event'.index] # result
      BY DEF DestroysOnlyTheLiving
    <2>1. RunDestructor
      BY <1>1, OnlyThese
    <2>2. /\ Running /\ out # <<>> /\ event' = Head(out)
          /\ IsConstructorExecuted(Top.marks, Head(out).index)
      BY <2>1 DEF RunDestructor, NoEvent
    <2>3. /\ frames # <<>> /\ Head(out) = out[1] /\ Len(out) \in Nat \ {0}
          /\ out[1].op = "destroy" /\ out[1].scope = Top.scope
          /\ Owned(program, Top.scope, out[1].index)
      BY <1>1, <2>2, OutFacts
    <2>4. Top = frames[Len(frames)] /\ Len(frames) \in 1..Len(frames) /\ Top.scope \in Scope
      BY <1>1, <2>3, TopFacts
    <2>5. ExitsBefore(out, 1) = 0 /\ 1 \in 1..Len(out)
      <3>1. 1 \in Int /\ 1 <= 1
        OBVIOUS
      <3>2. ExitsBefore(out, 1) = 0
        BY <3>1, ExitsType
      <3> QED
        BY <2>3, <3>2
    <2>6. Alive /\ Spared
      BY <1>1 DEF IInv, Whole
    <2>7. event'.index \in Top.live
      BY <2>2, <2>3, <2>5, <2>6 DEF Alive
    <2>8. ASSUME result = [scope |-> Top.scope, index |-> out[1].index]
          PROVE  FALSE
      <3>1. result.scope = Top.scope /\ result.index = out[1].index
        BY <2>8
      <3>2. CASE way = "return"
        <4>1. ~ IsConstructorExecuted(Top.marks, out[1].index)
          BY <2>3, <2>4, <2>6, <3>1, <3>2 DEF Spared
        <4> QED
          BY <2>2, <2>3, <4>1
      <3>3. CASE way # "return"
        <4>1. result.scope = NoScope
          BY <2>2, <2>6, <3>3 DEF Spared, NoObject
        <4> QED
          BY <2>4, <3>1, <4>1, ProgramsAssumption
      <3> QED
        BY <3>2, <3>3
    <2> QED
      BY <2>2, <2>3, <2>7, <2>8
  <1>2. IInv /\ [Next]_vars => [Disciplined(program) => DestroysOnlyTheLiving]_vars
    BY <1>1
  <1> QED
    BY <1>2, Invariance, PTL DEF Spec, DisciplinedLifetimes
=============================================================================
