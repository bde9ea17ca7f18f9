------------------------- MODULE UserLibraryProofs -------------------------
(***************************************************************************)
(* For any types, functions and bounds: after whatever registrations, marks *)
(* and compiles, overloads and operators lead to what was registered, and a *)
(* compile that clears restores the system library.                         *)
(***************************************************************************)
EXTENDS UserLibrary, FiniteSetTheorems, WellFoundedInduction, TLAPS
-----------------------------------------------------------------------------
(* A set of natural numbers that is not empty has a least element: strict  *)
(* inclusion of the intervals 1..n is well-founded.                        *)
LEMMA Least ==
    ASSUME NEW T \in SUBSET Nat, T # {}
    PROVE  \E m \in T : \A k \in T : m <= k
  <1> DEFINE I == {1..n : n \in T}
  <1>1. IsWellFoundedOn(StrictSubsetOrdering(Nat), FiniteSubsetsOf(Nat))
    BY FS_StrictSubsetOrderingWellFounded
  <1>2. I \subseteq FiniteSubsetsOf(Nat)
    <2>1. \A n \in T : IsFiniteSet(1..n)
      BY FS_Interval
    <2> QED
      BY <2>1 DEF FiniteSubsetsOf
  <1>3. I # {}
    OBVIOUS
  <1>4. PICK x \in I : \A y \in I : ~(<<y, x>> \in StrictSubsetOrdering(Nat))
    <2> HIDE DEF I
    <2> QED
      BY <1>1, <1>2, <1>3, WFMin
  <1>5. PICK m \in T : x = 1..m
    OBVIOUS
  <1>6. ASSUME NEW k \in T, k < m
        PROVE  FALSE
    <2>1. 1..k \in I /\ x \in SUBSET Nat /\ 1..k \in SUBSET Nat
      BY <1>5
    <2>2. 1..k \subseteq 1..m /\ m \notin 1..k /\ m \in 1..m
      BY <1>6
    <2>3. <<1..k, x>> \in StrictSubsetOrdering(Nat)
      BY <2>1, <2>2, <1>5 DEF StrictSubsetOrdering
    <2> QED
      BY <2>3, <2>1, <1>4
  <1> QED
    BY <1>6
-----------------------------------------------------------------------------
TypeIdInfo == [at : Nat \ {0}, kind : {"plain", "array", "function"}]
ParamInfo == [id : TypeIdInfo, name : TypeName, mode : {"value", "ref", "semi"}]
Symbol == FunctionNames \cup DynamicNames \cup TypeName \cup Nat
          \cup {"_ctor_", "_dtor_", "_copy", "_initize_by_null",
                "_runtime_ctor", "_runtime_dtor"}
FactoryInfo == [name : Seq(Symbol), params : Seq(ParamInfo), dynamic : BOOLEAN]

Marked == mark # NoMark

Shape ==
    /\ mark \in [functions : Nat, types : Nat]
    /\ DOMAIN forgotten = {"dynamics", "copies", "many", "calls", "names", "infos"}

\* Names lead to types, plain ones always; an array's element comes before it.
TypeTables ==
    /\ types \in Seq(TypeName) /\ Len(types) >= 1
    /\ \A n \in DOMAIN typeIds : n \in TypeName /\ typeIds[n] \in TypeIdInfo
    /\ BasicTypes[1] \in DOMAIN typeIds
    /\ typeIds[BasicTypes[1]] = TypeId(1, "plain")
    /\ structs \subseteq 1 .. Len(types)
    /\ \A n \in forgotten.names :
          n \in DOMAIN typeIds /\ typeIds[n].kind # "plain"
    /\ \A n \in DOMAIN typeIds \ forgotten.names :
          typeIds[n].at \in DOMAIN types /\ types[typeIds[n].at] = n
    /\ \A t \in DOMAIN arrayInfo \ forgotten.infos :
          LET array == Arrays[types[t.at]] IN
          /\ t.at \in DOMAIN types
          /\ arrayInfo[t].count = array.count
          /\ array.element \in DOMAIN typeIds
          /\ arrayInfo[t].element = typeIds[array.element]
          /\ arrayInfo[t].element.kind = "plain" => arrayInfo[t].element.at < t.at

\* Below the mark the types are those of the system library.
SystemTypes ==
    Marked =>
        /\ mark.types \in 1 .. Len(types)
        /\ system.types = SubSeq(types, 1, mark.types)
        /\ system.structs = {i \in structs : i =< mark.types}
        /\ PlainOf(system.typeIds) =
               {<<n, typeIds[n]>> : n \in {m \in DOMAIN typeIds :
                    typeIds[m].kind = "plain" /\ typeIds[m].at =< mark.types}}

\* The overloads are those of the factories that were neither refused nor
\* dynamic, and no two of them have the same name and parameters.
Found(factory) == factory # NoFactory /\ ~factory.dynamic
Overload(i) == Item(factories[i].name, factories[i].params, i)
Overloaded == {i \in DOMAIN factories : Found(factories[i])}

\* The parameters of every function have the type ids their names still have:
\* a clear that takes a type takes the functions that mention it.
KnownParam(param) == param.name \in DOMAIN typeIds /\ typeIds[param.name] = param.id
KnownParams(factory) == \A k \in DOMAIN factory.params : KnownParam(factory.params[k])

FunctionTables ==
    /\ factories \in Seq(FactoryInfo)
    /\ overloads = {Overload(i) : i \in Overloaded}
    /\ \A i, j \in Overloaded :
          factories[i].name = factories[j].name
          /\ factories[i].params = factories[j].params => i = j
    /\ \A i \in DOMAIN factories : KnownParams(factories[i])

SystemFunctions ==
    Marked =>
        /\ mark.functions \in 0 .. Len(factories)
        /\ system.factories = SubSeq(factories, 1, mark.functions)
        /\ system.overloads = {o \in overloads : o.id =< mark.functions}
        /\ \A i \in 1 .. mark.functions : \A k \in DOMAIN factories[i].params :
              factories[i].params[k].id.kind = "plain"
                  => factories[i].params[k].id.at =< mark.types

\* Operators lead to functions of their type.
OperatorTables ==
    /\ OperatorsAreOfTheirType
    /\ \A n \in DOMAIN dynamics \ forgotten.dynamics :
          /\ dynamics[n] \in DOMAIN factories
          /\ factories[dynamics[n]] = DynamicFactory(n)
    /\ \A k \in DOMAIN copies \ forgotten.copies :
          /\ IsFunctionOf(copies[k], k[1], 2)
          /\ factories[copies[k]].params[2] = k[2]
    /\ \A t \in DOMAIN many \ forgotten.many :
          \A id \in many[t] : IsFunctionOf(id, t, 3)

Below(f) == {<<t, f[t]>> : t \in {s \in DOMAIN f : s.kind = "plain" /\ f[s] =< mark.functions}}

SystemOperators ==
    Marked =>
        /\ PlainOperators(system.constructors) = Below(constructors)
        /\ PlainOperators(system.destructors) \cap PlainOperators(destructors)
               = Below(destructors)
        /\ \A x \in PlainOperators(system.destructors) : x[2] =< mark.functions

\* The operator() of a type leads to a function of the type, which is there.
CallTables ==
    \A t \in DOMAIN calls \ forgotten.calls :
        /\ IsCallOperator(calls[t], t)
        /\ t.at \in DOMAIN types \/ \E n \in forgotten.names : typeIds[n] = t

Tables ==
    /\ Shape
    /\ TypeTables /\ SystemTypes
    /\ FunctionTables /\ SystemFunctions
    /\ OperatorTables /\ SystemOperators
IInv == Tables /\ CallTables
-----------------------------------------------------------------------------
\* A name that is registered is new, and so is its id.
LEMMA RegistTypeFields ==
    ASSUME Tables, NEW name \in TypeName, NEW kind \in {"plain", "array", "function"},
           RegistType(name, kind)
    PROVE  /\ name \notin DOMAIN typeIds
           /\ types' \in Seq(TypeName) /\ Len(types') = Len(types) + 1
           /\ Len(types) \in Nat
           /\ \A i \in 1 .. Len(types) : types'[i] = types[i]
           /\ types'[Len(types) + 1] = name
           /\ DOMAIN typeIds' = DOMAIN typeIds \cup {name}
           /\ typeIds'[name] = TypeId(Len(types) + 1, kind)
           /\ TypeId(Len(types) + 1, kind) \in TypeIdInfo
           /\ \A n \in DOMAIN typeIds : typeIds'[n] = typeIds[n]
  <1>1. types \in Seq(TypeName) /\ Len(types) \in Nat
    BY DEF Tables, TypeTables
  <1>2. /\ name \notin DOMAIN typeIds /\ types' = Append(types, name)
        /\ typeIds' = Put(typeIds, name, TypeId(Len(types) + 1, kind))
    BY DEF RegistType
  <1>3. TypeId(Len(types) + 1, kind) \in TypeIdInfo
    BY <1>1 DEF TypeId, TypeIdInfo
  <1>4. /\ types' \in Seq(TypeName) /\ Len(types') = Len(types) + 1
        /\ \A i \in 1 .. Len(types) : types'[i] = types[i]
        /\ types'[Len(types) + 1] = name
    BY <1>1, <1>2
  <1>5. /\ DOMAIN typeIds' = DOMAIN typeIds \cup {name}
        /\ typeIds'[name] = TypeId(Len(types) + 1, kind)
        /\ \A n \in DOMAIN typeIds \ {name} : typeIds'[n] = typeIds[n]
    BY <1>2 DEF Put
  <1> QED
    BY <1>1, <1>2, <1>3, <1>4, <1>5

\* A type that is registered disturbs no other.
LEMMA TypeTablesGrow ==
    ASSUME Tables, NEW name \in TypeName, NEW kind \in {"plain", "array", "function"},
           RegistType(name, kind),
           structs' = structs \/ structs' = structs \cup {Len(types) + 1},
           \/ arrayInfo' = arrayInfo
           \/ /\ kind = "array" /\ Arrays[name].element \in DOMAIN typeIds
              /\ TypeId(Len(types) + 1, kind) \notin DOMAIN arrayInfo
              /\ arrayInfo' = Put(arrayInfo, TypeId(Len(types) + 1, kind),
                                  [element |-> typeIds[Arrays[name].element],
                                   count   |-> Arrays[name].count]),
           UNCHANGED <<mark, system>>, forgotten'.names = forgotten.names,
           forgotten'.infos = forgotten.infos
    PROVE  TypeTables' /\ SystemTypes'
  <1> DEFINE id == TypeId(Len(types) + 1, kind)
             n1 == Len(types) + 1
  <1>1. /\ name \notin DOMAIN typeIds
        /\ types' \in Seq(TypeName) /\ Len(types') = n1
        /\ Len(types) \in Nat
        /\ \A i \in 1 .. Len(types) : types'[i] = types[i]
        /\ types'[n1] = name
        /\ DOMAIN typeIds' = DOMAIN typeIds \cup {name}
        /\ typeIds'[name] = id /\ id \in TypeIdInfo
        /\ \A n \in DOMAIN typeIds : typeIds'[n] = typeIds[n]
    BY RegistTypeFields
  <1>2. id.at = n1 /\ id.kind = kind
    BY DEF TypeId
  <1>3. TypeTables /\ types \in Seq(TypeName) /\ DOMAIN types = 1 .. Len(types)
        /\ DOMAIN types' = 1 .. n1
    BY <1>1 DEF Tables, TypeTables
  <1> HIDE DEF id
  <1>4. /\ \A n \in DOMAIN typeIds' : n \in TypeName /\ typeIds'[n] \in TypeIdInfo
        /\ BasicTypes[1] \in DOMAIN typeIds'
        /\ typeIds'[BasicTypes[1]] = TypeId(1, "plain")
    BY <1>1, <1>3 DEF TypeTables
  <1>5. structs' \subseteq 1 .. Len(types')
    <2> SUFFICES ASSUME NEW i \in structs' PROVE i \in 1 .. n1
      BY <1>1
    <2>1. i \in structs \/ i = Len(types) + 1
      OBVIOUS
    <2>2. structs \subseteq 1 .. Len(types)
      BY <1>3 DEF TypeTables
    <2>3. i \in 1 .. Len(types) \/ i = Len(types) + 1
      BY <2>1, <2>2
    <2> QED
      BY <1>1, <2>3
  <1>6. \A n \in forgotten'.names :
          n \in DOMAIN typeIds' /\ typeIds'[n].kind # "plain"
    BY <1>1, <1>3 DEF TypeTables
  <1>7. \A n \in DOMAIN typeIds' \ forgotten'.names :
          typeIds'[n].at \in DOMAIN types' /\ types'[typeIds'[n].at] = n
    BY <1>1, <1>2, <1>3 DEF TypeTables
  <1>8. ASSUME NEW t \in DOMAIN arrayInfo' \ forgotten'.infos
        PROVE  LET array == Arrays[types'[t.at]] IN
               /\ t.at \in DOMAIN types'
               /\ arrayInfo'[t].count = array.count
               /\ array.element \in DOMAIN typeIds'
               /\ arrayInfo'[t].element = typeIds'[array.element]
               /\ arrayInfo'[t].element.kind = "plain" => arrayInfo'[t].element.at < t.at
    <2>1. CASE t \in DOMAIN arrayInfo /\ arrayInfo'[t] = arrayInfo[t]
      BY <1>1, <1>3, <2>1 DEF TypeTables
    <2>2. CASE /\ t = id /\ Arrays[name].element \in DOMAIN typeIds
               /\ arrayInfo'[t] = [element |-> typeIds[Arrays[name].element],
                                   count   |-> Arrays[name].count]
      <3> DEFINE element == Arrays[name].element
      <3>1. t.at \in DOMAIN types' /\ types'[t.at] = name
        BY <1>1, <1>2, <1>3, <2>2
      <3>2. typeIds[element].kind = "plain" => typeIds[element].at \in 1 .. Len(types)
        BY <1>3, <2>2 DEF TypeTables
      <3> QED
        BY <1>1, <1>2, <2>2, <3>1, <3>2
    <2>3. CASE arrayInfo' = arrayInfo
      BY <2>1, <2>3
    <2>4. CASE arrayInfo' # arrayInfo
      <3> DEFINE info == [element |-> typeIds[Arrays[name].element],
                          count   |-> Arrays[name].count]
      <3>1. /\ Arrays[name].element \in DOMAIN typeIds
            /\ id \notin DOMAIN arrayInfo /\ arrayInfo' = Put(arrayInfo, id, info)
        BY <2>4 DEF id
      <3> HIDE DEF info
      <3>2. /\ DOMAIN arrayInfo' = DOMAIN arrayInfo \cup {id}
            /\ arrayInfo'[id] = info
            /\ \A x \in DOMAIN arrayInfo \ {id} : arrayInfo'[x] = arrayInfo[x]
        BY <3>1 DEF Put
      <3>3. CASE t = id
        BY <2>2, <3>1, <3>2, <3>3 DEF info
      <3>4. CASE t # id
        <4>1. t \in DOMAIN arrayInfo /\ arrayInfo'[t] = arrayInfo[t]
          BY <3>2, <3>4
        <4> QED
          BY <2>1, <4>1
      <3> QED
        BY <3>3, <3>4
    <2> QED
      BY <2>3, <2>4
  <1>9. SystemTypes'
    <2> SUFFICES ASSUME Marked
                 PROVE  /\ mark.types \in 1 .. Len(types')
                        /\ system.types = SubSeq(types', 1, mark.types)
                        /\ system.structs = {i \in structs' : i =< mark.types}
                        /\ PlainOf(system.typeIds) =
                               {<<n, typeIds'[n]>> : n \in {m \in DOMAIN typeIds' :
                                    typeIds'[m].kind = "plain" /\ typeIds'[m].at =< mark.types}}
      BY DEF SystemTypes, Marked
    <2>1. /\ mark.types \in 1 .. Len(types)
          /\ system.types = SubSeq(types, 1, mark.types)
          /\ system.structs = {i \in structs : i =< mark.types}
          /\ PlainOf(system.typeIds) =
                 {<<n, typeIds[n]>> : n \in {m \in DOMAIN typeIds :
                      typeIds[m].kind = "plain" /\ typeIds[m].at =< mark.types}}
      BY DEF Tables, SystemTypes
    <2>2. SubSeq(types', 1, mark.types) = SubSeq(types, 1, mark.types)
      BY <1>1, <2>1 DEF RegistType
    <2>3. {i \in structs' : i =< mark.types} = {i \in structs : i =< mark.types}
      BY <1>1, <2>1
    <2>4. {m \in DOMAIN typeIds' : typeIds'[m].kind = "plain" /\ typeIds'[m].at =< mark.types}
          = {m \in DOMAIN typeIds : typeIds[m].kind = "plain" /\ typeIds[m].at =< mark.types}
      <3>1. ~ (n1 =< mark.types)
        BY <1>1, <2>1
      <3> QED
        BY <1>1, <1>2, <3>1
    <2> QED
      BY <1>1, <2>1, <2>2, <2>3, <2>4
  <1> QED
    BY <1>1, <1>3, <1>4, <1>5, <1>6, <1>7, <1>8, <1>9 DEF TypeTables

\* Functions that are registered disturb no other.
LEMMA FunctionsGrow ==
    ASSUME Tables,
           factories' \in Seq(FactoryInfo), Len(factories') >= Len(factories),
           \A i \in 1 .. Len(factories) : factories'[i] = factories[i],
           overloads' = overloads \cup
               {Item(factories'[i].name, factories'[i].params, i) :
                   i \in {j \in Len(factories) + 1 .. Len(factories') : Found(factories'[j])}},
           \A i \in Len(factories) + 1 .. Len(factories') :
               Found(factories'[i]) => ~Taken(factories'[i].name, factories'[i].params),
           \A i, j \in Len(factories) + 1 .. Len(factories') :
               factories'[i].name = factories'[j].name => i = j \/ ~Found(factories'[i]),
           \A i \in Len(factories) + 1 .. Len(factories') : KnownParams(factories[i])',
           \A n \in DOMAIN typeIds : n \in DOMAIN typeIds' /\ typeIds'[n] = typeIds[n],
           UNCHANGED <<mark, system>>
    PROVE  FunctionTables' /\ SystemFunctions'
  <1> DEFINE n0 == Len(factories)
             n1 == Len(factories')
             F(i) == factories'[i]
  <1>1. /\ FunctionTables /\ SystemFunctions
        /\ n0 \in Nat /\ n1 \in Nat /\ DOMAIN factories = 1 .. n0
        /\ DOMAIN factories' = 1 .. n1 /\ 1 .. n1 = (1 .. n0) \cup (n0 + 1 .. n1)
        /\ Overloaded \subseteq 1 .. n0
    BY DEF Tables, FunctionTables, Overloaded
  <1>2. Overloaded' = Overloaded \cup {j \in n0 + 1 .. n1 : Found(F(j))}
    <2>1. Overloaded' = {j \in 1 .. n1 : Found(F(j))}
      BY <1>1 DEF Overloaded, Found
    <2>2. Overloaded = {j \in 1 .. n0 : Found(F(j))}
      BY <1>1 DEF Overloaded, Found
    <2> QED
      BY <1>1, <2>1, <2>2
  <1>3. \A i \in 1 .. n1 : Overload(i)' = Item(F(i).name, F(i).params, i)
    BY DEF Overload, Item
  <1>4. \A i \in 1 .. n0 : Overload(i)' = Overload(i)
    BY DEF Overload, Item
  <1>5. overloads = {Overload(i) : i \in Overloaded}
    BY <1>1 DEF FunctionTables
  <1>6. (overloads = {Overload(i) : i \in Overloaded})'
    <2>1. overloads' = {Overload(i)' : i \in Overloaded'}
      BY <1>1, <1>2, <1>3, <1>4, <1>5
    <2> QED
      BY <2>1
  <1>7. ASSUME NEW i \in Overloaded', NEW j \in Overloaded', F(i).name = F(j).name,
               F(i).params = F(j).params
        PROVE  i = j
    <2>1. ASSUME NEW k \in Overloaded, NEW l \in n0 + 1 .. n1, Found(F(l)),
                 F(k).name = F(l).name, F(k).params = F(l).params
          PROVE  FALSE
      <3>1. Overload(k) \in overloads /\ Overload(k).name = F(l).name
            /\ Overload(k).params = F(l).params
        BY <1>1, <1>5, <2>1 DEF Overload, Item
      <3> QED
        BY <2>1, <3>1 DEF Taken
    <2>2. CASE i \in Overloaded /\ j \in Overloaded
      BY <1>1, <1>7, <2>2 DEF FunctionTables
    <2>3. CASE i \notin Overloaded /\ j \notin Overloaded
      BY <1>2, <1>7, <2>3
    <2> QED
      BY <1>2, <1>7, <2>1, <2>2, <2>3
  <1>8. ASSUME NEW i \in 1 .. n1
        PROVE  KnownParams(factories[i])'
    <2>1. CASE i \in 1 .. n0
      <3>1. KnownParams(factories[i]) /\ F(i) = factories[i]
        BY <1>1, <2>1 DEF FunctionTables
      <3> QED
        BY <3>1 DEF KnownParams, KnownParam
    <2> QED
      BY <1>1, <2>1
  <1>9. FunctionTables'
    BY <1>1, <1>6, <1>7, <1>8 DEF FunctionTables
  <1>10. SystemFunctions'
    <2> SUFFICES ASSUME Marked
                 PROVE  /\ mark.functions \in 0 .. n1
                        /\ system.factories = SubSeq(factories', 1, mark.functions)
                        /\ system.overloads = {o \in overloads' : o.id =< mark.functions}
                        /\ \A i \in 1 .. mark.functions : \A k \in DOMAIN F(i).params :
                              F(i).params[k].id.kind = "plain"
                                  => F(i).params[k].id.at =< mark.types
      BY DEF SystemFunctions, Marked
    <2>1. /\ mark.functions \in 0 .. n0
          /\ system.factories = SubSeq(factories, 1, mark.functions)
          /\ system.overloads = {o \in overloads : o.id =< mark.functions}
          /\ \A i \in 1 .. mark.functions : \A k \in DOMAIN factories[i].params :
                factories[i].params[k].id.kind = "plain"
                    => factories[i].params[k].id.at =< mark.types
      BY <1>1 DEF SystemFunctions
    <2>2. SubSeq(factories', 1, mark.functions) = SubSeq(factories, 1, mark.functions)
      BY <1>1, <2>1
    <2>3. {o \in overloads' : o.id =< mark.functions}
          = {o \in overloads : o.id =< mark.functions}
      <3>1. ASSUME NEW i \in n0 + 1 .. n1
            PROVE  ~ (Item(F(i).name, F(i).params, i).id =< mark.functions)
        BY <1>1, <2>1 DEF Item
      <3> QED
        BY <3>1
    <2> QED
      BY <1>1, <2>1, <2>2, <2>3
  <1> QED
    BY <1>9, <1>10

\* Functions are not disturbed by types that are registered.
LEMMA FunctionsStay ==
    ASSUME Tables, UNCHANGED functionVars,
           \A n \in DOMAIN typeIds : n \in DOMAIN typeIds' /\ typeIds'[n] = typeIds[n],
           UNCHANGED <<mark, system>>
    PROVE  FunctionTables' /\ SystemFunctions'
  <1>1. FunctionTables /\ SystemFunctions
    BY DEF Tables
  <1>2. ASSUME NEW i \in DOMAIN factories
        PROVE  KnownParams(factories[i])'
    <2>1. KnownParams(factories[i])
      BY <1>1 DEF FunctionTables
    <2> QED
      BY <2>1 DEF KnownParams, KnownParam, functionVars
  <1>3. overloads' = overloads /\ factories' = factories
        /\ Overloaded' = Overloaded /\ \A i : Overload(i)' = Overload(i)
    BY DEF functionVars, Overloaded, Overload
  <1>4. (overloads = {Overload(i) : i \in Overloaded})'
    BY <1>1, <1>3 DEF FunctionTables
  <1>5. FunctionTables'
    BY <1>1, <1>2, <1>3, <1>4 DEF FunctionTables
  <1>6. SystemFunctions'
    BY <1>1, <1>3 DEF SystemFunctions, Marked
  <1> QED
    BY <1>5, <1>6

\* Types are not disturbed by functions that are registered.
LEMMA TypesStay ==
    ASSUME Tables, UNCHANGED <<typeVars, mark, system>>,
           forgotten'.names = forgotten.names, forgotten'.infos = forgotten.infos
    PROVE  TypeTables' /\ SystemTypes'
  <1>1. TypeTables /\ SystemTypes
    BY DEF Tables
  <1>2. TypeTables'
    BY <1>1 DEF TypeTables, typeVars
  <1>3. SystemTypes'
    BY <1>1 DEF SystemTypes, Marked, typeVars
  <1> QED
    BY <1>2, <1>3

\* Operators whose new entries lead to new functions of their type lead to
\* functions of their type.
LEMMA OperatorsGrow ==
    ASSUME Tables,
           factories' \in Seq(FactoryInfo), Len(factories') >= Len(factories),
           \A i \in 1 .. Len(factories) : factories'[i] = factories[i],
           \A t \in DOMAIN constructors :
               t \in DOMAIN constructors' /\ constructors'[t] = constructors[t],
           \A t \in DOMAIN constructors' :
               t \in DOMAIN constructors
               \/ (t.kind = "plain" => constructors'[t] > Len(factories)
                                       /\ IsFunctionOf(constructors[t], t, 1)'),
           \A t \in DOMAIN destructors' :
               (t \in DOMAIN destructors /\ destructors'[t] = destructors[t])
               \/ (t.kind = "plain" => destructors'[t] > Len(factories)
                                       /\ IsFunctionOf(destructors[t], t, 1)'),
           \A n \in DOMAIN dynamics' \ forgotten.dynamics :
               (n \in DOMAIN dynamics /\ dynamics'[n] = dynamics[n])
               \/ (dynamics'[n] \in DOMAIN factories'
                   /\ factories'[dynamics'[n]] = DynamicFactory(n)),
           \A k \in DOMAIN copies' \ forgotten'.copies :
               (k \in DOMAIN copies \ forgotten.copies /\ copies'[k] = copies[k])
               \/ (IsFunctionOf(copies[k], k[1], 2)'
                   /\ factories'[copies'[k]].params[2] = k[2]),
           \A t \in DOMAIN many' \ forgotten.many : \A id \in many'[t] :
               (t \in DOMAIN many /\ id \in many[t]) \/ IsFunctionOf(id, t, 3)',
           forgotten'.dynamics = forgotten.dynamics, forgotten'.many = forgotten.many,
           UNCHANGED <<mark, system>>
    PROVE  OperatorTables' /\ SystemOperators'
  <1>1. /\ OperatorTables /\ SystemOperators /\ SystemFunctions
        /\ Len(factories) \in Nat /\ Len(factories') \in Nat
        /\ DOMAIN factories = 1 .. Len(factories)
        /\ DOMAIN factories' = 1 .. Len(factories')
    BY DEF Tables, FunctionTables
  <1>2. ASSUME NEW id, NEW t, NEW n \in Nat, IsFunctionOf(id, t, n)
        PROVE  IsFunctionOf(id, t, n)'
    BY <1>1, <1>2 DEF IsFunctionOf
  <1>3. OperatorsAreOfTheirType'
    <2> SUFFICES /\ \A t \in DOMAIN constructors' :
                       t.kind = "plain" => IsFunctionOf(constructors[t], t, 1)'
                 /\ \A t \in DOMAIN destructors' :
                       t.kind = "plain" => IsFunctionOf(destructors[t], t, 1)'
      BY DEF OperatorsAreOfTheirType
    <2>1. /\ \A t \in DOMAIN constructors :
                t.kind = "plain" => IsFunctionOf(constructors[t], t, 1)
          /\ \A t \in DOMAIN destructors :
                t.kind = "plain" => IsFunctionOf(destructors[t], t, 1)
      BY <1>1 DEF OperatorTables, OperatorsAreOfTheirType
    <2>2. \A t \in DOMAIN constructors' :
                t.kind = "plain" => IsFunctionOf(constructors[t], t, 1)'
      BY <1>1, <2>1 DEF IsFunctionOf
    <2>3. \A t \in DOMAIN destructors' :
                t.kind = "plain" => IsFunctionOf(destructors[t], t, 1)'
      BY <1>1, <2>1 DEF IsFunctionOf
    <2> QED
      BY <2>2, <2>3
  <1>4. ASSUME NEW n \in DOMAIN dynamics' \ forgotten'.dynamics
        PROVE  /\ dynamics'[n] \in DOMAIN factories'
               /\ factories'[dynamics'[n]] = DynamicFactory(n)
    BY <1>1 DEF OperatorTables
  <1>5. ASSUME NEW k \in DOMAIN copies' \ forgotten'.copies
        PROVE  /\ IsFunctionOf(copies[k], k[1], 2)'
               /\ factories'[copies'[k]].params[2] = k[2]
    BY <1>1 DEF OperatorTables, IsFunctionOf
  <1>6. ASSUME NEW t \in DOMAIN many' \ forgotten'.many, NEW id \in many'[t]
        PROVE  IsFunctionOf(id, t, 3)'
    BY <1>1, <1>2 DEF OperatorTables
  <1>7. OperatorTables'
    BY <1>3, <1>4, <1>5, <1>6 DEF OperatorTables
  <1>8. SystemOperators'
    <2> SUFFICES ASSUME Marked
                 PROVE  /\ PlainOperators(system.constructors) = Below(constructors)'
                        /\ PlainOperators(system.destructors) \cap PlainOperators(destructors')
                               = Below(destructors)'
                        /\ \A x \in PlainOperators(system.destructors) : x[2] =< mark.functions
      BY DEF SystemOperators, Marked, PlainOperators
    <2>1. /\ mark.functions \in 0 .. Len(factories)
          /\ PlainOperators(system.constructors) = Below(constructors)
          /\ PlainOperators(system.destructors) \cap PlainOperators(destructors)
                 = Below(destructors)
          /\ \A x \in PlainOperators(system.destructors) : x[2] =< mark.functions
      BY <1>1 DEF SystemOperators, SystemFunctions
    <2>2. Below(constructors)' = Below(constructors)
      <3>1. {s \in DOMAIN constructors' : s.kind = "plain" /\ constructors'[s] =< mark.functions}
            = {s \in DOMAIN constructors : s.kind = "plain" /\ constructors[s] =< mark.functions}
        BY <1>1, <2>1, <1>7 DEF OperatorTables, OperatorsAreOfTheirType, IsFunctionOf
      <3> QED
        BY <3>1 DEF Below
    <2>3. ASSUME NEW x \in PlainOperators(system.destructors),
                 x \in PlainOperators(destructors')
          PROVE  x \in Below(destructors)'
      <3>1. PICK t \in DOMAIN destructors' : t.kind = "plain" /\ x = <<t, destructors'[t]>>
        BY <2>3 DEF PlainOperators
      <3>2. destructors'[t] =< mark.functions
        BY <2>1, <3>1
      <3> QED
        BY <3>1, <3>2 DEF Below
    <2>4. ASSUME NEW x \in Below(destructors)'
          PROVE  x \in PlainOperators(system.destructors) /\ x \in PlainOperators(destructors')
      <3>1. PICK t \in DOMAIN destructors' :
                t.kind = "plain" /\ destructors'[t] =< mark.functions /\ x = <<t, destructors'[t]>>
        BY DEF Below
      <3>2. t \in DOMAIN destructors /\ destructors'[t] = destructors[t]
        BY <1>1, <1>3, <2>1, <3>1 DEF OperatorsAreOfTheirType, IsFunctionOf
      <3>3. x \in Below(destructors)
        BY <3>1, <3>2 DEF Below
      <3> QED
        BY <2>1, <3>1, <3>3 DEF PlainOperators
    <2> QED
      BY <2>1, <2>2, <2>3, <2>4
  <1> QED
    BY <1>7, <1>8

\* Some number gives a constructor or destructor a name that is not taken.
LEMMA AutoNameIsFree ==
    ASSUME Tables, NEW prefix, NEW type, NEW params
    PROVE  /\ AutoName(prefix, type, params) \in Nat
           /\ ~Taken(<<prefix, type, AutoName(prefix, type, params)>>, params)
  <1> DEFINE L == Len(factories)
             C(i) == Taken(<<prefix, type, i>>, params)
             Free == {i \in 0 .. L : ~C(i)}
  <1>1. L \in Nat /\ DOMAIN factories = 1 .. L
    BY DEF Tables, FunctionTables
  <1>2. Free # {}
    <2> SUFFICES ASSUME Free = {} PROVE FALSE
      OBVIOUS
    <2>1. \A i \in 0 .. L : \E id \in 1 .. L : factories[id].name = <<prefix, type, i>>
      <3> SUFFICES ASSUME NEW i \in 0 .. L
                   PROVE  \E id \in 1 .. L : factories[id].name = <<prefix, type, i>>
        OBVIOUS
      <3>1. PICK o \in overloads : o.name = <<prefix, type, i>>
        BY DEF Taken
      <3>2. PICK id \in Overloaded : o = Overload(id)
        BY DEF Tables, FunctionTables
      <3> QED
        BY <1>1, <3>1, <3>2 DEF Overloaded, Overload, Item
    <2> DEFINE id == [i \in 0 .. L |-> CHOOSE x \in 1 .. L : factories[x].name = <<prefix, type, i>>]
    <2>2. id \in [0 .. L -> 1 .. L] /\ \A i \in 0 .. L : factories[id[i]].name = <<prefix, type, i>>
      BY <2>1
    <2>3. /\ IsFiniteSet(0 .. L) /\ IsFiniteSet(1 .. L)
          /\ Cardinality(1 .. L) < Cardinality(0 .. L)
      BY <1>1, FS_Interval
    <2> HIDE DEF id
    <2>4. PICK i \in 0 .. L, j \in 0 .. L : i # j /\ id[i] = id[j]
      <3> DEFINE S == 0 .. L
                 T == 1 .. L
      <3>1. /\ IsFiniteSet(S) /\ IsFiniteSet(T)
            /\ Cardinality(T) < Cardinality(S) /\ id \in [S -> T]
        BY <2>2, <2>3
      <3> HIDE DEF S, T
      <3>2. \E i, j \in S : i # j /\ id[i] = id[j]
        BY <3>1, FS_PigeonHole
      <3> QED
        BY <3>2 DEF S
    <2>5. <<prefix, type, i>> = <<prefix, type, j>>
      BY <2>2, <2>4
    <2> QED
      BY <2>4, <2>5
  <1>3. PICK m \in Free : \A k \in Free : m =< k
    <2>1. Free \in SUBSET Nat
      OBVIOUS
    <2> HIDE DEF Free
    <2> QED
      BY <1>2, <2>1, Least
  <1>4. m \in 0 .. L /\ ~C(m) /\ \A j \in 0 .. m - 1 : C(j)
    BY <1>1, <1>3
  <1> DEFINE a == AutoName(prefix, type, params)
  <1>5. a \in 0 .. L /\ ~C(a)
    <2> HIDE DEF C
    <2>1. a = CHOOSE i \in 0 .. L : ~C(i) /\ \A j \in 0 .. i - 1 : C(j)
      BY DEF AutoName, C
    <2> QED
      BY <1>4, <2>1
  <1> QED
    BY <1>5
-----------------------------------------------------------------------------
\* Arguments of known types become parameters the type tables agree with.
LEMMA ArgumentsAreKnown ==
    ASSUME TypeTables,
           NEW list \in Seq([name : TypeName, mode : {"value", "ref", "semi"}]),
           Known(list)
    PROVE  /\ ArgumentTypes(list) \in Seq(ParamInfo)
           /\ Len(ArgumentTypes(list)) = Len(list)
           /\ \A k \in DOMAIN ArgumentTypes(list) : KnownParam(ArgumentTypes(list)[k])
  <1> DEFINE params == ArgumentTypes(list)
  <1>1. DOMAIN list = 1 .. Len(list) /\ Len(list) \in Nat
    OBVIOUS
  <1>2. ASSUME NEW k \in 1 .. Len(list)
        PROVE  params[k] \in ParamInfo /\ KnownParam(params[k])
    <2>1. /\ list[k] \in [name : TypeName, mode : {"value", "ref", "semi"}]
          /\ list[k].name \in DOMAIN typeIds
      <3>1. \A i \in DOMAIN list : list[i].name \in DOMAIN typeIds
        BY DEF Known
      <3>2. list[k] \in [name : TypeName, mode : {"value", "ref", "semi"}]
        <4> DEFINE P == [name : TypeName, mode : {"value", "ref", "semi"}]
        <4>1. list \in Seq(P)
          OBVIOUS
        <4> HIDE DEF P
        <4>2. list[k] \in P
          BY <1>1, <1>2, <4>1
        <4> QED
          BY <4>2 DEF P
      <3>3. k \in DOMAIN list
        BY <1>1, <1>2
      <3> QED
        BY <3>1, <3>2, <3>3
    <2>2. params[k] = [id |-> typeIds[list[k].name], name |-> list[k].name,
                       mode |-> list[k].mode]
      BY <1>1, <1>2 DEF ArgumentTypes, ScriptType
    <2>3. typeIds[list[k].name] \in TypeIdInfo
      BY <2>1 DEF TypeTables
    <2> QED
      BY <2>1, <2>2, <2>3 DEF ParamInfo, KnownParam
  <1>3. params = [k \in 1 .. Len(list) |-> params[k]]
    BY <1>1 DEF ArgumentTypes
  <1> HIDE DEF params
  <1>4. params \in [1 .. Len(list) -> ParamInfo]
    BY <1>2, <1>3
  <1>5. params \in Seq(ParamInfo) /\ Len(params) = Len(list)
    BY <1>1, <1>4
  <1> QED
    BY <1>1, <1>2, <1>5 DEF params

\* One function that is registered disturbs no other and comes last.
LEMMA OneFunction ==
    ASSUME Tables, NEW new \in FactoryInfo, KnownParams(new),
           factories' = Append(factories, new),
           IF Found(new)
           THEN /\ overloads' = overloads \cup {Item(new.name, new.params, NextId)}
                /\ ~Taken(new.name, new.params)
           ELSE overloads' = overloads,
           UNCHANGED <<typeVars, mark, system>>
    PROVE  /\ FunctionTables' /\ SystemFunctions'
           /\ NextId = Len(factories) + 1 /\ Len(factories) \in Nat
           /\ factories' \in Seq(FactoryInfo) /\ Len(factories') = NextId
           /\ DOMAIN factories' = 1 .. NextId
           /\ \A i \in 1 .. Len(factories) : factories'[i] = factories[i]
           /\ factories'[NextId] = new
  <1>1. factories \in Seq(FactoryInfo) /\ Len(factories) \in Nat
    BY DEF Tables, FunctionTables
  <1>2. NextId = Len(factories) + 1
    BY DEF NextId
  <1>3. /\ factories' \in Seq(FactoryInfo) /\ Len(factories') = NextId
        /\ DOMAIN factories' = 1 .. NextId
        /\ \A i \in 1 .. Len(factories) : factories'[i] = factories[i]
        /\ factories'[NextId] = new
    BY <1>1, <1>2
  <1>4. Len(factories) + 1 .. Len(factories') = {NextId}
    BY <1>1, <1>2, <1>3
  <1>5. overloads' = overloads \cup
               {Item(factories'[i].name, factories'[i].params, i) :
                   i \in {j \in Len(factories) + 1 .. Len(factories') : Found(factories'[j])}}
    <2>1. CASE Found(new)
      <3>1. {j \in Len(factories) + 1 .. Len(factories') : Found(factories'[j])} = {NextId}
        BY <1>3, <1>4, <2>1
      <3> QED
        BY <1>3, <2>1, <3>1
    <2>2. CASE ~Found(new)
      <3>1. {j \in Len(factories) + 1 .. Len(factories') : Found(factories'[j])} = {}
        BY <1>3, <1>4, <2>2
      <3> QED
        BY <2>2, <3>1
    <2> QED
      BY <2>1, <2>2
  <1>6. typeIds' = typeIds /\ mark' = mark /\ system' = system
    BY DEF typeVars
  <1>7. ASSUME NEW i \in Len(factories) + 1 .. Len(factories')
        PROVE  i = NextId /\ KnownParams(factories[i])'
    <2>1. i = NextId /\ factories'[i] = new
      BY <1>3, <1>4
    <2> QED
      BY <1>6, <2>1 DEF KnownParams, KnownParam
  <1>8. /\ \A i \in Len(factories) + 1 .. Len(factories') :
               Found(factories'[i]) => ~Taken(factories'[i].name, factories'[i].params)
        /\ \A i, j \in Len(factories) + 1 .. Len(factories') : i = j
    BY <1>3, <1>4
  <1>9. FunctionTables' /\ SystemFunctions'
    BY <1>1, <1>2, <1>3, <1>5, <1>6, <1>7, <1>8, FunctionsGrow
  <1> QED
    BY <1>1, <1>2, <1>3, <1>9
-----------------------------------------------------------------------------
\* What each registration of a function, type or operator preserves.
LEMMA RegistFunctionPreserves ==
    ASSUME Tables, NEW n \in FunctionNames, NEW list \in ParamLists,
           RegistFunction(<<n>>, list)
    PROVE  Tables'
  <1> DEFINE params == ArgumentTypes(list)
             new == Factory(<<n>>, params)
  <1>1. /\ Known(list) /\ ~Taken(<<n>>, params)
        /\ overloads' = overloads \cup {Item(<<n>>, params, NextId)}
        /\ factories' = Append(factories, new)
        /\ UNCHANGED <<dynamics, operatorVars, typeVars, markVars, forgotten>>
    BY DEF RegistFunction, Map
  <1>2. TypeTables /\ OperatorTables
    BY DEF Tables
  <1>3. /\ list \in Seq([name : TypeName, mode : {"value", "ref", "semi"}])
        /\ params \in Seq(ParamInfo)
        /\ \A k \in DOMAIN params : KnownParam(params[k])
    BY <1>1, <1>2, ArgumentsAreKnown, LibraryAssumption
  <1> HIDE DEF params
  <1>4. new \in FactoryInfo /\ new.name = <<n>> /\ new.params = params
        /\ KnownParams(new) /\ Found(new)
    BY <1>3 DEF Factory, FactoryInfo, Symbol, KnownParams, Found, NoFactory
  <1> HIDE DEF new
  <1>5. /\ FunctionTables' /\ SystemFunctions'
        /\ NextId = Len(factories) + 1 /\ Len(factories) \in Nat
        /\ factories' \in Seq(FactoryInfo) /\ Len(factories') = NextId
        /\ \A i \in 1 .. Len(factories) : factories'[i] = factories[i]
    BY <1>1, <1>4, OneFunction DEF markVars
  <1>6. OperatorTables' /\ SystemOperators'
    BY <1>1, <1>5, OperatorsGrow DEF markVars, operatorVars
  <1>7. TypeTables' /\ SystemTypes'
    BY <1>1, TypesStay DEF markVars
  <1>8. Shape'
    BY <1>1 DEF Tables, Shape, markVars
  <1> QED
    BY <1>5, <1>6, <1>7, <1>8 DEF Tables

\* A function that takes any parameters is in no list of overloads.
LEMMA RegistDynamicFunctionPreserves ==
    ASSUME Tables, NEW n \in DynamicNames, RegistDynamicFunction(n)
    PROVE  Tables'
  <1> DEFINE new == DynamicFactory(n)
  <1>1. /\ n \notin DOMAIN dynamics /\ dynamics' = Put(dynamics, n, NextId)
        /\ factories' = Append(factories, new) /\ overloads' = overloads
        /\ UNCHANGED <<operatorVars, typeVars, markVars, forgotten>>
    BY DEF RegistDynamicFunction
  <1>2. TypeTables /\ OperatorTables
    BY DEF Tables
  <1>3. new \in FactoryInfo /\ KnownParams(new) /\ ~Found(new)
    <2>1. <<n>> \in Seq(Symbol) /\ <<>> \in Seq(ParamInfo)
      BY DEF Symbol
    <2> QED
      BY <2>1 DEF DynamicFactory, FactoryInfo, KnownParams, Found
  <1> HIDE DEF new
  <1>4. /\ FunctionTables' /\ SystemFunctions'
        /\ NextId = Len(factories) + 1 /\ Len(factories) \in Nat
        /\ factories' \in Seq(FactoryInfo) /\ Len(factories') = NextId
        /\ DOMAIN factories' = 1 .. NextId
        /\ \A i \in 1 .. Len(factories) : factories'[i] = factories[i]
        /\ factories'[NextId] = new
    BY <1>1, <1>3, OneFunction DEF markVars
  <1>5. /\ DOMAIN dynamics' = DOMAIN dynamics \cup {n} /\ dynamics'[n] = NextId
        /\ \A x \in DOMAIN dynamics : dynamics'[x] = dynamics[x]
    BY <1>1 DEF Put
  <1>6. \A x \in DOMAIN dynamics' \ forgotten.dynamics :
            (x \in DOMAIN dynamics /\ dynamics'[x] = dynamics[x])
            \/ (dynamics'[x] \in DOMAIN factories'
                /\ factories'[dynamics'[x]] = DynamicFactory(x))
    BY <1>4, <1>5 DEF new
  <1>7. OperatorTables' /\ SystemOperators'
    BY <1>1, <1>4, <1>6, OperatorsGrow DEF markVars, operatorVars
  <1>8. TypeTables' /\ SystemTypes'
    BY <1>1, TypesStay DEF markVars
  <1>9. Shape'
    BY <1>1 DEF Tables, Shape, markVars
  <1> QED
    BY <1>4, <1>7, <1>8, <1>9 DEF Tables

\* A type of the host or a struct, an array: what they share.
LEMMA TypePreserves ==
    ASSUME Tables, FunctionTables', SystemFunctions', TypeTables', SystemTypes',
           UNCHANGED <<functionVars, dynamics, operatorVars, markVars, forgotten>>
    PROVE  Tables'
  <1>1. factories \in Seq(FactoryInfo) /\ Len(factories) \in Nat
    BY DEF Tables, FunctionTables
  <1>2. OperatorTables' /\ SystemOperators'
    BY <1>1, OperatorsGrow DEF markVars, functionVars, operatorVars
  <1>3. Shape'
    BY DEF Tables, Shape, markVars
  <1> QED
    BY <1>2, <1>3 DEF Tables

\* A type of the host gets a new name and a new id.
LEMMA RegisterUserTypePreserves ==
    ASSUME Tables, NEW name \in UserTypes, RegisterUserType(name)
    PROVE  Tables'
  <1>1. /\ name \in TypeName /\ RegistType(name, "plain")
        /\ UNCHANGED <<arrayInfo, structs>>
        /\ UNCHANGED <<functionVars, dynamics, operatorVars, markVars, forgotten>>
    BY DEF RegisterUserType, TypeName
  <1>2. TypeTables' /\ SystemTypes'
    BY <1>1, TypeTablesGrow DEF markVars
  <1>3. FunctionTables' /\ SystemFunctions'
    BY <1>1, RegistTypeFields, FunctionsStay DEF markVars
  <1> QED
    BY <1>1, <1>2, <1>3, TypePreserves

\* A struct is a type whose id is noted.
LEMMA RegistStructPreserves ==
    ASSUME Tables, NEW name \in Structs, RegistStruct(name)
    PROVE  Tables'
  <1>1. /\ name \in TypeName /\ RegistType(name, "plain")
        /\ structs' = structs \cup {Len(types) + 1} /\ UNCHANGED arrayInfo
        /\ UNCHANGED <<functionVars, dynamics, operatorVars, markVars, forgotten>>
    BY DEF RegistStruct, TypeName, NewId, TypeId
  <1>2. TypeTables' /\ SystemTypes'
    BY <1>1, TypeTablesGrow DEF markVars
  <1>3. FunctionTables' /\ SystemFunctions'
    BY <1>1, RegistTypeFields, FunctionsStay DEF markVars
  <1> QED
    BY <1>1, <1>2, <1>3, TypePreserves

\* The info of an array is new, or one that a clear has forgotten.
LEMMA RegistArrayTypePreserves ==
    ASSUME Tables, NEW name \in DOMAIN Arrays, RegistArrayType(name)
    PROVE  Tables'
  <1>1. /\ name \in TypeName /\ RegistType(name, "array")
        /\ Arrays[name].element \in DOMAIN typeIds /\ UNCHANGED structs
        /\ arrayInfo' = IF TypeId(Len(types) + 1, "array") \in DOMAIN arrayInfo
                        THEN arrayInfo
                        ELSE Put(arrayInfo, TypeId(Len(types) + 1, "array"),
                                 [element |-> typeIds[Arrays[name].element],
                                  count   |-> Arrays[name].count])
        /\ UNCHANGED <<functionVars, dynamics, operatorVars, markVars, forgotten>>
    BY DEF RegistArrayType, TypeName, NewId
  <1>2. TypeTables' /\ SystemTypes'
    BY <1>1, TypeTablesGrow DEF markVars
  <1>3. FunctionTables' /\ SystemFunctions'
    BY <1>1, RegistTypeFields, FunctionsStay DEF markVars
  <1> QED
    BY <1>1, <1>2, <1>3, TypePreserves

\* A destructor takes the place of the one before it, but not its id.
LEMMA RegisterDestructorPreserves ==
    ASSUME Tables, NEW type \in DOMAIN typeIds, RegisterDestructor(type)
    PROVE  Tables'
  <1> DEFINE params == <<ScriptType(type, "ref")>>
             auto == AutoName("_dtor_", type, params)
             new == Factory(<<"_dtor_", type, auto>>, params)
             id == typeIds[type]
  <1>1. /\ id.kind = "plain"
        /\ overloads' = overloads \cup {Item(<<"_dtor_", type, auto>>, params, NextId)}
        /\ factories' = Append(factories, new)
        /\ destructors' = Put(destructors, id, NextId)
        /\ UNCHANGED <<dynamics, constructors, copies, many, typeVars, markVars, forgotten>>
    BY DEF RegisterDestructor, Map
  <1>2. TypeTables /\ OperatorTables
    BY DEF Tables
  <1>3. auto \in Nat /\ ~Taken(<<"_dtor_", type, auto>>, params)
    BY AutoNameIsFree
  <1> HIDE DEF auto
  <1>4. ScriptType(type, "ref") \in ParamInfo /\ KnownParam(ScriptType(type, "ref"))
    BY <1>2 DEF ScriptType, ParamInfo, KnownParam, TypeTables
  <1>5. /\ params \in Seq(ParamInfo) /\ Len(params) = 1
        /\ params[1].id = id /\ params[1].mode = "ref"
        /\ \A k \in DOMAIN params : KnownParam(params[k])
    BY <1>4 DEF ScriptType
  <1> HIDE DEF params
  <1>6. <<"_dtor_", type, auto>> \in Seq(Symbol)
    BY <1>2, <1>3 DEF Symbol, TypeTables
  <1>7. /\ new \in FactoryInfo /\ new.name = <<"_dtor_", type, auto>>
        /\ new.params = params /\ KnownParams(new) /\ Found(new)
    BY <1>5, <1>6 DEF Factory, FactoryInfo, KnownParams, Found, NoFactory
  <1> HIDE DEF new
  <1>8. /\ FunctionTables' /\ SystemFunctions'
        /\ NextId = Len(factories) + 1 /\ Len(factories) \in Nat
        /\ factories' \in Seq(FactoryInfo) /\ Len(factories') = NextId
        /\ DOMAIN factories' = 1 .. NextId
        /\ \A i \in 1 .. Len(factories) : factories'[i] = factories[i]
        /\ factories'[NextId] = new
    BY <1>1, <1>3, <1>7, OneFunction DEF markVars
  <1>9. /\ DOMAIN destructors' = DOMAIN destructors \cup {id} /\ destructors'[id] = NextId
        /\ \A t \in DOMAIN destructors \ {id} : destructors'[t] = destructors[t]
    BY <1>1 DEF Put
  <1>10. destructors'[id] > Len(factories) /\ IsFunctionOf(destructors[id], id, 1)'
    <2>1. /\ NextId \in DOMAIN factories' /\ Len(factories'[NextId].params) >= 1
          /\ factories'[NextId].params[1].id = id
          /\ factories'[NextId].params[1].mode = "ref"
      BY <1>5, <1>7, <1>8
    <2>2. id' = id
      BY <1>1 DEF typeVars
    <2> QED
      BY <1>8, <1>9, <2>1, <2>2 DEF IsFunctionOf
  <1>11. \A t \in DOMAIN destructors' :
             (t \in DOMAIN destructors /\ destructors'[t] = destructors[t])
             \/ (destructors'[t] > Len(factories) /\ IsFunctionOf(destructors[t], t, 1)')
    <2> SUFFICES ASSUME NEW t \in DOMAIN destructors', t = id
                 PROVE  destructors'[t] > Len(factories) /\ IsFunctionOf(destructors[t], t, 1)'
      BY <1>9
    <2>1. id' = id
      BY <1>1 DEF typeVars
    <2> QED
      BY <1>10, <2>1 DEF IsFunctionOf
  <1>12. OperatorTables' /\ SystemOperators'
    BY <1>1, <1>8, <1>11, OperatorsGrow DEF markVars
  <1>13. TypeTables' /\ SystemTypes'
    BY <1>1, TypesStay DEF markVars
  <1>14. Shape'
    BY <1>1 DEF Tables, Shape, markVars
  <1> QED
    BY <1>8, <1>12, <1>13, <1>14 DEF Tables

\* A constructor that is refused leaves a factory nobody finds.
LEMMA RefusedConstructorPreserves ==
    ASSUME Tables, factories' = Append(factories, NoFactory),
           UNCHANGED <<overloads, constructors, copies, many, forgotten>>,
           UNCHANGED <<dynamics, destructors, typeVars, markVars>>
    PROVE  Tables'
  <1>1. NoFactory \in FactoryInfo /\ KnownParams(NoFactory) /\ ~Found(NoFactory)
    BY DEF NoFactory, FactoryInfo, KnownParams, Found
  <1>2. /\ FunctionTables' /\ SystemFunctions'
        /\ NextId = Len(factories) + 1 /\ Len(factories) \in Nat
        /\ factories' \in Seq(FactoryInfo) /\ Len(factories') = NextId
        /\ \A i \in 1 .. Len(factories) : factories'[i] = factories[i]
    BY <1>1, OneFunction DEF markVars
  <1>3. OperatorTables' /\ SystemOperators'
    BY <1>2, OperatorsGrow DEF markVars
  <1>4. TypeTables' /\ SystemTypes'
    BY TypesStay DEF markVars
  <1>5. Shape'
    BY DEF Tables, Shape, markVars
  <1> QED
    BY <1>2, <1>3, <1>4, <1>5 DEF Tables

\* A constructor is kept by its number of parameters, under the type it is of.
LEMMA ConstructorTables ==
    ASSUME Tables, NEW params \in Seq(ParamInfo), NEW id,
           params # <<>>, params[1].mode = "ref",
           factories' \in Seq(FactoryInfo), Len(factories') >= Len(factories),
           \A i \in 1 .. Len(factories) : factories'[i] = factories[i],
           id \in DOMAIN factories', id > Len(factories), factories'[id].params = params,
           RegistConstructor(params[1].id, params, id),
           UNCHANGED <<dynamics, destructors, mark, system>>
    PROVE  /\ OperatorTables' /\ SystemOperators'
           /\ DOMAIN forgotten' = DOMAIN forgotten
           /\ forgotten'.names = forgotten.names /\ forgotten'.infos = forgotten.infos
  <1> DEFINE type == params[1].id
             key == <<type, params[2]>>
  <1>1. DOMAIN forgotten = {"dynamics", "copies", "many", "calls", "names", "infos"}
        /\ Len(params) \in Nat \ {0}
    BY DEF Tables, Shape
  <1>2. ASSUME NEW n \in Nat, n =< Len(params)
        PROVE  /\ id \in DOMAIN factories' /\ Len(factories'[id].params) >= n
               /\ factories'[id].params[1].id = type
               /\ factories'[id].params[1].mode = "ref"
    BY <1>1, <1>2
  <1>3. CASE Len(params) = 1
    <2>1. /\ type \notin DOMAIN constructors
          /\ constructors' = Put(constructors, type, id)
          /\ UNCHANGED <<copies, many, forgotten>>
      BY <1>3 DEF RegistConstructor
    <2>2. /\ DOMAIN constructors' = DOMAIN constructors \cup {type}
          /\ constructors'[type] = id
          /\ \A t \in DOMAIN constructors : constructors'[t] = constructors[t]
      BY <2>1 DEF Put
    <2>3. \A t \in DOMAIN constructors' :
             t \in DOMAIN constructors
             \/ (constructors'[t] > Len(factories) /\ IsFunctionOf(constructors[t], t, 1)')
      BY <1>2, <1>3, <2>2 DEF IsFunctionOf
    <2> QED
      BY <2>1, <2>2, <2>3, OperatorsGrow
  <1>4. CASE Len(params) = 2
    <2>1. /\ copies' = Put(copies, key, id)
          /\ forgotten' = [forgotten EXCEPT !.copies = @ \ {key}]
          /\ UNCHANGED <<constructors, many>>
      BY <1>4 DEF RegistConstructor
    <2>2. /\ DOMAIN copies' = DOMAIN copies \cup {key} /\ copies'[key] = id
          /\ \A k \in DOMAIN copies \ {key} : copies'[k] = copies[k]
      BY <2>1 DEF Put
    <2>3. /\ forgotten'.copies = forgotten.copies \ {key}
          /\ forgotten'.dynamics = forgotten.dynamics
          /\ forgotten'.many = forgotten.many /\ forgotten'.names = forgotten.names
          /\ forgotten'.infos = forgotten.infos /\ DOMAIN forgotten' = DOMAIN forgotten
      BY <1>1, <2>1
    <2>4. ASSUME NEW k \in DOMAIN copies' \ forgotten'.copies
          PROVE  (k \in DOMAIN copies \ forgotten.copies /\ copies'[k] = copies[k])
                 \/ (IsFunctionOf(copies[k], k[1], 2)'
                     /\ factories'[copies'[k]].params[2] = k[2])
      <3>1. CASE k # key
        BY <2>2, <2>3, <3>1
      <3>2. CASE k = key
        <4>1. k[1] = type /\ k[2] = params[2] /\ copies'[k] = id
          BY <2>2, <3>2
        <4> QED
          BY <1>2, <1>4, <4>1 DEF IsFunctionOf
      <3> QED
        BY <3>1, <3>2
    <2> QED
      BY <2>1, <2>3, <2>4, OperatorsGrow
  <1>5. CASE Len(params) # 1 /\ Len(params) # 2
    <2>1. /\ many' = Put(many, type,
                         (IF type \in DOMAIN many THEN many[type] ELSE {}) \cup {id})
          /\ UNCHANGED <<constructors, copies, forgotten>>
      BY <1>5 DEF RegistConstructor
    <2>2. /\ DOMAIN many' = DOMAIN many \cup {type}
          /\ many'[type] = (IF type \in DOMAIN many THEN many[type] ELSE {}) \cup {id}
          /\ \A t \in DOMAIN many \ {type} : many'[t] = many[t]
      BY <2>1 DEF Put
    <2>3. ASSUME NEW t \in DOMAIN many' \ forgotten.many, NEW i \in many'[t]
          PROVE  (t \in DOMAIN many /\ i \in many[t]) \/ IsFunctionOf(i, t, 3)'
      <3>1. CASE t = type /\ i = id
        <4>1. Len(params) >= 3
          <5>1. \A n \in Nat \ {0} : n # 1 /\ n # 2 => n >= 3
            OBVIOUS
          <5> QED
            BY <1>1, <1>5, <5>1
        <4> QED
          BY <1>1, <1>2, <3>1, <4>1 DEF IsFunctionOf
      <3> QED
        BY <2>2, <3>1
    <2> QED
      BY <2>1, <2>3, OperatorsGrow
  <1> QED
    BY <1>3, <1>4, <1>5

\* A constructor is refused, or is found and kept as one of its type.
LEMMA RegisterConstructorPreserves ==
    ASSUME Tables, NEW type \in DOMAIN typeIds, NEW mode \in {"value", "ref"},
           NEW more \in MoreParams, RegisterConstructor(type, mode, more)
    PROVE  Tables'
  <1> DEFINE object == ScriptType(type, mode)
             rest == ArgumentTypes(more)
             params == <<object>> \o rest
             auto == AutoName("_ctor_", type, params)
             name == <<"_ctor_", type, auto>>
             new == Factory(name, params)
             refused == mode # "ref" \/ (more = <<>> /\ object.id \in DOMAIN constructors)
  <1>1. /\ Known(more)
        /\ IF refused
           THEN /\ factories' = Append(factories, NoFactory)
                /\ UNCHANGED <<overloads, constructors, copies, many, forgotten>>
           ELSE /\ Map(name, params)
                /\ RegistConstructor(object.id, params, NextId)
        /\ UNCHANGED <<dynamics, destructors, typeVars, markVars>>
    BY DEF RegisterConstructor
  <1>2. CASE refused
    BY <1>1, <1>2, RefusedConstructorPreserves
  <1>3. CASE ~refused
    <2>1. /\ mode = "ref"
          /\ overloads' = overloads \cup {Item(name, params, NextId)}
          /\ factories' = Append(factories, new)
          /\ RegistConstructor(object.id, params, NextId)
      BY <1>1, <1>3 DEF Map
    <2>2. TypeTables /\ OperatorTables
      BY DEF Tables
    <2>3. auto \in Nat /\ ~Taken(name, params)
      BY AutoNameIsFree
    <2> HIDE DEF auto
    <2>4. /\ object \in ParamInfo /\ KnownParam(object) /\ object.mode = "ref"
      BY <2>1, <2>2 DEF ScriptType, ParamInfo, KnownParam, TypeTables
    <2>5. /\ rest \in Seq(ParamInfo) /\ \A k \in DOMAIN rest : KnownParam(rest[k])
      BY <1>1, <2>2, ArgumentsAreKnown, LibraryAssumption
    <2> HIDE DEF object, rest
    <2>6. /\ params \in Seq(ParamInfo) /\ params # <<>> /\ params[1] = object
          /\ \A k \in DOMAIN params : KnownParam(params[k])
      <3>1. /\ params \in Seq(ParamInfo) /\ Len(params) = Len(rest) + 1
            /\ params[1] = object /\ Len(rest) \in Nat
            /\ \A k \in 2 .. Len(rest) + 1 : params[k] = rest[k - 1]
        BY <2>4, <2>5
      <3>2. ASSUME NEW k \in DOMAIN params
            PROVE  KnownParam(params[k])
        <4>1. k = 1 \/ (k \in 2 .. Len(rest) + 1 /\ k - 1 \in DOMAIN rest)
          BY <2>5, <3>1
        <4> QED
          BY <2>4, <2>5, <3>1, <4>1
      <3> QED
        BY <3>1, <3>2
    <2> HIDE DEF params
    <2>7. name \in Seq(Symbol)
      BY <2>2, <2>3 DEF Symbol, TypeTables
    <2>8. /\ new \in FactoryInfo /\ new.name = name
          /\ new.params = params /\ KnownParams(new) /\ Found(new)
      BY <2>6, <2>7 DEF Factory, FactoryInfo, KnownParams, Found, NoFactory
    <2> HIDE DEF new, name
    <2>9. /\ FunctionTables' /\ SystemFunctions'
          /\ NextId = Len(factories) + 1 /\ Len(factories) \in Nat
          /\ factories' \in Seq(FactoryInfo) /\ Len(factories') = NextId
          /\ DOMAIN factories' = 1 .. NextId
          /\ \A i \in 1 .. Len(factories) : factories'[i] = factories[i]
          /\ factories'[NextId] = new
      BY <1>1, <2>1, <2>3, <2>8, OneFunction DEF markVars
    <2>10. /\ OperatorTables' /\ SystemOperators'
           /\ DOMAIN forgotten' = DOMAIN forgotten
           /\ forgotten'.names = forgotten.names /\ forgotten'.infos = forgotten.infos
      <3>1. /\ NextId \in DOMAIN factories' /\ NextId > Len(factories)
            /\ factories'[NextId].params = params
            /\ Len(factories') >= Len(factories)
            /\ RegistConstructor(params[1].id, params, NextId)
            /\ params[1].mode = "ref"
        BY <2>1, <2>4, <2>6, <2>8, <2>9
      <3> QED
        BY <1>1, <2>6, <2>9, <3>1, ConstructorTables DEF markVars
    <2>11. TypeTables' /\ SystemTypes'
      BY <1>1, <2>10, TypesStay DEF markVars
    <2>12. Shape'
      BY <1>1, <2>10 DEF Tables, Shape, markVars
    <2> QED
      BY <2>9, <2>10, <2>11, <2>12 DEF Tables
  <1> QED
    BY <1>2, <1>3

\* A function type brings two functions whose object no function mentions yet.
LEMMA RegistFunctionTypePreserves ==
    ASSUME Tables, NEW name \in FunctionTypes, RegistFunctionType(name)
    PROVE  Tables'
  <1> DEFINE id == TypeId(Len(types) + 1, "function")
             ref == [id |-> id, name |-> name, mode |-> "ref"]
             semi == [id |-> id, name |-> name, mode |-> "semi"]
             null == ScriptType(BasicTypes[1], "value")
             copy == Factory(<<"_copy">>, <<ref, semi>>)
             byNull == Factory(<<"_initize_by_null">>, <<ref, null>>)
             n0 == Len(factories)
             k1 == <<id, semi>>
             k2 == <<id, null>>
  <1>1. /\ name \in TypeName /\ RegistType(name, "function")
        /\ constructors' = IF id \in DOMAIN constructors THEN constructors
                           ELSE Put(constructors, id, RuntimeConstructor)
        /\ destructors' = Put(destructors, id, RuntimeDestructor)
        /\ factories' = factories \o <<copy, byNull>>
        /\ overloads' = overloads \cup {Item(<<"_copy">>, <<ref, semi>>, NextId),
                                        Item(<<"_initize_by_null">>, <<ref, null>>, NextId + 1)}
        /\ copies' = Put(Put(copies, k1, NextId), k2, NextId + 1)
        /\ forgotten' = [forgotten EXCEPT !.copies = @ \ {k1, k2}]
        /\ UNCHANGED <<dynamics, many, arrayInfo, structs, markVars>>
    BY DEF RegistFunctionType, NewId, TypeName
  <1>2. /\ Shape /\ TypeTables /\ FunctionTables /\ OperatorTables
        /\ factories \in Seq(FactoryInfo) /\ n0 \in Nat /\ NextId = n0 + 1
    BY DEF Tables, FunctionTables, NextId
  <1>3. /\ name \notin DOMAIN typeIds /\ typeIds'[name] = id
        /\ id \in TypeIdInfo
        /\ \A n \in DOMAIN typeIds : n \in DOMAIN typeIds' /\ typeIds'[n] = typeIds[n]
        /\ name \in DOMAIN typeIds'
    BY <1>1, RegistTypeFields
  <1>4. id.kind = "function"
    BY DEF TypeId
  <1> HIDE DEF id
  <1>5. /\ ref \in ParamInfo /\ semi \in ParamInfo
        /\ ref.name \in DOMAIN typeIds' /\ typeIds'[ref.name] = ref.id
        /\ semi.name \in DOMAIN typeIds' /\ typeIds'[semi.name] = semi.id
        /\ ref.name = name /\ ref.id = id /\ ref.mode = "ref" /\ semi.mode = "semi"
    BY <1>1, <1>3 DEF ParamInfo
  <1>6. /\ null \in ParamInfo /\ null.mode = "value"
        /\ null.name \in DOMAIN typeIds' /\ typeIds'[null.name] = null.id
    <2>1. /\ BasicTypes[1] \in DOMAIN typeIds /\ BasicTypes[1] \in TypeName
          /\ typeIds[BasicTypes[1]] \in TypeIdInfo
      BY <1>2 DEF TypeTables
    <2> QED
      BY <1>3, <2>1 DEF ScriptType, ParamInfo
  <1>7. k1 # k2 /\ k1[1] = id /\ k1[2] = semi /\ k2[1] = id /\ k2[2] = null
    BY <1>5, <1>6
  <1> HIDE DEF ref, semi, null
  <1>8. /\ copy.name = <<"_copy">> /\ copy.params = <<ref, semi>>
        /\ byNull.name = <<"_initize_by_null">> /\ byNull.params = <<ref, null>>
        /\ ~copy.dynamic /\ ~byNull.dynamic
    BY DEF Factory
  <1>9. copy \in FactoryInfo /\ byNull \in FactoryInfo
    <2>1. <<"_copy">> \in Seq(Symbol) /\ <<"_initize_by_null">> \in Seq(Symbol)
      BY DEF Symbol
    <2>2. <<ref, semi>> \in Seq(ParamInfo) /\ <<ref, null>> \in Seq(ParamInfo)
      BY <1>5, <1>6
    <2> QED
      BY <2>1, <2>2 DEF Factory, FactoryInfo
  <1>10. Found(copy) /\ Found(byNull) /\ copy.name # byNull.name
    <2>1. NoFactory.name = <<>>
      BY DEF NoFactory
    <2>2. <<"_copy">> # <<>> /\ <<"_initize_by_null">> # <<>>
          /\ <<"_copy">> # <<"_initize_by_null">>
      OBVIOUS
    <2> QED
      BY <1>8, <2>1, <2>2 DEF Found
  <1> HIDE DEF copy, byNull
  <1>11. /\ factories' \in Seq(FactoryInfo) /\ Len(factories') = n0 + 2
         /\ DOMAIN factories' = 1 .. n0 + 2
         /\ \A i \in 1 .. n0 : factories'[i] = factories[i]
         /\ factories'[n0 + 1] = copy /\ factories'[n0 + 2] = byNull
    BY <1>1, <1>2, <1>9
  <1>12. n0 + 1 .. Len(factories') = {n0 + 1, n0 + 2}
    BY <1>2, <1>11
  <1>13. overloads' = overloads \cup
               {Item(factories'[i].name, factories'[i].params, i) :
                   i \in {j \in n0 + 1 .. Len(factories') : Found(factories'[j])}}
    <2>1. {j \in n0 + 1 .. Len(factories') : Found(factories'[j])} = {n0 + 1, n0 + 2}
      BY <1>10, <1>11, <1>12
    <2>2. (n0 + 1) + 1 = n0 + 2
      BY <1>2
    <2>3. /\ Item(factories'[n0 + 1].name, factories'[n0 + 1].params, n0 + 1)
             = Item(<<"_copy">>, <<ref, semi>>, NextId)
          /\ Item(factories'[n0 + 2].name, factories'[n0 + 2].params, n0 + 2)
             = Item(<<"_initize_by_null">>, <<ref, null>>, NextId + 1)
      BY <1>2, <1>8, <1>11, <2>2
    <2>4. {Item(factories'[i].name, factories'[i].params, i) : i \in {n0 + 1, n0 + 2}}
          = {Item(<<"_copy">>, <<ref, semi>>, NextId),
             Item(<<"_initize_by_null">>, <<ref, null>>, NextId + 1)}
      BY <2>3
    <2> QED
      BY <1>1, <2>1, <2>4
  <1>14. ASSUME NEW any, NEW params, params[1].name = name, 1 \in DOMAIN params
         PROVE  ~Taken(any, params)
    <2> SUFFICES ASSUME NEW o \in overloads, o.params = params PROVE FALSE
      BY DEF Taken
    <2>1. PICK i \in Overloaded : o = Overload(i)
      BY <1>2 DEF FunctionTables
    <2>2. i \in DOMAIN factories /\ factories[i].params = params
      BY <2>1 DEF Overloaded, Overload, Item
    <2>3. KnownParam(params[1])
      BY <1>2, <1>14, <2>2 DEF FunctionTables, KnownParams
    <2> QED
      BY <1>3, <1>14, <2>3 DEF KnownParam
  <1>15. ASSUME NEW i \in n0 + 1 .. Len(factories')
         PROVE  /\ ~Taken(factories'[i].name, factories'[i].params)
                /\ KnownParams(factories[i])'
    <2>1. i = n0 + 1 \/ i = n0 + 2
      BY <1>12
    <2>2. \/ factories'[i].params = <<ref, semi>>
          \/ factories'[i].params = <<ref, null>>
      BY <1>8, <1>11, <2>1
    <2>3. factories'[i].params[1] = ref /\ 1 \in DOMAIN factories'[i].params
      BY <2>2
    <2>4. \A k \in DOMAIN factories'[i].params :
              factories'[i].params[k] \in {ref, semi, null}
      BY <2>2
    <2>5. KnownParams(factories[i])'
      BY <1>5, <1>6, <2>4 DEF KnownParams, KnownParam
    <2> QED
      BY <1>5, <1>14, <2>3, <2>5
  <1>16. \A i, j \in n0 + 1 .. Len(factories') :
            factories'[i].name = factories'[j].name => i = j \/ ~Found(factories'[i])
    BY <1>10, <1>11, <1>12
  <1>17. FunctionTables' /\ SystemFunctions'
    <2>1. Len(factories') >= n0
      BY <1>2, <1>11
    <2> QED
      BY <1>1, <1>3, <1>11, <1>13, <1>15, <1>16, <2>1, FunctionsGrow DEF markVars
  <1>18. TypeTables' /\ SystemTypes'
    <2>1. /\ structs' = structs /\ arrayInfo' = arrayInfo /\ mark' = mark
          /\ system' = system /\ forgotten'.names = forgotten.names
          /\ forgotten'.infos = forgotten.infos
      BY <1>1, <1>2 DEF Shape, markVars
    <2> QED
      BY <1>1, <2>1, TypeTablesGrow
  <1>19. /\ DOMAIN copies' = DOMAIN copies \cup {k1, k2}
         /\ copies'[k1] = n0 + 1 /\ copies'[k2] = n0 + 2
         /\ \A k \in DOMAIN copies \ {k1, k2} : copies'[k] = copies[k]
    <2> DEFINE c == Put(copies, k1, NextId)
    <2>1. /\ DOMAIN c = DOMAIN copies \cup {k1} /\ c[k1] = NextId
          /\ \A k \in DOMAIN copies \ {k1} : c[k] = copies[k]
      BY DEF Put
    <2>2. copies' = Put(c, k2, NextId + 1)
      BY <1>1
    <2> HIDE DEF c, k1, k2
    <2>3. /\ DOMAIN copies' = DOMAIN c \cup {k2} /\ copies'[k2] = NextId + 1
          /\ \A k \in DOMAIN c \ {k2} : copies'[k] = c[k]
      BY <2>2 DEF Put
    <2>4. NextId + 1 = n0 + 2
      BY <1>2
    <2> QED
      BY <1>2, <1>7, <2>1, <2>3, <2>4
  <1>20. /\ forgotten'.copies = forgotten.copies \ {k1, k2}
         /\ forgotten'.dynamics = forgotten.dynamics
         /\ forgotten'.many = forgotten.many /\ DOMAIN forgotten' = DOMAIN forgotten
    BY <1>1, <1>2 DEF Shape
  <1>21. ASSUME NEW k \in DOMAIN copies' \ forgotten'.copies
         PROVE  (k \in DOMAIN copies \ forgotten.copies /\ copies'[k] = copies[k])
                \/ (IsFunctionOf(copies[k], k[1], 2)'
                    /\ factories'[copies'[k]].params[2] = k[2])
    <2>1. CASE k \notin {k1, k2}
      <3> HIDE DEF k1, k2
      <3> QED
        BY <1>19, <1>20, <2>1
    <2>2. CASE k = k1
      <3>1. /\ copies'[k] = n0 + 1 /\ k[1] = id /\ k[2] = semi
            /\ n0 + 1 \in DOMAIN factories' /\ factories'[n0 + 1].params = <<ref, semi>>
        BY <1>2, <1>7, <1>8, <1>11, <1>19, <2>2
      <3> QED
        BY <1>5, <3>1 DEF IsFunctionOf
    <2>3. CASE k = k2
      <3>1. /\ copies'[k] = n0 + 2 /\ k[1] = id /\ k[2] = null
            /\ n0 + 2 \in DOMAIN factories' /\ factories'[n0 + 2].params = <<ref, null>>
        BY <1>2, <1>7, <1>8, <1>11, <1>19, <2>3
      <3> QED
        BY <1>5, <3>1 DEF IsFunctionOf
    <2> QED
      BY <2>1, <2>2, <2>3
  <1>22. /\ \A t \in DOMAIN constructors :
               t \in DOMAIN constructors' /\ constructors'[t] = constructors[t]
         /\ \A t \in DOMAIN constructors' : t \in DOMAIN constructors \/ t = id
         /\ \A t \in DOMAIN destructors' :
               (t \in DOMAIN destructors /\ destructors'[t] = destructors[t]) \/ t = id
    <2>1. CASE id \in DOMAIN constructors
      BY <1>1, <2>1 DEF Put
    <2>2. CASE id \notin DOMAIN constructors
      BY <1>1, <2>2 DEF Put
    <2> QED
      BY <2>1, <2>2
  <1>23. OperatorTables' /\ SystemOperators'
    <2>1. /\ dynamics' = dynamics /\ many' = many /\ mark' = mark /\ system' = system
          /\ Len(factories') >= n0
      BY <1>1, <1>2, <1>11 DEF markVars
    <2>2. \A t : t = id => t.kind # "plain"
      BY <1>4
    <2> HIDE DEF k1, k2
    <2> QED
      BY <1>11, <1>20, <1>21, <1>22, <2>1, <2>2, OperatorsGrow
  <1>24. Shape'
    BY <1>1, <1>2, <1>20 DEF Shape, markVars
  <1> QED
    BY <1>17, <1>18, <1>23, <1>24 DEF Tables
-----------------------------------------------------------------------------
\* The mark takes everything there is for the system library.
LEMMA BeginUserLibPreserves ==
    ASSUME Tables, BeginUserLib
    PROVE  Tables' /\ mark' # NoMark
  <1>1. /\ mark' = [functions |-> Len(factories), types |-> Len(types)]
        /\ system'.factories = factories /\ system'.overloads = overloads
        /\ system'.constructors = constructors /\ system'.destructors = destructors
        /\ system'.types = types /\ system'.typeIds = typeIds
        /\ system'.structs = structs
        /\ UNCHANGED <<functionVars, dynamics, operatorVars, typeVars, forgotten>>
    BY DEF BeginUserLib
  <1>2. /\ Shape /\ TypeTables /\ FunctionTables /\ OperatorTables
        /\ Len(types) \in Nat \ {0} /\ Len(factories) \in Nat
        /\ types \in Seq(TypeName) /\ factories \in Seq(FactoryInfo)
        /\ DOMAIN types = 1 .. Len(types) /\ DOMAIN factories = 1 .. Len(factories)
    BY DEF Tables, TypeTables, FunctionTables
  <1>3. mark'.functions = Len(factories) /\ mark'.types = Len(types)
    BY <1>1
  <1>4. Shape' /\ TypeTables'
    BY <1>1, <1>2 DEF Shape, TypeTables, typeVars
  <1>5. OperatorTables'
    BY <1>1, <1>2 DEF OperatorTables, OperatorsAreOfTheirType, IsFunctionOf,
                      functionVars, operatorVars
  <1>6. FunctionTables'
    <2>1. /\ factories' = factories /\ overloads' = overloads /\ typeIds' = typeIds
          /\ Overloaded' = Overloaded /\ \A i : Overload(i)' = Overload(i)
          /\ \A i : KnownParams(factories[i])' = KnownParams(factories[i])
      BY <1>1 DEF functionVars, typeVars, Overloaded, Overload, KnownParams, KnownParam
    <2> QED
      BY <1>2, <2>1 DEF FunctionTables
  <1>7. ASSUME NEW n \in DOMAIN typeIds, typeIds[n].kind = "plain"
        PROVE  typeIds[n].at \in 1 .. Len(types)
    BY <1>2, <1>7 DEF TypeTables
  <1>8. SystemTypes'
    <2>1. SubSeq(types, 1, Len(types)) = types
      BY <1>2
    <2>2. structs = {i \in structs : i =< Len(types)}
      <3>1. ASSUME NEW i \in structs PROVE i =< Len(types)
        <4>1. i \in 1 .. Len(types)
          BY <1>2 DEF TypeTables
        <4> QED
          BY <1>2, <4>1
      <3> QED
        BY <3>1
    <2>3. {m \in DOMAIN typeIds : typeIds[m].kind = "plain"}
          = {m \in DOMAIN typeIds : typeIds[m].kind = "plain" /\ typeIds[m].at =< Len(types)}
      BY <1>2, <1>7
    <2>4. PlainOf(typeIds) =
              {<<n, typeIds[n]>> : n \in {m \in DOMAIN typeIds :
                   typeIds[m].kind = "plain" /\ typeIds[m].at =< Len(types)}}
      BY <2>3 DEF PlainOf
    <2>5. PlainOf(system'.typeIds) = PlainOf(typeIds)
      BY <1>1
    <2> QED
      BY <1>1, <1>2, <1>3, <2>1, <2>2, <2>4, <2>5 DEF SystemTypes, typeVars, PlainOf
  <1>9. SystemFunctions'
    <2>1. SubSeq(factories, 1, Len(factories)) = factories
      BY <1>2
    <2>2. overloads = {o \in overloads : o.id =< Len(factories)}
      <3>1. ASSUME NEW o \in overloads PROVE o.id =< Len(factories)
        BY <1>2 DEF FunctionTables, Overloaded, Overload, Item
      <3> QED
        BY <3>1
    <2>3. ASSUME NEW i \in 1 .. Len(factories), NEW k \in DOMAIN factories[i].params,
                 factories[i].params[k].id.kind = "plain"
          PROVE  factories[i].params[k].id.at =< Len(types)
      <3>1. KnownParam(factories[i].params[k])
        BY <1>2 DEF FunctionTables, KnownParams
      <3> QED
        BY <1>2, <1>7, <2>3, <3>1 DEF KnownParam
    <2> QED
      BY <1>1, <1>2, <1>3, <2>1, <2>2, <2>3 DEF SystemFunctions, functionVars
  <1>10. SystemOperators'
    <2>1. ASSUME NEW f \in {constructors, destructors}
          PROVE  \A s \in DOMAIN f : s.kind = "plain" => f[s] =< Len(factories)
      BY <1>2 DEF OperatorTables, OperatorsAreOfTheirType, IsFunctionOf
    <2>2. PlainOperators(constructors)
          = {<<t, constructors[t]>> : t \in {s \in DOMAIN constructors :
                s.kind = "plain" /\ constructors[s] =< Len(factories)}}
      <3>1. {s \in DOMAIN constructors : s.kind = "plain"}
            = {s \in DOMAIN constructors : s.kind = "plain" /\ constructors[s] =< Len(factories)}
        BY <2>1
      <3> QED
        BY <3>1 DEF PlainOperators
    <2>3. PlainOperators(destructors)
          = {<<t, destructors[t]>> : t \in {s \in DOMAIN destructors :
                s.kind = "plain" /\ destructors[s] =< Len(factories)}}
      <3>1. {s \in DOMAIN destructors : s.kind = "plain"}
            = {s \in DOMAIN destructors : s.kind = "plain" /\ destructors[s] =< Len(factories)}
        BY <2>1
      <3> QED
        BY <3>1 DEF PlainOperators
    <2>4. \A x \in PlainOperators(destructors) : x[2] =< Len(factories)
      BY <2>1 DEF PlainOperators
    <2>5. constructors' = constructors /\ destructors' = destructors
      BY <1>1 DEF operatorVars
    <2>6. /\ Below(constructors)' = PlainOperators(constructors)
          /\ Below(destructors)' = PlainOperators(destructors)
      BY <1>3, <2>2, <2>3, <2>5 DEF Below
    <2> QED
      BY <1>1, <1>3, <2>4, <2>5, <2>6 DEF SystemOperators
  <1> QED
    BY <1>2, <1>3, <1>4, <1>5, <1>6, <1>8, <1>9, <1>10 DEF Tables, NoMark

\* A compile that clears leaves tables that agree with each other, those of
\* the system library.
LEMMA ClearPreserves ==
    ASSUME Tables, CompileProgram, Marked
    PROVE  /\ Tables'
           /\ factories' = system.factories /\ overloads' = system.overloads
           /\ types' = system.types /\ structs' = system.structs
           /\ PlainOf(typeIds') = PlainOf(system.typeIds)
           /\ PlainOperators(constructors') = PlainOperators(system.constructors)
           /\ PlainOperators(destructors') =
                  PlainOperators(system.destructors) \cap PlainOperators(destructors)
  <1> DEFINE mf == mark.functions
             mt == mark.types
             n0 == Len(factories)
  <1>1. /\ types' = SubSeq(types, 1, mt)
        /\ typeIds' = Keep(typeIds, {n \in DOMAIN typeIds :
               typeIds[n].kind = "plain" => typeIds[n].at =< mt})
        /\ structs' = {i \in structs : i =< mt}
        /\ UNCHANGED arrayInfo
        /\ overloads' = {o \in overloads : o.id \notin mf + 1 .. n0}
        /\ constructors' = Keep(constructors, {t \in DOMAIN constructors :
                                    constructors[t] \notin mf + 1 .. n0})
        /\ destructors' = Keep(destructors, {t \in DOMAIN destructors :
                                    destructors[t] \notin mf + 1 .. n0})
        /\ factories' = SubSeq(factories, 1, mf)
        /\ mark' = NoMark
        /\ forgotten' = [k \in DOMAIN forgotten |-> forgotten[k] \cup Leftovers[k]]
        /\ UNCHANGED <<copies, many, dynamics, system>>
    BY DEF Marked, CompileProgram, ClearUserLib, ClearUserTypes, Unregister
  <1>2. /\ Shape /\ TypeTables /\ FunctionTables /\ OperatorTables
        /\ SystemTypes /\ SystemFunctions /\ SystemOperators
        /\ types \in Seq(TypeName) /\ factories \in Seq(FactoryInfo)
        /\ DOMAIN types = 1 .. Len(types) /\ DOMAIN factories = 1 .. n0
        /\ n0 \in Nat /\ Len(types) \in Nat
    BY DEF Tables, TypeTables, FunctionTables
  <1>3. mf \in 0 .. n0 /\ mt \in 1 .. Len(types)
    BY <1>2 DEF SystemFunctions, SystemTypes
  <1>4. /\ types' \in Seq(TypeName) /\ Len(types') = mt /\ DOMAIN types' = 1 .. mt
        /\ \A i \in 1 .. mt : types'[i] = types[i]
    BY <1>1, <1>2, <1>3
  <1>5. /\ factories' \in Seq(FactoryInfo) /\ Len(factories') = mf
        /\ DOMAIN factories' = 1 .. mf
        /\ \A i \in 1 .. mf : factories'[i] = factories[i]
    BY <1>1, <1>2, <1>3
  <1>6. /\ DOMAIN typeIds' = {n \in DOMAIN typeIds :
               typeIds[n].kind = "plain" => typeIds[n].at =< mt}
        /\ \A n \in DOMAIN typeIds' : typeIds'[n] = typeIds[n]
    BY <1>1 DEF Keep
  <1>7. /\ DOMAIN constructors' = {t \in DOMAIN constructors :
                                       constructors[t] \notin mf + 1 .. n0}
        /\ \A t \in DOMAIN constructors' : constructors'[t] = constructors[t]
        /\ DOMAIN destructors' = {t \in DOMAIN destructors :
                                       destructors[t] \notin mf + 1 .. n0}
        /\ \A t \in DOMAIN destructors' : destructors'[t] = destructors[t]
    BY <1>1 DEF Keep
  <1>8. /\ forgotten'.dynamics = forgotten.dynamics
               \cup {n \in DOMAIN dynamics : dynamics[n] > mf}
        /\ forgotten'.copies = forgotten.copies \cup {k \in DOMAIN copies : copies[k] > mf}
        /\ forgotten'.many = forgotten.many
               \cup {t \in DOMAIN many : \E id \in many[t] : id > mf}
        /\ forgotten'.names = forgotten.names
               \cup {n \in DOMAIN typeIds : typeIds[n].kind # "plain" /\ typeIds[n].at > mt}
        /\ forgotten'.infos = forgotten.infos \cup {t \in DOMAIN arrayInfo : t.at > mt}
        /\ DOMAIN forgotten' = DOMAIN forgotten
    BY <1>1, <1>2 DEF Shape, Leftovers
  <1>9. Shape'
    BY <1>1, <1>2, <1>8 DEF Shape, NoMark
  <1>10. TypeTables'
    <2>1. \A n \in DOMAIN typeIds' : n \in TypeName /\ typeIds'[n] \in TypeIdInfo
      BY <1>2, <1>6 DEF TypeTables
    <2>2. BasicTypes[1] \in DOMAIN typeIds' /\ typeIds'[BasicTypes[1]] = TypeId(1, "plain")
      BY <1>2, <1>3, <1>6 DEF TypeTables, TypeId
    <2>3. structs' \subseteq 1 .. Len(types')
      <3> SUFFICES ASSUME NEW i \in structs' PROVE i \in 1 .. mt
        BY <1>4
      <3>1. i \in 1 .. Len(types) /\ i =< mt
        BY <1>1, <1>2 DEF TypeTables
      <3> QED
        BY <1>3, <3>1
    <2>4. \A n \in forgotten'.names : n \in DOMAIN typeIds' /\ typeIds'[n].kind # "plain"
      BY <1>2, <1>6, <1>8 DEF TypeTables
    <2>5. ASSUME NEW n \in DOMAIN typeIds' \ forgotten'.names
          PROVE  typeIds'[n].at \in DOMAIN types' /\ types'[typeIds'[n].at] = n
      <3>1. n \in DOMAIN typeIds \ forgotten.names /\ typeIds'[n] = typeIds[n]
        BY <1>6, <1>8
      <3>2. typeIds[n].at \in 1 .. Len(types) /\ types[typeIds[n].at] = n
        BY <1>2, <3>1 DEF TypeTables
      <3>3. typeIds[n].at =< mt
        BY <1>3, <1>6, <1>8, <3>1, <3>2
      <3> QED
        BY <1>3, <1>4, <3>1, <3>2, <3>3
    <2>6. ASSUME NEW t \in DOMAIN arrayInfo' \ forgotten'.infos
          PROVE  LET array == Arrays[types'[t.at]] IN
                 /\ t.at \in DOMAIN types'
                 /\ arrayInfo'[t].count = array.count
                 /\ array.element \in DOMAIN typeIds'
                 /\ arrayInfo'[t].element = typeIds'[array.element]
                 /\ arrayInfo'[t].element.kind = "plain" => arrayInfo'[t].element.at < t.at
      <3> DEFINE array == Arrays[types[t.at]]
      <3>1. /\ t \in DOMAIN arrayInfo \ forgotten.infos /\ arrayInfo' = arrayInfo
            /\ ~(t.at > mt)
        BY <1>1, <1>8
      <3>2. /\ t.at \in 1 .. Len(types)
            /\ arrayInfo[t].count = array.count
            /\ array.element \in DOMAIN typeIds
            /\ arrayInfo[t].element = typeIds[array.element]
            /\ arrayInfo[t].element.kind = "plain" => arrayInfo[t].element.at < t.at
        BY <1>2, <3>1 DEF TypeTables
      <3>3. t.at \in 1 .. mt /\ types'[t.at] = types[t.at]
        BY <1>3, <1>4, <3>1, <3>2
      <3> HIDE DEF array
      <3>4. typeIds[array.element].at \in Nat
        BY <1>2, <3>2 DEF TypeTables, TypeIdInfo
      <3>5. typeIds[array.element].kind = "plain" => typeIds[array.element].at =< mt
        BY <1>3, <3>2, <3>3, <3>4
      <3>6. array.element \in DOMAIN typeIds' /\ typeIds'[array.element] = typeIds[array.element]
        BY <1>6, <3>2, <3>5
      <3> QED
        BY <1>4, <3>1, <3>2, <3>3, <3>6 DEF array
    <2> QED
      BY <1>3, <1>4, <2>1, <2>2, <2>3, <2>4, <2>5, <2>6 DEF TypeTables
  <1>11. Overloaded' = {i \in Overloaded : i =< mf}
    <2>1. Overloaded' = {i \in 1 .. mf : Found(factories[i])}
      BY <1>5 DEF Overloaded, Found
    <2>2. Overloaded = {i \in 1 .. n0 : Found(factories[i])}
      BY <1>2 DEF Overloaded
    <2> QED
      BY <1>3, <2>1, <2>2
  <1>12. /\ overloads = {Overload(i) : i \in Overloaded}
         /\ \A i \in Overloaded : i \in 1 .. n0 /\ Overload(i).id = i
         /\ \A i \in 1 .. mf : Overload(i)' = Overload(i)
    BY <1>2, <1>5 DEF FunctionTables, Overloaded, Overload, Item
  <1>13. overloads' = {o \in overloads : o.id =< mf}
    <2>1. \A o \in overloads : o.id \notin mf + 1 .. n0 <=> o.id =< mf
      BY <1>2, <1>3, <1>12
    <2> QED
      BY <1>1, <2>1
  <1>14. FunctionTables'
    <2>1. (overloads = {Overload(i) : i \in Overloaded})'
      <3>1. {o \in overloads : o.id =< mf} = {Overload(i) : i \in {j \in Overloaded : j =< mf}}
        BY <1>12
      <3>2. \A i \in Overloaded' : Overload(i)' = Overload(i)
        BY <1>3, <1>11, <1>12
      <3>3. {Overload(i) : i \in Overloaded}' = {Overload(i) : i \in {j \in Overloaded : j =< mf}}
        BY <1>11, <3>2
      <3> QED
        BY <1>13, <3>1, <3>3
    <2>2. ASSUME NEW i \in Overloaded', NEW j \in Overloaded',
                 factories'[i].name = factories'[j].name,
                 factories'[i].params = factories'[j].params
          PROVE  i = j
      <3>1. /\ i \in Overloaded /\ j \in Overloaded
            /\ factories'[i] = factories[i] /\ factories'[j] = factories[j]
        BY <1>5, <1>11, <1>12
      <3> QED
        BY <1>2, <2>2, <3>1 DEF FunctionTables
    <2>3. ASSUME NEW i \in 1 .. mf
          PROVE  KnownParams(factories[i])'
      <3> SUFFICES ASSUME NEW k \in DOMAIN factories[i].params
                   PROVE  KnownParam(factories[i].params[k])'
        BY <1>5 DEF KnownParams
      <3> DEFINE param == factories[i].params[k]
      <3>1. i \in 1 .. n0 /\ factories'[i] = factories[i]
        BY <1>3, <1>5
      <3>2. param.name \in DOMAIN typeIds /\ typeIds[param.name] = param.id
        BY <1>2, <3>1 DEF FunctionTables, KnownParams, KnownParam
      <3>3. param.id.kind = "plain" => param.id.at =< mt
        BY <1>2 DEF SystemFunctions
      <3>4. param.name \in DOMAIN typeIds' /\ typeIds'[param.name] = param.id
        BY <1>6, <3>2, <3>3
      <3> QED
        BY <3>1, <3>4 DEF KnownParam
    <2> QED
      BY <1>5, <2>1, <2>2, <2>3 DEF FunctionTables
  <1>15. OperatorTables'
    <2>1. ASSUME NEW id, NEW t, NEW n, IsFunctionOf(id, t, n), id =< mf
          PROVE  IsFunctionOf(id, t, n)' /\ factories'[id] = factories[id]
      <3>1. id \in 1 .. mf /\ factories'[id] = factories[id]
        BY <1>2, <1>3, <1>5, <2>1 DEF IsFunctionOf
      <3> QED
        BY <1>5, <2>1, <3>1 DEF IsFunctionOf
    <2>2. OperatorsAreOfTheirType'
      <3>1. ASSUME NEW t \in DOMAIN constructors', t.kind = "plain"
            PROVE  IsFunctionOf(constructors[t], t, 1)'
        <4>1. IsFunctionOf(constructors[t], t, 1) /\ constructors[t] \in 1 .. n0
          BY <1>2, <1>7, <3>1 DEF OperatorTables, OperatorsAreOfTheirType, IsFunctionOf
        <4>2. constructors[t] =< mf /\ constructors'[t] = constructors[t]
          BY <1>3, <1>7, <4>1
        <4> QED
          BY <2>1, <4>1, <4>2 DEF IsFunctionOf
      <3>2. ASSUME NEW t \in DOMAIN destructors', t.kind = "plain"
            PROVE  IsFunctionOf(destructors[t], t, 1)'
        <4>1. IsFunctionOf(destructors[t], t, 1) /\ destructors[t] \in 1 .. n0
          BY <1>2, <1>7, <3>2 DEF OperatorTables, OperatorsAreOfTheirType, IsFunctionOf
        <4>2. destructors[t] =< mf /\ destructors'[t] = destructors[t]
          BY <1>3, <1>7, <4>1
        <4> QED
          BY <2>1, <4>1, <4>2 DEF IsFunctionOf
      <3> QED
        BY <3>1, <3>2 DEF OperatorsAreOfTheirType
    <2>3. ASSUME NEW n \in DOMAIN dynamics' \ forgotten'.dynamics
          PROVE  /\ dynamics'[n] \in DOMAIN factories'
                 /\ factories'[dynamics'[n]] = DynamicFactory(n)
      <3>1. /\ n \in DOMAIN dynamics \ forgotten.dynamics /\ dynamics' = dynamics
            /\ ~(dynamics[n] > mf)
        BY <1>1, <1>8
      <3>2. dynamics[n] \in 1 .. n0 /\ factories[dynamics[n]] = DynamicFactory(n)
        BY <1>2, <3>1 DEF OperatorTables
      <3>3. dynamics[n] \in 1 .. mf
        BY <1>3, <3>1, <3>2
      <3> QED
        BY <1>5, <3>1, <3>2, <3>3
    <2>4. ASSUME NEW k \in DOMAIN copies' \ forgotten'.copies
          PROVE  /\ IsFunctionOf(copies[k], k[1], 2)'
                 /\ factories'[copies'[k]].params[2] = k[2]
      <3>1. /\ k \in DOMAIN copies \ forgotten.copies /\ copies' = copies
            /\ ~(copies[k] > mf)
        BY <1>1, <1>8
      <3>2. /\ IsFunctionOf(copies[k], k[1], 2) /\ copies[k] \in 1 .. n0
            /\ factories[copies[k]].params[2] = k[2]
        BY <1>2, <3>1 DEF OperatorTables, IsFunctionOf
      <3>3. copies[k] =< mf
        BY <1>3, <3>1, <3>2
      <3> QED
        BY <2>1, <3>1, <3>2, <3>3 DEF IsFunctionOf
    <2>5. ASSUME NEW t \in DOMAIN many' \ forgotten'.many, NEW id \in many'[t]
          PROVE  IsFunctionOf(id, t, 3)'
      <3>1. /\ t \in DOMAIN many \ forgotten.many /\ id \in many[t]
            /\ ~(id > mf)
        BY <1>1, <1>8
      <3>2. IsFunctionOf(id, t, 3) /\ id \in 1 .. n0
        BY <1>2, <3>1 DEF OperatorTables, IsFunctionOf
      <3> QED
        BY <1>3, <2>1, <3>1, <3>2
    <2> QED
      BY <2>2, <2>3, <2>4, <2>5 DEF OperatorTables
  <1>16. SystemTypes' /\ SystemFunctions' /\ SystemOperators'
    BY <1>1 DEF SystemTypes, SystemFunctions, SystemOperators, Marked
  <1>17. /\ factories' = system.factories /\ overloads' = system.overloads
         /\ types' = system.types /\ structs' = system.structs
    BY <1>1, <1>2, <1>13 DEF SystemTypes, SystemFunctions
  <1>18. PlainOf(typeIds') = PlainOf(system.typeIds)
    <2>1. {m \in DOMAIN typeIds' : typeIds'[m].kind = "plain"}
          = {m \in DOMAIN typeIds : typeIds[m].kind = "plain" /\ typeIds[m].at =< mt}
      BY <1>6
    <2>2. PlainOf(typeIds') = {<<n, typeIds[n]>> : n \in {m \in DOMAIN typeIds :
              typeIds[m].kind = "plain" /\ typeIds[m].at =< mt}}
      BY <1>6, <2>1 DEF PlainOf
    <2> QED
      BY <1>2, <2>2 DEF SystemTypes
  <1>19. ASSUME NEW f, NEW g, f \in {constructors, destructors},
                DOMAIN g = {t \in DOMAIN f : f[t] \notin mf + 1 .. n0},
                \A t \in DOMAIN g : g[t] = f[t]
         PROVE  PlainOperators(g) = Below(f)
    <2>1. \A t \in DOMAIN f : t.kind = "plain" => f[t] \in 1 .. n0
      BY <1>2, <1>19 DEF OperatorTables, OperatorsAreOfTheirType, IsFunctionOf
    <2>2. {s \in DOMAIN g : s.kind = "plain"} = {s \in DOMAIN f : s.kind = "plain" /\ f[s] =< mf}
      BY <1>3, <1>19, <2>1
    <2> QED
      BY <1>19, <2>2 DEF PlainOperators, Below
  <1>20. /\ PlainOperators(constructors') = PlainOperators(system.constructors)
         /\ PlainOperators(destructors') =
                PlainOperators(system.destructors) \cap PlainOperators(destructors)
    <2>1. PlainOperators(constructors') = Below(constructors)
      BY <1>7, <1>19
    <2>2. PlainOperators(destructors') = Below(destructors)
      BY <1>7, <1>19
    <2> QED
      BY <1>2, <2>1, <2>2 DEF SystemOperators
  <1> QED
    BY <1>9, <1>10, <1>14, <1>15, <1>16, <1>17, <1>18, <1>20 DEF Tables

\* A step of a compiler that has no mark clears nothing.
LEMMA CompilePreserves ==
    ASSUME Tables, CompileProgram
    PROVE  Tables'
  <1>1. CASE Marked
    BY <1>1, ClearPreserves
  <1>2. CASE ~Marked
    <2>1. UNCHANGED <<functionVars, operatorVars, typeVars, mark, forgotten, dynamics, system>>
      BY <1>2 DEF CompileProgram, ClearUserLib, Marked
    <2>2. factories \in Seq(FactoryInfo) /\ Len(factories) \in Nat
      BY DEF Tables, FunctionTables
    <2>3. FunctionTables' /\ SystemFunctions'
      BY <2>1, FunctionsStay DEF typeVars
    <2>4. TypeTables' /\ SystemTypes'
      BY <2>1, TypesStay
    <2>5. OperatorTables' /\ SystemOperators'
      BY <2>1, <2>2, OperatorsGrow DEF operatorVars, functionVars
    <2>6. Shape'
      BY <2>1 DEF Tables, Shape
    <2> QED
      BY <2>3, <2>4, <2>5, <2>6 DEF Tables
  <1> QED
    BY <1>1, <1>2

\* The tables of a compiler that has only the basic types and the functions
\* of function objects.
LEMMA InitTables == Init => IInv
  <1> SUFFICES ASSUME Init PROVE IInv
    OBVIOUS
  <1> DEFINE first == [id |-> TypeId(1, "plain"), name |-> BasicTypes[1], mode |-> "ref"]
             ctor == RuntimeFactory("_runtime_ctor")
             dtor == RuntimeFactory("_runtime_dtor")
  <1>1. /\ factories = <<ctor, dtor>>
        /\ overloads = {Item(factories[i].name, factories[i].params, i) : i \in 1 .. 2}
        /\ dynamics = <<>> /\ constructors = <<>> /\ destructors = <<>>
        /\ copies = <<>> /\ many = <<>> /\ arrayInfo = <<>> /\ structs = {}
        /\ types = BasicTypes
        /\ typeIds = [n \in {BasicTypes[i] : i \in DOMAIN BasicTypes} |->
                         TypeId(CHOOSE i \in DOMAIN BasicTypes : BasicTypes[i] = n, "plain")]
        /\ mark = NoMark
        /\ forgotten = [dynamics |-> {}, copies |-> {}, many |-> {}, calls |-> {},
                        names |-> {}, infos |-> {}]
        /\ calls = <<>>
    BY DEF Init
  <1>2. /\ BasicTypes \in Seq(TypeName) /\ Len(BasicTypes) \in Nat \ {0}
        /\ DOMAIN BasicTypes = 1 .. Len(BasicTypes) /\ 1 \in DOMAIN BasicTypes
        /\ \A i, j \in DOMAIN BasicTypes : BasicTypes[i] = BasicTypes[j] => i = j
    BY LibraryAssumption
  <1>3. \A i \in DOMAIN BasicTypes :
            /\ BasicTypes[i] \in DOMAIN typeIds /\ BasicTypes[i] \in TypeName
            /\ typeIds[BasicTypes[i]] = TypeId(i, "plain")
    BY <1>1, <1>2
  <1>4. \A n \in DOMAIN typeIds : \E i \in DOMAIN BasicTypes : n = BasicTypes[i]
    BY <1>1
  <1>5. \A i \in DOMAIN BasicTypes :
            /\ TypeId(i, "plain") \in TypeIdInfo /\ TypeId(i, "plain").at = i
    BY <1>2 DEF TypeId, TypeIdInfo
  <1>6. TypeTables
    <2>1. \A n \in DOMAIN typeIds :
              /\ n \in TypeName /\ typeIds[n] \in TypeIdInfo
              /\ typeIds[n].at \in DOMAIN types /\ types[typeIds[n].at] = n
      <3> SUFFICES ASSUME NEW n \in DOMAIN typeIds
                   PROVE  /\ n \in TypeName /\ typeIds[n] \in TypeIdInfo
                          /\ typeIds[n].at \in DOMAIN types /\ types[typeIds[n].at] = n
        OBVIOUS
      <3>1. PICK i \in DOMAIN BasicTypes : n = BasicTypes[i]
        BY <1>4
      <3>2. /\ n \in TypeName /\ typeIds[n] = TypeId(i, "plain")
            /\ TypeId(i, "plain") \in TypeIdInfo /\ TypeId(i, "plain").at = i
        BY <1>3, <1>5, <3>1
      <3>3. types = BasicTypes
        BY <1>1
      <3> QED
        BY <3>1, <3>2, <3>3
    <2>2. types \in Seq(TypeName) /\ Len(types) >= 1
      BY <1>1, <1>2
    <2>3. forgotten.names = {} /\ DOMAIN arrayInfo = {} /\ structs = {}
      BY <1>1
    <2> QED
      BY <1>2, <1>3, <2>1, <2>2, <2>3 DEF TypeTables
  <1>7. first \in ParamInfo /\ KnownParam(first)
    BY <1>2, <1>3, <1>5 DEF ParamInfo, KnownParam
  <1> HIDE DEF first
  <1>8. /\ ctor = [name |-> <<"_runtime_ctor">>, params |-> <<first>>, dynamic |-> FALSE]
        /\ dtor = [name |-> <<"_runtime_dtor">>, params |-> <<first>>, dynamic |-> FALSE]
    BY DEF RuntimeFactory, Factory, first
  <1>9. /\ ctor \in FactoryInfo /\ dtor \in FactoryInfo /\ Found(ctor) /\ Found(dtor)
        /\ KnownParams(ctor) /\ KnownParams(dtor) /\ ctor.name # dtor.name
    <2>1. /\ <<"_runtime_ctor">> \in Seq(Symbol) /\ <<"_runtime_dtor">> \in Seq(Symbol)
          /\ <<first>> \in Seq(ParamInfo)
          /\ <<"_runtime_ctor">> # <<"_runtime_dtor">>
          /\ <<"_runtime_ctor">> # <<>> /\ <<"_runtime_dtor">> # <<>>
      BY <1>7 DEF Symbol
    <2>2. ctor \in FactoryInfo /\ dtor \in FactoryInfo
      <3>1. \A n \in Seq(Symbol), p \in Seq(ParamInfo) :
                [name |-> n, params |-> p, dynamic |-> FALSE] \in FactoryInfo
        BY DEF FactoryInfo
      <3> QED
        BY <1>8, <2>1, <3>1
    <2>3. /\ ctor.name = <<"_runtime_ctor">> /\ dtor.name = <<"_runtime_dtor">>
          /\ ~ctor.dynamic /\ ~dtor.dynamic
          /\ ctor.params = <<first>> /\ dtor.params = <<first>>
      BY <1>8
    <2>4. NoFactory.name = <<>>
      BY DEF NoFactory
    <2>5. Found(ctor) /\ Found(dtor)
      BY <2>1, <2>3, <2>4 DEF Found
    <2>6. \A k \in DOMAIN <<first>> : KnownParam(<<first>>[k])
      BY <1>7
    <2>7. KnownParams(ctor) /\ KnownParams(dtor)
      BY <2>3, <2>6 DEF KnownParams
    <2> QED
      BY <2>1, <2>2, <2>3, <2>5, <2>7
  <1> HIDE DEF ctor, dtor
  <1>10. /\ factories \in Seq(FactoryInfo) /\ DOMAIN factories = 1 .. 2
         /\ factories[1] = ctor /\ factories[2] = dtor
    BY <1>1, <1>9
  <1>11. FunctionTables
    <2>1. Overloaded = 1 .. 2
      BY <1>9, <1>10 DEF Overloaded
    <2>2. overloads = {Overload(i) : i \in Overloaded}
      BY <1>1, <2>1 DEF Overload
    <2> QED
      BY <1>9, <1>10, <2>1, <2>2 DEF FunctionTables
  <1>12. OperatorTables
    BY <1>1 DEF OperatorTables, OperatorsAreOfTheirType
  <1>13. Shape
    BY <1>1 DEF Shape, NoMark
  <1>14. SystemTypes /\ SystemFunctions /\ SystemOperators
    BY <1>1 DEF SystemTypes, SystemFunctions, SystemOperators, Marked
  <1> QED
    BY <1>1, <1>6, <1>11, <1>12, <1>13, <1>14 DEF IInv, Tables, CallTables

\* An operator() disturbs no other table.
LEMMA RegistFunctionOperatorPreserves ==
    ASSUME Tables, NEW name \in DOMAIN typeIds, NEW id \in DOMAIN factories,
           RegistFunctionOperator(name, id)
    PROVE  Tables'
  <1>1. /\ UNCHANGED <<functionVars, dynamics, constructors, destructors, copies, many>>
        /\ UNCHANGED <<typeVars, markVars>>
        /\ forgotten' = [forgotten EXCEPT !.calls = @ \ {typeIds[name]}]
    BY DEF RegistFunctionOperator
  <1>2. /\ forgotten'.dynamics = forgotten.dynamics /\ forgotten'.copies = forgotten.copies
        /\ forgotten'.many = forgotten.many /\ forgotten'.names = forgotten.names
        /\ forgotten'.infos = forgotten.infos /\ DOMAIN forgotten' = DOMAIN forgotten
    BY <1>1 DEF Tables, Shape
  <1>3. factories \in Seq(FactoryInfo) /\ Len(factories) \in Nat
    BY DEF Tables, FunctionTables
  <1>4. FunctionTables' /\ SystemFunctions'
    BY <1>1, FunctionsStay DEF typeVars, markVars
  <1>5. TypeTables' /\ SystemTypes'
    BY <1>1, <1>2, TypesStay DEF markVars
  <1>6. OperatorTables' /\ SystemOperators'
    BY <1>1, <1>2, <1>3, OperatorsGrow DEF functionVars, markVars
  <1>7. Shape'
    BY <1>1, <1>2 DEF Tables, Shape, markVars
  <1> QED
    BY <1>4, <1>5, <1>6, <1>7 DEF Tables

\* No step of the compiler breaks what the other tables agree on.
LEMMA NextPreservesTables == Tables /\ [Next]_vars => Tables'
  <1> SUFFICES ASSUME Tables, [Next]_vars PROVE Tables'
    OBVIOUS
  <1>1. CASE UNCHANGED vars
    <2>1. UNCHANGED <<functionVars, operatorVars, typeVars, mark, forgotten, dynamics, system>>
      BY <1>1 DEF vars, markVars
    <2>2. factories \in Seq(FactoryInfo) /\ Len(factories) \in Nat
      BY DEF Tables, FunctionTables
    <2>3. FunctionTables' /\ SystemFunctions'
      BY <2>1, FunctionsStay DEF typeVars
    <2>4. TypeTables' /\ SystemTypes'
      BY <2>1, TypesStay
    <2>5. OperatorTables' /\ SystemOperators'
      BY <2>1, <2>2, OperatorsGrow DEF operatorVars, functionVars
    <2>6. Shape'
      BY <2>1 DEF Tables, Shape
    <2> QED
      BY <2>3, <2>4, <2>5, <2>6 DEF Tables
  <1>2. ASSUME NEW n \in FunctionNames, NEW l \in ParamLists, RegistFunction(<<n>>, l)
        PROVE  Tables'
    BY <1>2, RegistFunctionPreserves
  <1>3. ASSUME NEW n \in DynamicNames, RegistDynamicFunction(n) PROVE Tables'
    BY <1>3, RegistDynamicFunctionPreserves
  <1>4. ASSUME NEW t \in UserTypes, RegisterUserType(t) PROVE Tables'
    BY <1>4, RegisterUserTypePreserves
  <1>5. ASSUME NEW t \in Structs, RegistStruct(t) PROVE Tables'
    BY <1>5, RegistStructPreserves
  <1>6. ASSUME NEW t \in DOMAIN Arrays, RegistArrayType(t) PROVE Tables'
    BY <1>6, RegistArrayTypePreserves
  <1>7. ASSUME NEW t \in FunctionTypes, RegistFunctionType(t) PROVE Tables'
    BY <1>7, RegistFunctionTypePreserves
  <1>8. ASSUME NEW t \in DOMAIN typeIds, NEW mode \in {"value", "ref"}, NEW l \in MoreParams,
               RegisterConstructor(t, mode, l)
        PROVE  Tables'
    BY <1>8, RegisterConstructorPreserves
  <1>9. ASSUME NEW t \in DOMAIN typeIds, RegisterDestructor(t) PROVE Tables'
    BY <1>9, RegisterDestructorPreserves
  <1>10. CASE BeginUserLib
    BY <1>10, BeginUserLibPreserves
  <1>11. CASE CompileProgram
    BY <1>11, CompilePreserves
  <1>12. ASSUME NEW t \in CalledTypes \cap DOMAIN typeIds, NEW id \in DOMAIN factories,
                RegistFunctionOperator(t, id)
         PROVE  Tables'
    BY <1>12, RegistFunctionOperatorPreserves
  <1> QED
    BY <1>1, <1>2, <1>3, <1>4, <1>5, <1>6, <1>7, <1>8, <1>9, <1>10, <1>11, <1>12 DEF Next

\* What an operator() leads to stays while functions, types and names are added.
LEMMA CallsStay ==
    ASSUME Tables, CallTables, calls' = calls, forgotten'.calls = forgotten.calls,
           Len(factories') \in Nat, Len(factories') >= Len(factories),
           DOMAIN factories' = 1 .. Len(factories'),
           \A i \in 1 .. Len(factories) : factories'[i] = factories[i],
           \A n \in DOMAIN dynamics : n \in DOMAIN dynamics' /\ dynamics'[n] = dynamics[n],
           DOMAIN types \subseteq DOMAIN types',
           forgotten'.names = forgotten.names,
           \A n \in DOMAIN typeIds : n \in DOMAIN typeIds' /\ typeIds'[n] = typeIds[n]
    PROVE  CallTables'
  <1> SUFFICES ASSUME NEW t \in DOMAIN calls \ forgotten.calls
               PROVE  /\ IsCallOperator(calls[t], t)'
                      /\ t.at \in DOMAIN types' \/ \E n \in forgotten.names : typeIds'[n] = t
    BY DEF CallTables
  <1>1. /\ IsCallOperator(calls[t], t)
        /\ t.at \in DOMAIN types \/ \E n \in forgotten.names : typeIds[n] = t
    BY DEF CallTables
  <1>2. calls[t] \in DOMAIN factories' /\ factories'[calls[t]] = factories[calls[t]]
        /\ calls[t] \in DOMAIN factories
    BY <1>1 DEF IsCallOperator, Tables, FunctionTables
  <1>3. IsDynamic(calls[t]) => IsDynamic(calls[t])'
    BY <1>2 DEF IsDynamic
  <1>4. IsCallOperator(calls[t], t)'
    BY <1>1, <1>2, <1>3 DEF IsCallOperator
  <1>5. \A n \in forgotten.names : n \in DOMAIN typeIds
    BY DEF Tables, TypeTables
  <1> QED
    BY <1>1, <1>4, <1>5

\* A step that registers no operator() and clears nothing only adds.
Added ==
    /\ Len(factories') \in Nat /\ Len(factories') >= Len(factories)
    /\ DOMAIN factories' = 1 .. Len(factories')
    /\ \A i \in 1 .. Len(factories) : factories'[i] = factories[i]
Kept ==
    /\ \A n \in DOMAIN dynamics : n \in DOMAIN dynamics' /\ dynamics'[n] = dynamics[n]
    /\ DOMAIN types \subseteq DOMAIN types'
    /\ \A n \in DOMAIN typeIds : n \in DOMAIN typeIds' /\ typeIds'[n] = typeIds[n]
    /\ calls' = calls
    /\ forgotten'.calls = forgotten.calls /\ forgotten'.names = forgotten.names

LEMMA FactoriesAdded ==
    ASSUME Tables,
           \/ factories' = factories
           \/ \E x : factories' = Append(factories, x)
           \/ \E x, y : factories' = factories \o <<x, y>>
    PROVE  Added
  <1>1. factories \in Seq(FactoryInfo) /\ Len(factories) \in Nat
    BY DEF Tables, FunctionTables
  <1>2. CASE factories' = factories
    BY <1>1, <1>2 DEF Added
  <1>3. ASSUME NEW x, factories' = Append(factories, x)
        PROVE  Added
    <2> DEFINE S == FactoryInfo \cup {x}
    <2>1. factories \in Seq(S) /\ x \in S
      BY <1>1
    <2> HIDE DEF S
    <2> QED
      BY <1>3, <2>1 DEF Added
  <1>4. ASSUME NEW x, NEW y, factories' = factories \o <<x, y>>
        PROVE  Added
    <2> DEFINE S == FactoryInfo \cup {x, y}
    <2>1. factories \in Seq(S) /\ <<x, y>> \in Seq(S)
      BY <1>1
    <2> HIDE DEF S
    <2> QED
      BY <1>4, <2>1 DEF Added
  <1> QED
    BY <1>2, <1>3, <1>4

LEMMA TypesKept ==
    ASSUME Tables, NEW name \in TypeName, NEW kind \in {"plain", "array", "function"},
           RegistType(name, kind), calls' = calls, dynamics' = dynamics,
           forgotten'.calls = forgotten.calls, forgotten'.names = forgotten.names
    PROVE  Kept
  <1>1. DOMAIN types = 1 .. Len(types)
    BY DEF Tables, TypeTables
  <1>2. /\ types' \in Seq(TypeName) /\ Len(types') = Len(types) + 1 /\ Len(types) \in Nat
        /\ DOMAIN typeIds' = DOMAIN typeIds \cup {name}
        /\ \A n \in DOMAIN typeIds : typeIds'[n] = typeIds[n]
    BY RegistTypeFields
  <1> QED
    BY <1>1, <1>2 DEF Kept

LEMMA CallTablesPreserved ==
    ASSUME Tables, CallTables, [Next]_vars
    PROVE  CallTables'
  <1>1. ASSUME Added, Kept
        PROVE  CallTables'
    BY <1>1, CallsStay DEF Added, Kept
  <1>2. CASE UNCHANGED vars
    BY <1>1, <1>2, FactoriesAdded DEF vars, functionVars, operatorVars, typeVars, Kept
  <1>3. ASSUME NEW n \in FunctionNames, NEW l \in ParamLists, RegistFunction(<<n>>, l)
        PROVE  CallTables'
    BY <1>1, <1>3, FactoriesAdded DEF RegistFunction, Map, operatorVars, typeVars, Kept
  <1>4. ASSUME NEW n \in DynamicNames, RegistDynamicFunction(n)
        PROVE  CallTables'
    <2>1. Added
      BY <1>4, FactoriesAdded DEF RegistDynamicFunction
    <2>2. \A x \in DOMAIN dynamics : x \in DOMAIN dynamics' /\ dynamics'[x] = dynamics[x]
      BY <1>4 DEF RegistDynamicFunction, Put
    <2>3. Kept
      BY <1>4, <2>2 DEF RegistDynamicFunction, operatorVars, typeVars, Kept
    <2> QED
      BY <1>1, <2>1, <2>3
  <1>5. ASSUME NEW t \in UserTypes, RegisterUserType(t)
        PROVE  CallTables'
    BY <1>1, <1>5, FactoriesAdded, TypesKept
       DEF RegisterUserType, TypeName, functionVars, operatorVars
  <1>6. ASSUME NEW t \in Structs, RegistStruct(t)
        PROVE  CallTables'
    BY <1>1, <1>6, FactoriesAdded, TypesKept
       DEF RegistStruct, TypeName, functionVars, operatorVars
  <1>7. ASSUME NEW t \in DOMAIN Arrays, RegistArrayType(t)
        PROVE  CallTables'
    BY <1>1, <1>7, FactoriesAdded, TypesKept
       DEF RegistArrayType, TypeName, functionVars, operatorVars
  <1>8. ASSUME NEW t \in FunctionTypes, RegistFunctionType(t)
        PROVE  CallTables'
    <2>1. /\ t \in TypeName /\ RegistType(t, "function")
          /\ calls' = calls /\ dynamics' = dynamics
          /\ \E S : forgotten' = [forgotten EXCEPT !.copies = S]
          /\ \E x, y : factories' = factories \o <<x, y>>
      BY <1>8 DEF RegistFunctionType, TypeName
    <2>2. forgotten'.calls = forgotten.calls /\ forgotten'.names = forgotten.names
      BY <2>1 DEF Tables, Shape
    <2> QED
      BY <1>1, <2>1, <2>2, FactoriesAdded, TypesKept
  <1>9. ASSUME NEW t \in DOMAIN typeIds, NEW mode \in {"value", "ref"}, NEW l \in MoreParams,
               RegisterConstructor(t, mode, l)
        PROVE  CallTables'
    <2>1. /\ \E x : factories' = Append(factories, x)
          /\ forgotten' = forgotten \/ \E S : forgotten' = [forgotten EXCEPT !.copies = S]
          /\ UNCHANGED <<dynamics, calls, typeVars>>
      BY <1>9 DEF RegisterConstructor, RegistConstructor, Map
    <2>2. forgotten'.calls = forgotten.calls /\ forgotten'.names = forgotten.names
      BY <2>1 DEF Tables, Shape
    <2> QED
      BY <1>1, <2>1, <2>2, FactoriesAdded DEF Kept, typeVars
  <1>10. ASSUME NEW t \in DOMAIN typeIds, RegisterDestructor(t)
         PROVE  CallTables'
    BY <1>1, <1>10, FactoriesAdded DEF RegisterDestructor, Map, Kept, typeVars
  <1>11. CASE BeginUserLib
    BY <1>1, <1>11, FactoriesAdded
       DEF BeginUserLib, functionVars, operatorVars, typeVars, Kept
  <1>12. CASE CompileProgram /\ ~Marked
    BY <1>1, <1>12, FactoriesAdded
       DEF CompileProgram, ClearUserLib, Marked, functionVars, operatorVars, typeVars, Kept
  <1>13. CASE CompileProgram /\ Marked
    <2> DEFINE mf == mark.functions
               mt == mark.types
    <2>1. /\ types' = SubSeq(types, 1, mt)
          /\ typeIds' = Keep(typeIds, {n \in DOMAIN typeIds :
                 typeIds[n].kind = "plain" => typeIds[n].at =< mt})
          /\ factories' = SubSeq(factories, 1, mf)
          /\ forgotten' = [k \in DOMAIN forgotten |-> forgotten[k] \cup Leftovers[k]]
          /\ UNCHANGED <<calls, dynamics>>
      BY <1>13 DEF Marked, CompileProgram, ClearUserLib, ClearUserTypes
    <2>2. /\ Shape /\ TypeTables
          /\ types \in Seq(TypeName) /\ factories \in Seq(FactoryInfo)
          /\ Len(factories) \in Nat /\ Len(types) \in Nat
          /\ mf \in 0 .. Len(factories) /\ mt \in 1 .. Len(types)
      BY <1>13 DEF Tables, TypeTables, FunctionTables, SystemFunctions, SystemTypes
    <2>3. /\ DOMAIN types' = 1 .. mt /\ DOMAIN factories' = 1 .. mf
          /\ \A i \in 1 .. mf : factories'[i] = factories[i]
      BY <2>1, <2>2
    <2>4. /\ forgotten'.calls = forgotten.calls
                 \cup {t \in DOMAIN calls : calls[t] > mf \/ t.at > mt}
          /\ forgotten.names \subseteq forgotten'.names
      BY <2>1, <2>2 DEF Shape, Leftovers
    <2>5. \A n \in forgotten.names : n \in DOMAIN typeIds' /\ typeIds'[n] = typeIds[n]
                                     /\ typeIds[n].at \in Nat \ {0}
      BY <2>1, <2>2 DEF TypeTables, Keep, TypeIdInfo
    <2> SUFFICES ASSUME NEW t \in DOMAIN calls \ forgotten'.calls
                 PROVE  /\ IsCallOperator(calls[t], t)'
                        /\ t.at \in DOMAIN types' \/ \E n \in forgotten'.names : typeIds'[n] = t
      BY <2>1 DEF CallTables
    <2>6. /\ IsCallOperator(calls[t], t) /\ ~(calls[t] > mf)
          /\ t.at \in DOMAIN types \/ \E n \in forgotten.names : typeIds[n] = t
      BY <2>4 DEF CallTables
    <2>7. calls[t] \in 1 .. mf /\ calls[t] \in DOMAIN factories
      BY <2>2, <2>6 DEF IsCallOperator
    <2>8. IsDynamic(calls[t]) => IsDynamic(calls[t])'
      BY <2>1, <2>3, <2>7 DEF IsDynamic
    <2>9. IsCallOperator(calls[t], t)'
      BY <2>1, <2>3, <2>6, <2>7, <2>8 DEF IsCallOperator
    <2>10. t.at \in DOMAIN types' \/ \E n \in forgotten'.names : typeIds'[n] = t
      BY <2>2, <2>3, <2>4, <2>5, <2>6
    <2> QED
      BY <2>9, <2>10
  <1>14. ASSUME NEW name \in CalledTypes \cap DOMAIN typeIds, NEW id \in DOMAIN factories,
                RegistFunctionOperator(name, id)
         PROVE  CallTables'
    <2> DEFINE type == typeIds[name]
    <2>1. /\ IsCallOperator(id, type) /\ calls' = Put(calls, type, id)
          /\ forgotten' = [forgotten EXCEPT !.calls = @ \ {type}]
          /\ UNCHANGED <<functionVars, dynamics, typeVars>>
      BY <1>14 DEF RegistFunctionOperator
    <2>2. forgotten'.calls = forgotten.calls \ {type} /\ forgotten'.names = forgotten.names
      BY <2>1 DEF Tables, Shape
    <2>3. /\ DOMAIN calls' = DOMAIN calls \cup {type} /\ calls'[type] = id
          /\ \A t \in DOMAIN calls \ {type} : calls'[t] = calls[t]
      BY <2>1 DEF Put
    <2>4. type.at \in DOMAIN types \/ name \in forgotten.names
      BY <1>14 DEF Tables, TypeTables
    <2> SUFFICES ASSUME NEW t \in DOMAIN calls' \ forgotten'.calls
                 PROVE  /\ IsCallOperator(calls[t], t)'
                        /\ t.at \in DOMAIN types \/ \E n \in forgotten.names : typeIds[n] = t
      BY <2>1, <2>2 DEF CallTables, typeVars
    <2>5. CASE t = type
      <3>1. IsCallOperator(calls[t], t)'
        BY <2>1, <2>3, <2>5 DEF IsCallOperator, IsDynamic, functionVars
      <3> QED
        BY <2>4, <2>5, <3>1
    <2>6. CASE t # type
      <3>1. t \in DOMAIN calls \ forgotten.calls /\ calls'[t] = calls[t]
        BY <2>2, <2>3, <2>6
      <3>2. /\ IsCallOperator(calls[t], t)
            /\ t.at \in DOMAIN types \/ \E n \in forgotten.names : typeIds[n] = t
        BY <3>1 DEF CallTables
      <3>3. IsCallOperator(calls[t], t)'
        BY <2>1, <3>1, <3>2 DEF IsCallOperator, IsDynamic, functionVars
      <3> QED
        BY <3>2, <3>3
    <2> QED
      BY <2>5, <2>6
  <1> QED
    BY <1>2, <1>3, <1>4, <1>5, <1>6, <1>7, <1>8, <1>9, <1>10, <1>11, <1>12, <1>13, <1>14
       DEF Next

\* No step of the compiler breaks what its tables agree on.
LEMMA NextPreserves == IInv /\ [Next]_vars => IInv'
  BY NextPreservesTables, CallTablesPreserved DEF IInv

\* The tables of a compiler agree with each other and, below the mark, with
\* the system library, after any registrations, marks and compiles.
THEOREM TablesAgree == Spec => []IInv
  BY InitTables, NextPreserves, PTL DEF Spec

\* An overload a call can choose always leads to the factory registered under
\* its name and parameters, and each factory is found by exactly one.
THEOREM OverloadsAreFound == Spec => []OverloadsLeadToTheirFactories
  <1>1. IInv => OverloadsLeadToTheirFactories
    <2> SUFFICES ASSUME IInv PROVE OverloadsLeadToTheirFactories
      OBVIOUS
    <2>1. /\ FunctionTables /\ factories \in Seq(FactoryInfo)
          /\ overloads = {Overload(i) : i \in Overloaded}
      BY DEF IInv, Tables, FunctionTables
    <2>2. ASSUME NEW i \in Overloaded
          PROVE  /\ Overload(i).id = i /\ i \in DOMAIN factories
                 /\ Overload(i).name = factories[i].name
                 /\ Overload(i).params = factories[i].params
                 /\ factories[i] = Factory(factories[i].name, factories[i].params)
      <3>1. i \in DOMAIN factories /\ ~factories[i].dynamic
        BY DEF Overloaded, Found
      <3>2. factories[i] \in FactoryInfo
        BY <2>1, <3>1
      <3>3. factories[i] = [name |-> factories[i].name, params |-> factories[i].params,
                            dynamic |-> FALSE]
        BY <3>1, <3>2 DEF FactoryInfo
      <3> QED
        BY <3>1, <3>3 DEF Overload, Item, Factory
    <2>3. ASSUME NEW o \in overloads
          PROVE  o.id \in DOMAIN factories /\ factories[o.id] = Factory(o.name, o.params)
      <3>1. PICK i \in Overloaded : o = Overload(i)
        BY <2>1
      <3> QED
        BY <2>2, <3>1
    <2>4. ASSUME NEW id \in DOMAIN factories, factories[id] # NoFactory,
                 ~factories[id].dynamic
          PROVE  Cardinality({o \in overloads : o.id = id}) = 1
      <3>1. id \in Overloaded
        BY <2>4 DEF Overloaded, Found
      <3>2. {o \in overloads : o.id = id} = {Overload(id)}
        BY <2>1, <2>2, <3>1
      <3> QED
        BY <3>2, FS_Singleton
    <2>5. ASSUME NEW o \in overloads, NEW p \in overloads, o.name = p.name, o.params = p.params
          PROVE  o = p
      <3>1. PICK i \in Overloaded, j \in Overloaded : o = Overload(i) /\ p = Overload(j)
        BY <2>1
      <3>2. factories[i].name = factories[j].name /\ factories[i].params = factories[j].params
        BY <2>2, <2>5, <3>1
      <3>3. i = j
        BY <2>1, <3>2 DEF FunctionTables
      <3> QED
        BY <3>1, <3>3
    <2> QED
      BY <2>3, <2>4, <2>5 DEF OverloadsLeadToTheirFactories
  <1> QED
    BY <1>1, TablesAgree, PTL

\* The constructor and destructor of a plain type are always live functions
\* of an object of the type.
THEOREM OperatorsFitTheirType == Spec => []OperatorsAreOfTheirType
  <1>1. IInv => OperatorsAreOfTheirType
    BY DEF IInv, Tables, OperatorTables
  <1> QED
    BY <1>1, TablesAgree, PTL

\* Only what a clear is known to forget can be stale.
THEOREM NothingElseIsStale == Spec => []StaleOnlyWhatIsForgotten
  <1>1. IInv => StaleOnlyWhatIsForgotten
    BY DEF IInv, Tables, OperatorTables, TypeTables,
              CallTables, StaleOnlyWhatIsForgotten
  <1> QED
    BY <1>1, TablesAgree, PTL

\* A compile that clears gives the system library back.
THEOREM SystemLibraryIsRestored == Spec => ClearRestores
  <1> DEFINE Restores ==
        mark # NoMark /\ mark' = NoMark =>
            /\ factories' = system.factories /\ overloads' = system.overloads
            /\ types' = system.types /\ structs' = system.structs
            /\ PlainOf(typeIds') = PlainOf(system.typeIds)
            /\ PlainOperators(constructors') = PlainOperators(system.constructors)
            /\ PlainOperators(destructors') =
                   PlainOperators(system.destructors) \cap PlainOperators(destructors)
  <1>1. IInv /\ [Next]_vars => [Restores]_vars
    <2> SUFFICES ASSUME IInv, Next, mark # NoMark, mark' = NoMark PROVE Restores
      OBVIOUS
    <2>1. mark' # mark
      OBVIOUS
    <2>2. ~BeginUserLib
      BY BeginUserLibPreserves DEF IInv
    <2>3. CompileProgram
      BY <2>1, <2>2 DEF Next, markVars, RegistFunction, RegistDynamicFunction,
                        RegisterUserType, RegistStruct, RegistArrayType,
                        RegistFunctionType, RegisterConstructor, RegisterDestructor,
                        RegistFunctionOperator
    <2> QED
      BY <2>3, ClearPreserves DEF IInv, Marked
  <1> QED
    BY <1>1, TablesAgree, PTL DEF Spec, ClearRestores
=============================================================================
