---------------------------- MODULE UserLibrary ----------------------------
(***************************************************************************)
(* The library a ScriptCompiler looks names up in, and what clearUserLib   *)
(* takes out of it again.  The host (and the parser, for the structs and   *)
(* functions of a script) registers types and functions; beginUserLib      *)
(* marks the end of the system library; compileProgram starts by clearing  *)
(* everything registered after the mark.  Ids are positions in two         *)
(* vectors, the factories and the types, which clearUserLib truncates, so  *)
(* an id that a map still holds afterwards is given to somebody else.      *)
(*                                                                         *)
(* Ids are counted from 1.  Sizes, priorities, return types and the        *)
(* accuracy of conversions are left out; an array has one dimension.       *)
(***************************************************************************)
EXTENDS Naturals, Sequences, FiniteSets

CONSTANTS
    FunctionNames,  \* names of ordinary functions
    DynamicNames,   \* names of functions that take any parameters
    BasicTypes,     \* the sequence of the types of the system
    UserTypes,      \* names of native types a host registers
    Structs,        \* names of structs a script or a host defines
    Arrays,         \* name of an array type -> [element |-> name, count |-> n]
    FunctionTypes,  \* names of function types
    ParamLists,     \* parameter lists of ordinary functions, as written
    CalledTypes,    \* names of the types a host gives an operator()
    MoreParams,     \* parameter lists of constructors after the object
    MaxFunctions,   \* bound on the functions registered at one time
    MaxTypes,       \* bound on the types registered at one time
    MaxPrograms     \* bound on the programs compiled

TypeName == {BasicTypes[i] : i \in DOMAIN BasicTypes} \cup UserTypes \cup Structs
            \cup DOMAIN Arrays \cup FunctionTypes

ASSUME LibraryAssumption ==
    /\ BasicTypes \in Seq(TypeName) /\ BasicTypes # <<>>
    /\ \A i, j \in DOMAIN BasicTypes : BasicTypes[i] = BasicTypes[j] => i = j
    /\ ParamLists \cup MoreParams
           \subseteq Seq([name : TypeName, mode : {"value", "ref", "semi"}])

VARIABLES
    factories,      \* ScriptCompiler::_functionFactories, by function id
    overloads,      \* FuncLibrary::_functionsMap, the items of all lists
    dynamics,       \* FuncLibrary::_dynamicFunctionMap
    constructors,   \* ScriptCompiler::_constructorMap
    destructors,    \* ScriptCompiler::_destructorMap
    copies,         \* ScriptCompiler::_copyConstructorMap, flattened
    many,           \* ScriptCompiler::_constructorsMap
    calls,          \* ScriptCompiler::_functionCallMap, the operator()
    types,          \* TypeManager::_typesInString, by type id
    typeIds,        \* TypeManager::_typeStringIntMap
    arrayInfo,      \* TypeManager::_typeInfoMap
    structs,        \* TypeManager::_structMap, the ids it holds
    mark,           \* the _systemLibMarkEnd of the compiler and its parts
    program,        \* the number of the bound Program
    system,         \* history: the library when the mark was set
    forgotten       \* history: the entries that outlived a clear

functionVars == <<factories, overloads>>
operatorVars == <<constructors, destructors, copies, many, calls>>
typeVars     == <<types, typeIds, arrayInfo, structs>>
markVars     == <<mark, program, system>>
vars == <<functionVars, dynamics, operatorVars, typeVars, markVars, forgotten>>

Put(f, k, v) == [x \in DOMAIN f \cup {k} |-> IF x = k THEN v ELSE f[x]]
Keep(f, S)   == [x \in DOMAIN f \cap S |-> f[x]]

-----------------------------------------------------------------------------
\* A type id is a position and the mask the type was registered with, of a
\* plain type, an array or a function.  A
\* ScriptType adds the name and whether it is a value, a ref or a semi-ref.
TypeId(at, kind) == [at |-> at, kind |-> kind]
ScriptType(name, mode) ==
    [id |-> typeIds[name], name |-> name, mode |-> mode]

\* parseArgumentTypes: a list that names an unknown type is refused.
Known(list) == \A i \in DOMAIN list : list[i].name \in DOMAIN typeIds
ArgumentTypes(list) ==
    [i \in DOMAIN list |-> ScriptType(list[i].name, list[i].mode)]

NoFactory == [name |-> <<>>, params |-> <<>>, dynamic |-> FALSE]
Factory(name, params) ==
    [name |-> name, params |-> params, dynamic |-> FALSE]
DynamicFactory(name) ==
    [name |-> <<name>>, params |-> <<>>, dynamic |-> TRUE]
NextId == Len(factories) + 1
CanRegister(n) == Len(factories) + n =< MaxFunctions

\* FuncLibrary::mapFunction finds an item of the name and the parameters.
Taken(name, params) ==
    \E o \in overloads : o.name = name /\ o.params = params
Item(name, params, id) == [name |-> name, params |-> params, id |-> id]

Map(name, params) ==
    /\ overloads' = overloads \cup {Item(name, params, NextId)}
    /\ factories' = Append(factories, Factory(name, params))

RegistFunction(name, list) ==
    /\ CanRegister(1)
    /\ Known(list)
    /\ ~Taken(name, ArgumentTypes(list))
    /\ Map(name, ArgumentTypes(list))
    /\ UNCHANGED <<dynamics, operatorVars, typeVars, markVars, forgotten>>

RegistDynamicFunction(name) ==
    /\ CanRegister(1)
    /\ name \notin DOMAIN dynamics
    /\ dynamics' = Put(dynamics, name, NextId)
    /\ factories' = Append(factories, DynamicFactory(name))
    /\ UNCHANGED <<overloads, operatorVars, typeVars, markVars, forgotten>>

-----------------------------------------------------------------------------
\* registerTypeAutoOperator: the function of a constructor or destructor gets
\* a name of its own; while the name is taken, the next number is tried.
AutoName(prefix, type, params) ==
    LET Clashes(i) == Taken(<<prefix, type, i>>, params)
    IN  CHOOSE i \in 0 .. Len(factories) :
            ~Clashes(i) /\ \A j \in 0 .. i - 1 : Clashes(j)

\* registConstructor keeps the function by its number of parameters; the
\* search for an equal prototype among those of three parameters or more
\* compares iterators of two vectors and never finds one.
RegistConstructor(type, params, id) ==
    LET key == <<type, params[2]>> IN
    CASE Len(params) = 1 ->
            /\ type \notin DOMAIN constructors
            /\ constructors' = Put(constructors, type, id)
            /\ UNCHANGED <<copies, many, forgotten>>
      [] Len(params) = 2 ->
            /\ copies' = Put(copies, key, id)
            /\ forgotten' = [forgotten EXCEPT !.copies = @ \ {key}]
            /\ UNCHANGED <<constructors, many>>
      [] OTHER ->
            /\ many' = Put(many, type,
                           (IF type \in DOMAIN many THEN many[type] ELSE {})
                               \cup {id})
            /\ UNCHANGED <<constructors, copies, forgotten>>

\* The object of a constructor is a ref; one that is not, and a second default
\* constructor, are refused, and the function just registered is taken out
\* again.  Only the level of the object is tested, not its type: the host names
\* the type it registers for, which is all that is asked of it here.
RegisterConstructor(type, mode, more) ==
    LET object == ScriptType(type, mode)
        params == <<object>> \o ArgumentTypes(more)
        name   == <<"_ctor_", type, AutoName("_ctor_", type, params)>>
        refused == mode # "ref" \/ (more = <<>> /\ object.id \in DOMAIN constructors)
    IN  /\ CanRegister(1)
        /\ type \in DOMAIN typeIds /\ typeIds[type].kind = "plain"
        /\ Known(more)
        /\ IF refused
           THEN /\ factories' = Append(factories, NoFactory)
                /\ UNCHANGED <<overloads, constructors, copies, many, forgotten>>
           ELSE /\ Map(name, params)
                /\ RegistConstructor(object.id, params, NextId)
        /\ UNCHANGED <<dynamics, destructors, calls, typeVars, markVars>>

RegisterDestructor(type) ==
    LET params == <<ScriptType(type, "ref")>>
        name   == <<"_dtor_", type, AutoName("_dtor_", type, params)>>
    IN  /\ CanRegister(1)
        /\ type \in DOMAIN typeIds /\ typeIds[type].kind = "plain"
        /\ Map(name, params)
        /\ destructors' = Put(destructors, typeIds[type], NextId)
        /\ UNCHANGED <<dynamics, constructors, copies, many, calls>>
        /\ UNCHANGED <<typeVars, markVars, forgotten>>

\* The operator() of a type is a dynamic function or one whose first parameter
\* is of the type; a later one takes the place of the one before.
IsDynamic(id) ==
    \E n \in DOMAIN dynamics : dynamics[n] = id /\ factories[id].name = <<n>>
IsCallOperator(id, type) ==
    /\ id \in DOMAIN factories /\ factories[id] # NoFactory
    /\ \/ IsDynamic(id)
       \/ factories[id].params # <<>> /\ factories[id].params[1].id = type

RegistFunctionOperator(name, id) ==
    /\ IsCallOperator(id, typeIds[name])
    /\ calls' = Put(calls, typeIds[name], id)
    /\ forgotten' = [forgotten EXCEPT !.calls = @ \ {typeIds[name]}]
    /\ UNCHANGED <<functionVars, dynamics, constructors, destructors, copies, many>>
    /\ UNCHANGED <<typeVars, markVars>>

-----------------------------------------------------------------------------
\* TypeManager::registType refuses a name it has.
RegistType(name, kind) ==
    /\ Len(types) < MaxTypes
    /\ name \notin DOMAIN typeIds
    /\ types' = Append(types, name)
    /\ typeIds' = Put(typeIds, name, TypeId(Len(types) + 1, kind))

NewId(kind) == TypeId(Len(types) + 1, kind)

RegisterUserType(name) ==
    /\ RegistType(name, "plain")
    /\ UNCHANGED <<arrayInfo, structs>>
    /\ UNCHANGED <<functionVars, dynamics, operatorVars, markVars, forgotten>>

RegistStruct(name) ==
    /\ RegistType(name, "plain")
    /\ structs' = structs \cup {NewId("plain").at}
    /\ UNCHANGED arrayInfo
    /\ UNCHANGED <<functionVars, dynamics, operatorVars, markVars, forgotten>>

\* registTypeInfo inserts: a key that is still there keeps what it has.
RegistArrayType(name) ==
    LET id   == NewId("array")
        info == [element |-> typeIds[Arrays[name].element],
                 count   |-> Arrays[name].count]
    IN  /\ Arrays[name].element \in DOMAIN typeIds
        /\ RegistType(name, "array")
        /\ arrayInfo' = IF id \in DOMAIN arrayInfo
                        THEN arrayInfo ELSE Put(arrayInfo, id, info)
        /\ UNCHANGED structs
        /\ UNCHANGED <<functionVars, dynamics, operatorVars>>
        /\ UNCHANGED <<markVars, forgotten>>

\* A function type takes the system's constructor and destructor of function
\* objects, and two functions of its own: a copy and one that takes null.
RuntimeConstructor == 1
RuntimeDestructor == 2
RegistFunctionType(name) ==
    LET id == NewId("function")
        object(mode) == [id |-> id, name |-> name, mode |-> mode]
        null == ScriptType(BasicTypes[1], "value")
        copyParams == <<object("ref"), object("semi")>>
        nullParams == <<object("ref"), null>>
    IN  /\ CanRegister(2)
        /\ RegistType(name, "function")
        /\ constructors' = IF id \in DOMAIN constructors THEN constructors
                           ELSE Put(constructors, id, RuntimeConstructor)
        /\ destructors' = Put(destructors, id, RuntimeDestructor)
        /\ factories' = factories \o
               <<Factory(<<"_copy">>, copyParams),
                 Factory(<<"_initize_by_null">>, nullParams)>>
        /\ overloads' = overloads \cup
               {Item(<<"_copy">>, copyParams, NextId),
                Item(<<"_initize_by_null">>, nullParams, NextId + 1)}
        /\ copies' = Put(Put(copies, <<id, copyParams[2]>>, NextId),
                         <<id, null>>, NextId + 1)
        /\ forgotten' = [forgotten EXCEPT
               !.copies = @ \ {<<id, copyParams[2]>>, <<id, null>>}]
        /\ UNCHANGED <<dynamics, many, calls, arrayInfo, structs, markVars>>

-----------------------------------------------------------------------------
NoMark == [functions |-> 0, types |-> 0]

BeginUserLib ==
    /\ mark' = [functions |-> Len(factories), types |-> Len(types)]
    /\ system' = [marked |-> TRUE,
                  factories |-> factories, overloads |-> overloads,
                  constructors |-> constructors, destructors |-> destructors,
                  types |-> types, typeIds |-> typeIds, structs |-> structs]
    /\ UNCHANGED <<functionVars, dynamics, operatorVars, typeVars>>
    /\ UNCHANGED <<program, forgotten>>

(* Wrong variants: one of the maps is left alone. *)
UnregisterMappedByName(ids) ==
    LET Others(f) == Keep(f, {t \in DOMAIN f : f[t] \notin ids})
    IN  /\ constructors' = Others(constructors)
        /\ destructors' = Others(destructors)
        /\ UNCHANGED overloads
UnregisterButDestructors(ids) ==
    /\ overloads' = {o \in overloads : o.id \notin ids}
    /\ constructors' =
           Keep(constructors, {t \in DOMAIN constructors :
                                  constructors[t] \notin ids})
    /\ UNCHANGED destructors

\* unregisterFunction: the item of the name, and the default constructors and
\* destructors that hold the id.
Unregister(ids) ==
    LET Others(f) == Keep(f, {t \in DOMAIN f : f[t] \notin ids})
    IN  /\ overloads' = {o \in overloads : o.id \notin ids}
        /\ constructors' = Others(constructors)
        /\ destructors' = Others(destructors)

(* Wrong variants: the first user type is passed over, structs are kept. *)
ClearUserTypesBehindFirst(first) ==
    /\ types' = SubSeq(types, 1, first)
    /\ typeIds' = Keep(typeIds, {n \in DOMAIN typeIds :
                       typeIds[n].kind = "plain" => typeIds[n].at =< first + 1})
    /\ structs' = {i \in structs : i =< first + 1}
    /\ UNCHANGED arrayInfo
ClearUserTypesButStructs(first) ==
    /\ types' = SubSeq(types, 1, first)
    /\ typeIds' = Keep(typeIds, {n \in DOMAIN typeIds :
                       typeIds[n].kind = "plain" => typeIds[n].at =< first})
    /\ UNCHANGED <<arrayInfo, structs>>

\* clearUserTypes looks for the type of each position without its mask.
ClearUserTypes(first) ==
    /\ types' = SubSeq(types, 1, first)
    /\ typeIds' = Keep(typeIds, {n \in DOMAIN typeIds :
                       typeIds[n].kind = "plain" => typeIds[n].at =< first})
    /\ structs' = {i \in structs : i =< first}
    /\ UNCHANGED arrayInfo

\* What a clear leaves behind, for the properties.
Leftovers ==
    [dynamics |-> {n \in DOMAIN dynamics : dynamics[n] > mark.functions},
     copies   |-> {k \in DOMAIN copies : copies[k] > mark.functions},
     many     |-> {t \in DOMAIN many : \E id \in many[t] : id > mark.functions},
     calls    |-> {t \in DOMAIN calls : calls[t] > mark.functions
                                        \/ t.at > mark.types},
     names    |-> {n \in DOMAIN typeIds : typeIds[n].kind # "plain"
                                          /\ typeIds[n].at > mark.types},
     infos    |-> {t \in DOMAIN arrayInfo : t.at > mark.types}]

\* ScriptCompiler::clearUserLib: what FuncLibrary erases of its own maps runs
\* from their end to their end.  The mark is gone afterwards.
ClearUserLib ==
    IF mark = NoMark
    THEN /\ UNCHANGED <<functionVars, operatorVars, typeVars, mark, forgotten>>
    ELSE /\ ClearUserTypes(mark.types)
         /\ Unregister((mark.functions + 1) .. Len(factories))
         /\ factories' = SubSeq(factories, 1, mark.functions)
         /\ mark' = NoMark
         /\ forgotten' = [k \in DOMAIN forgotten |->
                              forgotten[k] \cup Leftovers[k]]
         /\ UNCHANGED <<copies, many, calls>>

\* The head of compileProgram; what the script then defines is registered by
\* the actions above.
CompileProgram ==
    /\ program < MaxPrograms
    /\ ClearUserLib
    /\ program' = program + 1
    /\ UNCHANGED <<dynamics, system>>

-----------------------------------------------------------------------------
RuntimeFactory(name) ==
    Factory(<<name>>, <<[id |-> TypeId(1, "plain"), name |-> BasicTypes[1],
                         mode |-> "ref"]>>)

Init ==
    /\ factories = <<RuntimeFactory("_runtime_ctor"),
                     RuntimeFactory("_runtime_dtor")>>
    /\ overloads = {Item(factories[i].name, factories[i].params, i) : i \in 1 .. 2}
    /\ dynamics = <<>> /\ constructors = <<>> /\ destructors = <<>>
    /\ copies = <<>> /\ many = <<>> /\ calls = <<>>
    /\ arrayInfo = <<>> /\ structs = {}
    /\ types = BasicTypes
    /\ typeIds = [n \in {BasicTypes[i] : i \in DOMAIN BasicTypes} |->
                     TypeId(CHOOSE i \in DOMAIN BasicTypes : BasicTypes[i] = n,
                            "plain")]
    /\ mark = NoMark /\ program = 0
    /\ system = [marked |-> FALSE,
                 factories |-> factories, overloads |-> overloads,
                 constructors |-> constructors, destructors |-> destructors,
                 types |-> types, typeIds |-> typeIds, structs |-> structs]
    /\ forgotten = [dynamics |-> {}, copies |-> {}, many |-> {}, calls |-> {},
                    names |-> {}, infos |-> {}]

Next ==
    \/ \E n \in FunctionNames, l \in ParamLists : RegistFunction(<<n>>, l)
    \/ \E n \in DynamicNames : RegistDynamicFunction(n)
    \/ \E t \in UserTypes : RegisterUserType(t)
    \/ \E t \in Structs : RegistStruct(t)
    \/ \E t \in DOMAIN Arrays : RegistArrayType(t)
    \/ \E t \in FunctionTypes : RegistFunctionType(t)
    \/ \E t \in DOMAIN typeIds, mode \in {"value", "ref"}, l \in MoreParams :
           RegisterConstructor(t, mode, l)
    \/ \E t \in DOMAIN typeIds : RegisterDestructor(t)
    \/ \E t \in CalledTypes \cap DOMAIN typeIds, id \in DOMAIN factories :
           RegistFunctionOperator(t, id)
    \/ BeginUserLib
    \/ CompileProgram

Spec == Init /\ [][Next]_vars

-----------------------------------------------------------------------------
IsFunctionOf(id, type, n) ==
    /\ id \in DOMAIN factories
    /\ Len(factories[id].params) >= n
    /\ factories[id].params[1].id = type
    /\ factories[id].params[1].mode = "ref"

Ids == 1 .. MaxFunctions

\* Each overload a call can choose leads to a factory of its name and of its
\* parameter types, each factory that was not refused is found by exactly one
\* overload, and no two overloads of a name have the same parameters: whatever
\* the order of registrations, refusals, compiles and clears.
OverloadsLeadToTheirFactories ==
    /\ \A o \in overloads :
          /\ o.id \in DOMAIN factories
          /\ factories[o.id] = Factory(o.name, o.params)
    /\ \A id \in DOMAIN factories :
          factories[id] # NoFactory /\ ~factories[id].dynamic
              => Cardinality({o \in overloads : o.id = id}) = 1
    /\ \A o, p \in overloads :
          o.name = p.name /\ o.params = p.params => o = p

\* The constructor and destructor a declaration of a plain type runs are live
\* functions of an object of that type, though both ids are reused by later
\* compiles.
OperatorsAreOfTheirType ==
    \A f \in {constructors, destructors} : \A t \in DOMAIN f :
        t.kind = "plain" => IsFunctionOf(f[t], t, 1)

\* A lookup is stale only through an entry that was registered after the mark
\* and that the clear does not take out: dynamic functions, constructors of
\* more than one parameter, the operator() of a type, and the names and infos
\* of arrays and function types.  Everything else leads to what was registered
\* under it, an operator() to a function of the type that is still there.
StaleOnlyWhatIsForgotten ==
    /\ \A n \in DOMAIN dynamics \ forgotten.dynamics :
          /\ dynamics[n] \in DOMAIN factories
          /\ factories[dynamics[n]] = DynamicFactory(n)
    /\ \A k \in DOMAIN copies \ forgotten.copies :
          /\ IsFunctionOf(copies[k], k[1], 2)
          /\ factories[copies[k]].params[2] = k[2]
    /\ \A t \in DOMAIN many \ forgotten.many :
          \A id \in many[t] : IsFunctionOf(id, t, 3)
    /\ \A t \in DOMAIN calls \ forgotten.calls :
          /\ IsCallOperator(calls[t], t)
          /\ t.at \in DOMAIN types \/ \E n \in forgotten.names : typeIds[n] = t
    /\ \A n \in DOMAIN typeIds \ forgotten.names :
          typeIds[n].at \in DOMAIN types /\ types[typeIds[n].at] = n
    /\ \A t \in DOMAIN arrayInfo \ forgotten.infos :
          t.at \in DOMAIN types
          /\ LET array == Arrays[types[t.at]] IN
             /\ arrayInfo[t].count = array.count
             /\ array.element \in DOMAIN typeIds \ forgotten.names =>
                    arrayInfo[t].element = typeIds[array.element]

PlainOf(ids) == {<<n, ids[n]>> : n \in {m \in DOMAIN ids : ids[m].kind = "plain"}}
PlainOperators(f) == {<<t, f[t]>> : t \in {s \in DOMAIN f : s.kind = "plain"}}

\* A compile that clears gives back the functions, the plain types, the structs
\* and the default constructors the library had when it was marked, and those
\* destructors that no user function took the place of.
ClearRestores ==
    [][mark # NoMark /\ mark' = NoMark =>
        /\ factories' = system.factories /\ overloads' = system.overloads
        /\ types' = system.types /\ structs' = system.structs
        /\ PlainOf(typeIds') = PlainOf(system.typeIds)
        /\ PlainOperators(constructors') = PlainOperators(system.constructors)
        /\ PlainOperators(destructors') =
               PlainOperators(system.destructors) \cap PlainOperators(destructors)
      ]_vars
=============================================================================
