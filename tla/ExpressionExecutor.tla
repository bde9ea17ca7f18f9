------------------------- MODULE ExpressionExecutor -------------------------
(***************************************************************************)
(* The code of expressions, src/ffscript/ExpUnitExecutor2.cpp, and what    *)
(* running it does to the memory of the frame.  A statement of a scope is  *)
(* a tree.  Compiling it gives every operator an offset for its result and *)
(* the operators below it offsets for their own; the bytes behind the      *)
(* variables serve all statements of the scope, and the scope grows to the *)
(* largest need.  Behind a statement that leaves objects in these bytes    *)
(* comes a scope with their destructors.                                   *)
(*                                                                         *)
(* The memory is modelled byte by byte: a byte knows the value it is a     *)
(* part of, and a value is read back only if all its bytes are there, so   *)
(* two results that share a byte corrupt each other.  A function of the    *)
(* host or of the script is what it is called with and what it answers.    *)
(***************************************************************************)
EXTENDS Integers, Sequences, SequencesExt

CONSTANTS
    Sizes,       \* bytes of a value: a function from "bool", "int", "object" and
                 \* "ints", the static arrays of integers
    Word,        \* bytes of an address
    Header,      \* bytes of the head of the list of a dynamic function's parameters
    Elem,        \* and of one of its elements
    Locals,      \* the variables of the scope, a sequence of names
    Globals,     \* the variables of the global scope
    VarType,     \* the type of every variable
    Frame,       \* bytes of the frame; the globals lie behind it
    Scopes       \* the scopes that are compiled: sequences of statements

ASSUME SizesAreThose ==
    /\ Word \in Nat \ {0} /\ Header \in Nat /\ Elem \in Nat
    /\ \A type \in DOMAIN Sizes : Sizes[type] \in Nat \ {0}

VARIABLES
    scope,      \* the statements
    compiled,   \* their code
    scopeSize,  \* ScriptScope::_scopeSize: bytes a call of a script function keeps
    at,         \* the statement that runs
    phase,      \* "compile", "run", "destroy" or "done"
    todo,       \* the commands it has still to run
    temps,      \* the temporaries whose destructors have still to run
    memory,     \* what each byte of the frame and of the global scope holds
    calls,      \* the calls so far: name, arguments, result
    destroyed,  \* the objects the destructors of the statement have been given
    env         \* what the statements before this one should have left

vars == <<scope, compiled, scopeSize, at, phase, todo, temps, memory, calls, destroyed, env>>

-----------------------------------------------------------------------------
(* Types and values. *)

(* A reference is the address of what it refers to; so is a semi-reference. *)
Referred == [type \in {"ref int", "ref object", "ref ints"} |->
    CASE type = "ref int" -> "int" [] type = "ref object" -> "object" [] OTHER -> "ints"]

IsRef(type) == type \in DOMAIN Referred
Target(type) == Referred[type]
RefTo(type) == CHOOSE ref \in DOMAIN Referred : Referred[ref] = type

TypeSize(type) ==
    IF IsRef(type) THEN Word ELSE IF type = "void" THEN 0 ELSE Sizes[type]

TypeSizeInStack(type) == ((TypeSize(type) - 1) \div Word + 1) * Word

Number(n) == [kind |-> "number", n |-> n]
Object(n) == [kind |-> "object", n |-> n]
Address(n) == [kind |-> "address", n |-> n]
Array(n) == [kind |-> "array", n |-> n]
Item(array, i) == [kind |-> "item", n |-> 2 * array.n + i]
Junk == [kind |-> "junk", n |-> 0]

Write(mem, offset, size, value) ==
    [i \in DOMAIN mem |->
        IF i \in offset..(offset + size - 1)
          THEN [value |-> value, nth |-> i - offset, size |-> size] ELSE mem[i]]

Copy(mem, from, to, size) ==
    [i \in DOMAIN mem |-> IF i \in to..(to + size - 1) THEN mem[from + i - to] ELSE mem[i]]

Read(mem, offset, size) ==
    LET value == mem[offset].value
    IN  IF \A i \in 0..(size - 1) : mem[offset + i] = [value |-> value, nth |-> i, size |-> size]
          THEN value ELSE Junk

(* The values that bytes of a type hold: those of an array lie side by side. *)
Cells(offset, type) ==
    IF type # "ints" THEN {[offset |-> offset, type |-> type]}
    ELSE {[offset |-> offset + i * Sizes["int"], type |-> "int"] :
            i \in 0..(Sizes["ints"] \div Sizes["int"] - 1)}

WriteAll(mem, offset, type, value) ==
    IF type # "ints" THEN Write(mem, offset, TypeSize(type), value)
    ELSE FoldSet(LAMBDA cell, m :
            Write(m, cell.offset, Sizes["int"],
                  Item(value, (cell.offset - offset) \div Sizes["int"])),
            mem, Cells(offset, type))

(* The value of an operand, behind its address if it is a reference; a     *)
(* reference to an array is one to its first element.                      *)
ValueAt(mem, offset, type) ==
    LET target == IF type = "ref ints" THEN "int" ELSE Target(type)
    IN  IF IsRef(type) THEN Read(mem, Read(mem, offset, Word).n, TypeSize(target))
        ELSE Read(mem, offset, TypeSize(type))

(* Whether a value counts as true; of bytes that are no value of the type, both. *)
Truths(value) == IF value = Junk THEN BOOLEAN ELSE {value.n # 0}

-----------------------------------------------------------------------------
(* Expressions: op, the name of a variable or function, the value of a     *)
(* constant (for an assignment, 1 if it declares the variable), the type   *)
(* of the result, the operands, and whether the result is excluded from    *)
(* the destructors.  An element of an array, "element", is a semi-         *)
(* reference to it, "deref" is the value behind one, "bind" is the         *)
(* declaration of a variable that is one.                                  *)

Functions == {"native", "script", "dynamic"}
Operand(node) == node.op \in {"variable", "constant"}

Expr(op, name, n, type, args) ==
    [op |-> op, name |-> name, n |-> n, type |-> type, args |-> args, excluded |-> FALSE]

VariableRef(name) ==
    LET type == VarType[name]
    IN  Expr("ref", name, 0, RefTo(type), <<Expr("variable", name, 0, type, <<>>)>>)

(* The default copy, of an assignment and of a declaration with a value.   *)
(* What a declared object is copied from is not destroyed: the variable    *)
(* has it now.                                                             *)
CopyTo(place, declared, value) == Expr("assign", "", declared, place.type, <<place, value>>)

DefaultCopy(name, declared, value) == CopyTo(VariableRef(name), declared, value)

Assignment(name, value) == DefaultCopy(name, 0, value)

(* A wrong variant: the mask is not set. *)
DestroySource(name, value) == DefaultCopy(name, 1, value)

Declaration(name, value) == DefaultCopy(name, 1, [value EXCEPT !.excluded = ~Operand(value)])

(* A temporary of its own: what a function returns by value, if its type   *)
(* has a destructor; what is behind a reference has its owner elsewhere.   *)
IsTemporary(node) ==
    ~Operand(node) /\ node.op # "deref" /\ ~node.excluded /\ node.type = "object"

-----------------------------------------------------------------------------
(* The scope's memory: a word for the scope, the variables in their order, *)
(* and behind them the bytes for the commands.                             *)

SizeOfAll(names) == FoldLeft(LAMBDA sum, name : sum + TypeSize(VarType[name]), 0, names)

OffsetIn(names, name) == SizeOfAll(SubSeq(names, 1, SelectInSeq(names, LAMBDA x : x = name) - 1))

IsGlobal(name) == name \in Range(Globals)

Offset(name) ==
    IF IsGlobal(name) THEN Frame + OffsetIn(Globals, name) ELSE Word + OffsetIn(Locals, name)

DataSize == Word + SizeOfAll(Locals)

-----------------------------------------------------------------------------
(* Commands and the code of a tree: the commands, the first offset that is *)
(* free behind all slots given so far, and the offsets of the temporaries  *)
(* in the order of their destructors.                                      *)

Lowered(code, local, slots) == [code |-> code, local |-> local, slots |-> slots]

RECURSIVE Lower(_, _, _)

(* A wrong variant: every operand starts where the first one did. *)
LowerAllThere(nodes, rets, local) ==
    FoldLeftDomain(LAMBDA all, i :
        LET one == Lower(nodes[i], rets[i], local)
        IN  Lowered(all.code \o one.code, one.local, all.slots \o one.slots),
        Lowered(<<>>, local, <<>>), nodes)

(* Several operands one after another, the i-th result to rets[i]. *)
LowerAll(nodes, rets, local) ==
    FoldLeftDomain(LAMBDA all, i :
        LET one == Lower(nodes[i], rets[i], all.local)
        IN  Lowered(all.code \o one.code, one.local, all.slots \o one.slots),
        Lowered(<<>>, local, <<>>), nodes)

(* Where operands of some sizes begin that lie one behind the other. *)
End(sizes, begin) == FoldLeft(LAMBDA sum, size : sum + size, begin, sizes)

Packed(sizes, begin) == [i \in DOMAIN sizes |-> End(SubSeq(sizes, 1, i - 1), begin)]

LowerOperand(node, ret, local) ==
    LET command == IF node.op = "variable"
                     THEN [op |-> "copy", from |-> Offset(node.name),
                           size |-> TypeSize(node.type), to |-> ret]
                     ELSE [op |-> "put", value |-> Number(node.n),
                           size |-> TypeSize(node.type), to |-> ret]
    IN  Lowered(<<command>>, local, <<>>)

LowerRef(node, ret, local) ==
    LET child == node.args[1]
        value == Lower(child, local, local + TypeSize(child.type))
    IN  IF Operand(child)
          THEN Lowered(<<[op |-> "lea", from |-> Offset(child.name), to |-> ret]>>, local, <<>>)
          ELSE Lowered(Append(value.code, [op |-> "lea", from |-> local, to |-> ret]),
                       value.local, value.slots)

Invoke(node, rets, ret, list) ==
    [op |-> "call", name |-> node.name, function |-> node.op, type |-> node.type, to |-> ret,
     params |-> [i \in DOMAIN rets |-> [offset |-> rets[i], type |-> node.args[i].type]],
     list |-> list]

(* Parameters of native and script functions have slots of whole words;    *)
(* those of a dynamic function are packed behind a list of their addresses. *)
LowerCall(node, ret, local) ==
    LET size(type) == IF node.op = "dynamic" THEN TypeSize(type) ELSE TypeSizeInStack(type)
        sizes == [i \in DOMAIN node.args |-> size(node.args[i].type)]
        list == IF node.op = "dynamic" THEN Word + Header + Len(node.args) * Elem ELSE 0
        begin == local + list
        rets == Packed(sizes, begin)
        params == LowerAll(node.args, rets, End(sizes, begin))
    IN  [params EXCEPT !.code = Append(@, Invoke(node, rets, ret, local..(begin - 1)))]

(* One word for the condition; either clause leaves the operator's result. *)
LowerIf(node, ret, local) ==
    LET condition == Lower(node.args[1], local, local + Word)
        yes == Lower(node.args[2], ret, condition.local)
        no == Lower(node.args[3], ret, yes.local)
    IN  Lowered(Append(condition.code,
                       [op |-> "select", from |-> local, yes |-> yes.code, no |-> no.code]),
                no.local, condition.slots \o yes.slots \o no.slots)

(* A local variable is filled where it is; for any other place, and if the *)
(* value is behind a semi-reference, the address and the value are         *)
(* computed and the value is copied there.                                 *)
FillsVariable(place, value) ==
    /\ place.op = "ref" /\ Operand(place.args[1]) /\ ~IsGlobal(place.name)
    /\ ~IsRef(value.type)

LowerAssign(node, ret, local) ==
    LET place == node.args[1]
        value == node.args[2]
        inPlace == Lower(value, Offset(place.name), local)
        source == local + Word
        both == LowerAll(node.args, <<local, source>>, source + TypeSize(value.type))
    IN  IF FillsVariable(place, value)
          THEN [inPlace EXCEPT !.code =
                  Append(@, [op |-> "lea", from |-> Offset(place.name), to |-> ret])]
          ELSE [both EXCEPT !.code =
                  Append(@, [op |-> "assign", target |-> local, from |-> source,
                             behind |-> IsRef(value.type),
                             size |-> TypeSize(Target(place.type)), to |-> ret])]

(* The address of a variable, into the semi-reference and as the result.   *)
LowerBind(node, ret, local) ==
    LET lea(to) == [op |-> "lea", from |-> Offset(node.args[2].name), to |-> to]
    IN  Lowered(<<lea(Offset(node.args[1].name)), lea(ret)>>, local, <<>>)

(* The value behind a semi-reference: a native function with one parameter. *)
LowerDeref(node, ret, local) ==
    LET address == Lower(node.args[1], local, local + Word)
    IN  [address EXCEPT !.code = Append(@, [op |-> "deref", from |-> local,
                                            size |-> TypeSize(node.type), to |-> ret])]

(* An element of a static array: a variable is used where it is, and the   *)
(* index has the parameters' place for itself.  What a semi-reference of   *)
(* the global scope refers to is read while the code is made.              *)
LowerElement(node, ret, local) ==
    LET array == node.args[1]
        index == node.args[2]
        behind == IsRef(array.type)
        variable == array.op = "variable"
        known == variable /\ (~behind \/ IsGlobal(array.name))
        at2 == local + (IF variable /\ ~behind THEN 0 ELSE TypeSize(array.type))
        start == at2 + TypeSize(index.type)
        one == IF known THEN Lowered(<<>>, start, <<>>) ELSE Lower(array, local, start)
        two == Lower(index, at2, one.local)
        base == CASE ~known -> local
                  [] known /\ behind -> Read(memory, Offset(array.name), Word).n
                  [] OTHER -> Offset(array.name)
    IN  Lowered(one.code \o Append(two.code,
                    [op |-> "element", from |-> base, behind |-> behind /\ ~known,
                     index |-> at2, size |-> TypeSize(Target(node.type)), to |-> ret]),
                two.local, one.slots \o two.slots)

(* Operands are read with the type they have, but || reads the second one  *)
(* with the type of the first.                                             *)
LowerLogic(node, ret, local) ==
    LET first == node.args[1]
        second == node.args[2]
        sizes == <<TypeSize(first.type), TypeSize(second.type)>>
        rets == Packed(sizes, local)
        one == Lower(first, rets[1], End(sizes, local))
        two == Lower(second, rets[2], one.local)
        settle == [op |-> "settle", from |-> rets[2], to |-> ret,
                   type |-> IF node.op = "or" THEN first.type ELSE second.type]
    IN  Lowered(Append(one.code, [op |-> "test", stop |-> node.op = "or", from |-> rets[1],
                                  type |-> first.type, to |-> ret,
                                  second |-> Append(two.code, settle)]),
                two.local, one.slots \o two.slots)

(* convert2Code2 *)
Lower(node, ret, local) ==
    LET lowered == CASE Operand(node)             -> LowerOperand(node, ret, local)
                     [] node.op = "ref"           -> LowerRef(node, ret, local)
                     [] node.op \in Functions     -> LowerCall(node, ret, local)
                     [] node.op = "if"            -> LowerIf(node, ret, local)
                     [] node.op = "assign"        -> LowerAssign(node, ret, local)
                     [] node.op = "bind"          -> LowerBind(node, ret, local)
                     [] node.op = "deref"         -> LowerDeref(node, ret, local)
                     [] node.op = "element"       -> LowerElement(node, ret, local)
                     [] node.op \in {"and", "or"} -> LowerLogic(node, ret, local)
    IN  [lowered EXCEPT !.slots = (IF IsTemporary(node) THEN <<ret>> ELSE <<>>) \o @]

ExtractCode(node) == Lower(node, DataSize, DataSize + TypeSize(node.type))

-----------------------------------------------------------------------------
(* What an expression means: its value after its operands', from left to   *)
(* right, the second operand of && and || and one clause of ?: only if it  *)
(* is needed.  A reference to a variable is looked up when it is used; the *)
(* n-th call answers what it answers in the run, and makes object n.       *)

Evaluated(value, after) == [value |-> value, env |-> after]
Follow(value, e) == IF value \in DOMAIN e.vars THEN e.vars[value] ELSE value

RECURSIVE Evaluate(_, _)

EvaluateCall(node, e) ==
    LET operands == FoldLeft(LAMBDA all, arg :
            LET one == Evaluate(arg, all.env)
            IN  [values |-> Append(all.values, one.value), env |-> one.env],
            [values |-> <<>>, env |-> e], node.args)
        nth == Len(operands.env.calls) + 1
        args == [i \in DOMAIN operands.values |-> Follow(operands.values[i], operands.env)]
        result == IF nth \in DOMAIN calls THEN calls[nth].result ELSE Junk
    IN  Evaluated(result, [operands.env EXCEPT !.calls =
            Append(@, [name |-> node.name, args |-> args, result |-> result])])

(* A static array by name is the address of its first element. *)
Evaluate(node, e) ==
    CASE node.op = "variable" -> Evaluated(IF node.type = "ints" THEN Address(Offset(node.name))
                                           ELSE e.vars[Address(Offset(node.name))], e)
      [] node.op = "constant" -> Evaluated(Number(node.n), e)
      [] node.op = "ref" -> IF Operand(node.args[1])
                              THEN Evaluated(Address(Offset(node.args[1].name)), e)
                              ELSE Evaluate(node.args[1], e)
      [] node.op \in Functions -> EvaluateCall(node, e)
      [] node.op = "deref" ->
           LET one == Evaluate(node.args[1], e)
           IN  Evaluated(Follow(one.value, one.env), one.env)
      [] node.op = "bind" ->
           LET address == Address(Offset(node.args[2].name))
           IN  Evaluated(address,
                   [e EXCEPT !.vars[Address(Offset(node.args[1].name))] = address])
      [] OTHER ->
           LET one == Evaluate(node.args[1], e)
               true == Follow(one.value, one.env) # Number(0)
               two == Evaluate(node.args[2], one.env)
               answer == IF Follow(two.value, two.env) # Number(0) THEN 1 ELSE 0
               element == IF one.value.kind = "array" THEN Item(one.value, two.value.n)
                          ELSE Address(one.value.n + two.value.n * TypeSize(Target(node.type)))
           IN  CASE node.op = "if" -> IF true THEN two ELSE Evaluate(node.args[3], one.env)
                 [] node.op = "and" -> IF true THEN Evaluated(Number(answer), two.env)
                                       ELSE Evaluated(Number(0), one.env)
                 [] node.op = "or" -> IF true THEN Evaluated(Number(1), one.env)
                                      ELSE Evaluated(Number(answer), two.env)
                 [] node.op = "element" -> Evaluated(element, two.env)
                 [] node.op = "assign" ->
                      Evaluated(one.value, [two.env EXCEPT !.vars[one.value] =
                          Follow(two.value, two.env)])

Content(mem, names) ==
    LET cells == UNION {Cells(Offset(name), VarType[name]) : name \in names}
    IN  [address \in {Address(cell.offset) : cell \in cells} |->
            LET cell == CHOOSE x \in cells : x.offset = address.n
            IN  Read(mem, cell.offset, TypeSize(cell.type))]

Variables == Range(Locals) \union Range(Globals)

-----------------------------------------------------------------------------
(* Compiling: ContextScope::extractCode asks an executor for the code of   *)
(* each statement; the scope is given the bytes of the one that needs most. *)

Need(node) == ExtractCode(node).local - DataSize

Grow(statements) ==
    FoldLeft(LAMBDA size, node :
        IF Need(node) > size - DataSize THEN size + Need(node) - (size - DataSize) ELSE size,
        DataSize, statements)

Compile ==
    /\ phase = "compile"
    /\ compiled' = [i \in DOMAIN scope |-> ExtractCode(scope[i])]
    /\ scopeSize' = Grow(scope)
    /\ todo' = compiled'[1].code
    /\ phase' = "run"
    /\ UNCHANGED <<scope, at, temps, memory, calls, destroyed, env>>

-----------------------------------------------------------------------------
(* Running: every command reads and writes the memory of the frame.        *)

Doing(op) == phase = "run" /\ todo # <<>> /\ Head(todo).op = op

Done == UNCHANGED <<scope, compiled, scopeSize, at, phase, temps, destroyed, env>>

(* PushParamOffset: a variable's bytes, as they are. *)
CopyVariable ==
    /\ Doing("copy")
    /\ LET c == Head(todo) IN memory' = Copy(memory, c.from, c.to, c.size)
    /\ todo' = Tail(todo)
    /\ UNCHANGED calls /\ Done

(* PushParam: a constant. *)
PutConstant ==
    /\ Doing("put")
    /\ LET c == Head(todo) IN memory' = Write(memory, c.to, c.size, c.value)
    /\ todo' = Tail(todo)
    /\ UNCHANGED calls /\ Done

(* PushParamRefOffset, PushParamRef: an address. *)
LeaOffset ==
    /\ Doing("lea")
    /\ LET c == Head(todo) IN memory' = Write(memory, c.to, Word, Address(c.from))
    /\ todo' = Tail(todo)
    /\ UNCHANGED calls /\ Done

Results(type) ==
    CASE type = "object" -> {Object(Len(calls) + 1)}
      [] type = "ints" -> {Array(Len(calls) + 1)}
      [] OTHER -> {Number(0), Number(1)}

Overwrite(mem, offsets) ==
    [i \in DOMAIN mem |->
        IF i \in offsets THEN [value |-> Junk, nth |-> 0, size |-> 0] ELSE mem[i]]

(* CallNativeFuntion, CallDynamicFuntion, CallScriptFuntion3.  The list of *)
(* a dynamic function's parameters is written before the function reads    *)
(* them; the frame of a script function begins behind the scope, is its    *)
(* own, and is written once the parameters are copied.                     *)
CallFunction ==
    /\ Doing("call")
    /\ \E result \in Results(Head(todo).type) :
        LET c == Head(todo)
            listed == Overwrite(memory, c.list)
            args == [i \in DOMAIN c.params |->
                        ValueAt(listed, c.params[i].offset, c.params[i].type)]
            left == IF c.function = "script" THEN Overwrite(listed, scopeSize..(Frame - 1))
                    ELSE listed
        IN  /\ calls' = Append(calls, [name |-> c.name, args |-> args, result |-> result])
            /\ memory' = WriteAll(left, c.to, c.type, result)
    /\ todo' = Tail(todo)
    /\ Done

(* LogicAndCommandT, LogicOrCommandT: the second operand runs only if the  *)
(* first one does not settle the result.                                   *)
TestOperand ==
    /\ Doing("test")
    /\ LET c == Head(todo)
       IN  \E true \in Truths(ValueAt(memory, c.from, c.type)) :
            IF true = c.stop
              THEN /\ memory' = Write(memory, c.to, Sizes["bool"], Number(IF true THEN 1 ELSE 0))
                   /\ todo' = Tail(todo)
              ELSE todo' = c.second \o Tail(todo) /\ UNCHANGED memory
    /\ UNCHANGED calls /\ Done

SettleResult ==
    /\ Doing("settle")
    /\ LET c == Head(todo)
       IN  \E true \in Truths(ValueAt(memory, c.from, c.type)) :
            memory' = Write(memory, c.to, Sizes["bool"], Number(IF true THEN 1 ELSE 0))
    /\ todo' = Tail(todo)
    /\ UNCHANGED calls /\ Done

(* ConditionalCommand *)
SelectClause ==
    /\ Doing("select")
    /\ LET c == Head(todo)
       IN  \E true \in Truths(Read(memory, c.from, Sizes["bool"])) :
            todo' = (IF true THEN c.yes ELSE c.no) \o Tail(todo)
    /\ UNCHANGED <<memory, calls>> /\ Done

(* DefaultAssigmentCommand, DefaultAssigmentCommandForSemiRef *)
AssignValue ==
    /\ Doing("assign")
    /\ LET c == Head(todo)
           target == Read(memory, c.target, Word)
           source == IF c.behind THEN Read(memory, c.from, Word).n ELSE c.from
       IN  memory' = Write(Copy(memory, source, target.n, c.size), c.to, Word, target)
    /\ todo' = Tail(todo)
    /\ UNCHANGED calls /\ Done

(* DeRefCommand *)
Dereference ==
    /\ Doing("deref")
    /\ LET c == Head(todo)
       IN  memory' = Copy(memory, Read(memory, c.from, Word).n, c.to, c.size)
    /\ todo' = Tail(todo)
    /\ UNCHANGED calls /\ Done

(* ElementAccessCommand3, ElementAccessForGlobalCommand: no bound is checked. *)
AccessElement ==
    /\ Doing("element")
    /\ LET c == Head(todo)
           base == IF c.behind THEN Read(memory, c.from, Word).n ELSE c.from
           index == Read(memory, c.index, Sizes["int"]).n
       IN  memory' = Write(memory, c.to, Word, Address(base + index * c.size))
    /\ todo' = Tail(todo)
    /\ UNCHANGED calls /\ Done

-----------------------------------------------------------------------------
(* The scope of the destructors, DestructorContextScope: behind the bytes  *)
(* of the statement, one call for every temporary, taken or not.           *)

EnterDestructors ==
    /\ phase = "run" /\ todo = <<>>
    /\ phase' = "destroy"
    /\ temps' = compiled[at].slots
    /\ UNCHANGED <<scope, compiled, scopeSize, at, todo, memory, calls, destroyed, env>>

DestructorBase == compiled[at].local

RunDestructor ==
    /\ phase = "destroy" /\ temps # <<>>
    /\ LET param == DestructorBase + Word
       IN  memory' = Write(memory, param, Word, Address(Head(temps)))
    /\ destroyed' = Append(destroyed, Read(memory', Head(temps), Sizes["object"]))
    /\ temps' = Tail(temps)
    /\ UNCHANGED <<scope, compiled, scopeSize, at, phase, todo, calls, env>>

NextStatement ==
    /\ phase = "destroy" /\ temps = <<>>
    /\ env' = Evaluate(scope[at], env).env
    /\ destroyed' = <<>>
    /\ IF at < Len(scope)
         THEN at' = at + 1 /\ phase' = "run" /\ todo' = compiled[at + 1].code
         ELSE at' = at /\ phase' = "done" /\ todo' = <<>>
    /\ UNCHANGED <<scope, compiled, scopeSize, temps, memory, calls>>

-----------------------------------------------------------------------------
(* Variables hold a number, true or false, or an object or an array of     *)
(* their own; a semi-reference refers to nothing before it is bound.       *)
Initial(name, true) ==
    CASE VarType[name] = "object" -> Object(0 - Offset(name))
      [] VarType[name] = "ints" -> Array(0 - Offset(name))
      [] IsRef(VarType[name]) -> Junk
      [] OTHER -> Number(IF true[name] THEN 1 ELSE 0)

Init ==
    /\ scope \in Scopes
    /\ \E true \in [Variables -> BOOLEAN] :
        /\ \A name \in Variables : VarType[name] \notin {"bool", "int"} => true[name]
        /\ memory = FoldLeft(LAMBDA mem, name :
              WriteAll(mem, Offset(name), VarType[name], Initial(name, true)),
              [i \in 0..(Frame + SizeOfAll(Globals) - 1) |->
                  [value |-> Junk, nth |-> 0, size |-> 0]],
              Locals \o Globals)
    /\ env = [vars |-> Content(memory, Variables), calls |-> <<>>]
    /\ compiled = <<>> /\ scopeSize = DataSize
    /\ at = 1 /\ phase = "compile" /\ todo = <<>> /\ temps = <<>>
    /\ calls = <<>> /\ destroyed = <<>>

Next ==
    \/ Compile
    \/ CopyVariable \/ PutConstant \/ LeaOffset \/ CallFunction
    \/ TestOperand \/ SettleResult \/ SelectClause \/ AssignValue
    \/ Dereference \/ AccessElement
    \/ EnterDestructors \/ RunDestructor \/ NextStatement

Spec == Init /\ [][Next]_vars

-----------------------------------------------------------------------------
RECURSIVE Nodes(_)
Nodes(node) == {node} \union UNION {Nodes(node.args[i]) : i \in DOMAIN node.args}

(* || reads both operands with the type of the first. *)
AlikeOperands(node) ==
    \A x \in Nodes(node) : x.op = "or" => x.args[1].type = x.args[2].type

(* What a semi-reference of the global scope refers to is not yet known    *)
(* when the subscript of its array is compiled.                            *)
BoundBeforeTheCode(node) ==
    \A x \in Nodes(node) : x.op = "element" =>
        ~(x.args[1].op = "variable" /\ IsRef(x.args[1].type) /\ IsGlobal(x.args[1].name))

(* A temporary in an operand that may be left out: it has a destructor     *)
(* behind the statement, and perhaps no object.                            *)
MayLeaveOut(node) ==
    \E x \in Nodes(node) :
        /\ x.op \in {"and", "or", "if"}
        /\ \E i \in DOMAIN x.args \ {1} : \E y \in Nodes(x.args[i]) : IsTemporary(y)

(* An object is copied byte by byte and has two owners: the results of a   *)
(* clause and of its conditional operator, or a result and a variable.     *)
SharesObjects(node) ==
    \E x \in Nodes(node) :
        \/ x.op = "if" /\ x.type = "object"
        \/ x.op = "assign" /\ x.n = 0 /\ IsTemporary(x.args[2])

Made == {calls[i].result : i \in (Len(env.calls) + 1)..Len(calls)}

(* What a statement leaves is what its expression means: the result, every *)
(* variable, and the calls with their arguments in their order, although   *)
(* results, parameters, the address of a reference, the list of a dynamic  *)
(* function and the frames of the functions called share the scope's bytes. *)
ComputesTheExpression ==
    (phase = "run" /\ todo = <<>>
      /\ \A i \in 1..at : AlikeOperands(scope[i]) /\ BoundBeforeTheCode(scope[i])) =>
        LET expected == Evaluate(scope[at], env)
            type == scope[at].type
        IN  /\ calls = expected.env.calls
            /\ Content(memory, Variables) = expected.env.vars
            /\ type # "void" =>
                 ValueAt(memory, DataSize, type) = Follow(expected.value, expected.env)

(* The destructors behind a statement are given, whole, the objects that   *)
(* its functions have returned and that no variable has taken: none is     *)
(* forgotten, whatever the statement; nothing else is destroyed unless an  *)
(* operand with a temporary may be left out, and none twice, nor what a    *)
(* variable has, unless the statement itself gives an object two owners.   *)
TemporariesAreDestroyedOnce ==
    phase = "destroy" /\ temps = <<>> =>
        LET made == {x \in Made : x.kind = "object"}
            kept == {Read(memory, Offset(x), Sizes["object"]) :
                        x \in {y \in Variables : VarType[y] = "object"}}
        IN  /\ made \ kept \subseteq Range(destroyed)
            /\ MayLeaveOut(scope[at]) \/ Range(destroyed) \subseteq made \union kept
            /\ SharesObjects(scope[at]) \/
                  /\ Range(destroyed) \intersect kept = {}
                  /\ \A i, j \in DOMAIN destroyed :
                         destroyed[i] = destroyed[j] /\ destroyed[i] \in made => i = j
=============================================================================
