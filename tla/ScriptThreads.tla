--------------------------- MODULE ScriptThreads ---------------------------
(***************************************************************************)
(* Function objects of a script and the threads that run them.  A function *)
(* object (RuntimeFunctionInfo) is a function with a block of the heap for *)
(* what a lambda has captured; constructors, destructors and copies made   *)
(* by the compiled statements own that block.  createThread gives the new  *)
(* thread the address of the creator's function object: the thread reads   *)
(* it later, while the creator goes on.                                    *)
(*                                                                         *)
(* One script function, the creator, executes statements in any order on   *)
(* its local variables; each thread runs one function object.  The body of *)
(* a function is a step.  Capture by reference is a captured value here    *)
(* (the address); what is at the address is not modelled.  All functions   *)
(* are of the type function<void()>: they take no parameters, which the    *)
(* thread would copy out of the bytes of the creator's statement before it *)
(* reads the function object, under the same conditions as the temporary.  *)
(***************************************************************************)
EXTENDS Naturals, Sequences

CONSTANTS Object,      \* the creator's variables of the type function<void()>
          Temporary,   \* the bytes in which an argument of a call is evaluated
          Thread,      \* the threads it may create
          Block,       \* the blocks of the heap
          Capturing,   \* lambdas that capture
          Captureless, \* lambdas that capture nothing
          Named,       \* functions with a name
          Native,      \* those of them that are not script functions
          Captured,    \* what a lambda may capture
          None,        \* null; nothing captured
          Free,        \* a block that is not allocated
          Junk         \* bytes that hold something else

Function == Capturing \union Captureless \union Named
Place == Object \union {Temporary}

(* The bytes of a function object, and what a function object stands for.   *)
FunctionInfo ==
    [function : Function \union {None}, sized : BOOLEAN, data : Block \union {None}]
Meaning == {meaning \in [function : Function \union {None},
                         captures : Captured \union {None}] :
               meaning.function \in Native => meaning.captures = None}

ASSUME NamesAssumption ==
    /\ Temporary \notin Object
    /\ None \notin Object \union {Temporary} \union Block \union Captured
    /\ None \notin Capturing \union Captureless \union Named
    /\ Native \subseteq Named \ (Capturing \union Captureless)
    /\ Free \notin Captured \union {None, Junk}
    /\ Junk \notin Captured \union {None}
    /\ Junk \notin FunctionInfo

(* A function object is a record: the function, whether its data has a size, *)
(* and the block of the data.  It stands for a function and its captures.    *)
VARIABLES
    object,     \* the bytes of each variable and of the temporary
    heap,       \* the contents of the blocks
    declared,   \* the variables constructed so far, in this order
    dying,      \* the place that the current statement still has to destroy
    status,     \* of the creator
    waiting,    \* the joinThread or closeThread it is in
    thread,     \* of each thread: its argument, progress and what it has read
    handle,     \* of each thread: its std::thread
    given,      \* history: what each place was meant to hold
    careful,    \* history: no two objects were made to share a block, none lost it
    disturbed,  \* history: threads whose argument was changed before they were joined
    badFree     \* history: a block was freed that was free

vars == <<object, heap, declared, dying, status, waiting, thread, handle,
          given, careful, disturbed, badFree>>

memory == <<object, heap, declared, dying, given, careful, disturbed, badFree>>
-----------------------------------------------------------------------------
(* Function objects. *)

NullRecord == [function |-> None, sized |-> FALSE, data |-> None]
NullMeaning == [function |-> None, captures |-> None]

Declared == {declared[i] : i \in 1..Len(declared)}

(* The values a lambda expression may have. *)
Lambda == [function : Capturing, captures : Captured]
          \union [function : Captureless, captures : {None}]

Malloc(b, contents) == heap[b] = Free /\ heap' = [heap EXCEPT ![b] = contents]

(* The captured data is allocated even if there is none. *)
CreateLambda(lambda, b) ==
    [function |-> lambda.function, sized |-> lambda.captures # None, data |-> b]

(* Threads that may still have to read the bytes at "place". *)
Readers(place) ==
    {t \in Thread : thread[t].argument = place /\ handle[t] = "open"}

(* The bytes at "place" become "bytes", which are meant to be "meaning". *)
Write(place, bytes, meaning) ==
    /\ object' = [object EXCEPT ![place] = bytes]
    /\ given' = [given EXCEPT ![place] = meaning]
    /\ disturbed' = disturbed \union Readers(place)

Destroy(place) ==
    LET data == object[place].data
    IN /\ heap' = IF data = None THEN heap ELSE [heap EXCEPT ![data] = Free]
       /\ badFree' = (badFree \/ (data # None /\ heap[data] = Free))
       /\ object' = [object EXCEPT ![place].data = None]
       /\ disturbed' = disturbed \union Readers(place)

Init ==
    /\ object = [place \in Place |-> Junk]
    /\ heap = [b \in Block |-> Free]
    /\ declared = <<>>
    /\ dying = None
    /\ status = "running"
    /\ waiting = None
    /\ thread = [t \in Thread |->
                   [argument |-> None, state |-> "none", function |-> None,
                    captures |-> None, given |-> NullMeaning]]
    /\ handle = [t \in Thread |-> "none"]
    /\ given = [place \in Place |-> NullMeaning]
    /\ careful = TRUE
    /\ disturbed = {}
    /\ badFree = FALSE
-----------------------------------------------------------------------------
(* Declarations. *)

NextStatement == status = "running" /\ dying = None

Declare(o) ==
    /\ NextStatement
    /\ o \notin Declared
    /\ declared' = Append(declared, o)
    /\ UNCHANGED <<dying, status, waiting, thread, handle, badFree>>

(* function<void()> o;  or o = n;  for a function or nullptr, a constant without data *)
DeclareNamed(o, n) ==
    /\ Declare(o)
    /\ Write(o, [NullRecord EXCEPT !.function = n], [NullMeaning EXCEPT !.function = n])
    /\ UNCHANGED <<heap, careful>>

(* A wrong variant: the lambda is destroyed at the end of the declaration. *)
DeclareLambdaAndDestroy(o, lambda, b) ==
    /\ NextStatement
    /\ o \notin Declared
    /\ declared' = Append(declared, o)
    /\ Malloc(b, lambda.captures)
    /\ Write(o, CreateLambda(lambda, b), lambda)
    /\ dying' = o
    /\ UNCHANGED <<status, waiting, thread, handle, careful, badFree>>

(* o = [..]() {..};  the lambda is evaluated in o and is not destroyed *)
DeclareLambda(o, lambda, b) ==
    /\ Declare(o)
    /\ Malloc(b, lambda.captures)
    /\ Write(o, CreateLambda(lambda, b), lambda)
    /\ UNCHANGED careful

(* A wrong variant: the copy gets no block of its own. *)
CopyBytes(o, p, b) ==
    /\ Write(o, object[p], given[p])
    /\ UNCHANGED heap

(* The copy constructor: a block of size 0 is not copied but shared. *)
CopyConstruct(o, p, b) ==
    IF object[p].data # None /\ object[p].sized
    THEN /\ Malloc(b, IF heap[object[p].data] = Free THEN Junk ELSE heap[object[p].data])
         /\ Write(o, [object[p] EXCEPT !.data = b], given[p])
    ELSE /\ Write(o, object[p], given[p])
         /\ UNCHANGED heap

(* o = p;  for a variable p *)
DeclareCopy(o, p, b) ==
    /\ Declare(o)
    /\ p \in Declared
    /\ CopyConstruct(o, p, b)
    /\ careful' = (careful /\ (object[p].data = None \/ object[p].sized))
-----------------------------------------------------------------------------
(* Assignments copy the bytes and forget the block that o had. *)

Assign(o) ==
    /\ NextStatement
    /\ o \in Declared
    /\ UNCHANGED <<declared, status, waiting, thread, handle, badFree>>

AssignNamed(o, n) ==
    /\ Assign(o)
    /\ Write(o, [NullRecord EXCEPT !.function = n], [NullMeaning EXCEPT !.function = n])
    /\ careful' = (careful /\ object[o].data = None)
    /\ UNCHANGED <<heap, dying>>

AssignCopy(o, p) ==
    /\ Assign(o)
    /\ p \in Declared \ {o}
    /\ Write(o, object[p], given[p])
    /\ careful' = (careful /\ object[o].data = None /\ object[p].data = None)
    /\ UNCHANGED <<heap, dying>>

(* The lambda is evaluated in o, where its temporary is then to be destroyed. *)
AssignLambda(o, lambda, b) ==
    /\ Assign(o)
    /\ Malloc(b, lambda.captures)
    /\ Write(o, CreateLambda(lambda, b), lambda)
    /\ dying' = o
    /\ careful' = FALSE
-----------------------------------------------------------------------------
(* The end of a statement and of the function. *)

DestroyTemporary ==
    /\ dying # None
    /\ Destroy(dying)
    /\ dying' = None
    /\ UNCHANGED <<declared, status, waiting, thread, handle, given, careful>>

Leave ==
    /\ NextStatement
    /\ status' = "leaving"
    /\ UNCHANGED <<memory, waiting, thread, handle>>

DestroyLast ==
    /\ status = "leaving"
    /\ declared # <<>>
    /\ Destroy(declared[Len(declared)])
    /\ declared' = SubSeq(declared, 1, Len(declared) - 1)
    /\ UNCHANGED <<dying, status, waiting, thread, handle, given, careful>>

Return ==
    /\ status = "leaving"
    /\ declared = <<>>
    /\ status' = "left"
    /\ UNCHANGED <<memory, waiting, thread, handle>>

(* Later statements, and functions called later, use the same bytes. *)
ReuseMemory(place) ==
    /\ place = Temporary \/ status = "left"
    /\ dying # place
    /\ object[place] # Junk
    /\ Write(place, Junk, NullMeaning)
    /\ UNCHANGED <<heap, declared, dying, status, waiting, thread, handle, careful, badFree>>
-----------------------------------------------------------------------------
(* createThread, joinThread, closeThread. *)

StartThread(t, place, meaning) ==
    /\ NextStatement
    /\ handle[t] = "none"
    /\ handle' = [handle EXCEPT ![t] = "open"]
    /\ thread' = [thread EXCEPT ![t].argument = place, ![t].state = "started",
                                ![t].given = meaning]
    /\ UNCHANGED <<declared, status, waiting, careful, badFree>>

CreateThread(t, o) ==
    /\ o \in Declared
    /\ object[o].function # None
    /\ StartThread(t, o, given[o])
    /\ UNCHANGED <<object, heap, dying, given, disturbed>>

(* createThread([..]() {..});  the statement ends with the temporary's destructor *)
CreateThreadOnLambda(t, lambda, b) ==
    /\ StartThread(t, Temporary, lambda)
    /\ Malloc(b, lambda.captures)
    /\ Write(Temporary, CreateLambda(lambda, b), lambda)
    /\ dying' = Temporary

(* joinThread, and closeThread, which also deletes the std::thread *)
JoinThread(t, close) ==
    /\ NextStatement
    /\ handle[t] \in {"open", "joined"}
    /\ status' = "joining"
    /\ waiting' = [thread |-> t, close |-> close]
    /\ UNCHANGED <<memory, thread, handle>>

(* Wrong variants: the thread is not waited for; a thread that was joined   *)
(* before is waited for again.                                              *)
FinishJoinAtOnce ==
    /\ status = "joining"
    /\ handle' = [handle EXCEPT ![waiting.thread] = IF waiting.close THEN "closed" ELSE "joined"]
    /\ status' = "running"
    /\ waiting' = None
    /\ UNCHANGED <<memory, thread>>

FinishJoinIfOpen ==
    /\ status = "joining"
    /\ handle[waiting.thread] = "open"
    /\ thread[waiting.thread].state = "ended"
    /\ handle' = [handle EXCEPT ![waiting.thread] = IF waiting.close THEN "closed" ELSE "joined"]
    /\ status' = "running"
    /\ waiting' = None
    /\ UNCHANGED <<memory, thread>>

FinishJoin ==
    /\ status = "joining"
    /\ LET t == waiting.thread
       IN /\ handle[t] = "open" => thread[t].state = "ended"
          /\ handle' = [handle EXCEPT ![t] = IF waiting.close THEN "closed" ELSE "joined"]
    /\ status' = "running"
    /\ waiting' = None
    /\ UNCHANGED <<memory, thread>>
-----------------------------------------------------------------------------
(* A thread. *)

Read(t) == object[thread[t].argument]

(* The behaviour is undefined from here on. *)
GoAstray(t) == thread' = [thread EXCEPT ![t].state = "astray"]

Run(t, captures) ==
    thread' = [thread EXCEPT ![t].state = "running", ![t].captures = captures]

StepThread(t, from) ==
    /\ thread[t].state = from
    /\ UNCHANGED <<memory, status, waiting, handle>>

(* A native function is called without a look at what is captured.          *)
ReadFunction(t) ==
    /\ StepThread(t, "started")
    /\ IF Read(t) = Junk \/ Read(t).function = None
       THEN GoAstray(t)
       ELSE LET native == Read(t).function \in Native
            IN thread' = [thread EXCEPT
                   ![t].state = IF native THEN "running" ELSE "entered",
                   ![t].function = Read(t).function, ![t].captures = None]

TestCaptures(t) ==
    /\ StepThread(t, "entered")
    /\ IF Read(t) = Junk
       THEN GoAstray(t)
       ELSE IF Read(t).data = None \/ ~Read(t).sized
       THEN Run(t, None)
       ELSE thread' = [thread EXCEPT ![t].state = "copying"]

CopyCaptures(t) ==
    /\ StepThread(t, "copying")
    /\ IF Read(t) = Junk
       THEN GoAstray(t)
       ELSE IF ~Read(t).sized
       THEN Run(t, None)
       ELSE IF Read(t).data = None \/ heap[Read(t).data] \notin Captured
       THEN GoAstray(t)
       ELSE Run(t, heap[Read(t).data])

EndThread(t) ==
    /\ StepThread(t, "running")
    /\ thread' = [thread EXCEPT ![t].state = "ended"]
-----------------------------------------------------------------------------
ThreadStep(t) == ReadFunction(t) \/ TestCaptures(t) \/ CopyCaptures(t) \/ EndThread(t)

CreatorStep ==
    \/ \E o \in Object :
          \/ \E n \in Named \union {None} : DeclareNamed(o, n) \/ AssignNamed(o, n)
          \/ \E lambda \in Lambda, b \in Block : DeclareLambda(o, lambda, b)
          \/ \E p \in Object, b \in Block : DeclareCopy(o, p, b)
          \/ \E p \in Object : AssignCopy(o, p)
          \/ \E lambda \in Lambda, b \in Block : AssignLambda(o, lambda, b)
    \/ DestroyTemporary
    \/ Leave
    \/ DestroyLast
    \/ Return
    \/ \E place \in Place : ReuseMemory(place)
    \/ \E t \in Thread :
          \/ \E o \in Object : CreateThread(t, o)
          \/ \E lambda \in Lambda, b \in Block : CreateThreadOnLambda(t, lambda, b)
          \/ \E close \in BOOLEAN : JoinThread(t, close)
    \/ FinishJoin

Next == CreatorStep \/ \E t \in Thread : ThreadStep(t)

(* The system runs every thread; std::thread::join returns once it can. *)
Fairness == WF_vars(FinishJoin) /\ \A t \in Thread : WF_vars(ThreadStep(t))

Spec == Init /\ [][Next]_vars /\ Fairness
-----------------------------------------------------------------------------
(* Properties. *)

Denotes(record) ==
    [function |-> record.function,
     captures |-> IF record.data = None THEN None ELSE heap[record.data]]

(* A function object keeps the function and the captured data it was given  *)
(* until its destructor runs, whatever is constructed, copied, destroyed    *)
(* and allocated besides.                                                   *)
FunctionsKeepTheirCaptures ==
    dying = None => \A o \in Declared : Denotes(object[o]) = given[o]

(* They do as long as no assignment overwrites a block or copies one, and   *)
(* no lambda without captures is copied.                                    *)
CarefulFunctionsKeepTheirCaptures == careful => FunctionsKeepTheirCaptures

(* Under the same condition no destructor frees a block that is free: every *)
(* copy has a block of its own.  And a block that is allocated belongs to a *)
(* variable that is still to be destroyed or to the temporary of the current *)
(* statement: a function that has returned has given back all of them, once. *)
BlocksAreFreedOnce ==
    careful =>
        /\ ~badFree
        /\ \A b \in Block : heap[b] # Free =>
              \E place \in Declared \union ({dying} \ {None}) : object[place].data = b

RanAsGiven(t) ==
    /\ thread[t].state # "astray"
    /\ thread[t].state \in {"running", "ended"} =>
           /\ thread[t].function = thread[t].given.function
           /\ thread[t].captures = thread[t].given.captures

(* A thread runs the function and the captured data that the function       *)
(* object held when createThread was called, if the creator joins the       *)
(* thread before it changes or destroys the object.                         *)
ThreadsRunWhatTheyWereGiven ==
    careful => \A t \in Thread :
        thread[t].state # "none" /\ t \notin disturbed => RanAsGiven(t)

(* A thread that was created with a lambda expression runs it with its      *)
(* captured data, as in the repository's test CompileThread2.               *)
LambdaArgumentsRun ==
    careful => \A t \in Thread : thread[t].argument = Temporary => RanAsGiven(t)

(* joinThread and closeThread return, for a thread already joined as well,  *)
(* unless the thread has left the defined behaviour.                        *)
JoinReturns ==
    \A t \in Thread :
        (waiting # None /\ waiting.thread = t)
            ~> (waiting = None \/ thread[t].state = "astray")
=============================================================================
