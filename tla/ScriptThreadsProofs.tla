------------------------ MODULE ScriptThreadsProofs ------------------------
(***************************************************************************)
(* For any number of variables, threads and blocks of the heap: what a     *)
(* careful script's function objects hold, who owns a block, and what a    *)
(* thread runs that the creator leaves its argument to.                    *)
(***************************************************************************)
EXTENDS ScriptThreads, SequenceTheorems, TLAPS

Statuses == {"running", "joining", "leaving", "left"}
States == {"none", "started", "entered", "copying", "running", "ended", "astray"}
Handles == {"none", "open", "joined", "closed"}
ThreadInfo ==
    [argument : Place \union {None}, state : States, function : Function \union {None},
     captures : Captured \union {None}, given : Meaning]

(* The places whose destructors have still to run.                         *)
Held == Declared \union ({dying} \ {None})

Types ==
    /\ object \in [Place -> FunctionInfo \union {Junk}]
    /\ heap \in [Block -> Captured \union {None, Free, Junk}]
    /\ declared \in Seq(Object)
    /\ dying \in Place \union {None}
    /\ status \in Statuses
    /\ thread \in [Thread -> ThreadInfo]
    /\ handle \in [Thread -> Handles]
    /\ given \in [Place -> Meaning]
    /\ careful \in BOOLEAN /\ badFree \in BOOLEAN

(* A variable is declared once, and statements end before the function does. *)
CreatorIsSound ==
    /\ \A i, j \in 1..Len(declared) : declared[i] = declared[j] => i = j
    /\ status \in {"leaving", "left"} => dying = None
    /\ status = "left" => declared = <<>>
    /\ \A place \in Held : object[place] \in FunctionInfo

(* A thread that was joined has ended; one that was created has an argument. *)
HandlesAreSound ==
    /\ \A t \in Thread :
          /\ thread[t].state = "none" <=> handle[t] = "none"
          /\ handle[t] \in {"joined", "closed"} => thread[t].state = "ended"
          /\ handle[t] # "none" => thread[t].argument \in Place
    /\ status = "joining" =>
          waiting.thread \in Thread /\ handle[waiting.thread] # "none"

(* Whoever still has to be destroyed holds what it was given; a block has  *)
(* one owner if it is allocated, and none if it is free.                   *)
Owned(place) ==
    /\ Denotes(object[place]) = given[place]
    /\ object[place].sized <=> given[place].captures # None

BlocksAreOwned ==
    /\ ~badFree
    /\ dying \in {None, Temporary}
    /\ \A place \in Held : Owned(place)
    /\ \A p, q \in Held : object[p].data = object[q].data /\ object[p].data # None => p = q
    /\ \A b \in Block : heap[b] # Free => \E place \in Held : object[place].data = b

(* The argument of a thread that was not joined is still what it was, and  *)
(* what the thread has read so far is right.                               *)
ArgumentIsThere(t) ==
    handle[t] = "open" =>
        /\ thread[t].argument \in Held
        /\ given[thread[t].argument] = thread[t].given
        /\ thread[t].given.function # None

HasRead(t) ==
    /\ thread[t].state # "astray"
    /\ thread[t].state \in {"entered", "copying", "running", "ended"} =>
          thread[t].function = thread[t].given.function
    /\ thread[t].state \in {"running", "ended"} =>
          thread[t].captures = thread[t].given.captures

ArgumentsAreKept ==
    \A t \in Thread : thread[t].state # "none" /\ t \notin disturbed =>
        ArgumentIsThere(t) /\ HasRead(t)

IInv ==
    /\ Types /\ CreatorIsSound /\ HandlesAreSound
    /\ careful => BlocksAreOwned /\ ArgumentsAreKept
-----------------------------------------------------------------------------
LEMMA InvInit == Init => IInv
  <1> SUFFICES ASSUME Init PROVE IInv
    OBVIOUS
  <1>1. Held = {}
    BY DEF Init, Held, Declared
  <1>2. Types
    <2>1. NullMeaning \in Meaning
      BY DEF NullMeaning, Meaning
    <2>2. thread \in [Thread -> ThreadInfo]
      BY <2>1 DEF Init, ThreadInfo, States
    <2>3. object \in [Place -> FunctionInfo \union {Junk}] /\ given \in [Place -> Meaning]
      BY <2>1 DEF Init
    <2>4. careful \in BOOLEAN /\ badFree \in BOOLEAN
      BY DEF Init
    <2>5. heap \in [Block -> Captured \union {None, Free, Junk}] /\ handle \in [Thread -> Handles]
      BY DEF Init, Handles
    <2>6. declared \in Seq(Object) /\ dying \in Place \union {None} /\ status \in Statuses
      BY DEF Init, Statuses
    <2> QED
      BY <2>2, <2>3, <2>4, <2>5, <2>6 DEF Types
  <1>3. CreatorIsSound /\ HandlesAreSound
    BY <1>1 DEF Init, CreatorIsSound, HandlesAreSound
  <1>4. BlocksAreOwned /\ ArgumentsAreKept
    BY <1>1 DEF Init, BlocksAreOwned, ArgumentsAreKept
  <1> QED
    BY <1>2, <1>3, <1>4 DEF IInv

(* The block of a place that is held is allocated.                         *)
LEMMA HeldIsAllocated ==
    ASSUME IInv, careful, NEW p \in Held, object[p].data # None
    PROVE  heap[object[p].data] = given[p].captures /\ heap[object[p].data] # Free
  <1>1. Denotes(object[p]) = given[p]
    BY DEF IInv, BlocksAreOwned, Owned
  <1>2. given[p] \in Meaning
    BY DEF IInv, Types, Held, Declared, Place
  <1>3. heap[object[p].data] = given[p].captures
    BY <1>1, <1>2 DEF Denotes
  <1> QED
    BY <1>2, <1>3, NamesAssumption DEF Meaning

(* Where new bytes are written nobody loses a block: the place was not held *)
(* or had none, and a new block was free.                                  *)
LEMMA Constructed ==
    ASSUME IInv, careful, NEW place \in Place, NEW info \in FunctionInfo,
           NEW meaning \in Meaning,
           Write(place, info, meaning),
           place \in Held => object[place].data = None,
           Held' = Held \union {place},
           dying' \in {None, Temporary}, badFree' = badFree,
           info.function = meaning.function,
           info.sized <=> meaning.captures # None,
           \/ info.data = None /\ meaning.captures = None /\ heap' = heap
           \/ info.data \in Block /\ Malloc(info.data, meaning.captures)
    PROVE  BlocksAreOwned'
  <1> USE NamesAssumption
  <1>1. Types /\ BlocksAreOwned /\ Held \subseteq Place
    BY DEF IInv, Types, Held, Declared, Place
  <1>2. /\ object' = [object EXCEPT ![place] = info]
        /\ given' = [given EXCEPT ![place] = meaning]
        /\ object'[place] = info /\ given'[place] = meaning
        /\ \A p \in Held \ {place} : object'[p] = object[p] /\ given'[p] = given[p]
    BY <1>1 DEF Write, Types
  <1>3. \A p \in Held : object[p].data = None \/ object[p].data \in Block
    BY <1>1 DEF CreatorIsSound, IInv, FunctionInfo
  <1>4. \A p \in Held : object[p].data # None => heap[object[p].data] # Free
    BY HeldIsAllocated
  <1>5. \A p \in Held \ {place} :
          object[p].data # None =>
              heap'[object[p].data] = heap[object[p].data] /\ object[p].data # info.data
    BY <1>1, <1>3, <1>4 DEF Malloc, Types
  <1>6. \A p \in Held' : Owned(p)'
    <2>1. Owned(place)'
      BY <1>1, <1>2 DEF Owned, Denotes, Malloc, Types, Meaning
    <2>2. ASSUME NEW p \in Held \ {place} PROVE Owned(p)'
      BY <1>1, <1>2, <1>5 DEF Owned, Denotes, BlocksAreOwned
    <2> QED
      BY <2>1, <2>2
  <1>7. \A p, q \in Held' :
          object'[p].data = object'[q].data /\ object'[p].data # None => p = q
    BY <1>1, <1>2, <1>5 DEF BlocksAreOwned
  <1>8. \A b \in Block : heap'[b] # Free => \E p \in Held' : object'[p].data = b
    <2> SUFFICES ASSUME NEW b \in Block, heap'[b] # Free
                 PROVE  \E p \in Held' : object'[p].data = b
      OBVIOUS
    <2>1. CASE b = info.data
      BY <2>1, <1>2
    <2>2. CASE b # info.data
      <3>1. heap[b] # Free
        BY <2>2, <1>1 DEF Malloc, Types
      <3>2. PICK p \in Held : object[p].data = b
        BY <3>1, <1>1 DEF BlocksAreOwned
      <3>3. p # place
        BY <3>2
      <3> QED
        BY <3>2, <3>3, <1>2
    <2> QED
      BY <2>1, <2>2
  <1> QED
    BY <1>1, <1>6, <1>7, <1>8 DEF BlocksAreOwned

(* A destructor frees the block of the place it destroys, and no other's.  *)
LEMMA Destroyed ==
    ASSUME IInv, careful, NEW place \in Held, Destroy(place),
           Held' = Held \ {place}, dying' \in {None, Temporary}, given' = given
    PROVE  BlocksAreOwned'
  <1> USE NamesAssumption
  <1>1. Types /\ BlocksAreOwned /\ Held \subseteq Place
    BY DEF IInv, Types, Held, Declared, Place
  <1>2. \A p \in Held : object[p].data = None \/ object[p].data \in Block
    BY <1>1 DEF CreatorIsSound, IInv, FunctionInfo
  <1>3. \A p \in Held : object[p].data # None => heap[object[p].data] # Free
    BY HeldIsAllocated
  <1>4. \A p \in Held \ {place} :
          /\ object'[p] = object[p]
          /\ object[p].data # None => heap'[object[p].data] = heap[object[p].data]
    BY <1>1, <1>2 DEF Destroy, BlocksAreOwned, Types
  <1>5. ~badFree'
    BY <1>1, <1>3 DEF Destroy, BlocksAreOwned
  <1>6. \A p \in Held' : Owned(p)'
    BY <1>1, <1>4 DEF Owned, Denotes, BlocksAreOwned
  <1>7. \A p, q \in Held' :
          object'[p].data = object'[q].data /\ object'[p].data # None => p = q
    BY <1>1, <1>4 DEF BlocksAreOwned
  <1>8. ASSUME NEW b \in Block, heap'[b] # Free
        PROVE  \E p \in Held' : object'[p].data = b
    <2>1. heap[b] # Free /\ b # object[place].data
      BY <1>1, <1>2, <1>8 DEF Destroy, Types
    <2>2. PICK p \in Held : object[p].data = b
      BY <2>1, <1>1 DEF BlocksAreOwned
    <2> QED
      BY <2>1, <2>2, <1>4
  <1> QED
    BY <1>5, <1>6, <1>7, <1>8 DEF BlocksAreOwned

(* Threads whose argument is written or destroyed before they are joined   *)
(* are disturbed; the others find theirs.                                  *)
LEMMA ArgumentsStay ==
    ASSUME IInv, careful, NEW place,
           disturbed' = disturbed \union Readers(place),
           \A p \in Held \ {place} : p \in Held' /\ given'[p] = given[p],
           UNCHANGED <<thread, handle>>
    PROVE  ArgumentsAreKept'
  <1> SUFFICES ASSUME NEW t \in Thread, thread[t].state # "none",
                      t \notin disturbed, t \notin Readers(place)
               PROVE  ArgumentIsThere(t)' /\ HasRead(t)'
    BY DEF ArgumentsAreKept
  <1>1. ArgumentIsThere(t) /\ HasRead(t)
    BY DEF IInv, ArgumentsAreKept
  <1>2. HasRead(t)'
    BY <1>1 DEF HasRead
  <1>3. handle[t] = "open" => thread[t].argument # place
    BY DEF Readers
  <1> QED
    BY <1>1, <1>2, <1>3 DEF ArgumentIsThere
-----------------------------------------------------------------------------
(* What is written is of its type.                                         *)
Fits(info, meaning) ==
    /\ info.function = meaning.function
    /\ info.sized <=> meaning.captures # None
    /\ \/ info.data = None /\ meaning.captures = None /\ heap' = heap
       \/ info.data \in Block /\ Malloc(info.data, meaning.captures)

LEMMA LambdaFits ==
    ASSUME NEW lambda \in Lambda, NEW b \in Block, Malloc(b, lambda.captures)
    PROVE  /\ CreateLambda(lambda, b) \in FunctionInfo
           /\ lambda \in Meaning /\ lambda.function # None
           /\ lambda.captures \in Captured \union {None}
           /\ Fits(CreateLambda(lambda, b), lambda)
  <1>1. /\ lambda \in Meaning /\ lambda.function \in Function
        /\ lambda.captures \in Captured \union {None}
    <2>1. /\ lambda \in [function : Function \union {None}, captures : Captured \union {None}]
          /\ lambda.function \in Capturing \union Captureless
          /\ lambda.captures \in Captured \union {None}
      BY DEF Lambda, Function
    <2> QED
      BY <2>1, NamesAssumption DEF Meaning, Function
  <1>2. CreateLambda(lambda, b) =
          [function |-> lambda.function, sized |-> lambda.captures # None, data |-> b]
    BY DEF CreateLambda
  <1>3. CreateLambda(lambda, b) \in FunctionInfo
    BY <1>1, <1>2 DEF FunctionInfo
  <1>4. Fits(CreateLambda(lambda, b), lambda)
    <2>1. CreateLambda(lambda, b).sized = (lambda.captures # None)
      BY <1>2
    <2>2. CreateLambda(lambda, b).function = lambda.function /\ CreateLambda(lambda, b).data = b
      BY <1>2
    <2> QED
      BY <2>1, <2>2 DEF Fits
  <1> QED
    BY <1>1, <1>3, <1>4, NamesAssumption DEF Function

LEMMA NamedFits ==
    ASSUME NEW n \in Named \union {None}
    PROVE  /\ [NullRecord EXCEPT !.function = n] \in FunctionInfo
           /\ [NullMeaning EXCEPT !.function = n] \in Meaning
           /\ heap' = heap => Fits([NullRecord EXCEPT !.function = n],
                                   [NullMeaning EXCEPT !.function = n])
  BY DEF NullRecord, NullMeaning, FunctionInfo, Meaning, Function, Fits

LEMMA MallocType ==
    ASSUME Types, NEW b \in Block, NEW contents \in Captured \union {None, Free, Junk},
           Malloc(b, contents)
    PROVE  heap' \in [Block -> Captured \union {None, Free, Junk}]
  BY DEF Types, Malloc

LEMMA WriteType ==
    ASSUME Types, NEW place \in Place, NEW info \in FunctionInfo \union {Junk},
           NEW meaning \in Meaning, Write(place, info, meaning)
    PROVE  /\ object' \in [Place -> FunctionInfo \union {Junk}]
           /\ given' \in [Place -> Meaning]
           /\ object'[place] = info /\ given'[place] = meaning
           /\ \A p \in Place \ {place} : object'[p] = object[p] /\ given'[p] = given[p]
           /\ disturbed' = disturbed \union Readers(place)
  BY DEF Types, Write

LEMMA HeldInPlaces ==
    ASSUME Types
    PROVE  Held \subseteq Place /\ Declared \subseteq Object
  BY DEF Types, Held, Declared, Place

(* A declaration adds one variable, which was not there.                   *)
LEMMA Declares ==
    ASSUME IInv, NEW o \in Object, Declare(o)
    PROVE  /\ declared' \in Seq(Object)
           /\ \A i, j \in 1..Len(declared') : declared'[i] = declared'[j] => i = j
           /\ dying = None /\ dying' = None
           /\ o \notin Held /\ Held' = Held \union {o}
  <1>1. declared \in Seq(Object) /\ declared' = Append(declared, o) /\ o \notin Declared
    BY DEF IInv, Types, Declare
  <1>2. /\ declared' \in Seq(Object)
        /\ Len(declared') = Len(declared) + 1
        /\ \A i \in 1..Len(declared) : declared'[i] = declared[i]
        /\ declared'[Len(declared) + 1] = o
        /\ Len(declared) \in Nat
    BY <1>1, AppendProperties
  <1>3. Declared' = Declared \union {o}
    <2>1. 1..Len(declared') = 1..Len(declared) \union {Len(declared) + 1}
      BY <1>2
    <2> QED
      BY <1>2, <2>1 DEF Declared
  <1>4. \A i, j \in 1..Len(declared') : declared'[i] = declared'[j] => i = j
    <2> SUFFICES ASSUME NEW i \in 1..Len(declared'), NEW j \in 1..Len(declared'),
                        declared'[i] = declared'[j]
                 PROVE  i = j
      OBVIOUS
    <2>1. \A k \in 1..Len(declared) : declared[k] # o
      BY <1>1 DEF Declared
    <2>2. \A k, l \in 1..Len(declared) : declared[k] = declared[l] => k = l
      BY DEF IInv, CreatorIsSound
    <2> QED
      BY <1>2, <2>1, <2>2
  <1>5. dying = None /\ dying' = None
    BY DEF Declare, NextStatement
  <1> QED
    BY <1>1, <1>2, <1>3, <1>4, <1>5 DEF Held

LEMMA DeclareKeeps ==
    ASSUME IInv, NEW o \in Object, NEW info \in FunctionInfo, NEW meaning \in Meaning,
           Declare(o), Write(o, info, meaning),
           heap' \in [Block -> Captured \union {None, Free, Junk}],
           careful' \in BOOLEAN, careful' => careful /\ Fits(info, meaning)
    PROVE  IInv'
  <1>1. Types /\ o \in Place /\ Held \subseteq Place
    BY HeldInPlaces DEF IInv, Place
  <1>2. /\ declared' \in Seq(Object)
        /\ \A i, j \in 1..Len(declared') : declared'[i] = declared'[j] => i = j
        /\ dying = None /\ dying' = None
        /\ o \notin Held /\ Held' = Held \union {o}
    BY Declares
  <1>3. /\ object' \in [Place -> FunctionInfo \union {Junk}]
        /\ given' \in [Place -> Meaning]
        /\ object'[o] = info
        /\ \A p \in Place \ {o} : object'[p] = object[p] /\ given'[p] = given[p]
        /\ disturbed' = disturbed \union Readers(o)
    BY <1>1, WriteType
  <1>4. status = "running" /\ UNCHANGED <<dying, status, waiting, thread, handle, badFree>>
    BY DEF Declare, NextStatement
  <1>5. Types'
    BY <1>1, <1>2, <1>3, <1>4 DEF Types
  <1>6. CreatorIsSound'
    BY <1>1, <1>2, <1>3, <1>4 DEF IInv, CreatorIsSound
  <1>7. HandlesAreSound'
    BY <1>4 DEF IInv, HandlesAreSound
  <1>8. careful' => BlocksAreOwned' /\ ArgumentsAreKept'
    <2> SUFFICES ASSUME careful, Fits(info, meaning)
                 PROVE  BlocksAreOwned' /\ ArgumentsAreKept'
      OBVIOUS
    <2>1. BlocksAreOwned'
      BY <1>1, <1>2, <1>4, Constructed DEF Fits
    <2>2. ArgumentsAreKept'
      BY <1>1, <1>2, <1>3, <1>4, ArgumentsStay
    <2> QED
      BY <2>1, <2>2
  <1> QED
    BY <1>5, <1>6, <1>7, <1>8 DEF IInv

LEMMA DeclareNamedKeeps ==
    ASSUME IInv, NEW o \in Object, NEW n \in Named \union {None}, DeclareNamed(o, n)
    PROVE  IInv'
  <1>1. /\ Declare(o) /\ heap' = heap /\ careful' = careful
        /\ Write(o, [NullRecord EXCEPT !.function = n], [NullMeaning EXCEPT !.function = n])
    BY DEF DeclareNamed
  <1>2. heap' \in [Block -> Captured \union {None, Free, Junk}] /\ careful' \in BOOLEAN
    BY <1>1 DEF IInv, Types
  <1> QED
    BY <1>1, <1>2, NamedFits, DeclareKeeps

LEMMA DeclareLambdaKeeps ==
    ASSUME IInv, NEW o \in Object, NEW lambda \in Lambda, NEW b \in Block,
           DeclareLambda(o, lambda, b)
    PROVE  IInv'
  <1>1. /\ Declare(o) /\ Malloc(b, lambda.captures) /\ careful' = careful
        /\ Write(o, CreateLambda(lambda, b), lambda)
    BY DEF DeclareLambda
  <1>2. heap' \in [Block -> Captured \union {None, Free, Junk}] /\ careful' \in BOOLEAN
    BY <1>1, LambdaFits, MallocType DEF IInv, Types
  <1> QED
    BY <1>1, <1>2, LambdaFits, DeclareKeeps

(* A copy has what the original has, in a block of its own.                *)
LEMMA DeclareCopyKeeps ==
    ASSUME IInv, NEW o \in Object, NEW p \in Object, NEW b \in Block, DeclareCopy(o, p, b)
    PROVE  IInv'
  <1>1. /\ Declare(o) /\ p \in Declared /\ CopyConstruct(o, p, b)
        /\ careful' = (careful /\ (object[p].data = None \/ object[p].sized))
    BY DEF DeclareCopy
  <1>2. p \in Held /\ Types /\ o \in Place /\ p \in Place
    BY <1>1 DEF Held, IInv, Place
  <1>3. /\ object[p] \in FunctionInfo /\ given[p] \in Meaning
        /\ careful' \in BOOLEAN
    BY <1>1, <1>2 DEF IInv, CreatorIsSound, Types
  <1>4. careful => Owned(p)
    BY <1>2 DEF IInv, BlocksAreOwned
  <1>5. CASE object[p].data # None /\ object[p].sized
    <2> DEFINE info == [object[p] EXCEPT !.data = b]
               contents == IF heap[object[p].data] = Free THEN Junk
                           ELSE heap[object[p].data]
    <2>1. Malloc(b, contents) /\ Write(o, info, given[p])
      BY <1>1, <1>5 DEF CopyConstruct
    <2>2. info \in FunctionInfo /\ info.data = b /\ info.sized = object[p].sized
          /\ info.function = object[p].function
      BY <1>3 DEF FunctionInfo
    <2>3. contents \in Captured \union {None, Free, Junk}
      BY <1>2, <1>3, <1>5 DEF Types, FunctionInfo
    <2>4. heap' \in [Block -> Captured \union {None, Free, Junk}]
      <3> HIDE DEF contents
      <3> QED
        BY <2>1, <2>3, <1>2, MallocType
    <2>5. careful' => careful /\ Fits(info, given[p])
      <3> SUFFICES ASSUME careful PROVE Fits(info, given[p])
        BY <1>1
      <3>1. contents = given[p].captures
        BY <1>2, <1>5, HeldIsAllocated
      <3>2. info.function = given[p].function
        BY <1>4, <2>2 DEF Owned, Denotes
      <3> QED
        BY <1>4, <2>1, <2>2, <3>1, <3>2 DEF Owned, Fits
    <2> HIDE DEF info
    <2> QED
      BY <1>1, <1>3, <2>1, <2>2, <2>4, <2>5, DeclareKeeps
  <1>6. CASE ~(object[p].data # None /\ object[p].sized)
    <2>1. Write(o, object[p], given[p]) /\ heap' = heap
      BY <1>1, <1>6 DEF CopyConstruct
    <2>2. heap' \in [Block -> Captured \union {None, Free, Junk}]
      BY <1>2, <2>1 DEF Types
    <2>3. careful' => careful /\ Fits(object[p], given[p])
      <3> SUFFICES ASSUME careful, object[p].data = None PROVE Fits(object[p], given[p])
        BY <1>1, <1>6
      <3>1. given[p] = [function |-> object[p].function, captures |-> None]
        BY <1>4 DEF Owned, Denotes
      <3> QED
        BY <1>4, <2>1, <3>1 DEF Owned, Fits
    <2> QED
      BY <1>1, <1>3, <2>1, <2>2, <2>3, DeclareKeeps
  <1> QED
    BY <1>5, <1>6
-----------------------------------------------------------------------------
(* An assignment that is careful finds no block that it would lose.        *)
LEMMA AssignKeeps ==
    ASSUME IInv, NEW o \in Object, NEW info \in FunctionInfo, NEW meaning \in Meaning,
           Assign(o), Write(o, info, meaning), heap' = heap, dying' = dying,
           careful' \in BOOLEAN,
           careful' => careful /\ object[o].data = None /\ Fits(info, meaning)
    PROVE  IInv'
  <1>1. Types /\ o \in Place /\ o \in Held /\ Held \subseteq Place /\ Held' = Held
    BY HeldInPlaces DEF IInv, Place, Assign, Held, Declared
  <1>2. /\ object' \in [Place -> FunctionInfo \union {Junk}]
        /\ given' \in [Place -> Meaning]
        /\ object'[o] = info
        /\ \A p \in Place \ {o} : object'[p] = object[p] /\ given'[p] = given[p]
        /\ disturbed' = disturbed \union Readers(o)
    BY <1>1, WriteType
  <1>3. /\ status = "running" /\ dying = None
        /\ UNCHANGED <<declared, status, waiting, thread, handle, badFree>>
    BY DEF Assign, NextStatement
  <1>4. Types'
    BY <1>1, <1>2, <1>3 DEF Types
  <1>5. CreatorIsSound'
    BY <1>1, <1>2, <1>3 DEF IInv, CreatorIsSound
  <1>6. HandlesAreSound'
    BY <1>3 DEF IInv, HandlesAreSound
  <1>7. careful' => BlocksAreOwned' /\ ArgumentsAreKept'
    <2> SUFFICES ASSUME careful, object[o].data = None, Fits(info, meaning)
                 PROVE  BlocksAreOwned' /\ ArgumentsAreKept'
      OBVIOUS
    <2>1. BlocksAreOwned'
      BY <1>1, <1>3, Constructed DEF Fits
    <2>2. ArgumentsAreKept'
      BY <1>1, <1>2, <1>3, ArgumentsStay
    <2> QED
      BY <2>1, <2>2
  <1> QED
    BY <1>4, <1>5, <1>6, <1>7 DEF IInv

LEMMA AssignNamedKeeps ==
    ASSUME IInv, NEW o \in Object, NEW n \in Named \union {None}, AssignNamed(o, n)
    PROVE  IInv'
  <1>1. /\ Assign(o) /\ heap' = heap /\ dying' = dying
        /\ careful' = (careful /\ object[o].data = None)
        /\ Write(o, [NullRecord EXCEPT !.function = n], [NullMeaning EXCEPT !.function = n])
    BY DEF AssignNamed
  <1>2. careful' \in BOOLEAN /\ (careful' => careful /\ object[o].data = None)
    BY <1>1
  <1> QED
    BY <1>1, <1>2, NamedFits, AssignKeeps

LEMMA AssignCopyKeeps ==
    ASSUME IInv, NEW o \in Object, NEW p \in Object, AssignCopy(o, p)
    PROVE  IInv'
  <1>1. /\ Assign(o) /\ p \in Declared /\ Write(o, object[p], given[p])
        /\ heap' = heap /\ dying' = dying
        /\ careful' = (careful /\ object[o].data = None /\ object[p].data = None)
    BY DEF AssignCopy
  <1>2. /\ object[p] \in FunctionInfo /\ given[p] \in Meaning /\ p \in Held
    BY <1>1 DEF IInv, Types, CreatorIsSound, Held, Place
  <1>3. careful' \in BOOLEAN
    BY <1>1
  <1>4. careful' => careful /\ object[o].data = None /\ Fits(object[p], given[p])
    <2> SUFFICES ASSUME careful, object[o].data = None, object[p].data = None
                 PROVE  Fits(object[p], given[p])
      BY <1>1
    <2>1. Owned(p)
      BY <1>2 DEF IInv, BlocksAreOwned
    <2>2. given[p] = [function |-> object[p].function, captures |-> None]
      BY <2>1 DEF Owned, Denotes
    <2> QED
      BY <1>1, <2>1, <2>2 DEF Owned, Fits
  <1> QED
    BY <1>1, <1>2, <1>3, <1>4, AssignKeeps

LEMMA AssignLambdaKeeps ==
    ASSUME IInv, NEW o \in Object, NEW lambda \in Lambda, NEW b \in Block,
           AssignLambda(o, lambda, b)
    PROVE  IInv'
  <1>1. /\ Assign(o) /\ Malloc(b, lambda.captures) /\ dying' = o /\ careful' = FALSE
        /\ Write(o, CreateLambda(lambda, b), lambda)
    BY DEF AssignLambda
  <1>2. /\ Types /\ o \in Place /\ o \in Held /\ Held \subseteq Place /\ Held' \subseteq Held
    BY <1>1, HeldInPlaces DEF IInv, Place, Assign, Held, Declared
  <1>3. /\ CreateLambda(lambda, b) \in FunctionInfo /\ lambda \in Meaning
        /\ heap' \in [Block -> Captured \union {None, Free, Junk}]
    BY <1>1, <1>2, LambdaFits, MallocType
  <1>4. /\ object' \in [Place -> FunctionInfo \union {Junk}]
        /\ given' \in [Place -> Meaning]
        /\ object'[o] = CreateLambda(lambda, b)
        /\ \A p \in Place \ {o} : object'[p] = object[p]
    BY <1>1, <1>2, <1>3, WriteType
  <1>5. /\ status = "running"
        /\ UNCHANGED <<declared, status, waiting, thread, handle, badFree>>
    BY <1>1 DEF Assign, NextStatement
  <1>6. Types'
    BY <1>1, <1>2, <1>3, <1>4, <1>5 DEF Types
  <1>7. CreatorIsSound'
    BY <1>2, <1>3, <1>4, <1>5 DEF IInv, CreatorIsSound
  <1>8. HandlesAreSound'
    BY <1>5 DEF IInv, HandlesAreSound
  <1> QED
    BY <1>1, <1>6, <1>7, <1>8 DEF IInv
-----------------------------------------------------------------------------
(* A destructor leaves a function object without a block.                  *)
LEMMA DestroyType ==
    ASSUME IInv, NEW place \in Held, Destroy(place)
    PROVE  /\ object' \in [Place -> FunctionInfo \union {Junk}]
           /\ heap' \in [Block -> Captured \union {None, Free, Junk}]
           /\ badFree' \in BOOLEAN
           /\ \A p \in Held : object'[p] \in FunctionInfo
           /\ disturbed' = disturbed \union Readers(place)
  <1>1. Types /\ Held \subseteq Place /\ \A p \in Held : object[p] \in FunctionInfo
    BY HeldInPlaces DEF IInv, CreatorIsSound
  <1>2. object' = [object EXCEPT ![place] = [object[place] EXCEPT !.data = None]]
    BY DEF Destroy
  <1>3. [object[place] EXCEPT !.data = None] \in FunctionInfo
    BY <1>1 DEF FunctionInfo
  <1>4. /\ object' \in [Place -> FunctionInfo \union {Junk}]
        /\ \A p \in Held : object'[p] \in FunctionInfo
    BY <1>1, <1>2, <1>3 DEF Types
  <1>5. object[place].data \in Block \union {None}
    BY <1>1 DEF FunctionInfo
  <1>6. heap' \in [Block -> Captured \union {None, Free, Junk}]
    BY <1>1, <1>5 DEF Destroy, Types
  <1>7. badFree' \in BOOLEAN /\ disturbed' = disturbed \union Readers(place)
    BY DEF Destroy
  <1> QED
    BY <1>4, <1>6, <1>7

LEMMA DestroyTemporaryKeeps ==
    ASSUME IInv, DestroyTemporary
    PROVE  IInv'
  <1>1. /\ dying # None /\ Destroy(dying) /\ dying' = None
        /\ UNCHANGED <<declared, status, waiting, thread, handle, given, careful>>
    BY DEF DestroyTemporary
  <1>2. Types /\ dying \in Held /\ Held' = Declared /\ Held' \subseteq Held
    BY <1>1 DEF IInv, Held, Declared
  <1>3. Types'
    BY <1>1, <1>2, DestroyType DEF Types
  <1>4. CreatorIsSound' /\ HandlesAreSound'
    BY <1>1, <1>2, DestroyType DEF IInv, CreatorIsSound, HandlesAreSound
  <1>5. ASSUME careful PROVE BlocksAreOwned' /\ ArgumentsAreKept'
    <2>1. dying = Temporary
      BY <1>1, <1>5 DEF IInv, BlocksAreOwned
    <2>2. Held' = Held \ {dying}
      BY <1>1, <1>2, <2>1, HeldInPlaces, NamesAssumption DEF Held
    <2>3. BlocksAreOwned'
      BY <1>1, <1>2, <1>5, <2>2, Destroyed
    <2>4. ArgumentsAreKept'
      BY <1>1, <1>2, <1>5, <2>2, DestroyType, ArgumentsStay
    <2> QED
      BY <2>3, <2>4
  <1> QED
    BY <1>1, <1>3, <1>4, <1>5 DEF IInv

(* Leaving the scope takes the variables from the end of their list.       *)
LEMMA LastLeaves ==
    ASSUME IInv, status = "leaving", declared # <<>>, dying' = dying,
           declared' = SubSeq(declared, 1, Len(declared) - 1)
    PROVE  /\ declared' \in Seq(Object)
           /\ \A i, j \in 1..Len(declared') : declared'[i] = declared'[j] => i = j
           /\ dying = None
           /\ declared[Len(declared)] \in Held
           /\ Held' = Held \ {declared[Len(declared)]}
  <1>1. declared \in Seq(Object) /\ dying = None
    BY DEF IInv, Types, CreatorIsSound
  <1>2. Len(declared) \in Nat \ {0}
    BY <1>1, EmptySeq, LenProperties
  <1>3. /\ declared' \in Seq(Object)
        /\ Len(declared') = Len(declared) - 1
        /\ \A i \in 1..Len(declared) - 1 : declared'[i] = declared[i]
    <2>1. \A i \in 1..Len(declared) - 1 : declared[i] \in Object
      BY <1>1, <1>2, ElementOfSeq
    <2>2. 1 \in Int /\ Len(declared) - 1 \in Int
      BY <1>2
    <2>3. /\ declared' \in Seq(Object)
          /\ Len(declared') = IF 1 <= Len(declared) - 1 THEN Len(declared) - 1 - 1 + 1 ELSE 0
          /\ \A i \in 1..Len(declared) - 1 - 1 + 1 : declared'[i] = declared[1 + i - 1]
      BY <2>1, <2>2, SubSeqProperties
    <2>4. Len(declared) - 1 - 1 + 1 = Len(declared) - 1
      BY <1>2
    <2>5. \A i \in 1..Len(declared) - 1 : declared'[i] = declared[i]
      <3> SUFFICES ASSUME NEW i \in 1..Len(declared) - 1 PROVE declared'[i] = declared[i]
        OBVIOUS
      <3>1. declared'[i] = declared[1 + i - 1]
        BY <2>3, <2>4
      <3>2. 1 + i - 1 = i
        OBVIOUS
      <3> QED
        BY <3>1, <3>2
    <2> QED
      BY <1>2, <2>3, <2>4, <2>5
  <1>4. \A i, j \in 1..Len(declared) : declared[i] = declared[j] => i = j
    BY DEF IInv, CreatorIsSound
  <1>5. \A i, j \in 1..Len(declared') : declared'[i] = declared'[j] => i = j
    BY <1>2, <1>3, <1>4
  <1>6. Declared' = Declared \ {declared[Len(declared)]}
    <2>1. Declared' = {declared[i] : i \in 1..Len(declared) - 1}
      BY <1>3 DEF Declared
    <2>2. 1..Len(declared) = 1..Len(declared) - 1 \union {Len(declared)}
      BY <1>2
    <2>3. \A i \in 1..Len(declared) - 1 : declared[i] # declared[Len(declared)]
      BY <1>2, <1>4
    <2> QED
      BY <2>1, <2>2, <2>3 DEF Declared
  <1>7. declared[Len(declared)] \in Declared
    BY <1>2 DEF Declared
  <1> QED
    BY <1>1, <1>3, <1>5, <1>6, <1>7 DEF Held

LEMMA DestroyLastKeeps ==
    ASSUME IInv, DestroyLast
    PROVE  IInv'
  <1> DEFINE last == declared[Len(declared)]
  <1>1. /\ status = "leaving" /\ declared # <<>> /\ Destroy(last)
        /\ declared' = SubSeq(declared, 1, Len(declared) - 1)
        /\ UNCHANGED <<dying, status, waiting, thread, handle, given, careful>>
    BY DEF DestroyLast
  <1>2. /\ declared' \in Seq(Object)
        /\ \A i, j \in 1..Len(declared') : declared'[i] = declared'[j] => i = j
        /\ dying = None /\ last \in Held /\ Held' = Held \ {last}
    BY <1>1, LastLeaves
  <1> HIDE DEF last
  <1>3. Types'
    BY <1>1, <1>2, DestroyType DEF IInv, Types
  <1>4. CreatorIsSound' /\ HandlesAreSound'
    BY <1>1, <1>2, DestroyType DEF IInv, CreatorIsSound, HandlesAreSound
  <1>5. ASSUME careful PROVE BlocksAreOwned' /\ ArgumentsAreKept'
    <2>1. BlocksAreOwned'
      BY <1>1, <1>2, <1>5, Destroyed
    <2>2. ArgumentsAreKept'
      BY <1>1, <1>2, <1>5, DestroyType, ArgumentsStay
    <2> QED
      BY <2>1, <2>2
  <1> QED
    BY <1>1, <1>3, <1>4, <1>5 DEF IInv

(* Where nothing in memory changes, objects keep what they have.           *)
LEMMA MemoryStays ==
    ASSUME IInv, UNCHANGED memory
    PROVE  /\ Held' = Held
           /\ careful' => careful /\ BlocksAreOwned'
  BY DEF IInv, memory, Held, Declared, BlocksAreOwned, Owned, Denotes

LEMMA LeaveKeeps ==
    ASSUME IInv, Leave \/ Return
    PROVE  IInv'
  <1>1. /\ UNCHANGED <<memory, waiting, thread, handle>> /\ dying = None
        /\ \/ status' = "leaving"
           \/ status' = "left" /\ declared = <<>>
    BY DEF Leave, Return, NextStatement, IInv, CreatorIsSound
  <1>2. Types' /\ CreatorIsSound' /\ HandlesAreSound'
    BY <1>1, MemoryStays
    DEF IInv, Types, memory, Statuses, CreatorIsSound, HandlesAreSound
  <1>3. careful' => ArgumentsAreKept'
    BY <1>1, MemoryStays DEF IInv, ArgumentsAreKept, ArgumentIsThere, HasRead, memory
  <1> QED
    BY <1>1, <1>2, <1>3, MemoryStays DEF IInv

(* Bytes are used again only when no destructor will look at them.         *)
LEMMA ReuseMemoryKeeps ==
    ASSUME IInv, NEW place \in Place, ReuseMemory(place)
    PROVE  IInv'
  <1>1. /\ place = Temporary \/ status = "left"
        /\ dying # place
        /\ Write(place, Junk, NullMeaning)
        /\ UNCHANGED <<heap, declared, dying, status, waiting, thread, handle, careful, badFree>>
    BY DEF ReuseMemory
  <1>2. Types /\ Held \subseteq Place /\ Held' = Held
    BY <1>1, HeldInPlaces DEF IInv, Held, Declared
  <1>3. place \notin Held
    <2>1. CASE place = Temporary
      BY <1>1, <1>2, <2>1, HeldInPlaces, NamesAssumption DEF Held
    <2>2. CASE status = "left"
      <3>1. declared = <<>> /\ dying = None
        BY <2>2 DEF IInv, CreatorIsSound
      <3> QED
        BY <3>1 DEF Held, Declared
    <2> QED
      BY <1>1, <2>1, <2>2
  <1>4. NullMeaning \in Meaning
    BY DEF NullMeaning, Meaning
  <1>5. /\ object' \in [Place -> FunctionInfo \union {Junk}]
        /\ given' \in [Place -> Meaning]
        /\ \A p \in Held : object'[p] = object[p] /\ given'[p] = given[p]
        /\ disturbed' = disturbed \union Readers(place)
    BY <1>1, <1>2, <1>3, <1>4, WriteType
  <1>6. Types'
    BY <1>1, <1>2, <1>5 DEF Types
  <1>7. CreatorIsSound' /\ HandlesAreSound'
    BY <1>1, <1>2, <1>5 DEF IInv, CreatorIsSound, HandlesAreSound
  <1>8. ASSUME careful PROVE BlocksAreOwned' /\ ArgumentsAreKept'
    <2>1. BlocksAreOwned'
      BY <1>1, <1>2, <1>5, <1>8 DEF IInv, BlocksAreOwned, Owned, Denotes
    <2>2. ArgumentsAreKept'
      BY <1>1, <1>2, <1>5, <1>8, ArgumentsStay
    <2> QED
      BY <2>1, <2>2
  <1> QED
    BY <1>1, <1>6, <1>7, <1>8 DEF IInv
-----------------------------------------------------------------------------
(* A thread that is created finds a function object at its argument.       *)
LEMMA StartThreadKeeps ==
    ASSUME IInv, NEW t \in Thread, NEW place \in Place, NEW meaning \in Meaning,
           StartThread(t, place, meaning)
    PROVE  /\ thread' \in [Thread -> ThreadInfo] /\ handle' \in [Thread -> Handles]
           /\ HandlesAreSound'
           /\ handle[t] = "none"
           /\ handle'[t] = "open" /\ thread'[t].argument = place
           /\ thread'[t].given = meaning /\ thread'[t].state = "started"
           /\ \A u \in Thread \ {t} : thread'[u] = thread[u] /\ handle'[u] = handle[u]
  <1>1. /\ status = "running" /\ handle[t] = "none" /\ status' = status
        /\ handle' = [handle EXCEPT ![t] = "open"]
        /\ thread' = [thread EXCEPT ![t] =
                         [thread[t] EXCEPT !.argument = place, !.state = "started",
                                           !.given = meaning]]
    BY DEF StartThread, NextStatement
  <1>2. thread \in [Thread -> ThreadInfo] /\ handle \in [Thread -> Handles]
    BY DEF IInv, Types
  <1>3. [thread[t] EXCEPT !.argument = place, !.state = "started", !.given = meaning]
            \in ThreadInfo
    BY <1>2 DEF ThreadInfo, States
  <1>4. thread' \in [Thread -> ThreadInfo] /\ handle' \in [Thread -> Handles]
    BY <1>1, <1>2, <1>3 DEF Handles
  <1>5. /\ handle'[t] = "open" /\ thread'[t].argument = place
        /\ thread'[t].given = meaning /\ thread'[t].state = "started"
        /\ \A u \in Thread \ {t} : thread'[u] = thread[u] /\ handle'[u] = handle[u]
    BY <1>1, <1>2 DEF ThreadInfo
  <1>6. HandlesAreSound'
    BY <1>1, <1>5 DEF IInv, HandlesAreSound
  <1> QED
    BY <1>1, <1>4, <1>5, <1>6

(* The threads there were before keep what they had.                       *)
LEMMA OthersStay ==
    ASSUME IInv, careful, NEW t \in Thread,
           \A u \in Thread \ {t} : thread'[u] = thread[u] /\ handle'[u] = handle[u],
           disturbed \subseteq disturbed', Held \subseteq Held',
           \A u \in Thread \ {t} : u \notin disturbed' =>
               (handle[u] = "open" => given'[thread[u].argument] = given[thread[u].argument]),
           thread'[t].state # "none" /\ t \notin disturbed' =>
               ArgumentIsThere(t)' /\ HasRead(t)'
    PROVE  ArgumentsAreKept'
  <1> SUFFICES ASSUME NEW u \in Thread \ {t}, thread'[u].state # "none", u \notin disturbed'
               PROVE  ArgumentIsThere(u)' /\ HasRead(u)'
    BY DEF ArgumentsAreKept
  <1>1. ArgumentIsThere(u) /\ HasRead(u)
    BY DEF IInv, ArgumentsAreKept
  <1> QED
    BY <1>1 DEF ArgumentIsThere, HasRead

LEMMA CreateThreadKeeps ==
    ASSUME IInv, NEW t \in Thread, NEW o \in Object, CreateThread(t, o)
    PROVE  IInv'
  <1>1. /\ o \in Declared /\ object[o].function # None
        /\ StartThread(t, o, given[o])
        /\ UNCHANGED <<declared, status, waiting, careful, badFree>>
        /\ UNCHANGED <<object, heap, dying, given, disturbed>>
    BY DEF CreateThread, StartThread
  <1>2. Types /\ o \in Place /\ o \in Held /\ given[o] \in Meaning /\ UNCHANGED memory
    BY <1>1 DEF IInv, Types, Place, Held, memory
  <1>3. Held' = Held /\ (careful' => careful /\ BlocksAreOwned')
    BY <1>2, MemoryStays
  <1>4. Types' /\ CreatorIsSound' /\ HandlesAreSound'
    BY <1>1, <1>2, <1>3, StartThreadKeeps DEF IInv, Types, CreatorIsSound
  <1>5. ASSUME careful PROVE ArgumentsAreKept'
    <2>1. given[o].function # None
      <3>1. given[o] = Denotes(object[o])
        BY <1>2, <1>5 DEF IInv, BlocksAreOwned, Owned
      <3> QED
        BY <1>1, <3>1 DEF Denotes
    <2>2. ArgumentIsThere(t)' /\ HasRead(t)'
      BY <1>1, <1>2, <1>3, <2>1, StartThreadKeeps DEF ArgumentIsThere, HasRead
    <2> QED
      BY <1>1, <1>2, <1>3, <1>5, <2>2, StartThreadKeeps, OthersStay
  <1> QED
    BY <1>3, <1>4, <1>5 DEF IInv

LEMMA CreateThreadOnLambdaKeeps ==
    ASSUME IInv, NEW t \in Thread, NEW lambda \in Lambda, NEW b \in Block,
           CreateThreadOnLambda(t, lambda, b)
    PROVE  IInv'
  <1> DEFINE info == CreateLambda(lambda, b)
  <1>1. /\ StartThread(t, Temporary, lambda) /\ Malloc(b, lambda.captures)
        /\ Write(Temporary, info, lambda)
        /\ dying = None /\ dying' = Temporary /\ status = "running"
        /\ UNCHANGED <<declared, status, waiting, careful, badFree>>
    BY DEF CreateThreadOnLambda, StartThread, NextStatement
  <1>2. /\ info \in FunctionInfo /\ lambda \in Meaning /\ lambda.function # None
        /\ lambda.captures \in Captured \union {None, Free, Junk} /\ Fits(info, lambda)
    BY <1>1, LambdaFits
  <1>3. /\ Types /\ Temporary \in Place /\ Held \subseteq Place /\ Temporary \notin Held
        /\ Held' = Held \union {Temporary}
    BY <1>1, HeldInPlaces, NamesAssumption DEF IInv, Place, Held, Declared
  <1> HIDE DEF info
  <1>4. /\ object' \in [Place -> FunctionInfo \union {Junk}]
        /\ given' \in [Place -> Meaning]
        /\ object'[Temporary] = info /\ given'[Temporary] = lambda
        /\ \A p \in Place \ {Temporary} : object'[p] = object[p] /\ given'[p] = given[p]
        /\ disturbed' = disturbed \union Readers(Temporary)
    BY <1>1, <1>2, <1>3, WriteType
  <1>5. heap' \in [Block -> Captured \union {None, Free, Junk}]
    BY <1>1, <1>2, <1>3, MallocType
  <1>6. /\ thread' \in [Thread -> ThreadInfo] /\ handle' \in [Thread -> Handles]
        /\ HandlesAreSound'
        /\ handle'[t] = "open" /\ thread'[t].argument = Temporary
        /\ thread'[t].given = lambda /\ thread'[t].state = "started"
        /\ \A u \in Thread \ {t} : thread'[u] = thread[u] /\ handle'[u] = handle[u]
    BY <1>1, <1>2, <1>3, StartThreadKeeps
  <1>7. Types'
    BY <1>1, <1>3, <1>4, <1>5, <1>6 DEF Types
  <1>8. CreatorIsSound'
    BY <1>1, <1>2, <1>3, <1>4 DEF IInv, CreatorIsSound
  <1>9. ASSUME careful PROVE BlocksAreOwned' /\ ArgumentsAreKept'
    <2>1. BlocksAreOwned'
      BY <1>1, <1>2, <1>3, <1>9, Constructed DEF Fits
    <2>2. ArgumentIsThere(t)' /\ HasRead(t)'
      BY <1>2, <1>3, <1>4, <1>6 DEF ArgumentIsThere, HasRead
    <2>3. ASSUME NEW u \in Thread \ {t}, u \notin disturbed', handle[u] = "open"
          PROVE  given'[thread[u].argument] = given[thread[u].argument]
      <3>1. thread[u].argument # Temporary
        BY <1>4, <2>3 DEF Readers
      <3>2. thread[u].argument \in Place
        BY <2>3 DEF IInv, HandlesAreSound
      <3> QED
        BY <1>4, <3>1, <3>2
    <2>4. ArgumentsAreKept'
      BY <1>3, <1>4, <1>6, <1>9, <2>2, <2>3, OthersStay
    <2> QED
      BY <2>1, <2>4
  <1> QED
    BY <1>1, <1>6, <1>7, <1>8, <1>9 DEF IInv

LEMMA JoinThreadKeeps ==
    ASSUME IInv, NEW t \in Thread, NEW close \in BOOLEAN, JoinThread(t, close)
    PROVE  IInv'
  <1>1. /\ handle[t] \in {"open", "joined"} /\ status' = "joining"
        /\ waiting'.thread = t
        /\ UNCHANGED <<memory, thread, handle>>
    BY DEF JoinThread
  <1>2. Types' /\ CreatorIsSound' /\ HandlesAreSound'
    BY <1>1, MemoryStays
    DEF IInv, Types, memory, Statuses, CreatorIsSound, HandlesAreSound
  <1>3. careful' => ArgumentsAreKept'
    BY <1>1, MemoryStays DEF IInv, ArgumentsAreKept, ArgumentIsThere, HasRead, memory
  <1> QED
    BY <1>1, <1>2, <1>3, MemoryStays DEF IInv

(* The creator goes on when the thread has ended.                          *)
LEMMA FinishJoinKeeps ==
    ASSUME IInv, FinishJoin
    PROVE  IInv'
  <1> DEFINE t == waiting.thread
             to == IF waiting.close THEN "closed" ELSE "joined"
  <1>1. /\ status = "joining" /\ (handle[t] = "open" => thread[t].state = "ended")
        /\ handle' = [handle EXCEPT ![t] = to] /\ status' = "running"
        /\ UNCHANGED <<memory, thread>>
    BY DEF FinishJoin
  <1>2. t \in Thread /\ handle[t] # "none" /\ to \in {"closed", "joined"}
    BY <1>1 DEF IInv, HandlesAreSound
  <1> HIDE DEF t, to
  <1>3. handle \in [Thread -> Handles]
    BY DEF IInv, Types
  <1>4. thread[t].state = "ended"
    BY <1>1, <1>2, <1>3 DEF IInv, HandlesAreSound, Handles
  <1>5. Types'
    BY <1>1, <1>2, <1>3 DEF IInv, Types, memory, Statuses, Handles
  <1>6. CreatorIsSound'
    BY <1>1, MemoryStays DEF IInv, memory, CreatorIsSound
  <1>7. HandlesAreSound'
    BY <1>1, <1>2, <1>3, <1>4 DEF IInv, HandlesAreSound
  <1>8. careful' => ArgumentsAreKept'
    <2>1. \A u \in Thread : handle'[u] = "open" => handle[u] = "open"
      BY <1>1, <1>2, <1>3
    <2> QED
      BY <1>1, <2>1, MemoryStays DEF IInv, ArgumentsAreKept, ArgumentIsThere, HasRead, memory
  <1> QED
    BY <1>1, <1>5, <1>6, <1>7, <1>8, MemoryStays DEF IInv
-----------------------------------------------------------------------------
(* A thread that steps changes only what it knows itself.                  *)
LEMMA ThreadKeeps ==
    ASSUME IInv, NEW t \in Thread, NEW info \in ThreadInfo,
           UNCHANGED <<memory, status, waiting, handle>>,
           thread' = [thread EXCEPT ![t] = info],
           thread[t].state \notin {"none", "ended"}, info.state # "none",
           info.argument = thread[t].argument, info.given = thread[t].given,
           careful /\ t \notin disturbed => HasRead(t)'
    PROVE  IInv'
  <1>1. thread \in [Thread -> ThreadInfo]
    BY DEF IInv, Types
  <1>2. thread' \in [Thread -> ThreadInfo] /\ thread'[t] = info
        /\ \A u \in Thread \ {t} : thread'[u] = thread[u]
    BY <1>1
  <1>3. Types' /\ CreatorIsSound'
    BY <1>2, MemoryStays DEF IInv, Types, memory, CreatorIsSound
  <1>4. HandlesAreSound'
    BY <1>2 DEF IInv, HandlesAreSound
  <1>5. ASSUME careful PROVE ArgumentsAreKept'
    <2>1. ASSUME t \notin disturbed PROVE ArgumentIsThere(t)' /\ HasRead(t)'
      BY <1>2, <1>5, <2>1, MemoryStays DEF IInv, ArgumentsAreKept, ArgumentIsThere, memory
    <2> QED
      BY <1>2, <1>5, <2>1, MemoryStays, OthersStay DEF memory
  <1> QED
    BY <1>3, <1>4, <1>5, MemoryStays DEF IInv

(* A thread that has not ended was not joined: its argument is still there. *)
LEMMA ReadsItsArgument ==
    ASSUME IInv, NEW t \in Thread, thread[t].state \notin {"none", "ended"}
    PROVE  /\ thread[t] \in ThreadInfo
           /\ Read(t) # Junk => Read(t) \in FunctionInfo
           /\ careful /\ t \notin disturbed =>
                 /\ HasRead(t)
                 /\ Read(t) \in FunctionInfo /\ Read(t) # Junk
                 /\ Denotes(Read(t)) = thread[t].given
                 /\ Read(t).sized <=> thread[t].given.captures # None
                 /\ thread[t].given \in Meaning
                 /\ thread[t].given.function # None
  <1>1. Types /\ thread[t] \in ThreadInfo /\ handle[t] \in Handles
    BY DEF IInv, Types
  <1>2. handle[t] = "open" /\ thread[t].argument \in Place
    BY <1>1 DEF IInv, HandlesAreSound, Handles
  <1>3. Read(t) # Junk => Read(t) \in FunctionInfo
    BY <1>1, <1>2 DEF Types, Read
  <1>4. ASSUME careful, t \notin disturbed
        PROVE  /\ HasRead(t)
               /\ Read(t) \in FunctionInfo /\ Read(t) # Junk
               /\ Denotes(Read(t)) = thread[t].given
               /\ Read(t).sized <=> thread[t].given.captures # None
               /\ thread[t].given \in Meaning
               /\ thread[t].given.function # None
    <2>1. HasRead(t) /\ ArgumentIsThere(t)
      BY <1>4 DEF IInv, ArgumentsAreKept
    <2>2. /\ thread[t].argument \in Held /\ given[thread[t].argument] = thread[t].given
          /\ thread[t].given.function # None
      BY <1>2, <2>1 DEF ArgumentIsThere
    <2>3. Owned(thread[t].argument) /\ Read(t) \in FunctionInfo
      BY <1>4, <2>2 DEF IInv, BlocksAreOwned, CreatorIsSound, Read
    <2>4. thread[t].given \in Meaning
      BY <1>1 DEF ThreadInfo
    <2> QED
      BY <2>1, <2>2, <2>3, <2>4, NamesAssumption DEF Owned, Read
  <1> QED
    BY <1>1, <1>3, <1>4

LEMMA ReadFunctionKeeps ==
    ASSUME IInv, NEW t \in Thread, ReadFunction(t)
    PROVE  IInv'
  <1>1. thread[t].state = "started" /\ UNCHANGED <<memory, status, waiting, handle>>
    BY DEF ReadFunction, StepThread
  <1>2. /\ thread[t] \in ThreadInfo
        /\ Read(t) # Junk => Read(t) \in FunctionInfo
        /\ careful /\ t \notin disturbed =>
              /\ Read(t) # Junk
              /\ Denotes(Read(t)) = thread[t].given
              /\ thread[t].given.function # None
    BY <1>1, ReadsItsArgument
  <1>3. careful /\ t \notin disturbed =>
            Read(t) # Junk /\ Read(t).function = thread[t].given.function
            /\ Read(t).function # None
    BY <1>2 DEF Denotes
  <1>4. CASE Read(t) = Junk \/ Read(t).function = None
    <2> DEFINE info == [thread[t] EXCEPT !.state = "astray"]
    <2>1. thread' = [thread EXCEPT ![t] = info]
      BY <1>4 DEF ReadFunction, GoAstray
    <2>2. info \in ThreadInfo /\ info.argument = thread[t].argument
          /\ info.given = thread[t].given /\ info.state = "astray"
      BY <1>2 DEF ThreadInfo, States
    <2>3. ~(careful /\ t \notin disturbed)
      BY <1>3, <1>4
    <2> HIDE DEF info
    <2> QED
      BY <1>1, <2>1, <2>2, <2>3, ThreadKeeps
  <1>5. CASE ~(Read(t) = Junk \/ Read(t).function = None)
    <2> DEFINE state == IF Read(t).function \in Native THEN "running" ELSE "entered"
               info == [thread[t] EXCEPT !.state = state, !.function = Read(t).function,
                                         !.captures = None]
    <2>1. thread' = [thread EXCEPT ![t] = info]
      BY <1>5 DEF ReadFunction
    <2>2. Read(t).function \in Function
      BY <1>2, <1>5 DEF FunctionInfo
    <2>3. info \in ThreadInfo /\ info.argument = thread[t].argument
          /\ info.given = thread[t].given /\ info.state = state
          /\ info.function = Read(t).function /\ info.captures = None
      BY <1>2, <2>2 DEF ThreadInfo, States
    <2>4. thread[t].given.function \in Native => thread[t].given.captures = None
      BY <1>2 DEF ThreadInfo, Meaning
    <2>5. state \in {"running", "entered"}
          /\ (state = "running" => Read(t).function \in Native)
      OBVIOUS
    <2> HIDE DEF info, state
    <2>6. thread'[t] = info
      BY <2>1 DEF IInv, Types
    <2>7. careful /\ t \notin disturbed => HasRead(t)'
      BY <1>3, <2>3, <2>4, <2>5, <2>6 DEF HasRead
    <2> QED
      BY <1>1, <2>1, <2>3, <2>5, <2>7, ThreadKeeps
  <1> QED
    BY <1>4, <1>5

(* A thread that has read the right function takes the captured data last. *)
LEMMA StateKeeps ==
    ASSUME IInv, NEW t \in Thread, NEW state \in States \ {"none", "started"},
           UNCHANGED <<memory, status, waiting, handle>>,
           thread' = [thread EXCEPT ![t].state = state],
           thread[t].state \in {"entered", "copying", "running"},
           careful /\ t \notin disturbed =>
               /\ state # "astray"
               /\ state \in {"running", "ended"} => thread[t].state = "running"
    PROVE  IInv'
  <1> DEFINE info == [thread[t] EXCEPT !.state = state]
  <1>1. thread' = [thread EXCEPT ![t] = info]
    OBVIOUS
  <1>2. thread[t] \in ThreadInfo
    BY DEF IInv, Types
  <1>3. /\ info \in ThreadInfo /\ info.argument = thread[t].argument
        /\ info.given = thread[t].given /\ info.state = state
        /\ info.function = thread[t].function /\ info.captures = thread[t].captures
    BY <1>2 DEF ThreadInfo
  <1> HIDE DEF info
  <1>4. thread'[t] = info
    BY <1>1 DEF IInv, Types
  <1>5. careful /\ t \notin disturbed => HasRead(t)'
    <2> SUFFICES ASSUME careful, t \notin disturbed PROVE HasRead(t)'
      OBVIOUS
    <2>1. HasRead(t)
      BY ReadsItsArgument
    <2> QED
      BY <1>3, <1>4, <2>1 DEF HasRead
  <1> QED
    BY <1>1, <1>3, <1>5, ThreadKeeps

LEMMA RunKeeps ==
    ASSUME IInv, NEW t \in Thread, NEW captures \in Captured \union {None},
           UNCHANGED <<memory, status, waiting, handle>>, Run(t, captures),
           thread[t].state \in {"entered", "copying"},
           careful /\ t \notin disturbed => captures = thread[t].given.captures
    PROVE  IInv'
  <1> DEFINE info == [thread[t] EXCEPT !.state = "running", !.captures = captures]
  <1>1. thread' = [thread EXCEPT ![t] = info]
    BY DEF Run
  <1>2. thread[t] \in ThreadInfo
    BY DEF IInv, Types
  <1>3. /\ info \in ThreadInfo /\ info.argument = thread[t].argument
        /\ info.given = thread[t].given /\ info.state = "running"
        /\ info.function = thread[t].function /\ info.captures = captures
    BY <1>2 DEF ThreadInfo, States
  <1> HIDE DEF info
  <1>4. thread'[t] = info
    BY <1>1 DEF IInv, Types
  <1>5. careful /\ t \notin disturbed => HasRead(t)'
    <2> SUFFICES ASSUME careful, t \notin disturbed PROVE HasRead(t)'
      OBVIOUS
    <2>1. HasRead(t)
      BY ReadsItsArgument
    <2> QED
      BY <1>3, <1>4, <2>1 DEF HasRead
  <1> QED
    BY <1>1, <1>3, <1>5, ThreadKeeps

LEMMA TestCapturesKeeps ==
    ASSUME IInv, NEW t \in Thread, TestCaptures(t)
    PROVE  IInv'
  <1>1. thread[t].state = "entered" /\ UNCHANGED <<memory, status, waiting, handle>>
    BY DEF TestCaptures, StepThread
  <1>2. careful /\ t \notin disturbed =>
            /\ Read(t) # Junk
            /\ Denotes(Read(t)) = thread[t].given
            /\ Read(t).sized <=> thread[t].given.captures # None
    BY <1>1, ReadsItsArgument
  <1>3. CASE Read(t) = Junk
    <2>1. thread' = [thread EXCEPT ![t].state = "astray"]
      BY <1>3 DEF TestCaptures, GoAstray
    <2> QED
      BY <1>1, <1>2, <1>3, <2>1, StateKeeps DEF States
  <1>4. CASE Read(t) # Junk /\ (Read(t).data = None \/ ~Read(t).sized)
    <2>1. Run(t, None)
      BY <1>4 DEF TestCaptures
    <2>2. careful /\ t \notin disturbed => thread[t].given.captures = None
      BY <1>2, <1>4 DEF Denotes
    <2> QED
      BY <1>1, <2>1, <2>2, RunKeeps
  <1>5. CASE Read(t) # Junk /\ ~(Read(t).data = None \/ ~Read(t).sized)
    <2>1. thread' = [thread EXCEPT ![t].state = "copying"]
      BY <1>5 DEF TestCaptures
    <2> QED
      BY <1>1, <2>1, StateKeeps DEF States
  <1> QED
    BY <1>3, <1>4, <1>5

LEMMA CopyCapturesKeeps ==
    ASSUME IInv, NEW t \in Thread, CopyCaptures(t)
    PROVE  IInv'
  <1>1. thread[t].state = "copying" /\ UNCHANGED <<memory, status, waiting, handle>>
    BY DEF CopyCaptures, StepThread
  <1>2. careful /\ t \notin disturbed =>
            /\ Read(t) # Junk
            /\ Denotes(Read(t)) = thread[t].given
            /\ Read(t).sized <=> thread[t].given.captures # None
            /\ thread[t].given \in Meaning
    BY <1>1, ReadsItsArgument
  <1> DEFINE Lost == Read(t).data = None \/ heap[Read(t).data] \notin Captured
  <1>3. careful /\ t \notin disturbed /\ Read(t).sized =>
            ~Lost /\ heap[Read(t).data] = thread[t].given.captures
    BY <1>2 DEF Denotes, Meaning
  <1>4. CASE Read(t) = Junk \/ (Read(t).sized /\ Lost)
    <2>1. thread' = [thread EXCEPT ![t].state = "astray"]
      BY <1>4 DEF CopyCaptures, GoAstray
    <2> QED
      BY <1>1, <1>2, <1>3, <1>4, <2>1, StateKeeps DEF States
  <1>5. CASE Read(t) # Junk /\ ~Read(t).sized
    <2>1. Run(t, None)
      BY <1>5 DEF CopyCaptures
    <2>2. careful /\ t \notin disturbed => thread[t].given.captures = None
      BY <1>2, <1>5
    <2> QED
      BY <1>1, <2>1, <2>2, RunKeeps
  <1>6. CASE Read(t) # Junk /\ Read(t).sized /\ ~Lost
    <2>1. Run(t, heap[Read(t).data]) /\ heap[Read(t).data] \in Captured
      BY <1>6 DEF CopyCaptures
    <2> QED
      BY <1>1, <1>3, <1>6, <2>1, RunKeeps
  <1> QED
    BY <1>4, <1>5, <1>6

LEMMA EndThreadKeeps ==
    ASSUME IInv, NEW t \in Thread, EndThread(t)
    PROVE  IInv'
  BY StateKeeps DEF EndThread, StepThread, States

LEMMA NextKeeps ==
    ASSUME IInv, [Next]_vars
    PROVE  IInv'
  <1>1. ASSUME NEW t \in Thread, ThreadStep(t) PROVE IInv'
    BY <1>1, ReadFunctionKeeps, TestCapturesKeeps, CopyCapturesKeeps, EndThreadKeeps
    DEF ThreadStep
  <1>2. CASE CreatorStep
    <2>1. CASE \E o \in Object : \E n \in Named \union {None} :
                   DeclareNamed(o, n) \/ AssignNamed(o, n)
      BY <2>1, DeclareNamedKeeps, AssignNamedKeeps
    <2>2. CASE \E o \in Object : \E lambda \in Lambda, b \in Block :
                   DeclareLambda(o, lambda, b) \/ AssignLambda(o, lambda, b)
      BY <2>2, DeclareLambdaKeeps, AssignLambdaKeeps
    <2>3. CASE \E o \in Object, p \in Object :
                   AssignCopy(o, p) \/ \E b \in Block : DeclareCopy(o, p, b)
      BY <2>3, DeclareCopyKeeps, AssignCopyKeeps
    <2>4. CASE DestroyTemporary \/ DestroyLast \/ Leave \/ Return \/ FinishJoin
      BY <2>4, DestroyTemporaryKeeps, DestroyLastKeeps, LeaveKeeps, FinishJoinKeeps
    <2>5. CASE \E place \in Place : ReuseMemory(place)
      BY <2>5, ReuseMemoryKeeps
    <2>6. CASE \E t \in Thread :
                   \/ \E o \in Object : CreateThread(t, o)
                   \/ \E lambda \in Lambda, b \in Block : CreateThreadOnLambda(t, lambda, b)
                   \/ \E close \in BOOLEAN : JoinThread(t, close)
      BY <2>6, CreateThreadKeeps, CreateThreadOnLambdaKeeps, JoinThreadKeeps
    <2> QED
      BY <1>2, <2>1, <2>2, <2>3, <2>4, <2>5, <2>6 DEF CreatorStep
  <1>3. CASE UNCHANGED vars
    <2>1. UNCHANGED <<memory, status, waiting, thread, handle>>
      BY <1>3 DEF vars, memory
    <2>2. Types' /\ CreatorIsSound' /\ HandlesAreSound'
      BY <2>1, MemoryStays DEF IInv, Types, memory, CreatorIsSound, HandlesAreSound
    <2>3. careful' => ArgumentsAreKept'
      BY <2>1, MemoryStays DEF IInv, ArgumentsAreKept, ArgumentIsThere, HasRead, memory
    <2> QED
      BY <2>1, <2>2, <2>3, MemoryStays DEF IInv
  <1> QED
    BY <1>1, <1>2, <1>3 DEF Next

(* Every state that is reached satisfies the inductive invariant.          *)
THEOREM Invariant == Spec => []IInv
  BY InvInit, NextKeeps, PTL DEF Spec
-----------------------------------------------------------------------------
(* For any variables, threads and blocks: as long as no assignment drops or *)
(* doubles a block and no lambda without captures is copied, a variable     *)
(* stands for the function and the captures it was given, until it is       *)
(* destroyed (copyFunction and the destructors of LambdaCommands).          *)
THEOREM CapturesAreKept == Spec => []CarefulFunctionsKeepTheirCaptures
  <1>1. IInv => CarefulFunctionsKeepTheirCaptures
    BY DEF IInv, BlocksAreOwned, Owned, Held,
           CarefulFunctionsKeepTheirCaptures, FunctionsKeepTheirCaptures
  <1> QED
    BY <1>1, Invariant, PTL

(* Such a script frees no block twice, and a function that has returned has *)
(* given back all of them, however many variables and statements it has.   *)
THEOREM BlocksHaveOneOwner == Spec => []BlocksAreFreedOnce
  <1>1. IInv => BlocksAreFreedOnce
    BY DEF IInv, BlocksAreOwned, Held, BlocksAreFreedOnce
  <1> QED
    BY <1>1, Invariant, PTL

(* A thread whose argument the creator leaves alone until it has joined it  *)
(* runs the function and the captures of that argument, although it reads   *)
(* them late, in three steps between those of any number of other threads. *)
THEOREM ThreadsRunTheirArgument == Spec => []ThreadsRunWhatTheyWereGiven
  <1>1. IInv => ThreadsRunWhatTheyWereGiven
    BY DEF IInv, ArgumentsAreKept, HasRead, ThreadsRunWhatTheyWereGiven, RanAsGiven
  <1> QED
    BY <1>1, Invariant, PTL
=============================================================================
