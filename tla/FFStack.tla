------------------------------ MODULE FFStack ------------------------------
(***************************************************************************)
(* class template FFStack (FFStack.h): a fixed array with a top pointer.   *)
(* push_front refuses to grow past the array, pop_front only moves the     *)
(* pointer down and does not look where it goes, so a stack that is popped *)
(* while empty sinks below its array: "sunk" counts the slots it sank.     *)
(* Its first "sunk" items then lie before the array, in memory that is     *)
(* somebody else's: they are read back as they were written, and whose     *)
(* value each of them destroyed is for the owner of the stack to say.      *)
(***************************************************************************)
EXTENDS Integers, Sequences

CONSTANT Slots      \* the template parameter _stack_size

ASSUME SlotsAssumption == Slots \in Nat \ {0}

Stack(Item) == [items : Seq(Item), sunk : Nat]

EmptyStack == [items |-> <<>>, sunk |-> 0]

Size(s) == Len(s.items) - s.sunk

IsFull(s) == Size(s) >= Slots

Push(s, item) == [items |-> Append(s.items, item), sunk |-> s.sunk]

Pop(s) == IF s.items = <<>>
            THEN [items |-> <<>>, sunk |-> s.sunk + 1]
            ELSE [items |-> SubSeq(s.items, 1, Len(s.items) - 1), sunk |-> s.sunk]

Top(s) == s.items[Len(s.items)]

SetTop(s, item) ==
    [items |-> [s.items EXCEPT ![Len(s.items)] = item], sunk |-> s.sunk]
=============================================================================
