-------------------------- MODULE ScriptRunProofs --------------------------
(***************************************************************************)
(* For every memory, every set of scopes and calls and any number of slots *)
(* and runs: leaving undoes entering, on every way out, and a run gives    *)
(* the host back what it was given.                                        *)
(***************************************************************************)
EXTENDS ScriptRun, FiniteSetTheorems, WellFoundedInduction, TLAPS
-----------------------------------------------------------------------------
(* A set of natural numbers that is not empty has a least element: strict  *)
(* inclusion of the intervals 1..n is well-founded.                        *)
LEMMA Least ==
    ASSUME NEW T \in SUBSET Nat, T # {}
    PROVE  \E m \in T : \A k \in T : m <= k
  <1> DEFINE I == {1..n : n \in T}
  <1>1. IsWellFoundedOn(StrictSubsetOrdering(Nat), FiniteSubsetsOf(Nat))
    BY FS_StrictSubsetOrderingWellFounded
  <1>2. I \subseteq FiniteSubsetsOf(Nat)
    <2>1. \A n \in T : IsFiniteSet(1..n)
      BY FS_Interval
    <2> QED
      BY <2>1 DEF FiniteSubsetsOf
  <1>3. I # {}
    OBVIOUS
  <1>4. PICK x \in I : \A y \in I : ~(<<y, x>> \in StrictSubsetOrdering(Nat))
    <2> HIDE DEF I
    <2> QED
      BY <1>1, <1>2, <1>3, WFMin
  <1>5. PICK m \in T : x = 1..m
    OBVIOUS
  <1>6. ASSUME NEW k \in T, k < m
        PROVE  FALSE
    <2>1. 1..k \in I /\ x \in SUBSET Nat /\ 1..k \in SUBSET Nat
      BY <1>5
    <2>2. 1..k \subseteq 1..m /\ m \notin 1..k /\ m \in 1..m
      BY <1>6
    <2>3. <<1..k, x>> \in StrictSubsetOrdering(Nat)
      BY <2>1, <2>2, <1>5 DEF StrictSubsetOrdering
    <2> QED
      BY <2>3, <2>1, <1>4
  <1> QED
    BY <1>6

(* A set that has 0 and with n also n + 1 has every natural number.        *)
LEMMA Induct ==
    ASSUME NEW T, 0 \in T, \A n \in Nat : n \in T => n + 1 \in T
    PROVE  Nat \subseteq T
  <1> SUFFICES ASSUME Nat \ T # {} PROVE FALSE
    OBVIOUS
  <1>1. PICK m \in Nat \ T : \A k \in Nat \ T : m <= k
    BY Least
  <1>2. m # 0 /\ m - 1 \in Nat
    BY <1>1
  <1>3. m - 1 \in T
    BY <1>1, <1>2
  <1>4. (m - 1) + 1 = m
    BY <1>1
  <1> QED
    BY <1>1, <1>2, <1>3, <1>4

(* What grows, or stays, from each number to the next has not shrunk from  *)
(* one number to any later one.                                            *)
LEMMA Grows ==
    ASSUME NEW f, NEW n \in Nat, \A i \in 1..n : f[i] \in Int,
           \A i \in 1..n : i + 1 \in 1..n => f[i] <= f[i + 1],
           NEW i \in 1..n, NEW j \in 1..n, i <= j
    PROVE  f[i] <= f[j]
  <1> DEFINE T == {k \in Nat : i + k \in 1..n => f[i] <= f[i + k]}
  <1>1. 0 \in T
    <2>1. i + 0 = i
      OBVIOUS
    <2> QED
      BY <2>1
  <1>2. ASSUME NEW k \in Nat, k \in T
        PROVE  k + 1 \in T
    <2> SUFFICES ASSUME i + (k + 1) \in 1..n PROVE f[i] <= f[i + (k + 1)]
      OBVIOUS
    <2>1. i + k \in 1..n /\ (i + k) + 1 = i + (k + 1)
      OBVIOUS
    <2>2. f[i] <= f[i + k] /\ f[i + k] <= f[(i + k) + 1]
      BY <1>2, <2>1
    <2> QED
      BY <2>1, <2>2
  <1>3. Nat \subseteq T
    <2> HIDE DEF T
    <2> QED
      BY <1>1, <1>2, Induct
  <1>4. j - i \in Nat /\ i + (j - i) = j
    OBVIOUS
  <1> QED
    BY <1>3, <1>4
-----------------------------------------------------------------------------
(* What the methods of FFStack do to a stack that holds something, and each *)
(* method of Context to a context that runs; and that the methods that      *)
(* leave a function or a scope undo the ones that enter it.                 *)

(* A stack is never read below its array when an item was pushed before.   *)
Holds(s) == s.items # <<>>

(* push_front puts one item on top, and pop_front takes exactly it away.   *)
LEMMA PushPop ==
    ASSUME NEW Item, NEW s \in Stack(Item), NEW x \in Item
    PROVE  /\ Push(s, x) \in Stack(Item)
           /\ Holds(Push(s, x))
           /\ Top(Push(s, x)) = x
           /\ Pop(Push(s, x)) = s
           /\ Len(Push(s, x).items) = Len(s.items) + 1
           /\ Push(s, x).sunk = s.sunk
           /\ \A k \in 1..Len(s.items) : Push(s, x).items[k] = s.items[k]
  <1>1. /\ s = [items |-> s.items, sunk |-> s.sunk]
        /\ s.items \in Seq(Item) /\ s.sunk \in Nat
    BY DEF Stack
  <1>2. Push(s, x) = [items |-> Append(s.items, x), sunk |-> s.sunk]
    BY DEF Push, Stack
  <1>3. SubSeq(Append(s.items, x), 1, Len(s.items)) = s.items
    BY <1>1
  <1>4. /\ Append(s.items, x) \in Seq(Item)
        /\ Len(Append(s.items, x)) = Len(s.items) + 1
        /\ Append(s.items, x)[Len(s.items) + 1] = x
        /\ Append(s.items, x) # <<>>
        /\ \A k \in 1..Len(s.items) : Append(s.items, x)[k] = s.items[k]
    BY <1>1
  <1>5. Pop(Push(s, x)) = [items |-> SubSeq(Append(s.items, x), 1, Len(s.items)),
                           sunk |-> s.sunk]
    BY <1>1, <1>2, <1>4 DEF Pop, Stack
  <1>6. Push(s, x) \in Stack(Item)
    BY <1>1, <1>2, <1>4 DEF Stack
  <1>7. Holds(Push(s, x)) /\ Top(Push(s, x)) = x
    BY <1>2, <1>4 DEF Holds, Top
  <1>8. Pop(Push(s, x)) = s
    BY <1>1, <1>3, <1>5
  <1> QED
    BY <1>1, <1>2, <1>4, <1>6, <1>7, <1>8

(* Writing front() changes the top item and nothing else.                  *)
LEMMA SetTopOfStack ==
    ASSUME NEW Item, NEW s \in Stack(Item), NEW x \in Item, Holds(s)
    PROVE  /\ SetTop(s, x) \in Stack(Item)
           /\ Holds(SetTop(s, x))
           /\ Top(SetTop(s, x)) = x
           /\ Top(s) \in Item
           /\ SetTop(s, Top(s)) = s
           /\ \A y \in Item : SetTop(SetTop(s, x), y) = SetTop(s, y)
           /\ Len(SetTop(s, x).items) = Len(s.items)
           /\ SetTop(s, x).sunk = s.sunk
  <1>1. /\ s = [items |-> s.items, sunk |-> s.sunk]
        /\ s.items \in Seq(Item) /\ s.sunk \in Nat
        /\ Len(s.items) \in 1..Len(s.items)
    BY DEF Stack, Holds
  <1> DEFINE set(y) == [s.items EXCEPT ![Len(s.items)] = y]
  <1>2. \A y \in Item : SetTop(s, y) = [items |-> set(y), sunk |-> s.sunk]
    BY <1>1 DEF SetTop, Stack
  <1>3. \A y \in Item : /\ set(y) \in Seq(Item)
                        /\ Len(set(y)) = Len(s.items)
                        /\ set(y)[Len(s.items)] = y
    BY <1>1
  <1>4. \A y \in Item : [set(x) EXCEPT ![Len(s.items)] = y] = set(y)
    BY <1>1, <1>3
  <1>5. set(s.items[Len(s.items)]) = s.items
    BY <1>1
  <1>6. \A y \in Item : SetTop(SetTop(s, x), y) = [items |-> set(y), sunk |-> s.sunk]
    BY <1>1, <1>2, <1>3, <1>4 DEF SetTop, Stack
  <1>7. set(x) # <<>>
    BY <1>1, <1>3
  <1>8. s.items[Len(s.items)] \in Item
    BY <1>1
  <1>9. SetTop(s, x) \in Stack(Item)
    BY <1>1, <1>2, <1>3 DEF Stack
  <1>10. /\ Holds(SetTop(s, x)) /\ Top(SetTop(s, x)) = x
         /\ Len(SetTop(s, x).items) = Len(s.items)
         /\ SetTop(s, x).sunk = s.sunk
    BY <1>2, <1>3, <1>7 DEF Holds, Top
  <1>11. Top(s) \in Item /\ SetTop(s, Top(s)) = s
    BY <1>1, <1>2, <1>5, <1>8 DEF Top
  <1> QED
    BY <1>2, <1>6, <1>9, <1>10, <1>11

(* pop_front of any stack leaves a stack.                                  *)
LEMMA PopType ==
    ASSUME NEW Item, NEW s \in Stack(Item)
    PROVE  Pop(s) \in Stack(Item)
  BY DEF Pop, Stack
-----------------------------------------------------------------------------
(* A context that runs: nothing was raised and the host's cell is there.   *)
Live(m) == m \in Machine /\ ~ m.raised /\ Holds(m.allocated)

(* Every scope that was open in "low" is open in "m", in the same place,   *)
(* and the stack of scratch sizes begins in the same place.                *)
KeepsContexts(low, m) ==
    /\ m.codes.sunk = low.codes.sunk
    /\ m.contexts.sunk = low.contexts.sunk
    /\ Len(low.contexts.items) <= Len(m.contexts.items)
    /\ \A k \in 1..Len(low.contexts.items) : m.contexts.items[k] = low.contexts.items[k]
-----------------------------------------------------------------------------
(* The fields of a context have their types.                               *)
LEMMA MachineFields ==
    ASSUME NEW m \in Machine
    PROVE  /\ m.offset \in Nat
           /\ m.allocated \in Stack(Nat)
           /\ m.codes \in Stack(Nat)
           /\ m.contexts \in Stack(ContextInfo)
           /\ m.beforeJump \in Command
           /\ m.command \in Command
           /\ m.raised \in BOOLEAN
  BY DEF Machine

(* A context that raises keeps everything else.                            *)
LEMMA RaiseFields ==
    ASSUME NEW m \in Machine
    PROVE  /\ Raise(m) \in Machine
           /\ Raise(m).raised
           /\ Stacks(Raise(m)) = Stacks(m)
  BY DEF Raise, Machine, Stacks

(* scopeAllocate grows the cell and, unless it raises, pushes the scratch  *)
(* bytes.                                                                  *)
LEMMA ScopeAllocateFields ==
    ASSUME NEW m, Live(m), NEW data \in Nat, NEW code \in Nat
    PROVE  LET r == ScopeAllocate(m, data, code) IN
           /\ r \in Machine
           /\ r.allocated = SetTop(m.allocated, Top(m.allocated) + data)
           /\ Holds(r.allocated)
           /\ r.offset = m.offset
           /\ r.contexts = m.contexts
           /\ r.beforeJump = m.beforeJump
           /\ r.command = m.command
           /\ r.codes.sunk = m.codes.sunk
           /\ ~ r.raised => r.codes = Push(m.codes, code)
  <1> DEFINE cell == SetTop(m.allocated, Top(m.allocated) + data)
             grown == [m EXCEPT !.allocated = cell]
  <1>1. m \in Machine /\ ~ m.raised /\ m.allocated \in Stack(Nat) /\ m.codes \in Stack(Nat)
    BY MachineFields DEF Live
  <1>2. /\ Holds(m.allocated) /\ Top(m.allocated) \in Nat
        /\ cell \in Stack(Nat) /\ Holds(cell)
    <2>1. Holds(m.allocated) /\ Top(m.allocated) \in Nat
      BY <1>1, SetTopOfStack DEF Live
    <2>2. Top(m.allocated) + data \in Nat
      BY <2>1
    <2> QED
      BY <1>1, <2>1, <2>2, SetTopOfStack
  <1> HIDE DEF cell
  <1>3. /\ grown \in Machine /\ ~ grown.raised /\ grown.allocated = cell
        /\ grown.offset = m.offset /\ grown.contexts = m.contexts /\ grown.codes = m.codes
        /\ grown.beforeJump = m.beforeJump /\ grown.command = m.command
    BY <1>1, <1>2 DEF Machine
  <1> DEFINE pushed == [grown EXCEPT !.codes = Push(m.codes, code)]
  <1>4. /\ pushed \in Machine /\ pushed.allocated = cell
        /\ pushed.offset = m.offset /\ pushed.contexts = m.contexts
        /\ pushed.codes = Push(m.codes, code)
        /\ pushed.beforeJump = m.beforeJump /\ pushed.command = m.command
    <2>1. Push(m.codes, code) \in Stack(Nat)
      BY <1>1, PushPop
    <2> QED
      BY <1>3, <2>1 DEF Machine
  <1>5. /\ Raise(grown) \in Machine /\ Raise(grown).raised /\ Raise(grown).allocated = cell
        /\ Raise(grown).codes = m.codes
        /\ Raise(grown).offset = m.offset /\ Raise(grown).contexts = m.contexts
        /\ Raise(grown).beforeJump = m.beforeJump /\ Raise(grown).command = m.command
    BY <1>3 DEF Machine, Raise
  <1>6. ScopeAllocate(m, data, code) =
          IF FreeAt(grown) + code > Capacity \/ IsFull(m.codes) THEN Raise(grown) ELSE pushed
    BY <1>1, <1>3 DEF ScopeAllocate, Used, cell
  <1> HIDE DEF grown, pushed
  <1>7. Push(m.codes, code).sunk = m.codes.sunk
    BY DEF Push
  <1> QED
    BY <1>2, <1>4, <1>5, <1>6, <1>7 DEF cell

(* scopeUnallocate never raises; it takes the bytes off the cell and drops *)
(* the top scratch size.                                                   *)
LEMMA ScopeUnallocateFields ==
    ASSUME NEW m, Live(m), NEW data \in Nat, NEW code \in Nat
    PROVE  LET r == ScopeUnallocate(m, data, code) IN
           /\ Live(r)
           /\ r.allocated = SetTop(m.allocated, IF Top(m.allocated) < data THEN 0
                                                ELSE Top(m.allocated) - data)
           /\ r.codes = Pop(m.codes)
           /\ r.offset = m.offset
           /\ r.contexts = m.contexts
           /\ r.beforeJump = m.beforeJump
           /\ r.command = m.command
  <1> DEFINE left == IF Top(m.allocated) < data THEN 0 ELSE Top(m.allocated) - data
             cell == SetTop(m.allocated, left)
             codes == Pop(m.codes)
             r == [m EXCEPT !.allocated = cell, !.codes = codes]
  <1>1. m \in Machine /\ ~ m.raised /\ m.allocated \in Stack(Nat) /\ m.codes \in Stack(Nat)
    BY MachineFields DEF Live
  <1>2. Holds(m.allocated) /\ Top(m.allocated) \in Nat
    BY <1>1, SetTopOfStack DEF Live
  <1>3. left \in Nat
    BY <1>2
  <1>4. cell \in Stack(Nat) /\ Holds(cell)
    BY <1>1, <1>2, <1>3, SetTopOfStack
  <1>5. codes \in Stack(Nat)
    BY <1>1, PopType
  <1>6. ScopeUnallocate(m, data, code) = r
    BY <1>1 DEF ScopeUnallocate, Used
  <1>7. cell = SetTop(m.allocated, left) /\ codes = Pop(m.codes)
    OBVIOUS
  <1> HIDE DEF cell, codes
  <1>8. /\ r \in Machine /\ ~ r.raised /\ r.allocated = cell /\ r.codes = codes
        /\ r.offset = m.offset /\ r.contexts = m.contexts
        /\ r.beforeJump = m.beforeJump /\ r.command = m.command
    BY <1>1, <1>4, <1>5 DEF Machine
  <1> HIDE DEF r
  <1> QED
    BY <1>4, <1>6, <1>7, <1>8 DEF Live

(* pushScope counts the caller's scratch bytes in and, unless it raises,   *)
(* moves to the end of the caller's bytes and starts an empty cell.        *)
LEMMA PushScopeFields ==
    ASSUME NEW m, Live(m), Holds(m.codes)
    PROVE  LET used == Top(m.allocated) + Top(m.codes)
               r == PushScope(m)
           IN  /\ r \in Machine
               /\ Holds(r.allocated)
               /\ used \in Nat
               /\ r.offset = m.offset + used
               /\ r.codes = m.codes
               /\ r.contexts = m.contexts
               /\ r.beforeJump = m.beforeJump
               /\ r.command = m.command
               /\ ~ r.raised => r.allocated = Push(SetTop(m.allocated, used), 0)
  <1> DEFINE used == Top(m.allocated) + Top(m.codes)
             cell == SetTop(m.allocated, used)
             here == m.offset + used
             moved == [m EXCEPT !.allocated = cell, !.offset = here]
             cells == Push(cell, 0)
             pushed == [moved EXCEPT !.allocated = cells]
  <1>1. /\ m \in Machine /\ ~ m.raised /\ Holds(m.allocated) /\ m.offset \in Nat
        /\ m.allocated \in Stack(Nat) /\ m.codes \in Stack(Nat)
    BY MachineFields DEF Live
  <1>2. Top(m.allocated) \in Nat /\ Top(m.codes) \in Nat
    BY <1>1, SetTopOfStack
  <1>3. used \in Nat /\ here \in Nat
    BY <1>1, <1>2
  <1>4. /\ cell \in Stack(Nat) /\ Holds(cell) /\ cell = SetTop(m.allocated, used)
        /\ cells \in Stack(Nat) /\ Holds(cells)
        /\ here = m.offset + used /\ cells = Push(cell, 0)
    BY <1>1, <1>3, SetTopOfStack, PushPop
  <1>5. PushScope(m) = IF IsFull(m.allocated) THEN Raise(moved) ELSE pushed
    <2>1. moved.allocated = cell
      BY <1>1 DEF Machine
    <2>2. pushed = [moved EXCEPT !.allocated = Push(moved.allocated, 0)]
      BY <2>1
    <2> QED
      BY <1>1, <2>2 DEF PushScope, Used
  <1> HIDE DEF used, cell, here, cells
  <1>6. /\ moved \in Machine /\ moved.allocated = cell /\ moved.offset = here
        /\ ~ moved.raised /\ moved.codes = m.codes /\ moved.contexts = m.contexts
        /\ moved.beforeJump = m.beforeJump /\ moved.command = m.command
    BY <1>1, <1>3, <1>4 DEF Machine
  <1> HIDE DEF moved
  <1>7. /\ pushed \in Machine /\ pushed.allocated = cells /\ pushed.offset = here
        /\ pushed.codes = m.codes /\ pushed.contexts = m.contexts
        /\ pushed.beforeJump = m.beforeJump /\ pushed.command = m.command
    BY <1>4, <1>6 DEF Machine
  <1>8. /\ Raise(moved) \in Machine /\ Raise(moved).raised
        /\ Raise(moved).allocated = cell /\ Raise(moved).offset = here
        /\ Raise(moved).codes = m.codes /\ Raise(moved).contexts = m.contexts
        /\ Raise(moved).beforeJump = m.beforeJump /\ Raise(moved).command = m.command
    BY <1>6 DEF Machine, Raise
  <1> HIDE DEF pushed
  <1> QED
    BY <1>3, <1>4, <1>5, <1>7, <1>8 DEF used

(* popScope gives the caller back its cell and its offset, whatever the    *)
(* callee's cell holds by then.                                            *)
LEMMA PopScopeFields ==
    ASSUME NEW m, Live(m), Holds(m.codes),
           NEW caller \in Stack(Nat), Holds(caller), NEW offset \in Nat,
           m.allocated = Push(SetTop(caller, Top(caller) + Top(m.codes)), 0),
           m.offset = offset + (Top(caller) + Top(m.codes))
    PROVE  LET r == PopScope(m) IN
           /\ Live(r)
           /\ r.allocated = caller
           /\ r.offset = offset
           /\ r.codes = m.codes
           /\ r.contexts = m.contexts
           /\ r.beforeJump = m.beforeJump
           /\ r.command = m.command
  <1> DEFINE used == Top(caller) + Top(m.codes)
             cell == SetTop(caller, used)
             r == [m EXCEPT !.allocated = caller, !.offset = offset]
  <1>1. m \in Machine /\ ~ m.raised /\ m.codes \in Stack(Nat)
    BY MachineFields DEF Live
  <1>2. Top(m.codes) \in Nat /\ Top(caller) \in Nat /\ used \in Nat
    <2>1. Top(m.codes) \in Nat /\ Top(caller) \in Nat
      BY <1>1, SetTopOfStack
    <2> QED
      BY <2>1
  <1>3. cell \in Stack(Nat) /\ Top(cell) = used /\ SetTop(cell, Top(caller)) = caller
    <2> HIDE DEF used
    <2> QED
      BY <1>2, SetTopOfStack
  <1>4. Pop(m.allocated) = cell
    BY <1>3, PushPop
  <1>5. Top(cell) - Top(m.codes) = Top(caller) /\ m.offset - Top(cell) = offset
    BY <1>2, <1>3
  <1>6. PopScope(m) = [m EXCEPT !.allocated = SetTop(cell, Top(cell) - Top(m.codes)),
                                !.offset = m.offset - Top(cell)]
    BY <1>1, <1>4 DEF PopScope
  <1>7. PopScope(m) = r
    BY <1>3, <1>5, <1>6
  <1>8. /\ r \in Machine /\ ~ r.raised /\ r.allocated = caller /\ r.offset = offset
        /\ r.codes = m.codes /\ r.contexts = m.contexts
        /\ r.beforeJump = m.beforeJump /\ r.command = m.command
    BY <1>1 DEF Machine
  <1> QED
    BY <1>7, <1>8 DEF Live

(* pushContext remembers the command that jumped here.                     *)
LEMMA PushContextFields ==
    ASSUME NEW m, Live(m), NEW ctors \in Nat
    PROVE  LET r == PushContext(m, ctors) IN
           /\ r \in Machine
           /\ r.allocated = m.allocated
           /\ r.offset = m.offset
           /\ r.codes = m.codes
           /\ r.beforeJump = m.beforeJump
           /\ r.command = m.command
           /\ r.raised => r.contexts = m.contexts
           /\ ~ r.raised => r.contexts = Push(m.contexts,
                                   [command |-> m.beforeJump, ctors |-> ctors])
  <1> DEFINE info == [command |-> m.beforeJump, ctors |-> ctors]
             infos == Push(m.contexts, info)
             r == [m EXCEPT !.contexts = infos]
  <1>1. /\ m \in Machine /\ ~ m.raised /\ m.contexts \in Stack(ContextInfo)
        /\ m.beforeJump \in Command
    BY MachineFields DEF Live
  <1>2. info \in ContextInfo
    BY <1>1 DEF ContextInfo
  <1>3. infos \in Stack(ContextInfo) /\ infos = Push(m.contexts, info)
    BY <1>1, <1>2, PushPop
  <1>4. PushContext(m, ctors) = IF IsFull(m.contexts) THEN Raise(m) ELSE r
    BY <1>1 DEF PushContext
  <1> HIDE DEF infos
  <1>5. /\ r \in Machine /\ ~ r.raised /\ r.contexts = infos /\ r.allocated = m.allocated
        /\ r.offset = m.offset /\ r.codes = m.codes
        /\ r.beforeJump = m.beforeJump /\ r.command = m.command
    BY <1>1, <1>3 DEF Machine
  <1>6. /\ Raise(m) \in Machine /\ Raise(m).raised /\ Raise(m).contexts = m.contexts
        /\ Raise(m).allocated = m.allocated
        /\ Raise(m).offset = m.offset /\ Raise(m).codes = m.codes
        /\ Raise(m).beforeJump = m.beforeJump /\ Raise(m).command = m.command
    BY <1>1 DEF Machine, Raise
  <1> HIDE DEF r
  <1> QED
    BY <1>3, <1>4, <1>5, <1>6

(* popContext goes back to that command.                                   *)
LEMMA PopContextFields ==
    ASSUME NEW m, Live(m), NEW outer \in Stack(ContextInfo), NEW info \in ContextInfo,
           m.contexts = Push(outer, info)
    PROVE  LET r == PopContext(m) IN
           /\ Live(r)
           /\ r.contexts = outer
           /\ r.command = info.command
           /\ r.allocated = m.allocated
           /\ r.offset = m.offset
           /\ r.codes = m.codes
           /\ r.beforeJump = m.beforeJump
  <1> DEFINE r == [m EXCEPT !.command = info.command, !.contexts = outer]
  <1>1. m \in Machine /\ ~ m.raised /\ Holds(m.allocated)
    BY DEF Live
  <1>2. Top(m.contexts) = info /\ Pop(m.contexts) = outer
    BY PushPop
  <1>3. PopContext(m) = r
    BY <1>1, <1>2 DEF PopContext
  <1>4. info.command \in Command
    BY DEF ContextInfo
  <1>5. /\ r \in Machine /\ ~ r.raised /\ r.contexts = outer /\ r.command = info.command
        /\ r.allocated = m.allocated /\ r.offset = m.offset /\ r.codes = m.codes
        /\ r.beforeJump = m.beforeJump
    BY <1>1, <1>4 DEF Machine
  <1> QED
    BY <1>1, <1>3, <1>5 DEF Live

(* A checked access changes nothing but may raise; a jump moves the two    *)
(* command registers only.                                                 *)
LEMMA AccessFields ==
    ASSUME NEW m \in Machine, NEW at, NEW size
    PROVE  LET r == Access(m, at, size) IN
           /\ r \in Machine
           /\ Stacks(r) = Stacks(m)
           /\ r.beforeJump = m.beforeJump
           /\ r.command = m.command
           /\ m.raised => r.raised
  <1>1. Access(m, at, size) = m \/ Access(m, at, size) = Raise(m)
    BY DEF Access
  <1>2. /\ Raise(m) \in Machine /\ Raise(m).raised /\ Stacks(Raise(m)) = Stacks(m)
        /\ Raise(m).beforeJump = m.beforeJump /\ Raise(m).command = m.command
    BY DEF Machine, Raise, Stacks
  <1> QED
    BY <1>1, <1>2

LEMMA JumpFields ==
    ASSUME NEW m \in Machine, NEW target \in Command
    PROVE  LET r == Jump(m, target) IN
           /\ r \in Machine
           /\ Stacks(r) = Stacks(m)
           /\ r.raised = m.raised
           /\ ~ m.raised => r.beforeJump = m.command /\ r.command = target
  <1> DEFINE r == [m EXCEPT !.beforeJump = m.command, !.command = target]
  <1>1. /\ r \in Machine /\ r.raised = m.raised /\ Stacks(r) = Stacks(m)
        /\ r.beforeJump = m.command /\ r.command = target
    BY DEF Machine, Stacks
  <1>2. Jump(m, target) = IF m.raised THEN m ELSE r
    BY DEF Jump
  <1> HIDE DEF r
  <1> QED
    BY <1>1, <1>2
-----------------------------------------------------------------------------
(* Nothing is done on a context that has raised.                           *)
LEMMA RaisedStays ==
    ASSUME NEW m, m.raised
    PROVE  /\ \A scope : EnterContextScope(m, scope) = m
           /\ \A target : Jump(m, target) = m
           /\ \A at, size : Access(m, at, size) = m
  BY DEF EnterContextScope, PushContext, ScopeAllocate, Jump, Access

(* Pushing a context keeps those below.                                    *)
LEMMA PushKeepsContexts ==
    ASSUME NEW m \in Machine, NEW r, NEW info \in ContextInfo,
           r.contexts = m.contexts \/ r.contexts = Push(m.contexts, info),
           r.codes.sunk = m.codes.sunk
    PROVE  KeepsContexts(m, r)
  <1>1. m.contexts \in Stack(ContextInfo) /\ Len(m.contexts.items) \in Nat
    BY MachineFields DEF Stack
  <1> QED
    BY <1>1, PushPop DEF KeepsContexts

(* EnterContextScope reserves the variables of the scope and pushes its    *)
(* scratch bytes and its context.                                          *)
LEMMA EnterScopeFields ==
    ASSUME NEW m, Live(m), NEW scope \in ScopeInfo
    PROVE  LET r == EnterContextScope(m, scope) IN
           /\ r \in Machine
           /\ Holds(r.allocated)
           /\ KeepsContexts(m, r)
           /\ ~ r.raised =>
                /\ r.offset = m.offset
                /\ r.allocated = SetTop(m.allocated, Top(m.allocated) + scope.data)
                /\ r.codes = Push(m.codes, scope.code)
                /\ r.contexts = Push(m.contexts,
                                     [command |-> m.beforeJump, ctors |-> scope.ctors])
                /\ r.beforeJump = m.beforeJump
                /\ r.command = m.command
  <1> DEFINE p == PushContext(m, scope.ctors)
             r == ScopeAllocate(p, scope.data, scope.code)
             info == [command |-> m.beforeJump, ctors |-> scope.ctors]
  <1>1. m \in Machine /\ Holds(m.allocated) /\ ~ m.raised /\ m.beforeJump \in Command
    BY MachineFields DEF Live
  <1>2. scope.data \in Nat /\ scope.code \in Nat /\ scope.ctors \in Nat
    BY DEF ScopeInfo
  <1>3. info \in ContextInfo
    BY <1>1, <1>2 DEF ContextInfo
  <1>4. /\ p \in Machine /\ p.allocated = m.allocated /\ p.offset = m.offset
        /\ p.codes = m.codes /\ p.beforeJump = m.beforeJump /\ p.command = m.command
        /\ p.raised => p.contexts = m.contexts
        /\ ~ p.raised => p.contexts = Push(m.contexts, info)
    BY <1>2, PushContextFields
  <1>5. EnterContextScope(m, scope) = r
    BY DEF EnterContextScope
  <1> HIDE DEF p, info
  <1>6. CASE p.raised
    <2>1. r = p
      BY <1>6 DEF ScopeAllocate
    <2> QED
      BY <1>1, <1>3, <1>4, <1>5, <1>6, <2>1, PushKeepsContexts
  <1>7. CASE ~ p.raised
    <2>1. Live(p)
      BY <1>1, <1>4, <1>7 DEF Live
    <2>2. /\ r \in Machine /\ Holds(r.allocated) /\ r.offset = p.offset
          /\ r.allocated = SetTop(p.allocated, Top(p.allocated) + scope.data)
          /\ r.contexts = p.contexts /\ r.beforeJump = p.beforeJump /\ r.command = p.command
          /\ r.codes.sunk = p.codes.sunk
          /\ ~ r.raised => r.codes = Push(p.codes, scope.code)
      BY <1>2, <2>1, ScopeAllocateFields
    <2> HIDE DEF r
    <2>3. KeepsContexts(m, r)
      BY <1>1, <1>3, <1>4, <1>7, <2>2, PushKeepsContexts
    <2> QED
      BY <1>4, <1>5, <1>7, <2>2, <2>3 DEF info
  <1> QED
    BY <1>6, <1>7

(* CallScriptFuntion3 starts an empty cell where the caller's bytes end.   *)
LEMMA CallFields ==
    ASSUME NEW m, Live(m), Holds(m.codes), NEW call \in CallInfo
    PROVE  LET used == Top(m.allocated) + Top(m.codes)
               r == CallScriptFunction(m, call)
           IN  /\ r \in Machine
               /\ Holds(r.allocated)
               /\ KeepsContexts(m, r)
               /\ used \in Nat
               /\ ~ r.raised =>
                    /\ r.offset = m.offset + used
                    /\ r.allocated = Push(SetTop(m.allocated, used), 0)
                    /\ r.codes = m.codes
                    /\ r.contexts = m.contexts
                    /\ r.beforeJump = m.command
                    /\ r.command = call.target
  <1> DEFINE used == Top(m.allocated) + Top(m.codes)
             framed  == PushScope(m)
             written == Access(framed, ParamsAt(framed), call.params)
             jumped  == Jump(written, call.target)
             r == Access(jumped, ParamsAt(jumped) + call.params, call.captured)
  <1>1. m \in Machine /\ ~ m.raised /\ call.target \in Command
    BY DEF Live, CallInfo
  <1>2. /\ framed \in Machine /\ Holds(framed.allocated) /\ used \in Nat
        /\ framed.offset = m.offset + used /\ framed.codes = m.codes
        /\ framed.contexts = m.contexts /\ framed.command = m.command
        /\ ~ framed.raised => framed.allocated = Push(SetTop(m.allocated, used), 0)
    BY PushScopeFields
  <1> HIDE DEF framed, used
  <1>3. /\ written \in Machine /\ Stacks(written) = Stacks(framed)
        /\ written.command = framed.command /\ (framed.raised => written.raised)
    BY <1>2, AccessFields
  <1> HIDE DEF written
  <1>4. /\ jumped \in Machine /\ Stacks(jumped) = Stacks(written)
        /\ jumped.raised = written.raised
        /\ ~ jumped.raised => jumped.beforeJump = m.command /\ jumped.command = call.target
    BY <1>1, <1>2, <1>3, JumpFields
  <1> HIDE DEF jumped
  <1>5. /\ r \in Machine /\ Stacks(r) = Stacks(jumped)
        /\ r.beforeJump = jumped.beforeJump /\ r.command = jumped.command
        /\ (jumped.raised => r.raised)
    BY <1>4, AccessFields
  <1>6. CallScriptFunction(m, call) = r
    BY DEF CallScriptFunction, framed, written, jumped
  <1> HIDE DEF r
  <1>7. /\ r.offset = framed.offset /\ r.allocated = framed.allocated
        /\ r.codes = framed.codes /\ r.contexts = framed.contexts
    BY <1>3, <1>4, <1>5 DEF Stacks
  <1>8. KeepsContexts(m, r)
    <2>1. m.contexts \in Stack(ContextInfo)
      BY <1>1, MachineFields
    <2> QED
      BY <1>2, <1>7, <2>1 DEF KeepsContexts, Stack
  <1> QED
    BY <1>2, <1>3, <1>4, <1>5, <1>6, <1>7, <1>8 DEF used

(* BeforeConstructorCall keeps the owner's scratch bytes and opens a scope *)
(* with no variables that comes back to the current command.               *)
LEMMA BeginMembersFields ==
    ASSUME NEW m, Live(m), NEW ownerCode \in Nat, NEW code \in Nat
    PROVE  LET r == BeginMembers(m, ownerCode, code) IN
           /\ r \in Machine
           /\ Holds(r.allocated)
           /\ KeepsContexts(m, r)
           /\ ~ r.raised =>
                /\ r.offset = m.offset
                /\ r.allocated = SetTop(m.allocated, Top(m.allocated) + ownerCode)
                /\ r.codes = Push(Push(m.codes, 0), code)
                /\ r.contexts = Push(m.contexts, [command |-> m.command, ctors |-> 0])
  <1> DEFINE kept == ScopeAllocate(m, ownerCode, 0)
             checked == Access(kept, FreeAt(kept), Word)
             jumped == Jump(checked, NullCommand)
             scope == MembersScope(code)
             r == EnterContextScope(jumped, scope)
             cell == SetTop(m.allocated, Top(m.allocated) + ownerCode)
  <1>1. /\ m \in Machine /\ ~ m.raised /\ Holds(m.allocated) /\ m.allocated \in Stack(Nat)
        /\ m.contexts \in Stack(ContextInfo)
    BY MachineFields DEF Live
  <1>2. /\ kept \in Machine /\ kept.allocated = cell /\ Holds(kept.allocated)
        /\ kept.offset = m.offset /\ kept.contexts = m.contexts /\ kept.command = m.command
        /\ kept.codes.sunk = m.codes.sunk
        /\ ~ kept.raised => kept.codes = Push(m.codes, 0)
    BY ScopeAllocateFields
  <1> HIDE DEF kept
  <1>3. /\ checked \in Machine /\ Stacks(checked) = Stacks(kept)
        /\ checked.command = kept.command /\ (kept.raised => checked.raised)
    BY <1>2, AccessFields
  <1> HIDE DEF checked
  <1>4. /\ jumped \in Machine /\ Stacks(jumped) = Stacks(checked)
        /\ jumped.raised = checked.raised
        /\ ~ jumped.raised => jumped.beforeJump = m.command
    BY <1>2, <1>3, JumpFields, MemoryAssumption
  <1>5. /\ jumped.offset = m.offset /\ jumped.allocated = cell
        /\ jumped.contexts = m.contexts /\ Holds(jumped.allocated)
        /\ jumped.codes.sunk = m.codes.sunk
        /\ ~ jumped.raised => jumped.codes = Push(m.codes, 0)
    BY <1>2, <1>3, <1>4 DEF Stacks
  <1> HIDE DEF jumped
  <1>6. BeginMembers(m, ownerCode, code) = r
    BY DEF BeginMembers, kept, checked, jumped
  <1>7. KeepsContexts(m, jumped) /\ \A n : KeepsContexts(jumped, n) => KeepsContexts(m, n)
    BY <1>1, <1>5 DEF KeepsContexts, Stack
  <1>8. CASE jumped.raised
    <2>1. r = jumped
      BY <1>8, RaisedStays
    <2> QED
      BY <1>4, <1>5, <1>6, <1>7, <1>8, <2>1
  <1>9. CASE ~ jumped.raised
    <2>1. Live(jumped)
      BY <1>4, <1>5, <1>9 DEF Live
    <2>2. /\ scope \in ScopeInfo /\ scope.data = 0 /\ scope.code = code /\ scope.ctors = 0
      BY MemoryAssumption DEF MembersScope, ScopeInfo
    <2> HIDE DEF scope
    <2>3. /\ r \in Machine /\ Holds(r.allocated) /\ KeepsContexts(jumped, r)
          /\ ~ r.raised =>
                /\ r.offset = jumped.offset
                /\ r.allocated = SetTop(jumped.allocated, Top(jumped.allocated) + 0)
                /\ r.codes = Push(jumped.codes, code)
                /\ r.contexts = Push(jumped.contexts,
                                     [command |-> jumped.beforeJump, ctors |-> 0])
      BY <2>1, <2>2, EnterScopeFields
    <2> HIDE DEF r
    <2>4. SetTop(cell, Top(cell) + 0) = cell
      <3>1. Top(m.allocated) \in Nat
        BY <1>1, SetTopOfStack
      <3>2. Top(m.allocated) + ownerCode \in Nat
        BY <3>1
      <3>3. cell \in Stack(Nat) /\ Holds(cell)
        BY <1>1, <3>2, SetTopOfStack
      <3> HIDE DEF cell
      <3>4. Top(cell) \in Nat /\ SetTop(cell, Top(cell)) = cell
        BY <3>3, SetTopOfStack
      <3>5. Top(cell) + 0 = Top(cell)
        BY <3>4
      <3> QED
        BY <3>4, <3>5
    <2> QED
      BY <1>4, <1>5, <1>6, <1>7, <1>9, <2>3, <2>4
  <1> QED
    BY <1>8, <1>9
-----------------------------------------------------------------------------
(* The core of the matter: a context that has the stacks that entering     *)
(* made is brought back by leaving, although leaving only knows sizes.     *)

(* ScopeUnallocate after ScopeAllocate: the cell is back, the saturation   *)
(* never bites.                                                            *)
LEMMA UnallocateUndoes ==
    ASSUME NEW cells \in Stack(Nat), Holds(cells), NEW data \in Nat
    PROVE  LET grown == SetTop(cells, Top(cells) + data) IN
           SetTop(grown, IF Top(grown) < data THEN 0 ELSE Top(grown) - data) = cells
  <1> DEFINE used == Top(cells)
             grown == SetTop(cells, used + data)
  <1>1. used \in Nat
    BY SetTopOfStack
  <1>2. used + data \in Nat
    BY <1>1
  <1>3. Top(grown) = used + data /\ SetTop(grown, used) = cells
    BY <1>1, <1>2, SetTopOfStack
  <1>4. (IF Top(grown) < data THEN 0 ELSE Top(grown) - data) = used
    BY <1>1, <1>3
  <1> QED
    BY <1>3, <1>4

(* ExitContextScope undoes EnterContextScope and goes back to the command  *)
(* that jumped to the scope.                                               *)
LEMMA ExitUndoesEnter ==
    ASSUME NEW f, Live(f), NEW scope \in ScopeInfo,
           ~ EnterContextScope(f, scope).raised,
           NEW m, Live(m), Stacks(m) = Stacks(EnterContextScope(f, scope))
    PROVE  LET r == ExitContextScope(m, scope, TRUE) IN
           /\ Live(r)
           /\ Stacks(r) = Stacks(f)
           /\ r.command = f.beforeJump
  <1> DEFINE u == ScopeUnallocate(m, scope.data, scope.code)
             info == [command |-> f.beforeJump, ctors |-> scope.ctors]
             r == PopContext(u)
  <1>1. /\ f \in Machine /\ f.allocated \in Stack(Nat) /\ f.codes \in Stack(Nat)
        /\ f.contexts \in Stack(ContextInfo) /\ f.beforeJump \in Command
        /\ Holds(f.allocated)
    BY MachineFields DEF Live
  <1>2. scope.data \in Nat /\ scope.code \in Nat /\ scope.ctors \in Nat
    BY DEF ScopeInfo
  <1>3. info \in ContextInfo
    BY <1>1, <1>2 DEF ContextInfo
  <1>4. /\ m.offset = f.offset
        /\ m.allocated = SetTop(f.allocated, Top(f.allocated) + scope.data)
        /\ m.codes = Push(f.codes, scope.code)
        /\ m.contexts = Push(f.contexts, info)
    BY EnterScopeFields DEF Stacks
  <1>5. /\ Live(u)
        /\ u.allocated = SetTop(m.allocated, IF Top(m.allocated) < scope.data THEN 0
                                             ELSE Top(m.allocated) - scope.data)
        /\ u.codes = Pop(m.codes) /\ u.offset = m.offset /\ u.contexts = m.contexts
    BY <1>2, ScopeUnallocateFields
  <1> HIDE DEF u
  <1>6. u.allocated = f.allocated
    BY <1>1, <1>2, <1>4, <1>5, UnallocateUndoes
  <1>7. u.codes = f.codes
    BY <1>1, <1>2, <1>4, <1>5, PushPop
  <1>8. /\ Live(r) /\ r.contexts = f.contexts /\ r.command = info.command
        /\ r.allocated = u.allocated /\ r.offset = u.offset /\ r.codes = u.codes
    BY <1>1, <1>3, <1>4, <1>5, PopContextFields
  <1>9. ExitContextScope(m, scope, TRUE) = r
    BY DEF ExitContextScope, u
  <1> HIDE DEF r
  <1> QED
    BY <1>4, <1>5, <1>6, <1>7, <1>8, <1>9 DEF Stacks

(* popScope undoes CallScriptFuntion3.                                     *)
LEMMA PopScopeUndoesCall ==
    ASSUME NEW f, Live(f), Holds(f.codes), NEW call \in CallInfo,
           ~ CallScriptFunction(f, call).raised,
           NEW m, Live(m), Stacks(m) = Stacks(CallScriptFunction(f, call))
    PROVE  LET r == PopScope(m) IN
           /\ Live(r)
           /\ Stacks(r) = Stacks(f)
           /\ r.command = m.command
  <1>1. /\ f \in Machine /\ f.allocated \in Stack(Nat) /\ Holds(f.allocated)
        /\ f.offset \in Nat
    BY MachineFields DEF Live
  <1>2. /\ m.offset = f.offset + (Top(f.allocated) + Top(f.codes))
        /\ m.allocated = Push(SetTop(f.allocated, Top(f.allocated) + Top(f.codes)), 0)
        /\ m.codes = f.codes /\ m.contexts = f.contexts
    BY CallFields DEF Stacks
  <1> QED
    BY <1>1, <1>2, PopScopeFields DEF Stacks

(* The end of the member constructions undoes their beginning.             *)
LEMMA EndUndoesBegin ==
    ASSUME NEW f, Live(f), NEW ownerCode \in Nat, NEW code \in Nat,
           ~ BeginMembers(f, ownerCode, code).raised,
           NEW m, Live(m), Stacks(m) = Stacks(BeginMembers(f, ownerCode, code))
    PROVE  LET r == EndMembers(m, ownerCode, code) IN
           /\ Live(r)
           /\ Stacks(r) = Stacks(f)
           /\ r.command = f.command
  <1> DEFINE scope == MembersScope(code)
             info == [command |-> f.command, ctors |-> 0]
             u == ScopeUnallocate(m, scope.data, scope.code)
             x == PopContext(u)
             r == ScopeUnallocate(x, ownerCode, 0)
             cell == SetTop(f.allocated, Top(f.allocated) + ownerCode)
  <1>1. /\ f \in Machine /\ f.allocated \in Stack(Nat) /\ f.codes \in Stack(Nat)
        /\ f.contexts \in Stack(ContextInfo) /\ f.command \in Command
        /\ Holds(f.allocated)
    BY MachineFields DEF Live
  <1>2. scope.data = 0 /\ scope.code = code /\ info \in ContextInfo
    BY <1>1 DEF MembersScope, ContextInfo
  <1> HIDE DEF scope
  <1>3. /\ m.offset = f.offset /\ m.allocated = cell
        /\ m.codes = Push(Push(f.codes, 0), code) /\ m.contexts = Push(f.contexts, info)
    BY BeginMembersFields DEF Stacks
  <1>4. Push(f.codes, 0) \in Stack(Nat)
    BY <1>1, PushPop
  <1>5. cell \in Stack(Nat) /\ Holds(cell) /\ Top(cell) \in Nat /\ SetTop(cell, Top(cell)) = cell
    <2>1. Top(f.allocated) \in Nat
      BY <1>1, SetTopOfStack
    <2>2. Top(f.allocated) + ownerCode \in Nat
      BY <2>1
    <2>3. cell \in Stack(Nat) /\ Holds(cell)
      BY <1>1, <2>2, SetTopOfStack
    <2> HIDE DEF cell
    <2> QED
      BY <2>3, SetTopOfStack
  <1>6. /\ Live(u) /\ u.offset = m.offset /\ u.contexts = m.contexts
        /\ u.codes = Push(f.codes, 0)
        /\ u.allocated = SetTop(m.allocated, IF Top(m.allocated) < 0 THEN 0
                                             ELSE Top(m.allocated) - 0)
    <2> DEFINE v == ScopeUnallocate(m, 0, code)
    <2>0. 0 \in Nat
      OBVIOUS
    <2>1. /\ Live(v) /\ v.offset = m.offset /\ v.contexts = m.contexts
          /\ v.codes = Pop(m.codes)
          /\ v.allocated = SetTop(m.allocated, IF Top(m.allocated) < 0 THEN 0
                                               ELSE Top(m.allocated) - 0)
      BY <2>0, ScopeUnallocateFields
    <2>2. /\ Live(u) /\ u.offset = m.offset /\ u.contexts = m.contexts
          /\ u.codes = Pop(m.codes)
          /\ u.allocated = SetTop(m.allocated, IF Top(m.allocated) < 0 THEN 0
                                               ELSE Top(m.allocated) - 0)
      <3>1. u = v
        BY <1>2
      <3> HIDE DEF u, v
      <3> QED
        BY <2>1, <3>1
    <2> HIDE DEF u, v
    <2>3. Pop(m.codes) = Push(f.codes, 0)
      BY <1>3, <1>4, PushPop
    <2>4. u.codes = Push(f.codes, 0)
      BY <2>2, <2>3
    <2> QED
      BY <2>2, <2>4
  <1> HIDE DEF u
  <1>7. u.allocated = cell
    <2>1. (IF Top(cell) < 0 THEN 0 ELSE Top(cell) - 0) = Top(cell)
      BY <1>5
    <2> QED
      BY <1>3, <1>5, <1>6, <2>1
  <1>8. /\ Live(x) /\ x.contexts = f.contexts /\ x.command = f.command
        /\ x.allocated = cell /\ x.offset = f.offset /\ x.codes = Push(f.codes, 0)
    BY <1>1, <1>2, <1>3, <1>6, <1>7, PopContextFields
  <1> HIDE DEF x
  <1>9. /\ Live(r) /\ r.offset = f.offset /\ r.contexts = f.contexts /\ r.command = f.command
        /\ r.codes = Pop(Push(f.codes, 0))
        /\ r.allocated = SetTop(cell, IF Top(cell) < ownerCode THEN 0
                                      ELSE Top(cell) - ownerCode)
    BY <1>8, ScopeUnallocateFields
  <1>10. r.codes = f.codes /\ r.allocated = f.allocated
    BY <1>1, <1>9, PushPop, UnallocateUndoes
  <1>11. EndMembers(m, ownerCode, code) = r
    BY DEF EndMembers, ExitContextScope, scope, u, x
  <1> HIDE DEF r
  <1> QED
    BY <1>9, <1>10, <1>11 DEF Stacks
-----------------------------------------------------------------------------
(* What is entered without raising lies inside the memory, its scratch     *)
(* bytes included.                                                         *)
LEMMA AllocateFits ==
    ASSUME NEW m, Live(m), NEW data \in Nat, NEW code \in Nat,
           ~ ScopeAllocate(m, data, code).raised
    PROVE  FreeAt(m) + data + code <= Capacity
  <1> DEFINE cell == SetTop(m.allocated, Top(m.allocated) + data)
             grown == [m EXCEPT !.allocated = cell]
  <1>1. m \in Machine /\ ~ m.raised /\ m.allocated \in Stack(Nat) /\ m.offset \in Nat
    BY MachineFields DEF Live
  <1>2. Top(m.allocated) \in Nat
    BY <1>1, SetTopOfStack DEF Live
  <1>3. Top(m.allocated) + data \in Nat
    BY <1>2
  <1>4. Top(cell) = Top(m.allocated) + data
    BY <1>1, <1>3, SetTopOfStack DEF Live
  <1> HIDE DEF cell
  <1>5. grown.allocated = cell /\ grown.offset = m.offset /\ Raise(grown).raised
    BY <1>1 DEF Machine, Raise
  <1>6. FreeAt(grown) + code > Capacity => ScopeAllocate(m, data, code) = Raise(grown)
    BY <1>1 DEF ScopeAllocate, Used, cell
  <1>7. FreeAt(grown) = m.offset + (Top(m.allocated) + data)
    BY <1>4, <1>5 DEF FreeAt, Used
  <1> HIDE DEF grown
  <1>8. ~ (m.offset + (Top(m.allocated) + data) + code > Capacity)
    BY <1>5, <1>6, <1>7
  <1> QED
    BY <1>1, <1>2, <1>8, MemoryAssumption DEF FreeAt, Used

LEMMA EnterFits ==
    ASSUME NEW m, Live(m), NEW scope \in ScopeInfo, ~ EnterContextScope(m, scope).raised
    PROVE  FreeAt(m) + scope.data + scope.code <= Capacity
  <1> DEFINE p == PushContext(m, scope.ctors)
  <1>1. scope.data \in Nat /\ scope.code \in Nat /\ scope.ctors \in Nat
    BY DEF ScopeInfo
  <1>2. p \in Machine /\ p.allocated = m.allocated /\ p.offset = m.offset
    BY <1>1, PushContextFields
  <1>3. EnterContextScope(m, scope) = ScopeAllocate(p, scope.data, scope.code)
    BY DEF EnterContextScope
  <1> HIDE DEF p
  <1>4. ~ p.raised
    BY <1>3 DEF ScopeAllocate
  <1>5. Live(p) /\ FreeAt(p) = FreeAt(m)
    BY <1>2, <1>4 DEF Live, FreeAt, Used
  <1> QED
    BY <1>1, <1>3, <1>5, AllocateFits

LEMMA BeginMembersFits ==
    ASSUME NEW m, Live(m), NEW ownerCode \in Nat, NEW code \in Nat,
           ~ BeginMembers(m, ownerCode, code).raised
    PROVE  FreeAt(m) + ownerCode + code <= Capacity
  <1> DEFINE kept == ScopeAllocate(m, ownerCode, 0)
             checked == Access(kept, FreeAt(kept), Word)
             jumped == Jump(checked, NullCommand)
             scope == MembersScope(code)
             cell == SetTop(m.allocated, Top(m.allocated) + ownerCode)
  <1>1. m.allocated \in Stack(Nat) /\ Holds(m.allocated) /\ m.offset \in Nat
    BY MachineFields DEF Live
  <1>2. Top(m.allocated) \in Nat /\ Top(m.allocated) + ownerCode \in Nat
    <2>1. Top(m.allocated) \in Nat
      BY <1>1, SetTopOfStack
    <2> QED
      BY <2>1
  <1>3. Top(cell) = Top(m.allocated) + ownerCode /\ Holds(cell)
    BY <1>1, <1>2, SetTopOfStack
  <1>4. kept \in Machine /\ kept.allocated = cell /\ kept.offset = m.offset
    BY ScopeAllocateFields
  <1> HIDE DEF kept, cell
  <1>5. checked \in Machine /\ Stacks(checked) = Stacks(kept)
    BY <1>4, AccessFields
  <1> HIDE DEF checked
  <1>6. jumped \in Machine /\ Stacks(jumped) = Stacks(checked)
    BY <1>5, JumpFields, MemoryAssumption
  <1> HIDE DEF jumped
  <1>7. BeginMembers(m, ownerCode, code) = EnterContextScope(jumped, scope)
    BY DEF BeginMembers, kept, checked, jumped
  <1>8. ~ jumped.raised
    BY <1>7, RaisedStays
  <1>9. jumped.allocated = cell /\ jumped.offset = m.offset /\ Live(jumped)
    BY <1>3, <1>4, <1>5, <1>6, <1>8 DEF Stacks, Live
  <1>10. scope \in ScopeInfo /\ scope.data = 0 /\ scope.code = code
    BY MemoryAssumption DEF MembersScope, ScopeInfo
  <1> HIDE DEF scope
  <1>11. FreeAt(jumped) + 0 + code <= Capacity
    BY <1>7, <1>9, <1>10, EnterFits
  <1> QED
    BY <1>1, <1>2, <1>3, <1>9, <1>11 DEF FreeAt, Used

(* A call that does not raise has found the memory for the callee's frame.  *)
LEMMA CallFits ==
    ASSUME NEW m, Live(m), Holds(m.codes), NEW call \in CallInfo,
           ~ CallScriptFunction(m, call).raised
    PROVE  FreeAt(m) + Top(m.codes) <= Capacity
  <1> DEFINE framed  == PushScope(m)
             at == ParamsAt(framed)
             written == Access(framed, at, call.params)
             jumped  == Jump(written, call.target)
             used == Top(m.allocated) + Top(m.codes)
  <1>1. CallScriptFunction(m, call) = Access(jumped, ParamsAt(jumped) + call.params, call.captured)
    BY DEF CallScriptFunction
  <1>2. /\ m.offset \in Nat /\ Top(m.allocated) \in Nat /\ Top(m.codes) \in Nat
        /\ m.allocated \in Stack(Nat) /\ m.codes \in Stack(Nat)
    <2>1. m.offset \in Nat /\ m.allocated \in Stack(Nat) /\ m.codes \in Stack(Nat)
      BY MachineFields DEF Live
    <2> QED
      BY <2>1, SetTopOfStack DEF Live
  <1>3. framed \in Machine /\ framed.offset = m.offset + used
    BY PushScopeFields
  <1> HIDE DEF framed
  <1>4. ~ framed.raised => at = m.offset + used + 2 * Word
    BY <1>3 DEF ParamsAt
  <1>5. ~ written.raised
    <2> HIDE DEF written
    <2> QED
      BY <1>1, RaisedStays
  <1>6. ~ framed.raised /\ ~ at + call.params > Capacity
    <2>1. Raise(framed).raised
      BY <1>3, RaiseFields
    <2> QED
      BY <1>5, <2>1 DEF Access
  <1>7. call.params \in Nat /\ Word \in Nat /\ Capacity \in Nat
    BY MemoryAssumption DEF CallInfo
  <1>8. m.offset + used + 2 * Word + call.params <= Capacity
    <2> HIDE DEF at
    <2> QED
      BY <1>2, <1>4, <1>6, <1>7
  <1> QED
    BY <1>2, <1>7, <1>8 DEF FreeAt, Used

-----------------------------------------------------------------------------
(* Runs of a script.                                                        *)

(* Entries that differ in the way out only.                                *)
SameEntry(e, f) ==
    e.kind = f.kind /\ e.scope = f.scope /\ e.call = f.call /\ e.from = f.from

(* What is known of each entry: it was entered without raising, from a     *)
(* context that runs inside a function or the host's call, and above the   *)
(* scopes the host had.                                                    *)
GoodEntry(base, e) ==
    /\ Live(e.from)
    /\ Holds(e.from.codes)
    /\ KeepsContexts(base, e.from)
    /\ ~ Entered(e).raised

(* A call is followed by the scope of the called function, which was jumped*)
(* to from the call; nothing else follows a call, and the host's call is   *)
(* first.  A construction of members keeps the scratch bytes of the scope  *)
(* before it.                                                              *)
WellOrdered(entries) ==
    \A i \in 1..Len(entries) :
        /\ i = 1 => entries[i].kind = "call"
        /\ entries[i].kind = "function" =>
              /\ i > 1 /\ entries[i - 1].kind = "call"
              /\ entries[i].from.beforeJump = entries[i - 1].from.command
        /\ entries[i].kind # "function" /\ i > 1 => entries[i - 1].kind # "call"
        /\ entries[i].kind = "members" => entries[i].scope.data = entries[i - 1].scope.code

GoodEntries(base, entries) ==
    /\ \A i \in 1..Len(entries) : GoodEntry(base, entries[i])
    /\ WellOrdered(entries)

(* A context sinks with each run of a task but the first on it.            *)
Sunk(m, owner, count) ==
    m.codes.sunk = 0 \/ (owner = "task" /\ m.codes.sunk < count)

(* What is known of the host's call.                                       *)
GoodRun ==
    /\ Live(run.found) /\ Live(run.before) /\ Live(run.ready)
    /\ run.before = IF run.again THEN ScopeUnallocate(run.found, 0, 0) ELSE run.found
    /\ run.ready = PrepareCall(run.before, run.call)
    /\ run.found.offset = 0
    /\ Sunk(run.ready, host, runs)
    /\ run.again \/ run.ready.codes.sunk = 0

(* The inductive invariant.  LastInFirstOut alone is not inductive: that   *)
(* leaving undoes entering needs that nothing raised on the way in, that   *)
(* the scratch sizes are there to be taken off, and that the command a     *)
(* function returns to is the one that called it.  How far the stack of    *)
(* scratch sizes has sunk is what the runs of a task before this one say.  *)
IInv ==
    /\ TypeOK
    /\ LastInFirstOut
    /\ GoodEntries(run.ready, pending)
    /\ Holds(ctx.allocated)
    /\ phase = "idle" => ctx.offset = 0 /\ Sunk(ctx, host, runs)
    /\ phase # "idle" => GoodRun /\ KeepsContexts(run.ready, ctx)
    /\ phase \in {"ready", "script", "returned"} => Holds(ctx.codes)
    /\ phase = "script" /\ Inner.kind = "call" => ctx.beforeJump = Inner.from.command
-----------------------------------------------------------------------------
(* Only the stacks of a context and the raised flag matter to what follows.*)
LEMMA ChainedAppend ==
    ASSUME NEW base, NEW entries \in Seq(Entry), NEW m, NEW e \in Entry,
           Chained(base, entries, m), Stacks(e.from) = Stacks(m)
    PROVE  Chained(base, Append(entries, e), Entered(e))
  <1> DEFINE longer == Append(entries, e)
             n == Len(entries)
  <1>1. /\ n \in Nat /\ Len(longer) = n + 1 /\ longer[n + 1] = e
        /\ \A i \in 1..n : longer[i] = entries[i]
    OBVIOUS
  <1> HIDE DEF longer
  <1>2. \A i \in 1..n : Before(longer, Entered(e), i) = Before(entries, m, i)
    BY <1>1 DEF Before
  <1>3. Stacks(Before(longer, Entered(e), n + 1)) = Stacks(Before(entries, m, n + 1))
    BY <1>1 DEF Before
  <1>4. Before(longer, Entered(e), n + 2) = Entered(e)
    BY <1>1 DEF Before
  <1>5. Stacks(Before(longer, Entered(e), 1)) = Stacks(base)
    BY <1>1, <1>2, <1>3 DEF Chained
  <1>6. ASSUME NEW i \in 1..(n + 1)
        PROVE  Stacks(Before(longer, Entered(e), i + 1)) = Stacks(Entered(longer[i]))
    <2>1. CASE i = n + 1
      BY <1>1, <1>4, <2>1
    <2>2. CASE i \in 1..n
      <3>1. Stacks(Before(entries, m, i + 1)) = Stacks(Entered(entries[i]))
        BY <2>2 DEF Chained
      <3>2. i + 1 \in 1..n \/ i + 1 = n + 1
        BY <1>1, <2>2
      <3> QED
        BY <1>1, <1>2, <1>3, <2>2, <3>1, <3>2
    <2> QED
      BY <1>1, <2>1, <2>2
  <1> QED
    BY <1>1, <1>5, <1>6 DEF Chained, longer

(* Leaving the innermost entries, down to the context they began from.     *)
LEMMA ChainedPrefix ==
    ASSUME NEW base, NEW entries \in Seq(Entry), NEW m, Chained(base, entries, m),
           NEW k \in 0..Len(entries), NEW rest \in Seq(Entry), Len(rest) = k,
           \A i \in 1..k : SameEntry(rest[i], entries[i]),
           NEW left, Stacks(left) = Stacks(Before(entries, m, k + 1))
    PROVE  Chained(base, rest, left)
  <1>1. \A i \in 1..k : /\ rest[i].from = entries[i].from
                        /\ Entered(rest[i]) = Entered(entries[i])
    BY DEF SameEntry, Entered
  <1>2. \A i \in 1..(k + 1) :
          Stacks(Before(rest, left, i)) = Stacks(Before(entries, m, i))
    BY <1>1 DEF Before
  <1> QED
    BY <1>1, <1>2 DEF Chained

LEMMA KeepsTransitive ==
    ASSUME NEW a, NEW b, NEW c, KeepsContexts(a, b), KeepsContexts(b, c),
           a.contexts \in Stack(ContextInfo), b.contexts \in Stack(ContextInfo),
           c.contexts \in Stack(ContextInfo)
    PROVE  KeepsContexts(a, c)
  BY DEF KeepsContexts, Stack

(* What any of the ways in leaves behind.                                  *)
LEMMA EnteredFields ==
    ASSUME NEW e \in Entry, Live(e.from), Holds(e.from.codes)
    PROVE  /\ Entered(e) \in Machine
           /\ Holds(Entered(e).allocated)
           /\ KeepsContexts(e.from, Entered(e))
           /\ ~ Entered(e).raised => Holds(Entered(e).codes)
           /\ ~ Entered(e).raised /\ e.kind = "call" =>
                 Entered(e).beforeJump = e.from.command
  <1> DEFINE f == e.from
  <1>1. /\ f \in Machine /\ f.codes \in Stack(Nat) /\ e.scope \in ScopeInfo
        /\ e.call \in CallInfo /\ e.scope.data \in Nat /\ e.scope.code \in Nat
    BY MachineFields DEF Entry, Live, ScopeInfo
  <1>2. /\ Push(f.codes, 0) \in Stack(Nat)
        /\ \A k \in Nat : Holds(Push(f.codes, k)) /\ Holds(Push(Push(f.codes, 0), k))
    BY <1>1, PushPop
  <1>3. CASE e.kind = "call"
    <2>1. Entered(e) = CallScriptFunction(f, e.call)
      BY <1>3 DEF Entered
    <2> QED
      BY <1>1, <1>3, <2>1, CallFields
  <1>4. CASE e.kind = "members"
    <2>1. Entered(e) = BeginMembers(f, e.scope.data, e.scope.code)
      BY <1>4 DEF Entered
    <2> DEFINE r == BeginMembers(f, e.scope.data, e.scope.code)
    <2>2. /\ r \in Machine /\ Holds(r.allocated) /\ KeepsContexts(f, r)
          /\ ~ r.raised => r.codes = Push(Push(f.codes, 0), e.scope.code)
      BY <1>1, BeginMembersFields
    <2> HIDE DEF r
    <2>3. Holds(Push(Push(f.codes, 0), e.scope.code))
      BY <1>1, <1>2
    <2> QED
      BY <1>4, <2>1, <2>2, <2>3 DEF r
  <1>5. CASE e.kind \notin {"call", "members"}
    <2>1. Entered(e) = EnterContextScope(f, e.scope)
      BY <1>5 DEF Entered
    <2> DEFINE r == EnterContextScope(f, e.scope)
    <2>2. /\ r \in Machine /\ Holds(r.allocated) /\ KeepsContexts(f, r)
          /\ ~ r.raised => r.codes = Push(f.codes, e.scope.code)
      BY <1>1, EnterScopeFields
    <2> HIDE DEF r
    <2>3. Holds(Push(f.codes, e.scope.code))
      BY <1>1, <1>2
    <2> QED
      BY <1>5, <2>1, <2>2, <2>3 DEF r
  <1> QED
    BY <1>3, <1>4, <1>5

LEMMA GoodAppend ==
    ASSUME NEW base, NEW entries \in Seq(Entry), GoodEntries(base, entries),
           NEW e, GoodEntry(base, e),
           entries = <<>> => e.kind = "call",
           entries # <<>> => (e.kind = "function" <=> entries[Len(entries)].kind = "call"),
           e.kind = "function" => e.from.beforeJump = entries[Len(entries)].from.command,
           e.kind = "members" => e.scope.data = entries[Len(entries)].scope.code
    PROVE  GoodEntries(base, Append(entries, e))
  <1> DEFINE longer == Append(entries, e)
             n == Len(entries)
  <1>1. /\ n \in Nat /\ Len(longer) = n + 1 /\ longer[n + 1] = e
        /\ \A i \in 1..n : longer[i] = entries[i]
        /\ (n = 0 <=> entries = <<>>)
    OBVIOUS
  <1> HIDE DEF longer
  <1>2. \A i \in 1..Len(longer) : GoodEntry(base, longer[i])
    BY <1>1 DEF GoodEntries
  <1>3. ASSUME NEW i \in 1..Len(longer)
        PROVE  /\ i = 1 => longer[i].kind = "call"
               /\ longer[i].kind = "function" =>
                     /\ i > 1 /\ longer[i - 1].kind = "call"
                     /\ longer[i].from.beforeJump = longer[i - 1].from.command
               /\ longer[i].kind # "function" /\ i > 1 => longer[i - 1].kind # "call"
               /\ longer[i].kind = "members" => longer[i].scope.data = longer[i - 1].scope.code
    <2>1. CASE i \in 1..n
      <3>1. i > 1 => i - 1 \in 1..n
        BY <2>1
      <3> QED
        BY <1>1, <2>1, <3>1 DEF GoodEntries, WellOrdered
    <2>2. CASE i = n + 1
      <3>1. n > 0 => longer[i - 1] = entries[n]
        BY <1>1, <2>2
      <3>2. CASE n = 0
        BY <1>1, <2>2, <3>2
      <3>3. CASE n > 0
        BY <1>1, <2>2, <3>1, <3>3
      <3> QED
        BY <1>1, <3>2, <3>3
    <2> QED
      BY <1>1, <2>1, <2>2
  <1> QED
    BY <1>2, <1>3 DEF GoodEntries, WellOrdered, longer

LEMMA GoodPrefix ==
    ASSUME NEW base, NEW entries \in Seq(Entry), GoodEntries(base, entries),
           NEW k \in 0..Len(entries), NEW rest \in Seq(Entry), Len(rest) = k,
           \A i \in 1..k : SameEntry(rest[i], entries[i])
    PROVE  GoodEntries(base, rest)
  <1>1. \A i \in 1..k : /\ rest[i].from = entries[i].from
                        /\ rest[i].kind = entries[i].kind
                        /\ rest[i].scope = entries[i].scope
                        /\ Entered(rest[i]) = Entered(entries[i])
    BY DEF SameEntry, Entered
  <1>2. \A i \in 1..k : GoodEntry(base, rest[i])
    BY <1>1 DEF GoodEntries, GoodEntry
  <1>3. ASSUME NEW i \in 1..k
        PROVE  /\ i = 1 => rest[i].kind = "call"
               /\ rest[i].kind = "function" =>
                     /\ i > 1 /\ rest[i - 1].kind = "call"
                     /\ rest[i].from.beforeJump = rest[i - 1].from.command
               /\ rest[i].kind # "function" /\ i > 1 => rest[i - 1].kind # "call"
               /\ rest[i].kind = "members" => rest[i].scope.data = rest[i - 1].scope.code
    <2>1. i > 1 => i - 1 \in 1..k
      OBVIOUS
    <2>2. i \in 1..Len(entries) /\ (i = 1 => rest[i].kind = "call")
      BY <1>1 DEF GoodEntries, WellOrdered
    <2>3. CASE i = 1
      BY <2>2, <2>3
    <2>4. CASE i > 1
      BY <1>1, <2>1, <2>2, <2>4 DEF GoodEntries, WellOrdered
    <2> QED
      BY <2>3, <2>4
  <1> QED
    BY <1>2, <1>3 DEF GoodEntries, WellOrdered

(* Changing the way out changes no entry otherwise.                        *)
LEMMA LeavingSame ==
    ASSUME NEW entries \in Seq(Entry), NEW leave \in Leaves
    PROVE  /\ Leaving(entries, leave) \in Seq(Entry)
           /\ Len(Leaving(entries, leave)) = Len(entries)
           /\ \A i \in 1..Len(entries) : SameEntry(Leaving(entries, leave)[i], entries[i])
  <1> DEFINE n == Len(entries)
             e == [entries[n] EXCEPT !.leave = leave]
             changed == [entries EXCEPT ![n] = e]
  <1>1. CASE entries = <<>>
    BY <1>1 DEF Leaving
  <1>2. CASE entries # <<>>
    <2>1. n \in 1..n /\ entries[n] \in Entry
      BY <1>2
    <2>2. e \in Entry /\ SameEntry(e, entries[n])
      BY <2>1 DEF Entry, SameEntry
    <2>3. Leaving(entries, leave) = changed
      BY <1>2 DEF Leaving
    <2> HIDE DEF e
    <2>4. /\ changed \in Seq(Entry) /\ Len(changed) = n /\ changed[n] = e
          /\ \A i \in 1..n : i # n => changed[i] = entries[i]
      BY <2>1, <2>2
    <2>5. \A i \in 1..n : SameEntry(entries[i], entries[i])
      BY DEF SameEntry
    <2> HIDE DEF changed
    <2> QED
      BY <2>2, <2>3, <2>4, <2>5
  <1> QED
    BY <1>1, <1>2

LEMMA OuterFields ==
    ASSUME pending \in Seq(Entry), NEW count \in 0..Len(pending)
    PROVE  /\ Outer(count) \in Seq(Entry)
           /\ Len(Outer(count)) = Len(pending) - count
           /\ \A i \in 1..(Len(pending) - count) : SameEntry(Outer(count)[i], pending[i])
  <1>1. /\ Outer(count) \in Seq(Entry)
        /\ Len(Outer(count)) = Len(pending) - count
        /\ \A i \in 1..(Len(pending) - count) : Outer(count)[i] = pending[i]
    BY DEF Outer
  <1> QED
    BY <1>1 DEF SameEntry
-----------------------------------------------------------------------------
(* What the invariant says of the context while a run goes on.             *)
LEMMA Here ==
    ASSUME IInv, phase \in {"ready", "script", "returned"}
    PROVE  /\ Live(ctx) /\ Holds(ctx.codes) /\ ctx.contexts \in Stack(ContextInfo)
           /\ pending \in Seq(Entry)
           /\ Live(run.ready) /\ run.ready.contexts \in Stack(ContextInfo)
           /\ KeepsContexts(run.ready, ctx)
           /\ Chained(run.ready, pending, ctx)
           /\ GoodEntries(run.ready, pending)
           /\ phase = "script" => pending # <<>> /\ Inner \in Entry
  <1>1. ctx \in Machine /\ ~ ctx.raised /\ pending \in Seq(Entry) /\ Holds(ctx.allocated)
    BY DEF IInv, TypeOK
  <1>2. Live(ctx) /\ Live(run.ready)
    BY <1>1 DEF IInv, GoodRun, Live
  <1>3. ctx.contexts \in Stack(ContextInfo) /\ run.ready.contexts \in Stack(ContextInfo)
    BY <1>2, MachineFields DEF Live
  <1>4. phase = "script" => pending # <<>> /\ Inner \in Entry
    BY <1>1 DEF IInv, TypeOK, Inner
  <1> QED
    BY <1>1, <1>2, <1>3, <1>4 DEF IInv, LastInFirstOut

(* A command that raises leaves the entries to the handler.                *)
LEMMA ProceedRaised ==
    ASSUME IInv, phase \in {"ready", "script"}, NEW m \in Machine, NEW entries,
           m.raised, Holds(m.allocated), KeepsContexts(run.ready, m), Proceed(m, entries)
    PROVE  IInv'
  <1>1. /\ ctx' = m /\ pending' = pending /\ phase' = "raised"
        /\ UNCHANGED <<run, host, runs, failed>>
    BY DEF Proceed
  <1>2. TypeOK'
    BY <1>1 DEF IInv, TypeOK, Phases
  <1>3. LastInFirstOut'
    BY <1>1 DEF LastInFirstOut
  <1>4. GoodEntries(run.ready, pending)' /\ GoodRun' /\ KeepsContexts(run.ready, ctx)'
    BY <1>1 DEF IInv, GoodRun, GoodEntries, GoodEntry, WellOrdered
  <1> QED
    BY <1>1, <1>2, <1>3, <1>4 DEF IInv

(* A command after which the script goes on.                               *)
LEMMA ProceedOn ==
    ASSUME IInv, phase \in {"ready", "script"}, NEW m, NEW entries \in Seq(Entry),
           Live(m), Holds(m.codes), KeepsContexts(run.ready, m),
           entries # <<>>, Chained(run.ready, entries, m), GoodEntries(run.ready, entries),
           entries[Len(entries)].kind = "call" =>
               m.beforeJump = entries[Len(entries)].from.command,
           Proceed(m, entries)
    PROVE  IInv'
  <1>1. /\ ctx' = m /\ pending' = entries /\ phase' = "script"
        /\ UNCHANGED <<run, host, runs, failed>> /\ ~ m.raised /\ m \in Machine
    BY DEF Proceed, Live
  <1>2. TypeOK'
    BY <1>1 DEF IInv, TypeOK, Phases
  <1>3. LastInFirstOut'
    BY <1>1 DEF LastInFirstOut
  <1>4. GoodEntries(run.ready, pending)' /\ KeepsContexts(run.ready, ctx)'
    BY <1>1
  <1>5. GoodRun'
    BY <1>1 DEF IInv, GoodRun
  <1>6. Inner'.kind = "call" => ctx'.beforeJump = Inner'.from.command
    BY <1>1 DEF Inner
  <1> QED
    BY <1>1, <1>2, <1>3, <1>4, <1>5, <1>6 DEF IInv, Live

(* Every way in: a call, a function's scope, a sub scope, a construction.  *)
LEMMA Entering ==
    ASSUME IInv, phase \in {"ready", "script"}, NEW e \in Entry,
           phase = "ready" => e.kind = "call",
           phase = "script" => (e.kind = "function" <=> Inner.kind = "call"),
           e.kind = "function" => e.from.beforeJump = Inner.from.command,
           e.kind = "members" => e.scope.data = Inner.scope.code,
           Live(e.from), Stacks(e.from) = Stacks(ctx),
           Proceed(Entered(e), Append(pending, e))
    PROVE  IInv'
  <1> DEFINE m == Entered(e)
             longer == Append(pending, e)
  <1>1. /\ Live(ctx) /\ Holds(ctx.codes) /\ ctx.contexts \in Stack(ContextInfo)
        /\ pending \in Seq(Entry)
        /\ Live(run.ready) /\ run.ready.contexts \in Stack(ContextInfo)
        /\ KeepsContexts(run.ready, ctx) /\ Chained(run.ready, pending, ctx)
        /\ GoodEntries(run.ready, pending)
        /\ phase = "script" => pending # <<>>
    BY Here
  <1>2. /\ Holds(e.from.codes) /\ e.from.contexts = ctx.contexts
        /\ e.from.codes = ctx.codes
    BY <1>1 DEF Stacks, Holds
  <1>3. /\ m \in Machine /\ Holds(m.allocated) /\ KeepsContexts(e.from, m)
        /\ ~ m.raised => Holds(m.codes)
        /\ ~ m.raised /\ e.kind = "call" => m.beforeJump = e.from.command
    BY <1>2, EnteredFields
  <1>4. m.contexts \in Stack(ContextInfo)
    BY <1>3, MachineFields
  <1>5. KeepsContexts(run.ready, e.from)
    BY <1>1, <1>2 DEF KeepsContexts
  <1>6. KeepsContexts(run.ready, m)
    BY <1>1, <1>2, <1>3, <1>4, <1>5, KeepsTransitive
  <1>7. CASE m.raised
    BY <1>3, <1>6, <1>7, ProceedRaised
  <1>8. CASE ~ m.raised
    <2>1. Chained(run.ready, longer, m)
      BY <1>1, ChainedAppend
    <2>2. GoodEntry(run.ready, e)
      BY <1>2, <1>5, <1>8 DEF GoodEntry
    <2>3. phase = "ready" => pending = <<>>
      BY DEF IInv, TypeOK
    <2>4. GoodEntries(run.ready, longer)
      BY <1>1, <2>2, <2>3, GoodAppend DEF Inner
    <2>5. longer \in Seq(Entry) /\ longer # <<>> /\ longer[Len(longer)] = e
      BY <1>1
    <2>6. Live(m)
      BY <1>3, <1>8 DEF Live
    <2> HIDE DEF m, longer
    <2> QED
      BY <1>3, <1>6, <1>8, <2>1, <2>4, <2>5, <2>6, ProceedOn DEF m, longer
  <1> QED
    BY <1>7, <1>8

(* A command that changes no stack: only the way out may change.           *)
LEMMA Staying ==
    ASSUME IInv, phase = "script", Inner.kind # "call", NEW m \in Machine,
           Stacks(m) = Stacks(ctx), NEW leave \in Leaves,
           Proceed(m, pending) \/ Proceed(m, Leaving(pending, leave))
    PROVE  IInv'
  <1>1. /\ Live(ctx) /\ Holds(ctx.codes) /\ pending \in Seq(Entry)
        /\ KeepsContexts(run.ready, ctx) /\ Chained(run.ready, pending, ctx)
        /\ GoodEntries(run.ready, pending) /\ pending # <<>>
    BY Here
  <1>2. Holds(m.allocated) /\ Holds(m.codes) /\ KeepsContexts(run.ready, m)
    BY <1>1 DEF Stacks, Live, Holds, KeepsContexts
  <1>3. ASSUME NEW entries \in Seq(Entry), Len(entries) = Len(pending),
               \A i \in 1..Len(pending) : SameEntry(entries[i], pending[i]),
               Proceed(m, entries)
        PROVE  IInv'
    <2>1. CASE m.raised
      BY <1>2, <1>3, <2>1, ProceedRaised
    <2>2. CASE ~ m.raised
      <3>1. Live(m)
        BY <1>2, <2>2 DEF Live
      <3>2. Before(pending, ctx, Len(pending) + 1) = ctx
        BY <1>1 DEF Before
      <3>3. Len(pending) \in 0..Len(pending) /\ Len(pending) \in 1..Len(pending)
        BY <1>1
      <3>4. Chained(run.ready, entries, m)
        BY <1>1, <1>3, <3>2, <3>3, ChainedPrefix
      <3>5. GoodEntries(run.ready, entries)
        BY <1>1, <1>3, <3>3, GoodPrefix
      <3>6. entries # <<>> /\ entries[Len(entries)].kind # "call"
        BY <1>1, <1>3, <3>3 DEF SameEntry, Inner
      <3> QED
        BY <1>2, <1>3, <3>1, <3>4, <3>5, <3>6, ProceedOn
    <2> QED
      BY <2>1, <2>2
  <1>4. CASE Proceed(m, pending)
    <2>1. \A i \in 1..Len(pending) : SameEntry(pending[i], pending[i])
      BY DEF SameEntry
    <2> QED
      BY <1>1, <1>3, <1>4, <2>1
  <1>5. CASE Proceed(m, Leaving(pending, leave))
    BY <1>1, <1>3, <1>5, LeavingSame
  <1> QED
    BY <1>4, <1>5

(* Every way out gives back the stacks of the context the way in began     *)
(* from, so what is still open goes on as if nothing had been entered.     *)
LEMMA LeavingMove ==
    ASSUME IInv, phase = "script",
           NEW k \in Nat, k < Len(pending), k > 0 => pending[k].kind # "call",
           NEW rest \in Seq(Entry), Len(rest) = k,
           \A i \in 1..k : SameEntry(rest[i], pending[i]),
           NEW left, Live(left), Stacks(left) = Stacks(pending[k + 1].from),
           ctx' = left, pending' = rest,
           phase' = IF rest = <<>> THEN "returned" ELSE "script",
           UNCHANGED <<run, host, runs, failed>>
    PROVE  IInv'
  <1>1. /\ ctx.contexts \in Stack(ContextInfo) /\ pending \in Seq(Entry)
        /\ Chained(run.ready, pending, ctx) /\ GoodEntries(run.ready, pending)
    BY Here
  <1>2. k \in 0..Len(pending) /\ k + 1 \in 1..Len(pending)
    BY <1>1
  <1>3. Before(pending, ctx, k + 1) = pending[k + 1].from
    BY <1>2 DEF Before
  <1>4. Holds(pending[k + 1].from.codes) /\ KeepsContexts(run.ready, pending[k + 1].from)
    BY <1>1, <1>2 DEF GoodEntries, GoodEntry
  <1>5. Holds(left.codes) /\ KeepsContexts(run.ready, left)
    BY <1>4 DEF Stacks, Holds, KeepsContexts
  <1>6. Chained(run.ready, rest, left)
    BY <1>1, <1>2, <1>3, ChainedPrefix
  <1>7. GoodEntries(run.ready, rest)
    BY <1>1, <1>2, GoodPrefix
  <1>8. ~ left.raised /\ left \in Machine /\ Holds(left.allocated)
    BY DEF Live
  <1>9. TypeOK'
    BY <1>8 DEF IInv, TypeOK, Phases
  <1>10. LastInFirstOut'
    BY <1>6 DEF LastInFirstOut
  <1>11. GoodRun'
    BY DEF IInv, GoodRun
  <1>12. phase' = "script" => Inner'.kind # "call"
    <2>1. rest # <<>> => k > 0 /\ k \in 1..k
      OBVIOUS
    <2>2. rest # <<>> => rest[k].kind = pending[k].kind
      BY <2>1 DEF SameEntry
    <2> QED
      BY <2>1, <2>2 DEF Inner
  <1>13. GoodEntries(run.ready, pending)' /\ KeepsContexts(run.ready, ctx)'
    BY <1>5, <1>7
  <1> QED
    BY <1>5, <1>8, <1>9, <1>10, <1>11, <1>12, <1>13 DEF IInv
-----------------------------------------------------------------------------
(* The innermost entry is what the context has just been through.          *)
LEMMA InnerFields ==
    ASSUME IInv, phase = "script"
    PROVE  /\ Inner \in Entry /\ Len(pending) \in Nat \ {0}
           /\ Inner = pending[Len(pending)]
           /\ Live(Inner.from) /\ Holds(Inner.from.codes) /\ ~ Entered(Inner).raised
           /\ Stacks(ctx) = Stacks(Entered(Inner))
           /\ Inner.kind \notin {"call", "function"} =>
                 Len(pending) > 1 /\ pending[Len(pending) - 1].kind # "call"
  <1>1. /\ pending \in Seq(Entry) /\ Chained(run.ready, pending, ctx)
        /\ GoodEntries(run.ready, pending) /\ pending # <<>> /\ Inner \in Entry
    BY Here
  <1>2. Len(pending) \in Nat \ {0} /\ Len(pending) \in 1..Len(pending)
    BY <1>1
  <1>3. Before(pending, ctx, Len(pending) + 1) = ctx
    BY <1>2 DEF Before
  <1>4. Stacks(ctx) = Stacks(Entered(Inner))
    BY <1>1, <1>2, <1>3 DEF Chained, Inner
  <1>5. GoodEntry(run.ready, Inner)
    BY <1>1, <1>2 DEF GoodEntries, Inner
  <1>6. Inner.kind \notin {"call", "function"} =>
          Len(pending) > 1 /\ pending[Len(pending) - 1].kind # "call"
    BY <1>1, <1>2 DEF GoodEntries, WellOrdered, Inner
  <1> QED
    BY <1>1, <1>2, <1>4, <1>5, <1>6 DEF GoodEntry, Inner

(* Leaving the innermost scope or construction.                            *)
LEMMA LeavingInner ==
    ASSUME IInv, phase = "script", Inner.kind \notin {"call", "function"},
           NEW leave \in Leaves, NEW left, Live(left), Stacks(left) = Stacks(Inner.from),
           Proceed(left, Outer(1)) \/ Proceed(left, Leaving(Outer(1), leave))
    PROVE  IInv' /\ Len(pending') = Len(pending) - 1
  <1> DEFINE n == Len(pending)
  <1>1. /\ n \in Nat /\ n > 1 /\ pending[n - 1].kind # "call" /\ Inner = pending[n]
        /\ pending \in Seq(Entry)
    BY InnerFields, Here
  <1>2. /\ Outer(1) \in Seq(Entry) /\ Len(Outer(1)) = n - 1
        /\ \A i \in 1..(n - 1) : SameEntry(Outer(1)[i], pending[i])
    BY <1>1, OuterFields
  <1>3. ASSUME NEW rest \in Seq(Entry), Len(rest) = n - 1,
               \A i \in 1..(n - 1) : SameEntry(rest[i], pending[i]),
               Proceed(left, rest)
        PROVE  IInv' /\ Len(pending') = n - 1
    <2>1. ctx' = left /\ pending' = rest /\ phase' = "script"
          /\ UNCHANGED <<run, host, runs, failed>>
      BY <1>3 DEF Proceed, Live
    <2>2. rest # <<>> /\ n - 1 \in Nat /\ n - 1 < n /\ (n - 1) + 1 = n
      BY <1>1, <1>3
    <2>3. phase' = IF rest = <<>> THEN "returned" ELSE "script"
      BY <2>1, <2>2
    <2> QED
      BY <1>1, <1>3, <2>1, <2>2, <2>3, LeavingMove
  <1>4. CASE Proceed(left, Outer(1))
    BY <1>2, <1>3, <1>4
  <1>5. CASE Proceed(left, Leaving(Outer(1), leave))
    <2> DEFINE rest == Leaving(Outer(1), leave)
    <2>1. /\ rest \in Seq(Entry) /\ Len(rest) = n - 1
          /\ \A i \in 1..(n - 1) : SameEntry(rest[i], Outer(1)[i])
      BY <1>2, LeavingSame
    <2>2. \A i \in 1..(n - 1) : SameEntry(rest[i], pending[i])
      BY <1>2, <2>1 DEF SameEntry
    <2> HIDE DEF rest
    <2> QED
      BY <1>3, <1>5, <2>1, <2>2 DEF rest
  <1> QED
    BY <1>4, <1>5

(* The context with the command register moved to the executed command.    *)
LEMMA AtCommand ==
    ASSUME IInv, phase \in {"ready", "script"}, NEW s \in Command
    PROVE  LET m == [ctx EXCEPT !.command = s] IN
           /\ Live(m) /\ Stacks(m) = Stacks(ctx) /\ m.command = s
           /\ m.beforeJump = ctx.beforeJump
  <1>1. ctx \in Machine /\ ~ ctx.raised /\ Holds(ctx.allocated)
    BY Here DEF Live
  <1> DEFINE m == [ctx EXCEPT !.command = s]
  <1>2. m \in Machine /\ ~ m.raised /\ Stacks(m) = Stacks(ctx) /\ m.command = s
        /\ m.allocated = ctx.allocated /\ m.beforeJump = ctx.beforeJump
    BY <1>1 DEF Machine, Stacks
  <1> QED
    BY <1>1, <1>2 DEF Live

LEMMA CallStep ==
    ASSUME IInv, NEW s \in Sites \union {HostCommand, NullCommand}, NEW call \in Calls,
           Call(s, call)
    PROVE  IInv'
  <1> DEFINE from == [ctx EXCEPT !.command = s]
             e == Opened("call", NoScope, call, from)
  <1>1. s \in Command /\ call \in CallInfo /\ NoScope \in ScopeInfo
    BY CodeAssumption, MemoryAssumption DEF NoScope, ScopeInfo
  <1>2. /\ phase \in {"ready", "script"}
        /\ phase = "script" => Inner.kind # "call"
    BY DEF Call, Calling, InScope, Running, ScopeKinds
  <1>3. Live(from) /\ Stacks(from) = Stacks(ctx)
    BY <1>1, <1>2, AtCommand
  <1>4. Proceed(CallScriptFunction(from, call), Append(pending, e))
    BY DEF Call
  <1> HIDE DEF from
  <1>5. e \in Entry /\ e.kind = "call" /\ e.from = from /\ e.call = call
    BY <1>1, <1>3 DEF Entry, Opened, Kinds, Leaves, Live
  <1> HIDE DEF e
  <1>6. Entered(e) = CallScriptFunction(from, call)
    BY <1>5 DEF Entered
  <1> QED
    BY <1>2, <1>3, <1>4, <1>5, <1>6, Entering

(* Control is lost where the pointers are written over, and only there.    *)
LEMMA LoseControlStep ==
    ASSUME IInv, NEW s, NEW call, LoseControl(s, call)
    PROVE  IInv' /\ KeepsControl /\ phase \in {"ready", "script"} /\ phase' = "lost"
  <1>1. /\ phase \in {"ready", "script"} /\ phase' = "lost" /\ ControlMayBeLost(ctx)
        /\ UNCHANGED <<ctx, pending, run, host, runs, failed>>
    BY DEF LoseControl, Calling, InScope, Running
  <1>2. ~ ctx.raised /\ GoodRun /\ KeepsContexts(run.ready, ctx)
    BY <1>1 DEF IInv, TypeOK
  <1>3. TypeOK' /\ LastInFirstOut'
    BY <1>1, <1>2 DEF IInv, TypeOK, Phases, LastInFirstOut
  <1>4. GoodEntries(run.ready, pending)' /\ GoodRun' /\ KeepsContexts(run.ready, ctx)'
    BY <1>1, <1>2 DEF IInv, GoodRun
  <1>5. IInv'
    BY <1>1, <1>3, <1>4 DEF IInv
  <1>6. ctx.codes.sunk = run.ready.codes.sunk /\ ctx.codes.sunk \in Nat
    BY <1>2, MachineFields DEF KeepsContexts, IInv, TypeOK, Stack
  <1>7. run.again /\ (runs <= PointerCells + 1 => IsFull(ctx.allocated))
    <2>1. ctx.codes.sunk > 0
      BY <1>1, <1>6, MemoryAssumption DEF ControlMayBeLost
    <2>2. run.again /\ ctx.codes.sunk < runs
      BY <1>2, <1>6, <2>1 DEF GoodRun, Sunk
    <2>3. runs \in Nat
      BY HostsAssumption DEF IInv, TypeOK
    <2>4. runs <= PointerCells + 1 => ~ ctx.codes.sunk > PointerCells
      BY <1>6, <2>2, <2>3, MemoryAssumption
    <2> QED
      BY <1>1, <2>2, <2>4 DEF ControlMayBeLost
  <1> QED
    BY <1>1, <1>5, <1>7 DEF KeepsControl

LEMMA EnterFunctionStep ==
    ASSUME IInv, NEW scope \in Scopes, EnterFunction(scope)
    PROVE  IInv'
  <1> DEFINE e == Opened("function", scope, NoCall, ctx)
  <1>1. scope \in ScopeInfo /\ NoCall \in CallInfo
    BY CodeAssumption, MemoryAssumption DEF NoCall, CallInfo
  <1>2. phase = "script" /\ Inner.kind = "call"
        /\ Proceed(EnterContextScope(ctx, scope), Append(pending, e))
    BY DEF EnterFunction, Running
  <1>3. Live(ctx) /\ ctx \in Machine /\ ctx.beforeJump = Inner.from.command
    BY <1>2, Here DEF IInv, Live
  <1>4. e \in Entry /\ e.kind = "function" /\ e.from = ctx /\ e.scope = scope
    BY <1>1, <1>3 DEF Entry, Opened, Kinds, ScopeKinds, Leaves
  <1> HIDE DEF e
  <1>5. Entered(e) = EnterContextScope(ctx, scope)
    BY <1>4 DEF Entered
  <1> QED
    BY <1>2, <1>3, <1>4, <1>5, Entering

LEMMA OpenScopeStep ==
    ASSUME IInv, NEW s \in Sites, NEW kind \in {"block", "loop"}, NEW scope \in Scopes,
           OpenScope(s, kind, scope)
    PROVE  IInv'
  <1> DEFINE here == [ctx EXCEPT !.command = s]
             from == Jump(here, scope.first)
             e == Opened(kind, scope, NoCall, from)
  <1>1. /\ s \in Command /\ scope \in ScopeInfo /\ NoCall \in CallInfo
        /\ scope.first \in Command
    BY CodeAssumption, MemoryAssumption DEF NoCall, CallInfo, ScopeInfo
  <1>2. /\ phase = "script" /\ Inner.kind # "call"
        /\ Proceed(EnterContextScope(from, scope), Append(pending, e))
    BY DEF OpenScope, Straight, InScope, Running, ScopeKinds
  <1>3. Live(here) /\ Stacks(here) = Stacks(ctx)
    BY <1>1, <1>2, AtCommand
  <1> HIDE DEF here
  <1>4. Live(from) /\ Stacks(from) = Stacks(ctx)
    BY <1>1, <1>3, JumpFields DEF Live, Stacks
  <1> HIDE DEF from
  <1>5. e \in Entry /\ e.kind = kind /\ e.from = from /\ e.scope = scope
    BY <1>1, <1>4 DEF Entry, Opened, Kinds, ScopeKinds, Leaves, Live
  <1> HIDE DEF e
  <1>6. Entered(e) = EnterContextScope(from, scope)
    BY <1>5 DEF Entered
  <1> QED
    BY <1>2, <1>4, <1>5, <1>6, Entering

LEMMA OpenMembersStep ==
    ASSUME IInv, NEW s \in Sites, NEW code \in MemberCodes, OpenMembers(s, code)
    PROVE  IInv'
  <1> DEFINE from == [ctx EXCEPT !.command = s]
             members == Members(Inner.scope.code, code)
             e == Opened("members", members, NoCall, from)
  <1>1. s \in Command /\ code \in Nat /\ NoCall \in CallInfo
    BY CodeAssumption, MemoryAssumption DEF NoCall, CallInfo
  <1>2. /\ phase = "script" /\ Inner.kind # "call"
        /\ Proceed(BeginMembers(from, Inner.scope.code, code), Append(pending, e))
    BY DEF OpenMembers, InScope, Running, ScopeKinds
  <1>3. Inner.scope.code \in Nat
    BY <1>2, InnerFields DEF Entry, ScopeInfo
  <1>4. Live(from) /\ Stacks(from) = Stacks(ctx)
    BY <1>1, <1>2, AtCommand
  <1> HIDE DEF from
  <1>5. /\ members \in ScopeInfo /\ members.code = code
        /\ members.data = Inner.scope.code
    BY <1>1, <1>3, MemoryAssumption DEF Members, ScopeInfo
  <1> HIDE DEF members
  <1>6. e \in Entry /\ e.kind = "members" /\ e.from = from /\ e.scope = members
    BY <1>1, <1>4, <1>5 DEF Entry, Opened, Kinds, Leaves, Live
  <1> HIDE DEF e
  <1>7. Entered(e) = BeginMembers(from, Inner.scope.code, code)
    BY <1>5, <1>6 DEF Entered
  <1> QED
    BY <1>2, <1>4, <1>5, <1>6, <1>7, Entering DEF members

(* The commands that only move the command register or raise.              *)
LEMMA LoopBackStep ==
    ASSUME IInv, NEW s \in Sites, LoopBack(s)
    PROVE  IInv' /\ Len(pending') = Len(pending)
  <1> DEFINE here == [ctx EXCEPT !.command = s]
             m == Jump(here, Inner.scope.first)
  <1>1. phase = "script" /\ Inner.kind # "call" /\ Proceed(m, pending)
    BY DEF LoopBack, Straight, InScope, Running
  <1>2. s \in Command /\ Inner.scope.first \in Command
    BY <1>1, InnerFields, CodeAssumption DEF Entry, ScopeInfo
  <1>3. Live(here) /\ Stacks(here) = Stacks(ctx)
    BY <1>1, <1>2, AtCommand
  <1> HIDE DEF here
  <1>4. m \in Machine /\ Stacks(m) = Stacks(ctx)
    BY <1>2, <1>3, JumpFields DEF Live
  <1> HIDE DEF m
  <1> QED
    BY <1>1, <1>4, Staying DEF Proceed, Leaves

LEMMA LeaveStep ==
    ASSUME IInv, NEW s \in Sites, NEW leave \in {"break", "continue", "return"},
           Leave(s, leave)
    PROVE  IInv' /\ Len(pending') = Len(pending)
  <1> DEFINE m == [ctx EXCEPT !.command = s]
  <1>1. phase = "script" /\ Inner.kind # "call" /\ Proceed(m, Leaving(pending, leave))
    BY DEF Leave, Straight, InScope, Running, ScopeKinds
  <1>2. s \in Command /\ leave \in Leaves /\ pending \in Seq(Entry)
    BY <1>1, Here, CodeAssumption DEF Leaves
  <1>3. m \in Machine /\ Stacks(m) = Stacks(ctx)
    BY <1>1, <1>2, AtCommand DEF Live
  <1> HIDE DEF m
  <1>4. Len(Leaving(pending, leave)) = Len(pending)
    BY <1>2, LeavingSame
  <1> QED
    BY <1>1, <1>2, <1>3, <1>4, Staying DEF Proceed

LEMMA ContinueLoopStep ==
    ASSUME IInv, NEW condition \in Sites, ContinueLoop(condition)
    PROVE  IInv' /\ Len(pending') = Len(pending)
  <1> DEFINE m == Jump(ctx, condition)
  <1>1. phase = "script" /\ Inner.kind # "call" /\ Proceed(m, Leaving(pending, "none"))
    BY DEF ContinueLoop, InScope, Running
  <1>2. condition \in Command /\ pending \in Seq(Entry) /\ ctx \in Machine
    BY <1>1, Here, CodeAssumption DEF Live
  <1>3. m \in Machine /\ Stacks(m) = Stacks(ctx)
    BY <1>2, JumpFields
  <1> HIDE DEF m
  <1>4. "none" \in Leaves /\ Len(Leaving(pending, "none")) = Len(pending)
    BY <1>2, LeavingSame DEF Leaves
  <1> QED
    BY <1>1, <1>3, <1>4, Staying DEF Proceed

LEMMA NativeThrowStep ==
    ASSUME IInv, NEW s \in Sites \union {NullCommand}, NativeThrow(s)
    PROVE  IInv' /\ Len(pending') = Len(pending)
  <1> DEFINE here == [ctx EXCEPT !.command = s]
             m == Raise(here)
  <1>1. phase = "script" /\ Inner.kind # "call" /\ Proceed(m, pending)
    BY DEF NativeThrow, Running
  <1>2. s \in Command
    BY CodeAssumption, MemoryAssumption
  <1>3. here \in Machine /\ Stacks(here) = Stacks(ctx)
    BY <1>1, <1>2, AtCommand DEF Live
  <1> HIDE DEF here
  <1>4. m \in Machine /\ Stacks(m) = Stacks(ctx)
    BY <1>3, RaiseFields
  <1> HIDE DEF m
  <1> QED
    BY <1>1, <1>4, Staying DEF Proceed, Leaves

(* The ways out.                                                           *)
LEMMA CloseMembersStep ==
    ASSUME IInv, CloseMembers
    PROVE  IInv' /\ RestoresCaller
  <1> DEFINE left == EndMembers(ctx, Inner.scope.data, Inner.scope.code)
  <1>1. phase = "script" /\ Inner.kind = "members" /\ Proceed(left, Outer(1))
    BY DEF CloseMembers, Running
  <1>2. /\ Inner.scope.data \in Nat /\ Inner.scope.code \in Nat
        /\ Live(Inner.from) /\ ~ Entered(Inner).raised
        /\ Stacks(ctx) = Stacks(Entered(Inner))
        /\ Inner = pending[Len(pending)]
    BY <1>1, InnerFields DEF Entry, ScopeInfo
  <1>3. Entered(Inner) = BeginMembers(Inner.from, Inner.scope.data, Inner.scope.code)
    BY <1>1 DEF Entered
  <1>4. Live(left) /\ Stacks(left) = Stacks(Inner.from) /\ left.command = Inner.from.command
    BY <1>1, <1>2, <1>3, Here, EndUndoesBegin
  <1> HIDE DEF left
  <1>5. IInv' /\ Len(pending') = Len(pending) - 1
    BY <1>1, <1>4, LeavingInner DEF Leaves
  <1>6. ctx' = left /\ pending[Len(pending') + 1] = Inner
    BY <1>1, <1>2, <1>5, InnerFields DEF Proceed
  <1> QED
    BY <1>1, <1>4, <1>5, <1>6 DEF RestoresCaller

LEMMA ExitScopeStep ==
    ASSUME IInv, NEW jumped \in BOOLEAN, ExitScope(jumped)
    PROVE  IInv' /\ RestoresCaller
  <1> DEFINE m == IF jumped THEN Jump(ctx, Inner.scope.first) ELSE ctx
             left == ExitContextScope(m, Inner.scope, TRUE)
  <1>1. /\ phase = "script" /\ Inner.kind \in {"block", "loop"}
        /\ Proceed(left, Leaving(Outer(1), LeaveAfter(Inner)))
    BY DEF ExitScope, InScope, Running
  <1>2. /\ Inner.scope \in ScopeInfo /\ Inner.scope.first \in Command
        /\ Live(Inner.from) /\ ~ Entered(Inner).raised /\ LeaveAfter(Inner) \in Leaves
        /\ Stacks(ctx) = Stacks(Entered(Inner))
        /\ Inner = pending[Len(pending)] /\ Live(ctx)
    BY <1>1, InnerFields, Here DEF Entry, ScopeInfo, LeaveAfter, Leaves
  <1>3. Entered(Inner) = EnterContextScope(Inner.from, Inner.scope)
    BY <1>1 DEF Entered
  <1>4. Live(m) /\ Stacks(m) = Stacks(ctx)
    BY <1>2, JumpFields DEF Live, Stacks
  <1> HIDE DEF m
  <1>5. Live(left) /\ Stacks(left) = Stacks(Inner.from)
        /\ left.command = Inner.from.beforeJump
    <2>1. /\ ~ EnterContextScope(Inner.from, Inner.scope).raised
          /\ Stacks(m) = Stacks(EnterContextScope(Inner.from, Inner.scope))
      BY <1>2, <1>3, <1>4
    <2> QED
      BY <1>2, <1>4, <2>1, ExitUndoesEnter
  <1> HIDE DEF left
  <1>6. IInv' /\ Len(pending') = Len(pending) - 1
    BY <1>1, <1>2, <1>5, LeavingInner
  <1>7. ctx' = left /\ pending[Len(pending') + 1] = Inner
    BY <1>1, <1>2, <1>6, InnerFields DEF Proceed
  <1> QED
    BY <1>1, <1>5, <1>6, <1>7 DEF RestoresCaller

(* The exit of a function leaves its scope and its call at once: the scope *)
(* goes back to the call's command, which the callee's context kept.       *)
LEMMA ExitFunctionStep ==
    ASSUME IInv, ExitFunction
    PROVE  IInv' /\ RestoresCaller
  <1> DEFINE n == Len(pending)
             caller == pending[n - 1]
             back == ExitContextScope(ctx, Inner.scope, TRUE)
             left == PopScope(back)
  <1>1. /\ phase = "script" /\ Inner.kind = "function" /\ ctx' = left
        /\ pending' = Outer(2) /\ phase' = IF Outer(2) = <<>> THEN "returned" ELSE "script"
        /\ UNCHANGED <<run, host, runs, failed>>
    BY DEF ExitFunction, InScope, Running, ExitFunctionAtTheEnd, ExitContextScope
  <1>2. /\ Inner.scope \in ScopeInfo /\ n \in Nat \ {0} /\ Inner = pending[n]
        /\ Live(Inner.from) /\ ~ Entered(Inner).raised
        /\ Stacks(ctx) = Stacks(Entered(Inner)) /\ Live(ctx)
        /\ pending \in Seq(Entry) /\ Chained(run.ready, pending, ctx)
        /\ GoodEntries(run.ready, pending)
    BY <1>1, InnerFields, Here DEF Entry
  <1>3. /\ n > 1 /\ caller.kind = "call" /\ Inner.from.beforeJump = caller.from.command
    BY <1>1, <1>2 DEF GoodEntries, WellOrdered
  <1>4. n - 1 \in 1..n /\ n \in 1..n /\ caller \in Entry /\ caller.call \in CallInfo
    <2>1. n - 1 \in 1..n /\ n \in 1..n
      BY <1>2, <1>3
    <2>2. caller \in Entry
      BY <1>2, <2>1
    <2> QED
      BY <2>1, <2>2 DEF Entry
  <1>5. /\ Live(caller.from) /\ Holds(caller.from.codes) /\ ~ Entered(caller).raised
    BY <1>2, <1>4 DEF GoodEntries, GoodEntry
  <1>6. Stacks(Inner.from) = Stacks(Entered(caller))
    <2>1. Before(pending, ctx, (n - 1) + 1) = Inner.from
      BY <1>2, <1>4 DEF Before
    <2> QED
      BY <1>2, <1>4, <2>1 DEF Chained
  <1>7. Entered(caller) = CallScriptFunction(caller.from, caller.call)
    BY <1>3 DEF Entered
  <1>8. Entered(Inner) = EnterContextScope(Inner.from, Inner.scope)
    BY <1>1 DEF Entered
  <1>9. Live(back) /\ Stacks(back) = Stacks(Inner.from)
        /\ back.command = Inner.from.beforeJump
    <2>1. /\ ~ EnterContextScope(Inner.from, Inner.scope).raised
          /\ Stacks(ctx) = Stacks(EnterContextScope(Inner.from, Inner.scope))
      BY <1>2, <1>8
    <2> QED
      BY <1>2, <2>1, ExitUndoesEnter
  <1> HIDE DEF back
  <1>10. Live(left) /\ Stacks(left) = Stacks(caller.from) /\ left.command = back.command
    BY <1>4, <1>5, <1>6, <1>7, <1>9, PopScopeUndoesCall
  <1> HIDE DEF left
  <1>11. /\ Outer(2) \in Seq(Entry) /\ Len(Outer(2)) = n - 2
         /\ \A i \in 1..(n - 2) : SameEntry(Outer(2)[i], pending[i])
    BY <1>2, <1>3, OuterFields
  <1>12. /\ n - 2 \in Nat /\ n - 2 < n /\ (n - 2) + 1 = n - 1
         /\ n - 2 > 0 => pending[n - 2].kind # "call"
    <2>1. n - 2 \in Nat /\ n - 2 < n /\ (n - 2) + 1 = n - 1
      BY <1>2, <1>3
    <2>2. n - 2 > 0 => n - 1 > 1 /\ (n - 1) - 1 = n - 2
      BY <1>2
    <2> QED
      BY <1>2, <1>3, <1>4, <2>1, <2>2 DEF GoodEntries, WellOrdered
  <1>13. IInv'
    BY <1>1, <1>10, <1>11, <1>12, LeavingMove
  <1>14. Len(pending') + 1 = n - 1
    BY <1>1, <1>11, <1>12
  <1> QED
    BY <1>1, <1>3, <1>9, <1>10, <1>13, <1>14 DEF RestoresCaller
-----------------------------------------------------------------------------
(* The host.                                                               *)
LEMMA PrepareFields ==
    ASSUME NEW m, Live(m), NEW call \in [result : Nat, params : Nat]
    PROVE  LET r == PrepareCall(m, call) IN
           /\ r \in Machine /\ Holds(r.allocated)
           /\ r.offset = m.offset /\ r.contexts = m.contexts
           /\ r.codes.sunk = m.codes.sunk
           /\ ~ r.raised =>
                /\ Holds(r.codes)
                /\ r.codes = Push(m.codes, 0)
                /\ r.allocated =
                      SetTop(m.allocated, Top(m.allocated) + (call.result + call.params))
  <1> DEFINE a == IF call.params > 0 THEN Access(m, call.result, call.params) ELSE m
             c == SetCurrentCommand(a, HostCommand)
             size == call.result + call.params
             r == ScopeAllocate(c, size, 0)
  <1>1. /\ m \in Machine /\ ~ m.raised /\ Holds(m.allocated) /\ HostCommand \in Command
        /\ m.codes \in Stack(Nat) /\ size \in Nat
    BY MachineFields, CodeAssumption DEF Live
  <1>2. PrepareCall(m, call) = r
    BY DEF PrepareCall
  <1>3. a \in Machine /\ Stacks(a) = Stacks(m)
    BY <1>1, AccessFields
  <1> HIDE DEF a
  <1>4. c \in Machine /\ Stacks(c) = Stacks(m) /\ c.raised = a.raised
    <2> DEFINE jump == IF a.beforeJump = NullCommand THEN HostCommand ELSE a.beforeJump
               d == [a EXCEPT !.beforeJump = jump, !.command = HostCommand]
    <2>1. jump \in Command
      BY <1>1, <1>3 DEF Machine
    <2>2. c = IF a.raised THEN a ELSE d
      BY <1>3 DEF SetCurrentCommand, Machine
    <2> HIDE DEF jump, c
    <2>3. d \in Machine /\ Stacks(d) = Stacks(a) /\ d.raised = a.raised
      BY <1>1, <1>3, <2>1 DEF Machine, Stacks
    <2> QED
      BY <1>3, <2>2, <2>3
  <1> HIDE DEF c, size
  <1>5. c.offset = m.offset /\ c.allocated = m.allocated /\ c.codes = m.codes
        /\ c.contexts = m.contexts /\ Holds(c.allocated)
    BY <1>1, <1>4 DEF Stacks
  <1>6. CASE c.raised
    <2>1. r = c
      BY <1>6 DEF ScopeAllocate
    <2> HIDE DEF r
    <2> QED
      BY <1>2, <1>4, <1>5, <1>6, <2>1
  <1>7. CASE ~ c.raised
    <2>1. Live(c)
      BY <1>4, <1>5, <1>7 DEF Live
    <2>2. /\ r \in Machine /\ r.allocated = SetTop(c.allocated, Top(c.allocated) + size)
          /\ Holds(r.allocated) /\ r.offset = c.offset /\ r.contexts = c.contexts
          /\ r.codes.sunk = c.codes.sunk
          /\ ~ r.raised => r.codes = Push(c.codes, 0)
      BY <1>1, <2>1, ScopeAllocateFields
    <2>3. Holds(Push(m.codes, 0))
      BY <1>1, PushPop
    <2> HIDE DEF r
    <2> QED
      BY <1>2, <1>5, <2>2, <2>3 DEF size
  <1> QED
    BY <1>6, <1>7

LEMMA NewContextLive ==
    /\ Live(NewContext) /\ NewContext.offset = 0 /\ NewContext.contexts = EmptyStack
    /\ NewContext.codes.sunk = 0
  <1> DEFINE cells == Push(EmptyStack, 0)
  <1>1. /\ EmptyStack \in Stack(Nat) /\ EmptyStack \in Stack(ContextInfo)
    BY DEF EmptyStack, Stack
  <1>2. cells \in Stack(Nat) /\ Holds(cells)
    BY <1>1, PushPop
  <1> HIDE DEF cells
  <1>3. NewContext = [offset |-> 0, allocated |-> cells, codes |-> EmptyStack,
                      contexts |-> EmptyStack, beforeJump |-> NullCommand,
                      command |-> NullCommand, raised |-> FALSE]
    BY DEF NewContext, cells
  <1>4. NewContext \in Machine /\ ~ NewContext.raised /\ NewContext.allocated = cells
        /\ NewContext.offset = 0 /\ NewContext.contexts = EmptyStack
    BY <1>1, <1>2, <1>3, MemoryAssumption DEF Machine
  <1>5. NewContext.codes.sunk = 0
    BY <1>3 DEF EmptyStack
  <1> QED
    BY <1>2, <1>4, <1>5 DEF Live

(* A context the host can start from: nothing runs on it.                  *)
LEMMA IdleStep ==
    ASSUME Live(ctx), ctx.offset = 0, Sunk(ctx, host, runs), pending = <<>>,
           phase = "idle", run \in Run,
           host \in {"task", "global"}, runs \in 0..MaxRuns, failed \in BOOLEAN
    PROVE  IInv
  <1>1. TypeOK
    BY DEF TypeOK, Phases, Live
  <1>2. LastInFirstOut /\ GoodEntries(run.ready, pending)
    BY DEF LastInFirstOut, GoodEntries, WellOrdered
  <1> QED
    BY <1>1, <1>2 DEF IInv, Live

LEMMA NoRunType == NoRun \in Run
  BY NewContextLive DEF NoRun, Run, Live

(* A task that runs again takes one scratch size off, and nothing else.    *)
LEMMA AgainFields ==
    ASSUME NEW m, Live(m)
    PROVE  LET r == ScopeUnallocate(m, 0, 0) IN
           /\ Live(r)
           /\ r.offset = m.offset
           /\ r.allocated = m.allocated
           /\ r.contexts = m.contexts
           /\ r.codes = Pop(m.codes)
           /\ r.codes.sunk \in {m.codes.sunk, m.codes.sunk + 1}
  <1> DEFINE r == ScopeUnallocate(m, 0, 0)
             left == IF Top(m.allocated) < 0 THEN 0 ELSE Top(m.allocated) - 0
  <1>1. m.allocated \in Stack(Nat) /\ Holds(m.allocated) /\ m.codes \in Stack(Nat)
    BY MachineFields DEF Live
  <1>2. Top(m.allocated) \in Nat /\ SetTop(m.allocated, Top(m.allocated)) = m.allocated
    BY <1>1, SetTopOfStack
  <1>3. left = Top(m.allocated)
    BY <1>2
  <1>4. 0 \in Nat
    OBVIOUS
  <1>5. /\ Live(r) /\ r.allocated = SetTop(m.allocated, left) /\ r.codes = Pop(m.codes)
        /\ r.offset = m.offset /\ r.contexts = m.contexts
    BY <1>4, ScopeUnallocateFields
  <1> HIDE DEF r, left
  <1>6. Pop(m.codes).sunk \in {m.codes.sunk, m.codes.sunk + 1}
    BY DEF Pop
  <1> QED
    BY <1>2, <1>3, <1>5, <1>6 DEF r

LEMMA RunFunctionStep ==
    ASSUME IInv, NEW call \in HostCalls, NEW fresh \in BOOLEAN, RunFunction(call, fresh)
    PROVE  IInv'
  <1> DEFINE again  == host = "task" /\ runs > 0 /\ ~ fresh
             found  == IF host = "task" /\ ~ again THEN NewContext ELSE ctx
             before == IF again THEN ScopeUnallocate(found, 0, 0) ELSE found
             ready  == PrepareCall(before, call)
             there == [ready EXCEPT !.raised = FALSE]
  <1>1. /\ phase = "idle" /\ runs < MaxRuns /\ ctx' = there
        /\ run' = IF ready.raised THEN NoRun
                  ELSE [call |-> call, again |-> again, found |-> found,
                        before |-> before, ready |-> ready]
        /\ phase' = IF ready.raised THEN "idle" ELSE "ready"
        /\ failed' = ((failed /\ ~ fresh) \/ ready.raised)
        /\ runs' = runs + 1 /\ pending' = pending /\ host' = host
    BY DEF RunFunction
  <1>2. /\ Live(ctx) /\ ctx.offset = 0 /\ pending = <<>> /\ failed \in BOOLEAN
        /\ host \in {"task", "global"} /\ runs \in 0..MaxRuns /\ Sunk(ctx, host, runs)
        /\ ctx.codes.sunk \in Nat
    BY <1>1, MachineFields DEF IInv, TypeOK, Live, Stack
  <1>3. /\ Live(found) /\ found.offset = 0 /\ Live(before) /\ before.offset = 0
        /\ again \in BOOLEAN
        /\ before = IF again THEN ScopeUnallocate(found, 0, 0) ELSE found
        /\ Sunk(before, host, runs + 1) /\ (again \/ before.codes.sunk = 0)
    <2>1. Live(found) /\ found.offset = 0
      BY <1>2, NewContextLive
    <2>4. again \in BOOLEAN
      OBVIOUS
    <2>5. before = IF again THEN ScopeUnallocate(found, 0, 0) ELSE found
      OBVIOUS
    <2>2. CASE again
      <3>1. found = ctx /\ before = ScopeUnallocate(ctx, 0, 0) /\ runs > 0 /\ host = "task"
        BY <2>2
      <3> HIDE DEF again, found, before
      <3>2. /\ Live(before) /\ before.offset = 0
            /\ before.codes.sunk \in {ctx.codes.sunk, ctx.codes.sunk + 1}
        BY <1>2, <3>1, AgainFields
      <3>3. Sunk(before, host, runs + 1)
        BY <1>2, <3>1, <3>2, HostsAssumption DEF Sunk
      <3> QED
        BY <2>1, <2>2, <2>4, <2>5, <3>2, <3>3
    <2>3. CASE ~ again
      <3>1. before = found /\ (found = NewContext \/ (found = ctx /\ host # "task"))
        BY <2>3
      <3> HIDE DEF again, found, before
      <3>2. before.codes.sunk = 0
        BY <1>2, <3>1, NewContextLive DEF Sunk
      <3>3. Sunk(before, host, runs + 1)
        BY <3>2 DEF Sunk
      <3> QED
        BY <2>1, <2>3, <2>4, <2>5, <3>1, <3>2, <3>3
    <2> HIDE DEF again, found, before
    <2> QED
      BY <2>2, <2>3, <2>4
  <1>4. call \in [result : Nat, params : Nat]
    BY CodeAssumption
  <1> HIDE DEF again, found, before
  <1>5. /\ ready \in Machine /\ Holds(ready.allocated) /\ ready.offset = 0
        /\ ready.contexts = before.contexts /\ (~ ready.raised => Holds(ready.codes))
        /\ ready.codes.sunk = before.codes.sunk
    BY <1>3, <1>4, PrepareFields
  <1>6. ready = PrepareCall(before, call)
    OBVIOUS
  <1> HIDE DEF ready
  <1>7. /\ there \in Machine /\ ~ there.raised /\ Stacks(there) = Stacks(ready)
        /\ there.offset = 0 /\ there.allocated = ready.allocated
        /\ there.codes = ready.codes /\ there.contexts = ready.contexts
    BY <1>5 DEF Machine, Stacks
  <1>8. Live(there)
    BY <1>5, <1>7 DEF Live
  <1> HIDE DEF there
  <1>9. runs' \in 0..MaxRuns /\ failed' \in BOOLEAN
    <2>1. runs' \in 0..MaxRuns
      BY <1>1, <1>2, HostsAssumption
    <2>2. failed' \in BOOLEAN
      <3>1. CASE failed'
        BY <3>1, <1>1
      <3>2. CASE ~ failed'
        BY <3>2, <1>1
      <3> QED
        BY <3>1, <3>2
    <2> QED
      BY <2>1, <2>2
  <1>10. CASE ready.raised
    <2>1. phase' = "idle" /\ pending' = <<>> /\ run' = NoRun /\ ctx' = there
          /\ host' \in {"task", "global"}
      BY <1>1, <1>2, <1>10
    <2>2. Live(ctx') /\ ctx'.offset = 0 /\ Sunk(ctx', host', runs')
      BY <1>1, <1>3, <1>5, <1>7, <1>8, <2>1 DEF Sunk
    <2>3. TypeOK' /\ LastInFirstOut' /\ GoodEntries(run.ready, pending)'
      BY <1>7, <1>9, <2>1, NoRunType
         DEF TypeOK, Phases, LastInFirstOut, GoodEntries, WellOrdered
    <2> QED
      BY <2>1, <2>2, <2>3 DEF IInv, Live
  <1>11. CASE ~ ready.raised
    <2>1. phase' = "ready" /\ pending' = <<>> /\ ctx' = there
          /\ run' = [call |-> call, again |-> again, found |-> found,
                     before |-> before, ready |-> ready]
          /\ host' \in {"task", "global"}
      BY <1>1, <1>2, <1>11
    <2>2. /\ run'.call = call /\ run'.again = again /\ run'.found = found
          /\ run'.before = before /\ run'.ready = ready
      BY <2>1
    <2>3. run' \in Run
      BY <1>3, <1>4, <1>5, <2>1 DEF Live, Run
    <2>4. TypeOK'
      BY <1>7, <1>9, <2>1, <2>3 DEF TypeOK, Phases
    <2>5. LastInFirstOut'
      BY <1>7, <2>1, <2>2 DEF LastInFirstOut, Chained, Before
    <2>6. GoodEntries(run.ready, pending)'
      BY <2>1 DEF GoodEntries, WellOrdered
    <2>7. GoodRun'
      <3>1. Live(ready) /\ Sunk(ready, host', runs') /\ (again \/ ready.codes.sunk = 0)
        BY <1>1, <1>3, <1>5, <1>11 DEF Live, Sunk
      <3> QED
        BY <1>3, <1>6, <2>2, <3>1 DEF GoodRun
    <2>8. KeepsContexts(run.ready, ctx)'
      <3>1. ready.contexts \in Stack(ContextInfo) /\ Len(ready.contexts.items) \in Nat
        BY <1>5, MachineFields DEF Stack
      <3> QED
        BY <1>7, <2>1, <2>2, <3>1 DEF KeepsContexts
    <2> QED
      BY <1>5, <1>7, <1>11, <2>1, <2>4, <2>5, <2>6, <2>7, <2>8 DEF IInv
  <1> QED
    BY <1>10, <1>11

(* The size the host adds for the result and the parameters is the size it *)
(* takes away.                                                             *)
LEMMA FinishRunStep ==
    ASSUME IInv, FinishRun
    PROVE  IInv' /\ LeavesNoTrace
  <1> DEFINE call == run.call
             size == call.result + call.params
             left == ScopeUnallocate(ctx, size, 0)
             b == run.before
             f == run.found
  <1>1. /\ phase = "returned" /\ ctx' = left /\ phase' = "idle" /\ run' = NoRun
        /\ UNCHANGED <<pending, host, runs, failed>>
    BY DEF FinishRun
  <1>2. /\ Live(ctx) /\ Chained(run.ready, pending, ctx) /\ pending = <<>>
        /\ Live(b) /\ Live(run.ready) /\ run.ready = PrepareCall(b, call)
        /\ Live(f) /\ b = (IF run.again THEN ScopeUnallocate(f, 0, 0) ELSE f)
        /\ f.offset = 0 /\ call \in [result : Nat, params : Nat]
        /\ Sunk(run.ready, host, runs)
        /\ host \in {"task", "global"} /\ runs \in 0..MaxRuns /\ failed \in BOOLEAN
    BY <1>1, Here DEF IInv, GoodRun, TypeOK, Run
  <1> HIDE DEF b, f
  <1>11. /\ b.offset = 0 /\ b.allocated = f.allocated /\ b.contexts = f.contexts
         /\ b.codes = IF run.again THEN Pop(f.codes) ELSE f.codes
    BY <1>2, AgainFields
  <1>3. Stacks(ctx) = Stacks(run.ready)
    BY <1>2 DEF Chained, Before
  <1>4. size \in Nat
    BY <1>2
  <1>5. /\ ctx.offset = 0 /\ ctx.contexts = b.contexts
        /\ ctx.codes = Push(b.codes, 0)
        /\ ctx.allocated = SetTop(b.allocated, Top(b.allocated) + size)
    BY <1>2, <1>3, <1>11, PrepareFields DEF Stacks, Live
  <1>12. run.ready.codes.sunk = b.codes.sunk
    BY <1>2, PrepareFields
  <1>6. /\ b.allocated \in Stack(Nat) /\ Holds(b.allocated) /\ b.codes \in Stack(Nat)
    BY <1>2, MachineFields DEF Live
  <1> HIDE DEF size
  <1>7. /\ Live(left) /\ left.offset = ctx.offset /\ left.contexts = ctx.contexts
        /\ left.codes = Pop(ctx.codes)
        /\ left.allocated = SetTop(ctx.allocated, IF Top(ctx.allocated) < size THEN 0
                                                   ELSE Top(ctx.allocated) - size)
    <2>1. 0 \in Nat
      OBVIOUS
    <2>2. Live(ctx)
      BY <1>2
    <2> QED
      BY <1>4, <2>1, <2>2, ScopeUnallocateFields
  <1> HIDE DEF left
  <1>8. left.codes = b.codes /\ left.allocated = b.allocated
    BY <1>4, <1>5, <1>6, <1>7, PushPop, UnallocateUndoes
  <1>9. Sunk(left, host, runs)
    BY <1>2, <1>8, <1>12 DEF Sunk
  <1>10. IInv'
    <2>1. /\ Live(left) /\ left.offset = 0 /\ left \in Machine /\ ~ left.raised
          /\ Holds(left.allocated)
      BY <1>5, <1>7 DEF Live
    <2>2. TypeOK' /\ LastInFirstOut' /\ GoodEntries(run.ready, pending)'
      BY <1>1, <1>2, <2>1, NoRunType
         DEF TypeOK, Phases, LastInFirstOut, GoodEntries, WellOrdered
    <2> QED
      BY <1>1, <1>9, <2>1, <2>2 DEF IInv
  <1>13. LeavesNoTrace
    BY <1>1, <1>2, <1>5, <1>7, <1>8, <1>11 DEF LeavesNoTrace, f
  <1> QED
    BY <1>10, <1>13

(* Popping down to the host's number of scopes finds the host's scopes.    *)
LEMMA PopContextsToFields ==
    ASSUME NEW m \in Machine, NEW low \in Machine, KeepsContexts(low, m)
    PROVE  LET r == PopContextsTo(m, Len(low.contexts.items)) IN
           /\ r \in Machine
           /\ r.contexts = low.contexts /\ r.codes = m.codes
           /\ r.offset = m.offset /\ r.allocated = m.allocated /\ r.raised = m.raised
  <1> DEFINE d == Len(low.contexts.items)
             infos == SubSeq(m.contexts.items, 1, d)
             stack == [m.contexts EXCEPT !.items = infos]
             command == m.contexts.items[d + 1].command
             r == [m EXCEPT !.command = command, !.contexts = stack]
  <1>1. /\ m.contexts \in Stack(ContextInfo) /\ low.contexts \in Stack(ContextInfo)
    BY MachineFields
  <1>2. /\ m.contexts = [items |-> m.contexts.items, sunk |-> m.contexts.sunk]
        /\ low.contexts = [items |-> low.contexts.items, sunk |-> low.contexts.sunk]
        /\ m.contexts.items \in Seq(ContextInfo) /\ low.contexts.items \in Seq(ContextInfo)
        /\ d \in Nat /\ d <= Len(m.contexts.items) /\ m.contexts.sunk = low.contexts.sunk
        /\ \A k \in 1..d : m.contexts.items[k] = low.contexts.items[k]
    BY <1>1 DEF Stack, KeepsContexts
  <1>3. infos = low.contexts.items
    BY <1>2
  <1>4. stack = low.contexts
    <2>1. stack = [items |-> infos, sunk |-> m.contexts.sunk]
      BY <1>1 DEF Stack
    <2> QED
      BY <1>2, <1>3, <2>1
  <1>5. CASE Len(m.contexts.items) <= d
    <2>1. infos = m.contexts.items
      BY <1>2, <1>5
    <2>2. m.contexts = low.contexts
      BY <1>2, <1>3, <2>1
    <2>3. PopContextsTo(m, d) = m
      BY <1>5 DEF PopContextsTo
    <2> QED
      BY <2>2, <2>3
  <1>6. CASE ~ Len(m.contexts.items) <= d
    <2>1. PopContextsTo(m, d) = [m EXCEPT !.command = command, !.contexts.items = infos]
      BY <1>6, <1>1 DEF PopContextsTo, Machine, Stack
    <2>2. PopContextsTo(m, d) = r
      BY <2>1 DEF Machine
    <2>3. command \in Command
      <3>1. d + 1 \in 1..Len(m.contexts.items)
        BY <1>2, <1>6
      <3>2. m.contexts.items[d + 1] \in ContextInfo
        BY <1>2, <3>1
      <3> QED
        BY <3>2 DEF ContextInfo
    <2>4. stack \in Stack(ContextInfo)
      BY <1>1, <1>4
    <2> HIDE DEF stack, command
    <2>5. /\ r \in Machine /\ r.contexts = stack /\ r.codes = m.codes /\ r.offset = m.offset
          /\ r.allocated = m.allocated /\ r.raised = m.raised
      BY <2>3, <2>4 DEF Machine
    <2> HIDE DEF r
    <2> QED
      BY <1>4, <2>2, <2>5
  <1> QED
    BY <1>5, <1>6

LEMMA CatchStep ==
    ASSUME IInv, Catch
    PROVE  IInv' /\ Unwinds
  <1> DEFINE depth == Len(run.ready.contexts.items)
             caught  == [ctx EXCEPT !.raised = FALSE]
             unwound == IF HasBackup THEN PopContextsTo(caught, depth) ELSE caught
             size == run.ready.offset - unwound.offset
             moved == [unwound EXCEPT !.offset = @ + size]
             left == MoveOffset(unwound, size)
  <1>1. /\ phase = "raised" /\ ctx' = left /\ pending' = <<>> /\ phase' = "idle"
        /\ run' = NoRun /\ failed' = TRUE /\ UNCHANGED <<host, runs>>
    BY DEF Catch
  <1>2. /\ ctx \in Machine /\ Holds(ctx.allocated) /\ KeepsContexts(run.ready, ctx)
        /\ Live(run.before) /\ Live(run.ready) /\ Live(run.found) /\ run.found.offset = 0
        /\ run.call \in [result : Nat, params : Nat]
        /\ run.before = (IF run.again THEN ScopeUnallocate(run.found, 0, 0) ELSE run.found)
        /\ run.ready = PrepareCall(run.before, run.call)
        /\ Sunk(run.ready, host, runs)
        /\ host \in {"task", "global"} /\ runs \in 0..MaxRuns
    BY <1>1 DEF IInv, GoodRun, TypeOK, Run
  <1>13. run.before.offset = run.found.offset /\ run.before.contexts = run.found.contexts
    BY <1>2, AgainFields
  <1>3. run.ready.offset = 0 /\ run.ready.contexts = run.found.contexts
    BY <1>2, <1>13, PrepareFields
  <1>4. /\ caught \in Machine /\ ~ caught.raised /\ Holds(caught.allocated)
        /\ KeepsContexts(run.ready, caught)
        /\ caught.codes.sunk = run.ready.codes.sunk
    BY <1>2 DEF Machine, KeepsContexts
  <1> HIDE DEF caught
  <1>5. /\ unwound \in Machine /\ ~ unwound.raised /\ Holds(unwound.allocated)
        /\ unwound.codes = caught.codes
        /\ HasBackup => unwound.contexts = run.ready.contexts
    BY <1>2, <1>4, PopContextsToFields DEF Live
  <1> HIDE DEF unwound
  <1>6. unwound.offset \in Nat /\ unwound.offset + size = 0
    BY <1>3, <1>5, MachineFields
  <1>7. ~ unwound.offset + size > Capacity
    BY <1>6, MemoryAssumption
  <1>8. left = moved
    BY <1>5, <1>7 DEF MoveOffset
  <1>9. moved = [unwound EXCEPT !.offset = 0]
    BY <1>6
  <1>10. /\ left \in Machine /\ ~ left.raised /\ Holds(left.allocated)
         /\ left.offset = 0 /\ left.contexts = unwound.contexts
         /\ left.codes = unwound.codes
    BY <1>5, <1>8, <1>9 DEF Machine
  <1> HIDE DEF left, moved, size
  <1>11. IInv'
    <2>1. TypeOK' /\ LastInFirstOut' /\ GoodEntries(run.ready, pending)'
      BY <1>1, <1>2, <1>10, NoRunType
         DEF TypeOK, Phases, LastInFirstOut, GoodEntries, WellOrdered
    <2>2. Sunk(left, host, runs)
      BY <1>2, <1>4, <1>5, <1>10 DEF Sunk
    <2> QED
      BY <1>1, <1>10, <2>1, <2>2 DEF IInv
  <1>12. Unwinds
    BY <1>1, <1>2, <1>3, <1>5, <1>10 DEF Unwinds
  <1> QED
    BY <1>11, <1>12
-----------------------------------------------------------------------------
LEMMA InitIInv == Init => IInv
  <1> SUFFICES ASSUME Init PROVE IInv
    OBVIOUS
  <1>1. Live(ctx) /\ ctx.offset = 0 /\ ctx.codes.sunk = 0
    <2>1. CASE ctx = NewContext
      BY <2>1, NewContextLive
    <2>2. CASE \E scope \in Scopes : ctx = EnterContextScope(NewContext, scope) /\ ~ ctx.raised
      <3>1. PICK scope \in Scopes :
              ctx = EnterContextScope(NewContext, scope) /\ ~ ctx.raised
        BY <2>2
      <3>2. scope \in ScopeInfo
        BY CodeAssumption
      <3> QED
        BY <3>1, <3>2, NewContextLive, EnterScopeFields DEF Live, KeepsContexts
    <2> QED
      BY <2>1, <2>2 DEF Init, FirstContexts
  <1>2. /\ pending = <<>> /\ phase = "idle" /\ run = NoRun /\ failed = FALSE
        /\ host \in {"task", "global"} /\ runs \in 0..MaxRuns
    BY HostsAssumption DEF Init
  <1> QED
    BY <1>1, <1>2, NoRunType, IdleStep DEF Sunk

(* What is left longer is not left.                                        *)
LEMMA NothingLeft ==
    ASSUME IInv, phase \in {"ready", "script"},
           \/ Len(pending') = Len(pending)
           \/ \E m, e : Proceed(m, Append(pending, e))
    PROVE  RestoresCaller
  <1>1. pending \in Seq(Entry)
    BY DEF IInv, TypeOK
  <1>2. ~ Len(pending') < Len(pending)
    <2>1. CASE Len(pending') = Len(pending)
      BY <1>1, <2>1
    <2>2. CASE \E m, e : Proceed(m, Append(pending, e))
      <3>1. PICK m, e : Proceed(m, Append(pending, e))
        BY <2>2
      <3>2. pending' = pending \/ pending' = Append(pending, e)
        BY <3>1 DEF Proceed
      <3>3. Len(Append(pending, e)) = Len(pending) + 1 /\ Len(pending) \in Nat
        <4>1. Append(pending, e) = pending \o <<e>>
          BY <1>1
        <4> QED
          BY <1>1, <4>1
      <3> QED
        BY <3>2, <3>3
    <2> QED
      BY <2>1, <2>2
  <1> QED
    BY <1>2 DEF RestoresCaller

GivesBack == LeavesNoTrace /\ Unwinds /\ KeepsControl

LEMMA NotLost ==
    ASSUME phase' # "lost" \/ phase' = phase
    PROVE  KeepsControl
  BY DEF KeepsControl

(* Every step keeps the invariant and does what the action properties say. *)
LEMMA Steps ==
    ASSUME IInv, Next
    PROVE  IInv' /\ RestoresCaller /\ GivesBack
  <1>1. ASSUME phase \in {"ready", "script"}, phase' # "lost" PROVE GivesBack
    BY <1>1, NotLost DEF GivesBack, LeavesNoTrace, Unwinds
  <1>16. ASSUME NEW m, NEW entries, Proceed(m, entries)
         PROVE  phase' # "lost"
    BY <1>16 DEF Proceed
  <1>2. ASSUME NEW call \in HostCalls, NEW fresh \in BOOLEAN, RunFunction(call, fresh)
        PROVE  IInv' /\ RestoresCaller /\ GivesBack
    <2>1. /\ phase = "idle" /\ phase' # "lost" /\ pending' = pending
          /\ pending \in Seq(Entry)
      BY <1>2 DEF RunFunction, IInv, TypeOK
    <2>2. GivesBack
      BY <2>1, NotLost DEF GivesBack, LeavesNoTrace, Unwinds
    <2> QED
      BY <1>2, <2>1, <2>2, RunFunctionStep DEF RestoresCaller
  <1>3. ASSUME NEW s \in Sites \union {HostCommand, NullCommand}, NEW call \in Calls,
               Call(s, call)
        PROVE  IInv' /\ RestoresCaller /\ GivesBack
    <2>1. phase \in {"ready", "script"} /\ \E m, e : Proceed(m, Append(pending, e))
      BY <1>3 DEF Call, Calling, InScope, Running
    <2> QED
      BY <1>1, <1>16, <1>3, <2>1, CallStep, NothingLeft
  <1>4. ASSUME NEW scope \in Scopes, EnterFunction(scope)
        PROVE  IInv' /\ RestoresCaller /\ GivesBack
    <2>1. phase \in {"ready", "script"} /\ \E m, e : Proceed(m, Append(pending, e))
      BY <1>4 DEF EnterFunction, Running
    <2> QED
      BY <1>1, <1>16, <1>4, <2>1, EnterFunctionStep, NothingLeft
  <1>5. ASSUME NEW s \in Sites, NEW kind \in {"block", "loop"}, NEW scope \in Scopes,
               OpenScope(s, kind, scope)
        PROVE  IInv' /\ RestoresCaller /\ GivesBack
    <2>1. phase \in {"ready", "script"} /\ \E m, e : Proceed(m, Append(pending, e))
      BY <1>5 DEF OpenScope, Straight, InScope, Running
    <2> QED
      BY <1>1, <1>16, <1>5, <2>1, OpenScopeStep, NothingLeft
  <1>6. ASSUME NEW s \in Sites, NEW code \in MemberCodes, OpenMembers(s, code)
        PROVE  IInv' /\ RestoresCaller /\ GivesBack
    <2>1. phase \in {"ready", "script"} /\ \E m, e : Proceed(m, Append(pending, e))
      BY <1>6 DEF OpenMembers, InScope, Running
    <2> QED
      BY <1>1, <1>16, <1>6, <2>1, OpenMembersStep, NothingLeft
  <1>7. ASSUME CloseMembers
        PROVE  IInv' /\ RestoresCaller /\ GivesBack
    BY <1>1, <1>16, <1>7, CloseMembersStep DEF CloseMembers, Running
  <1>8. ASSUME NEW s \in Sites, LoopBack(s)
        PROVE  IInv' /\ RestoresCaller /\ GivesBack
    BY <1>1, <1>16, <1>8, LoopBackStep, NothingLeft DEF LoopBack, Straight, InScope, Running
  <1>9. ASSUME NEW s \in Sites, NEW leave \in {"break", "continue", "return"},
               Leave(s, leave)
        PROVE  IInv' /\ RestoresCaller /\ GivesBack
    BY <1>1, <1>16, <1>9, LeaveStep, NothingLeft DEF Leave, Straight, InScope, Running
  <1>10. ASSUME NEW jumped \in BOOLEAN, ExitScope(jumped)
         PROVE  IInv' /\ RestoresCaller /\ GivesBack
    BY <1>1, <1>16, <1>10, ExitScopeStep DEF ExitScope, InScope, Running
  <1>11. ASSUME NEW condition \in Sites, ContinueLoop(condition)
         PROVE  IInv' /\ RestoresCaller /\ GivesBack
    BY <1>1, <1>16, <1>11, ContinueLoopStep, NothingLeft DEF ContinueLoop, InScope, Running
  <1>12. ASSUME ExitFunction
         PROVE  IInv' /\ RestoresCaller /\ GivesBack
    <2>1. phase = "script" /\ phase' # "lost"
      BY <1>12 DEF ExitFunction, InScope, Running
    <2> QED
      BY <1>1, <1>12, <2>1, ExitFunctionStep
  <1>13. ASSUME NEW s \in Sites \union {NullCommand}, NativeThrow(s)
         PROVE  IInv' /\ RestoresCaller /\ GivesBack
    BY <1>1, <1>16, <1>13, NativeThrowStep, NothingLeft DEF NativeThrow, Running
  <1>14. ASSUME FinishRun
         PROVE  IInv' /\ RestoresCaller /\ GivesBack
    <2>1. phase = "returned" /\ phase' = "idle"
      BY <1>14 DEF FinishRun
    <2> QED
      BY <1>14, <2>1, FinishRunStep, NotLost DEF RestoresCaller, GivesBack, Unwinds
  <1>15. ASSUME Catch
         PROVE  IInv' /\ RestoresCaller /\ GivesBack
    <2>1. phase = "raised" /\ phase' = "idle"
      BY <1>15 DEF Catch
    <2> QED
      BY <1>15, <2>1, CatchStep, NotLost DEF RestoresCaller, GivesBack, LeavesNoTrace
  <1>17. ASSUME NEW s \in Sites \union {HostCommand, NullCommand}, NEW call \in Calls,
                LoseControl(s, call)
         PROVE  IInv' /\ RestoresCaller /\ GivesBack
    <2>1. pending' = pending /\ pending \in Seq(Entry)
      BY <1>17 DEF LoseControl, IInv, TypeOK
    <2> QED
      BY <1>17, <2>1, LoseControlStep
         DEF RestoresCaller, GivesBack, LeavesNoTrace, Unwinds
  <1> QED
    BY <1>2, <1>3, <1>4, <1>5, <1>6, <1>7, <1>8, <1>9, <1>10, <1>11, <1>12, <1>13,
       <1>14, <1>15, <1>17 DEF Next

(* A step that changes no variable changes nothing that is spoken of.      *)
LEMMA Stutters ==
    ASSUME IInv, UNCHANGED vars
    PROVE  IInv' /\ RestoresCaller /\ GivesBack
  <1>1. /\ ctx' = ctx /\ pending' = pending /\ phase' = phase /\ run' = run
        /\ host' = host /\ runs' = runs /\ failed' = failed
    BY DEF vars
  <1>2. IInv'
    <2>1. TypeOK' /\ LastInFirstOut'
      BY <1>1 DEF IInv, TypeOK, LastInFirstOut
    <2>2. GoodEntries(run.ready, pending)' /\ GoodRun' = GoodRun /\ Inner' = Inner
      BY <1>1 DEF IInv, GoodRun, Inner
    <2> QED
      BY <1>1, <2>1, <2>2 DEF IInv
  <1>3. pending \in Seq(Entry)
    BY DEF IInv, TypeOK
  <1>4. RestoresCaller
    BY <1>1, <1>3 DEF RestoresCaller
  <1>5. GivesBack
    BY <1>1, NotLost DEF GivesBack, LeavesNoTrace, Unwinds
  <1> QED
    BY <1>2, <1>4, <1>5
-----------------------------------------------------------------------------
(* Where the memory of the next entry begins: a scope is followed at the   *)
(* end of its variables, a call at the end of the caller's scratch bytes.  *)
LEMMA Extents ==
    ASSUME IInv, phase = "script", NEW i \in 1..Len(pending)
    PROVE  LET e == pending[i]
               next == Before(pending, ctx, i + 1)
           IN  /\ e \in Entry /\ FreeAt(e.from) \in Nat
               /\ IsScope(e) =>
                     /\ FreeAt(next) = DataEnd(e) /\ Top(next.codes) = e.scope.code
                     /\ CodeEnd(e) <= Capacity
               /\ ~ IsScope(e) =>
                     /\ Top(e.from.codes) \in Nat
                     /\ FreeAt(next) = FreeAt(e.from) + Top(e.from.codes)
  <1> DEFINE e == pending[i]
             f == e.from
             after == Entered(e)
             next == Before(pending, ctx, i + 1)
  <1>1. /\ e \in Entry /\ Live(f) /\ Holds(f.codes) /\ ~ after.raised
        /\ Stacks(next) = Stacks(after)
    BY Here DEF Chained, GoodEntries, GoodEntry
  <1>2. /\ FreeAt(next) = FreeAt(after) /\ next.codes = after.codes
    BY <1>1 DEF Stacks, FreeAt, Used
  <1> HIDE DEF next
  <1>3. /\ f \in Machine /\ f.offset \in Nat /\ f.allocated \in Stack(Nat)
        /\ Holds(f.allocated) /\ f.codes \in Stack(Nat)
    BY <1>1, MachineFields DEF Live
  <1>4. /\ Top(f.allocated) \in Nat /\ Top(f.codes) \in Nat
        /\ e.scope \in ScopeInfo /\ e.scope.data \in Nat /\ e.scope.code \in Nat
        /\ e.call \in CallInfo
    BY <1>1, <1>3, SetTopOfStack DEF Entry, ScopeInfo
  <1>5. FreeAt(f) \in Nat
    BY <1>3, <1>4 DEF FreeAt, Used
  <1>6. CASE e.kind = "call"
    <2> DEFINE used == Top(f.allocated) + Top(f.codes)
    <2>1. after = CallScriptFunction(f, e.call)
      BY <1>6 DEF Entered
    <2>2. /\ after.offset = f.offset + used
          /\ after.allocated = Push(SetTop(f.allocated, used), 0)
      BY <1>1, <1>4, <2>1, CallFields
    <2>3. used \in Nat
      BY <1>4
    <2> HIDE DEF used
    <2>4. SetTop(f.allocated, used) \in Stack(Nat)
      BY <1>3, <2>3, SetTopOfStack
    <2>5. Top(after.allocated) = 0
      BY <2>2, <2>4, PushPop
    <2>6. FreeAt(after) = FreeAt(f) + Top(f.codes)
      BY <1>3, <1>4, <2>2, <2>5 DEF FreeAt, Used, used
    <2> QED
      BY <1>1, <1>2, <1>4, <1>5, <1>6, <2>6 DEF IsScope, next
  <1>7. CASE e.kind # "call"
    <2>1. /\ after.offset = f.offset
          /\ after.allocated = SetTop(f.allocated, Top(f.allocated) + e.scope.data)
          /\ Top(after.codes) = e.scope.code
          /\ FreeAt(f) + e.scope.data + e.scope.code <= Capacity
      <3>1. /\ Push(f.codes, 0) \in Stack(Nat)
            /\ Top(Push(f.codes, e.scope.code)) = e.scope.code
        BY <1>3, <1>4, PushPop
      <3>2. Top(Push(Push(f.codes, 0), e.scope.code)) = e.scope.code
        BY <1>4, <3>1, PushPop
      <3>3. CASE e.kind = "members"
        <4>1. after = BeginMembers(f, e.scope.data, e.scope.code)
          BY <3>3 DEF Entered
        <4> HIDE DEF after, f, e
        <4>2. FreeAt(f) + e.scope.data + e.scope.code <= Capacity
          BY <1>1, <1>4, <4>1, BeginMembersFits
        <4>3. /\ after.offset = f.offset
              /\ after.allocated = SetTop(f.allocated, Top(f.allocated) + e.scope.data)
              /\ after.codes = Push(Push(f.codes, 0), e.scope.code)
          BY <1>1, <1>4, <4>1, BeginMembersFields
        <4> QED
          BY <3>2, <4>2, <4>3
      <3>4. CASE e.kind # "members"
        <4>1. after = EnterContextScope(f, e.scope)
          BY <1>7, <3>4 DEF Entered
        <4> HIDE DEF after, f, e
        <4>2. FreeAt(f) + e.scope.data + e.scope.code <= Capacity
          BY <1>1, <1>4, <4>1, EnterFits
        <4>3. /\ after.offset = f.offset
              /\ after.allocated = SetTop(f.allocated, Top(f.allocated) + e.scope.data)
              /\ after.codes = Push(f.codes, e.scope.code)
          BY <1>1, <1>4, <4>1, EnterScopeFields
        <4> QED
          BY <3>1, <4>2, <4>3
      <3> QED
        BY <3>3, <3>4
    <2>2. Top(f.allocated) + e.scope.data \in Nat
      BY <1>4
    <2>3. Top(after.allocated) = Top(f.allocated) + e.scope.data
      BY <1>3, <2>1, <2>2, SetTopOfStack
    <2>4. FreeAt(after) = DataEnd(e)
      BY <1>3, <1>4, <2>1, <2>3 DEF FreeAt, Used, DataEnd
    <2> QED
      BY <1>1, <1>2, <1>5, <1>7, <2>1, <2>4 DEF IsScope, DataEnd, CodeEnd, next
  <1> QED
    BY <1>6, <1>7

(* The memory of each entry is inside, and the next entry begins where its *)
(* variables end or, when the scratch bytes are kept, behind these.        *)
LEMMA EntryExtents ==
    ASSUME IInv, phase = "script", NEW i \in 1..Len(pending)
    PROVE  LET a == Activation(pending[i])
               b == Activation(pending[i + 1])
           IN  /\ a.begin \in Nat /\ a.end \in Nat /\ a.scratch \in Nat
               /\ a.begin <= a.end /\ a.end <= a.scratch /\ a.scratch <= Capacity
               /\ i + 1 \in 1..Len(pending) =>
                     a.end <= b.begin /\ Promised!HeldBy(a, b) <= b.begin
  <1> DEFINE e == pending[i]
             d == pending[i + 1]
             a == Activation(e)
             b == Activation(d)
             next == Before(pending, ctx, i + 1)
  <1>1. /\ e \in Entry /\ FreeAt(e.from) \in Nat /\ Live(e.from) /\ Holds(e.from.codes)
        /\ IsScope(e) =>
              /\ FreeAt(next) = DataEnd(e) /\ Top(next.codes) = e.scope.code
              /\ CodeEnd(e) <= Capacity
        /\ ~ IsScope(e) =>
              /\ Top(e.from.codes) \in Nat /\ FreeAt(next) = FreeAt(e.from) + Top(e.from.codes)
              /\ ~ Entered(e).raised
    BY Extents, Here DEF GoodEntries, GoodEntry
  <1>2. e.scope.data \in Nat /\ e.scope.code \in Nat /\ e.call \in CallInfo
    BY <1>1 DEF Entry, ScopeInfo
  <1>3. ~ IsScope(e) => FrameAt(e) <= Capacity
    <2> SUFFICES ASSUME ~ IsScope(e) PROVE FrameAt(e) <= Capacity
      OBVIOUS
    <2>1. Entered(e) = CallScriptFunction(e.from, e.call)
      BY DEF IsScope, Entered
    <2> HIDE DEF e
    <2> QED
      BY <1>1, <1>2, <2>1, CallFits DEF FrameAt
  <1>4. /\ a.begin = IF IsScope(e) THEN Begin(e) ELSE FrameAt(e)
        /\ a.end = IF IsScope(e) THEN DataEnd(e) ELSE FrameAt(e)
        /\ a.scratch = IF IsScope(e) THEN CodeEnd(e) ELSE FrameAt(e)
        /\ b.begin = IF IsScope(d) THEN Begin(d) ELSE FrameAt(d)
        /\ Promised!HeldBy(a, b) = IF d.kind \in {"call", "members"} THEN a.scratch ELSE a.end
    BY DEF Activation, Promised!HeldBy, Promised!KeepsScratch
  <1> HIDE DEF a, b
  <1>5. /\ a.begin \in Nat /\ a.end \in Nat /\ a.scratch \in Nat
        /\ a.begin <= a.end /\ a.end <= a.scratch /\ a.scratch <= Capacity
        /\ FreeAt(next) = a.end
    BY <1>1, <1>2, <1>3, <1>4 DEF Begin, DataEnd, CodeEnd, FrameAt
  <1>6. ASSUME i + 1 \in 1..Len(pending)
        PROVE  a.end <= b.begin /\ Promised!HeldBy(a, b) <= b.begin
    <2>1. next = d.from
      BY <1>6 DEF Before
    <2>2. d.scope.data \in Nat /\ (~ IsScope(d) => Top(d.from.codes) \in Nat)
      <3>1. d \in Entry /\ (~ IsScope(d) => Top(d.from.codes) \in Nat)
        BY <1>6, Extents
      <3> QED
        BY <3>1 DEF Entry, ScopeInfo
    <2>3. a.end <= b.begin
      BY <1>4, <1>5, <2>1, <2>2 DEF Begin, DataEnd, FrameAt
    <2>4. CASE d.kind \in {"call", "members"}
      <3>1. IsScope(e) /\ (d.kind = "members" => d.scope.data = e.scope.code)
        <4>1. GoodEntries(run.ready, pending) /\ (i + 1) - 1 = i /\ i + 1 > 1
          BY Here
        <4> QED
          BY <1>6, <2>4, <4>1 DEF GoodEntries, WellOrdered, IsScope
      <3>2. a.scratch = a.end + e.scope.code
        BY <1>4, <3>1 DEF CodeEnd
      <3>3. b.begin = a.end + e.scope.code
        BY <1>1, <1>4, <1>5, <2>1, <2>4, <3>1 DEF IsScope, Begin, DataEnd, FrameAt
      <3> QED
        BY <1>2, <1>4, <1>5, <2>3, <2>4, <3>2, <3>3
    <2>5. CASE d.kind \notin {"call", "members"}
      BY <1>4, <2>3, <2>5
    <2> QED
      BY <2>4, <2>5
  <1> QED
    BY <1>5, <1>6 DEF a, b

(* What Activations asks of the memory of what is entered, for all entries. *)
Apart ==
    phase = "script" =>
        \A i \in 1..Len(pending) :
            /\ 0 <= Activation(pending[i]).begin
            /\ Activation(pending[i]).begin <= Activation(pending[i]).end
            /\ Activation(pending[i]).end <= Activation(pending[i]).scratch
            /\ Activation(pending[i]).scratch <= Capacity
            /\ \A j \in (i + 1)..Len(pending) :
                  Promised!HeldBy(Activation(pending[i]), Activation(pending[i + 1]))
                  <= Activation(pending[j]).begin

(* No later entry begins before the end of an earlier one: the entry after *)
(* it does not, and from there on the beginnings only grow.                *)
LEMMA EntriesApart ==
    ASSUME IInv
    PROVE  Apart
  <1> SUFFICES ASSUME phase = "script", NEW i \in 1..Len(pending),
                      NEW j \in (i + 1)..Len(pending)
               PROVE  Promised!HeldBy(Activation(pending[i]), Activation(pending[i + 1]))
                      <= Activation(pending[j]).begin
    BY EntryExtents DEF Apart
  <1> DEFINE n == Len(pending)
             f == [k \in 1..n |-> Activation(pending[k]).begin]
             held == Promised!HeldBy(Activation(pending[i]), Activation(pending[i + 1]))
  <1>1. n \in Nat
    BY Here
  <1>2. i + 1 \in 1..n /\ j \in 1..n /\ i + 1 <= j
    BY <1>1
  <1>3. \A k \in 1..n : f[k] = Activation(pending[k]).begin
    OBVIOUS
  <1>4. \A k \in 1..n : k + 1 \in 1..n => f[k] <= f[k + 1]
    <2> SUFFICES ASSUME NEW k \in 1..n, k + 1 \in 1..n PROVE f[k] <= f[k + 1]
      OBVIOUS
    <2> DEFINE a == Activation(pending[k])
               b == Activation(pending[k + 1])
    <2>1. /\ a.begin \in Nat /\ a.end \in Nat /\ b.begin \in Nat
          /\ a.begin <= a.end /\ a.end <= b.begin
      BY EntryExtents
    <2>2. f[k] = a.begin /\ f[k + 1] = b.begin
      BY <1>3
    <2> HIDE DEF a, b, f
    <2> QED
      BY <2>1, <2>2
  <1>5. /\ \A k \in 1..n : f[k] \in Int
        /\ held <= f[i + 1] /\ held \in Int
    <2>1. \A k \in 1..n : f[k] \in Int
      BY EntryExtents
    <2>2. held <= Activation(pending[i + 1]).begin
      BY <1>2, EntryExtents
    <2>3. held \in Int
      BY EntryExtents DEF Promised!HeldBy
    <2> QED
      BY <1>2, <1>3, <2>1, <2>2, <2>3
  <1> HIDE DEF f, n, held
  <1>6. \A k \in 1..n : k <= j => f[k] <= f[j]
    BY <1>1, <1>2, <1>4, <1>5, Grows
  <1>7. f[i + 1] <= f[j] /\ f[i + 1] \in Int /\ f[j] \in Int
    BY <1>2, <1>5, <1>6
  <1>8. held <= f[j]
    BY <1>5, <1>7
  <1> QED
    BY <1>2, <1>3, <1>8 DEF held

LEMMA ScopesApart ==
    ASSUME Apart, pending \in Seq(Entry)
    PROVE  MemoryApart
  <1> SUFFICES ASSUME phase = "script", NEW i \in 1..Len(pending), IsScope(pending[i])
               PROVE  /\ 0 <= Begin(pending[i])
                      /\ CodeEnd(pending[i]) <= Capacity
                      /\ \A j \in (i + 1)..Len(pending) : IsScope(pending[j]) =>
                            (IF pending[i + 1].kind \in {"call", "members"}
                               THEN CodeEnd(pending[i]) ELSE DataEnd(pending[i]))
                            <= Begin(pending[j])
    BY DEF MemoryApart
  <1>1. \A k : IsScope(pending[k]) =>
           /\ Activation(pending[k]).begin = Begin(pending[k])
           /\ Activation(pending[k]).end = DataEnd(pending[k])
           /\ Activation(pending[k]).scratch = CodeEnd(pending[k])
    BY DEF Activation
  <1>2. \A k : Activation(pending[k]).kind = pending[k].kind
    BY DEF Activation
  <1> QED
    BY <1>1, <1>2 DEF Apart, Promised!HeldBy, Promised!KeepsScratch
-----------------------------------------------------------------------------
(* The invariant holds in every state of every run.                        *)
THEOREM Invariant == Spec => []IInv
  <1>1. Init => IInv
    BY InitIInv
  <1>2. IInv /\ [Next]_vars => IInv'
    BY Steps, Stutters
  <1> QED
    BY <1>1, <1>2, PTL DEF Spec

(* The state of a run of scripts is well formed, and the phases agree with *)
(* what is pending and raised (ScriptRunner::runFunction and the commands  *)
(* it executes).                                                           *)
THEOREM TypeCorrect == Spec => []TypeOK
  <1>1. IInv => TypeOK
    BY DEF IInv
  <1> QED
    BY <1>1, Invariant, PTL

(* For every memory, code and number of slots: on every way through the    *)
(* code the context's stacks are what entering the open functions and      *)
(* scopes has made them (Context::pushScope to popContext).                *)
THEOREM StacksAreLastInFirstOut == Spec => []LastInFirstOut
  <1>1. IInv => LastInFirstOut
    BY DEF IInv
  <1> QED
    BY <1>1, Invariant, PTL

(* Every end, break, continue and return gives the caller or the outer     *)
(* scope back its offset, its stacks and the command to go on after        *)
(* (ExitContextScope, ExitFunctionAtTheEnd).                               *)
THEOREM ReturnsRestore == Spec => ReturnRestoresCaller
  <1>1. IInv /\ [Next]_vars => [RestoresCaller]_vars
    BY Steps, Stutters
  <1> QED
    BY <1>1, Invariant, PTL DEF Spec, ReturnRestoresCaller

(* However often a context is run on: a run that returns leaves the        *)
(* context its host found, less one scratch size when a task runs again;   *)
(* from whatever depth a run raises, the handler gives the host back its   *)
(* offset and its scopes; and nothing but a task that runs again, nested   *)
(* too deep or more than PointerCells times, can take control away         *)
(* (ScriptTask::runFunction, ScriptRunner::runFunction).                   *)
THEOREM RunsLeaveTheContext == Spec => RunsGiveBack
  <1>1. IInv /\ [Next]_vars => [LeavesNoTrace /\ Unwinds /\ KeepsControl]_vars
    BY Steps, Stutters DEF GivesBack
  <1> QED
    BY <1>1, Invariant, PTL DEF Spec, RunsGiveBack

(* However many functions and scopes are open, and in whatever order they  *)
(* were entered: the variables of each lie inside the memory and apart     *)
(* from those of every other, and so do the scratch bytes of a scope that  *)
(* calls a function or constructs members (pushScope, scopeAllocate).      *)
THEOREM MemoryIsApart == Spec => []MemoryApart
  <1>1. IInv => MemoryApart
    BY EntriesApart, ScopesApart DEF IInv, TypeOK
  <1> QED
    BY <1>1, Invariant, PTL
-----------------------------------------------------------------------------
(* The refinement of Activations.                                          *)

(* What Activations says of an entry depends on nothing but what SameEntry  *)
(* compares.                                                                *)
LEMMA SameActivation ==
    ASSUME NEW e, NEW f, SameEntry(e, f)
    PROVE  Activation(e) = Activation(f)
  BY DEF SameEntry, Activation, Back, IsScope, Begin, DataEnd, CodeEnd, FrameAt

LEMMA ActivatedFields ==
    ASSUME NEW entries \in Seq(Entry)
    PROVE  /\ Activated(entries) \in Seq({Activation(e) : e \in Entry})
           /\ Len(Activated(entries)) = Len(entries)
           /\ \A i \in 1..Len(entries) : Activated(entries)[i] = Activation(entries[i])
  BY DEF Activated

LEMMA ActivatedAppend ==
    ASSUME NEW entries \in Seq(Entry), NEW e \in Entry
    PROVE  Activated(Append(entries, e)) = Append(Activated(entries), Activation(e))
  <1> DEFINE A == {Activation(x) : x \in Entry}
             longer == Append(entries, e)
             a == Activated(longer)
             b == Append(Activated(entries), Activation(e))
             n == Len(entries)
  <1>1. /\ n \in Nat /\ longer \in Seq(Entry) /\ Len(longer) = n + 1 /\ longer[n + 1] = e
        /\ \A i \in 1..n : longer[i] = entries[i]
    OBVIOUS
  <1>2. /\ a \in Seq(A) /\ Len(a) = n + 1
        /\ \A i \in 1..(n + 1) : a[i] = Activation(longer[i])
    <2> HIDE DEF longer
    <2> QED
      BY <1>1, ActivatedFields
  <1>3. /\ Activated(entries) \in Seq(A) /\ Len(Activated(entries)) = n
        /\ \A i \in 1..n : Activated(entries)[i] = Activation(entries[i])
    BY ActivatedFields
  <1>4. Activation(e) \in A
    OBVIOUS
  <1> HIDE DEF A, longer, a
  <1>5. /\ b \in Seq(A) /\ Len(b) = n + 1 /\ b[n + 1] = Activation(e)
        /\ \A i \in 1..n : b[i] = Activation(entries[i])
    BY <1>1, <1>3, <1>4
  <1> HIDE DEF b
  <1>6. \A i \in 1..(n + 1) : a[i] = b[i]
    BY <1>1, <1>2, <1>5
  <1>7. a = b
    BY <1>1, <1>2, <1>5, <1>6
  <1> QED
    BY <1>7 DEF a, b, longer

LEMMA ActivatedPrefix ==
    ASSUME NEW entries \in Seq(Entry), NEW k \in 0..Len(entries),
           NEW rest \in Seq(Entry), Len(rest) = k,
           \A i \in 1..k : SameEntry(rest[i], entries[i])
    PROVE  Activated(rest) = SubSeq(Activated(entries), 1, k)
  <1> DEFINE A == {Activation(x) : x \in Entry}
             a == Activated(rest)
             b == SubSeq(Activated(entries), 1, k)
  <1>1. /\ a \in Seq(A) /\ Len(a) = k /\ \A i \in 1..k : a[i] = Activation(rest[i])
    BY ActivatedFields
  <1>2. /\ Activated(entries) \in Seq(A) /\ Len(Activated(entries)) = Len(entries)
        /\ \A i \in 1..Len(entries) : Activated(entries)[i] = Activation(entries[i])
    BY ActivatedFields
  <1> HIDE DEF A, a
  <1>3. /\ b \in Seq(A) /\ Len(b) = k /\ \A i \in 1..k : b[i] = Activation(entries[i])
    BY <1>2
  <1>4. \A i \in 1..k : a[i] = b[i]
    BY <1>1, <1>3, SameActivation
  <1> HIDE DEF b
  <1>5. a = b
    BY <1>1, <1>3, <1>4
  <1> QED
    BY <1>5 DEF a, b

LEMMA SameView ==
    ASSUME NEW m, NEW n, Stacks(m) = Stacks(n)
    PROVE  View(m) = View(n)
  BY DEF Stacks, View

(* A command that raises leaves all that is open to the handler.           *)
LEMMA RaiseMaps ==
    ASSUME phase \in {"ready", "script"}, NEW m, NEW entries, m.raised, Proceed(m, entries)
    PROVE  Promised!Raise
  BY DEF Proceed, Promised!Raise, HasBackup

(* Every way in writes down what is entered.                               *)
LEMMA EnterMaps ==
    ASSUME IInv, IInv', Apart', phase \in {"ready", "script"}, NEW e \in Entry,
           Stacks(e.from) = Stacks(ctx), NEW m, Proceed(m, Append(pending, e))
    PROVE  Promised!Enter \/ Promised!Raise
  <1>1. CASE m.raised
    BY <1>1, RaiseMaps
  <1>2. CASE ~ m.raised
    <2> DEFINE n == Len(pending)
               new == Activation(e)
               old == Activated(pending)
               now == Activated(pending')
    <2>1. pending' = Append(pending, e) /\ phase' = "script" /\ run' = run
      BY <1>2 DEF Proceed
    <2>2. /\ pending \in Seq(Entry) /\ pending' \in Seq(Entry) /\ n \in Nat
          /\ Len(pending') = n + 1 /\ pending'[n + 1] = e
          /\ \A i \in 1..n : pending'[i] = pending[i]
          /\ (phase = "ready" => n = 0) /\ (phase = "script" => n > 0)
      BY <2>1 DEF IInv, TypeOK
    <2>3. /\ Len(old) = n /\ \A i \in 1..n : old[i] = Activation(pending[i])
      BY <2>2, ActivatedFields
    <2>4. /\ Len(now) = n + 1 /\ \A i \in 1..(n + 1) : now[i] = Activation(pending'[i])
      BY <2>2, ActivatedFields
    <2>5. now = Append(old, new)
      BY <2>1, <2>2, ActivatedAppend
    <2>6. now[Len(now)] = new
      BY <2>2, <2>4
    <2>7. WellOrdered(pending')
      BY DEF IInv, GoodEntries
    <2>8. /\ new.kind = e.kind /\ new.from = View(e.from) /\ new.back = Back(e)
          /\ View(e.from) = View(ctx)
      BY SameView DEF Activation
    <2>9. phase = "ready" => new.kind = "call"
      BY <2>2, <2>7, <2>8 DEF WellOrdered
    <2>10. phase = "script" =>
              /\ Promised!Innermost = Activation(pending[n])
              /\ new.kind = "function" <=> pending[n].kind = "call"
              /\ new.kind = "function" => new.back = Activation(pending[n]).back
      <3> SUFFICES ASSUME phase = "script"
                   PROVE  /\ Promised!Innermost = Activation(pending[n])
                          /\ new.kind = "function" <=> pending[n].kind = "call"
                          /\ new.kind = "function" => new.back = Activation(pending[n]).back
        OBVIOUS
      <3>1. n \in 1..n /\ n + 1 \in 1..(n + 1) /\ (n + 1) - 1 = n /\ n + 1 > 1
        BY <2>2
      <3>2. pending'[n] = pending[n]
        BY <2>2, <3>1
      <3>3. /\ e.kind = "function" <=> pending[n].kind = "call"
            /\ e.kind = "function" => e.from.beforeJump = pending[n].from.command
        BY <2>2, <2>7, <3>1, <3>2 DEF WellOrdered
      <3>4. Promised!Innermost = Activation(pending[n])
        BY <2>3, <3>1 DEF Promised!Innermost
      <3>5. new.kind = "function" => new.back = Activation(pending[n]).back
        BY <2>8, <3>3 DEF Activation, Back
      <3> QED
        BY <2>8, <3>3, <3>4, <3>5
    <2>11. /\ 0 <= new.begin /\ new.begin <= new.end
           /\ new.end <= new.scratch /\ new.scratch <= Capacity
           /\ \A i \in 1..n : Promised!HeldBy(old[i], now[i + 1]) <= new.begin
      <3>1. n + 1 \in 1..Len(pending') /\ pending'[n + 1] = e
        BY <2>2
      <3>2. Apart' /\ phase' = "script"
        BY <2>1
      <3>3. /\ 0 <= new.begin /\ new.begin <= new.end
            /\ new.end <= new.scratch /\ new.scratch <= Capacity
        BY <3>1, <3>2 DEF Apart
      <3>4. ASSUME NEW i \in 1..n
            PROVE  Promised!HeldBy(old[i], now[i + 1]) <= new.begin
        <4>1. /\ i \in 1..Len(pending') /\ n + 1 \in (i + 1)..Len(pending')
              /\ i + 1 \in 1..(n + 1) /\ pending'[i] = pending[i]
          BY <2>2
        <4>2. Promised!HeldBy(Activation(pending'[i]), Activation(pending'[i + 1]))
                <= Activation(pending'[n + 1]).begin
          BY <3>2, <4>1 DEF Apart
        <4> QED
          BY <2>3, <2>4, <3>1, <4>1, <4>2
      <3> QED
        BY <3>3, <3>4
    <2>12. /\ View(run'.before) = View(run.before) /\ HasBackup' = HasBackup
      BY <2>1 DEF HasBackup
    <2>13. Activation(pending[n]).kind = pending[n].kind
      BY DEF Activation
    <2>14. Len(now) = Len(old) + 1
      BY <2>3, <2>4
    <2>15. phase = "script" => (new.kind = "function" <=> Promised!Innermost.kind = "call")
      BY <2>10, <2>13
    <2>16. phase = "script" /\ new.kind = "function" => new.back = Promised!Innermost.back
      BY <2>10
    <2>17. new.kind = "function" => new.back = Promised!Innermost.back
      BY <2>9, <2>16
    <2> HIDE DEF new, old, now
    <2>18. Promised!Enter
      BY <2>1, <2>3, <2>5, <2>6, <2>8, <2>9, <2>11, <2>12, <2>14, <2>15, <2>17
         DEF Promised!Enter, old, now
    <2> QED
      BY <2>18
  <1> QED
    BY <1>1, <1>2

(* A command that enters and leaves nothing moves on.                      *)
LEMMA StepMaps ==
    ASSUME IInv, phase = "script", Inner.kind # "call", NEW m, Stacks(m) = Stacks(ctx),
           NEW leave \in Leaves,
           Proceed(m, pending) \/ Proceed(m, Leaving(pending, leave))
    PROVE  Promised!Step \/ Promised!Raise
  <1>1. CASE m.raised
    BY <1>1, RaiseMaps
  <1>2. CASE ~ m.raised
    <2>1. /\ ctx' = m /\ phase' = "script" /\ run' = run
          /\ pending' \in {pending, Leaving(pending, leave)}
      BY <1>2 DEF Proceed
    <2>2. pending \in Seq(Entry) /\ Len(pending) \in 1..Len(pending)
      BY InnerFields, Here
    <2>3. Activated(pending') = Activated(pending)
      <3>1. /\ Leaving(pending, leave) \in Seq(Entry)
            /\ Len(Leaving(pending, leave)) = Len(pending)
            /\ \A i \in 1..Len(pending) : SameEntry(Leaving(pending, leave)[i], pending[i])
        BY <2>2, LeavingSame
      <3> DEFINE rest == Leaving(pending, leave)
      <3> HIDE DEF rest
      <3>2. Activated(rest) = SubSeq(Activated(pending), 1, Len(pending))
        BY <2>2, <3>1, ActivatedPrefix DEF rest
      <3>3. SubSeq(Activated(pending), 1, Len(pending)) = Activated(pending)
        <4> DEFINE s == Activated(pending)
                   A == {Activation(e) : e \in Entry}
        <4>1. s \in Seq(A) /\ Len(s) = Len(pending)
          BY <2>2, ActivatedFields
        <4> HIDE DEF s, A
        <4>2. SubSeq(s, 1, Len(s)) = s
          BY <4>1
        <4> QED
          BY <4>1, <4>2 DEF s
      <3> QED
        BY <2>1, <3>2, <3>3 DEF rest
    <2>4. View(ctx') = View(ctx)
      BY <2>1, SameView
    <2>5. Promised!Innermost.kind = Inner.kind
      <3>1. /\ Len(Activated(pending)) = Len(pending)
            /\ Activated(pending)[Len(pending)] = Activation(pending[Len(pending)])
        BY <2>2, ActivatedFields
      <3>2. Promised!Innermost = Activation(Inner)
        BY <3>1 DEF Promised!Innermost, Inner
      <3> QED
        BY <3>2 DEF Activation
    <2>6. View(run'.before) = View(run.before) /\ HasBackup' = HasBackup
      BY <2>1 DEF HasBackup
    <2> QED
      BY <2>1, <2>3, <2>4, <2>5, <2>6 DEF Promised!Step
  <1> QED
    BY <1>1, <1>2

LEMMA EmptySequence ==
    ASSUME NEW S, NEW s \in Seq(S)
    PROVE  Len(s) \in Nat /\ (s = <<>> <=> Len(s) = 0)
  OBVIOUS

(* Every way out finds what was written down on the way in.                *)
LEMMA LeaveMaps ==
    ASSUME IInv, phase = "script", Inner.kind # "call", RestoresCaller,
           NEW rest \in Seq(Entry),
           Len(rest) = Len(pending) - (IF Inner.kind = "function" THEN 2 ELSE 1),
           \A i \in 1..Len(rest) : SameEntry(rest[i], pending[i]),
           pending' = rest, phase' = IF rest = <<>> THEN "returned" ELSE "script",
           run' = run
    PROVE  Promised!Leave
  <1> DEFINE n == Len(pending)
             k == Len(rest)
             old == Activated(pending)
             now == Activated(rest)
             left == pending[k + 1]
  <1>1. /\ pending \in Seq(Entry) /\ n \in Nat /\ k \in Nat /\ k \in 0..n
        /\ k + 1 \in 1..n /\ k < n /\ n \in 1..n
        /\ (rest = <<>> <=> k = 0)
    <2>1. pending \in Seq(Entry) /\ n \in Nat \ {0} /\ Inner = pending[n] /\ n \in 1..n
      BY InnerFields, Here
    <2>2. Inner.kind = "function" => n > 1
      BY <2>1, Here DEF GoodEntries, WellOrdered
    <2>3. k \in Nat /\ (rest = <<>> <=> k = 0)
      BY EmptySequence
    <2>4. k = n - (IF Inner.kind = "function" THEN 2 ELSE 1)
      OBVIOUS
    <2> HIDE DEF k, n
    <2> QED
      BY <2>1, <2>2, <2>3, <2>4
  <1>2. /\ Len(old) = n /\ \A i \in 1..n : old[i] = Activation(pending[i])
    BY <1>1, ActivatedFields
  <1>3. now = SubSeq(old, 1, k)
    BY <1>1, ActivatedPrefix
  <1>4. Len(now) = k /\ (now = <<>> <=> k = 0)
    <2> DEFINE A == {Activation(e) : e \in Entry}
    <2>1. now \in Seq(A) /\ Len(now) = k
      BY ActivatedFields
    <2> HIDE DEF now, A, k
    <2> QED
      BY <2>1
  <1>5. /\ Stacks(ctx') = Stacks(left.from) /\ ctx'.command = Back(left)
    BY <1>1 DEF RestoresCaller, Back
  <1>6. /\ old[k + 1].from = View(left.from) /\ old[k + 1].back = Back(left)
    <2>1. old[k + 1] = Activation(left)
      BY <1>1, <1>2
    <2> HIDE DEF old, left, k
    <2> QED
      BY <2>1 DEF Activation
  <1>7. View(ctx') = View(left.from)
    BY <1>5, SameView
  <1>8. Promised!Innermost = old[n] /\ old[n] = Activation(Inner)
    BY <1>1, <1>2 DEF Promised!Innermost, Inner
  <1>9. Promised!Innermost.kind = Inner.kind
    BY <1>8 DEF Activation
  <1>10. View(run'.before) = View(run.before) /\ HasBackup' = HasBackup
    BY DEF HasBackup
  <1>11. (IF Promised!Innermost.kind = "function" THEN Len(old) - 1 ELSE Len(old)) = k + 1
    BY <1>1, <1>2, <1>9
  <1>12. (k + 1) - 1 = k
    BY <1>1
  <1>13. phase' = IF now = <<>> THEN "returned" ELSE "script"
    BY <1>1, <1>4
  <1> HIDE DEF k, n, left, now, old
  <1> QED
    BY <1>3, <1>5, <1>6, <1>7, <1>9, <1>10, <1>11, <1>12, <1>13
       DEF Promised!Leave, old, now

(* Between two runs nothing is known of a host.                            *)
Rested == phase = "idle" => run = NoRun

LEMMA NoRunFields ==
    /\ NoRun.found = NewContext /\ NoRun.again = FALSE
    /\ NoRun.ready.contexts.items = <<>>
  BY NewContextLive DEF NoRun, EmptyStack

LEMMA NoneActivated == Activated(<<>>) = <<>>
  <1> DEFINE none == <<>>
  <1>1. none \in Seq(Entry) /\ Len(none) = 0
    OBVIOUS
  <1> HIDE DEF none
  <1>2. /\ Activated(none) \in Seq({Activation(e) : e \in Entry})
        /\ Len(Activated(none)) = 0
    BY <1>1, ActivatedFields
  <1>3. Activated(none) = <<>>
    BY <1>2, EmptySequence
  <1> QED
    BY <1>3 DEF none

(* A host prepares its context, or a new one, whether or not this raises.  *)
LEMMA RunFunctionMaps ==
    ASSUME IInv, Rested, NEW call \in HostCalls, NEW fresh \in BOOLEAN,
           RunFunction(call, fresh)
    PROVE  Promised!Next /\ Rested'
  <1> DEFINE again  == host = "task" /\ runs > 0 /\ ~ fresh
             found  == IF host = "task" /\ ~ again THEN NewContext ELSE ctx
             before == IF again THEN ScopeUnallocate(found, 0, 0) ELSE found
             ready  == PrepareCall(before, call)
             there == [ready EXCEPT !.raised = FALSE]
  <1>1. /\ phase = "idle" /\ ctx' = there
        /\ run' = IF ready.raised THEN NoRun
                  ELSE [call |-> call, again |-> again, found |-> found,
                        before |-> before, ready |-> ready]
        /\ phase' = IF ready.raised THEN "idle" ELSE "ready"
        /\ pending' = pending
    BY DEF RunFunction
  <1>2. Live(ctx) /\ call \in [result : Nat, params : Nat]
    BY <1>1, CodeAssumption DEF IInv, TypeOK, Live
  <1>3. /\ Live(before) /\ again \in BOOLEAN
        /\ before.offset = found.offset /\ before.contexts = found.contexts
        /\ found = ctx \/ (found = NewContext /\ ~ again)
    <2>1. Live(found) /\ (found = ctx \/ (found = NewContext /\ ~ again))
      BY <1>2, NewContextLive
    <2>2. before = IF again THEN ScopeUnallocate(found, 0, 0) ELSE found
      OBVIOUS
    <2> HIDE DEF found, before
    <2> QED
      BY <2>1, <2>2, AgainFields
  <1> HIDE DEF again, found, before
  <1>4. /\ ready \in Machine /\ ready.offset = before.offset
        /\ ready.contexts = before.contexts
    BY <1>2, <1>3, PrepareFields
  <1> HIDE DEF ready
  <1>5. there.offset = before.offset /\ there.contexts = before.contexts
    BY <1>4 DEF Machine
  <1> HIDE DEF there
  <1>6. View(found) = View(ctx) \/ (View(found) = View(NewContext) /\ ~ again)
    BY <1>3
  <1>7. Promised!SameScopes(View(there), View(found))
    BY <1>3, <1>5 DEF Promised!SameScopes, View
  <1>8. CASE ready.raised
    <2>1. phase' = "idle" /\ run' = NoRun /\ run = NoRun
      BY <1>1, <1>8 DEF Rested
    <2>2. \/ Promised!SameScopes(View(ctx'), View(ctx))
          \/ Promised!SameScopes(View(ctx'), View(NewContext))
      BY <1>1, <1>6, <1>7
    <2>3. Promised!RefuseRun
      BY <1>1, <2>1, <2>2 DEF Promised!RefuseRun, HasBackup
    <2> QED
      BY <2>1, <2>3 DEF Promised!Next, Rested
  <1>9. CASE ~ ready.raised
    <2>1. phase' = "ready" /\ run'.found = found /\ run'.again = again
      BY <1>1, <1>9
    <2>2. HasBackup' \in BOOLEAN
      BY DEF HasBackup
    <2>3. Promised!BeginRun
      BY <1>1, <1>3, <1>6, <1>7, <2>1, <2>2 DEF Promised!BeginRun
    <2> QED
      BY <2>1, <2>3 DEF Promised!Next, Rested
  <1> QED
    BY <1>8, <1>9

LEMMA FinishRunMaps ==
    ASSUME LeavesNoTrace, FinishRun
    PROVE  Promised!Next /\ Rested'
  <1>1. phase = "returned" /\ phase' = "idle" /\ run' = NoRun /\ pending' = pending
    BY DEF FinishRun
  <1>2. /\ Promised!SameScopes(View(ctx'), View(run.found))
        /\ ~ run.again => View(ctx').cells = View(run.found).cells
    BY <1>1 DEF LeavesNoTrace, Promised!SameScopes, View
  <1>3. /\ View(run'.found) = View(NewContext) /\ HasBackup' = TRUE
        /\ run'.again = FALSE
    BY <1>1, NoRunFields DEF HasBackup
  <1>4. Promised!EndRun
    BY <1>1, <1>2, <1>3 DEF Promised!EndRun
  <1> QED
    BY <1>1, <1>4 DEF Promised!Next, Rested

LEMMA CatchMaps ==
    ASSUME Unwinds, Catch
    PROVE  Promised!Next /\ Rested'
  <1>1. phase = "raised" /\ phase' = "idle" /\ run' = NoRun /\ pending' = <<>>
    BY DEF Catch
  <1>2. /\ ctx'.offset = run.found.offset
        /\ HasBackup => ctx'.contexts = run.found.contexts
    BY <1>1 DEF Unwinds
  <1>3. /\ View(run'.found) = View(NewContext) /\ HasBackup' = TRUE
        /\ run'.again = FALSE
    BY <1>1, NoRunFields DEF HasBackup
  <1>4. Promised!Unwind
    BY <1>1, <1>2, <1>3, NoneActivated DEF Promised!Unwind, View
  <1> QED
    BY <1>1, <1>4 DEF Promised!Next, Rested

LEMMA InitMaps ==
    ASSUME Init
    PROVE  Promised!Init /\ Rested
  <1>1. phase = "idle" /\ pending = <<>> /\ run = NoRun
    BY DEF Init
  <1>2. ctx.offset = 0 /\ NewContext.offset = 0
    BY <1>1, InitIInv, NewContextLive DEF IInv
  <1> QED
    BY <1>1, <1>2, NoRunFields, NoneActivated DEF Promised!Init, View, Rested, HasBackup

LEMMA LoseControlMaps ==
    ASSUME IInv, NEW s, NEW call, LoseControl(s, call)
    PROVE  Promised!Next /\ Rested'
  <1>1. /\ phase \in {"ready", "script"} /\ phase' = "lost" /\ run.again
        /\ UNCHANGED <<ctx, pending, run>>
    BY LoseControlStep DEF KeepsControl, LoseControl
  <1>2. HasBackup' = HasBackup
    BY <1>1 DEF HasBackup
  <1>3. Promised!Lose
    BY <1>1, <1>2 DEF Promised!Lose
  <1> QED
    BY <1>1, <1>3 DEF Promised!Next, Rested

(* Every action of the code is a step of Activations.                      *)
LEMMA ActionMaps ==
    ASSUME IInv, IInv', Apart', Rested, RestoresCaller, GivesBack, Next
    PROVE  Promised!Next /\ Rested'
  <1>1. ASSUME NEW m, NEW entries, Proceed(m, entries)
        PROVE  Rested'
    BY <1>1 DEF Proceed, Rested
  <1>2. ASSUME NEW call \in HostCalls, NEW fresh \in BOOLEAN, RunFunction(call, fresh)
        PROVE  Promised!Next /\ Rested'
    BY <1>2, RunFunctionMaps
  <1>3. ASSUME NEW s \in Sites \union {HostCommand, NullCommand}, NEW call \in Calls,
               Call(s, call)
        PROVE  Promised!Next /\ Rested'
    <2> DEFINE from == [ctx EXCEPT !.command = s]
               e == Opened("call", NoScope, call, from)
    <2>1. s \in Command /\ call \in CallInfo /\ NoScope \in ScopeInfo
      BY CodeAssumption, MemoryAssumption DEF NoScope, ScopeInfo
    <2>2. /\ phase \in {"ready", "script"}
          /\ Proceed(CallScriptFunction(from, call), Append(pending, e))
      BY <1>3 DEF Call, Calling, InScope, Running
    <2>3. Live(from) /\ Stacks(from) = Stacks(ctx)
      BY <2>1, <2>2, AtCommand
    <2> HIDE DEF from
    <2>4. e \in Entry /\ e.from = from
      BY <2>1, <2>3 DEF Entry, Opened, Kinds, Leaves, Live
    <2> HIDE DEF e
    <2>5. Promised!Enter \/ Promised!Raise
      BY <2>2, <2>3, <2>4, EnterMaps
    <2> QED
      BY <1>1, <2>2, <2>5 DEF Promised!Next
  <1>4. ASSUME NEW scope \in Scopes, EnterFunction(scope)
        PROVE  Promised!Next /\ Rested'
    <2> DEFINE e == Opened("function", scope, NoCall, ctx)
    <2>1. scope \in ScopeInfo /\ NoCall \in CallInfo
      BY CodeAssumption, MemoryAssumption DEF NoCall, CallInfo
    <2>2. phase = "script" /\ Proceed(EnterContextScope(ctx, scope), Append(pending, e))
      BY <1>4 DEF EnterFunction, Running
    <2>3. Live(ctx)
      BY <2>2, Here
    <2>4. e \in Entry /\ e.from = ctx
      BY <2>1, <2>3 DEF Entry, Opened, Kinds, ScopeKinds, Leaves, Live
    <2> HIDE DEF e
    <2>5. Promised!Enter \/ Promised!Raise
      BY <2>2, <2>4, EnterMaps
    <2> QED
      BY <1>1, <2>2, <2>5 DEF Promised!Next
  <1>5. ASSUME NEW s \in Sites, NEW kind \in {"block", "loop"}, NEW scope \in Scopes,
               OpenScope(s, kind, scope)
        PROVE  Promised!Next /\ Rested'
    <2> DEFINE here == [ctx EXCEPT !.command = s]
               from == Jump(here, scope.first)
               e == Opened(kind, scope, NoCall, from)
    <2>1. /\ s \in Command /\ scope \in ScopeInfo /\ NoCall \in CallInfo
          /\ scope.first \in Command
      BY CodeAssumption, MemoryAssumption DEF NoCall, CallInfo, ScopeInfo
    <2>2. /\ phase = "script"
          /\ Proceed(EnterContextScope(from, scope), Append(pending, e))
      BY <1>5 DEF OpenScope, Straight, InScope, Running
    <2>3. Live(here) /\ Stacks(here) = Stacks(ctx)
      BY <2>1, <2>2, AtCommand
    <2> HIDE DEF here
    <2>4. from \in Machine /\ Stacks(from) = Stacks(ctx)
      BY <2>1, <2>3, JumpFields DEF Live
    <2> HIDE DEF from
    <2>5. e \in Entry /\ e.from = from
      BY <2>1, <2>4 DEF Entry, Opened, Kinds, ScopeKinds, Leaves
    <2> HIDE DEF e
    <2>6. Promised!Enter \/ Promised!Raise
      BY <2>2, <2>4, <2>5, EnterMaps
    <2> QED
      BY <1>1, <2>2, <2>6 DEF Promised!Next
  <1>6. ASSUME NEW s \in Sites, NEW code \in MemberCodes, OpenMembers(s, code)
        PROVE  Promised!Next /\ Rested'
    <2> DEFINE from == [ctx EXCEPT !.command = s]
               members == Members(Inner.scope.code, code)
               e == Opened("members", members, NoCall, from)
    <2>1. s \in Command /\ code \in Nat /\ NoCall \in CallInfo
      BY CodeAssumption, MemoryAssumption DEF NoCall, CallInfo
    <2>2. /\ phase = "script"
          /\ Proceed(BeginMembers(from, Inner.scope.code, code), Append(pending, e))
      BY <1>6 DEF OpenMembers, InScope, Running
    <2>3. Inner.scope.code \in Nat
      BY <2>2, InnerFields DEF Entry, ScopeInfo
    <2>4. Live(from) /\ Stacks(from) = Stacks(ctx)
      BY <2>1, <2>2, AtCommand
    <2> HIDE DEF from
    <2>5. members \in ScopeInfo
      BY <2>1, <2>3, MemoryAssumption DEF Members, ScopeInfo
    <2> HIDE DEF members
    <2>6. e \in Entry /\ e.from = from
      BY <2>1, <2>4, <2>5 DEF Entry, Opened, Kinds, Leaves, Live
    <2> HIDE DEF e
    <2>7. Promised!Enter \/ Promised!Raise
      BY <2>2, <2>4, <2>6, EnterMaps
    <2> QED
      BY <1>1, <2>2, <2>7 DEF Promised!Next
  <1>7. ASSUME phase = "script", Inner.kind \notin {"call", "function"}, NEW m, NEW entries,
               Proceed(m, entries), entries \in Seq(Entry), Len(entries) = Len(pending) - 1,
               \A i \in 1..(Len(pending) - 1) : SameEntry(entries[i], pending[i])
        PROVE  Promised!Next /\ Rested'
    <2>1. CASE m.raised
      BY <1>1, <1>7, <2>1, RaiseMaps DEF Promised!Next
    <2>2. CASE ~ m.raised
      <3>1. pending' = entries /\ phase' = "script" /\ run' = run
        BY <1>7, <2>2 DEF Proceed
      <3>2. Len(entries) > 0
        BY <1>7, InnerFields
      <3>3. entries # <<>>
        BY <1>7, <3>2, EmptySequence
      <3>4. Promised!Leave
        BY <1>7, <3>1, <3>3, LeaveMaps
      <3> QED
        BY <1>1, <1>7, <3>4 DEF Promised!Next
    <2> QED
      BY <2>1, <2>2
  <1>8. ASSUME CloseMembers
        PROVE  Promised!Next /\ Rested'
    <2> DEFINE left == EndMembers(ctx, Inner.scope.data, Inner.scope.code)
    <2>1. phase = "script" /\ Inner.kind = "members" /\ Proceed(left, Outer(1))
      BY <1>8 DEF CloseMembers, Running
    <2>2. pending \in Seq(Entry) /\ 1 \in 0..Len(pending)
      BY <2>1, Here, InnerFields
    <2> HIDE DEF left
    <2> QED
      BY <1>7, <2>1, <2>2, OuterFields
  <1>9. ASSUME NEW jumped \in BOOLEAN, ExitScope(jumped)
        PROVE  Promised!Next /\ Rested'
    <2> DEFINE m == IF jumped THEN Jump(ctx, Inner.scope.first) ELSE ctx
               left == ExitContextScope(m, Inner.scope, TRUE)
               rest == Leaving(Outer(1), LeaveAfter(Inner))
    <2>1. phase = "script" /\ Inner.kind \in {"block", "loop"} /\ Proceed(left, rest)
      BY <1>9 DEF ExitScope, InScope, Running
    <2>2. /\ pending \in Seq(Entry) /\ 1 \in 0..Len(pending)
          /\ LeaveAfter(Inner) \in Leaves
      BY <2>1, Here, InnerFields DEF Entry, LeaveAfter, Leaves
    <2>3. /\ Outer(1) \in Seq(Entry) /\ Len(Outer(1)) = Len(pending) - 1
          /\ \A i \in 1..(Len(pending) - 1) : SameEntry(Outer(1)[i], pending[i])
      BY <2>2, OuterFields
    <2>4. /\ rest \in Seq(Entry) /\ Len(rest) = Len(pending) - 1
          /\ \A i \in 1..(Len(pending) - 1) : SameEntry(rest[i], Outer(1)[i])
      BY <2>2, <2>3, LeavingSame
    <2> HIDE DEF left, rest
    <2>5. \A i \in 1..(Len(pending) - 1) : SameEntry(rest[i], pending[i])
      BY <2>3, <2>4 DEF SameEntry
    <2> QED
      BY <1>7, <2>1, <2>4, <2>5
  <1>10. ASSUME ExitFunction
         PROVE  Promised!Next /\ Rested'
    <2>1. /\ phase = "script" /\ Inner.kind = "function" /\ run' = run
          /\ pending' = Outer(2) /\ phase' = IF Outer(2) = <<>> THEN "returned" ELSE "script"
      BY <1>10 DEF ExitFunction, InScope, Running
    <2>2. pending \in Seq(Entry) /\ 2 \in 0..Len(pending)
      <3>1. /\ pending \in Seq(Entry) /\ Len(pending) \in Nat /\ Len(pending) \in 1..Len(pending)
            /\ Inner = pending[Len(pending)]
        BY <2>1, Here, InnerFields
      <3>2. Len(pending) > 1
        BY <2>1, <3>1, Here DEF GoodEntries, WellOrdered
      <3> QED
        BY <3>1, <3>2
    <2>3. /\ Outer(2) \in Seq(Entry) /\ Len(Outer(2)) = Len(pending) - 2
          /\ \A i \in 1..(Len(pending) - 2) : SameEntry(Outer(2)[i], pending[i])
      BY <2>2, OuterFields
    <2>4. Promised!Leave
      BY <2>1, <2>3, LeaveMaps
    <2> QED
      BY <2>1, <2>4 DEF Promised!Next, Rested
  <1>11. ASSUME NEW s \in Sites, LoopBack(s)
         PROVE  Promised!Next /\ Rested'
    <2> DEFINE here == [ctx EXCEPT !.command = s]
               m == Jump(here, Inner.scope.first)
    <2>1. phase = "script" /\ Inner.kind # "call" /\ Proceed(m, pending)
      BY <1>11 DEF LoopBack, Straight, InScope, Running
    <2>2. s \in Command /\ Inner.scope.first \in Command
      BY <2>1, InnerFields, CodeAssumption DEF Entry, ScopeInfo
    <2>3. here \in Machine /\ Stacks(here) = Stacks(ctx)
      BY <2>1, <2>2, AtCommand DEF Live
    <2> HIDE DEF here
    <2>4. Stacks(m) = Stacks(ctx) /\ "none" \in Leaves
      BY <2>2, <2>3, JumpFields DEF Leaves
    <2> HIDE DEF m
    <2> QED
      BY <1>1, <2>1, <2>4, StepMaps DEF Promised!Next
  <1>12. ASSUME NEW s \in Sites, NEW leave \in {"break", "continue", "return"},
                Leave(s, leave)
         PROVE  Promised!Next /\ Rested'
    <2> DEFINE m == [ctx EXCEPT !.command = s]
    <2>1. phase = "script" /\ Inner.kind # "call" /\ Proceed(m, Leaving(pending, leave))
      BY <1>12 DEF Leave, Straight, InScope, Running, ScopeKinds
    <2>2. s \in Command /\ leave \in Leaves
      BY CodeAssumption DEF Leaves
    <2>3. Stacks(m) = Stacks(ctx)
      BY <2>1, <2>2, AtCommand
    <2> HIDE DEF m
    <2> QED
      BY <1>1, <2>1, <2>2, <2>3, StepMaps DEF Promised!Next
  <1>13. ASSUME NEW condition \in Sites, ContinueLoop(condition)
         PROVE  Promised!Next /\ Rested'
    <2> DEFINE m == Jump(ctx, condition)
    <2>1. phase = "script" /\ Inner.kind # "call" /\ Proceed(m, Leaving(pending, "none"))
      BY <1>13 DEF ContinueLoop, InScope, Running
    <2>2. condition \in Command /\ ctx \in Machine
      BY <2>1, Here, CodeAssumption DEF Live
    <2>3. Stacks(m) = Stacks(ctx) /\ "none" \in Leaves
      BY <2>2, JumpFields DEF Leaves
    <2> HIDE DEF m
    <2> QED
      BY <1>1, <2>1, <2>3, StepMaps DEF Promised!Next
  <1>14. ASSUME NEW s \in Sites \union {NullCommand}, NativeThrow(s)
         PROVE  Promised!Next /\ Rested'
    <2> DEFINE here == [ctx EXCEPT !.command = s]
               m == Raise(here)
    <2>1. phase = "script" /\ Inner.kind # "call" /\ Proceed(m, pending)
      BY <1>14 DEF NativeThrow, Running
    <2>2. s \in Command
      BY CodeAssumption, MemoryAssumption
    <2>3. here \in Machine /\ Stacks(here) = Stacks(ctx)
      BY <2>1, <2>2, AtCommand DEF Live
    <2> HIDE DEF here
    <2>4. Stacks(m) = Stacks(ctx) /\ "none" \in Leaves
      BY <2>3, RaiseFields DEF Leaves
    <2> HIDE DEF m
    <2> QED
      BY <1>1, <2>1, <2>4, StepMaps DEF Promised!Next
  <1>15. ASSUME FinishRun
         PROVE  Promised!Next /\ Rested'
    BY <1>15, FinishRunMaps DEF GivesBack
  <1>16. ASSUME Catch
         PROVE  Promised!Next /\ Rested'
    BY <1>16, CatchMaps DEF GivesBack
  <1>17. ASSUME NEW s \in Sites \union {HostCommand, NullCommand}, NEW call \in Calls,
                LoseControl(s, call)
         PROVE  Promised!Next /\ Rested'
    BY <1>17, LoseControlMaps
  <1> QED
    BY <1>2, <1>3, <1>4, <1>5, <1>6, <1>8, <1>9, <1>10, <1>11, <1>12, <1>13,
       <1>14, <1>15, <1>16, <1>17 DEF Next

(* A step of nothing is one of Activations as well.                        *)
LEMMA StutterMaps ==
    ASSUME UNCHANGED vars, Rested
    PROVE  UNCHANGED Promised!vars /\ Rested'
  BY DEF vars, Promised!vars, HasBackup, Rested

(* For every memory, code and number of slots: the context, which knows     *)
(* sizes only, does what a machine does that writes down every caller's    *)
(* view, gives it back on every way out and gives out no memory twice (the *)
(* commands of InstructionCommand.cpp, ScriptRunner::runFunction).         *)
THEOREM ContextImplementsActivations == Spec => ImplementsActivations
  <1>1. Init => Promised!Init /\ Rested
    BY InitMaps
  <1>2. IInv => Apart
    BY EntriesApart
  <1>3. IInv /\ IInv' /\ Apart' /\ Rested /\ [Next]_vars
          => [Promised!Next]_(Promised!vars) /\ Rested'
    BY Steps, ActionMaps, StutterMaps
  <1> QED
    BY <1>1, <1>2, <1>3, Invariant, PTL DEF Spec, ImplementsActivations, Promised!Spec
=============================================================================
