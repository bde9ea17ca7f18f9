---------------------------- MODULE Activations ----------------------------
(***************************************************************************)
(* What the machine of a script promises, said without a single size: a    *)
(* machine that writes down, for everything that is entered, what the one  *)
(* who entered it saw and where it goes on, and that looks it up when the  *)
(* innermost activation is left.  Context keeps no such list; ScriptRun    *)
(* shows that its sums and differences of sizes come to the same.          *)
(*                                                                         *)
(* A view is what running code sees of the context:                        *)
(*   at       where its memory begins                                      *)
(*   scopes   the open scopes with their marks                             *)
(*   cells    the bytes in use                                             *)
(* An activation is a call, the function called, a scope of it or the      *)
(* construction of an object's members, with                               *)
(*   from, back       the view to give back, the command to go on after    *)
(*   begin, end       its variables                                        *)
(*   scratch          the end of its scratch bytes, which begin at "end"   *)
(***************************************************************************)
EXTENDS Integers, Sequences

CONSTANTS Capacity,   \* bytes of memory
          Fresh       \* the view of a new context

VARIABLES
    view,      \* what the running code sees
    command,   \* the command it is at
    open,      \* the activations, innermost last
    phase,     \* idle, ready to call, script, returned, raised or lost
    home,      \* the view of the host before its run
    marked,    \* the host's scope keeps marks, or there is none
    worn       \* the run wears out the context it is on

vars == <<view, command, open, phase, home, marked, worn>>

(* Code that is entered so uses its caller's or owner's scratch bytes again *)
(* when it comes back.                                                      *)
KeepsScratch(activation) == activation.kind \in {"call", "members"}

Innermost == open[Len(open)]

SameScopes(v, w) == v.at = w.at /\ v.scopes = w.scopes

(* Memory up to here belongs to activation i when "entered" comes next above it. *)
HeldBy(activation, entered) ==
    IF KeepsScratch(entered) THEN activation.scratch ELSE activation.end
-----------------------------------------------------------------------------
Init ==
    /\ phase = "idle"
    /\ open = <<>>
    /\ view.at = Fresh.at
    /\ home = Fresh
    /\ marked = TRUE
    /\ worn = FALSE

(* A host prepares a run, on its context or on a new one, which cannot be  *)
(* worn out ...                                                             *)
BeginRun ==
    /\ phase = "idle" /\ phase' = "ready"
    /\ \/ home' = view
       \/ home' = Fresh /\ ~ worn'
    /\ SameScopes(view', home')
    /\ marked' \in BOOLEAN /\ worn' \in BOOLEAN
    /\ UNCHANGED open

(* ... or cannot: its parameters do not fit. *)
RefuseRun ==
    /\ phase = "idle"
    /\ SameScopes(view', view) \/ SameScopes(view', Fresh)
    /\ UNCHANGED <<open, phase, home, marked, worn>>

(* A call, or the function, a scope, a construction is entered: its memory  *)
(* is inside and behind all that still belongs to the open ones.            *)
Enter ==
    /\ phase \in {"ready", "script"} /\ phase' = "script"
    /\ Len(open') = Len(open) + 1
    /\ LET new == open'[Len(open')]
       IN  /\ open' = Append(open, new)
           /\ new.from = view
           /\ phase = "ready" => new.kind = "call"
           /\ phase = "script" => (new.kind = "function" <=> Innermost.kind = "call")
           /\ new.kind = "function" => new.back = Innermost.back
           /\ 0 <= new.begin /\ new.begin <= new.end
           /\ new.end <= new.scratch /\ new.scratch <= Capacity
           /\ \A i \in 1..Len(open) : HeldBy(open[i], open'[i + 1]) <= new.begin
    /\ UNCHANGED <<home, marked, worn>>

(* The innermost activation is left, a function together with its call:    *)
(* whoever entered it goes on with the view it had.                        *)
Leave ==
    /\ phase = "script" /\ Innermost.kind # "call"
    /\ LET left == IF Innermost.kind = "function" THEN Len(open) - 1 ELSE Len(open)
       IN  /\ open' = SubSeq(open, 1, left - 1)
           /\ view' = open[left].from
           /\ command' = open[left].back
    /\ phase' = IF open' = <<>> THEN "returned" ELSE "script"
    /\ UNCHANGED <<home, marked, worn>>

(* Any other command, and a decision to leave, only move on. *)
Step ==
    /\ phase = "script" /\ Innermost.kind # "call"
    /\ UNCHANGED <<view, open, phase, home, marked, worn>>

(* Anything may raise, on the way in as well. *)
Raise ==
    /\ phase \in {"ready", "script"} /\ phase' = "raised"
    /\ UNCHANGED <<open, home, marked, worn>>

(* A call on a worn context may be the last that anything is promised of. *)
Lose ==
    /\ phase \in {"ready", "script"} /\ phase' = "lost"
    /\ worn
    /\ UNCHANGED <<view, command, open, home, marked, worn>>

(* The host has its context back as it was, but for what was worn out. *)
EndRun ==
    /\ phase = "returned" /\ phase' = "idle"
    /\ SameScopes(view', home)
    /\ ~ worn => view'.cells = home.cells
    /\ home' = Fresh /\ marked' = TRUE /\ worn' = FALSE
    /\ UNCHANGED open

(* The host has its offset back and, with marks, its scopes. *)
Unwind ==
    /\ phase = "raised" /\ phase' = "idle"
    /\ open' = <<>>
    /\ view'.at = home.at
    /\ marked => view'.scopes = home.scopes
    /\ home' = Fresh /\ marked' = TRUE /\ worn' = FALSE

Next ==
    \/ BeginRun \/ RefuseRun \/ Enter \/ Leave \/ Step \/ Raise
    \/ Lose \/ EndRun \/ Unwind

Spec == Init /\ [][Next]_vars
=============================================================================
