---------------------------- MODULE ObjectCells ----------------------------
(***************************************************************************)
(* Raw storage and the objects that live in it (base/inplace_base.h): what  *)
(* a C++ operation made of constructor calls, destructor calls, assignments *)
(* and a try block does, one call at a time, when any constructor that is   *)
(* not noexcept may throw. The operations themselves, sequences of such     *)
(* calls, are in ObjectBoxes.                                              *)
(*                                                                         *)
(* A type is known by the set of its members that do not throw.            *)
(***************************************************************************)
EXTENDS Sequences

CONSTANTS
  Boxes,      \* the program's objects with storage in them
  Vals,
  Nothrow,    \* Nothrow[ty]: which of Members type ty declares noexcept
  Raw, Null,  \* storage without an object; a pointer whose object has moved on
  Moved,      \* the value of a moved-from object
  Idle,
  Gone,       \* the tag of a box that does not exist
  Empty       \* the tag of a box that holds nothing

Members == {"args", "move", "copy", "moveAssign", "copyAssign"}
Types == DOMAIN Nothrow

VARIABLES
  cell, \* cell[c]: the object [ty, val] in c, Raw or Null
  tag,  \* tag[b]: what b says it holds; an alternative, Empty or Gone
  call, \* the operation the program has called
  todo, \* what is left of it
  undo, \* the handler of the try block it is in
  threw \* an exception is on its way out

cellVars == <<cell, tag, call, todo, undo, threw>>

Temp == "temp"  \* the box that some operations have on the stack
AllBoxes == Boxes \cup {Temp}
First(b) == <<b, "first">>
Second(b) == <<b, "second">>
Locals == {<<"local", l>> : l \in {"buffer", "tmp", "backup"}}
Buffer == <<"local", "buffer">>
Tmp == <<"local", "tmp">>
Backup == <<"local", "backup">>
Args == <<"local", "args">> \* the caller's: the argument of a call, or what it returns
Cells == (UNION {{First(b), Second(b)} : b \in AllBoxes}) \cup Locals \cup {Args}

ASSUME CellAssumption ==
  /\ Nothrow \in [Types -> SUBSET Members]
  /\ Temp \notin Boxes
  /\ Raw # Null /\ {Raw, Null} \cap [ty : Types, val : Vals \cup {Moved}] = {}
  /\ Moved \notin Vals /\ Raw \notin Vals \cup {Moved}
  /\ Gone # Empty /\ {Gone, Empty} \cap (Types \cup {"first", "second"}) = {}
  /\ {Gone, Empty} \cap ((Types \cup {"first", "second"}) \X (Vals \cup {Moved, Raw})) = {}

Live(c) == cell[c] \notin {Raw, Null}

(* the calls an operation is made of *)
Make(to, from, how) == [do |-> "make", to |-> to, from |-> from, how |-> how]
Put(to, from, how) == [do |-> "put", to |-> to, from |-> from, how |-> how]
Pass(to, from) == [do |-> "pass", to |-> to, from |-> from]
Drop(c) == [do |-> "drop", to |-> c]
DropIfLive(c) == IF Live(c) THEN <<Drop(c)>> ELSE <<>>
SetTag(b, t) == [do |-> "tag", box |-> b, as |-> t]
Try(handler) == [do |-> "try", handler |-> handler]
EndTry == Try(<<>>)
Swap(c, d) == [do |-> "swap", to |-> c, from |-> d]

NothrowOf(ty, how) == how \in Nothrow[ty]
CanStrongReplace(ty) == Nothrow[ty] \cap {"moveAssign", "copyAssign", "move", "copy"} # {}
CanStrongConstruct(ty) == Nothrow[ty] \cap {"move", "copy"} # {}
Transfer(ty) == IF NothrowOf(ty, "move") THEN "move" ELSE "copy"

(* Mutant: the old object is destroyed before the new one is built. *)
EmplaceAtEarly(c, ty, from, how) == <<Drop(c), Make(c, from, how)>>

(* raw_inplace_storage_operations::emplace_at, for a cell that has an object *)
EmplaceAt(c, ty, from, how) ==
  CASE NothrowOf(ty, "moveAssign") ->
         <<Make(Buffer, from, how), Put(c, Buffer, "move"), Drop(Buffer)>>
    [] ~NothrowOf(ty, "moveAssign") /\ NothrowOf(ty, "copyAssign") ->
         <<Make(Buffer, from, how), Put(c, Buffer, "copy"), Drop(Buffer)>>
    [] Nothrow[ty] \cap {"moveAssign", "copyAssign"} = {} /\ CanStrongConstruct(ty) ->
         <<Make(Buffer, from, how), Drop(c), Make(c, Buffer, Transfer(ty)), Drop(Buffer)>>
    [] ~CanStrongReplace(ty) /\ NothrowOf(ty, how) ->
         <<Drop(c), Make(c, from, how)>>

CellInit ==
  /\ cell = [c \in Cells |-> Raw]
  /\ tag = [b \in AllBoxes |-> Gone]
  /\ call = Idle
  /\ todo = <<>> /\ undo = <<>>
  /\ threw = FALSE

Now(do) == todo # <<>> /\ Head(todo).do = do
Proceed == todo' = Tail(todo) /\ UNCHANGED <<call, threw>>

(* the source keeps its object, emptied of its value by a move *)
Transferred(to, from, how) ==
  [cell EXCEPT ![to] = cell[from], ![from].val = IF how = "move" THEN Moved ELSE @]

Construct ==
  /\ Now("make") /\ Proceed
  /\ cell' = Transferred(Head(todo).to, Head(todo).from, Head(todo).how)
  /\ UNCHANGED <<tag, undo>>

(* The constructor throws: the handler of the try block runs, then the locals that
   have been built are destroyed, then the exception reaches the caller. *)
ConstructThrows ==
  /\ Now("make")
  /\ ~NothrowOf(cell[Head(todo).from].ty, Head(todo).how)
  /\ todo' = undo \o DropIfLive(Backup) \o DropIfLive(Tmp) \o DropIfLive(Buffer)
  /\ undo' = <<>>
  /\ threw' = TRUE
  /\ UNCHANGED <<cell, tag, call>>

(* only assignments that do not throw are used *)
Assign ==
  /\ Now("put") /\ Proceed
  /\ cell' = Transferred(Head(todo).to, Head(todo).from, Head(todo).how)
  /\ UNCHANGED <<tag, undo>>

(* the swap of a type's own, which does not throw *)
Exchange ==
  /\ Now("swap") /\ Proceed
  /\ LET to == Head(todo).to from == Head(todo).from IN
     cell' = [cell EXCEPT ![to] = cell[from], ![from] = cell[to]]
  /\ UNCHANGED <<tag, undo>>

(* a pointer to an object on the heap goes to another cell *)
PassOn ==
  /\ Now("pass") /\ Proceed
  /\ cell' = [cell EXCEPT ![Head(todo).to] = cell[Head(todo).from], ![Head(todo).from] = Null]
  /\ UNCHANGED <<tag, undo>>

Destruct ==
  /\ Now("drop") /\ Proceed
  /\ cell' = [cell EXCEPT ![Head(todo).to] = Raw]
  /\ UNCHANGED <<tag, undo>>

Retag ==
  /\ Now("tag") /\ Proceed
  /\ tag' = [tag EXCEPT ![Head(todo).box] = Head(todo).as]
  /\ UNCHANGED <<cell, undo>>

EnterTry ==
  /\ Now("try") /\ Proceed
  /\ undo' = Head(todo).handler
  /\ UNCHANGED <<cell, tag>>

CellStep ==
  \/ Construct \/ ConstructThrows \/ Assign \/ Exchange \/ PassOn \/ Destruct \/ Retag \/ EnterTry
=============================================================================
