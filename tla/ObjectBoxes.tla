---------------------------- MODULE ObjectBoxes ----------------------------
(***************************************************************************)
(* The operations of the library's value containers as the constructor and  *)
(* destructor calls they make, in the code's order:                        *)
(*   "either"  - memory/either_t.h, either_t<T, U>, under result_t and      *)
(*               callable_wrapper; T may be void;                           *)
(*   "inplace" - memory/inplace_t.h, inplace_t<T>;                          *)
(*   "erased"  - base/type_erase_base.h with task_wrapper and               *)
(*               callable_storage_t; its tag is its vtable, a type's name.  *)
(* A behaviour is about containers of one kind and one choice of types, all *)
(* of them copyable and movable. Every call but those that noexcept forbids *)
(* may throw at every constructor that is not noexcept.                    *)
(***************************************************************************)
EXTENDS ObjectCells

Void == "void"

CONSTANTS
  SecondTypes, \* the types tried as U
  Big          \* types that do not fit in the buffer of an erasing wrapper

ASSUME BoxAssumption ==
  /\ {Void, "first", "second"} \cap Types = {}
  /\ SecondTypes \subseteq Types /\ Big \subseteq Types
  \* a static_assert of raw_either_storage_base
  /\ \A ty \in SecondTypes : CanStrongConstruct(ty)

VARIABLES
  kind, T, U,
  before \* what the boxes held when the operation was called

vars == <<cellVars, kind, T, U, before>>

Fields == {"args", "copy", "move"}

TypeOf(alt) ==
  CASE kind = "erased" -> alt
    [] kind # "erased" /\ alt = "first" -> T
    [] kind # "erased" /\ alt = "second" -> U

CellOf(b, alt) == IF alt = "second" THEN Second(b) ELSE First(b)
Exists(b) == tag[b] # Gone
Holds(b) == tag[b] \notin {Gone, Empty}
Held(b) == CellOf(b, tag[b])

OfObject(alt, calls) == IF TypeOf(alt) = Void THEN <<>> ELSE calls
DropHeld(b) == IF Holds(b) THEN OfObject(tag[b], <<Drop(Held(b))>>) ELSE <<>>

(* a constructor that throws leaves no box behind *)
OrNoBox(b, calls) == <<Try(<<SetTag(b, Gone)>>)>> \o calls \o <<EndTry>>

-----------------------------------------------------------------------------
(* either_t *)

EitherConstruct(b, alt, from, how) ==
  <<SetTag(b, alt)>> \o OfObject(alt, OrNoBox(b, <<Make(CellOf(b, alt), from, how)>>))

EitherCopyConstruct(b, o) ==
  <<SetTag(b, Empty)>>
  \o OfObject(tag[o], OrNoBox(b, <<Make(CellOf(b, tag[o]), Held(o), "copy")>>))
  \o <<SetTag(b, tag[o])>>

EitherMoveConstruct(b, o) ==
  <<SetTag(b, Empty)>>
  \o OfObject(tag[o], <<Make(CellOf(b, tag[o]), Held(o), "move")>>)
  \o <<SetTag(b, tag[o])>>

(* Mutant: nothing brings the second object back. *)
ReplaceSecondUnguarded(b, from, how) ==
  <<Make(Backup, Second(b), Transfer(U)), Drop(Second(b)),
    Make(First(b), from, how), SetTag(b, "first"), Drop(Backup)>>

(* emplace_first when the second object is there: a backup brings it back *)
ReplaceSecond(b, from, how) ==
  <<Make(Backup, Second(b), Transfer(U)), Drop(Second(b)),
    Try(<<Make(Second(b), Backup, Transfer(U))>>),
    Make(First(b), from, how), SetTag(b, "first"),
    EndTry, Drop(Backup)>>

EmplaceFirst(b, from, how) ==
  CASE T # Void /\ tag[b] = "first" -> EmplaceAt(First(b), T, from, how)
    [] T # Void /\ tag[b] # "first" -> ReplaceSecond(b, from, how)
    [] T = Void /\ tag[b] = "first" -> <<>>
    [] T = Void /\ tag[b] # "first" -> <<Drop(Second(b)), SetTag(b, "first")>>

(* emplace_second when the first object is there: the second is built beside it *)
ReplaceFirst(b, from, how) ==
  IF T = Void THEN <<Make(Second(b), from, how), SetTag(b, "second")>>
  ELSE <<Make(Tmp, from, how), Drop(First(b)), Make(Second(b), Tmp, Transfer(U)),
         SetTag(b, "second"), Drop(Tmp)>>

EmplaceSecond(b, from, how) ==
  IF tag[b] = "second" THEN EmplaceAt(Second(b), U, from, how)
  ELSE ReplaceFirst(b, from, how)

(* either_t::operator=(U), which exists only if U's constructor does not throw *)
EitherAssignSecond(b, from, how) ==
  IF tag[b] = "second" THEN EmplaceAt(Second(b), U, from, how)
  ELSE DropHeld(b) \o <<Make(Second(b), from, how), SetTag(b, "second")>>

EitherPut(b, alt, from, how) ==
  CASE ~Exists(b) -> {EitherConstruct(b, alt, from, how)}
    [] Exists(b) /\ alt = "first" -> {EmplaceFirst(b, from, how)}
    [] Exists(b) /\ alt = "second" ->
         {EmplaceSecond(b, from, how)}
         \cup (IF how # "args" /\ NothrowOf(U, how)
               THEN {EitherAssignSecond(b, from, how)} ELSE {})

EitherAssign(b, o, how) ==
  CASE b = o -> <<>>
    [] b # o /\ tag[o] = "first" -> EmplaceFirst(b, First(o), how)
    [] b # o /\ tag[o] = "second" -> EmplaceSecond(b, Second(o), how)

(* x has its first object, y its second *)
EitherSwapMixed(x, y) ==
  OfObject("first", <<Make(Tmp, First(x), Transfer(T)), Drop(First(x))>>)
  \o <<Make(Second(x), Second(y), Transfer(U)), SetTag(x, "second"), Drop(Second(y))>>
  \o OfObject("first", <<Make(First(y), Tmp, Transfer(T))>>)
  \o <<SetTag(y, "first")>>
  \o OfObject("first", <<Drop(Tmp)>>)

EitherSwap(x, y) ==
  CASE x = y -> <<>>
    [] x # y /\ tag[x] = tag[y] -> OfObject(tag[x], <<Swap(Held(x), Held(y))>>)
    [] x # y /\ tag[x] = "first" /\ tag[y] = "second" -> EitherSwapMixed(x, y)
    [] x # y /\ tag[x] = "second" /\ tag[y] = "first" -> EitherSwapMixed(y, x)

-----------------------------------------------------------------------------
(* inplace_t; "has" says whether the box holds an object when the call comes *)

InplaceConstruct(b, from, how) == <<Make(First(b), from, how), SetTag(b, "first")>>
InplaceDestroy(b, has) == IF has THEN <<Drop(First(b)), SetTag(b, Empty)>> ELSE <<>>

InplaceEmplace(b, has, from, how) ==
  CASE ~has -> InplaceConstruct(b, from, how)
    [] has /\ CanStrongReplace(T) -> EmplaceAt(First(b), T, from, how)
    [] has /\ ~CanStrongReplace(T) -> InplaceDestroy(b, TRUE) \o InplaceConstruct(b, from, how)

InplacePut(b, from, how) ==
  IF Exists(b) THEN InplaceEmplace(b, Holds(b), from, how)
  ELSE <<SetTag(b, Empty)>> \o OrNoBox(b, InplaceConstruct(b, from, how))

InplaceCreateFrom(b, o, has, how) ==
  <<SetTag(b, Empty)>>
  \o (IF has THEN OrNoBox(b, InplaceConstruct(b, First(o), how)) ELSE <<>>)

InplaceAssign(b, hasB, o, hasO, how) ==
  IF hasO
  THEN <<Make(Tmp, First(o), how)>> \o InplaceEmplace(b, hasB, Tmp, how) \o <<Drop(Tmp)>>
  ELSE InplaceDestroy(b, hasB)

(* The return makes the caller's object from the local, after the box was emptied: for a
   type whose move may throw it is the second call that may, and then the value is lost. *)
InplaceSteal(b) ==
  <<Make(Tmp, First(b), "move")>> \o InplaceDestroy(b, TRUE)
  \o <<Make(Args, Tmp, "move"), Drop(Tmp)>>

(* tmp = move(y); y = move(x); x = move(tmp), and tmp goes *)
InplaceSwap(x, y) ==
  InplaceCreateFrom(Temp, y, Holds(y), "move")
  \o InplaceAssign(y, Holds(y), x, Holds(x), "move")
  \o InplaceAssign(x, Holds(x), Temp, Holds(y), "move")
  \o InplaceDestroy(Temp, Holds(y)) \o <<SetTag(Temp, Gone)>>

(* swap of two inplace_t of different sizes *)
InplaceSwapSizes(x, y) ==
  CASE Holds(y) ->
         <<Make(Tmp, First(y), "move")>>
         \o (IF Holds(x) THEN InplaceEmplace(y, TRUE, First(x), "move") ELSE <<>>)
         \o InplaceEmplace(x, Holds(x), Tmp, "move")
         \o (IF Holds(x) THEN <<>> ELSE InplaceDestroy(y, TRUE))
         \o <<Drop(Tmp)>>
    [] ~Holds(y) /\ Holds(x) ->
         <<Make(Tmp, First(x), "move")>> \o InplaceDestroy(x, TRUE)
         \o InplaceConstruct(y, Tmp, "move") \o <<Drop(Tmp)>>
    [] OTHER -> <<>>

-----------------------------------------------------------------------------
(* the erasing wrappers *)

InBuffer(ty) == CanStrongConstruct(ty) /\ ty \notin Big

SafeRelocate(ty, to, from) ==
  IF InBuffer(ty) THEN <<Make(to, from, Transfer(ty)), Drop(from)>> ELSE <<Pass(to, from)>>

ErasedClear(b) == IF Holds(b) THEN <<Drop(First(b)), SetTag(b, Empty)>> ELSE <<>>

(* Mutant: the old object goes before the new one is there. *)
ErasedEmplaceEarly(b, ty, from, how) ==
  ErasedClear(b) \o <<Make(First(b), from, how), SetTag(b, ty)>>

ErasedEmplace(b, ty, from, how) ==
  CASE InBuffer(ty) /\ NothrowOf(ty, how) ->
         ErasedClear(b) \o <<Make(First(b), from, how), SetTag(b, ty)>>
    [] InBuffer(ty) /\ ~NothrowOf(ty, how) ->
         <<Make(Tmp, from, how)>> \o ErasedClear(b)
         \o <<Make(First(b), Tmp, Transfer(ty)), SetTag(b, ty), Drop(Tmp)>>
    [] ~InBuffer(ty) ->
         <<Make(Tmp, from, how)>> \o ErasedClear(b) \o <<Pass(First(b), Tmp), SetTag(b, ty)>>

ErasedPut(b, ty, from, how) ==
  IF Exists(b) THEN ErasedEmplace(b, ty, from, how)
  ELSE <<SetTag(b, Empty)>> \o OrNoBox(b, ErasedEmplace(b, ty, from, how))

ErasedCopyConstruct(b, o) ==
  <<SetTag(b, Empty)>>
  \o (IF Holds(o) THEN OrNoBox(b, <<Make(First(b), First(o), "copy"), SetTag(b, tag[o])>>)
      ELSE <<>>)

(* x and y have tags tx and ty, Empty or a type *)
ErasedSwap(x, tx, y, ty) ==
  CASE tx = Empty /\ ty = Empty -> <<>>
    [] tx # Empty /\ ty = Empty ->
         SafeRelocate(tx, First(y), First(x)) \o <<SetTag(y, tx), SetTag(x, Empty)>>
    [] tx = Empty /\ ty # Empty ->
         SafeRelocate(ty, First(x), First(y)) \o <<SetTag(x, ty), SetTag(y, Empty)>>
    [] OTHER ->
         SafeRelocate(tx, Backup, First(x)) \o SafeRelocate(ty, First(x), First(y))
         \o SafeRelocate(tx, First(y), Backup) \o <<SetTag(x, ty), SetTag(y, tx)>>

(* a copy into a temporary, a swap with it, and the temporary goes *)
ErasedCopyAssign(b, o) ==
  ErasedCopyConstruct(Temp, o) \o ErasedSwap(b, tag[b], Temp, tag[o])
  \o (IF Holds(b) THEN <<Drop(First(Temp))>> ELSE <<>>) \o <<SetTag(Temp, Gone)>>

ErasedMove(b, o) ==
  IF Holds(o)
  THEN SafeRelocate(tag[o], First(b), First(o)) \o <<SetTag(b, tag[o]), SetTag(o, Empty)>>
  ELSE <<>>

ErasedMoveConstruct(b, o) == <<SetTag(b, Empty)>> \o ErasedMove(b, o)
ErasedMoveAssign(b, o) == IF b = o THEN <<>> ELSE ErasedClear(b) \o ErasedMove(b, o)

-----------------------------------------------------------------------------
(* the calls of the program *)

Content(b) == IF Holds(b) THEN <<tag[b], IF Live(Held(b)) THEN cell[Held(b)].val ELSE Raw>>
              ELSE tag[b]
Contents == [b \in Boxes |-> Content(b)]

(* the two operations of inplace_t that may throw with their box empty *)
WeakIn(name, ty) ==
  \/ name = "put" /\ ~CanStrongReplace(ty)
  \/ name = "steal" /\ ~NothrowOf(ty, "move")

Op(name, b, o) ==
  [name |-> name, box |-> b, other |-> o, alt |-> Empty, arg |-> Raw,
   erasing |-> kind = "erased", weak |-> kind = "inplace" /\ WeakIn(name, T)]

ASSUME CallAssumption ==
  Idle \notin [name : {"put", "copy", "move", "swap", "create", "clear", "steal", "destroy"},
               box : Boxes, other : Boxes, alt : Types \cup {"first", "second", Empty},
               arg : Vals \cup {Raw}, erasing : BOOLEAN, weak : BOOLEAN]

Begin(op, bodies, args) ==
  /\ call = Idle
  /\ \E body \in bodies : todo' = body
  /\ call' = op
  /\ before' = Contents
  /\ cell' = [cell EXCEPT ![Args] = args]
  /\ threw' = FALSE
  /\ UNCHANGED <<tag, undo, kind, T, U>>

Alternatives ==
  CASE kind = "either" -> {"first", "second"}
    [] kind = "inplace" -> {"first"}
    [] kind = "erased" -> Types

(* The types a call needs. An emplace of either_t compiles only if there is an emplace_at
   for the type, whatever the box holds; moves and swaps that are noexcept without being so
   for the type, which end the program, are not called. *)
CanPut(b, alt, how) ==
  TypeOf(alt) # Void /\ kind = "either" /\ Exists(b)
    => CanStrongReplace(TypeOf(alt)) \/ NothrowOf(TypeOf(alt), how)
StrongFirst == T # Void => CanStrongReplace(T)
NothrowMoves ==
  CASE kind = "either" -> (T # Void => NothrowOf(T, "move")) /\ NothrowOf(U, "move")
    [] kind = "inplace" -> NothrowOf(T, "move")
    [] kind = "erased" -> TRUE

CallPut ==
  \E b \in Boxes, alt \in Alternatives, how \in Fields, v \in Vals :
    /\ CanPut(b, alt, how)
    /\ LET void == TypeOf(alt) = Void
           op == [Op("put", b, b) EXCEPT !.alt = alt, !.arg = IF void THEN Raw ELSE v]
           args == IF void THEN Raw ELSE [ty |-> TypeOf(alt), val |-> v]
       IN CASE kind = "either" -> Begin(op, EitherPut(b, alt, Args, how), args)
            [] kind = "inplace" -> Begin(op, {InplacePut(b, Args, how)}, args)
            [] kind = "erased" -> Begin(op, {ErasedPut(b, alt, Args, how)}, args)

CallCopy ==
  \E b, o \in Boxes :
    /\ Exists(o)
    /\ CASE kind = "either" ->
              /\ Exists(b) => StrongFirst
              /\ Begin(Op("copy", b, o), {IF Exists(b) THEN EitherAssign(b, o, "copy")
                                          ELSE EitherCopyConstruct(b, o)}, Raw)
         [] kind = "inplace" ->
              /\ CanStrongReplace(T)
              /\ Begin(Op("copy", b, o),
                       {CASE b = o -> <<>>
                          [] b # o /\ Exists(b) -> InplaceAssign(b, Holds(b), o, Holds(o), "copy")
                          [] b # o /\ ~Exists(b) -> InplaceCreateFrom(b, o, Holds(o), "copy")}, Raw)
         [] kind = "erased" ->
              Begin(Op("copy", b, o),
                    {CASE b = o -> <<>>
                       [] b # o /\ Exists(b) -> ErasedCopyAssign(b, o)
                       [] b # o /\ ~Exists(b) -> ErasedCopyConstruct(b, o)}, Raw)

CallMove ==
  \E b, o \in Boxes :
    /\ Exists(o) /\ NothrowMoves
    /\ Begin(Op("move", b, o),
             {CASE kind = "either" -> IF Exists(b) THEN EitherAssign(b, o, "move")
                                      ELSE EitherMoveConstruct(b, o)
                [] kind = "inplace" /\ b = o -> <<>>
                [] kind = "inplace" /\ b # o ->
                     IF Exists(b) THEN InplaceAssign(b, Holds(b), o, Holds(o), "move")
                     ELSE InplaceCreateFrom(b, o, Holds(o), "move")
                [] kind = "erased" -> IF Exists(b) THEN ErasedMoveAssign(b, o)
                                      ELSE ErasedMoveConstruct(b, o)}, Raw)

CallSwap ==
  \E x, y \in Boxes :
    /\ Exists(x) /\ Exists(y)
    /\ CASE kind = "either" ->
              /\ T # Void => CanStrongConstruct(T)
              /\ Begin(Op("swap", x, y), {EitherSwap(x, y)}, Raw)
         [] kind = "inplace" ->
              /\ NothrowMoves
              /\ Begin(Op("swap", x, y),
                       IF x = y THEN {<<>>} ELSE {InplaceSwap(x, y), InplaceSwapSizes(x, y)}, Raw)
         [] kind = "erased" ->
              Begin(Op("swap", x, y),
                    {IF x = y THEN <<>> ELSE ErasedSwap(x, tag[x], y, tag[y])}, Raw)

CallClear ==
  \E b \in Boxes :
    /\ kind # "either"
    /\ \/ /\ ~Exists(b)
          /\ Begin(Op("create", b, b), {<<SetTag(b, Empty)>>}, Raw)
       \/ /\ Exists(b)
          /\ Begin(Op("clear", b, b), {IF kind = "erased" THEN ErasedClear(b)
                                       ELSE InplaceDestroy(b, Holds(b))}, Raw)
       \/ /\ kind = "inplace" /\ Holds(b)
          /\ Begin(Op("steal", b, b), {InplaceSteal(b)}, Raw)

CallDestroy ==
  \E b \in Boxes :
    /\ Exists(b)
    /\ Begin(Op("destroy", b, b), {DropHeld(b) \o <<SetTag(b, Gone)>>}, Raw)

Return ==
  /\ call # Idle /\ todo = <<>>
  /\ call' = Idle
  /\ cell' = [cell EXCEPT ![Args] = Raw]
  /\ before' = Idle
  /\ UNCHANGED <<tag, todo, undo, threw, kind, T, U>>

Init ==
  /\ CellInit
  /\ before = Idle
  /\ \/ kind = "either" /\ T \in Types \cup {Void} /\ U \in SecondTypes
     \/ kind = "inplace" /\ T \in Types /\ U = Void
     \/ kind = "erased" /\ T = Void /\ U = Void

Next ==
  \/ CallPut \/ CallCopy \/ CallMove \/ CallSwap \/ CallClear \/ CallDestroy
  \/ CellStep /\ UNCHANGED <<kind, T, U, before>>
  \/ Return

Spec == Init /\ [][Next]_vars

-----------------------------------------------------------------------------
(* Whatever throws, and wherever: a constructor is only called for storage that has no
   object, from an object that is there (a move from a dropped or passed-on object would
   read freed memory); an assignment or a swap is only between two objects; and a
   destructor only runs where an object, or the null pointer a relocation left, is. *)
CellsUsedRightly ==
  /\ Now("make") => ~Live(Head(todo).to) /\ Live(Head(todo).from)
  /\ Now("put") \/ Now("swap") => Live(Head(todo).to) /\ Live(Head(todo).from)
  /\ Now("pass") => ~Live(Head(todo).to) /\ Live(Head(todo).from)
  /\ Now("drop") => cell[Head(todo).to] # Raw

(* Between calls every object is the one that the tag of its box names, and of the type it
   says: nothing on the stack is left undestroyed, no box hides a second object, and no tag
   promises an object that an exception took away. *)
NothingLeaksNorLies ==
  call = Idle =>
    /\ \A c \in Locals \cup {Args} : ~Live(c)
    /\ tag[Temp] = Gone
    /\ \A b \in AllBoxes, c \in {"first", "second"} :
         LET here == <<b, c>>
             named == Holds(b) /\ Held(b) = here /\ TypeOf(tag[b]) # Void
         IN /\ Live(here) <=> named
            /\ named => cell[here].ty = TypeOf(tag[b])

Values == INSTANCE ValueBoxes WITH
  content <- IF call = Idle THEN Contents ELSE before,
  threw <- call = Idle /\ threw,
  Nothing <- Raw

(* Every operation has the whole of the effect it names, moved-from sources included, or
   throws and leaves all boxes as they were, but for the two of inplace_t that may throw with
   the box empty and its value lost: an emplace of a type that nothing can replace safely, and
   a steal of any type whose move may throw. *)
ImplementsValues == Values!Spec
=============================================================================
