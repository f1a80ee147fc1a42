-------------------------- MODULE MC_ObjectBoxes --------------------------
(* Types by what they declare noexcept: all of it, one way to move or copy, an assignment
   only, a constructor only, and nothing at all. *)
EXTENDS ObjectBoxes

MCNothrow ==
  [solid |-> Members, mover |-> {"move"}, copier |-> {"copy", "args"},
   moveAssigner |-> {"moveAssign"}, copyAssigner |-> {"copyAssign", "args"},
   thrower |-> {"args"}, brittle |-> {}]
=============================================================================
