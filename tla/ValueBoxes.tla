----------------------------- MODULE ValueBoxes -----------------------------
(***************************************************************************)
(* What the operations of inplace_t, either_t, result_t and the type-       *)
(* erasing wrappers do: what the name says, on the whole, or they throw and *)
(* the box keeps what it had (the strong guarantee). Two operations of      *)
(* inplace_t do not give it and may throw with their box left empty (weak): *)
(* an emplace of a type that nothing can replace safely, and a steal of a   *)
(* type whose move may throw. Nothing else but put and copy throws.        *)
(***************************************************************************)
CONSTANTS Boxes, Gone, Empty, Idle, Nothing, Moved

VARIABLES
  content, \* content[b]: <<alternative, value>>, Empty, or Gone if there is no b
  call,    \* the operation in progress, or Idle
  threw    \* the last operation threw

Init ==
  /\ content = [b \in Boxes |-> Gone]
  /\ call = Idle /\ threw = FALSE

Call ==
  /\ call = Idle /\ call' # Idle
  /\ threw' = FALSE
  /\ UNCHANGED content

(* The source of a move keeps an object that has lost its value, except in an
   erasing wrapper, which is left empty; an alternative of type void has none. *)
Leftover(c) ==
  CASE c = Empty \/ call.erasing -> Empty
    [] c # Empty /\ ~call.erasing /\ c[2] = Nothing -> c
    [] OTHER -> <<c[1], Moved>>

Effect ==
  LET b == call.box o == call.other IN
  CASE call.name = "put" -> [content EXCEPT ![b] = <<call.alt, call.arg>>]
    [] call.name = "copy" -> [content EXCEPT ![b] = content[o]]
    [] call.name = "move" /\ b # o ->
         [content EXCEPT ![b] = content[o], ![o] = Leftover(content[o])]
    [] call.name = "swap" -> [content EXCEPT ![b] = content[o], ![o] = content[b]]
    [] call.name \in {"create", "clear", "steal"} -> [content EXCEPT ![b] = Empty]
    [] call.name = "destroy" -> [content EXCEPT ![b] = Gone]
    [] OTHER -> content

Return ==
  /\ call # Idle /\ call' = Idle
  /\ content' = Effect
  /\ threw' = FALSE

Throw ==
  /\ call # Idle /\ call' = Idle
  /\ call.name \in {"put", "copy"} \/ call.weak
  /\ \/ UNCHANGED content
     \/ call.weak /\ content' = [content EXCEPT ![call.box] = Empty]
  /\ threw' = TRUE

Spec == Init /\ [][Call \/ Return \/ Throw]_<<content, call, threw>>
=============================================================================
