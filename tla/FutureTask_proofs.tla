------------------------- MODULE FutureTask_proofs -------------------------
(***************************************************************************)
(* What holds of FutureTask for any tasks, threads and places and any       *)
(* number of references: no fault happens, and the outcomes are those that  *)
(* TaskOutcomes promises.                                                  *)
(*                                                                         *)
(* The argument is about the flag. A task that was not fired still has its  *)
(* callable, its parameters and an open promise wherever it was moved; the  *)
(* one call that sets the flag keeps the promise open until it tells, since *)
(* nobody moves or drops a task that another thread refers to. So a promise *)
(* that is given up while it is open belongs to a task that never ran.      *)
(***************************************************************************)
EXTENDS FutureTask, TLAPS

TypeOK ==
  /\ refs \in [Places -> SUBSET Threads]
  /\ data \in [Places -> Tasks \cup {Gone}]
  /\ promise \in [Places -> Tasks \cup {NoState}]
  /\ fired \in [Places -> BOOLEAN]
  /\ pc \in [Threads -> {"idle", "fire", "execute", "tell"}]
  /\ here \in [Threads -> Places \cup {Nowhere}]
  /\ result \in [Threads -> {"value", "error"}]
  /\ body \in [Tasks -> {"unrun", "value", "error", "throws"}]
  /\ future \in [Tasks -> {"unmade", "pending", "value", "error", "exception", "broken"}]

(* The thread th has set the flag and not told the result yet. *)
Winner(th) == pc[th] \in {"execute", "tell"}

CallersRefer ==
  \A th \in Threads :
    pc[th] # "idle" =>
      here[th] \in Places /\ th \in refs[here[th]] /\ promise[here[th]] \in Tasks

OneWinner ==
  /\ \A th \in Threads : Winner(th) => fired[here[th]]
  /\ \A th, u \in Threads : Winner(th) /\ Winner(u) /\ here[th] = here[u] => th = u

(* The object in p can be run. *)
Runnable(p) ==
  /\ data[p] = promise[p]
  /\ future[promise[p]] = "pending" /\ body[promise[p]] = "unrun"

UnfiredIsRunnable ==
  /\ \A p \in Places : ~fired[p] /\ promise[p] \in Tasks => Runnable(p)
  /\ \A th \in Threads : pc[th] = "execute" => Runnable(here[th])

TellerHasResult ==
  \A th \in Threads : pc[th] = "tell" =>
    LET k == promise[here[th]] IN
    /\ future[k] = "pending" /\ body[k] # "unrun"
    /\ result[th] = "value" <=> body[k] = "value"

FiredIsTold ==
  \A p \in Places :
    fired[p] /\ promise[p] \in Tasks /\ future[promise[p]] = "pending" =>
      \E th \in Threads : Winner(th) /\ here[th] = p

PromisesDiffer ==
  \A p, q \in Places : promise[p] \in Tasks /\ promise[p] = promise[q] => p = q

NothingBeforeMake ==
  /\ \A k \in Tasks : future[k] = "unmade" => body[k] = "unrun"
  /\ \A p \in Places : promise[p] \in Tasks => future[promise[p]] # "unmade"

EmptyPlaces == \A p \in Places : refs[p] = {} => promise[p] = NoState

Inv ==
  /\ TypeOK /\ CallersRefer /\ OneWinner /\ UnfiredIsRunnable /\ TellerHasResult
  /\ FiredIsTold /\ PromisesDiffer /\ NothingBeforeMake /\ EmptyPlaces /\ NoFault

-----------------------------------------------------------------------------
(* A new object is runnable: its task is not in any place, and nobody calls it yet. *)
LEMMA MakeKeeps ==
  ASSUME Inv, NEW th \in Threads, NEW p \in Places, NEW k \in Tasks, Make(th, p, k)
  PROVE  Inv'
<1>1. TypeOK'
  BY DEF Inv, TypeOK, Make, calls
<1>2. CallersRefer'
  BY DEF Inv, TypeOK, CallersRefer, Make, calls
<1>3. OneWinner'
  BY DEF Inv, TypeOK, OneWinner, Winner, CallersRefer, Make, calls
<1>4. UnfiredIsRunnable'
  BY FutureAssumption DEF Inv, TypeOK, UnfiredIsRunnable, Runnable, NothingBeforeMake,
     Make, calls
<1>5. TellerHasResult'
  BY DEF Inv, TypeOK, TellerHasResult, CallersRefer, Make, calls
<1>6. FiredIsTold'
  BY FutureAssumption DEF Inv, TypeOK, FiredIsTold, Winner, NothingBeforeMake, Make, calls
<1>7. PromisesDiffer'
  BY FutureAssumption DEF Inv, TypeOK, PromisesDiffer, NothingBeforeMake, Make, calls
<1>8. NothingBeforeMake'
  BY DEF Inv, TypeOK, NothingBeforeMake, Make, calls
<1>9. EmptyPlaces'
  BY DEF Inv, TypeOK, EmptyPlaces, Make, calls
<1>10. NoFault'
  BY DEF Inv, TypeOK, NoFault, Make, calls
<1> QED BY <1>1, <1>2, <1>3, <1>4, <1>5, <1>6, <1>7, <1>8, <1>9, <1>10 DEF Inv

(* Another reference changes nothing that the callers rely on. *)
LEMMA ShareKeeps ==
  ASSUME Inv, NEW th \in Threads, NEW p \in Places, NEW u \in Threads, Share(th, p, u)
  PROVE  Inv'
<1>1. TypeOK'
  BY DEF Inv, TypeOK, Share, calls
<1>2. CallersRefer'
  BY DEF Inv, TypeOK, CallersRefer, Share, calls
<1>3. OneWinner'
  BY DEF Inv, TypeOK, OneWinner, Winner, Share, calls
<1>4. UnfiredIsRunnable'
  BY DEF Inv, TypeOK, UnfiredIsRunnable, Runnable, Share, calls
<1>5. TellerHasResult'
  BY DEF Inv, TypeOK, TellerHasResult, Share, calls
<1>6. FiredIsTold'
  BY DEF Inv, TypeOK, FiredIsTold, Winner, Share, calls
<1>7. PromisesDiffer'
  BY DEF Inv, TypeOK, PromisesDiffer, Share, calls
<1>8. NothingBeforeMake'
  BY DEF Inv, TypeOK, NothingBeforeMake, Share, calls
<1>9. EmptyPlaces'
  BY DEF Inv, TypeOK, EmptyPlaces, Share, calls
<1>10. NoFault'
  BY DEF Inv, TypeOK, NoFault, Share, calls
<1> QED BY <1>1, <1>2, <1>3, <1>4, <1>5, <1>6, <1>7, <1>8, <1>9, <1>10 DEF Inv

(* Nobody calls the object that is moved from, so the new one takes over all it has. *)
LEMMA MoveConstructKeeps ==
  ASSUME Inv, NEW th \in Threads, NEW p \in Places, NEW q \in Places, NEW u \in Threads,
         MoveConstruct(th, p, q, u)
  PROVE  Inv'
<1>1. TypeOK'
  BY DEF Inv, TypeOK, MoveConstruct, calls
<1>2. CallersRefer'
  BY DEF Inv, TypeOK, CallersRefer, MoveConstruct, calls
<1>3. OneWinner'
  BY DEF Inv, TypeOK, OneWinner, Winner, CallersRefer, MoveConstruct, calls
<1>4. UnfiredIsRunnable'
  BY FutureAssumption DEF Inv, TypeOK, UnfiredIsRunnable, Runnable, CallersRefer,
     MoveConstruct, calls
<1>5. TellerHasResult'
  BY DEF Inv, TypeOK, TellerHasResult, CallersRefer, MoveConstruct, calls
<1>6. FiredIsTold'
  BY FutureAssumption DEF Inv, TypeOK, FiredIsTold, Winner, CallersRefer, MoveConstruct,
     calls
<1>7. PromisesDiffer'
  BY FutureAssumption DEF Inv, TypeOK, PromisesDiffer, MoveConstruct, calls
<1>8. NothingBeforeMake'
  BY FutureAssumption DEF Inv, TypeOK, NothingBeforeMake, MoveConstruct, calls
<1>9. EmptyPlaces'
  BY DEF Inv, TypeOK, EmptyPlaces, MoveConstruct, calls
<1>10. NoFault'
  BY DEF Inv, TypeOK, NoFault, MoveConstruct, calls
<1> QED BY <1>1, <1>2, <1>3, <1>4, <1>5, <1>6, <1>7, <1>8, <1>9, <1>10 DEF Inv

(* As MoveConstruct; nobody calls the object that is overwritten either. *)
LEMMA MoveAssignKeeps ==
  ASSUME Inv, NEW th \in Threads, NEW p \in Places, NEW q \in Places, MoveAssign(th, p, q)
  PROVE  Inv'
<1>1. TypeOK'
  BY DEF Inv, TypeOK, MoveAssign, calls, Abandoned
<1>2. CallersRefer'
  BY DEF Inv, TypeOK, CallersRefer, MoveAssign, calls, Abandoned
<1>3. OneWinner'
  BY DEF Inv, TypeOK, OneWinner, Winner, CallersRefer, MoveAssign, calls, Abandoned
<1>4. UnfiredIsRunnable'
  BY FutureAssumption DEF Inv, TypeOK, UnfiredIsRunnable, Runnable, PromisesDiffer,
     CallersRefer, MoveAssign, calls, Abandoned
<1>5. TellerHasResult'
  BY FutureAssumption DEF Inv, TypeOK, TellerHasResult, PromisesDiffer, CallersRefer,
     MoveAssign, calls, Abandoned
<1>6. FiredIsTold'
  BY FutureAssumption DEF Inv, TypeOK, FiredIsTold, Winner, CallersRefer, MoveAssign,
     calls, Abandoned
<1>7. PromisesDiffer'
  BY FutureAssumption DEF Inv, TypeOK, PromisesDiffer, MoveAssign, calls, Abandoned
<1>8. NothingBeforeMake'
  BY FutureAssumption DEF Inv, TypeOK, NothingBeforeMake, MoveAssign, calls, Abandoned
<1>9. EmptyPlaces'
  BY DEF Inv, TypeOK, EmptyPlaces, MoveAssign, calls, Abandoned
<1>10. NoFault'
  BY DEF Inv, TypeOK, NoFault, MoveAssign, calls, Abandoned
<1> QED BY <1>1, <1>2, <1>3, <1>4, <1>5, <1>6, <1>7, <1>8, <1>9, <1>10 DEF Inv

(* The object is destroyed only when no call is under way in it. *)
LEMMA DropKeeps ==
  ASSUME Inv, NEW th \in Threads, NEW p \in Places, Drop(th, p)
  PROVE  Inv'
<1>1. TypeOK'
  <2>1. refs' \in [Places -> SUBSET Threads]
    BY DEF Inv, TypeOK, Drop
  <2>2. /\ data' \in [Places -> Tasks \cup {Gone}]
        /\ promise' \in [Places -> Tasks \cup {NoState}]
        /\ fired' \in [Places -> BOOLEAN]
    BY DEF Inv, TypeOK, Drop
  <2>3. future' \in [Tasks -> {"unmade", "pending", "value", "error", "exception", "broken"}]
    BY DEF Inv, TypeOK, Drop, Abandoned
  <2> QED BY <2>1, <2>2, <2>3 DEF Inv, TypeOK, Drop, calls
<1>2. CallersRefer'
  BY DEF Inv, TypeOK, CallersRefer, Drop, calls, Abandoned
<1>3. OneWinner'
  BY DEF Inv, TypeOK, OneWinner, Winner, CallersRefer, Drop, calls, Abandoned
<1>4. UnfiredIsRunnable'
  <2>1. CASE refs[p] # {th}
    BY <2>1 DEF Inv, TypeOK, UnfiredIsRunnable, Runnable, Drop, calls
  <2>2. CASE refs[p] = {th}
    BY <2>2, FutureAssumption DEF Inv, TypeOK, UnfiredIsRunnable, Runnable,
       PromisesDiffer, CallersRefer, Drop, Abandoned, calls
  <2> QED BY <2>1, <2>2
<1>5. TellerHasResult'
  BY FutureAssumption DEF Inv, TypeOK, TellerHasResult, PromisesDiffer, CallersRefer,
     Drop, calls, Abandoned
<1>6. FiredIsTold'
  BY DEF Inv, TypeOK, FiredIsTold, Winner, Drop, calls, Abandoned
<1>7. PromisesDiffer'
  BY FutureAssumption DEF Inv, TypeOK, PromisesDiffer, Drop, calls, Abandoned
<1>8. NothingBeforeMake'
  BY FutureAssumption DEF Inv, TypeOK, NothingBeforeMake, Drop, calls, Abandoned
<1>9. EmptyPlaces'
  BY DEF Inv, TypeOK, EmptyPlaces, Drop, calls, Abandoned
<1>10. NoFault'
  BY DEF Inv, TypeOK, NoFault, Drop, calls, Abandoned
<1> QED BY <1>1, <1>2, <1>3, <1>4, <1>5, <1>6, <1>7, <1>8, <1>9, <1>10 DEF Inv

(* The caller refers to the object for as long as it calls it. *)
LEMMA CallKeeps ==
  ASSUME Inv, NEW th \in Threads, NEW p \in Places, Call(th, p)
  PROVE  Inv'
<1>1. TypeOK'
  BY DEF Inv, TypeOK, Call, places
<1>2. CallersRefer'
  BY DEF Inv, TypeOK, CallersRefer, Call, places
<1>3. OneWinner'
  BY DEF Inv, TypeOK, OneWinner, Winner, Call, places
<1>4. UnfiredIsRunnable'
  BY DEF Inv, TypeOK, UnfiredIsRunnable, Runnable, Call, places
<1>5. TellerHasResult'
  BY DEF Inv, TypeOK, TellerHasResult, Call, places
<1>6. FiredIsTold'
  BY DEF Inv, TypeOK, FiredIsTold, Winner, Call, places
<1>7. PromisesDiffer'
  BY DEF Inv, TypeOK, PromisesDiffer, Call, places
<1>8. NothingBeforeMake'
  BY DEF Inv, TypeOK, NothingBeforeMake, Call, places
<1>9. EmptyPlaces'
  BY DEF Inv, TypeOK, EmptyPlaces, Call, places
<1>10. NoFault'
  BY DEF Inv, TypeOK, NoFault, Call, places
<1> QED BY <1>1, <1>2, <1>3, <1>4, <1>5, <1>6, <1>7, <1>8, <1>9, <1>10 DEF Inv

(* Who finds the flag clear is the only winner and finds the object runnable. *)
LEMMA FireKeeps ==
  ASSUME Inv, NEW th \in Threads, Fire(th)
  PROVE  Inv'
<1>1. TypeOK'
  BY DEF Inv, TypeOK, Fire
<1>2. CallersRefer'
  BY DEF Inv, TypeOK, CallersRefer, Fire
<1>3. OneWinner'
  BY DEF Inv, TypeOK, OneWinner, Winner, CallersRefer, Fire
<1>4. UnfiredIsRunnable'
  BY DEF Inv, TypeOK, UnfiredIsRunnable, Runnable, CallersRefer, Fire
<1>5. TellerHasResult'
  BY DEF Inv, TypeOK, TellerHasResult, Fire
<1>6. FiredIsTold'
  BY DEF Inv, TypeOK, FiredIsTold, Winner, Fire
<1>7. PromisesDiffer'
  BY DEF Inv, TypeOK, PromisesDiffer, Fire
<1>8. NothingBeforeMake'
  BY DEF Inv, TypeOK, NothingBeforeMake, Fire
<1>9. EmptyPlaces'
  BY DEF Inv, TypeOK, EmptyPlaces, Fire
<1>10. NoFault'
  BY DEF Inv, TypeOK, NoFault, Fire
<1> QED BY <1>1, <1>2, <1>3, <1>4, <1>5, <1>6, <1>7, <1>8, <1>9, <1>10 DEF Inv

(* The winner runs the callable with its parameters and leaves the promise open. *)
LEMMA ExecuteKeeps ==
  ASSUME Inv, NEW th \in Threads, Execute(th)
  PROVE  Inv'
<1> DEFINE p == here[th]
           k == data[p]
<1>1. p \in Places /\ k \in Tasks /\ k = promise[p] /\ k # Gone
  <2>1. pc[th] = "execute"
    BY DEF Execute
  <2> QED
    BY <2>1, FutureAssumption DEF Inv, CallersRefer, UnfiredIsRunnable, Runnable
<1>2. PICK o \in {"value", "error", "throws"} :
        /\ body' = [body EXCEPT ![k] = o]
        /\ result' = [result EXCEPT ![th] = IF o = "value" THEN "value" ELSE "error"]
  BY <1>1 DEF Execute
<1>3. /\ pc[th] = "execute" /\ pc' = [pc EXCEPT ![th] = "tell"]
      /\ data' = [data EXCEPT ![p] = Gone]
      /\ UNCHANGED <<refs, promise, fired, here, future, fault>>
  BY <1>1 DEF Execute
<1> HIDE DEF k
<1>4. TypeOK'
  BY <1>1, <1>2, <1>3 DEF Inv, TypeOK
<1>5. CallersRefer'
  BY <1>1, <1>2, <1>3 DEF Inv, TypeOK, CallersRefer
<1>6. OneWinner'
  BY <1>1, <1>2, <1>3 DEF Inv, TypeOK, OneWinner, Winner
<1>7. UnfiredIsRunnable'
  BY <1>1, <1>2, <1>3, FutureAssumption DEF Inv, TypeOK, UnfiredIsRunnable, Runnable,
     PromisesDiffer, OneWinner, Winner, CallersRefer
<1>8. TellerHasResult'
  BY <1>1, <1>2, <1>3, FutureAssumption DEF Inv, TypeOK, TellerHasResult, OneWinner,
     Winner, CallersRefer, UnfiredIsRunnable, Runnable
<1>9. FiredIsTold'
  BY <1>1, <1>2, <1>3 DEF Inv, TypeOK, FiredIsTold, Winner
<1>10. PromisesDiffer'
  BY <1>1, <1>2, <1>3 DEF Inv, TypeOK, PromisesDiffer
<1>11. NothingBeforeMake'
  BY <1>1, <1>2, <1>3 DEF Inv, TypeOK, NothingBeforeMake
<1>12. EmptyPlaces'
  BY <1>1, <1>2, <1>3 DEF Inv, TypeOK, EmptyPlaces
<1>13. NoFault'
  BY <1>1, <1>2, <1>3 DEF Inv, TypeOK, NoFault
<1> QED BY <1>4, <1>5, <1>6, <1>7, <1>8, <1>9, <1>10, <1>11, <1>12, <1>13 DEF Inv

(* The promise that the winner finds is there and open. *)
LEMMA TellKeeps ==
  ASSUME Inv, NEW th \in Threads, Tell(th)
  PROVE  Inv'
<1>1. TypeOK'
  BY DEF Inv, TypeOK, Tell, places
<1>2. CallersRefer'
  BY DEF Inv, TypeOK, CallersRefer, Tell, places
<1>3. OneWinner'
  BY DEF Inv, TypeOK, OneWinner, Winner, Tell, places
<1>4. UnfiredIsRunnable'
  BY FutureAssumption DEF Inv, TypeOK, UnfiredIsRunnable, Runnable, PromisesDiffer,
     OneWinner, Winner, CallersRefer, Tell, places
<1>5. TellerHasResult'
  BY FutureAssumption DEF Inv, TypeOK, TellerHasResult, PromisesDiffer, OneWinner,
     Winner, CallersRefer, Tell, places
<1>6. FiredIsTold'
  BY FutureAssumption DEF Inv, TypeOK, FiredIsTold, Winner, Tell, places
<1>7. PromisesDiffer'
  BY DEF Inv, TypeOK, PromisesDiffer, Tell, places
<1>8. NothingBeforeMake'
  BY DEF Inv, TypeOK, NothingBeforeMake, Tell, places
<1>9. EmptyPlaces'
  BY DEF Inv, TypeOK, EmptyPlaces, Tell, places
<1>10. NoFault'
  BY FutureAssumption DEF Inv, TypeOK, NoFault, TellerHasResult, CallersRefer, Tell,
     places
<1> QED BY <1>1, <1>2, <1>3, <1>4, <1>5, <1>6, <1>7, <1>8, <1>9, <1>10 DEF Inv


(* The invariant holds for any tasks, threads, places and references. *)
THEOREM InvHolds == Spec => []Inv
<1>1. Init => Inv
  BY FutureAssumption DEF Init, Inv, TypeOK, CallersRefer, OneWinner, UnfiredIsRunnable,
     TellerHasResult, FiredIsTold, PromisesDiffer, NothingBeforeMake, EmptyPlaces, NoFault, Winner
<1>2. Inv /\ [Next]_vars => Inv'
  <2> SUFFICES ASSUME Inv, [Next]_vars PROVE Inv'
    OBVIOUS
  <2>1. CASE UNCHANGED vars
    BY <2>1 DEF vars, places, calls, Inv, TypeOK, CallersRefer, OneWinner,
       UnfiredIsRunnable, Runnable,
       TellerHasResult, FiredIsTold, PromisesDiffer, NothingBeforeMake, EmptyPlaces, NoFault, Winner
  <2>2. CASE Next
    BY <2>2, MakeKeeps, ShareKeeps, MoveConstructKeeps, MoveAssignKeeps, DropKeeps,
       CallKeeps, FireKeeps, ExecuteKeeps, TellKeeps DEF Next, CallStep
  <2> QED BY <2>1, <2>2
<1> QED BY <1>1, <1>2, PTL DEF Spec

(* No call throws out of operator() or runs a callable without its parameters. *)
THEOREM NothingGoesWrong == Spec => []NoFault
<1>1. Inv => NoFault
  BY DEF Inv
<1> QED BY <1>1, InvHolds, PTL

(* A task that is dropped or assigned to is no promise, or one that was kept, or
   one whose callable never ran. *)
LEMMA GivenUpUnrun ==
  ASSUME Inv, NEW p \in Places, promise[p] \in Tasks, future[promise[p]] = "pending",
         \A th \in Threads : th \in refs[p] => pc[th] = "idle"
  PROVE  body[promise[p]] = "unrun"
<1>1. ~fired[p]
  BY DEF Inv, FiredIsTold, CallersRefer, Winner
<1> QED
  BY <1>1 DEF Inv, UnfiredIsRunnable, Runnable

(* A destructor or an assignment gives up the task, or tells its future nothing new. *)
LEMMA AbandonedGivesUp ==
  ASSUME Inv, NEW p \in Places,
         \A th \in Threads : th \in refs[p] => pc[th] = "idle",
         future' = Abandoned(p), UNCHANGED body
  PROVE  [Promised!Next]_Promised!vars
<1>1. CASE promise[p] \in Tasks /\ future[promise[p]] = "pending"
  <2>1. Promised!GiveUp(promise[p])
    <3>1. body[promise[p]] = "unrun"
      BY <1>1, GivenUpUnrun
    <3>2. future' = [future EXCEPT ![promise[p]] = "broken"]
      BY <1>1 DEF Abandoned, Inv, TypeOK
    <3> QED BY <1>1, <3>1, <3>2 DEF Promised!GiveUp
  <2> QED BY <1>1, <2>1 DEF Promised!Next
<1>2. CASE ~(promise[p] \in Tasks /\ future[promise[p]] = "pending")
  <2>1. future' = future
    BY <1>2 DEF Abandoned, Inv, TypeOK
  <2> QED BY <2>1 DEF Promised!vars
<1> QED BY <1>1, <1>2

(* FutureTask implements TaskOutcomes: the callable runs at most once, the future is
   told once and what that run did, and a task given up unrun breaks its promise. *)
THEOREM RefinesOutcomes == Spec => ImplementsOutcomes
<1>1. Init => Promised!Init
  BY DEF Init, Promised!Init
<1>2. Inv /\ [Next]_vars => [Promised!Next]_Promised!vars
  <2> SUFFICES ASSUME Inv, [Next]_vars PROVE [Promised!Next]_Promised!vars
    OBVIOUS
  <2>1. CASE UNCHANGED vars
    BY <2>1 DEF vars, Promised!vars
  <2>2. ASSUME NEW th \in Threads, NEW p \in Places, NEW k \in Tasks, Make(th, p, k)
        PROVE  Promised!Next
    BY <2>2 DEF Make, Promised!Next, Promised!Make
  <2>3. ASSUME NEW th \in Threads, NEW p \in Places, NEW u \in Threads,
               \/ Share(th, p, u) \/ Call(th, p)
               \/ \E q \in Places : MoveConstruct(th, p, q, u)
        PROVE  UNCHANGED Promised!vars
    BY <2>3 DEF Share, Call, MoveConstruct, Promised!vars
  <2>4. ASSUME NEW th \in Threads, NEW p \in Places, NEW q \in Places, MoveAssign(th, p, q)
        PROVE  [Promised!Next]_Promised!vars
    <3>1. \A u \in Threads : u \in refs[q] => pc[u] = "idle"
      BY <2>4 DEF MoveAssign
    <3>2. future' = Abandoned(q) /\ UNCHANGED body
      BY <2>4 DEF MoveAssign
    <3> QED BY <3>1, <3>2, AbandonedGivesUp
  <2>5. ASSUME NEW th \in Threads, NEW p \in Places, Drop(th, p)
        PROVE  [Promised!Next]_Promised!vars
    <3>1. CASE refs[p] = {th}
      <4>1. \A u \in Threads : u \in refs[p] => pc[u] = "idle"
        BY <2>5, <3>1 DEF Drop
      <4>2. future' = Abandoned(p) /\ UNCHANGED body
        BY <2>5, <3>1 DEF Drop
      <4> QED BY <4>1, <4>2, AbandonedGivesUp
    <3>2. CASE refs[p] # {th}
      BY <2>5, <3>2 DEF Drop, Promised!vars
    <3> QED BY <3>1, <3>2
  <2>6. ASSUME NEW th \in Threads, Execute(th)
        PROVE  Promised!Next
    <3> DEFINE k == data[here[th]]
    <3>1. k \in Tasks /\ k # Gone /\ future[k] = "pending" /\ body[k] = "unrun"
      <4>1. pc[th] = "execute"
        BY <2>6 DEF Execute
      <4> QED BY <4>1, FutureAssumption DEF Inv, CallersRefer, UnfiredIsRunnable, Runnable
    <3>2. PICK o \in {"value", "throws"} \cup (IF k \in ResultTasks THEN {"error"} ELSE {}) :
            body' = [body EXCEPT ![k] = o]
      BY <2>6, <3>1 DEF Execute
    <3>3. UNCHANGED future
      BY <2>6 DEF Execute
    <3>4. o \in Promised!Outcomes(k)
      BY <3>2 DEF Promised!Outcomes
    <3>5. Promised!Run(k)
      BY <3>1, <3>2, <3>3, <3>4 DEF Promised!Run
    <3> QED BY <3>1, <3>5 DEF Promised!Next
  <2>7. ASSUME NEW th \in Threads, Tell(th)
        PROVE  Promised!Next
    <3> DEFINE k == promise[here[th]]
    <3>1. pc[th] = "tell"
      BY <2>7 DEF Tell
    <3>2. /\ k \in Tasks /\ k # NoState /\ future[k] = "pending" /\ body[k] # "unrun"
          /\ result[th] = "value" <=> body[k] = "value"
          /\ result[th] \in {"value", "error"}
      BY <3>1, FutureAssumption DEF Inv, TypeOK, CallersRefer, TellerHasResult
    <3>3. /\ future' = [future EXCEPT ![k] =
               IF k \in ResultTasks \/ result[th] = "value" THEN result[th] ELSE "exception"]
          /\ UNCHANGED body
      BY <2>7, <3>2 DEF Tell
    <3>4. Promised!Tell(k)
      BY <3>2, <3>3 DEF Promised!Tell, Promised!Told
    <3> QED BY <3>2, <3>4 DEF Promised!Next
  <2>8. ASSUME NEW th \in Threads, Fire(th)
        PROVE  UNCHANGED Promised!vars
    BY <2>8 DEF Fire, Promised!vars
  <2>9. CASE Next
    <3> PICK th \in Threads :
          \/ CallStep(th)
          \/ \E p \in Places :
               \/ Call(th, p) \/ Drop(th, p)
               \/ \E k \in Tasks : Make(th, p, k)
               \/ \E u \in Threads : Share(th, p, u)
               \/ \E q \in Places : MoveAssign(th, p, q)
               \/ \E q \in Places, u \in Threads : MoveConstruct(th, p, q, u)
      BY <2>9 DEF Next
    <3>1. CASE CallStep(th)
      BY <3>1, <2>6, <2>7, <2>8 DEF CallStep
    <3>2. ASSUME NEW p \in Places, Call(th, p) \/ \E u \in Threads : Share(th, p, u)
          PROVE  UNCHANGED Promised!vars
      BY <3>2, <2>3
    <3>3. ASSUME NEW p \in Places, \E q \in Places, u \in Threads : MoveConstruct(th, p, q, u)
          PROVE  UNCHANGED Promised!vars
      BY <3>3, <2>3
    <3> QED BY <3>1, <3>2, <3>3, <2>2, <2>4, <2>5
  <2> QED BY <2>1, <2>9
<1> QED BY <1>1, <1>2, InvHolds, PTL DEF Spec, ImplementsOutcomes, Promised!Spec
=============================================================================
