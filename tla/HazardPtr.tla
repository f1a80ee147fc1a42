------------------------------ MODULE HazardPtr ------------------------------
(***************************************************************************)
(* lite_fnds::hp_mgr and hazard_ptr (memory/hazard_ptr.h), with the static  *)
(* retire list. A reader takes a record for its hazard_ptr, protects what a *)
(* shared pointer points to, uses it and gives the record back. An updater  *)
(* exchanges the shared pointer and retires what it pointed to; retire and  *)
(* sweep_and_reclaim delete an object when no record holds its address, and *)
(* keep it in the retire list otherwise.                                   *)
(*                                                                         *)
(* Every access to a record is a step of its own, so a scan of the records  *)
(* sees each of them at another time. An object is its address: what has    *)
(* been deleted may be allocated again. The retire list is a stack, as      *)
(* LifoLists promises of a static_list. Here a store is visible at once;    *)
(* HazardPtrTso gives every thread a store buffer.                         *)
(***************************************************************************)
EXTENDS Naturals, Sequences, FiniteSets

CONSTANTS
  Threads,
  Objects,    \* the addresses of the shared objects
  MaxSlot,    \* max_slot
  RetireCap,  \* the capacity of the retire list, max_slot << 1
  MaxOps,     \* bound: calls made
  Null        \* nullptr, and the tid of a free record

ASSUME HazardAssumption ==
  /\ MaxSlot \in Nat \ {0} /\ RetireCap \in Nat \ {0} /\ MaxOps \in Nat
  /\ Null \notin Threads \cup Objects
  /\ IsFiniteSet(Objects)

VARIABLES
  tid,     \* tid[i], ptr[i]: the record i
  ptr,
  target,  \* the shared pointer, an atomic of the program
  status,  \* status[o]: "free", "live" or, once unlinked, "retired"
  retired, \* retire_list
  pc,      \* pc[th]: where th stands
  slot,    \* slot[th]: the record of its hazard_ptr, MaxSlot for nullptr
  at,      \* at[th]: the record a loop of th has come to
  hand,    \* hand[th]: the object th reads, or retires
  sweeps,  \* sweeps[th]: th runs sweep_and_reclaim, not retire
  ops      \* how many calls have been made

vars == <<tid, ptr, target, status, retired, pc, slot, at, hand, sweeps, ops>>

Records == 0 .. MaxSlot - 1
Goto(th, l) == pc' = [pc EXCEPT ![th] = l]

Init ==
  /\ tid = [i \in Records |-> Null]
  /\ ptr = [i \in Records |-> Null]
  /\ \E o \in Objects : /\ target = o
                        /\ status = [a \in Objects |-> IF a = o THEN "live" ELSE "free"]
  /\ retired = <<>>
  /\ pc = [th \in Threads |-> "idle"]
  /\ slot = [th \in Threads |-> MaxSlot]
  /\ at = [th \in Threads |-> 0]
  /\ hand = [th \in Threads |-> Null]
  /\ sweeps = [th \in Threads |-> FALSE]
  /\ ops = 0

Starts(th, l) ==
  /\ pc[th] = "idle" /\ ops < MaxOps
  /\ ops' = ops + 1
  /\ Goto(th, l)

-----------------------------------------------------------------------------
(* A reader: hazard_ptr(), acquire_protected, the use, ~hazard_ptr *)

BeginRead(th) ==
  /\ Starts(th, "slot")
  /\ UNCHANGED <<tid, ptr, target, status, retired, slot, at, hand, sweeps>>

(* hp_mgr::acquire_slot *)
TakeSlot(th) ==
  /\ pc[th] = "slot" /\ at[th] \in Records /\ tid[at[th]] = Null
  /\ tid' = [tid EXCEPT ![at[th]] = th]
  /\ slot' = [slot EXCEPT ![th] = at[th]]
  /\ at' = [at EXCEPT ![th] = 0]
  /\ Goto(th, "load")
  /\ UNCHANGED <<ptr, target, status, retired, hand, sweeps, ops>>

PassSlot(th) ==
  /\ pc[th] = "slot" /\ at[th] \in Records /\ tid[at[th]] # Null
  /\ at' = [at EXCEPT ![th] = @ + 1]
  /\ UNCHANGED <<tid, ptr, target, status, retired, pc, slot, hand, sweeps, ops>>

(* available() is false: the caller must not protect *)
NoSlot(th) ==
  /\ pc[th] = "slot" /\ at[th] = MaxSlot
  /\ at' = [at EXCEPT ![th] = 0]
  /\ Goto(th, "idle")
  /\ UNCHANGED <<tid, ptr, target, status, retired, slot, hand, sweeps, ops>>

LoadTarget(th) ==
  /\ pc[th] = "load"
  /\ hand' = [hand EXCEPT ![th] = target]
  /\ Goto(th, "protect")
  /\ UNCHANGED <<tid, ptr, target, status, retired, slot, at, sweeps, ops>>

Protect(th) ==
  /\ pc[th] = "protect"
  /\ ptr' = [ptr EXCEPT ![slot[th]] = hand[th]]
  /\ Goto(th, "check")
  /\ UNCHANGED <<tid, target, status, retired, slot, at, hand, sweeps, ops>>

(* Mutants: the pointer is not loaded again; the loop goes on with the old value. *)
ReloadNothing(th) ==
  /\ pc[th] = "check"
  /\ Goto(th, "use")
  /\ UNCHANGED <<tid, ptr, target, status, retired, slot, at, hand, sweeps, ops>>

ReloadStale(th) ==
  /\ pc[th] = "check"
  /\ Goto(th, IF target = hand[th] THEN "use" ELSE "protect")
  /\ UNCHANGED <<tid, ptr, target, status, retired, slot, at, hand, sweeps, ops>>

(* the caller dereferences what acquire_protected returned while it is at "use" *)
Reload(th) ==
  /\ pc[th] = "check"
  /\ Goto(th, IF target = hand[th] THEN "use" ELSE "load")
  /\ UNCHANGED <<tid, ptr, target, status, retired, slot, at, hand, sweeps, ops>>

(* the hazard_ptr is used once more, its protection stays until the next protect *)
ReadAgain(th) ==
  /\ pc[th] = "use" /\ ops < MaxOps
  /\ ops' = ops + 1
  /\ Goto(th, "load")
  /\ UNCHANGED <<tid, ptr, target, status, retired, slot, at, hand, sweeps>>

(* Mutant: the record is given back with the pointer in it. *)
UnprotectNothing(th) ==
  /\ pc[th] = "use"
  /\ Goto(th, "release")
  /\ UNCHANGED <<tid, ptr, target, status, retired, slot, at, hand, sweeps, ops>>

(* release_slot: the pointer first, then the record *)
Unprotect(th) ==
  /\ pc[th] = "use"
  /\ ptr' = [ptr EXCEPT ![slot[th]] = Null]
  /\ Goto(th, "release")
  /\ UNCHANGED <<tid, target, status, retired, slot, at, hand, sweeps, ops>>

ReleaseSlot(th) ==
  /\ pc[th] = "release"
  /\ tid' = [tid EXCEPT ![slot[th]] = Null]
  /\ slot' = [slot EXCEPT ![th] = MaxSlot]
  /\ hand' = [hand EXCEPT ![th] = Null]
  /\ Goto(th, "idle")
  /\ UNCHANGED <<ptr, target, status, retired, at, sweeps, ops>>

-----------------------------------------------------------------------------
(* An updater: the program exchanges the pointer, then calls retire *)

Update(th) ==
  /\ target # Null
  /\ Starts(th, "scan")
  /\ hand' = [hand EXCEPT ![th] = target]
  /\ \/ /\ target' = Null
        /\ status' = [status EXCEPT ![target] = "retired"]
     \/ \E o \in Objects :
          /\ status[o] = "free"
          /\ target' = o
          /\ status' = [status EXCEPT ![target] = "retired", ![o] = "live"]
  /\ UNCHANGED <<tid, ptr, retired, slot, at, sweeps>>

(* nothing was there to retire *)
Publish(th) ==
  /\ target = Null
  /\ pc[th] = "idle" /\ ops < MaxOps
  /\ ops' = ops + 1
  /\ \E o \in Objects : /\ status[o] = "free"
                        /\ target' = o
                        /\ status' = [status EXCEPT ![o] = "live"]
  /\ UNCHANGED <<tid, ptr, retired, pc, slot, at, hand, sweeps>>

BeginSweep(th) ==
  /\ Starts(th, "pop")
  /\ sweeps' = [sweeps EXCEPT ![th] = TRUE]
  /\ UNCHANGED <<tid, ptr, target, status, retired, slot, at, hand>>

(* Mutant: the node is read and left in the list. *)
PopRetiredLeaves(th) ==
  /\ pc[th] = "pop" /\ retired # <<>>
  /\ hand' = [hand EXCEPT ![th] = Head(retired)]
  /\ Goto(th, "scan")
  /\ UNCHANGED <<tid, ptr, target, status, retired, slot, at, sweeps, ops>>

PopRetired(th) ==
  /\ pc[th] = "pop" /\ retired # <<>>
  /\ hand' = [hand EXCEPT ![th] = Head(retired)]
  /\ retired' = Tail(retired)
  /\ Goto(th, "scan")
  /\ UNCHANGED <<tid, ptr, target, status, slot, at, sweeps, ops>>

SweepReturns(th) ==
  /\ pc[th] = "pop" /\ retired = <<>>
  /\ sweeps' = [sweeps EXCEPT ![th] = FALSE]
  /\ Goto(th, "idle")
  /\ UNCHANGED <<tid, ptr, target, status, retired, slot, at, hand, ops>>

(* is_hazard, one record at a time *)
Scan(th) ==
  /\ pc[th] = "scan"
  /\ \/ /\ at[th] \in Records /\ ptr[at[th]] # hand[th]
        /\ at' = [at EXCEPT ![th] = @ + 1]
        /\ UNCHANGED pc
     \/ /\ at[th] \in Records /\ ptr[at[th]] = hand[th]
        /\ at' = [at EXCEPT ![th] = 0]
        /\ Goto(th, "keep")
     \/ /\ at[th] = MaxSlot
        /\ at' = [at EXCEPT ![th] = 0]
        /\ Goto(th, "delete")
  /\ UNCHANGED <<tid, ptr, target, status, retired, slot, hand, sweeps, ops>>

Delete(th) ==
  /\ pc[th] = "delete"
  /\ status' = [status EXCEPT ![hand[th]] = "free"]
  /\ hand' = [hand EXCEPT ![th] = Null]
  /\ Goto(th, IF sweeps[th] THEN "pop" ELSE "idle")
  /\ UNCHANGED <<tid, ptr, target, retired, slot, at, sweeps, ops>>

(* the result of emplace is not looked at: with a full list the object is lost *)
Keep(th) ==
  /\ pc[th] = "keep"
  /\ retired' = IF Len(retired) < RetireCap THEN <<hand[th]>> \o retired ELSE retired
  /\ hand' = [hand EXCEPT ![th] = Null]
  /\ Goto(th, IF sweeps[th] THEN "pop" ELSE "idle")
  /\ UNCHANGED <<tid, ptr, target, status, slot, at, sweeps, ops>>

-----------------------------------------------------------------------------
Begin(th) == BeginRead(th) \/ ReadAgain(th) \/ Update(th) \/ Publish(th) \/ BeginSweep(th)

Step(th) ==
  \/ TakeSlot(th) \/ PassSlot(th) \/ NoSlot(th)
  \/ LoadTarget(th) \/ Protect(th) \/ Reload(th) \/ Unprotect(th) \/ ReleaseSlot(th)
  \/ PopRetired(th) \/ SweepReturns(th) \/ Scan(th) \/ Delete(th) \/ Keep(th)

Next == \E th \in Threads : Begin(th) \/ Step(th)

Spec == Init /\ [][Next]_vars

(* Every thread that is inside a call keeps running, and a reader gives its
   record back some time. *)
FairSpec == Spec /\ \A th \in Threads : WF_vars(Step(th))

-----------------------------------------------------------------------------
TypeOK ==
  /\ tid \in [Records -> Threads \cup {Null}]
  /\ ptr \in [Records -> Objects \cup {Null}]
  /\ target \in Objects \cup {Null}
  /\ status \in [Objects -> {"free", "live", "retired"}]
  /\ retired \in Seq(Objects)
  /\ pc \in [Threads -> {"idle", "slot", "load", "protect", "check", "use", "release",
                         "pop", "scan", "delete", "keep"}]
  /\ slot \in [Threads -> Records \cup {MaxSlot}]
  /\ at \in [Threads -> Records \cup {MaxSlot}]
  /\ hand \in [Threads -> Objects \cup {Null}]
  /\ sweeps \in [Threads -> BOOLEAN]
  /\ ops \in 0 .. MaxOps

(* What acquire_protected returned is not deleted while its caller uses it. *)
NoUseAfterFree ==
  \A th \in Threads : pc[th] = "use" /\ hand[th] # Null => status[hand[th]] # "free"

(* An object that was unlinked is in one place: in the retire list or in the
   hands of one thread that decides about it. It is never deleted twice, nor
   while it is linked; and it is lost only if more objects are retired than the
   list has room for, as retire does not look whether emplace succeeded. *)
Deciding(o) == {th \in Threads : pc[th] \in {"scan", "delete", "keep"} /\ hand[th] = o}
Kept(o) == {i \in DOMAIN retired : retired[i] = o}

RetiredOnce ==
  \A o \in Objects :
    LET places == Cardinality(Deciding(o)) + Cardinality(Kept(o)) IN
    /\ places <= IF status[o] = "retired" THEN 1 ELSE 0
    /\ status[o] = "retired" /\ Cardinality(Objects) <= RetireCap => places = 1

(* A record serves one hazard_ptr, and a record that nobody has protects
   nothing: its next owner does not start with an object of somebody else. *)
RecordsExclusive ==
  /\ \A th \in Threads : slot[th] # MaxSlot => tid[slot[th]] = th
  /\ \A i \in Records : tid[i] = Null => ptr[i] = Null

(* Every call returns: acquire_protected does not chase the pointer for ever, and
   a sweep, which takes the object it has just put back, ends when the readers
   have gone on. *)
EveryCallReturns == \A th \in Threads : pc[th] # "idle" ~> pc[th] = "idle"
=============================================================================
