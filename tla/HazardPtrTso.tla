---------------------------- MODULE HazardPtrTso ----------------------------
(***************************************************************************)
(* HazardPtr (memory/hazard_ptr.h) with the ordering its memory_orders ask  *)
(* for on a processor with total store order, such as x86: the release      *)
(* stores of protect, unprotect and release_slot go into the store buffer   *)
(* of their thread and reach the memory later, in order, while its acquire  *)
(* loads go on. The atomic read-modify-writes (the compare-and-swap of      *)
(* acquire_slot, the exchange of the program's pointer, the retire list's)  *)
(* wait until the buffer of their thread is empty.                         *)
(***************************************************************************)
EXTENDS HazardPtr

VARIABLE buf  \* buf[th]: the stores of th that are not in the memory yet

tsoVars == <<vars, buf>>

TsoInit == Init /\ buf = [th \in Threads |-> <<>>]

Buffer(th, field, value) ==
  buf' = [buf EXCEPT ![th] = Append(@, [field |-> field, record |-> slot[th], value |-> value])]

TsoProtect(th) ==
  /\ pc[th] = "protect"
  /\ Buffer(th, "ptr", hand[th])
  /\ Goto(th, "check")
  /\ UNCHANGED <<tid, ptr, target, status, retired, slot, at, hand, sweeps, ops>>

TsoUnprotect(th) ==
  /\ pc[th] = "use"
  /\ Buffer(th, "ptr", Null)
  /\ Goto(th, "release")
  /\ UNCHANGED <<tid, ptr, target, status, retired, slot, at, hand, sweeps, ops>>

TsoReleaseSlot(th) ==
  /\ pc[th] = "release"
  /\ Buffer(th, "tid", Null)
  /\ slot' = [slot EXCEPT ![th] = MaxSlot]
  /\ hand' = [hand EXCEPT ![th] = Null]
  /\ Goto(th, "idle")
  /\ UNCHANGED <<tid, ptr, target, status, retired, at, sweeps, ops>>

(* the processor writes the oldest store of th to the memory *)
Drain(th) ==
  /\ buf[th] # <<>>
  /\ LET s == Head(buf[th]) IN
     IF s.field = "ptr" THEN ptr' = [ptr EXCEPT ![s.record] = s.value] /\ UNCHANGED tid
     ELSE tid' = [tid EXCEPT ![s.record] = s.value] /\ UNCHANGED ptr
  /\ buf' = [buf EXCEPT ![th] = Tail(@)]
  /\ UNCHANGED <<target, status, retired, pc, slot, at, hand, sweeps, ops>>

(* read-modify-writes, and is_hazard, whose loads follow one in every caller *)
Ordered(th) ==
  \/ TakeSlot(th) \/ PassSlot(th) \/ Update(th) \/ Publish(th)
  \/ PopRetired(th) \/ SweepReturns(th) \/ Scan(th) \/ Delete(th) \/ Keep(th)

(* steps that only load, or stay in their thread *)
Unordered(th) ==
  BeginRead(th) \/ ReadAgain(th) \/ BeginSweep(th) \/ NoSlot(th) \/ LoadTarget(th) \/ Reload(th)

TsoNext ==
  \E th \in Threads :
    \/ TsoProtect(th) \/ TsoUnprotect(th) \/ TsoReleaseSlot(th) \/ Drain(th)
    \/ buf[th] = <<>> /\ Ordered(th) /\ UNCHANGED buf
    \/ Unordered(th) /\ UNCHANGED buf

TsoSpec == TsoInit /\ [][TsoNext]_tsoVars
=============================================================================
