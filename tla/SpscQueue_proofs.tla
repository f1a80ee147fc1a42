-------------------------- MODULE SpscQueue_proofs --------------------------
(***************************************************************************)
(* Proofs about SpscQueue, for any capacity and any number of operations.   *)
(*                                                                         *)
(* The invariant counts what the two sides have done in tickets: Cleared    *)
(* <= Taken <= Published <= Cleared + Capacity. The flag of a slot is up    *)
(* exactly for the tickets from Cleared to Published, and its storage holds *)
(* the object exactly for those from Taken to Published. Tickets less than  *)
(* Capacity apart use different slots, so neither side disturbs the other.  *)
(***************************************************************************)
EXTENDS SpscQueue, TLAPS

(* Tickets less than a lap apart never share a slot. *)
LEMMA WindowDistinct ==
  ASSUME NEW i \in Nat, NEW j \in Nat, i < j, j < i + Capacity
  PROVE  Slot(i) # Slot(j)
<1> DEFINE q(k) == k \div Capacity
<1>1. /\ q(i) \in Nat /\ i = Capacity * q(i) + Slot(i)
      /\ q(j) \in Nat /\ j = Capacity * q(j) + Slot(j)
      /\ Slot(i) \in Nat /\ Slot(j) \in Nat
  BY SpscAssumption, SMTT(30) DEF Slot
<1>2. SUFFICES ASSUME Slot(i) = Slot(j) PROVE FALSE
  OBVIOUS
<1> HIDE DEF q
<1>3. j - i = Capacity * (q(j) - q(i))
  BY <1>1, <1>2, SpscAssumption
<1>4. q(j) - q(i) >= 1
  <2>1. SUFFICES ASSUME q(j) - q(i) <= 0 PROVE FALSE
    BY <1>1
  <2>2. Capacity * (q(j) - q(i)) <= 0
    BY <2>1, <1>1, SpscAssumption
  <2>3. QED
    BY <2>2, <1>3
<1>5. Capacity * (q(j) - q(i)) >= Capacity
  BY <1>4, <1>1, SpscAssumption
<1>6. QED
  BY <1>3, <1>5, SpscAssumption

(* The ticket of slot s in lap n. *)
LEMMA SlotOfTicket == \A n \in Nat, s \in Slots : Slot(Capacity * n + s) = s
BY SpscAssumption, SMTT(30) DEF Slots, Slot

(* Every slot is used once in every lap, wherever the lap starts. *)
LEMMA LapCoversSlots ==
  ASSUME NEW b \in Nat, NEW s \in Slots
  PROVE  \E k \in b .. b + Capacity - 1 : Slot(k) = s
<1> DEFINE q == b \div Capacity
           r == b % Capacity
           k == IF s >= r THEN Capacity * q + s ELSE Capacity * (q + 1) + s
<1>1. q \in Nat /\ r \in Slots /\ b = Capacity * q + r
  BY SpscAssumption, SMTT(30) DEF Slots
<1>2. Capacity * (q + 1) = Capacity * q + Capacity /\ Capacity * q \in Nat
  BY <1>1, SpscAssumption
<1> HIDE DEF q, r
<1>3. k \in b .. b + Capacity - 1
  BY <1>1, <1>2, SpscAssumption DEF Slots
<1>4. Slot(k) = s
  BY <1>1, SlotOfTicket
<1>5. QED
  BY <1>3, <1>4

(* Every ticket has a slot. *)
LEMMA SlotInSlots == \A i \in Nat : Slot(i) \in Slots
BY SpscAssumption, SMTT(30) DEF Slot, Slots

(* Tickets a lap apart share their slot. *)
LEMMA SlotPeriod == \A i \in Nat : Slot(i + Capacity) = Slot(i)
<1> SUFFICES ASSUME NEW i \in Nat PROVE Slot(i + Capacity) = Slot(i)
  OBVIOUS
<1> DEFINE q == i \div Capacity
<1>1. q \in Nat /\ Slot(i) \in Slots /\ i = Capacity * q + Slot(i)
  BY SpscAssumption, SMTT(30) DEF Slot, Slots
<1> HIDE DEF q
<1>2. i + Capacity = Capacity * (q + 1) + Slot(i)
  <2>1. Capacity * (q + 1) = Capacity * q + Capacity
    BY <1>1, SpscAssumption
  <2>2. QED
    BY <1>1, <2>1, SpscAssumption DEF Slots
<1>3. QED
  BY <1>1, <1>2, SlotOfTicket

-----------------------------------------------------------------------------
(* The inductive invariant *)

(* The empty queue satisfies the invariant. *)
LEMMA InitInv == Init => IInv
<1> SUFFICES ASSUME Init PROVE IInv
  OBVIOUS
<1>1. TypeOK
  BY SpscAssumption DEF Init, TypeOK, Published, Slots, Values
<1>2. FlagInv
  BY SpscAssumption, SlotInSlots DEF Init, FlagInv, Cleared, Taken, Published
<1>3. StorageInv
  BY SpscAssumption, SlotInSlots DEF Init, StorageInv, Taken, Published
<1>4. QED
  BY <1>1, <1>2, <1>3 DEF IInv, Init

(* Steps that only move a program counter between two stages the invariant
   does not tell apart. *)
LEMMA QuietPreserves ==
  ASSUME IInv, BeginEmplace \/ CheckFree \/ BeginPop \/ CheckReady
  PROVE  IInv'
<1> USE SpscAssumption
<1>1. TypeOK'
  BY DEF IInv, TypeOK, BeginEmplace, CheckFree, BeginPop, CheckReady, AfterMiss,
         Published, Values
<1>2. alive /\ alive'
  BY DEF IInv, TypeOK, BeginEmplace, CheckFree, BeginPop, CheckReady
<1>c. Published' = Published /\ Taken' = Taken /\ Cleared' = Cleared
  BY DEF BeginEmplace, CheckFree, BeginPop, CheckReady, AfterMiss, Published, Taken, Cleared
<1>n. Published \in Nat /\ Taken \in Nat /\ Cleared \in Nat /\ Capacity \in Nat \ {0}
  BY DEF IInv, TypeOK, Published, Taken, Cleared
<1>i. FlagInv /\ StorageInv
  BY <1>2 DEF IInv
<1>3. FlagInv'
  <2>1. /\ (Cleared <= Taken /\ Taken <= Published /\ Published <= Cleared + Capacity)'
        /\ (\A k \in Cleared .. Published - 1 : ready[Slot(k)] = 1)'
        /\ (\A k \in Published .. Cleared + Capacity - 1 : ready[Slot(k)] = 0)'
    BY <1>c, <1>i DEF FlagInv, BeginEmplace, CheckFree, BeginPop, CheckReady
  <2>2. (cpc \in {"take", "clear"} => h < Published)'
    <3>1. CASE BeginEmplace \/ CheckFree
      BY <3>1, <1>c, <1>i DEF FlagInv, BeginEmplace, CheckFree
    <3>2. CASE BeginPop
      BY <3>2, <1>c, <1>i DEF FlagInv, BeginPop
    <3>3. CASE CheckReady
      <4>1. cpc' = "take" => ready[Slot(h)] = 1 /\ cpc = "check" /\ Cleared = h
        BY <3>3 DEF CheckReady, AfterMiss, Cleared
      <4>2. ready[Slot(h)] = 1 /\ Cleared = h => h < Published
        BY <1>n, <1>i DEF FlagInv
      <4>3. QED
        BY <4>1, <4>2, <3>3, <1>c DEF CheckReady, AfterMiss
    <3>4. QED
      BY <3>1, <3>2, <3>3
  <2>3. (ppc \in {"construct", "publish"} => t < Cleared + Capacity)'
    <3>1. CASE BeginPop \/ CheckReady
      BY <3>1, <1>c, <1>i DEF FlagInv, BeginPop, CheckReady
    <3>2. CASE BeginEmplace
      BY <3>2, <1>c, <1>i DEF FlagInv, BeginEmplace
    <3>3. CASE CheckFree
      <4>1. ppc' = "construct" => ready[Slot(t)] = 0 /\ ppc = "check" /\ Published = t
        BY <3>3 DEF CheckFree, AfterMiss, Published
      <4>2. t = Cleared + Capacity /\ Published = t => ready[Slot(t)] = 1
        <5>1. Slot(Cleared + Capacity) = Slot(Cleared)
          BY <1>n, SlotPeriod
        <5>2. Published = Cleared + Capacity => ready[Slot(Cleared)] = 1
          BY <1>n, <1>i DEF FlagInv
        <5>3. QED
          BY <5>1, <5>2
      <4>3. ppc' = "construct" => t < Cleared + Capacity
        BY <4>1, <4>2, <1>n, <1>i DEF FlagInv
      <4>4. QED
        BY <4>3, <3>3, <1>c DEF CheckFree, AfterMiss
    <3>4. QED
      BY <3>1, <3>2, <3>3
  <2>4. (ppc # "idle" => puts \in Values)'
    BY <1>i DEF FlagInv, IInv, TypeOK, BeginEmplace, CheckFree, BeginPop, CheckReady, Values
  <2>5. QED
    BY <2>1, <2>2, <2>3, <2>4 DEF FlagInv
<1>4. StorageInv'
  BY <1>c, <1>i DEF StorageInv, BeginEmplace, CheckFree, BeginPop, CheckReady, AfterMiss
<1>5. QED
  BY <1>1, <1>2, <1>3, <1>4 DEF IInv

(* Advancing _t or _h changes what the counter and the stage say separately,
   and nothing of what they say together. *)
LEMMA AdvancePreserves ==
  ASSUME IInv, AdvanceTail \/ AdvanceHead
  PROVE  IInv'
<1> USE SpscAssumption
<1>1. TypeOK'
  BY DEF IInv, TypeOK, AdvanceTail, AdvanceHead, Published
<1>2. alive /\ alive'
  BY DEF IInv, TypeOK, AdvanceTail, AdvanceHead
<1>3. Published' = Published /\ Taken' = Taken /\ Cleared' = Cleared
  BY DEF AdvanceTail, AdvanceHead, Published, Taken, Cleared
<1>4. FlagInv'
  BY <1>2, <1>3 DEF IInv, TypeOK, FlagInv, AdvanceTail, AdvanceHead
<1>5. StorageInv'
  BY <1>2, <1>3 DEF IInv, TypeOK, StorageInv, AdvanceTail, AdvanceHead
<1>6. QED
  BY <1>1, <1>2, <1>4, <1>5 DEF IInv

(* Construct works on the slot of t, which no ticket from Taken to Published
   uses. *)
LEMMA ConstructPreserves ==
  ASSUME IInv, Construct
  PROVE  IInv'
<1> USE SpscAssumption
<1>t. /\ storage \in [Slots -> Values \cup {Raw}] /\ t \in Nat /\ h \in Nat /\ puts \in Values
      /\ ppc = "construct" /\ alive /\ FlagInv /\ StorageInv /\ Published = t
      /\ storage' = [storage EXCEPT ![Slot(t)] = puts] /\ Slot(t) \in Slots
  BY SlotInSlots DEF IInv, TypeOK, Construct, FlagInv, Published
<1>c. Published' = Published /\ Taken' = Taken /\ Cleared' = Cleared
  BY DEF Construct, Published, Taken, Cleared
<1>n. Published \in Nat /\ Taken \in Nat /\ Cleared \in Nat /\ Capacity \in Nat \ {0}
  BY DEF IInv, TypeOK, Published, Taken, Cleared
<1>1. TypeOK'
  BY <1>t, <1>c DEF IInv, TypeOK, Construct
<1>2. FlagInv'
  BY <1>t, <1>c DEF FlagInv, Construct
<1>3. \A k \in Taken .. Published - 1 : storage'[Slot(k)] = log[k + 1]
  <2> SUFFICES ASSUME NEW k \in Taken .. Published - 1 PROVE storage'[Slot(k)] = log[k + 1]
    OBVIOUS
  <2>1. Slot(k) # Slot(t)
    BY <1>t, <1>n, WindowDistinct DEF FlagInv
  <2>2. Slot(k) \in Slots
    BY <1>n, SlotInSlots
  <2>3. storage[Slot(k)] = log[k + 1]
    BY <1>t DEF StorageInv
  <2>4. QED
    BY <2>1, <2>2, <2>3, <1>t
<1>4. \A k \in Published .. Taken + Capacity - 1 : k = t \/ storage'[Slot(k)] = Raw
  <2> SUFFICES ASSUME NEW k \in Published .. Taken + Capacity - 1, k # t
               PROVE  storage'[Slot(k)] = Raw
    OBVIOUS
  <2>1. Slot(k) # Slot(t)
    BY <1>t, <1>n, WindowDistinct DEF FlagInv
  <2>2. Slot(k) \in Slots
    BY <1>n, SlotInSlots
  <2>3. storage[Slot(k)] = Raw
    BY <1>t DEF StorageInv
  <2>4. QED
    BY <2>1, <2>2, <2>3, <1>t
<1>5. StorageInv'
  BY <1>3, <1>4, <1>c, <1>t DEF StorageInv, Construct
<1>6. QED
  BY <1>1, <1>2, <1>5, <1>t DEF IInv, Construct

(* Publish raises the flag of t, which becomes the last published ticket. *)
LEMMA PublishPreserves ==
  ASSUME IInv, Publish
  PROVE  IInv'
<1> USE SpscAssumption
<1>t. /\ ready \in [Slots -> {0, 1}] /\ t \in Nat /\ puts \in Values /\ log \in Seq(Values)
      /\ ppc = "publish" /\ alive /\ FlagInv /\ StorageInv /\ Published = t
      /\ ready' = [ready EXCEPT ![Slot(t)] = 1] /\ Slot(t) \in Slots
      /\ log' = Append(log, puts) /\ Len(log) = t /\ storage[Slot(t)] = puts
      /\ t < Cleared + Capacity /\ UNCHANGED <<storage, h, t, cpc, puts, got, alive>>
      /\ ppc' = "advance"
  BY SlotInSlots DEF IInv, TypeOK, Publish, FlagInv, StorageInv, Published
<1>c. Published' = t + 1 /\ Taken' = Taken /\ Cleared' = Cleared
  BY <1>t DEF Published, Taken, Cleared
<1>n. Taken \in Nat /\ Cleared \in Nat /\ Capacity \in Nat \ {0}
      /\ Cleared <= Taken /\ Taken <= t /\ t < Cleared + Capacity
  BY <1>t DEF IInv, TypeOK, Taken, Cleared, FlagInv
<1>l. /\ log' \in Seq(Values) /\ Len(log') = t + 1 /\ log'[t + 1] = puts
      /\ \A n \in 1 .. t : log'[n] = log[n]
  BY <1>t
<1>1. TypeOK'
  <2>1. ready' \in [Slots -> {0, 1}]
    BY <1>t
  <2>2. QED
    BY <2>1, <1>t, <1>c, <1>l DEF IInv, TypeOK
<1>2. FlagInv'
  <2>1. ASSUME NEW k \in Cleared .. t PROVE ready'[Slot(k)] = 1
    <3>1. CASE k = t
      BY <3>1, <1>t
    <3>2. CASE k < t
      <4>1. ready[Slot(k)] = 1 /\ Slot(k) \in Slots
        BY <3>2, <1>t, <1>n, SlotInSlots DEF FlagInv
      <4>2. QED
        BY <4>1, <1>t
    <3>3. QED
      BY <3>1, <3>2, <1>n, <1>t
  <2>2. ASSUME NEW k \in t + 1 .. Cleared + Capacity - 1 PROVE ready'[Slot(k)] = 0
    <3>1. Slot(k) # Slot(t) /\ Slot(k) \in Slots
      BY <1>t, <1>n, WindowDistinct, SlotInSlots
    <3>2. ready[Slot(k)] = 0
      BY <1>t, <1>n DEF FlagInv
    <3>3. QED
      BY <3>1, <3>2, <1>t
  <2>3. (cpc \in {"take", "clear"} => h < Published)'
    BY <1>t, <1>c DEF FlagInv, IInv, TypeOK
  <2>4. QED
    BY <2>1, <2>2, <2>3, <1>c, <1>n, <1>t DEF FlagInv
<1>3. StorageInv'
  <2>1. ASSUME NEW k \in Taken .. t PROVE storage'[Slot(k)] = log'[k + 1]
    <3>1. CASE k = t
      BY <3>1, <1>t, <1>l
    <3>2. CASE k < t
      <4>1. storage[Slot(k)] = log[k + 1]
        BY <3>2, <1>t, <1>n DEF StorageInv
      <4>2. k + 1 \in 1 .. t
        BY <3>2, <1>t, <1>n
      <4>3. QED
        BY <4>1, <4>2, <1>l, <1>t
    <3>3. QED
      BY <3>1, <3>2, <1>n, <1>t
  <2>2. ASSUME NEW k \in t + 1 .. Taken + Capacity - 1 PROVE storage'[Slot(k)] = Raw
    BY <1>t, <1>n DEF StorageInv
  <2>3. QED
    BY <2>1, <2>2, <1>c, <1>n, <1>t DEF StorageInv
<1>4. QED
  BY <1>1, <1>2, <1>3, <1>t DEF IInv

(* Take empties the slot of h, the first published ticket. *)
LEMMA TakePreserves ==
  ASSUME IInv, Take
  PROVE  IInv' /\ storage[Slot(h)] = log[h + 1] /\ h < Published
<1> USE SpscAssumption
<1>t. /\ storage \in [Slots -> Values \cup {Raw}] /\ h \in Nat /\ t \in Nat
      /\ cpc = "take" /\ alive /\ FlagInv /\ StorageInv /\ Taken = h /\ Cleared = h
      /\ storage' = [storage EXCEPT ![Slot(h)] = Raw] /\ Slot(h) \in Slots
      /\ got' = storage[Slot(h)] /\ cpc' = "clear"
      /\ UNCHANGED <<ready, h, t, ppc, puts, alive, log>>
      /\ log \in Seq(Values) /\ Len(log) = Published
  BY SlotInSlots DEF IInv, TypeOK, Take, Taken, Cleared
<1>c. Published' = Published /\ Taken' = h + 1 /\ Cleared' = Cleared
  BY <1>t DEF Published, Taken, Cleared
<1>n. Published \in Nat /\ Capacity \in Nat \ {0} /\ h < Published /\ Published <= h + Capacity
  BY <1>t DEF FlagInv, Published
<1>v. storage[Slot(h)] = log[h + 1] /\ log[h + 1] \in Values
  <2>1. storage[Slot(h)] = log[h + 1]
    BY <1>t, <1>n DEF StorageInv
  <2>2. h + 1 \in 1 .. Len(log)
    BY <1>t, <1>n
  <2>3. QED
    BY <2>1, <2>2, <1>t
<1>1. TypeOK'
  BY <1>t, <1>c, <1>v DEF IInv, TypeOK
<1>2. FlagInv'
  BY <1>t, <1>c, <1>n DEF FlagInv
<1>3. StorageInv'
  <2>1. ASSUME NEW k \in h + 1 .. Published - 1 PROVE storage'[Slot(k)] = log'[k + 1]
    <3>1. Slot(k) # Slot(h) /\ Slot(k) \in Slots
      BY <1>t, <1>n, WindowDistinct, SlotInSlots
    <3>2. storage[Slot(k)] = log[k + 1]
      BY <1>t, <1>n DEF StorageInv
    <3>3. QED
      BY <3>1, <3>2, <1>t
  <2>2. ASSUME NEW k \in Published .. h + Capacity
        PROVE  (k = t /\ ppc = "publish") \/ storage'[Slot(k)] = Raw
    <3>1. CASE k = h + Capacity
      BY <3>1, <1>t, SlotPeriod
    <3>2. CASE k < h + Capacity
      <4>1. Slot(k) # Slot(h) /\ Slot(k) \in Slots
        BY <3>2, <1>t, <1>n, WindowDistinct, SlotInSlots
      <4>2. (k = t /\ ppc = "publish") \/ storage[Slot(k)] = Raw
        BY <3>2, <1>t, <1>n DEF StorageInv
      <4>3. QED
        BY <4>1, <4>2, <1>t
    <3>3. QED
      BY <3>1, <3>2, <1>n, <1>t
  <2>3. (ppc = "publish" => storage[Slot(t)] = puts)'
    <3>1. SUFFICES ASSUME ppc = "publish" PROVE storage'[Slot(t)] = puts
      BY <1>t
    <3>2. t = Published /\ t < h + Capacity
      BY <3>1, <1>t DEF Published, FlagInv
    <3>3. Slot(t) # Slot(h) /\ Slot(t) \in Slots
      BY <3>2, <1>t, <1>n, WindowDistinct, SlotInSlots
    <3>4. QED
      BY <3>1, <3>3, <1>t DEF StorageInv
  <2>4. QED
    BY <2>1, <2>2, <2>3, <1>c, <1>n, <1>t DEF StorageInv
<1>4. QED
  BY <1>1, <1>2, <1>3, <1>t, <1>v, <1>n DEF IInv

(* Clear lowers the flag of h, which becomes the last ticket of the window. *)
LEMMA ClearPreserves ==
  ASSUME IInv, Clear
  PROVE  IInv'
<1> USE SpscAssumption
<1>t. /\ ready \in [Slots -> {0, 1}] /\ h \in Nat /\ t \in Nat
      /\ cpc = "clear" /\ alive /\ FlagInv /\ StorageInv /\ Taken = h + 1 /\ Cleared = h
      /\ ready' = [ready EXCEPT ![Slot(h)] = 0] /\ Slot(h) \in Slots
      /\ cpc' = "advance" /\ UNCHANGED <<storage, h, t, ppc, puts, got, alive, log>>
  BY SlotInSlots DEF IInv, TypeOK, Clear, Taken, Cleared
<1>c. Published' = Published /\ Taken' = h + 1 /\ Cleared' = h + 1
  BY <1>t DEF Published, Taken, Cleared
<1>n. Published \in Nat /\ Capacity \in Nat \ {0} /\ h < Published /\ Published <= h + Capacity
  BY <1>t DEF FlagInv, Published
<1>1. TypeOK'
  <2>1. ready' \in [Slots -> {0, 1}]
    BY <1>t
  <2>2. QED
    BY <2>1, <1>t, <1>c DEF IInv, TypeOK
<1>2. FlagInv'
  <2>1. ASSUME NEW k \in h + 1 .. Published - 1 PROVE ready'[Slot(k)] = 1
    <3>1. Slot(k) # Slot(h) /\ Slot(k) \in Slots
      BY <1>t, <1>n, WindowDistinct, SlotInSlots
    <3>2. ready[Slot(k)] = 1
      BY <1>t, <1>n DEF FlagInv
    <3>3. QED
      BY <3>1, <3>2, <1>t
  <2>2. ASSUME NEW k \in Published .. h + Capacity PROVE ready'[Slot(k)] = 0
    <3>1. CASE k = h + Capacity
      BY <3>1, <1>t, SlotPeriod
    <3>2. CASE k < h + Capacity
      <4>1. ready[Slot(k)] = 0 /\ Slot(k) \in Slots
        BY <3>2, <1>t, <1>n, SlotInSlots DEF FlagInv
      <4>2. QED
        BY <4>1, <1>t
    <3>3. QED
      BY <3>1, <3>2, <1>n, <1>t
  <2>3. (ppc \in {"construct", "publish"} => t < Cleared + Capacity)'
    BY <1>t, <1>c DEF FlagInv
  <2>4. (ppc # "idle" => puts \in Values)'
    BY <1>t DEF FlagInv
  <2>5. QED
    BY <2>1, <2>2, <2>3, <2>4, <1>c, <1>n, <1>t DEF FlagInv
<1>3. StorageInv'
  BY <1>t, <1>c DEF StorageInv
<1>4. QED
  BY <1>1, <1>2, <1>3, <1>t DEF IInv

(* The destructor meets every object left: the slots it does not touch hold
   none. *)
LEMMA DestroyPreserves ==
  ASSUME IInv, Destroy
  PROVE  IInv'
<1> USE SpscAssumption
<1> DEFINE left == {Slot(k) : k \in h .. t - 1}
           full == left \cap {s \in Slots : ready[s] = 1}
<1>t. /\ storage \in [Slots -> Values \cup {Raw}] /\ ready \in [Slots -> {0, 1}]
      /\ h \in Nat /\ t \in Nat /\ FlagInv /\ StorageInv
      /\ ppc = "idle" /\ cpc = "idle" /\ Taken = h /\ Cleared = h /\ Published = t
      /\ storage' = [s \in Slots |-> IF s \in full THEN Raw ELSE storage[s]]
      /\ ready' = [s \in Slots |-> IF s \in full THEN 0 ELSE ready[s]]
      /\ alive' = FALSE /\ UNCHANGED <<h, t, ppc, cpc, puts, got, log>>
  BY DEF IInv, TypeOK, Destroy, Taken, Cleared, Published
<1>1. ASSUME NEW s \in Slots PROVE storage'[s] = Raw
  <2>1. PICK k \in h .. h + Capacity - 1 : Slot(k) = s
    BY <1>t, LapCoversSlots
  <2>2. CASE k < t
    <3>1. k \in h .. t - 1
      BY <2>2, <1>t
    <3>2. s \in left
      BY <2>1, <3>1
    <3>3. ready[s] = 1
      BY <2>1, <3>1, <1>t DEF FlagInv
    <3>4. QED
      BY <3>2, <3>3, <1>t
  <2>3. CASE k >= t
    <3>1. k \in t .. h + Capacity - 1
      BY <2>1, <2>3, <1>t
    <3>2. storage[s] = Raw
      BY <2>1, <3>1, <1>t DEF StorageInv
    <3>3. QED
      BY <3>2, <1>t
  <2>4. QED
    BY <2>1, <2>2, <2>3, <1>t
<1>2. TypeOK'
  <2>1. storage' \in [Slots -> Values \cup {Raw}]
    BY <1>t
  <2>2. ready' \in [Slots -> {0, 1}]
    BY <1>t
  <2>3. Published' = Published
    BY <1>t DEF Published
  <2>4. QED
    BY <1>t, <2>1, <2>2, <2>3 DEF IInv, TypeOK
<1>3. QED
  BY <1>1, <1>2, <1>t DEF IInv

(* The invariant is inductive. *)
LEMMA InvInductive == IInv /\ [Next]_vars => IInv'
<1> SUFFICES ASSUME IInv, [Next]_vars PROVE IInv'
  OBVIOUS
<1>1. CASE BeginEmplace \/ ProducerStep \/ BeginPop \/ ConsumerStep
  BY <1>1, QuietPreserves, ConstructPreserves, PublishPreserves, AdvancePreserves,
     TakePreserves, ClearPreserves DEF ProducerStep, ConsumerStep
<1>2. CASE Destroy
  BY <1>2, DestroyPreserves
<1>3. CASE UNCHANGED vars
  BY <1>3 DEF vars, IInv, TypeOK, FlagInv, StorageInv, Published, Taken, Cleared
<1>4. QED
  BY <1>1, <1>2, <1>3 DEF Next

(* The counters, the flags and the storage tell the same story in every
   reachable state. *)
THEOREM InvHolds == Spec => []IInv
BY InitInv, InvInductive, PTL DEF Spec

(* Variables keep their types, and the log has one entry per published ticket. *)
THEOREM TypeCorrect == Spec => []TypeOK
<1>1. IInv => TypeOK
  BY DEF IInv
<1>2. QED
  BY <1>1, InvHolds, PTL

(* The producer constructs in raw storage, the consumer moves out the object of
   its ticket, and they never work on one slot at the same time. *)
THEOREM StorageIsUsedRightly == Spec => []StorageMatchesUse
<1>1. IInv => StorageMatchesUse
  <2> SUFFICES ASSUME IInv PROVE StorageMatchesUse
    OBVIOUS
  <2>1. CASE ~alive
    BY <2>1 DEF IInv, StorageMatchesUse
  <2>2. CASE alive
    <3>t. FlagInv /\ StorageInv /\ h \in Nat /\ t \in Nat /\ Capacity \in Nat \ {0}
          /\ Cleared \in Nat /\ Published \in Nat
      BY <2>2, SpscAssumption DEF IInv, TypeOK, Cleared, Published
    <3>1. ppc = "construct" => storage[Slot(t)] = Raw
      <4> SUFFICES ASSUME ppc = "construct" PROVE storage[Slot(t)] = Raw
        OBVIOUS
      <4>1. Published = t /\ t < Cleared + Capacity /\ Cleared <= Taken /\ Taken \in Nat
        BY <3>t DEF Published, FlagInv, Taken
      <4>2. t \in Published .. Taken + Capacity - 1
        BY <4>1, <3>t
      <4>3. QED
        BY <4>2, <3>t DEF StorageInv
    <3>2. cpc = "take" => h < Published /\ storage[Slot(h)] = log[h + 1]
      <4> SUFFICES ASSUME cpc = "take" PROVE h < Published /\ storage[Slot(h)] = log[h + 1]
        OBVIOUS
      <4>1. Taken = h /\ h < Published
        BY <3>t DEF Taken, FlagInv
      <4>2. QED
        BY <4>1, <3>t DEF StorageInv
    <3>3. ASSUME ppc \in {"construct", "publish"}, cpc \in {"take", "clear"}
          PROVE  Slot(h) # Slot(t)
      <4>1. Published = t /\ Cleared = h /\ h < t /\ t < h + Capacity
        BY <3>3, <3>t DEF Published, Cleared, FlagInv
      <4>2. QED
        BY <4>1, <3>t, WindowDistinct
    <3>4. QED
      BY <3>1, <3>2, <3>3 DEF StorageMatchesUse
  <2>3. QED
    BY <2>1, <2>2
<1>2. QED
  BY <1>1, InvHolds, PTL

(* The destructor leaves no object behind. *)
THEOREM DestructorIsExact == Spec => []NothingLeaks
<1>1. IInv => NothingLeaks
  BY DEF IInv, NothingLeaks
<1>2. QED
  BY <1>1, InvHolds, PTL

-----------------------------------------------------------------------------
(* The ring implements the abstract queue *)

(* The array of results the refinement maps got to. *)
GotBar == [c \in {"consumer"} |-> got]

(* Publish is a Put, Take a Get, and every other step a stutter. *)
LEMMA FifoStep == IInv /\ [Next]_vars => [Fifo!Next]_(Fifo!fifoVars)
<1> SUFFICES ASSUME IInv, [Next]_vars
             PROVE  Fifo!Next \/ (log' = log /\ Taken' = Taken /\ GotBar' = GotBar)
  BY DEF Fifo!fifoVars, GotBar
<1>1. CASE Publish
  <2>1. alive /\ FlagInv /\ Published = t /\ ppc = "publish" /\ Len(log) = Published
    BY <1>1 DEF Publish, IInv, TypeOK, FlagInv, Published
  <2>2. t \in Nat /\ Cleared \in Nat /\ Taken \in Nat /\ puts \in Values
    BY <2>1 DEF IInv, TypeOK, FlagInv, Cleared, Taken
  <2>3. Len(log) - Taken < Capacity
    BY <2>1, <2>2, SpscAssumption DEF FlagInv
  <2>4. log' = Append(log, puts) /\ Taken' = Taken /\ GotBar' = GotBar
    BY <1>1 DEF Publish, Taken, GotBar
  <2>5. Fifo!Put(puts)
    BY <2>3, <2>4 DEF Fifo!Put, GotBar
  <2>6. QED
    BY <2>2, <2>5 DEF Fifo!Next
<1>2. CASE Take
  <2>1. storage[Slot(h)] = log[h + 1] /\ h < Published
    BY <1>2, TakePreserves
  <2>2. log' = log /\ Taken = h /\ Taken' = h + 1 /\ got' = log[h + 1] /\ Len(log) = Published
    BY <1>2, <2>1 DEF Take, Taken, IInv, TypeOK
  <2>3. GotBar' = [GotBar EXCEPT !["consumer"] = log[h + 1]]
    BY <2>2 DEF GotBar
  <2>4. Fifo!Get("consumer")
    BY <2>1, <2>2, <2>3 DEF Fifo!Get, GotBar
  <2>5. QED
    BY <2>4 DEF Fifo!Next
<1>3. CASE UNCHANGED <<log, got>> /\ Taken' = Taken
  BY <1>3 DEF GotBar
<1>4. CASE BeginEmplace \/ CheckFree \/ Construct \/ AdvanceTail \/ BeginPop \/ CheckReady
           \/ Clear \/ AdvanceHead \/ Destroy \/ UNCHANGED vars
  BY <1>3, <1>4 DEF BeginEmplace, CheckFree, Construct, AdvanceTail, BeginPop, CheckReady,
     AfterMiss, Clear, AdvanceHead, Destroy, vars, Taken
<1>5. QED
  BY <1>1, <1>2, <1>4 DEF Next, ProducerStep, ConsumerStep

(* The single-producer single-consumer ring implements the bounded FIFO. *)
THEOREM RefinesFifo == Spec => ImplementsFifo
<1>1. Init => Fifo!Init
  BY DEF Init, Fifo!Init, Taken
<1>2. QED
  BY <1>1, InvHolds, FifoStep, PTL DEF Spec, ImplementsFifo, Fifo!Spec
=============================================================================
