-------------------------- MODULE MpmcQueue_proofs --------------------------
(***************************************************************************)
(* Proofs about MpmcQueue, for any threads, any capacity and any number of *)
(* operations, with loads that may return stale values.                    *)
(*                                                                         *)
(* The inductive invariant speaks of tickets. A slot's sequence is compared *)
(* with the two values its ticket k stands for: 2 * Round(k) before the    *)
(* producer of k publishes, 2 * Round(k) + 1 until the consumer of k       *)
(* releases. The counters say which tickets have been claimed, the         *)
(* sequences which of them are finished, and a claimed, unfinished ticket  *)
(* has exactly one owner.                                                  *)
(***************************************************************************)
EXTENDS MpmcQueue, TLAPS

-----------------------------------------------------------------------------
(* Arithmetic of slots and rounds *)

(* A ticket is determined by its slot and its round. *)
LEMMA SlotRound ==
  \A i \in Nat : /\ Slot(i) \in Slots /\ Round(i) \in Nat
                 /\ i = Capacity * Round(i) + Slot(i)
BY MpmcAssumption, SMTT(30) DEF Slot, Round, Slots

(* Within one slot, tickets are ordered as their rounds. *)
LEMMA SameSlotOrder ==
  ASSUME NEW i \in Nat, NEW j \in Nat, Slot(i) = Slot(j), Round(i) <= Round(j)
  PROVE  i <= j
<1>1. Capacity * Round(i) <= Capacity * Round(j)
  BY MpmcAssumption, SlotRound
<1>2. QED
  BY <1>1, SlotRound, MpmcAssumption DEF Slots

(* Within one slot and one round there is one ticket. *)
LEMMA SameSlotSameTicket ==
  ASSUME NEW i \in Nat, NEW j \in Nat, Slot(i) = Slot(j), Round(i) = Round(j)
  PROVE  i = j
BY SlotRound

(* Every slot has a ticket for every round. *)
LEMMA TicketExists ==
  ASSUME NEW s \in Slots, NEW r \in Nat
  PROVE  \E k \in Nat : Slot(k) = s /\ Round(k) = r
<1> DEFINE k == Capacity * r + s
<1>1. k \in Nat
  BY MpmcAssumption DEF Slots
<1>2. Slot(k) = s /\ Round(k) = r
  BY MpmcAssumption, SMTT(30) DEF Slot, Round, Slots
<1> QED
  BY <1>1, <1>2

(* The ticket one lap earlier uses the same slot, one round earlier. *)
LEMMA PreviousLap ==
  ASSUME NEW k \in Nat, k >= Capacity
  PROVE  /\ k - Capacity \in Nat /\ Slot(k - Capacity) = Slot(k)
         /\ Round(k) >= 1 /\ Round(k - Capacity) = Round(k) - 1
<1>1. Round(k) >= 1
  <2>1. SUFFICES ASSUME Round(k) = 0 PROVE FALSE
    BY SlotRound
  <2>2. Capacity * Round(k) = 0
    BY <2>1, MpmcAssumption
  <2>4. QED
    BY <2>2, SlotRound, MpmcAssumption DEF Slots
<1>2. PICK j \in Nat : Slot(j) = Slot(k) /\ Round(j) = Round(k) - 1
  BY <1>1, SlotRound, TicketExists
<1>3. Capacity * (Round(k) - 1) = Capacity * Round(k) - Capacity
  BY SlotRound, MpmcAssumption
<1>4. j = k - Capacity
  <2>1. j = Capacity * (Round(k) - 1) + Slot(k)
    BY <1>2, SlotRound
  <2>2. k = Capacity * Round(k) + Slot(k)
    BY SlotRound, Zenon
  <2>3. Slot(k) \in Nat
    BY SlotRound, MpmcAssumption DEF Slots
  <2>4. Capacity * Round(k) \in Nat /\ Capacity \in Nat
    BY SlotRound, MpmcAssumption
  <2>5. QED
    BY <1>3, <2>1, <2>2, <2>3, <2>4
<1>5. QED
  BY <1>1, <1>2, <1>4

-----------------------------------------------------------------------------
(* The inductive invariant *)

Inv == IInv(Nat)

(* The empty queue satisfies the invariant. *)
LEMMA InitInv == Init => Inv
<1> SUFFICES ASSUME Init PROVE Inv
  OBVIOUS
<1>1. TypeOK
  BY MpmcAssumption DEF Init, TypeOK, Threads, Slots, Values
<1>2. OwnerInv
  BY DEF Init, OwnerInv, Owner, Threads
<1>3. TicketInv(Nat)
  BY SlotRound DEF Init, TicketInv, SeqOf
<1>4. StorageInv(Nat)
  BY SlotRound DEF Init, StorageInv, SeqOf, Owner, Threads
<1>5. QED
  BY <1>1, <1>2, <1>3, <1>4 DEF Inv, IInv

(* The steps around the CASes change neither the ring nor who owns what: th
   stays among the threads that own nothing, and reaches the CAS only after it
   has seen the sequence its ticket waits for. *)
Free == {"idle", "load", "check", "cas"}

QuietStep(th) ==
  /\ UNCHANGED <<sequence, storage, h, t, got, alive, log>>
  /\ alive \/ pc[th] # "idle"
  /\ pc[th] \in Free
  /\ \E x \in Free, i \in Nat, n \in 0 .. MaxOps :
       /\ pc' = [pc EXCEPT ![th] = x]
       /\ idx' = [idx EXCEPT ![th] = i]
       /\ ops' = [ops EXCEPT ![th] = n]
       /\ x = "cas" /\ th \in Producers => SeqOf(i) >= 2 * Round(i)
       /\ x = "cas" /\ th \in Consumers => SeqOf(i) >= 2 * Round(i) + 1

(* Loads, checks and failed CASes are such steps. *)
LEMMA QuietActions ==
  ASSUME TypeOK, NEW th \in Threads,
         \/ Begin(th)
         \/ th \in Producers /\ (LoadTail(th) \/ CheckTail(th) \/ MissTail(th))
         \/ th \in Consumers /\ (LoadHead(th) \/ CheckHead(th) \/ MissHead(th))
  PROVE  QuietStep(th)
<1> USE DEF QuietStep, Free, Goto, Seen
<1>t. /\ pc \in [Threads -> {"idle", "load", "check", "cas", "owned", "handover"}]
      /\ idx \in [Threads -> Nat] /\ ops \in [Threads -> 0 .. MaxOps]
      /\ t \in Nat /\ h \in Nat /\ sequence \in [Slots -> Nat] /\ MaxOps \in Nat
      /\ Modes \subseteq {"try", "wait"} /\ StaleLoads \in BOOLEAN
  BY MpmcAssumption DEF TypeOK
<1>s. /\ SeqOf(idx[th]) \in Nat /\ Round(idx[th]) \in Nat
      /\ Seen(SeqOf(idx[th])) \subseteq 0 .. SeqOf(idx[th])
      /\ Seen(t) \subseteq Nat /\ Seen(h) \subseteq Nat
      /\ idx[th] \in Nat /\ ops[th] \in 0 .. MaxOps
      /\ idx = [idx EXCEPT ![th] = idx[th]] /\ ops = [ops EXCEPT ![th] = ops[th]]
  BY <1>t, SlotRound DEF SeqOf
<1>1. CASE Begin(th)
  <2>1. ops[th] + 1 \in 0 .. MaxOps
    BY <1>1, <1>t DEF Begin
  <2>2. /\ pc' = [pc EXCEPT ![th] = "load"]
        /\ idx' = [idx EXCEPT ![th] = idx[th]]
        /\ ops' = [ops EXCEPT ![th] = ops[th] + 1]
    BY <1>1, <1>s DEF Begin
  <2>3. /\ UNCHANGED <<sequence, storage, h, t, got, alive, log>>
        /\ alive /\ pc[th] \in Free
    BY <1>1 DEF Begin
  <2>4. QED
    BY <2>1, <2>2, <2>3, <1>s
<1>2. CASE th \in Producers /\ LoadTail(th)
  BY <1>2, <1>t, <1>s DEF LoadTail
<1>3. CASE th \in Consumers /\ LoadHead(th)
  BY <1>3, <1>t, <1>s DEF LoadHead
<1>4. CASE th \in Producers /\ MissTail(th)
  BY <1>4, <1>t, <1>s DEF MissTail, GiveUp
<1>5. CASE th \in Consumers /\ MissHead(th)
  BY <1>5, <1>t, <1>s DEF MissHead, GiveUp
<1>6. CASE th \in Producers /\ CheckTail(th)
  <2>1. PICK v \in Seen(SeqOf(idx[th])) :
          IF v = 2 * Round(idx[th]) THEN Goto(th, "cas") ELSE GiveUp(th)
    BY <1>6 DEF CheckTail, SeqOf
  <2>2. CASE v = 2 * Round(idx[th])
    <3>1. pc' = [pc EXCEPT ![th] = "cas"]
      BY <2>1, <2>2
    <3>2. th \notin Consumers
      BY <1>6, MpmcAssumption
    <3>3. SeqOf(idx[th]) >= 2 * Round(idx[th])
      BY <2>2, <1>s
    <3>4. QED
      BY <1>6, <3>1, <3>2, <3>3, <1>t, <1>s DEF CheckTail
  <2>3. CASE v # 2 * Round(idx[th])
    BY <1>6, <2>1, <2>3, <1>t, <1>s DEF CheckTail, GiveUp
  <2>4. QED
    BY <2>2, <2>3
<1>7. CASE th \in Consumers /\ CheckHead(th)
  <2>1. PICK v \in Seen(SeqOf(idx[th])) :
          IF v = 2 * Round(idx[th]) + 1 THEN Goto(th, "cas") ELSE GiveUp(th)
    BY <1>7 DEF CheckHead, SeqOf
  <2>2. CASE v = 2 * Round(idx[th]) + 1
    <3>1. pc' = [pc EXCEPT ![th] = "cas"]
      BY <2>1, <2>2
    <3>2. th \notin Producers
      BY <1>7, MpmcAssumption
    <3>3. SeqOf(idx[th]) >= 2 * Round(idx[th]) + 1
      BY <2>2, <1>s
    <3>4. QED
      BY <1>7, <3>1, <3>2, <3>3, <1>t, <1>s DEF CheckHead
  <2>3. CASE v # 2 * Round(idx[th]) + 1
    BY <1>7, <2>1, <2>3, <1>t, <1>s DEF CheckHead, GiveUp
  <2>4. QED
    BY <2>2, <2>3
<1>8. QED
  BY <1>1, <1>2, <1>3, <1>4, <1>5, <1>6, <1>7

(* Such a step preserves the invariant. *)
LEMMA QuietPreserves ==
  ASSUME Inv, NEW th \in Threads, QuietStep(th)
  PROVE  Inv'
<1>1. PICK x \in Free, i \in Nat, n \in 0 .. MaxOps :
        /\ pc' = [pc EXCEPT ![th] = x]
        /\ idx' = [idx EXCEPT ![th] = i]
        /\ ops' = [ops EXCEPT ![th] = n]
        /\ x = "cas" /\ th \in Producers => SeqOf(i) >= 2 * Round(i)
        /\ x = "cas" /\ th \in Consumers => SeqOf(i) >= 2 * Round(i) + 1
  BY DEF QuietStep
<1>2. /\ sequence' = sequence /\ storage' = storage /\ h' = h /\ t' = t
      /\ got' = got /\ alive' = alive /\ log' = log
      /\ alive \/ pc[th] # "idle"
      /\ pc[th] \in Free
  BY DEF QuietStep
<1>3. TypeOK'
  BY <1>1, <1>2 DEF Inv, IInv, TypeOK, Free
<1>4. \A u \in Threads :
        /\ u # th => pc'[u] = pc[u] /\ idx'[u] = idx[u] /\ ops'[u] = ops[u]
        /\ u = th => pc'[u] = x /\ idx'[u] = i /\ ops'[u] = n
  BY <1>1 DEF Inv, IInv, TypeOK
<1>5. /\ x \notin {"owned", "handover"} /\ pc[th] \notin {"owned", "handover"}
      /\ Producers \subseteq Threads /\ Consumers \subseteq Threads
  BY <1>2 DEF Free, Threads
<1>6. \A k : SeqOf(k)' = SeqOf(k)
  BY <1>2 DEF SeqOf
<1>7. alive
  BY <1>2 DEF Inv, IInv, OwnerInv
<1>8. OwnerInv'
  BY <1>1, <1>2, <1>4, <1>5, <1>7 DEF Inv, IInv, OwnerInv, Owner, SeqOf
<1>9. TicketInv(Nat)'
  <2> SUFFICES ASSUME NEW k \in Nat PROVE TicketInv({k})'
    BY DEF TicketInv
  <2> QED
    BY <1>2, <1>4, <1>5 DEF Inv, IInv, TicketInv, Owner, SeqOf
<1>10. StorageInv(Nat)'
  <2>1. \A u \in Threads : pc'[u] \in {"owned", "handover"} =>
          pc'[u] = pc[u] /\ idx'[u] = idx[u] /\ Obj(u)' = Obj(u)
    BY <1>4, <1>5 DEF Obj
  <2>2. \A u \in Threads : pc[u] \in {"owned", "handover"} =>
          pc'[u] = pc[u] /\ idx'[u] = idx[u] /\ Obj(u)' = Obj(u)
    BY <1>4, <1>5 DEF Obj
  <2>3. QED
    BY <1>2, <1>5, <1>7, <2>1, <2>2 DEF Inv, IInv, StorageInv, Owner, SeqOf
<1>11. QED
  BY <1>3, <1>8, <1>9, <1>10 DEF Inv, IInv

(* A producer whose CAS succeeds: its ticket is the current one, so nobody has
   published it, and the slot it asks for is released and unowned. *)
LEMMA ClaimTailPreserves ==
  ASSUME Inv, NEW p \in Producers, ClaimTail(p)
  PROVE  Inv' /\ Obj(p) \in Values /\ t - h < Capacity
<1> USE DEF Inv, IInv
<1>1. /\ pc[p] = "cas" /\ t = idx[p] /\ t' = t + 1 /\ log' = Append(log, Obj(p))
      /\ pc' = [pc EXCEPT ![p] = "owned"]
      /\ sequence' = sequence /\ storage' = storage /\ h' = h /\ idx' = idx
      /\ ops' = ops /\ got' = got /\ alive' = alive
  BY DEF ClaimTail, Goto
<1>2. /\ t \in Nat /\ h \in Nat
      /\ \A u \in Threads : idx[u] \in Nat
      /\ Producers \subseteq Threads /\ Consumers \subseteq Threads
  BY DEF TypeOK, Threads
<1>n. \A k \in Nat : SeqOf(k) \in Nat /\ Round(k) \in Nat
  BY SlotRound DEF TypeOK, SeqOf
<1>l. log \in Seq(Values) /\ Len(log) = t
  BY DEF TypeOK
<1>3. Obj(p) \in Values
  BY <1>2 DEF TypeOK, Obj, Values
<1>4. SeqOf(t) = 2 * Round(t)
  <2>1. SeqOf(t) >= 2 * Round(t)
    BY <1>1 DEF OwnerInv
  <2>2. ~(SeqOf(t) > 2 * Round(t))
    BY <1>2 DEF TicketInv
  <2>3. SeqOf(t) \in Nat /\ Round(t) \in Nat
    BY <1>2, <1>n
  <2>4. QED
    BY <2>1, <2>2, <2>3
<1>5. t - h < Capacity
  <2>1. SUFFICES ASSUME t >= Capacity PROVE t - Capacity < h
    BY <1>2, MpmcAssumption
  <2>2. SeqOf(t - Capacity) > 2 * Round(t - Capacity) + 1
    BY <1>2, <1>4, <1>n, <2>1, PreviousLap DEF SeqOf
  <2>3. QED
    BY <1>2, <2>1, <2>2, PreviousLap DEF TicketInv
<1>6. TypeOK'
  BY <1>1, <1>2, <1>3, <1>l DEF TypeOK
<1>7. \A u \in Threads : /\ u # p => pc'[u] = pc[u]
                         /\ pc'[p] = "owned"
  BY <1>1, <1>2 DEF TypeOK
<1>8. \A k : SeqOf(k)' = SeqOf(k)
  BY <1>1 DEF SeqOf
<1>9. OwnerInv'
  <2>1. \A q \in Producers : Owner(q) => idx[q] # t
    BY <1>2 DEF OwnerInv
  <2>2. p \notin Consumers /\ alive
    BY <1>1, <1>2, MpmcAssumption DEF OwnerInv
  <2>3. QED
    BY <1>1, <1>2, <1>4, <1>7, <2>1, <2>2 DEF OwnerInv, Owner, SeqOf
<1>10. TicketInv(Nat)'
  <2> SUFFICES ASSUME NEW k \in Nat PROVE TicketInv({k})'
    BY DEF TicketInv
  <2>1. p \notin Consumers
    BY MpmcAssumption
  <2>2. CASE k = t
    BY <1>1, <1>2, <1>4, <1>7, <2>1, <2>2 DEF TicketInv, Owner, SeqOf
  <2>3. CASE k # t
    BY <1>1, <1>2, <1>7, <2>1, <2>3 DEF TicketInv, Owner, SeqOf
  <2>4. QED
    BY <2>2, <2>3
<1>11. StorageInv(Nat)'
  <2>1. p \notin Consumers /\ alive
    BY <1>1, <1>2, MpmcAssumption DEF OwnerInv
  <2>2. \A k \in Nat : k < t => log'[k + 1] = log[k + 1]
    BY <1>1, <1>2, <1>3, <1>l
  <2>3. log'[t + 1] = Obj(p)
    BY <1>1, <1>2, <1>3, <1>l
  <2>4. storage[Slot(t)] = Raw
    BY <1>1, <1>2, <1>4 DEF StorageInv, OwnerInv, Owner
  <2>5. \A k \in Nat : SeqOf(k) = 2 * Round(k) + 1 => k < t
    BY <1>2, <1>n DEF TicketInv
  <2>6. \A q \in Producers :
          /\ Owner(q)' => log'[idx'[q] + 1] = Obj(q)'
          /\ pc'[q] = "owned" => storage'[Slot(idx'[q])] = Raw
          /\ pc'[q] = "handover" => storage'[Slot(idx'[q])] = Obj(q)'
    BY <1>1, <1>2, <1>7, <2>2, <2>3, <2>4 DEF StorageInv, OwnerInv, Owner, Obj
  <2>7. \A u \in Threads : /\ pc'[u] = "handover" <=> pc[u] = "handover"
                           /\ idx'[u] = idx[u]
    BY <1>1, <1>7
  <2>8. \A k \in Nat :
          /\ SeqOf(k)' = 2 * Round(k)
          /\ ~\E q \in Producers : pc'[q] = "handover" /\ idx'[q] = k
          => storage'[Slot(k)] = Raw
    BY <1>1, <1>2, <1>8, <2>7 DEF StorageInv
  <2>9. \A k \in Nat :
          /\ alive' /\ SeqOf(k)' = 2 * Round(k) + 1
          /\ ~\E c \in Consumers : pc'[c] = "handover" /\ idx'[c] = k
          => storage'[Slot(k)] = log'[k + 1]
    BY <1>1, <1>2, <1>8, <2>2, <2>5, <2>7 DEF StorageInv
  <2>10. \A c \in Consumers : pc'[c] = "handover" => storage'[Slot(idx'[c])] = Raw
    BY <1>1, <1>2, <2>7 DEF StorageInv
  <2>11. QED
    BY <1>1, <2>1, <2>6, <2>8, <2>9, <2>10 DEF StorageInv
<1>12. QED
  BY <1>3, <1>5, <1>6, <1>9, <1>10, <1>11

(* Two owners are never on the same slot: producers of one slot would have the
   same round and so the same ticket, and the sequence a producer owns is even
   where the one a consumer owns is odd. *)
LEMMA OwnersExclusive == Inv => ExclusiveSlot
<1> SUFFICES ASSUME Inv, NEW a \in Threads, NEW b \in Threads,
                    Owner(a), Owner(b), Slot(idx[a]) = Slot(idx[b])
             PROVE  a = b
  BY DEF ExclusiveSlot
<1> USE DEF Inv, IInv
<1>1. /\ idx[a] \in Nat /\ idx[b] \in Nat
      /\ Round(idx[a]) \in Nat /\ Round(idx[b]) \in Nat
  BY SlotRound DEF TypeOK
<1>2. SeqOf(idx[a]) = SeqOf(idx[b])
  BY DEF SeqOf
<1>3. CASE a \in Producers /\ b \in Producers
  BY <1>1, <1>2, <1>3, SameSlotSameTicket DEF OwnerInv
<1>4. CASE a \in Consumers /\ b \in Consumers
  <2>1. 2 * Round(idx[a]) + 1 = 2 * Round(idx[b]) + 1
    BY <1>2, <1>4 DEF OwnerInv
  <2>2. Round(idx[a]) = Round(idx[b])
    BY <1>1, <2>1
  <2>3. QED
    BY <1>1, <1>4, <2>2, SameSlotSameTicket DEF OwnerInv
<1>5. CASE a \in Producers /\ b \in Consumers
  BY <1>1, <1>2, <1>5 DEF OwnerInv
<1>6. CASE a \in Consumers /\ b \in Producers
  BY <1>1, <1>2, <1>6 DEF OwnerInv
<1>7. QED
  BY <1>3, <1>4, <1>5, <1>6 DEF Threads

(* Constructing touches the storage of a slot the producer owns alone. *)
LEMMA ConstructPreserves ==
  ASSUME Inv, NEW p \in Producers, Construct(p)
  PROVE  Inv'
<1> USE DEF Inv, IInv
<1>1. /\ pc[p] = "owned"
      /\ storage' = [storage EXCEPT ![Slot(idx[p])] = Obj(p)]
      /\ pc' = [pc EXCEPT ![p] = "handover"]
      /\ sequence' = sequence /\ h' = h /\ t' = t /\ idx' = idx
      /\ ops' = ops /\ got' = got /\ alive' = alive /\ log' = log
  BY DEF Construct, Goto
<1>2. /\ \A u \in Threads : idx[u] \in Nat /\ Slot(idx[u]) \in Slots
      /\ Producers \subseteq Threads /\ Consumers \subseteq Threads
      /\ p \notin Consumers
  BY SlotRound, MpmcAssumption DEF TypeOK, Threads
<1>3. Obj(p) \in Values
  BY <1>2 DEF TypeOK, Obj, Values
<1>4. TypeOK'
  BY <1>1, <1>2, <1>3 DEF TypeOK
<1>5. /\ \A u \in Threads : u # p => pc'[u] = pc[u]
      /\ pc'[p] = "handover"
  BY <1>1, <1>2 DEF TypeOK
<1>6. /\ \A u \in Threads : Owner(u)' <=> Owner(u)
      /\ \A u \in Threads : pc'[u] = "cas" <=> pc[u] = "cas"
      /\ \A k : SeqOf(k)' = SeqOf(k)
      /\ alive
  BY <1>1, <1>2, <1>5 DEF Owner, SeqOf, OwnerInv
<1>7. OwnerInv'
  BY <1>1, <1>2, <1>6 DEF OwnerInv
<1>8. TicketInv(Nat)'
  BY <1>1, <1>2, <1>6 DEF TicketInv
<1>9. StorageInv(Nat)'
  <2>1. /\ \A s \in Slots : s # Slot(idx[p]) => storage'[s] = storage[s]
        /\ storage'[Slot(idx[p])] = Obj(p)
    BY <1>1, <1>2 DEF TypeOK
  <2>2. \A u \in Threads : u # p /\ Owner(u) => Slot(idx[u]) # Slot(idx[p])
    BY <1>1, <1>2, OwnersExclusive DEF ExclusiveSlot, Owner
  <2>3. \A q \in Producers :
          /\ Owner(q)' => log'[idx'[q] + 1] = Obj(q)'
          /\ pc'[q] = "owned" => storage'[Slot(idx'[q])] = Raw
          /\ pc'[q] = "handover" => storage'[Slot(idx'[q])] = Obj(q)'
    <3> SUFFICES ASSUME NEW q \in Producers
                 PROVE  /\ Owner(q)' => log'[idx'[q] + 1] = Obj(q)'
                        /\ pc'[q] = "owned" => storage'[Slot(idx'[q])] = Raw
                        /\ pc'[q] = "handover" => storage'[Slot(idx'[q])] = Obj(q)'
      OBVIOUS
    <3>1. idx'[q] = idx[q] /\ Obj(q)' = Obj(q)
      BY <1>1 DEF Obj
    <3>2. CASE q = p
      BY <1>1, <1>5, <1>6, <2>1, <3>1, <3>2 DEF StorageInv, Owner
    <3>3. CASE q # p
      <4>1. pc'[q] = pc[q] /\ Slot(idx[q]) \in Slots
        BY <1>2, <1>5, <3>3
      <4>2. Owner(q) => storage'[Slot(idx[q])] = storage[Slot(idx[q])]
        BY <1>2, <2>1, <2>2, <3>3, <4>1
      <4>3. QED
        BY <1>1, <1>6, <1>2, <3>1, <4>1, <4>2 DEF StorageInv, Owner
    <3>4. QED
      BY <3>2, <3>3
  <2>4. \A c \in Consumers : pc'[c] = "handover" => storage'[Slot(idx'[c])] = Raw
    BY <1>1, <1>2, <1>5, <2>1, <2>2 DEF StorageInv, Owner
  <2>5. SUFFICES ASSUME NEW k \in Nat
                 PROVE
          /\ /\ SeqOf(k)' = 2 * Round(k)
             /\ ~\E q \in Producers : pc'[q] = "handover" /\ idx'[q] = k
             => storage'[Slot(k)] = Raw
          /\ /\ alive' /\ SeqOf(k)' = 2 * Round(k) + 1
             /\ ~\E c \in Consumers : pc'[c] = "handover" /\ idx'[c] = k
             => storage'[Slot(k)] = log'[k + 1]
    BY <1>1, <1>6, <2>3, <2>4 DEF StorageInv
  <2>6. Slot(k) \in Slots /\ Round(k) \in Nat /\ Round(idx[p]) \in Nat
    BY <1>2, SlotRound
  <2>7. SeqOf(idx[p]) = 2 * Round(idx[p])
    BY <1>1 DEF OwnerInv, Owner
  <2>8. CASE Slot(k) = Slot(idx[p])
    <3>1. SeqOf(k) = 2 * Round(idx[p])
      BY <2>7, <2>8 DEF SeqOf
    <3>2. SeqOf(k) # 2 * Round(k) + 1
      BY <2>6, <3>1
    <3>3. SeqOf(k) = 2 * Round(k) => k = idx[p]
      BY <1>2, <2>6, <2>8, <3>1, SameSlotSameTicket
    <3>4. QED
      BY <1>1, <1>5, <1>6, <3>2, <3>3
  <2>9. CASE Slot(k) # Slot(idx[p])
    BY <1>1, <1>2, <1>5, <1>6, <2>1, <2>6, <2>9 DEF StorageInv
  <2>10. QED
    BY <2>8, <2>9
<1>10. QED
  BY <1>4, <1>7, <1>8, <1>9

(* Publishing raises the sequence of an owned slot from 2r to 2r + 1. *)
LEMMA PublishPreserves ==
  ASSUME Inv, NEW p \in Producers, Publish(p)
  PROVE  Inv'
<1> USE DEF Inv, IInv
<1> DEFINE i == idx[p]
<1>1. /\ pc[p] = "handover"
      /\ sequence' = [sequence EXCEPT ![Slot(i)] = 2 * Round(i) + 1]
      /\ pc' = [pc EXCEPT ![p] = "idle"]
      /\ storage' = storage /\ h' = h /\ t' = t /\ idx' = idx
      /\ ops' = ops /\ got' = got /\ alive' = alive /\ log' = log
  BY DEF Publish, Goto
<1>2. /\ \A u \in Threads : idx[u] \in Nat /\ Slot(idx[u]) \in Slots
      /\ Producers \subseteq Threads /\ Consumers \subseteq Threads
      /\ p \notin Consumers /\ p \in Threads
      /\ t \in Nat /\ h \in Nat
  BY SlotRound, MpmcAssumption DEF TypeOK, Threads
<1>3. /\ \A k \in Nat : SeqOf(k) \in Nat /\ Round(k) \in Nat /\ Slot(k) \in Slots
      /\ i \in Nat
  BY <1>2, SlotRound DEF TypeOK, SeqOf
<1>4. /\ SeqOf(i) = 2 * Round(i) /\ i < t
      /\ storage[Slot(i)] = Obj(p) /\ log[i + 1] = Obj(p)
  BY <1>1 DEF OwnerInv, StorageInv, Owner
<1>5. TypeOK'
  <2>1. 2 * Round(i) + 1 \in Nat
    BY <1>3
  <2>2. QED
    BY <1>1, <1>2, <2>1 DEF TypeOK
<1>6. /\ \A u \in Threads : u # p => pc'[u] = pc[u]
      /\ pc'[p] = "idle"
  BY <1>1, <1>2 DEF TypeOK
<1>7. \A k \in Nat : /\ Slot(k) = Slot(i) => SeqOf(k)' = 2 * Round(i) + 1
                                              /\ SeqOf(k) = 2 * Round(i)
                     /\ Slot(k) # Slot(i) => SeqOf(k)' = SeqOf(k)
  BY <1>1, <1>3, <1>4 DEF TypeOK, SeqOf
<1>8. \A u \in Threads : u # p /\ Owner(u) => Slot(idx[u]) # Slot(i)
  BY <1>1, <1>2, OwnersExclusive DEF ExclusiveSlot, Owner
<1>9. /\ \A u \in Threads : Owner(u)' <=> Owner(u) /\ u # p
      /\ alive
  BY <1>1, <1>2, <1>6 DEF Owner, OwnerInv
<1>10. OwnerInv'
  <2>1. \A q \in Producers :
          /\ Owner(q)' => idx'[q] < t' /\ SeqOf(idx[q])' = 2 * Round(idx'[q])
          /\ pc'[q] = "cas" => SeqOf(idx[q])' >= 2 * Round(idx'[q])
    BY <1>1, <1>2, <1>3, <1>6, <1>7, <1>8, <1>9 DEF OwnerInv
  <2>2. \A c \in Consumers :
          /\ Owner(c)' => idx'[c] < h' /\ SeqOf(idx[c])' = 2 * Round(idx'[c]) + 1
          /\ pc'[c] = "cas" => SeqOf(idx[c])' >= 2 * Round(idx'[c]) + 1
    BY <1>1, <1>2, <1>3, <1>6, <1>7, <1>8, <1>9 DEF OwnerInv
  <2>3. QED
    BY <1>1, <1>2, <1>9, <2>1, <2>2 DEF OwnerInv, SeqOf
<1>11. ASSUME NEW k \in Nat
       PROVE
    /\ SeqOf(k)' > 2 * Round(k) => k < t'
    /\ SeqOf(k)' > 2 * Round(k) + 1 => k < h'
    /\ k < t' /\ SeqOf(k)' <= 2 * Round(k) =>
         \E q \in Producers : Owner(q)' /\ idx'[q] = k
    /\ k < h' /\ SeqOf(k)' <= 2 * Round(k) + 1 =>
         \E c \in Consumers : Owner(c)' /\ idx'[c] = k
  <2>1. /\ Round(k) \in Nat /\ Round(i) \in Nat /\ SeqOf(k) \in Nat
        /\ Slot(k) = Slot(i) /\ Round(k) <= Round(i) => k <= i
    BY <1>3, SameSlotOrder
  <2>2. /\ SeqOf(k)' > 2 * Round(k) => k < t'
        /\ SeqOf(k)' > 2 * Round(k) + 1 => k < h'
    BY <1>1, <1>2, <1>3, <1>4, <1>7, <2>1 DEF TicketInv
  <2>3. k < t' /\ SeqOf(k)' <= 2 * Round(k) =>
         \E q \in Producers : Owner(q)' /\ idx'[q] = k
    BY <1>1, <1>2, <1>3, <1>7, <1>9, <2>1 DEF TicketInv
  <2>4. k < h' /\ SeqOf(k)' <= 2 * Round(k) + 1 =>
         \E c \in Consumers : Owner(c)' /\ idx'[c] = k
    BY <1>1, <1>2, <1>3, <1>7, <1>9, <2>1 DEF TicketInv
  <2>5. QED
    BY <2>2, <2>3, <2>4
<1>12. TicketInv(Nat)'
  BY <1>11 DEF TicketInv
<1>13. StorageInv(Nat)'
  <2>1. \A q \in Producers :
          /\ Owner(q)' => log'[idx'[q] + 1] = Obj(q)'
          /\ pc'[q] = "owned" => storage'[Slot(idx'[q])] = Raw
          /\ pc'[q] = "handover" => storage'[Slot(idx'[q])] = Obj(q)'
    BY <1>1, <1>2, <1>6, <1>9 DEF StorageInv, Obj
  <2>2. \A c \in Consumers : pc'[c] = "handover" => storage'[Slot(idx'[c])] = Raw
    BY <1>1, <1>2, <1>6 DEF StorageInv
  <2>3. SUFFICES ASSUME NEW k \in Nat
                 PROVE
          /\ /\ SeqOf(k)' = 2 * Round(k)
             /\ ~\E q \in Producers : pc'[q] = "handover" /\ idx'[q] = k
             => storage'[Slot(k)] = Raw
          /\ /\ alive' /\ SeqOf(k)' = 2 * Round(k) + 1
             /\ ~\E c \in Consumers : pc'[c] = "handover" /\ idx'[c] = k
             => storage'[Slot(k)] = log'[k + 1]
    BY <1>1, <1>9, <2>1, <2>2 DEF StorageInv
  <2>4. CASE Slot(k) = Slot(i)
    <3>1. /\ SeqOf(k)' = 2 * Round(i) + 1 /\ Round(k) \in Nat /\ Round(i) \in Nat
      BY <1>3, <1>7, <2>4
    <3>2. SeqOf(k)' # 2 * Round(k)
      BY <3>1
    <3>3. SeqOf(k)' = 2 * Round(k) + 1 => k = i
      <4>1. SeqOf(k)' = 2 * Round(k) + 1 => Round(k) = Round(i)
        BY <3>1
      <4>2. QED
        BY <1>3, <2>4, <4>1, SameSlotSameTicket
    <3>4. QED
      BY <1>1, <1>4, <3>2, <3>3
  <2>5. CASE Slot(k) # Slot(i)
    <3>1. \A u \in Threads : pc[u] = "handover" /\ idx[u] = k
                             => pc'[u] = "handover" /\ idx'[u] = k
      BY <1>1, <1>6, <2>5
    <3>2. /\ \A q \in Producers : pc[q] = "handover" /\ idx[q] = k
                                  => pc'[q] = "handover" /\ idx'[q] = k
          /\ \A c \in Consumers : pc[c] = "handover" /\ idx[c] = k
                                  => pc'[c] = "handover" /\ idx'[c] = k
      BY <1>2, <3>1
    <3>3. QED
      BY <1>1, <1>7, <1>9, <2>5, <3>2 DEF StorageInv
  <2>6. QED
    BY <2>4, <2>5
<1>14. QED
  BY <1>5, <1>10, <1>12, <1>13

(* A consumer whose CAS succeeds: its ticket is published and untaken. *)
LEMMA ClaimHeadPreserves ==
  ASSUME Inv, NEW c \in Consumers, ClaimHead(c)
  PROVE  Inv' /\ h < t
<1> USE DEF Inv, IInv
<1>1. /\ pc[c] = "cas" /\ h = idx[c] /\ h' = h + 1
      /\ pc' = [pc EXCEPT ![c] = "owned"]
      /\ sequence' = sequence /\ storage' = storage /\ t' = t /\ idx' = idx
      /\ ops' = ops /\ got' = got /\ alive' = alive /\ log' = log
  BY DEF ClaimHead, Goto
<1>2. /\ t \in Nat /\ h \in Nat
      /\ \A u \in Threads : idx[u] \in Nat
      /\ Producers \subseteq Threads /\ Consumers \subseteq Threads
      /\ c \notin Producers /\ c \in Threads
  BY MpmcAssumption DEF TypeOK, Threads
<1>3. \A k \in Nat : SeqOf(k) \in Nat /\ Round(k) \in Nat
  BY SlotRound DEF TypeOK, SeqOf
<1>4. SeqOf(h) = 2 * Round(h) + 1 /\ h < t
  <2>1. SeqOf(h) >= 2 * Round(h) + 1
    BY <1>1 DEF OwnerInv
  <2>2. ~(SeqOf(h) > 2 * Round(h) + 1)
    BY <1>2 DEF TicketInv
  <2>3. SeqOf(h) \in Nat /\ Round(h) \in Nat
    BY <1>2, <1>3
  <2>4. SeqOf(h) = 2 * Round(h) + 1
    BY <2>1, <2>2, <2>3
  <2>5. SeqOf(h) > 2 * Round(h)
    BY <2>3, <2>4
  <2>6. QED
    BY <1>2, <2>4, <2>5 DEF TicketInv
<1>5. TypeOK'
  BY <1>1, <1>2 DEF TypeOK
<1>6. /\ \A u \in Threads : u # c => pc'[u] = pc[u]
      /\ pc'[c] = "owned"
  BY <1>1, <1>2 DEF TypeOK
<1>7. /\ \A k : SeqOf(k)' = SeqOf(k)
      /\ \A u \in Threads : Owner(u)' <=> Owner(u) \/ u = c
      /\ alive
  BY <1>1, <1>2, <1>6 DEF SeqOf, Owner, OwnerInv
<1>8. OwnerInv'
  <2>1. \A d \in Consumers : Owner(d) => idx[d] # h
    BY <1>2 DEF OwnerInv
  <2>2. QED
    BY <1>1, <1>2, <1>4, <1>6, <1>7, <2>1 DEF OwnerInv
<1>9. ASSUME NEW k \in Nat
      PROVE
    /\ SeqOf(k)' > 2 * Round(k) => k < t'
    /\ SeqOf(k)' > 2 * Round(k) + 1 => k < h'
    /\ k < t' /\ SeqOf(k)' <= 2 * Round(k) =>
         \E q \in Producers : Owner(q)' /\ idx'[q] = k
    /\ k < h' /\ SeqOf(k)' <= 2 * Round(k) + 1 =>
         \E d \in Consumers : Owner(d)' /\ idx'[d] = k
  <2>1. CASE k = h
    BY <1>1, <1>2, <1>3, <1>4, <1>7, <2>1
  <2>2. CASE k # h
    BY <1>1, <1>2, <1>7, <2>2 DEF TicketInv
  <2>3. QED
    BY <2>1, <2>2
<1>10. TicketInv(Nat)'
  BY <1>9 DEF TicketInv
<1>11. StorageInv(Nat)'
  <2>1. \A u \in Threads : /\ pc'[u] = "handover" <=> pc[u] = "handover"
                           /\ idx'[u] = idx[u] /\ Obj(u)' = Obj(u)
    BY <1>1, <1>6 DEF Obj
  <2>2. \A q \in Producers : (Owner(q)' <=> Owner(q)) /\ pc'[q] = pc[q]
    BY <1>2, <1>6, <1>7
  <2>3. QED
    BY <1>1, <1>2, <1>7, <2>1, <2>2 DEF StorageInv
<1>12. QED
  BY <1>4, <1>5, <1>8, <1>10, <1>11

(* The consumer moves the object of its own ticket out, and nobody else's. *)
LEMMA TakePreserves ==
  ASSUME Inv, NEW c \in Consumers, Take(c)
  PROVE  Inv' /\ storage[Slot(idx[c])] = log[idx[c] + 1]
<1> USE DEF Inv, IInv
<1> DEFINE i == idx[c]
<1>1. /\ pc[c] = "owned"
      /\ got' = [got EXCEPT ![c] = storage[Slot(i)]]
      /\ storage' = [storage EXCEPT ![Slot(i)] = Raw]
      /\ pc' = [pc EXCEPT ![c] = "handover"]
      /\ sequence' = sequence /\ h' = h /\ t' = t /\ idx' = idx
      /\ ops' = ops /\ alive' = alive /\ log' = log
  BY DEF Take, Goto
<1>2. /\ \A u \in Threads : idx[u] \in Nat /\ Slot(idx[u]) \in Slots
      /\ Producers \subseteq Threads /\ Consumers \subseteq Threads
      /\ c \notin Producers /\ c \in Threads
      /\ t \in Nat /\ h \in Nat /\ i \in Nat
  BY SlotRound, MpmcAssumption DEF TypeOK, Threads
<1>3. SeqOf(i) = 2 * Round(i) + 1 /\ i < h /\ alive
  BY <1>1, <1>2 DEF OwnerInv, Owner
<1>4. storage[Slot(i)] = log[i + 1]
  <2>1. ~\E d \in Consumers : pc[d] = "handover" /\ idx[d] = i
    BY <1>1 DEF OwnerInv, Owner
  <2>2. QED
    BY <1>2, <1>3, <2>1 DEF StorageInv
<1>5. i < t
  <2>1. SeqOf(i) > 2 * Round(i)
    BY <1>2, <1>3, SlotRound
  <2>2. QED
    BY <1>2, <2>1 DEF TicketInv
<1>6. log[i + 1] \in Values
  BY <1>2, <1>5 DEF TypeOK
<1>7. TypeOK'
  BY <1>1, <1>2, <1>4, <1>6 DEF TypeOK
<1>8. /\ \A u \in Threads : u # c => pc'[u] = pc[u]
      /\ pc'[c] = "handover"
  BY <1>1, <1>2 DEF TypeOK
<1>9. /\ \A u \in Threads : Owner(u)' <=> Owner(u)
      /\ \A u \in Threads : pc'[u] = "cas" <=> pc[u] = "cas"
      /\ \A k : SeqOf(k)' = SeqOf(k)
  BY <1>1, <1>2, <1>8 DEF Owner, SeqOf
<1>10. OwnerInv'
  BY <1>1, <1>2, <1>3, <1>9 DEF OwnerInv
<1>11. TicketInv(Nat)'
  BY <1>1, <1>2, <1>9 DEF TicketInv
<1>12. StorageInv(Nat)'
  <2>1. /\ \A s \in Slots : s # Slot(i) => storage'[s] = storage[s]
        /\ storage'[Slot(i)] = Raw
    BY <1>1, <1>2 DEF TypeOK
  <2>2. \A u \in Threads : u # c /\ Owner(u) => Slot(idx[u]) # Slot(i)
    BY <1>1, <1>2, OwnersExclusive DEF ExclusiveSlot, Owner
  <2>3. \A q \in Producers :
          /\ Owner(q)' => log'[idx'[q] + 1] = Obj(q)'
          /\ pc'[q] = "owned" => storage'[Slot(idx'[q])] = Raw
          /\ pc'[q] = "handover" => storage'[Slot(idx'[q])] = Obj(q)'
    <3> SUFFICES ASSUME NEW q \in Producers
                 PROVE  /\ Owner(q)' => log'[idx'[q] + 1] = Obj(q)'
                        /\ pc'[q] = "owned" => storage'[Slot(idx'[q])] = Raw
                        /\ pc'[q] = "handover" => storage'[Slot(idx'[q])] = Obj(q)'
      OBVIOUS
    <3>1. idx'[q] = idx[q] /\ Obj(q)' = Obj(q) /\ q # c /\ q \in Threads
      BY <1>1, <1>2 DEF Obj
    <3>2. pc'[q] = pc[q] /\ Slot(idx[q]) \in Slots
      BY <1>2, <1>8, <3>1
    <3>3. Owner(q) => storage'[Slot(idx[q])] = storage[Slot(idx[q])]
      BY <2>1, <2>2, <3>1, <3>2
    <3>4. QED
      BY <1>1, <1>9, <3>1, <3>2, <3>3 DEF StorageInv, Owner
  <2>4. \A d \in Consumers : pc'[d] = "handover" => storage'[Slot(idx'[d])] = Raw
    BY <1>1, <1>2, <1>8, <2>1, <2>2 DEF StorageInv, Owner
  <2>5. SUFFICES ASSUME NEW k \in Nat
                 PROVE
          /\ /\ SeqOf(k)' = 2 * Round(k)
             /\ ~\E q \in Producers : pc'[q] = "handover" /\ idx'[q] = k
             => storage'[Slot(k)] = Raw
          /\ /\ alive' /\ SeqOf(k)' = 2 * Round(k) + 1
             /\ ~\E d \in Consumers : pc'[d] = "handover" /\ idx'[d] = k
             => storage'[Slot(k)] = log'[k + 1]
    BY <1>1, <1>3, <2>3, <2>4 DEF StorageInv
  <2>6. Slot(k) \in Slots /\ Round(k) \in Nat /\ Round(i) \in Nat
    BY <1>2, SlotRound
  <2>7. CASE Slot(k) = Slot(i)
    <3>1. SeqOf(k) = 2 * Round(i) + 1
      BY <1>3, <2>7 DEF SeqOf
    <3>2. SeqOf(k) = 2 * Round(k) + 1 => Round(k) = Round(i)
      BY <2>6, <3>1
    <3>3. SeqOf(k) = 2 * Round(k) + 1 => k = i
      BY <1>2, <2>7, <3>2, SameSlotSameTicket
    <3>4. QED
      BY <1>1, <1>8, <1>9, <2>1, <2>7, <3>3
  <2>8. CASE Slot(k) # Slot(i)
    <3>1. /\ \A q \in Producers : pc'[q] = pc[q] /\ idx'[q] = idx[q]
          /\ \A d \in Consumers : pc[d] = "handover" /\ idx[d] = k
                                  => pc'[d] = "handover" /\ idx'[d] = k
      BY <1>1, <1>2, <1>8
    <3>2. storage'[Slot(k)] = storage[Slot(k)]
      BY <2>1, <2>6, <2>8
    <3>3. QED
      BY <1>1, <1>9, <3>1, <3>2 DEF StorageInv
  <2>9. QED
    BY <2>7, <2>8
<1>13. QED
  BY <1>4, <1>7, <1>10, <1>11, <1>12

(* Releasing raises the sequence of an owned slot from 2r + 1 to 2 (r + 1). *)
LEMMA ReleasePreserves ==
  ASSUME Inv, NEW c \in Consumers, Release(c)
  PROVE  Inv'
<1> USE DEF Inv, IInv
<1> DEFINE i == idx[c]
<1>1. /\ pc[c] = "handover"
      /\ sequence' = [sequence EXCEPT ![Slot(i)] = 2 * Round(i) + 2]
      /\ pc' = [pc EXCEPT ![c] = "idle"]
      /\ storage' = storage /\ h' = h /\ t' = t /\ idx' = idx
      /\ ops' = ops /\ got' = got /\ alive' = alive /\ log' = log
  BY DEF Release, Goto
<1>2. /\ \A u \in Threads : idx[u] \in Nat /\ Slot(idx[u]) \in Slots
      /\ Producers \subseteq Threads /\ Consumers \subseteq Threads
      /\ c \notin Producers /\ c \in Threads
      /\ t \in Nat /\ h \in Nat
  BY SlotRound, MpmcAssumption DEF TypeOK, Threads
<1>3. /\ \A k \in Nat : SeqOf(k) \in Nat /\ Round(k) \in Nat /\ Slot(k) \in Slots
      /\ i \in Nat
  BY <1>2, SlotRound DEF TypeOK, SeqOf
<1>4. SeqOf(i) = 2 * Round(i) + 1 /\ i < h /\ storage[Slot(i)] = Raw
  BY <1>1 DEF OwnerInv, StorageInv, Owner
<1>5. i < t
  <2>1. SeqOf(i) > 2 * Round(i)
    BY <1>3, <1>4
  <2>2. QED
    BY <1>3, <2>1 DEF TicketInv
<1>6. TypeOK'
  <2>1. 2 * Round(i) + 2 \in Nat
    BY <1>3
  <2>2. QED
    BY <1>1, <1>2, <2>1 DEF TypeOK
<1>7. /\ \A u \in Threads : u # c => pc'[u] = pc[u]
      /\ pc'[c] = "idle"
  BY <1>1, <1>2 DEF TypeOK
<1>8. \A k \in Nat : /\ Slot(k) = Slot(i) => SeqOf(k)' = 2 * Round(i) + 2
                                              /\ SeqOf(k) = 2 * Round(i) + 1
                     /\ Slot(k) # Slot(i) => SeqOf(k)' = SeqOf(k)
  BY <1>1, <1>3, <1>4 DEF TypeOK, SeqOf
<1>9. \A u \in Threads : u # c /\ Owner(u) => Slot(idx[u]) # Slot(i)
  BY <1>1, <1>2, OwnersExclusive DEF ExclusiveSlot, Owner
<1>10. /\ \A u \in Threads : Owner(u)' <=> Owner(u) /\ u # c
       /\ alive
  BY <1>1, <1>2, <1>7 DEF Owner, OwnerInv
<1>11. OwnerInv'
  <2>1. \A q \in Producers :
          /\ Owner(q)' => idx'[q] < t' /\ SeqOf(idx[q])' = 2 * Round(idx'[q])
          /\ pc'[q] = "cas" => SeqOf(idx[q])' >= 2 * Round(idx'[q])
    BY <1>1, <1>2, <1>3, <1>7, <1>8, <1>9, <1>10 DEF OwnerInv
  <2>2. \A d \in Consumers :
          /\ Owner(d)' => idx'[d] < h' /\ SeqOf(idx[d])' = 2 * Round(idx'[d]) + 1
          /\ pc'[d] = "cas" => SeqOf(idx[d])' >= 2 * Round(idx'[d]) + 1
    BY <1>1, <1>2, <1>3, <1>7, <1>8, <1>9, <1>10 DEF OwnerInv
  <2>3. QED
    BY <1>1, <1>2, <1>10, <2>1, <2>2 DEF OwnerInv, SeqOf
<1>12. ASSUME NEW k \in Nat
       PROVE
    /\ SeqOf(k)' > 2 * Round(k) => k < t'
    /\ SeqOf(k)' > 2 * Round(k) + 1 => k < h'
    /\ k < t' /\ SeqOf(k)' <= 2 * Round(k) =>
         \E q \in Producers : Owner(q)' /\ idx'[q] = k
    /\ k < h' /\ SeqOf(k)' <= 2 * Round(k) + 1 =>
         \E d \in Consumers : Owner(d)' /\ idx'[d] = k
  <2>1. /\ Round(k) \in Nat /\ Round(i) \in Nat /\ SeqOf(k) \in Nat
        /\ Slot(k) = Slot(i) /\ Round(k) <= Round(i) => k <= i
    BY <1>3, SameSlotOrder
  <2>2. /\ SeqOf(k)' > 2 * Round(k) => k < t'
        /\ SeqOf(k)' > 2 * Round(k) + 1 => k < h'
    BY <1>1, <1>2, <1>3, <1>4, <1>5, <1>8, <2>1 DEF TicketInv
  <2>3. k < t' /\ SeqOf(k)' <= 2 * Round(k) =>
         \E q \in Producers : Owner(q)' /\ idx'[q] = k
    BY <1>1, <1>2, <1>3, <1>8, <1>10, <2>1 DEF TicketInv
  <2>4. k < h' /\ SeqOf(k)' <= 2 * Round(k) + 1 =>
         \E d \in Consumers : Owner(d)' /\ idx'[d] = k
    BY <1>1, <1>2, <1>3, <1>8, <1>10, <2>1 DEF TicketInv
  <2>5. QED
    BY <2>2, <2>3, <2>4
<1>13. TicketInv(Nat)'
  BY <1>12 DEF TicketInv
<1>14. StorageInv(Nat)'
  <2>1. \A q \in Producers :
          /\ Owner(q)' => log'[idx'[q] + 1] = Obj(q)'
          /\ pc'[q] = "owned" => storage'[Slot(idx'[q])] = Raw
          /\ pc'[q] = "handover" => storage'[Slot(idx'[q])] = Obj(q)'
    BY <1>1, <1>2, <1>7, <1>10 DEF StorageInv, Obj
  <2>2. \A d \in Consumers : pc'[d] = "handover" => storage'[Slot(idx'[d])] = Raw
    BY <1>1, <1>2, <1>7 DEF StorageInv
  <2>3. SUFFICES ASSUME NEW k \in Nat
                 PROVE
          /\ /\ SeqOf(k)' = 2 * Round(k)
             /\ ~\E q \in Producers : pc'[q] = "handover" /\ idx'[q] = k
             => storage'[Slot(k)] = Raw
          /\ /\ alive' /\ SeqOf(k)' = 2 * Round(k) + 1
             /\ ~\E d \in Consumers : pc'[d] = "handover" /\ idx'[d] = k
             => storage'[Slot(k)] = log'[k + 1]
    BY <1>1, <1>10, <2>1, <2>2 DEF StorageInv
  <2>4. CASE Slot(k) = Slot(i)
    <3>1. /\ SeqOf(k)' = 2 * Round(i) + 2 /\ Round(k) \in Nat /\ Round(i) \in Nat
      BY <1>3, <1>8, <2>4
    <3>2. SeqOf(k)' # 2 * Round(k) + 1
      BY <3>1
    <3>3. QED
      BY <1>1, <1>4, <2>4, <3>2
  <2>5. CASE Slot(k) # Slot(i)
    <3>1. \A u \in Threads : pc[u] = "handover" /\ idx[u] = k
                             => pc'[u] = "handover" /\ idx'[u] = k
      BY <1>1, <1>7, <2>5
    <3>2. /\ \A q \in Producers : pc[q] = "handover" /\ idx[q] = k
                                  => pc'[q] = "handover" /\ idx'[q] = k
          /\ \A d \in Consumers : pc[d] = "handover" /\ idx[d] = k
                                  => pc'[d] = "handover" /\ idx'[d] = k
      BY <1>2, <3>1
    <3>3. QED
      BY <1>1, <1>8, <1>10, <2>5, <3>2 DEF StorageInv
  <2>6. QED
    BY <2>4, <2>5
<1>15. QED
  BY <1>6, <1>11, <1>13, <1>14

(* A sequence and its slot stand for a ticket: the one of round sequence / 2. *)
LEMMA TicketOfSlot ==
  ASSUME TypeOK, NEW s \in Slots
  PROVE  \E k \in Nat : /\ Slot(k) = s
                        /\ sequence[s] % 2 = 0 => SeqOf(k) = 2 * Round(k)
                        /\ sequence[s] % 2 = 1 => SeqOf(k) = 2 * Round(k) + 1
<1>1. PICK r \in Nat : /\ sequence[s] % 2 = 0 => sequence[s] = 2 * r
                       /\ sequence[s] % 2 = 1 => sequence[s] = 2 * r + 1
  <2>1. sequence[s] \in Nat
    BY DEF TypeOK
  <2>2. /\ sequence[s] \div 2 \in Nat
        /\ sequence[s] % 2 = 0 => sequence[s] = 2 * (sequence[s] \div 2)
        /\ sequence[s] % 2 = 1 => sequence[s] = 2 * (sequence[s] \div 2) + 1
    BY <2>1
  <2>3. QED
    BY <2>2
<1>2. PICK k \in Nat : Slot(k) = s /\ Round(k) = r
  BY TicketExists
<1>3. QED
  BY <1>1, <1>2 DEF SeqOf

(* The destructor: with nobody at work, an odd sequence marks an object. *)
LEMMA DestroyPreserves ==
  ASSUME Inv, Destroy
  PROVE  Inv'
<1> USE DEF Inv, IInv
<1>1. /\ alive /\ \A th \in Threads : pc[th] = "idle"
      /\ alive' = FALSE
      /\ storage' = [s \in Slots |-> IF sequence[s] % 2 = 1 THEN Raw ELSE storage[s]]
      /\ sequence' = sequence /\ h' = h /\ t' = t /\ pc' = pc /\ idx' = idx
      /\ ops' = ops /\ got' = got /\ log' = log
  BY DEF Destroy
<1>2. TypeOK'
  BY <1>1 DEF TypeOK
<1>3. /\ Producers \subseteq Threads /\ Consumers \subseteq Threads
      /\ \A u \in Threads : ~Owner(u)' /\ ~Owner(u) /\ pc'[u] = "idle"
      /\ \A k : SeqOf(k)' = SeqOf(k)
  BY <1>1 DEF Threads, Owner, SeqOf
<1>4. OwnerInv'
  BY <1>1, <1>3 DEF OwnerInv
<1>5. TicketInv(Nat)'
  BY <1>1, <1>3 DEF TicketInv
<1>6. ASSUME NEW s \in Slots PROVE storage'[s] = Raw
  <2>1. PICK k \in Nat : /\ Slot(k) = s
                         /\ sequence[s] % 2 = 0 => SeqOf(k) = 2 * Round(k)
    BY TicketOfSlot
  <2>2. sequence[s] \in Nat
    BY DEF TypeOK
  <2>3. CASE sequence[s] % 2 = 1
    BY <1>1, <2>3
  <2>4. CASE sequence[s] % 2 # 1
    <3>1. sequence[s] % 2 = 0
      BY <2>2, <2>4
    <3>2. storage[s] = Raw
      BY <1>1, <1>3, <2>1, <3>1 DEF StorageInv
    <3>3. QED
      BY <1>1, <2>4, <3>2
  <2>5. QED
    BY <2>3, <2>4
<1>7. StorageInv(Nat)'
  <2>1. \A k \in Nat : Slot(k) \in Slots
    BY SlotRound
  <2>2. QED
    BY <1>1, <1>3, <1>6, <2>1 DEF StorageInv
<1>8. QED
  BY <1>2, <1>4, <1>5, <1>7

(* The invariant is inductive. *)
LEMMA InvInductive == Inv /\ [Next]_vars => Inv'
<1> SUFFICES ASSUME Inv, [Next]_vars PROVE Inv'
  OBVIOUS
<1>t. TypeOK
  BY DEF Inv, IInv
<1>1. CASE \E th \in Threads : Begin(th)
  BY <1>1, <1>t, QuietActions, QuietPreserves
<1>2. ASSUME NEW p \in Producers, ProducerStep(p) PROVE Inv'
  <2>1. p \in Threads
    BY DEF Threads
  <2>2. CASE LoadTail(p) \/ CheckTail(p) \/ MissTail(p)
    BY <1>t, <2>1, <2>2, QuietActions, QuietPreserves
  <2>3. QED
    BY <1>2, <2>2, ClaimTailPreserves, ConstructPreserves, PublishPreserves DEF ProducerStep
<1>3. ASSUME NEW c \in Consumers, ConsumerStep(c) PROVE Inv'
  <2>1. c \in Threads
    BY DEF Threads
  <2>2. CASE LoadHead(c) \/ CheckHead(c) \/ MissHead(c)
    BY <1>t, <2>1, <2>2, QuietActions, QuietPreserves
  <2>3. QED
    BY <1>3, <2>2, ClaimHeadPreserves, TakePreserves, ReleasePreserves DEF ConsumerStep
<1>4. CASE Destroy
  BY <1>4, DestroyPreserves
<1>5. CASE UNCHANGED vars
  <2> USE <1>5 DEF vars, Inv, IInv
  <2>1. TypeOK'
    BY DEF TypeOK
  <2>2. OwnerInv'
    BY DEF OwnerInv, Owner, SeqOf
  <2>3. TicketInv(Nat)'
    BY DEF TicketInv, Owner, SeqOf
  <2>4. StorageInv(Nat)'
    BY DEF StorageInv, Owner, SeqOf, Obj
  <2>5. QED
    BY <2>1, <2>2, <2>3, <2>4
<1>6. QED
  BY <1>1, <1>2, <1>3, <1>4, <1>5 DEF Next

(* The inductive invariant holds in every reachable state. *)
THEOREM InvHolds == Spec => []Inv
<1>1. QED
  BY InitInv, InvInductive, PTL DEF Spec

-----------------------------------------------------------------------------
(* The safety properties *)

(* Every variable keeps its type, and the log has one entry per claimed ticket. *)
THEOREM TypeCorrect == Spec => []TypeOK
<1>1. Inv => TypeOK
  BY DEF Inv, IInv
<1>2. QED
  BY <1>1, InvHolds, PTL

(* No two threads ever work on the same slot. *)
THEOREM SlotsAreExclusive == Spec => []ExclusiveSlot
BY InvHolds, OwnersExclusive, PTL

(* Objects are constructed in raw storage, and each pop moves out the object
   its ticket stands for. *)
THEOREM StorageIsUsedRightly == Spec => []StorageMatchesUse
<1>1. Inv => StorageMatchesUse
  <2> SUFFICES ASSUME Inv PROVE StorageMatchesUse
    OBVIOUS
  <2> USE DEF Inv, IInv
  <2>1. ASSUME NEW c \in Consumers, pc[c] = "owned"
        PROVE  storage[Slot(idx[c])] = log[idx[c] + 1]
    <3>1. c \in Threads /\ idx[c] \in Nat
      BY DEF TypeOK, Threads
    <3>2. SeqOf(idx[c]) = 2 * Round(idx[c]) + 1 /\ alive
      BY <2>1, <3>1 DEF OwnerInv, Owner
    <3>3. ~\E d \in Consumers : pc[d] = "handover" /\ idx[d] = idx[c]
      BY <2>1 DEF OwnerInv, Owner
    <3>4. QED
      BY <3>1, <3>2, <3>3 DEF StorageInv
  <2>2. QED
    BY <2>1 DEF StorageMatchesUse, StorageInv
<1>2. QED
  BY <1>1, InvHolds, PTL

(* The destructor can trust the parity of the sequences. *)
THEOREM ParityIsRight == Spec => []ParityTellsContent
<1>1. Inv => ParityTellsContent
  <2> SUFFICES ASSUME Inv PROVE ParityTellsContent
    OBVIOUS
  <2> USE DEF Inv, IInv
  <2>1. ASSUME NEW s \in Slots, alive,
               \A th \in Threads : Owner(th) => Slot(idx[th]) # s
        PROVE  sequence[s] % 2 = 1 <=> storage[s] # Raw
    <3>1. PICK k \in Nat : /\ Slot(k) = s
                           /\ sequence[s] % 2 = 0 => SeqOf(k) = 2 * Round(k)
                           /\ sequence[s] % 2 = 1 => SeqOf(k) = 2 * Round(k) + 1
      BY TicketOfSlot
    <3>2. /\ ~\E p \in Producers : pc[p] = "handover" /\ idx[p] = k
          /\ ~\E c \in Consumers : pc[c] = "handover" /\ idx[c] = k
      BY <2>1, <3>1 DEF Threads, Owner
    <3>3. sequence[s] \in Nat /\ k \in Nat /\ Round(k) \in Nat /\ t \in Nat
      BY SlotRound DEF TypeOK
    <3>4. CASE sequence[s] % 2 = 1
      <4>1. storage[s] = log[k + 1]
        BY <2>1, <3>1, <3>2, <3>4 DEF StorageInv
      <4>2. SeqOf(k) > 2 * Round(k)
        BY <3>1, <3>3, <3>4
      <4>3. k < t
        BY <4>2 DEF TicketInv
      <4>4. log[k + 1] \in Values
        BY <3>3, <4>3 DEF TypeOK
      <4>5. Raw \notin Values
        BY MpmcAssumption DEF Values
      <4>6. QED
        BY <3>4, <4>1, <4>4, <4>5
    <3>5. CASE sequence[s] % 2 # 1
      <4>1. sequence[s] % 2 = 0
        BY <3>3, <3>5
      <4>2. QED
        BY <3>1, <3>2, <3>5, <4>1 DEF StorageInv
    <3>6. QED
      BY <3>4, <3>5
  <2>2. QED
    BY <2>1 DEF ParityTellsContent, StorageInv
<1>2. QED
  BY <1>1, InvHolds, PTL

-----------------------------------------------------------------------------
(* Refinement *)

(* What a consumer has, seen from BoundedFifo. *)
GotBar == [c \in Consumers |-> IF pc[c] = "owned" THEN log[idx[c] + 1] ELSE got[c]]

(* A step that leaves the log, _h and the owners' view alone is a stutter. *)
LEMMA FifoStep == Inv /\ [Next]_vars => [Fifo!Next]_(Fifo!fifoVars)
<1> SUFFICES ASSUME Inv, [Next]_vars
             PROVE  Fifo!Next \/ (log' = log /\ h' = h /\ GotBar' = GotBar)
  BY DEF Fifo!fifoVars, GotBar
<1> USE DEF Inv, IInv
<1>t. /\ Producers \subseteq Threads /\ Consumers \subseteq Threads
      /\ Producers \cap Consumers = {}
      /\ t \in Nat /\ h \in Nat
      /\ \A u \in Threads : idx[u] \in Nat
  BY MpmcAssumption DEF TypeOK, Threads
<1>1. ASSUME NEW th \in Threads, QuietStep(th)
      PROVE  log' = log /\ h' = h /\ GotBar' = GotBar
  <2>1. PICK x \in Free, i \in Nat, n \in 0 .. MaxOps :
          pc' = [pc EXCEPT ![th] = x] /\ idx' = [idx EXCEPT ![th] = i]
    BY <1>1 DEF QuietStep
  <2>2. log' = log /\ h' = h /\ got' = got /\ pc[th] # "owned" /\ x # "owned"
    BY <1>1 DEF QuietStep, Free
  <2>3. \A u \in Threads : /\ pc'[u] = "owned" <=> pc[u] = "owned"
                           /\ pc[u] = "owned" => idx'[u] = idx[u]
    BY <2>1, <2>2 DEF TypeOK
  <2>4. QED
    BY <1>t, <2>2, <2>3 DEF GotBar
<1>2. ASSUME NEW p \in Producers, ClaimTail(p)
      PROVE  Fifo!Next
  <2>1. Obj(p) \in Values /\ t - h < Capacity
    BY <1>2, ClaimTailPreserves
  <2>2. log' = Append(log, Obj(p)) /\ h' = h /\ got' = got /\ idx' = idx
        /\ \A c \in Consumers : pc'[c] = "owned" <=> pc[c] = "owned"
    BY <1>2, <1>t DEF ClaimTail, Goto, TypeOK
  <2>3. Len(log) = t /\ log \in Seq(Values)
    BY DEF TypeOK
  <2>4. ASSUME NEW c \in Consumers, pc[c] = "owned"
        PROVE  log'[idx[c] + 1] = log[idx[c] + 1]
    <3>1. idx[c] \in Nat /\ SeqOf(idx[c]) = 2 * Round(idx[c]) + 1 /\ Round(idx[c]) \in Nat
      BY <1>t, <2>4, SlotRound DEF OwnerInv, Owner
    <3>2. SeqOf(idx[c]) > 2 * Round(idx[c])
      BY <3>1
    <3>3. idx[c] < t
      BY <3>1, <3>2 DEF TicketInv
    <3>4. QED
      BY <1>t, <2>1, <2>2, <2>3, <3>1, <3>3
  <2>5. GotBar' = GotBar
    BY <2>2, <2>4 DEF GotBar
  <2>6. Fifo!Put(Obj(p))
    BY <2>1, <2>2, <2>3, <2>5 DEF Fifo!Put, GotBar
  <2>7. QED
    BY <2>1, <2>6 DEF Fifo!Next
<1>3. ASSUME NEW c \in Consumers, ClaimHead(c)
      PROVE  Fifo!Next
  <2>1. h < t
    BY <1>3, ClaimHeadPreserves
  <2>2. /\ h' = h + 1 /\ log' = log /\ got' = got /\ idx' = idx /\ idx[c] = h
        /\ pc'[c] = "owned"
        /\ \A d \in Consumers : d # c => pc'[d] = pc[d]
    BY <1>3, <1>t DEF ClaimHead, Goto, TypeOK
  <2>3. GotBar' = [GotBar EXCEPT ![c] = log[h + 1]]
    BY <2>2 DEF GotBar
  <2>4. Len(log) = t
    BY DEF TypeOK
  <2>5. Fifo!Get(c)
    BY <2>1, <2>2, <2>3, <2>4 DEF Fifo!Get, GotBar
  <2>6. QED
    BY <2>5 DEF Fifo!Next
<1>4. ASSUME NEW c \in Consumers, Take(c)
      PROVE  log' = log /\ h' = h /\ GotBar' = GotBar
  <2>1. storage[Slot(idx[c])] = log[idx[c] + 1]
    BY <1>4, TakePreserves
  <2>2. /\ h' = h /\ log' = log /\ idx' = idx /\ pc[c] = "owned" /\ pc'[c] = "handover"
        /\ got' = [got EXCEPT ![c] = storage[Slot(idx[c])]]
        /\ \A d \in Consumers : d # c => pc'[d] = pc[d]
    BY <1>4, <1>t DEF Take, Goto, TypeOK
  <2>3. got \in [Consumers -> Values \cup {None}]
    BY DEF TypeOK
  <2>4. QED
    BY <2>1, <2>2, <2>3 DEF GotBar
<1>5. ASSUME NEW th \in Threads, Publish(th) \/ Release(th) \/ Construct(th),
             Construct(th) => th \in Producers
      PROVE  log' = log /\ h' = h /\ GotBar' = GotBar
  <2>1. /\ h' = h /\ log' = log /\ idx' = idx /\ got' = got
        /\ \A c \in Consumers : pc'[c] = "owned" <=> pc[c] = "owned"
    BY <1>5, <1>t DEF Publish, Release, Construct, Goto, TypeOK
  <2>2. QED
    BY <2>1 DEF GotBar
<1>6. CASE Destroy \/ UNCHANGED vars
  BY <1>6 DEF Destroy, vars, GotBar
<1>7. ASSUME NEW p \in Producers, ProducerStep(p)
      PROVE  Fifo!Next \/ (log' = log /\ h' = h /\ GotBar' = GotBar)
  BY <1>t, <1>7, <1>1, <1>2, <1>5, QuietActions DEF ProducerStep
<1>8. ASSUME NEW c \in Consumers, ConsumerStep(c)
      PROVE  Fifo!Next \/ (log' = log /\ h' = h /\ GotBar' = GotBar)
  <2>1. c \in Threads
    BY <1>t
  <2>2. CASE LoadHead(c) \/ CheckHead(c) \/ MissHead(c)
    BY <1>1, <2>1, <2>2, QuietActions
  <2>3. CASE Release(c)
    <3>1. ~Construct(c)
      BY <2>3 DEF Release, Construct
    <3>2. QED
      BY <1>5, <2>1, <2>3, <3>1
  <2>4. QED
    BY <1>8, <1>3, <1>4, <2>2, <2>3 DEF ConsumerStep
<1>9. QED
  BY <1>1, <1>6, <1>7, <1>8, QuietActions DEF Next

(* Successful emplaces and pops are those of a bounded FIFO queue: nothing is
   lost, duplicated, invented or reordered, and the ring never overflows. *)
THEOREM RefinesFifo == Spec => ImplementsFifo
<1>1. Init => Fifo!Init
  BY DEF Init, Fifo!Init, Threads
<1>2. QED
  BY <1>1, InvHolds, FifoStep, PTL DEF Spec, ImplementsFifo, Fifo!Spec
-----------------------------------------------------------------------------
(* The counters: nothing is popped before it is pushed, and no more than a ring of it is there. *)
LEMMA CountersInOrder ==
  ASSUME Inv
  PROVE  h <= t /\ t - h <= Capacity
<1> USE DEF Inv, IInv
<1>1. h \in Nat /\ t \in Nat /\ Capacity \in Nat \ {0}
  BY MpmcAssumption DEF TypeOK
<1>2. \A k \in Nat : SeqOf(k) \in Nat /\ Round(k) \in Nat
  BY SlotRound DEF TypeOK, SeqOf
<1>3. h <= t
  <2> SUFFICES ASSUME t < h PROVE FALSE
    BY <1>1
  <2>1. ~(SeqOf(t) > 2 * Round(t))
    BY <1>1 DEF TicketInv
  <2>2. PICK c \in Consumers : Owner(c) /\ idx[c] = t
    BY <1>1, <1>2, <2>1 DEF TicketInv
  <2>3. SeqOf(t) = 2 * Round(t) + 1
    BY <2>2 DEF OwnerInv
  <2> QED BY <1>1, <1>2, <2>1, <2>3
<1>4. t - h <= Capacity
  <2> SUFFICES ASSUME h + Capacity < t PROVE FALSE
    BY <1>1
  <2>1. PICK k \in Nat : k = h + Capacity
    BY <1>1
  <2>2. SeqOf(h) = SeqOf(k) /\ Round(h) = Round(k) - 1
    <3>1. Slot(k - Capacity) = Slot(k) /\ Round(k - Capacity) = Round(k) - 1 /\ k - Capacity = h
      BY <1>1, <2>1, PreviousLap
    <3> QED BY <3>1 DEF SeqOf
  <2>3. ~(SeqOf(h) > 2 * Round(h) + 1)
    BY <1>1 DEF TicketInv
  <2>4. SeqOf(k) < 2 * Round(k)
    BY <1>1, <1>2, <2>2, <2>3
  <2>5. PICK p \in Producers : Owner(p) /\ idx[p] = k
    BY <1>1, <1>2, <2>1, <2>4 DEF TicketInv
  <2>6. SeqOf(k) = 2 * Round(k)
    BY <2>5 DEF OwnerInv
  <2> QED BY <1>2, <2>4, <2>6
<1> QED BY <1>3, <1>4

(* A producer that gives up at the current ticket found the slot of a ticket one lap back,
   not released: with nobody at work on it, that ticket was never popped. *)
LEMMA FullIsExact ==
  ASSUME Inv, [Next]_vars, ~StaleLoads, NEW p \in Producers,
         pc[p] = "check", pc'[p] = "idle", idx[p] = t,
         \A c \in Consumers : ~Owner(c)
  PROVE  t - h = Capacity
<1> USE DEF Inv, IInv
<1>1. h \in Nat /\ t \in Nat /\ Capacity \in Nat \ {0}
  BY MpmcAssumption DEF TypeOK
<1>2. \A k \in Nat : SeqOf(k) \in Nat /\ Round(k) \in Nat
  BY SlotRound DEF TypeOK, SeqOf
<1>3. CheckTail(p)
  <2>1. \A th \in Threads : Begin(th) => FALSE
    BY DEF Begin, Goto, TypeOK, Threads
  <2>2. \A q \in Producers : ProducerStep(q) => q = p /\ CheckTail(p)
    BY DEF ProducerStep, LoadTail, CheckTail, ClaimTail, MissTail, Construct, Publish, GiveUp,
           Goto, TypeOK, Threads
  <2>3. \A c \in Consumers : ConsumerStep(c) => FALSE
    BY MpmcAssumption
       DEF ConsumerStep, LoadHead, CheckHead, ClaimHead, MissHead, Take, Release, GiveUp,
           Goto, TypeOK, Threads
  <2> QED BY <2>1, <2>2, <2>3 DEF Next, Destroy, vars
<1>4. SeqOf(t) # 2 * Round(t)
  <2>1. PICK v \in Seen(SeqOf(t)) : IF v = 2 * Round(t) THEN Goto(p, "cas") ELSE GiveUp(p)
    BY <1>3 DEF CheckTail, SeqOf
  <2>2. v = SeqOf(t)
    BY <2>1 DEF Seen
  <2>3. ~Goto(p, "cas")
    BY DEF Goto, TypeOK, Threads
  <2> QED BY <2>1, <2>2, <2>3
<1>5. SeqOf(t) < 2 * Round(t)
  <2>1. ~(SeqOf(t) > 2 * Round(t))
    BY <1>1 DEF TicketInv
  <2> QED BY <1>1, <1>2, <1>4, <2>1
<1>6. t >= Capacity
  <2> SUFFICES ASSUME t < Capacity PROVE FALSE
    BY <1>1
  <2>1. Round(t) = 0
    BY <1>1 DEF Round
  <2> QED BY <1>1, <1>2, <1>5, <2>1
<1>7. PICK k \in Nat : k = t - Capacity /\ SeqOf(k) = SeqOf(t) /\ Round(k) = Round(t) - 1
  <2>1. /\ t - Capacity \in Nat /\ Slot(t - Capacity) = Slot(t)
        /\ Round(t - Capacity) = Round(t) - 1
    BY <1>1, <1>6, PreviousLap
  <2> QED BY <2>1 DEF SeqOf
<1>8. SeqOf(k) <= 2 * Round(k) + 1
  BY <1>1, <1>2, <1>5, <1>7
<1>9. ~(k < h)
  BY <1>8 DEF TicketInv
<1> QED BY <1>1, <1>7, <1>9, CountersInOrder

(* A consumer that gives up at the current ticket found it unpublished. *)
LEMMA EmptyIsExact ==
  ASSUME Inv, [Next]_vars, ~StaleLoads, NEW c \in Consumers,
         pc[c] = "check", pc'[c] = "idle", idx[c] = h,
         \A p \in Producers : ~Owner(p)
  PROVE  t = h
<1> USE DEF Inv, IInv
<1>1. h \in Nat /\ t \in Nat
  BY DEF TypeOK
<1>2. SeqOf(h) \in Nat /\ Round(h) \in Nat
  BY <1>1, SlotRound DEF TypeOK, SeqOf
<1>3. CheckHead(c)
  <2>1. \A th \in Threads : Begin(th) => FALSE
    BY DEF Begin, Goto, TypeOK, Threads
  <2>2. \A d \in Consumers : ConsumerStep(d) => d = c /\ CheckHead(c)
    BY DEF ConsumerStep, LoadHead, CheckHead, ClaimHead, MissHead, Take, Release, GiveUp,
           Goto, TypeOK, Threads
  <2>3. \A p \in Producers : ProducerStep(p) => FALSE
    BY MpmcAssumption
       DEF ProducerStep, LoadTail, CheckTail, ClaimTail, MissTail, Construct, Publish, GiveUp,
           Goto, TypeOK, Threads
  <2> QED BY <2>1, <2>2, <2>3 DEF Next, Destroy, vars
<1>4. SeqOf(h) # 2 * Round(h) + 1
  <2>1. PICK v \in Seen(SeqOf(h)) : IF v = 2 * Round(h) + 1 THEN Goto(c, "cas") ELSE GiveUp(c)
    BY <1>3 DEF CheckHead, SeqOf
  <2>2. v = SeqOf(h)
    BY <2>1 DEF Seen
  <2>3. ~Goto(c, "cas")
    BY DEF Goto, TypeOK, Threads
  <2> QED BY <2>1, <2>2, <2>3
<1>5. SeqOf(h) <= 2 * Round(h)
  <2>1. ~(SeqOf(h) > 2 * Round(h) + 1)
    BY <1>1 DEF TicketInv
  <2> QED BY <1>2, <1>4, <2>1
<1>6. ~(h < t)
  BY <1>1, <1>5 DEF TicketInv
<1> QED BY <1>1, <1>6, CountersInOrder

(* What try_emplace and try_pop answer at the current ticket is true: a refusal leaves a full
   or an empty ring behind, unless an operation of the other side is under way. *)
THEOREM AnswersAreExact == ~StaleLoads => (Spec => AnswersExact)
<1> SUFFICES ASSUME ~StaleLoads PROVE Spec => AnswersExact
  OBVIOUS
<1>1. Inv /\ [Next]_vars =>
        [/\ \A p \in Producers :
              /\ pc[p] = "check" /\ pc'[p] = "idle" /\ idx[p] = t
              /\ \A c \in Consumers : ~Owner(c)
              => t - h = Capacity
         /\ \A c \in Consumers :
              /\ pc[c] = "check" /\ pc'[c] = "idle" /\ idx[c] = h
              /\ \A p \in Producers : ~Owner(p)
              => t = h]_vars
  BY FullIsExact, EmptyIsExact
<1> QED BY <1>1, InvHolds, PTL DEF Spec, AnswersExact
=============================================================================
