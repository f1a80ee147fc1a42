-------------------------- MODULE HazardPtr_proofs --------------------------
(***************************************************************************)
(* What holds of HazardPtr for any number of threads, records, objects and  *)
(* calls, while a store is visible at once: nothing is deleted while it is  *)
(* used, every retired object is decided about once, and the records are    *)
(* exclusive.                                                              *)
(*                                                                         *)
(* The argument is about the reload. When it finds the pointer unchanged    *)
(* the object is linked, so nobody is deciding about it yet; whoever begins *)
(* to later scans the records from the first, and cannot pass the record    *)
(* that has been holding the object since before the reload.               *)
(***************************************************************************)
EXTENDS HazardPtr, TLAPS, FiniteSetTheorems

Reading(th) == pc[th] \in {"load", "protect", "check", "use", "release"}
Decides(th) == pc[th] \in {"scan", "delete", "keep"}

SlotsOwned ==
  \A th \in Threads :
    /\ slot[th] # MaxSlot <=> Reading(th)
    /\ Reading(th) => tid[slot[th]] = th

IdleRecordsEmpty ==
  /\ \A i \in Records : tid[i] = Null => ptr[i] = Null
  /\ \A th \in Threads : pc[th] = "release" => ptr[slot[th]] = Null

LoopsBeginAtFirst == \A th \in Threads : pc[th] \notin {"slot", "scan"} => at[th] = 0

LinkedIsLive == \A o \in Objects : status[o] = "live" <=> o = target

DecidedIsRetired ==
  /\ \A th \in Threads : Decides(th) => hand[th] \in Objects /\ status[hand[th]] = "retired"
  /\ \A th, u \in Threads : Decides(th) /\ Decides(u) /\ hand[th] = hand[u] => th = u

ListIsRetired ==
  /\ \A i \in DOMAIN retired : status[retired[i]] = "retired"
  /\ \A i, j \in DOMAIN retired : retired[i] = retired[j] => i = j
  /\ \A i \in DOMAIN retired, th \in Threads : Decides(th) => hand[th] # retired[i]

HazardHolds == \A th \in Threads : pc[th] \in {"check", "use"} => ptr[slot[th]] = hand[th]

(* No scan for an object in use has passed the record that protects it. *)
UsedIsSafe ==
  \A th \in Threads : pc[th] = "use" /\ hand[th] # Null =>
    /\ status[hand[th]] # "free"
    /\ \A u \in Threads : hand[u] = hand[th] =>
         /\ pc[u] = "scan" => at[u] <= slot[th]
         /\ pc[u] # "delete"

(* With room for every object the list has lost none. *)
NothingLost ==
  Cardinality(Objects) <= RetireCap =>
    \A o \in Objects : status[o] = "retired" =>
      \/ \E th \in Threads : Decides(th) /\ hand[th] = o
      \/ \E i \in DOMAIN retired : retired[i] = o

Inv ==
  /\ TypeOK /\ SlotsOwned /\ IdleRecordsEmpty /\ LoopsBeginAtFirst /\ LinkedIsLive
  /\ DecidedIsRetired /\ ListIsRetired /\ HazardHolds /\ UsedIsSafe
  /\ NothingLost

-----------------------------------------------------------------------------
(* A hazard_ptr that starts to look for a record has none yet. *)
LEMMA BeginReadKeeps ==
  ASSUME Inv, NEW th \in Threads, BeginRead(th)
  PROVE  Inv'
<1>1. TypeOK'
  BY HazardAssumption DEF Inv, TypeOK, BeginRead, Starts, Goto
<1>2. SlotsOwned'
  BY DEF Inv, TypeOK, SlotsOwned, Reading, BeginRead, Starts, Goto
<1>3. IdleRecordsEmpty'
  BY DEF Inv, TypeOK, IdleRecordsEmpty, BeginRead, Starts, Goto
<1>4. LoopsBeginAtFirst'
  BY DEF Inv, TypeOK, LoopsBeginAtFirst, BeginRead, Starts, Goto
<1>5. LinkedIsLive'
  BY DEF Inv, TypeOK, LinkedIsLive, BeginRead, Starts, Goto
<1>6. DecidedIsRetired'
  BY DEF Inv, TypeOK, DecidedIsRetired, Decides, BeginRead, Starts, Goto
<1>7. ListIsRetired'
  BY DEF Inv, TypeOK, ListIsRetired, Decides, BeginRead, Starts, Goto
<1>8. HazardHolds'
  BY DEF Inv, TypeOK, HazardHolds, BeginRead, Starts, Goto
<1>9. UsedIsSafe'
  BY DEF Inv, TypeOK, UsedIsSafe, BeginRead, Starts, Goto
<1>10. NothingLost'
  BY DEF Inv, TypeOK, NothingLost, Decides, BeginRead, Starts, Goto
<1> QED BY <1>1, <1>2, <1>3, <1>4, <1>5, <1>6, <1>7, <1>8, <1>9, <1>10 DEF Inv

(* A taken record is empty and nobody else's. *)
LEMMA TakeSlotKeeps ==
  ASSUME Inv, NEW th \in Threads, TakeSlot(th)
  PROVE  Inv'
<1>1. TypeOK'
  BY HazardAssumption DEF Inv, TypeOK, Records, TakeSlot, Goto
<1>2. SlotsOwned'
  BY HazardAssumption DEF Inv, TypeOK, SlotsOwned, Reading, Records, TakeSlot, Goto
<1>3. IdleRecordsEmpty'
  BY DEF Inv, TypeOK, IdleRecordsEmpty, TakeSlot, Goto
<1>4. LoopsBeginAtFirst'
  BY DEF Inv, TypeOK, LoopsBeginAtFirst, TakeSlot, Goto
<1>5. LinkedIsLive'
  BY DEF Inv, TypeOK, LinkedIsLive, TakeSlot, Goto
<1>6. DecidedIsRetired'
  BY DEF Inv, TypeOK, DecidedIsRetired, Decides, TakeSlot, Goto
<1>7. ListIsRetired'
  BY DEF Inv, TypeOK, ListIsRetired, Decides, TakeSlot, Goto
<1>8. HazardHolds'
  BY DEF Inv, TypeOK, HazardHolds, TakeSlot, Goto
<1>9. UsedIsSafe'
  BY DEF Inv, TypeOK, UsedIsSafe, TakeSlot, Goto
<1>10. NothingLost'
  BY DEF Inv, TypeOK, NothingLost, Decides, TakeSlot, Goto
<1> QED BY <1>1, <1>2, <1>3, <1>4, <1>5, <1>6, <1>7, <1>8, <1>9, <1>10 DEF Inv

(* Going on to the next record changes no record. *)
LEMMA PassSlotKeeps ==
  ASSUME Inv, NEW th \in Threads, PassSlot(th)
  PROVE  Inv'
<1>1. TypeOK'
  BY HazardAssumption DEF Inv, TypeOK, Records, PassSlot
<1>2. SlotsOwned'
  BY DEF Inv, TypeOK, SlotsOwned, Reading, PassSlot
<1>3. IdleRecordsEmpty'
  BY DEF Inv, IdleRecordsEmpty, PassSlot
<1>4. LoopsBeginAtFirst'
  BY DEF Inv, TypeOK, LoopsBeginAtFirst, PassSlot
<1>5. LinkedIsLive'
  BY DEF Inv, TypeOK, LinkedIsLive, PassSlot
<1>6. DecidedIsRetired'
  BY DEF Inv, TypeOK, DecidedIsRetired, Decides, PassSlot
<1>7. ListIsRetired'
  BY DEF Inv, TypeOK, ListIsRetired, Decides, PassSlot
<1>8. HazardHolds'
  BY DEF Inv, TypeOK, HazardHolds, PassSlot
<1>9. UsedIsSafe'
  BY DEF Inv, TypeOK, UsedIsSafe, PassSlot
<1>10. NothingLost'
  BY DEF Inv, TypeOK, NothingLost, Decides, PassSlot
<1> QED BY <1>1, <1>2, <1>3, <1>4, <1>5, <1>6, <1>7, <1>8, <1>9, <1>10 DEF Inv

(* A thread that found no record is idle again and owns none. *)
LEMMA NoSlotKeeps ==
  ASSUME Inv, NEW th \in Threads, NoSlot(th)
  PROVE  Inv'
<1>1. TypeOK'
  BY HazardAssumption DEF Inv, TypeOK, Records, NoSlot, Goto
<1>2. SlotsOwned'
  BY DEF Inv, TypeOK, SlotsOwned, Reading, NoSlot, Goto
<1>3. IdleRecordsEmpty'
  BY DEF Inv, TypeOK, IdleRecordsEmpty, NoSlot, Goto
<1>4. LoopsBeginAtFirst'
  BY DEF Inv, TypeOK, LoopsBeginAtFirst, NoSlot, Goto
<1>5. LinkedIsLive'
  BY DEF Inv, TypeOK, LinkedIsLive, NoSlot, Goto
<1>6. DecidedIsRetired'
  BY DEF Inv, TypeOK, DecidedIsRetired, Decides, NoSlot, Goto
<1>7. ListIsRetired'
  BY DEF Inv, TypeOK, ListIsRetired, Decides, NoSlot, Goto
<1>8. HazardHolds'
  BY DEF Inv, TypeOK, HazardHolds, NoSlot, Goto
<1>9. UsedIsSafe'
  BY DEF Inv, TypeOK, UsedIsSafe, NoSlot, Goto
<1>10. NothingLost'
  BY DEF Inv, TypeOK, NothingLost, Decides, NoSlot, Goto
<1> QED BY <1>1, <1>2, <1>3, <1>4, <1>5, <1>6, <1>7, <1>8, <1>9, <1>10 DEF Inv

(* The pointer that is loaded is not protected and not used yet. *)
LEMMA LoadTargetKeeps ==
  ASSUME Inv, NEW th \in Threads, LoadTarget(th)
  PROVE  Inv'
<1>1. TypeOK'
  BY DEF Inv, TypeOK, LoadTarget, Goto
<1>2. SlotsOwned'
  BY DEF Inv, TypeOK, SlotsOwned, Reading, LoadTarget, Goto
<1>3. IdleRecordsEmpty'
  BY DEF Inv, TypeOK, IdleRecordsEmpty, LoadTarget, Goto
<1>4. LoopsBeginAtFirst'
  BY DEF Inv, TypeOK, LoopsBeginAtFirst, LoadTarget, Goto
<1>5. LinkedIsLive'
  BY DEF Inv, TypeOK, LinkedIsLive, LoadTarget, Goto
<1>6. DecidedIsRetired'
  BY DEF Inv, TypeOK, DecidedIsRetired, Decides, LoadTarget, Goto
<1>7. ListIsRetired'
  BY DEF Inv, TypeOK, ListIsRetired, Decides, LoadTarget, Goto
<1>8. HazardHolds'
  BY DEF Inv, TypeOK, HazardHolds, LoadTarget, Goto
<1>9. UsedIsSafe'
  BY DEF Inv, TypeOK, UsedIsSafe, LoadTarget, Goto
<1>10. NothingLost'
  BY DEF Inv, TypeOK, NothingLost, Decides, LoadTarget, Goto
<1> QED BY <1>1, <1>2, <1>3, <1>4, <1>5, <1>6, <1>7, <1>8, <1>9, <1>10 DEF Inv

(* protect writes into a record that only its owner writes. *)
LEMMA ProtectKeeps ==
  ASSUME Inv, NEW th \in Threads, Protect(th)
  PROVE  Inv'
<1>1. TypeOK'
  BY DEF Inv, TypeOK, Protect, Goto
<1>2. SlotsOwned'
  BY DEF Inv, TypeOK, SlotsOwned, Reading, Protect, Goto
<1>3. IdleRecordsEmpty'
  BY HazardAssumption DEF Inv, TypeOK, IdleRecordsEmpty, SlotsOwned, Reading, Protect,
     Goto
<1>4. LoopsBeginAtFirst'
  BY DEF Inv, TypeOK, LoopsBeginAtFirst, Protect, Goto
<1>5. LinkedIsLive'
  BY DEF Inv, TypeOK, LinkedIsLive, Protect, Goto
<1>6. DecidedIsRetired'
  BY DEF Inv, TypeOK, DecidedIsRetired, Decides, Protect, Goto
<1>7. ListIsRetired'
  BY DEF Inv, TypeOK, ListIsRetired, Decides, Protect, Goto
<1>8. HazardHolds'
  BY HazardAssumption DEF Inv, TypeOK, HazardHolds, SlotsOwned, Reading, Protect, Goto
<1>9. UsedIsSafe'
  BY DEF Inv, TypeOK, UsedIsSafe, Protect, Goto
<1>10. NothingLost'
  BY DEF Inv, TypeOK, NothingLost, Decides, Protect, Goto
<1> QED BY <1>1, <1>2, <1>3, <1>4, <1>5, <1>6, <1>7, <1>8, <1>9, <1>10 DEF Inv

(* If the reload finds the pointer in hand, its object is linked: nobody decides about it. *)
LEMMA ReloadKeeps ==
  ASSUME Inv, NEW th \in Threads, Reload(th)
  PROVE  Inv'
<1>1. TypeOK'
  BY DEF Inv, TypeOK, Reload, Goto
<1>2. SlotsOwned'
  BY DEF Inv, TypeOK, SlotsOwned, Reading, Reload, Goto
<1>3. IdleRecordsEmpty'
  BY DEF Inv, TypeOK, IdleRecordsEmpty, Reload, Goto
<1>4. LoopsBeginAtFirst'
  BY DEF Inv, TypeOK, LoopsBeginAtFirst, Reload, Goto
<1>5. LinkedIsLive'
  BY DEF Inv, TypeOK, LinkedIsLive, Reload, Goto
<1>6. DecidedIsRetired'
  BY DEF Inv, TypeOK, DecidedIsRetired, Decides, Reload, Goto
<1>7. ListIsRetired'
  BY DEF Inv, TypeOK, ListIsRetired, Decides, Reload, Goto
<1>8. HazardHolds'
  BY DEF Inv, TypeOK, HazardHolds, Reload, Goto
<1>9. UsedIsSafe'
  BY HazardAssumption DEF Inv, TypeOK, UsedIsSafe, Records, Reload, Goto
<1>10. NothingLost'
  BY DEF Inv, TypeOK, NothingLost, Decides, Reload, Goto
<1> QED BY <1>1, <1>2, <1>3, <1>4, <1>5, <1>6, <1>7, <1>8, <1>9, <1>10 DEF Inv

(* The hazard stays in its record until the next protect. *)
LEMMA ReadAgainKeeps ==
  ASSUME Inv, NEW th \in Threads, ReadAgain(th)
  PROVE  Inv'
<1>1. TypeOK'
  BY HazardAssumption DEF Inv, TypeOK, ReadAgain, Goto
<1>2. SlotsOwned'
  BY DEF Inv, TypeOK, SlotsOwned, Reading, ReadAgain, Goto
<1>3. IdleRecordsEmpty'
  BY DEF Inv, TypeOK, IdleRecordsEmpty, ReadAgain, Goto
<1>4. LoopsBeginAtFirst'
  BY DEF Inv, TypeOK, LoopsBeginAtFirst, ReadAgain, Goto
<1>5. LinkedIsLive'
  BY DEF Inv, TypeOK, LinkedIsLive, ReadAgain, Goto
<1>6. DecidedIsRetired'
  BY DEF Inv, TypeOK, DecidedIsRetired, Decides, ReadAgain, Goto
<1>7. ListIsRetired'
  BY DEF Inv, TypeOK, ListIsRetired, Decides, ReadAgain, Goto
<1>8. HazardHolds'
  BY DEF Inv, TypeOK, HazardHolds, ReadAgain, Goto
<1>9. UsedIsSafe'
  BY DEF Inv, TypeOK, UsedIsSafe, ReadAgain, Goto, Records
<1>10. NothingLost'
  BY DEF Inv, TypeOK, NothingLost, Decides, ReadAgain, Goto
<1> QED BY <1>1, <1>2, <1>3, <1>4, <1>5, <1>6, <1>7, <1>8, <1>9, <1>10 DEF Inv

(* The record is emptied before it is given back. *)
LEMMA UnprotectKeeps ==
  ASSUME Inv, NEW th \in Threads, Unprotect(th)
  PROVE  Inv'
<1>1. TypeOK'
  BY DEF Inv, TypeOK, Unprotect, Goto
<1>2. SlotsOwned'
  BY DEF Inv, TypeOK, SlotsOwned, Reading, Unprotect, Goto
<1>3. IdleRecordsEmpty'
  BY HazardAssumption DEF Inv, TypeOK, IdleRecordsEmpty, SlotsOwned, Reading, Unprotect,
     Goto
<1>4. LoopsBeginAtFirst'
  BY DEF Inv, TypeOK, LoopsBeginAtFirst, Unprotect, Goto
<1>5. LinkedIsLive'
  BY DEF Inv, TypeOK, LinkedIsLive, Unprotect, Goto
<1>6. DecidedIsRetired'
  BY DEF Inv, TypeOK, DecidedIsRetired, Decides, Unprotect, Goto
<1>7. ListIsRetired'
  BY DEF Inv, TypeOK, ListIsRetired, Decides, Unprotect, Goto
<1>8. HazardHolds'
  BY HazardAssumption DEF Inv, TypeOK, HazardHolds, SlotsOwned, Reading, Unprotect, Goto
<1>9. UsedIsSafe'
  BY DEF Inv, TypeOK, UsedIsSafe, Unprotect, Goto
<1>10. NothingLost'
  BY DEF Inv, TypeOK, NothingLost, Decides, Unprotect, Goto
<1> QED BY <1>1, <1>2, <1>3, <1>4, <1>5, <1>6, <1>7, <1>8, <1>9, <1>10 DEF Inv

(* The record that is given back is empty. *)
LEMMA ReleaseSlotKeeps ==
  ASSUME Inv, NEW th \in Threads, ReleaseSlot(th)
  PROVE  Inv'
<1>1. TypeOK'
  BY DEF Inv, TypeOK, ReleaseSlot, Goto
<1>2. SlotsOwned'
  BY DEF Inv, TypeOK, SlotsOwned, Reading, ReleaseSlot, Goto
<1>3. IdleRecordsEmpty'
  BY DEF Inv, TypeOK, IdleRecordsEmpty, ReleaseSlot, Goto
<1>4. LoopsBeginAtFirst'
  BY DEF Inv, TypeOK, LoopsBeginAtFirst, ReleaseSlot, Goto
<1>5. LinkedIsLive'
  BY DEF Inv, TypeOK, LinkedIsLive, ReleaseSlot, Goto
<1>6. DecidedIsRetired'
  BY DEF Inv, TypeOK, DecidedIsRetired, Decides, ReleaseSlot, Goto
<1>7. ListIsRetired'
  BY DEF Inv, TypeOK, ListIsRetired, Decides, ReleaseSlot, Goto
<1>8. HazardHolds'
  BY DEF Inv, TypeOK, HazardHolds, ReleaseSlot, Goto
<1>9. UsedIsSafe'
  BY DEF Inv, TypeOK, UsedIsSafe, ReleaseSlot, Goto
<1>10. NothingLost'
  BY DEF Inv, TypeOK, NothingLost, Decides, ReleaseSlot, Goto
<1> QED BY <1>1, <1>2, <1>3, <1>4, <1>5, <1>6, <1>7, <1>8, <1>9, <1>10 DEF Inv

(* The object that is taken out was linked: it is retired by this thread alone. *)
LEMMA UpdateKeeps ==
  ASSUME Inv, NEW th \in Threads, Update(th)
  PROVE  Inv'
<1>a. /\ target \in Objects /\ pc[th] = "idle"
      /\ hand' = [hand EXCEPT ![th] = target] /\ pc' = [pc EXCEPT ![th] = "scan"]
      /\ ops' = ops + 1 /\ ops < MaxOps
      /\ UNCHANGED <<tid, ptr, retired, slot, at, sweeps>>
  BY DEF Inv, TypeOK, Update, Starts, Goto
<1>b. /\ target' \in Objects \cup {Null} /\ target' # target
      /\ \A o \in Objects : status'[o] =
           IF o = target THEN "retired" ELSE IF o = target' THEN "live" ELSE status[o]
      /\ target' # Null => status[target'] = "free"
      /\ status' \in [Objects -> {"free", "live", "retired"}]
  <2>1. CASE target' = Null /\ status' = [status EXCEPT ![target] = "retired"]
    BY <2>1, <1>a, HazardAssumption DEF Inv, TypeOK
  <2>2. ASSUME NEW o \in Objects, status[o] = "free", target' = o,
               status' = [status EXCEPT ![target] = "retired", ![o] = "live"]
        PROVE  /\ target' \in Objects \cup {Null} /\ target' # target
               /\ \A a \in Objects : status'[a] =
                    IF a = target THEN "retired" ELSE IF a = target' THEN "live" ELSE status[a]
               /\ target' # Null => status[target'] = "free"
               /\ status' \in [Objects -> {"free", "live", "retired"}]
    BY <2>2, <1>a, HazardAssumption DEF Inv, TypeOK, LinkedIsLive
  <2> QED BY <2>1, <2>2 DEF Update
<1>1. TypeOK'
  BY <1>a, <1>b, HazardAssumption DEF Inv, TypeOK
<1>2. SlotsOwned'
  BY <1>a, <1>b DEF Inv, TypeOK, SlotsOwned, Reading
<1>3. IdleRecordsEmpty'
  BY <1>a, <1>b DEF Inv, TypeOK, IdleRecordsEmpty
<1>4. LoopsBeginAtFirst'
  BY <1>a, <1>b DEF Inv, TypeOK, LoopsBeginAtFirst
<1>5. LinkedIsLive'
  BY <1>a, <1>b DEF Inv, TypeOK, LinkedIsLive
<1>6. DecidedIsRetired'
  BY <1>a, <1>b, HazardAssumption DEF Inv, TypeOK, LinkedIsLive, DecidedIsRetired, Decides
<1>7. ListIsRetired'
  BY <1>a, <1>b, HazardAssumption DEF Inv, TypeOK, ListIsRetired, Decides, LinkedIsLive
<1>8. HazardHolds'
  BY <1>a, <1>b DEF Inv, TypeOK, HazardHolds
<1>9. UsedIsSafe'
  BY <1>a, <1>b, HazardAssumption DEF Inv, TypeOK, UsedIsSafe, LoopsBeginAtFirst,
     SlotsOwned, Reading, Records
<1>10. NothingLost'
  BY <1>a, <1>b DEF Inv, TypeOK, NothingLost, Decides
<1> QED BY <1>1, <1>2, <1>3, <1>4, <1>5, <1>6, <1>7, <1>8, <1>9, <1>10 DEF Inv

(* A new object is linked where none was. *)
LEMMA PublishKeeps ==
  ASSUME Inv, NEW th \in Threads, Publish(th)
  PROVE  Inv'
<1>1. TypeOK'
  BY HazardAssumption DEF Inv, TypeOK, Publish
<1>2. SlotsOwned'
  BY DEF Inv, TypeOK, SlotsOwned, Reading, Publish
<1>3. IdleRecordsEmpty'
  BY DEF Inv, TypeOK, IdleRecordsEmpty, Publish
<1>4. LoopsBeginAtFirst'
  BY DEF Inv, TypeOK, LoopsBeginAtFirst, Publish
<1>5. LinkedIsLive'
  BY HazardAssumption DEF Inv, TypeOK, LinkedIsLive, Publish
<1>6. DecidedIsRetired'
  BY DEF Inv, TypeOK, DecidedIsRetired, Decides, Publish
<1>7. ListIsRetired'
  BY DEF Inv, TypeOK, ListIsRetired, Decides, Publish
<1>8. HazardHolds'
  BY DEF Inv, TypeOK, HazardHolds, Publish
<1>9. UsedIsSafe'
  BY DEF Inv, TypeOK, UsedIsSafe, Publish
<1>10. NothingLost'
  BY DEF Inv, TypeOK, NothingLost, Decides, Publish
<1> QED BY <1>1, <1>2, <1>3, <1>4, <1>5, <1>6, <1>7, <1>8, <1>9, <1>10 DEF Inv

(* A sweep begins with nothing in hand. *)
(* A sweep begins without an object to decide about. *)
LEMMA BeginSweepKeeps ==
  ASSUME Inv, NEW th \in Threads, BeginSweep(th)
  PROVE  Inv'
<1>1. TypeOK'
  BY HazardAssumption DEF Inv, TypeOK, BeginSweep, Starts, Goto
<1>2. SlotsOwned'
  BY DEF Inv, TypeOK, SlotsOwned, Reading, BeginSweep, Starts, Goto
<1>3. IdleRecordsEmpty'
  BY DEF Inv, TypeOK, IdleRecordsEmpty, BeginSweep, Starts, Goto
<1>4. LoopsBeginAtFirst'
  BY DEF Inv, TypeOK, LoopsBeginAtFirst, BeginSweep, Starts, Goto
<1>5. LinkedIsLive'
  BY DEF Inv, TypeOK, LinkedIsLive, BeginSweep, Starts, Goto
<1>6. DecidedIsRetired'
  BY DEF Inv, TypeOK, DecidedIsRetired, Decides, BeginSweep, Starts, Goto
<1>7. ListIsRetired'
  BY DEF Inv, TypeOK, ListIsRetired, Decides, BeginSweep, Starts, Goto
<1>8. HazardHolds'
  BY DEF Inv, TypeOK, HazardHolds, BeginSweep, Starts, Goto
<1>9. UsedIsSafe'
  BY DEF Inv, TypeOK, UsedIsSafe, BeginSweep, Starts, Goto
<1>10. NothingLost'
  BY DEF Inv, TypeOK, NothingLost, Decides, BeginSweep, Starts, Goto
<1> QED BY <1>1, <1>2, <1>3, <1>4, <1>5, <1>6, <1>7, <1>8, <1>9, <1>10 DEF Inv

(* An object leaves the list for the hands of one thread. *)
LEMMA PopRetiredKeeps ==
  ASSUME Inv, NEW th \in Threads, PopRetired(th)
  PROVE  Inv'
<1>1. TypeOK'
  BY DEF Inv, TypeOK, PopRetired, Goto
<1>2. SlotsOwned'
  BY DEF Inv, TypeOK, SlotsOwned, Reading, PopRetired, Goto
<1>3. IdleRecordsEmpty'
  BY DEF Inv, TypeOK, IdleRecordsEmpty, PopRetired, Goto
<1>4. LoopsBeginAtFirst'
  BY DEF Inv, TypeOK, LoopsBeginAtFirst, PopRetired, Goto
<1>5. LinkedIsLive'
  BY DEF Inv, TypeOK, LinkedIsLive, PopRetired, Goto
<1>6. DecidedIsRetired'
  BY HazardAssumption DEF Inv, TypeOK, DecidedIsRetired, Decides, ListIsRetired,
     PopRetired, Goto
<1>7. ListIsRetired'
  BY DEF Inv, TypeOK, ListIsRetired, Decides, PopRetired, Goto
<1>8. HazardHolds'
  BY DEF Inv, TypeOK, HazardHolds, PopRetired, Goto
<1>9. UsedIsSafe'
  <2>1. /\ pc' = [pc EXCEPT ![th] = "scan"] /\ hand' = [hand EXCEPT ![th] = Head(retired)]
        /\ at[th] = 0 /\ UNCHANGED <<at, slot, status>>
    BY DEF Inv, LoopsBeginAtFirst, PopRetired, Goto
  <2>2. \A v \in Threads : pc'[v] = "use" => pc[v] = "use" /\ hand'[v] = hand[v] /\ v # th
    BY <2>1 DEF Inv, TypeOK
  <2>3. \A v \in Threads : pc[v] = "use" => 0 <= slot[v]
    BY HazardAssumption DEF Inv, TypeOK, Records
  <2>4. \A u \in Threads : u # th => pc'[u] = pc[u] /\ hand'[u] = hand[u]
    BY <2>1 DEF Inv, TypeOK
  <2>5. pc'[th] = "scan"
    BY <2>1 DEF Inv, TypeOK
  <2> QED BY <2>1, <2>2, <2>3, <2>4, <2>5 DEF Inv, UsedIsSafe
<1>10. NothingLost'
  <2> SUFFICES ASSUME Cardinality(Objects) <= RetireCap, NEW o \in Objects, status[o] = "retired"
               PROVE  \/ \E u \in Threads : Decides(u)' /\ hand'[u] = o
                      \/ \E i \in DOMAIN retired' : retired'[i] = o
    BY DEF NothingLost, PopRetired
  <2>1. CASE \E u \in Threads : Decides(u) /\ hand[u] = o
    BY <2>1 DEF Inv, TypeOK, Decides, PopRetired, Goto
  <2>2. ASSUME NEW i \in DOMAIN retired, retired[i] = o, i # 1
        PROVE  i - 1 \in DOMAIN retired' /\ retired'[i - 1] = o
    BY <2>2 DEF Inv, TypeOK, PopRetired
  <2>3. CASE retired[1] = o
    <3>1. hand'[th] = o /\ Decides(th)'
      BY <2>3 DEF Inv, TypeOK, Decides, PopRetired, Goto
    <3> QED BY <3>1
  <2> QED BY <2>1, <2>2, <2>3 DEF Inv, NothingLost
<1> QED BY <1>1, <1>2, <1>3, <1>4, <1>5, <1>6, <1>7, <1>8, <1>9, <1>10 DEF Inv

(* A sweep ends when the list is empty and nothing is in hand. *)
(* A sweep ends between two objects, with the list empty. *)
LEMMA SweepReturnsKeeps ==
  ASSUME Inv, NEW th \in Threads, SweepReturns(th)
  PROVE  Inv'
<1>1. TypeOK'
  BY DEF Inv, TypeOK, SweepReturns, Goto
<1>2. SlotsOwned'
  BY DEF Inv, TypeOK, SlotsOwned, Reading, SweepReturns, Goto
<1>3. IdleRecordsEmpty'
  BY DEF Inv, TypeOK, IdleRecordsEmpty, SweepReturns, Goto
<1>4. LoopsBeginAtFirst'
  BY DEF Inv, TypeOK, LoopsBeginAtFirst, SweepReturns, Goto
<1>5. LinkedIsLive'
  BY DEF Inv, TypeOK, LinkedIsLive, SweepReturns, Goto
<1>6. DecidedIsRetired'
  BY DEF Inv, TypeOK, DecidedIsRetired, Decides, SweepReturns, Goto
<1>7. ListIsRetired'
  BY DEF Inv, TypeOK, ListIsRetired, Decides, SweepReturns, Goto
<1>8. HazardHolds'
  BY DEF Inv, TypeOK, HazardHolds, SweepReturns, Goto
<1>9. UsedIsSafe'
  BY DEF Inv, TypeOK, UsedIsSafe, SweepReturns, Goto
<1>10. NothingLost'
  BY DEF Inv, TypeOK, NothingLost, Decides, SweepReturns, Goto
<1> QED BY <1>1, <1>2, <1>3, <1>4, <1>5, <1>6, <1>7, <1>8, <1>9, <1>10 DEF Inv

(* The scan cannot go past the record that protects the object of a reader. *)
LEMMA ScanKeeps ==
  ASSUME Inv, NEW th \in Threads, Scan(th)
  PROVE  Inv'
<1>1. TypeOK'
  <2>1. UNCHANGED <<tid, ptr, target, status, retired, slot, hand, sweeps, ops>>
    BY DEF Scan
  <2>2. \/ at' = [at EXCEPT ![th] = @ + 1] /\ at[th] \in Records
        \/ at' = [at EXCEPT ![th] = 0]
    BY DEF Scan
  <2>3. at' \in [Threads -> Records \cup {MaxSlot}]
    <3>1. 0 \in Records /\ \A i \in Records : i + 1 \in Records \cup {MaxSlot}
      BY HazardAssumption DEF Records
    <3> QED BY <2>2, <3>1 DEF Inv, TypeOK
  <2>4. pc' = pc \/ pc' = [pc EXCEPT ![th] = "keep"] \/ pc' = [pc EXCEPT ![th] = "delete"]
    BY DEF Scan, Goto
  <2> QED BY <2>1, <2>3, <2>4 DEF Inv, TypeOK
<1>2. SlotsOwned'
  BY DEF Inv, TypeOK, SlotsOwned, Reading, Scan, Goto
<1>3. IdleRecordsEmpty'
  BY DEF Inv, TypeOK, IdleRecordsEmpty, Scan, Goto
<1>4. LoopsBeginAtFirst'
  BY DEF Inv, TypeOK, LoopsBeginAtFirst, Scan, Goto
<1>5. LinkedIsLive'
  BY DEF Inv, TypeOK, LinkedIsLive, Scan, Goto
<1>6. DecidedIsRetired'
  <2>1. \A u \in Threads : Decides(u)' <=> Decides(u)
    BY DEF Inv, TypeOK, Decides, Scan, Goto
  <2>2. UNCHANGED <<hand, status>>
    BY DEF Scan
  <2> QED BY <2>1, <2>2 DEF Inv, DecidedIsRetired
<1>7. ListIsRetired'
  BY DEF Inv, TypeOK, ListIsRetired, Decides, Scan, Goto
<1>8. HazardHolds'
  BY DEF Inv, TypeOK, HazardHolds, Scan, Goto
<1>9. UsedIsSafe'
  <2> SUFFICES ASSUME NEW v \in Threads, pc[v] = "use", hand[v] # Null,
                      NEW u \in Threads, hand[u] = hand[v]
               PROVE  /\ pc'[u] = "scan" => at'[u] <= slot[v]
                      /\ pc'[u] # "delete"
    <3>1. \A v \in Threads : pc'[v] = "use" => pc[v] = "use"
      BY DEF Inv, TypeOK, Scan, Goto
    <3> QED BY <3>1 DEF Inv, UsedIsSafe, Scan
  <2>1. /\ slot[v] \in Records /\ ptr[slot[v]] = hand[u]
        /\ pc[u] = "scan" => at[u] <= slot[v]
        /\ pc[u] # "delete"
    BY DEF Inv, TypeOK, SlotsOwned, Reading, HazardHolds, UsedIsSafe
  <2>2. CASE u # th
    BY <2>1, <2>2 DEF Inv, TypeOK, Scan, Goto
  <2>3. CASE u = th
    <3>1. at[th] # MaxSlot
      BY <2>1, <2>3, HazardAssumption DEF Scan, Records
    <3>2. CASE ptr[at[th]] # hand[th]
      <4>1. at[th] \in Records /\ at'[th] = at[th] + 1
        BY <3>1, <3>2 DEF Inv, TypeOK, Scan
      <4>2. at[th] # slot[v] /\ at[th] <= slot[v]
        BY <2>1, <2>3, <3>2 DEF Scan
      <4> QED BY <2>1, <2>3, <3>1, <3>2, <4>1, <4>2, HazardAssumption DEF Records, Scan
    <3>3. CASE ptr[at[th]] = hand[th]
      BY <2>3, <3>1, <3>3 DEF Inv, TypeOK, Scan, Goto
    <3> QED BY <3>2, <3>3
  <2> QED BY <2>2, <2>3
<1>10. NothingLost'
  BY DEF Inv, TypeOK, NothingLost, Decides, Scan, Goto
<1> QED BY <1>1, <1>2, <1>3, <1>4, <1>5, <1>6, <1>7, <1>8, <1>9, <1>10 DEF Inv

(* What is deleted was retired, and no reader uses it. *)
LEMMA DeleteKeeps ==
  ASSUME Inv, NEW th \in Threads, Delete(th)
  PROVE  Inv'
<1>1. TypeOK'
  BY DEF Inv, TypeOK, Delete, Goto
<1>2. SlotsOwned'
  BY DEF Inv, TypeOK, SlotsOwned, Reading, Delete, Goto
<1>3. IdleRecordsEmpty'
  BY DEF Inv, TypeOK, IdleRecordsEmpty, Delete, Goto
<1>4. LoopsBeginAtFirst'
  BY DEF Inv, TypeOK, LoopsBeginAtFirst, Delete, Goto
<1>5. LinkedIsLive'
  <2>1. status[hand[th]] = "retired" /\ status' = [status EXCEPT ![hand[th]] = "free"]
    BY DEF Inv, DecidedIsRetired, Decides, Delete
  <2>2. \A o \in Objects : status'[o] = IF o = hand[th] THEN "free" ELSE status[o]
    BY <2>1 DEF Inv, TypeOK
  <2> QED BY <2>1, <2>2 DEF Inv, LinkedIsLive, Delete
<1>6. DecidedIsRetired'
  BY DEF Inv, TypeOK, DecidedIsRetired, Decides, Delete, Goto
<1>7. ListIsRetired'
  BY DEF Inv, TypeOK, ListIsRetired, Decides, Delete, Goto
<1>8. HazardHolds'
  BY DEF Inv, TypeOK, HazardHolds, Delete, Goto
<1>9. UsedIsSafe'
  BY DEF Inv, TypeOK, UsedIsSafe, Delete, Goto
<1>10. NothingLost'
  BY DEF Inv, TypeOK, NothingLost, Decides, Delete, Goto
<1> QED BY <1>1, <1>2, <1>3, <1>4, <1>5, <1>6, <1>7, <1>8, <1>9, <1>10 DEF Inv

(* The objects in the list differ from one another and from the one in hand: if all
   objects fit in the list, so does this one. *)
LEMMA RoomForAll ==
  ASSUME Inv, NEW th \in Threads, pc[th] = "keep", Cardinality(Objects) <= RetireCap
  PROVE  Len(retired) < RetireCap
<1> DEFINE Others == Objects \ {hand[th]}
<1>1. hand[th] \in Objects /\ retired \in Seq(Objects)
  BY DEF Inv, TypeOK, DecidedIsRetired, Decides
<1>2. IsFiniteSet(Others) /\ Cardinality(Others) = Cardinality(Objects) - 1
  BY <1>1, HazardAssumption, FS_RemoveElement
<1>3. retired \in [1 .. Len(retired) -> Others]
  BY <1>1 DEF Inv, ListIsRetired, Decides
<1>4. retired \in Injection(1 .. Len(retired), Others)
  BY <1>1, <1>3 DEF Inv, ListIsRetired, Injection, IsInjective
<1>5. Cardinality(1 .. Len(retired)) <= Cardinality(Others)
  BY <1>2, <1>4, FS_Injection
<1>6. Len(retired) \in Nat /\ Cardinality(1 .. Len(retired)) = Len(retired)
  <2>1. Len(retired) \in Nat
    BY <1>1
  <2>2. Cardinality(1 .. Len(retired)) = IF 1 > Len(retired) THEN 0 ELSE Len(retired) - 1 + 1
    BY <2>1, FS_Interval
  <2> QED BY <2>1, <2>2
<1>7. Cardinality(Objects) \in Nat
  BY HazardAssumption, FS_CardinalityType
<1> QED BY <1>2, <1>5, <1>6, <1>7, HazardAssumption

(* A protected object goes back to the list, which has room if it holds all. *)
LEMMA KeepKeeps ==
  ASSUME Inv, NEW th \in Threads, Keep(th)
  PROVE  Inv'
<1>1. TypeOK'
  BY HazardAssumption DEF Inv, TypeOK, DecidedIsRetired, Decides, Keep, Goto
<1>2. SlotsOwned'
  BY DEF Inv, TypeOK, SlotsOwned, Reading, Keep, Goto
<1>3. IdleRecordsEmpty'
  BY DEF Inv, TypeOK, IdleRecordsEmpty, Keep, Goto
<1>4. LoopsBeginAtFirst'
  BY DEF Inv, TypeOK, LoopsBeginAtFirst, Keep, Goto
<1>5. LinkedIsLive'
  BY DEF Inv, TypeOK, LinkedIsLive, Keep, Goto
<1>6. DecidedIsRetired'
  BY DEF Inv, TypeOK, DecidedIsRetired, Decides, Keep, Goto
<1>7. ListIsRetired'
  <2>1. hand[th] \in Objects /\ status[hand[th]] = "retired" /\ retired \in Seq(Objects)
    BY DEF Inv, TypeOK, DecidedIsRetired, Decides, Keep
  <2>2. \A i \in DOMAIN retired : retired[i] # hand[th]
    BY DEF Inv, ListIsRetired, Decides, Keep
  <2>3. \A u \in Threads : Decides(u)' => Decides(u) /\ hand'[u] = hand[u] /\ hand[u] # hand[th]
    BY DEF Inv, TypeOK, DecidedIsRetired, Decides, Keep, Goto
  <2>4. CASE retired' = <<hand[th]>> \o retired
    <3>1. \A i \in DOMAIN retired' :
            \/ i = 1 /\ retired'[i] = hand[th]
            \/ i # 1 /\ i - 1 \in DOMAIN retired /\ retired'[i] = retired[i - 1]
      BY <2>1, <2>4
    <3>2. \A i \in DOMAIN retired' : i \in Nat
      BY <2>1, <2>4
    <3>3. status' = status
      BY DEF Keep
    <3> QED BY <2>1, <2>2, <2>3, <3>1, <3>2, <3>3 DEF Inv, ListIsRetired
  <2>5. CASE retired' = retired
    BY <2>3, <2>5 DEF Inv, ListIsRetired, Keep
  <2> QED BY <2>4, <2>5 DEF Keep
<1>8. HazardHolds'
  BY DEF Inv, TypeOK, HazardHolds, Keep, Goto
<1>9. UsedIsSafe'
  BY DEF Inv, TypeOK, UsedIsSafe, Keep, Goto
<1>10. NothingLost'
  <2> SUFFICES ASSUME Cardinality(Objects) <= RetireCap, NEW o \in Objects, status[o] = "retired"
               PROVE  \/ \E u \in Threads : Decides(u)' /\ hand'[u] = o
                      \/ \E i \in DOMAIN retired' : retired'[i] = o
    BY DEF NothingLost, Keep
  <2>1. retired' = <<hand[th]>> \o retired
    BY RoomForAll DEF Keep
  <2>2. hand[th] \in Objects /\ retired \in Seq(Objects)
    BY DEF Inv, TypeOK, DecidedIsRetired, Decides, Keep
  <2>3. 1 \in DOMAIN retired' /\ retired'[1] = hand[th]
    BY <2>1, <2>2
  <2>4. \A i \in DOMAIN retired : i + 1 \in DOMAIN retired' /\ retired'[i + 1] = retired[i]
    BY <2>1, <2>2
  <2>5. CASE \E u \in Threads : Decides(u) /\ hand[u] = o
    BY <2>3, <2>5 DEF Inv, TypeOK, Decides, Keep, Goto
  <2>6. CASE \E i \in DOMAIN retired : retired[i] = o
    BY <2>4, <2>6
  <2> QED BY <2>5, <2>6 DEF Inv, NothingLost
<1> QED BY <1>1, <1>2, <1>3, <1>4, <1>5, <1>6, <1>7, <1>8, <1>9, <1>10 DEF Inv

(* The invariant holds for any threads, records, objects and calls. *)
THEOREM InvHolds == Spec => []Inv
<1>1. Init => Inv
  BY HazardAssumption DEF Init, Inv, Records, TypeOK, SlotsOwned, IdleRecordsEmpty,
     LoopsBeginAtFirst, LinkedIsLive,
     DecidedIsRetired, ListIsRetired, HazardHolds, UsedIsSafe, NothingLost, Reading, Decides
<1>2. Inv /\ [Next]_vars => Inv'
  <2> SUFFICES ASSUME Inv, [Next]_vars PROVE Inv'
    OBVIOUS
  <2>1. CASE UNCHANGED vars
    BY <2>1 DEF vars, Inv, TypeOK, SlotsOwned, IdleRecordsEmpty, LoopsBeginAtFirst,
       LinkedIsLive,
       DecidedIsRetired, ListIsRetired, HazardHolds, UsedIsSafe, NothingLost, Reading, Decides
  <2>2. CASE Next
    BY <2>2, BeginReadKeeps, TakeSlotKeeps, PassSlotKeeps, NoSlotKeeps, LoadTargetKeeps,
       ProtectKeeps, ReloadKeeps, ReadAgainKeeps, UnprotectKeeps, ReleaseSlotKeeps,
       UpdateKeeps, PublishKeeps, BeginSweepKeeps, PopRetiredKeeps, SweepReturnsKeeps,
       ScanKeeps, DeleteKeeps, KeepKeeps
       DEF Next, Begin, Step
  <2> QED BY <2>1, <2>2
<1> QED BY <1>1, <1>2, PTL DEF Spec

(* Every variable keeps its type. *)
THEOREM TypeCorrect == Spec => []TypeOK
<1>1. Inv => TypeOK
  BY DEF Inv
<1> QED BY <1>1, InvHolds, PTL

(* What acquire_protected returned is not deleted while its caller uses it, if the
   store of protect is visible before the reload. *)
THEOREM UseIsSafe == Spec => []NoUseAfterFree
<1>1. Inv => NoUseAfterFree
  BY DEF Inv, UsedIsSafe, NoUseAfterFree
<1> QED BY <1>1, InvHolds, PTL

(* A record serves one hazard_ptr, and one that is free protects nothing. *)
THEOREM RecordsAreExclusive == Spec => []RecordsExclusive
<1>1. Inv => RecordsExclusive
  BY DEF Inv, SlotsOwned, IdleRecordsEmpty, RecordsExclusive
<1> QED BY <1>1, InvHolds, PTL

(* Every retired object is in the list or with one thread, and in one place only:
   it is deleted once, and not lost while the list has room for all objects. *)
THEOREM RetiredObjectsAreDecidedOnce == Spec => []RetiredOnce
<1>1. Inv => RetiredOnce
  <2> SUFFICES ASSUME Inv, NEW o \in Objects
               PROVE  LET places == Cardinality(Deciding(o)) + Cardinality(Kept(o)) IN
                      /\ places <= IF status[o] = "retired" THEN 1 ELSE 0
                      /\ status[o] = "retired" /\ Cardinality(Objects) <= RetireCap => places = 1
    BY DEF RetiredOnce
  <2>1. CASE \E th \in Threads : Decides(th) /\ hand[th] = o
    <3> PICK th \in Threads : Decides(th) /\ hand[th] = o
      BY <2>1
    <3>1. Deciding(o) = {th} /\ Kept(o) = {} /\ status[o] = "retired"
      BY DEF Inv, DecidedIsRetired, ListIsRetired, Decides, Deciding, Kept
    <3>2. Cardinality(Deciding(o)) = 1 /\ Cardinality(Kept(o)) = 0
      BY <3>1, FS_EmptySet, FS_Singleton
    <3> QED BY <3>1, <3>2
  <2>2. CASE \E i \in DOMAIN retired : retired[i] = o
    <3> PICK i \in DOMAIN retired : retired[i] = o
      BY <2>2
    <3>1. Deciding(o) = {} /\ Kept(o) = {i} /\ status[o] = "retired"
      BY DEF Inv, ListIsRetired, Decides, Deciding, Kept
    <3>2. Cardinality(Deciding(o)) = 0 /\ Cardinality(Kept(o)) = 1
      BY <3>1, FS_EmptySet, FS_Singleton
    <3> QED BY <3>1, <3>2
  <2>3. CASE /\ ~\E th \in Threads : Decides(th) /\ hand[th] = o
             /\ ~\E i \in DOMAIN retired : retired[i] = o
    <3>1. Deciding(o) = {} /\ Kept(o) = {}
      BY <2>3 DEF Decides, Deciding, Kept
    <3>2. Cardinality(Deciding(o)) = 0 /\ Cardinality(Kept(o)) = 0
      BY <3>1, FS_EmptySet
    <3>3. ~(status[o] = "retired" /\ Cardinality(Objects) <= RetireCap)
      BY <2>3 DEF Inv, NothingLost
    <3> QED BY <3>2, <3>3
  <2> QED BY <2>1, <2>2, <2>3
<1> QED BY <1>1, InvHolds, PTL
=============================================================================
