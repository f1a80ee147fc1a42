----------------------- MODULE FlowAggregator_proofs -----------------------
(***************************************************************************)
(* What holds of FlowAggregator for any runs, pipelines, cancels and        *)
(* starts: a hard cancel is seen in time, what the aggregator says is ready *)
(* is stored and final, a soft cancel reaches the end, the blueprint is     *)
(* there as long as it is used, and a run implements the stages it was      *)
(* written with. Inv is about the slots; RunnerInv, further down, about the *)
(* shape of a blueprint and who holds it; StagesInv, in the last section,   *)
(* about which part of the blueprint each stage became.                     *)
(***************************************************************************)
EXTENDS FlowAggregator, TLAPS, FiniteSetTheorems, WellFoundedInduction

Results == {"value", "failed", "soft", "hard"}
RunnerPlaces == {"idle", "hard", "soft", "node", "queued", "end"}

TypeOK ==
  /\ pc \in [Runs -> RunnerPlaces \cup {"store", "flag", "count"}]
  /\ val \in [Runs -> Results]
  /\ late \in [Runs -> {0, 1}]
  /\ slot \in [Runs -> Results \cup {"none"}]
  /\ slotReady \in [Runs -> BOOLEAN]

(* A run that has begun a node since the hard cancel finds it at its next test. *)
LateIsWarned == \A r \in Runs : late[r] = 1 => cancel = "hard" /\ pc[r] # "soft"

SlotsInOrder ==
  \A r \in Runs :
    /\ pc[r] \in {"store", "flag"} => ~slotReady[r]
    /\ pc[r] = "flag" \/ slotReady[r] => slot[r] # "none"
    /\ pc[r] = "count" => slotReady[r]

Counted == {r \in Runs : slotReady[r] /\ pc[r] # "count"}

CountIsExact == readyCount = Cardinality(Counted)

Inv == TypeOK /\ LateIsWarned /\ SlotsInOrder /\ CountIsExact

-----------------------------------------------------------------------------
(* A step of a run outside its end leaves the slots as they are. *)
LEMMA RunnerKeepsSlots ==
  ASSUME Inv, NEW r \in Runs, pc[r] \in RunnerPlaces,
         NEW to \in RunnerPlaces, pc' = [pc EXCEPT ![r] = to], UNCHANGED aggregatorVars
  PROVE  SlotsInOrder' /\ CountIsExact'
<1>1. SlotsInOrder'
  BY DEF Inv, TypeOK, SlotsInOrder, RunnerPlaces, aggregatorVars
<1>2. Counted' = Counted
  BY DEF Inv, TypeOK, Counted, RunnerPlaces, aggregatorVars
<1> QED BY <1>1, <1>2 DEF Inv, CountIsExact, aggregatorVars

(* A stage makes a result of a result. *)
LEMMA EffectIsResult ==
  ASSUME NEW stage, NEW in \in Results, NEW v \in Effect(stage, in)
  PROVE  v \in Results
  BY DEF Effect, Results

(* A cancel changes no slot and no place of a run; a soft one forgets the nodes counted. *)
LEMMA CancelKeeps ==
  ASSUME Inv, Cancel, UNCHANGED aggregatorVars
  PROVE  Inv'
<1>1. UNCHANGED <<pc, val>> /\ ((cancel' = "hard" /\ late' = late) \/ late' = [r \in Runs |-> 0])
  BY DEF Cancel
<1>2. TypeOK' /\ LateIsWarned' /\ SlotsInOrder'
  BY <1>1 DEF Inv, TypeOK, LateIsWarned, SlotsInOrder, aggregatorVars
<1>3. Counted' = Counted
  BY <1>1 DEF Counted, aggregatorVars
<1> QED BY <1>2, <1>3 DEF Inv, CountIsExact, aggregatorVars

(* A start leaves the runs in their states and touches no slot. *)
LEMMA StartKeeps ==
  ASSUME Inv, NEW r \in Runs, Start(r), UNCHANGED aggregatorVars
  PROVE  Inv'
<1> DEFINE to == Entry(r, Len(nodes) - 1)
<1>1. to \in RunnerPlaces /\ to # "soft" /\ pc[r] = "idle" /\ pc' = [pc EXCEPT ![r] = to]
  BY DEF Start, Entry, RunnerPlaces
<1>2. SlotsInOrder' /\ CountIsExact'
  BY <1>1, RunnerKeepsSlots DEF RunnerPlaces
<1>3. /\ val' = [val EXCEPT ![r] = "value"] /\ late' = [late EXCEPT ![r] = 0]
      /\ cancel' = cancel
  BY DEF Start
<1> HIDE DEF to
<1>4. TypeOK' /\ LateIsWarned'
  BY <1>1, <1>3 DEF Inv, TypeOK, LateIsWarned, Results, aggregatorVars
<1> QED BY <1>2, <1>4 DEF Inv

(* One step per action of a run before its end. *)
LEMMA RunStepKeeps ==
  ASSUME Inv, NEW r \in Runs, RunStep(r), UNCHANGED aggregatorVars
  PROVE  Inv'
<1>1. ASSUME NEW to \in RunnerPlaces, pc[r] \in RunnerPlaces, pc' = [pc EXCEPT ![r] = to],
             to = "soft" => cancel # "hard", val' \in [Runs -> Results],
             UNCHANGED <<late, cancel>>
      PROVE  Inv'
  <2>1. SlotsInOrder' /\ CountIsExact'
    BY <1>1, RunnerKeepsSlots
  <2>2. TypeOK' /\ LateIsWarned'
    BY <1>1 DEF Inv, TypeOK, LateIsWarned, aggregatorVars
  <2> QED BY <2>1, <2>2 DEF Inv
<1>2. CASE CheckHard(r)
  <2>1. /\ pc[r] = "hard" /\ UNCHANGED <<late, cancel>>
        /\ \/ pc' = [pc EXCEPT ![r] = "end"] /\ val' = [val EXCEPT ![r] = "hard"]
           \/ pc' = [pc EXCEPT ![r] = "soft"] /\ val' = val /\ cancel # "hard"
    BY <1>2 DEF CheckHard
  <2>2. val' \in [Runs -> Results]
    BY <2>1 DEF Inv, TypeOK, Results
  <2> QED BY <1>1, <2>1, <2>2 DEF RunnerPlaces
<1>3. CASE CheckSoft(r)
  <2>1. /\ pc[r] = "soft" /\ pc' = [pc EXCEPT ![r] = "node"] /\ cancel' = cancel
        /\ val' = [val EXCEPT ![r] = IF cancel = "soft" THEN "soft" ELSE @]
        /\ late' = [late EXCEPT ![r] = IF cancel = "hard" THEN @ + 1 ELSE @]
    BY <1>3 DEF CheckSoft
  <2>2. SlotsInOrder' /\ CountIsExact'
    BY <2>1, RunnerKeepsSlots DEF RunnerPlaces
  <2>3. late[r] = 0
    BY <2>1 DEF Inv, TypeOK, LateIsWarned
  <2>4. TypeOK' /\ LateIsWarned'
    BY <2>1, <2>3 DEF Inv, TypeOK, LateIsWarned, RunnerPlaces, Results, aggregatorVars
  <2> QED BY <2>2, <2>4 DEF Inv
<1>4. ASSUME Onward(r), pc[r] \in RunnerPlaces, val' \in [Runs -> Results], UNCHANGED <<late, cancel>>
      PROVE  Inv'
  <2> DEFINE to == Entry(r, at[r] - 1)
  <2>1. to \in RunnerPlaces /\ to # "soft" /\ pc' = [pc EXCEPT ![r] = to]
    BY <1>4 DEF Onward, Entry, RunnerPlaces
  <2> QED BY <1>1, <1>4, <2>1
<1>5. ASSUME pc' = pc, val' \in [Runs -> Results], UNCHANGED <<late, cancel>>
      PROVE  Inv'
  <2>1. Counted' = Counted
    BY <1>5 DEF Counted, aggregatorVars
  <2> QED BY <1>5, <2>1 DEF Inv, TypeOK, LateIsWarned, SlotsInOrder, CountIsExact, aggregatorVars
<1>6. CASE RunStage(r)
  <2>1. PICK v \in Effect(Node(r).parts[part[r] + 1], val[r]) : val' = [val EXCEPT ![r] = v]
    BY <1>6 DEF RunStage
  <2>2. val' \in [Runs -> Results]
    BY <2>1, EffectIsResult DEF Inv, TypeOK
  <2>3. /\ pc[r] = "node" /\ UNCHANGED <<late, cancel>>
        /\ Onward(r) \/ pc' = pc
    BY <1>6 DEF RunStage
  <2> QED BY <1>4, <1>5, <2>2, <2>3 DEF RunnerPlaces
<1>7. CASE Hop(r)
  <2>1. /\ pc[r] = "node" /\ pc' = [pc EXCEPT ![r] = "queued"]
        /\ UNCHANGED <<val, late, cancel>>
    BY <1>7 DEF Hop
  <2> QED BY <1>1, <2>1 DEF RunnerPlaces, Inv, TypeOK
<1>8. CASE TaskRuns(r)
  <2>1. pc[r] = "queued" /\ Onward(r) /\ UNCHANGED <<val, late, cancel>>
    BY <1>8 DEF TaskRuns
  <2> QED BY <1>4, <2>1 DEF RunnerPlaces, Inv, TypeOK
<1>9. CASE Return(r)
  BY <1>5, <1>9 DEF Return, Inv, TypeOK
<1> QED BY <1>2, <1>3, <1>6, <1>7, <1>8, <1>9 DEF RunStep

(* The steps of the end. *)
LEMMA EndKeepsRunner ==
  ASSUME Inv, NEW r \in Runs, NEW to \in RunnerPlaces \cup {"store", "flag", "count"},
         EndGoto(r, to), to # "soft"
  PROVE  /\ pc' = [pc EXCEPT ![r] = to] /\ val' = val
         /\ pc' \in [Runs -> RunnerPlaces \cup {"store", "flag", "count"}]
         /\ val' \in [Runs -> Results] /\ late' \in [Runs -> {0, 1}]
         /\ LateIsWarned'
<1>1. pc' = [pc EXCEPT ![r] = to] /\ UNCHANGED <<val, late, cancel>>
  BY DEF EndGoto
<1> QED BY <1>1 DEF Inv, TypeOK, LateIsWarned

(* The test of the flag changes nothing but the place of the run. *)
LEMMA TestSlotKeeps ==
  ASSUME Inv, NEW r \in Runs, TestSlot(r)
  PROVE  Inv'
<1> DEFINE to == IF slotReady[r] THEN "idle" ELSE "store"
<1>1. pc[r] = "end" /\ EndGoto(r, to) /\ UNCHANGED aggregatorVars
  BY DEF TestSlot
<1>2. /\ pc' = [pc EXCEPT ![r] = to] /\ TypeOK' /\ LateIsWarned'
  BY <1>1, EndKeepsRunner DEF RunnerPlaces, Inv, TypeOK, aggregatorVars
<1>3. SlotsInOrder'
  BY <1>1, <1>2 DEF Inv, TypeOK, SlotsInOrder, aggregatorVars
<1>4. Counted' = Counted
  BY <1>1, <1>2 DEF Inv, TypeOK, Counted, aggregatorVars
<1> QED BY <1>1, <1>2, <1>3, <1>4 DEF Inv, CountIsExact, aggregatorVars

(* The result is stored before the flag is set. *)
LEMMA StoreKeeps ==
  ASSUME Inv, NEW r \in Runs, Store(r)
  PROVE  Inv'
<1>1. /\ pc[r] = "store" /\ EndGoto(r, "flag")
      /\ slot' = [slot EXCEPT ![r] = val[r]] /\ UNCHANGED <<slotReady, readyCount>>
  BY DEF Store
<1>2. /\ pc' = [pc EXCEPT ![r] = "flag"] /\ TypeOK' /\ LateIsWarned'
  BY <1>1, EndKeepsRunner DEF Inv, TypeOK
<1>3. SlotsInOrder'
  BY <1>1, <1>2 DEF Inv, TypeOK, SlotsInOrder, Results
<1>4. Counted' = Counted
  BY <1>1, <1>2 DEF Inv, TypeOK, Counted
<1> QED BY <1>1, <1>2, <1>3, <1>4 DEF Inv, CountIsExact

(* The flag is set on a slot that has its result. *)
LEMMA SetReadyKeeps ==
  ASSUME Inv, NEW r \in Runs, SetReady(r)
  PROVE  Inv'
<1>1. /\ pc[r] = "flag" /\ EndGoto(r, "count")
      /\ slotReady' = [slotReady EXCEPT ![r] = TRUE] /\ UNCHANGED <<slot, readyCount>>
  BY DEF SetReady
<1>2. /\ pc' = [pc EXCEPT ![r] = "count"] /\ TypeOK' /\ LateIsWarned'
  BY <1>1, EndKeepsRunner DEF Inv, TypeOK
<1>3. SlotsInOrder'
  BY <1>1, <1>2 DEF Inv, TypeOK, SlotsInOrder
<1>4. Counted' = Counted
  BY <1>1, <1>2 DEF Inv, TypeOK, Counted, SlotsInOrder
<1> QED BY <1>1, <1>2, <1>3, <1>4 DEF Inv, CountIsExact

(* The count is the last of the stores. *)
LEMMA CountUpKeeps ==
  ASSUME Inv, NEW r \in Runs, CountUp(r)
  PROVE  Inv'
<1>1. /\ pc[r] = "count" /\ EndGoto(r, "idle")
      /\ readyCount' = readyCount + 1 /\ UNCHANGED <<slot, slotReady>>
  BY DEF CountUp
<1>2. /\ pc' = [pc EXCEPT ![r] = "idle"] /\ TypeOK' /\ LateIsWarned'
  BY <1>1, EndKeepsRunner DEF Inv, TypeOK, RunnerPlaces
<1>3. SlotsInOrder'
  BY <1>1, <1>2 DEF Inv, TypeOK, SlotsInOrder
<1>4. Counted' = Counted \cup {r} /\ r \notin Counted
  BY <1>1, <1>2 DEF Inv, TypeOK, Counted, SlotsInOrder
<1>5. IsFiniteSet(Counted)
  BY FlowAssumption, FS_Subset DEF Counted
<1>6. Cardinality(Counted') = Cardinality(Counted) + 1
  BY <1>4, <1>5, FS_AddElement
<1> QED BY <1>1, <1>2, <1>3, <1>6 DEF Inv, CountIsExact

(* The invariant holds for any runs, pipelines, starts and cancels. *)
THEOREM InvHolds == Spec => []Inv
<1>1. AggregatorInit => Inv
  <2> SUFFICES ASSUME AggregatorInit PROVE Inv
    OBVIOUS
  <2>1. TypeOK /\ LateIsWarned /\ SlotsInOrder
    BY DEF AggregatorInit, Init, TypeOK, LateIsWarned, SlotsInOrder, Results, RunnerPlaces
  <2>2. Counted = {}
    BY DEF AggregatorInit, Counted
  <2> QED BY <2>1, <2>2, FS_EmptySet DEF Inv, CountIsExact, AggregatorInit
<1>2. Inv /\ [Next]_allVars => Inv'
  <2> SUFFICES ASSUME Inv, [Next]_allVars PROVE Inv'
    OBVIOUS
  <2>1. CASE UNCHANGED allVars
    <3>1. Counted' = Counted
      BY <2>1 DEF allVars, runnerVars, aggregatorVars, Counted
    <3> QED BY <2>1, <3>1 DEF allVars, runnerVars, aggregatorVars, Inv, TypeOK, LateIsWarned,
                SlotsInOrder, CountIsExact
  <2>2. CASE Next
    BY <2>2, CancelKeeps, StartKeeps, RunStepKeeps, TestSlotKeeps, StoreKeeps, SetReadyKeeps,
       CountUpKeeps DEF Next, StepOf
  <2> QED BY <2>1, <2>2
<1> QED BY <1>1, <1>2, PTL DEF Spec

(* A run begins at most one more node after a hard cancel. *)
THEOREM HardCancelStops == Spec => []HardStopsSoon
<1>1. Inv => HardStopsSoon
  BY DEF Inv, TypeOK, HardStopsSoon
<1> QED BY <1>1, InvHolds, PTL

(* The count is never ahead of the flags, nor a flag of its result. *)
THEOREM ReadyIsTrue == Spec => []ReadyMeansStored
<1>1. Inv => ReadyMeansStored
  <2> SUFFICES ASSUME Inv PROVE ReadyMeansStored
    OBVIOUS
  <2> DEFINE Flagged == {r \in Runs : slotReady[r]}
  <2>1. IsFiniteSet(Flagged)
    BY FlowAssumption, FS_Subset
  <2>2. Cardinality(Counted) <= Cardinality(Flagged)
    BY <2>1, FS_Subset DEF Counted
  <2> QED BY <2>2 DEF Inv, CountIsExact, SlotsInOrder, ReadyMeansStored
<1> QED BY <1>1, InvHolds, PTL

(* What a reader was told is ready never changes. *)
THEOREM ReadyStaysReady == Spec => ReadyIsFinal
<1>1. Inv /\ [Next]_allVars =>
        [\A r \in Runs : slotReady[r] \/ AllReady => slot'[r] = slot[r] /\ slotReady'[r]]_allVars
  <2> SUFFICES ASSUME Inv, Next, NEW r \in Runs, slotReady[r] \/ AllReady
               PROVE  slot'[r] = slot[r] /\ slotReady'[r]
    OBVIOUS
  <2>1. slotReady[r]
    <3>1. CASE AllReady
      <4>1. Cardinality(Counted) = Cardinality(Runs)
        BY <3>1 DEF Inv, CountIsExact, AllReady
      <4>2. Counted = Runs
        BY <4>1, FlowAssumption, FS_Subset DEF Counted
      <4> QED BY <4>2 DEF Counted
    <3> QED BY <3>1
  <2>2. CASE UNCHANGED aggregatorVars
    BY <2>1, <2>2 DEF aggregatorVars
  <2>3. ASSUME NEW q \in Runs, Store(q)
        PROVE  slot'[r] = slot[r] /\ slotReady'[r]
    BY <2>1, <2>3 DEF Inv, TypeOK, SlotsInOrder, Store
  <2>4. ASSUME NEW q \in Runs, SetReady(q) \/ CountUp(q)
        PROVE  slot'[r] = slot[r] /\ slotReady'[r]
    BY <2>1, <2>4 DEF Inv, TypeOK, SetReady, CountUp
  <2> QED BY <2>2, <2>3, <2>4 DEF Next, StepOf, TestSlot
<1> QED BY <1>1, InvHolds, PTL DEF Spec, ReadyIsFinal

-----------------------------------------------------------------------------
(* A set of naturals that is not empty has a least element. *)
LEMMA LeastNatural ==
  ASSUME NEW S \in SUBSET Nat, S # {}
  PROVE  \E n \in S : \A m \in S : n <= m
<1>1. \E n \in S : \A m \in S : <<m, n>> \notin OpToRel(<, Nat)
  BY WFMin, NatLessThanWellFounded, Zenon
<1>2. ASSUME NEW n \in S, \A m \in S : <<m, n>> \notin OpToRel(<, Nat)
      PROVE  \A m \in S : n <= m
  <2>1. \A m \in S : ~(m < n)
    BY <1>2 DEF OpToRel
  <2> QED BY <2>1
<1> QED BY <1>1, <1>2

(* What holds at 0 and is carried from each number to the next holds up to n. *)
LEMMA UpTo ==
  ASSUME NEW n \in Nat, NEW S, 0 \in S, \A k \in 1 .. n : k - 1 \in S => k \in S
  PROVE  0 .. n \subseteq S
<1>1. PICK bad : bad = (0 .. n) \ S /\ bad \in SUBSET Nat
  <2>1. (0 .. n) \ S \in SUBSET Nat
    OBVIOUS
  <2> QED BY <2>1
<1>2. ASSUME bad # {}
      PROVE  FALSE
  <2>1. PICK m \in bad : \A k \in bad : m <= k
    BY <1>1, <1>2, LeastNatural
  <2>2. m \in 1 .. n /\ m \notin S
    BY <1>1, <2>1
  <2>3. m - 1 \in 0 .. n /\ m - 1 \in S
    BY <1>1, <2>1, <2>2
  <2> QED BY <2>2, <2>3
<1> QED BY <1>1, <1>2

Iterates(g, n, S, first, step) ==
  g \in [0 .. n -> S] /\ g[0] = first /\ \A k \in 1 .. n : g[k] = step[k][g[k - 1]]

(* Steps taken one after the other from a first value. *)
LEMMA Iterated ==
  ASSUME NEW n \in Nat, NEW S, NEW first \in S, NEW step, \A k \in 1 .. n : \A s \in S : step[k][s] \in S
  PROVE  \E g : Iterates(g, n, S, first, step)
<1> DEFINE Good == {m \in 0 .. n : \E g : Iterates(g, m, S, first, step)}
<1>1. 0 \in Good
  <2>1. PICK g : g = [k \in 0 .. 0 |-> first]
    OBVIOUS
  <2> QED BY <2>1 DEF Iterates
<1>2. ASSUME NEW m \in 1 .. n, m - 1 \in Good
      PROVE  m \in Good
  <2>1. PICK g : Iterates(g, m - 1, S, first, step)
    BY <1>2
  <2>2. g \in [0 .. m - 1 -> S] /\ g[0] = first /\ \A k \in 1 .. m - 1 : g[k] = step[k][g[k - 1]]
    BY <2>1 DEF Iterates
  <2>3. PICK f : f = [k \in 0 .. m |-> IF k = m THEN step[m][g[m - 1]] ELSE g[k]]
    OBVIOUS
  <2>4. step[m][g[m - 1]] \in S
    BY <2>2
  <2>5. /\ f \in [0 .. m -> S] /\ f[0] = first /\ f[m] = step[m][g[m - 1]]
        /\ \A k \in 0 .. m - 1 : f[k] = g[k]
    BY <2>2, <2>3, <2>4
  <2>6. ASSUME NEW k \in 1 .. m
        PROVE  f[k] = step[k][f[k - 1]]
    <3>1. k - 1 \in 0 .. m - 1 /\ (k # m => k \in 1 .. m - 1 /\ k \in 0 .. m - 1)
      OBVIOUS
    <3> QED BY <2>2, <2>5, <3>1
  <2>7. Iterates(f, m, S, first, step)
    BY <2>5, <2>6 DEF Iterates
  <2> QED BY <2>7
<1> HIDE DEF Good
<1>3. n \in Good
  BY <1>1, <1>2, UpTo
<1> QED BY <1>3 DEF Good

-----------------------------------------------------------------------------
(* The blueprint *)

Stages == {"identity"} \cup UNION {ToSet(p) : p \in Pipelines}
Inner == {n \in [kind : {"calc", "control"}, parts : Seq(Stages)] : Len(n.parts) \in 1 .. MaxZip}
Chains == {c \in Seq(Inner) : c # <<>>}

(* A pipeline is made of stages. *)
LEMMA PipelineStages ==
  ASSUME NEW p \in Pipelines
  PROVE  p \in Seq(Stages) /\ Len(p) \in Nat /\ \A k \in 1 .. Len(p) : p[k] \in Stages
<1>1. p \in Seq(ToSet(p)) /\ ToSet(p) \subseteq Stages
  BY FlowAssumption DEF Stages
<1>2. p \in Seq(Stages)
  BY <1>1
<1> QED BY <1>2

(* A node of one stage. *)
LEMMA SingleNodes ==
  ASSUME NEW stage \in Stages
  PROVE  CalcNode(<<stage>>) \in Inner /\ ControlNode(stage) \in Inner
<1>1. <<stage>> \in Seq(Stages) /\ Len(<<stage>>) = 1 /\ 1 \in 1 .. MaxZip
  BY FlowAssumption
<1> QED BY <1>1 DEF CalcNode, ControlNode, Inner

(* operator| makes a chain of nodes of a chain of nodes. *)
LEMMA ExtendIsChain ==
  ASSUME NEW bp \in Chains, NEW stage \in Stages
  PROVE  Extend(bp, stage) \in Chains
<1>1. /\ Head(bp) \in Inner /\ Tail(bp) \in Seq(Inner)
      /\ \A n \in Inner : <<n>> \o Tail(bp) \in Chains /\ <<n>> \o bp \in Chains
  BY DEF Chains
<1>2. PICK first \in Inner : first = Head(bp)
  BY <1>1
<1>3. CASE stage \notin Executors /\ first.kind = "calc" /\ Len(first.parts) < MaxZip
  <2>1. Append(first.parts, stage) \in Seq(Stages) /\ Len(Append(first.parts, stage)) \in 1 .. MaxZip
    BY <1>3, FlowAssumption DEF Inner
  <2>2. Fuse(first, stage) \in Inner
    BY <2>1 DEF Fuse, CalcNode, Inner
  <2>3. Extend(bp, stage) = <<Fuse(first, stage)>> \o Tail(bp)
    BY <1>2, <1>3 DEF Extend
  <2> QED BY <1>1, <2>2, <2>3
<1>4. CASE stage \notin Executors /\ (first.kind = "control" \/ Len(first.parts) = MaxZip)
  <2>1. Extend(bp, stage) = <<CalcNode(<<stage>>)>> \o bp
    BY <1>2, <1>4, FlowAssumption DEF Extend
  <2> QED BY <1>1, <2>1, SingleNodes
<1>5. CASE stage \in Executors /\ first.kind = "calc"
  <2>1. Extend(bp, stage) = <<ControlNode(stage)>> \o bp
    BY <1>2, <1>5 DEF Extend
  <2> QED BY <1>1, <2>1, SingleNodes
<1>6. CASE stage \in Executors /\ first.kind = "control"
  <2>1. Extend(bp, stage) = bp \/ Extend(bp, stage) = <<ControlNode(stage)>> \o Tail(bp)
    BY <1>2, <1>6 DEF Extend
  <2> QED BY <1>1, <2>1, SingleNodes
<1>7. /\ first.kind \in {"calc", "control"}
      /\ Len(first.parts) < MaxZip \/ Len(first.parts) = MaxZip
  BY FlowAssumption DEF Inner
<1> QED BY <1>3, <1>4, <1>5, <1>6, <1>7

(* The prefixes of a pipeline can be composed. *)
LEMMA PrefixComposed ==
  ASSUME NEW p \in Pipelines, NEW n \in Nat, n = Len(p)
  PROVE  \E g \in [0 .. n -> Chains] :
           \A k \in 0 .. n : g[k] = IF k = 0 THEN MakeBlueprint ELSE Extend(g[k - 1], p[k])
<1>1. PICK chains, step : /\ chains = Chains
                          /\ step = [k \in 1 .. n |-> [c \in Chains |-> Extend(c, p[k])]]
  OBVIOUS
<1>2. \A k \in 1 .. n : \A c \in chains : step[k][c] = Extend(c, p[k]) /\ step[k][c] \in chains
  BY <1>1, PipelineStages, ExtendIsChain
<1>3. MakeBlueprint \in chains
  <2>1. CalcNode(<<"identity">>) \in Inner
    BY SingleNodes DEF Stages
  <2> QED BY <1>1, <2>1 DEF MakeBlueprint, Chains
<1>4. PICK g : Iterates(g, n, chains, MakeBlueprint, step)
  BY <1>2, <1>3, Iterated
<1>5. g \in [0 .. n -> Chains] /\ g[0] = MakeBlueprint /\ \A k \in 1 .. n : g[k] = step[k][g[k - 1]]
  BY <1>1, <1>4 DEF Iterates
<1>6. ASSUME NEW k \in 1 .. n
      PROVE  g[k] = Extend(g[k - 1], p[k])
  <2>1. g[k - 1] \in chains
    BY <1>1, <1>5
  <2> QED BY <1>2, <1>5, <2>1
<1>7. \A k \in 0 .. n : k # 0 => k \in 1 .. n
  OBVIOUS
<1> QED BY <1>5, <1>6, <1>7

Nodes == {EndNode} \cup Inner

(* The blueprint of a pipeline: the end, and before it a chain of nodes. *)
LEMMA BlueprintShape ==
  ASSUME NEW p \in Pipelines
  PROVE  /\ Blueprint(p) \in Seq(Nodes) /\ Len(Blueprint(p)) \in Nat /\ Len(Blueprint(p)) >= 2
         /\ \A i \in 2 .. Len(Blueprint(p)) : Blueprint(p)[i] \in Inner
<1>1. PICK n \in Nat : n = Len(p)
  BY PipelineStages
<1>2. PICK g \in [0 .. n -> Chains] :
        \A k \in 0 .. n : g[k] = IF k = 0 THEN MakeBlueprint ELSE Extend(g[k - 1], p[k])
  BY <1>1, PrefixComposed
<1>3. g = [k \in 0 .. Len(p) |-> IF k = 0 THEN MakeBlueprint ELSE Extend(g[k - 1], p[k])]
  BY <1>1, <1>2
<1> DEFINE composed[k \in 0 .. Len(p)] ==
             IF k = 0 THEN MakeBlueprint ELSE Extend(composed[k - 1], p[k])
<1>4. composed = [k \in 0 .. Len(p) |-> IF k = 0 THEN MakeBlueprint ELSE Extend(composed[k - 1], p[k])]
  BY <1>3
<1>5. Blueprint(p) = <<EndNode>> \o composed[Len(p)]
  BY DEF Blueprint
<1> HIDE DEF composed
<1>6. 0 .. n \subseteq {k \in 0 .. n : composed[k] = g[k]}
  <2>1. composed[0] = g[0]
    BY <1>1, <1>2, <1>4
  <2>2. ASSUME NEW k \in 1 .. n, composed[k - 1] = g[k - 1]
        PROVE  composed[k] = g[k]
    BY <1>1, <1>2, <1>4, <2>2
  <2>3. PICK same : same = {k \in 0 .. n : composed[k] = g[k]}
    OBVIOUS
  <2>4. 0 \in same /\ \A k \in 1 .. n : k - 1 \in same => k \in same
    BY <2>1, <2>2, <2>3
  <2> QED BY <2>3, <2>4, UpTo
<1>7. PICK c \in Chains : Blueprint(p) = <<EndNode>> \o c
  <2>1. n \in 0 .. n /\ composed[n] \in Chains
    BY <1>2, <1>6
  <2>2. Blueprint(p) = <<EndNode>> \o composed[n]
    BY <1>1, <1>5
  <2> QED BY <2>1, <2>2
<1>8. /\ c \in Seq(Inner) /\ Len(c) \in Nat /\ Len(c) >= 1 /\ c \in Seq(Nodes)
      /\ <<EndNode>> \in Seq(Nodes) /\ Len(<<EndNode>>) = 1
  BY DEF Chains, Nodes
<1>9. /\ <<EndNode>> \o c \in Seq(Nodes) /\ Len(<<EndNode>> \o c) = Len(c) + 1
      /\ \A i \in 2 .. Len(c) + 1 : (<<EndNode>> \o c)[i] = c[i - 1]
  BY <1>8
<1>10. \A i \in 2 .. Len(c) + 1 : c[i - 1] \in Inner
  BY <1>8
<1> QED BY <1>7, <1>8, <1>9, <1>10

-----------------------------------------------------------------------------
(* The runners *)

Controls == {i \in 1 .. Len(nodes) - 1 : nodes[i + 1].kind = "control"}

NodesOK ==
  /\ nodes \in Seq(Nodes) /\ Len(nodes) \in Nat /\ Len(nodes) >= 2
  /\ \A i \in 2 .. Len(nodes) : nodes[i] \in Inner

RunnerTypeOK ==
  /\ NodesOK
  /\ fast \in [Runs -> BOOLEAN] /\ starts \in [Runs -> Nat]
  /\ pc \in [Runs -> RunnerPlaces \cup {"store", "flag", "count"}] /\ val \in [Runs -> Results]
  /\ at \in [Runs -> 0 .. Len(nodes) - 1] /\ part \in [Runs -> Nat]
  /\ softSeen \in [Runs -> BOOLEAN]
  /\ frame \in [Runs -> 1 .. Len(nodes)]
  /\ inside \subseteq Runs \X Controls
  /\ held \subseteq Runs \X (0 .. Len(nodes))

OnItsWay(r) == pc[r] \in {"hard", "soft", "node", "queued"}
Works(r) == pc[r] \notin {"idle", "queued"}

(* Where a run can be. *)
PlacesOK(r) ==
  /\ OnItsWay(r) => at[r] >= 1 /\ frame[r] = Caller(at[r])
  /\ pc[r] \in {"hard", "soft", "queued"} => part[r] = 0
  /\ pc[r] = "node" /\ at[r] \in Controls => part[r] = 0
  /\ pc[r] = "queued" => at[r] \in Controls
  /\ pc[r] # "idle" => starts[r] >= 1

(* A value after a soft cancel was recovered in the node that got the cancel. *)
SoftInv(r) ==
  ~fast[r] /\ softSeen[r] /\ val[r] = "value" =>
    /\ pc[r] # "queued"
    /\ pc[r] = "node" =>
         \E i \in 1 .. part[r] : i \in DOMAIN Node(r).parts /\ Node(r).parts[i] = "recover"
    /\ pc[r] = "end" /\ at[r] = 0 => "recover" \in ToSet(nodes[2].parts)

(* Who holds the blueprint for run r. *)
Keeps(r) ==
  /\ Works(r) => <<r, frame[r]>> \in held
  /\ pc[r] = "queued" => <<r, QueuedTask>> \in held
  /\ starts[r] < MaxStarts[r] /\ (fast[r] => starts[r] = 0) => <<r, ProgramRunner>> \in held
  /\ ~fast[r] => \A i \in Controls : <<r, i>> \in inside => <<r, Caller(i)>> \in held

(* and that there is no other reason for it to be held. *)
OnlyKept(r) ==
  \A f \in 0 .. Len(nodes) : <<r, f>> \in held =>
    \/ f = ProgramRunner /\ starts[r] < MaxStarts[r]
    \/ f = QueuedTask /\ pc[r] = "queued"
    \/ f = frame[r] /\ Works(r)
    \/ \E i \in Controls : <<r, i>> \in inside /\ f = Caller(i)

(* The calls of p that have not returned are those of nodes the run has passed. *)
InsidePassed(r) ==
  \A i \in Controls : <<r, i>> \in inside =>
    /\ Works(r) => i >= frame[r]
    /\ pc[r] = "queued" => i >= at[r]

RunInv(r) == PlacesOK(r) /\ SoftInv(r) /\ Keeps(r) /\ OnlyKept(r) /\ InsidePassed(r)
RunnerInv == RunnerTypeOK /\ \A r \in Runs : RunInv(r)

(* The least element of a set, chosen. *)
LEMMA ChosenLeast ==
  ASSUME NEW S \in SUBSET Nat, S # {}, NEW c, c = CHOOSE j \in S : \A k \in S : j <= k
  PROVE  c \in S /\ \A k \in S : c <= k
<1>1. \E j \in S : \A k \in S : j <= k
  BY LeastNatural
<1> QED BY <1>1

(* The runner that calls p of a node is the one of the next control node up. *)
LEMMA CallerIsNext ==
  ASSUME NodesOK, NEW i \in 0 .. Len(nodes) - 1
  PROVE  /\ Caller(i) \in Controls \cup {Len(nodes)} /\ Caller(i) \in Nat /\ Caller(i) > i
         /\ \A j \in Controls : j > i => Caller(i) <= j
<1> DEFINE before == {j \in i + 1 .. Len(nodes) - 1 : nodes[j + 1].kind = "control"}
<1>1. /\ before \in SUBSET Nat /\ before \subseteq Controls
      /\ \A j \in Controls : j > i => j \in before
      /\ \A j \in before : j > i /\ j \in Nat
  BY DEF NodesOK, Controls
<1>2. Caller(i) = IF before = {} THEN Len(nodes) ELSE CHOOSE j \in before : \A k \in before : j <= k
  BY DEF Caller, ProgramRunner
<1>3. CASE before = {}
  BY <1>1, <1>2, <1>3 DEF NodesOK
<1>4. CASE before # {}
  <2>1. \E j \in before : \A k \in before : j <= k
    <3> HIDE DEF before
    <3> QED BY <1>1, <1>4, LeastNatural
  <2>2. Caller(i) \in before /\ \A k \in before : Caller(i) <= k
    <3> HIDE DEF before
    <3>1. PICK S \in SUBSET Nat : S = before /\ S # {}
      BY <1>1, <1>4
    <3>2. PICK c : c = Caller(i) /\ c = CHOOSE j \in S : \A k \in S : j <= k
      BY <1>2, <1>4, <3>1
    <3>3. c \in S /\ \A k \in S : c <= k
      BY <3>1, <3>2, ChosenLeast, Zenon
    <3> QED BY <3>1, <3>2, <3>3
  <2> HIDE DEF before
  <2> QED BY <1>1, <2>2
<1> QED BY <1>3, <1>4

(* Going on to the next node down. *)
LEMMA CallerSteps ==
  ASSUME NodesOK
  PROVE  /\ Caller(Len(nodes) - 1) = Len(nodes)
         /\ \A i \in 1 .. Len(nodes) - 1 :
              Caller(i - 1) = IF i \in Controls THEN i ELSE Caller(i)
         /\ \A i \in Controls, j \in Controls : Caller(i) = Caller(j) => i = j
<1>1. /\ Len(nodes) \in Nat /\ Len(nodes) >= 2 /\ Controls \subseteq 1 .. Len(nodes) - 1
      /\ \A i \in Controls : i \in 0 .. Len(nodes) - 1 /\ i \in Nat
  BY DEF NodesOK, Controls
<1>2. Caller(Len(nodes) - 1) = Len(nodes)
  <2>1. Len(nodes) - 1 \in 0 .. Len(nodes) - 1
    BY <1>1
  <2> QED BY <1>1, <2>1, CallerIsNext
<1>3. ASSUME NEW i \in 1 .. Len(nodes) - 1
      PROVE  Caller(i - 1) = IF i \in Controls THEN i ELSE Caller(i)
  <2>1. i - 1 \in 0 .. Len(nodes) - 1 /\ i \in 0 .. Len(nodes) - 1 /\ i > i - 1 /\ i < Len(nodes)
    BY <1>1
  <2>2. PICK a \in Nat : /\ a = Caller(i - 1) /\ a \in Controls \cup {Len(nodes)} /\ a > i - 1
                         /\ \A j \in Controls : j > i - 1 => a <= j
    BY <2>1, CallerIsNext
  <2>3. PICK b \in Nat : /\ b = Caller(i) /\ b \in Controls \cup {Len(nodes)} /\ b > i
                         /\ \A j \in Controls : j > i => b <= j
    BY <2>1, CallerIsNext
  <2>4. CASE i \in Controls
    BY <2>1, <2>2, <2>4
  <2>5. CASE i \notin Controls
    <3>1. a # i /\ a > i
      BY <2>1, <2>2, <2>5
    <3>2. b <= a
      BY <1>1, <2>2, <2>3, <3>1
    <3>3. a <= b
      BY <1>1, <2>1, <2>2, <2>3
    <3> QED BY <2>2, <2>3, <2>5, <3>2, <3>3
  <2> QED BY <2>4, <2>5
<1>4. ASSUME NEW i \in Controls, NEW j \in Controls, i < j
      PROVE  Caller(i) # Caller(j)
  <2>1. PICK a \in Nat : a = Caller(i) /\ a <= j
    BY <1>1, <1>4, CallerIsNext
  <2>2. PICK b \in Nat : b = Caller(j) /\ b > j
    BY <1>1, CallerIsNext
  <2> QED BY <1>1, <2>1, <2>2
<1>5. ASSUME NEW i \in Controls, NEW j \in Controls, Caller(i) = Caller(j)
      PROVE  i = j
  <2>1. i < j \/ j < i \/ i = j
    BY <1>1
  <2> QED BY <1>4, <1>5, <2>1
<1> QED BY <1>2, <1>3, <1>5

(* A step that changes nothing for a run keeps what is known of it. *)
LEMMA RunUntouched ==
  ASSUME NEW q \in Runs, RunInv(q), UNCHANGED <<nodes, fast>>,
         pc'[q] = pc[q], at'[q] = at[q], part'[q] = part[q], val'[q] = val[q],
         softSeen'[q] = softSeen[q], frame'[q] = frame[q], starts'[q] = starts[q],
         \A f : (<<q, f>> \in held' <=> <<q, f>> \in held) /\ (<<q, f>> \in inside' <=> <<q, f>> \in inside)
  PROVE  RunInv(q)'
<1>1. Controls' = Controls /\ \A i : Caller(i)' = Caller(i)
  BY DEF Controls, Caller, ProgramRunner
<1>2. /\ OnItsWay(q)' = OnItsWay(q) /\ Works(q)' = Works(q) /\ Node(q)' = Node(q)
      /\ ProgramRunner' = ProgramRunner
  BY DEF OnItsWay, Works, Node, ProgramRunner
<1>3. PlacesOK(q)' /\ SoftInv(q)'
  BY <1>1, <1>2 DEF RunInv, PlacesOK, SoftInv
<1>4. Keeps(q)' /\ OnlyKept(q)' /\ InsidePassed(q)'
  BY <1>1, <1>2 DEF RunInv, Keeps, OnlyKept, InsidePassed, QueuedTask
<1> QED BY <1>3, <1>4 DEF RunInv

-----------------------------------------------------------------------------
(* The steps of the runners *)

(* What is known of a run that is on its way. *)
LEMMA RunFacts ==
  ASSUME RunnerInv, NEW r \in Runs
  PROVE  /\ NodesOK /\ RunInv(r) /\ starts[r] \in Nat /\ fast[r] \in BOOLEAN
         /\ PlacesOK(r) /\ SoftInv(r) /\ Keeps(r) /\ OnlyKept(r) /\ InsidePassed(r)
         /\ at[r] \in 0 .. Len(nodes) - 1 /\ part[r] \in Nat /\ frame[r] \in 1 .. Len(nodes)
         /\ val[r] \in Results /\ MaxStarts[r] \in Nat \ {0} /\ Len(nodes) \in Nat /\ Len(nodes) >= 2
         /\ \A i \in 1 .. Len(nodes) - 1 : /\ nodes[i + 1].kind \in {"calc", "control"}
                                           /\ i \in Controls <=> nodes[i + 1].kind = "control"
         /\ Controls \subseteq 1 .. Len(nodes) - 1
<1>1. NodesOK /\ RunInv(r) /\ Len(nodes) \in Nat /\ Len(nodes) >= 2
  BY DEF RunnerInv, RunnerTypeOK, NodesOK
<1>2. /\ PlacesOK(r) /\ SoftInv(r) /\ Keeps(r) /\ OnlyKept(r) /\ InsidePassed(r)
      /\ MaxStarts[r] \in Nat \ {0}
  BY <1>1, FlowAssumption DEF RunInv
<1>3. /\ starts[r] \in Nat /\ fast[r] \in BOOLEAN
      /\ at[r] \in 0 .. Len(nodes) - 1 /\ part[r] \in Nat /\ frame[r] \in 1 .. Len(nodes)
      /\ val[r] \in Results
  BY DEF RunnerInv, RunnerTypeOK
<1>4. ASSUME NEW i \in 1 .. Len(nodes) - 1
      PROVE  /\ nodes[i + 1].kind \in {"calc", "control"}
             /\ i \in Controls <=> nodes[i + 1].kind = "control"
  <2>1. i + 1 \in 2 .. Len(nodes)
    BY <1>1
  <2> QED BY <1>1, <2>1 DEF NodesOK, Inner, Controls
<1> QED BY <1>1, <1>2, <1>3, <1>4 DEF Controls

(* The blueprint and the callers do not change. *)
LEMMA SameBlueprint ==
  ASSUME UNCHANGED nodes
  PROVE  /\ Controls' = Controls /\ \A i : Caller(i)' = Caller(i)
         /\ ProgramRunner' = ProgramRunner /\ (NodesOK => NodesOK')
  BY DEF Controls, Caller, ProgramRunner, NodesOK

(* A step that leaves the handles of the blueprint where they are, while the run
   stays with the same runner. *)
LEMMA HandlesStay ==
  ASSUME RunnerInv, NEW r \in Runs, UNCHANGED <<nodes, fast, starts, held, inside>>,
         frame'[r] = frame[r], Works(r), Works(r)'
  PROVE  Keeps(r)' /\ OnlyKept(r)' /\ InsidePassed(r)'
<1>1. pc'[r] # "queued"
  BY DEF Works
<1>2. pc[r] \notin {"idle", "queued"}
  BY DEF Works
<1>3. /\ Controls' = Controls /\ \A i : Caller(i)' = Caller(i)
      /\ ProgramRunner' = ProgramRunner /\ QueuedTask' = QueuedTask
  BY SameBlueprint DEF QueuedTask
<1>4. Keeps(r) /\ OnlyKept(r) /\ InsidePassed(r)
  BY RunFacts
<1>5. Keeps(r)'
  BY <1>1, <1>3, <1>4 DEF Keeps
<1>6. OnlyKept(r)'
  BY <1>2, <1>3, <1>4 DEF OnlyKept
<1>7. InsidePassed(r)'
  BY <1>1, <1>3, <1>4 DEF InsidePassed
<1> QED BY <1>5, <1>6, <1>7

(* The next node down, with the same runner. *)
LEMMA NextNodePlace ==
  ASSUME RunnerInv, NEW r \in Runs, UNCHANGED <<nodes, fast, starts>>, pc[r] = "node",
         at[r] \notin Controls, at'[r] = at[r] - 1, part'[r] = 0, frame'[r] = frame[r],
         pc'[r] = Entry(r, at[r] - 1)
  PROVE  PlacesOK(r)' /\ at'[r] \in 0 .. Len(nodes) - 1 /\ Works(r)' /\ pc'[r] \in RunnerPlaces
<1>1. at[r] \in 1 .. Len(nodes) - 1 /\ frame[r] = Caller(at[r]) /\ starts[r] >= 1
  BY RunFacts DEF PlacesOK, OnItsWay
<1>2. Caller(at[r] - 1) = frame[r]
  BY <1>1, RunFacts, CallerSteps
<1>3. pc'[r] \in {"end", "node", "hard"} /\ (pc'[r] # "end" => at[r] - 1 # 0)
  BY DEF Entry
<1>4. at[r] - 1 \in 0 .. Len(nodes) - 1 /\ (at[r] - 1 # 0 => at[r] - 1 >= 1)
  BY <1>1, RunFacts
<1> QED BY <1>1, <1>2, <1>3, <1>4, SameBlueprint DEF PlacesOK, OnItsWay, Works, RunnerPlaces

(* The first test of the controller. *)
LEMMA CheckHardRuns ==
  ASSUME RunnerInv, NEW r \in Runs, CheckHard(r)
  PROVE  RunnerInv'
<1>1. /\ UNCHANGED <<nodes, fast, starts, part, softSeen, frame, held, inside>>
      /\ pc[r] = "hard"
      /\ \/ at' = [at EXCEPT ![r] = 0] /\ val' = [val EXCEPT ![r] = "hard"]
            /\ pc' = [pc EXCEPT ![r] = "end"]
         \/ pc' = [pc EXCEPT ![r] = "soft"] /\ UNCHANGED <<at, val>>
  BY DEF CheckHard, ownership
<1>2. RunnerTypeOK'
  <2>1. NodesOK' /\ Controls' = Controls
    BY <1>1, SameBlueprint DEF RunnerInv, RunnerTypeOK
  <2>2. 0 \in 0 .. Len(nodes) - 1
    BY DEF RunnerInv, RunnerTypeOK, NodesOK
  <2>3. /\ pc' \in [Runs -> RunnerPlaces \cup {"store", "flag", "count"}] /\ val' \in [Runs -> Results]
        /\ at' \in [Runs -> 0 .. Len(nodes) - 1]
    <3>1. /\ pc \in [Runs -> RunnerPlaces \cup {"store", "flag", "count"}] /\ val \in [Runs -> Results]
          /\ at \in [Runs -> 0 .. Len(nodes) - 1]
          /\ "hard" \in Results /\ "end" \in RunnerPlaces /\ "soft" \in RunnerPlaces
      BY DEF RunnerInv, RunnerTypeOK, RunnerPlaces, Results
    <3>2. CASE pc' = [pc EXCEPT ![r] = "soft"] /\ UNCHANGED <<at, val>>
      BY <3>1, <3>2
    <3>3. CASE /\ at' = [at EXCEPT ![r] = 0] /\ val' = [val EXCEPT ![r] = "hard"]
               /\ pc' = [pc EXCEPT ![r] = "end"]
      BY <2>2, <3>1, <3>3
    <3> QED BY <1>1, <3>2, <3>3
  <2> QED BY <1>1, <2>1, <2>3 DEF RunnerInv, RunnerTypeOK
<1>3. ASSUME NEW q \in Runs \ {r}
      PROVE  RunInv(q)'
  BY <1>1, RunUntouched DEF RunnerInv, RunnerTypeOK
<1>4. Works(r) /\ Works(r)' /\ frame'[r] = frame[r]
  BY <1>1 DEF Works, RunnerInv, RunnerTypeOK
<1>5. Keeps(r)' /\ OnlyKept(r)' /\ InsidePassed(r)'
  BY <1>1, <1>4, HandlesStay
<1>6. PlacesOK(r)' /\ SoftInv(r)'
  <2>1. CASE pc'[r] = "end"
    <3>1. val'[r] = "hard"
      BY <1>1, <2>1 DEF RunnerInv, RunnerTypeOK
    <3> QED BY <1>1, <2>1, <3>1, RunFacts DEF PlacesOK, SoftInv, OnItsWay
  <2>2. CASE pc'[r] = "soft" /\ at'[r] = at[r]
    <3>1. PlacesOK(r)'
      BY <1>1, <2>2, RunFacts, SameBlueprint DEF PlacesOK, OnItsWay
    <3> QED BY <2>2, <3>1 DEF SoftInv
  <2> QED BY <1>1, <2>1, <2>2 DEF RunnerInv, RunnerTypeOK
<1>7. RunInv(r)'
  BY <1>5, <1>6 DEF RunInv
<1> QED BY <1>2, <1>3, <1>7 DEF RunnerInv

(* The second one. *)
LEMMA CheckSoftRuns ==
  ASSUME RunnerInv, NEW r \in Runs, CheckSoft(r)
  PROVE  RunnerInv'
<1>1. /\ UNCHANGED <<nodes, fast, starts, at, part, frame, held, inside>>
      /\ pc[r] = "soft" /\ pc' = [pc EXCEPT ![r] = "node"]
      /\ \/ val' = [val EXCEPT ![r] = "soft"]
         \/ val' = val /\ softSeen' = [softSeen EXCEPT ![r] = FALSE]
      /\ softSeen' = [softSeen EXCEPT ![r] = cancel = "soft"]
  BY DEF CheckSoft, ownership, RunnerInv, RunnerTypeOK
<1>2. RunnerTypeOK'
  BY <1>1, SameBlueprint DEF RunnerInv, RunnerTypeOK, NodesOK, RunnerPlaces, Results
<1>3. ASSUME NEW q \in Runs \ {r}
      PROVE  RunInv(q)'
  BY <1>1, RunUntouched DEF RunnerInv, RunnerTypeOK
<1>4. Works(r) /\ Works(r)' /\ frame'[r] = frame[r] /\ pc'[r] = "node"
  BY <1>1 DEF Works, RunnerInv, RunnerTypeOK
<1>5. Keeps(r)' /\ OnlyKept(r)' /\ InsidePassed(r)'
  BY <1>1, <1>4, HandlesStay
<1>6. PlacesOK(r)'
  BY <1>1, <1>4, RunFacts, SameBlueprint DEF PlacesOK, OnItsWay
<1>7. SoftInv(r)'
  <2>1. val'[r] # "value" \/ ~softSeen'[r]
    BY <1>1 DEF RunnerInv, RunnerTypeOK
  <2> QED BY <2>1 DEF SoftInv
<1>8. RunInv(r)'
  BY <1>5, <1>6, <1>7 DEF RunInv
<1> QED BY <1>2, <1>3, <1>8 DEF RunnerInv

(* A stage of a calc node. *)
LEMMA RunStageRuns ==
  ASSUME RunnerInv, NEW r \in Runs, RunStage(r)
  PROVE  RunnerInv'
<1>1. PICK v \in Effect(Node(r).parts[part[r] + 1], val[r]) : val' = [val EXCEPT ![r] = v]
  BY DEF RunStage
<1>2. /\ UNCHANGED <<nodes, fast, starts, softSeen, frame, held, inside>>
      /\ pc[r] = "node" /\ Node(r).kind = "calc"
      /\ \/ part[r] + 1 = Len(Node(r).parts) /\ Onward(r)
         \/ /\ part[r] + 1 < Len(Node(r).parts)
            /\ part' = [part EXCEPT ![r] = part[r] + 1] /\ UNCHANGED <<at, pc>>
  BY DEF RunStage, ownership
<1>3. at[r] \in 1 .. Len(nodes) - 1 /\ at[r] \notin Controls /\ part[r] \in Nat
  BY <1>2, RunFacts DEF PlacesOK, OnItsWay, Node
<1>4. /\ DOMAIN Node(r).parts = 1 .. Len(Node(r).parts) /\ Len(Node(r).parts) \in Nat
      /\ part[r] + 1 \in DOMAIN Node(r).parts
  <2>1. nodes[at[r] + 1] \in Inner
    <3>1. at[r] + 1 \in 2 .. Len(nodes)
      BY <1>3, RunFacts
    <3> QED BY <3>1, RunFacts DEF NodesOK
  <2>2. Node(r).parts \in Seq(Stages)
    BY <2>1 DEF Node, Inner
  <2> QED BY <1>2, <1>3, <2>2
<1>5. v \in Results /\ (v = "value" => val[r] = "value" \/ Node(r).parts[part[r] + 1] = "recover")
  BY <1>1, RunFacts DEF Effect, Results
<1>6. ASSUME ~fast[r], softSeen[r], v = "value"
      PROVE  \E i \in 1 .. part[r] + 1 : i \in DOMAIN Node(r).parts /\ Node(r).parts[i] = "recover"
  <2>1. CASE val[r] = "value"
    <3>1. \E i \in 1 .. part[r] : i \in DOMAIN Node(r).parts /\ Node(r).parts[i] = "recover"
      BY <1>2, <1>6, <2>1, RunFacts DEF SoftInv
    <3> QED BY <1>3, <3>1
  <2>2. CASE Node(r).parts[part[r] + 1] = "recover"
    BY <1>3, <1>4, <2>2
  <2> QED BY <1>5, <1>6, <2>1, <2>2
<1>7. ASSUME NEW q \in Runs \ {r}, UNCHANGED <<pc, at>> \/ Onward(r),
             Onward(r) \/ part' = [part EXCEPT ![r] = part[r] + 1]
      PROVE  RunInv(q)'
  <2>1. pc'[q] = pc[q] /\ at'[q] = at[q] /\ part'[q] = part[q] /\ val'[q] = val[q]
    BY <1>1, <1>7 DEF Onward, RunnerInv, RunnerTypeOK
  <2> QED BY <1>2, <2>1, RunUntouched DEF RunnerInv
<1>8. CASE Onward(r) /\ part[r] + 1 = Len(Node(r).parts)
  <2>1. /\ at' = [at EXCEPT ![r] = at[r] - 1] /\ part' = [part EXCEPT ![r] = 0]
        /\ pc' = [pc EXCEPT ![r] = Entry(r, at[r] - 1)]
        /\ at'[r] = at[r] - 1 /\ part'[r] = 0 /\ pc'[r] = Entry(r, at[r] - 1)
        /\ frame'[r] = frame[r] /\ val'[r] = v
    BY <1>1, <1>2, <1>8 DEF Onward, RunnerInv, RunnerTypeOK
  <2>2. /\ PlacesOK(r)' /\ at[r] - 1 \in 0 .. Len(nodes) - 1 /\ Works(r)'
        /\ Entry(r, at[r] - 1) \in RunnerPlaces
    BY <1>2, <1>3, <2>1, NextNodePlace
  <2>3. RunnerTypeOK'
    BY <1>1, <1>2, <1>5, <2>1, <2>2, SameBlueprint DEF RunnerInv, RunnerTypeOK, NodesOK
  <2>4. Keeps(r)' /\ OnlyKept(r)' /\ InsidePassed(r)'
    BY <1>2, <2>1, <2>2, HandlesStay DEF Works
  <2>5. SoftInv(r)'
    <3> SUFFICES ASSUME ~fast[r], softSeen[r], v = "value"
                 PROVE  /\ pc'[r] # "queued" /\ pc'[r] # "node"
                        /\ at'[r] = 0 => "recover" \in ToSet(nodes[2].parts)
      BY <1>2, <2>1 DEF SoftInv
    <3>1. pc'[r] \in {"end", "hard"}
      BY <2>1 DEF Entry
    <3>2. ASSUME at'[r] = 0
          PROVE  "recover" \in ToSet(nodes[2].parts)
      <4>1. Node(r) = nodes[2]
        BY <1>3, <2>1, <3>2 DEF Node
      <4> QED BY <1>6, <4>1 DEF ToSet
    <3> QED BY <3>1, <3>2
  <2> QED BY <1>7, <1>8, <2>2, <2>3, <2>4, <2>5 DEF RunnerInv, RunInv
<1>9. CASE part' = [part EXCEPT ![r] = part[r] + 1] /\ UNCHANGED <<at, pc>>
  <2>1. part'[r] = part[r] + 1 /\ val'[r] = v /\ Node(r)' = Node(r)
    BY <1>1, <1>2, <1>9 DEF RunnerInv, RunnerTypeOK, Node
  <2>2. RunnerTypeOK'
    BY <1>1, <1>2, <1>5, <1>9, SameBlueprint DEF RunnerInv, RunnerTypeOK, NodesOK
  <2>3. Keeps(r)' /\ OnlyKept(r)' /\ InsidePassed(r)'
    BY <1>2, <1>9, HandlesStay DEF Works
  <2>4. PlacesOK(r)'
    BY <1>2, <1>3, <1>9, <2>1, RunFacts, SameBlueprint DEF PlacesOK, OnItsWay
  <2>5. SoftInv(r)'
    BY <1>2, <1>6, <1>9, <2>1 DEF SoftInv
  <2> QED BY <1>7, <1>9, <2>2, <2>3, <2>4, <2>5 DEF RunnerInv, RunInv
<1> QED BY <1>2, <1>8, <1>9

(* p of a control node is called: the task is queued, and has a handle. *)
LEMMA HopRuns ==
  ASSUME RunnerInv, NEW r \in Runs, Hop(r)
  PROVE  RunnerInv'
<1>1. /\ UNCHANGED <<nodes, fast, starts, at, part, val, softSeen, frame>>
      /\ pc[r] = "node" /\ Node(r).kind = "control" /\ pc' = [pc EXCEPT ![r] = "queued"]
      /\ inside' = inside \cup {<<r, at[r]>>}
      /\ held' = (held \ (IF fast[r] THEN {<<r, frame[r]>>} ELSE {})) \cup {<<r, QueuedTask>>}
  BY DEF Hop
<1>2. /\ at[r] \in Controls /\ at[r] \in 1 .. Len(nodes) - 1 /\ frame[r] = Caller(at[r])
      /\ starts[r] >= 1 /\ part[r] = 0 /\ pc'[r] = "queued" /\ frame[r] > at[r]
  <2>1. at[r] \in 1 .. Len(nodes) - 1 /\ frame[r] = Caller(at[r]) /\ starts[r] >= 1
    BY <1>1, RunFacts DEF PlacesOK, OnItsWay
  <2>2. at[r] \in Controls /\ part[r] = 0
    BY <1>1, <2>1, RunFacts DEF PlacesOK, Node, Controls
  <2>3. Caller(at[r]) > at[r]
    BY RunFacts, CallerIsNext
  <2> QED BY <1>1, <2>1, <2>2, <2>3 DEF RunnerInv, RunnerTypeOK
<1>3. /\ Controls' = Controls /\ \A i : Caller(i)' = Caller(i)
      /\ ProgramRunner' = ProgramRunner /\ NodesOK' /\ ProgramRunner = Len(nodes) /\ QueuedTask = 0
  BY <1>1, SameBlueprint, RunFacts DEF QueuedTask, ProgramRunner
<1>4. RunnerTypeOK'
  <2>1. inside' \subseteq Runs \X Controls
    BY <1>1, <1>2 DEF RunnerInv, RunnerTypeOK
  <2>2. held' \subseteq Runs \X (0 .. Len(nodes))
    <3>1. held \subseteq Runs \X (0 .. Len(nodes)) /\ 0 \in 0 .. Len(nodes)
      BY DEF RunnerInv, RunnerTypeOK, NodesOK
    <3>2. <<r, QueuedTask>> \in Runs \X (0 .. Len(nodes))
      BY <1>3, <3>1
    <3> QED BY <1>1, <3>1, <3>2
  <2> QED BY <1>1, <1>3, <2>1, <2>2 DEF RunnerInv, RunnerTypeOK, RunnerPlaces
<1>5. ASSUME NEW q \in Runs \ {r}
      PROVE  RunInv(q)'
  <2>1. \A f : (<<q, f>> \in held' <=> <<q, f>> \in held) /\ (<<q, f>> \in inside' <=> <<q, f>> \in inside)
    BY <1>1
  <2>2. pc'[q] = pc[q]
    BY <1>1 DEF RunnerInv, RunnerTypeOK
  <2> QED BY <1>1, <2>1, <2>2, RunUntouched DEF RunnerInv
<1>6. PlacesOK(r)'
  BY <1>1, <1>2, <1>3 DEF PlacesOK, OnItsWay
<1>7. SoftInv(r)'
  <2>1. ~(~fast[r] /\ softSeen[r] /\ val[r] = "value")
    BY <1>1, <1>2, RunFacts DEF SoftInv
  <2> QED BY <1>1, <2>1 DEF SoftInv
<1>8. Keeps(r)'
  <2>1. Keeps(r) /\ Works(r) /\ <<r, frame[r]>> \in held
    BY <1>1, RunFacts DEF Keeps, Works
  <2>2. \A f : <<r, f>> \in held /\ (fast[r] => f # frame[r]) => <<r, f>> \in held'
    BY <1>1
  <2>3. ASSUME ~fast[r], NEW i \in Controls, <<r, i>> \in inside'
        PROVE  <<r, Caller(i)>> \in held'
    BY <1>1, <1>2, <2>1, <2>2, <2>3 DEF Keeps
  <2>4. fast[r] => starts[r] # 0
    BY <1>2
  <2>5. starts[r] < MaxStarts[r] /\ (fast[r] => starts[r] = 0) => <<r, ProgramRunner>> \in held'
    BY <2>1, <2>2, <2>4 DEF Keeps
  <2> QED BY <1>1, <1>2, <1>3, <2>3, <2>5 DEF Keeps, Works
<1>9. OnlyKept(r)'
  <2>1. ASSUME NEW f \in 0 .. Len(nodes), <<r, f>> \in held', f # QueuedTask
        PROVE  \/ f = ProgramRunner /\ starts[r] < MaxStarts[r]
               \/ \E i \in Controls : <<r, i>> \in inside' /\ f = Caller(i)
    <3>1. <<r, f>> \in held
      BY <1>1, <2>1
    <3>2. \/ f = ProgramRunner /\ starts[r] < MaxStarts[r]
          \/ f = frame[r]
          \/ \E i \in Controls : <<r, i>> \in inside /\ f = Caller(i)
      BY <2>1, <3>1, RunFacts DEF OnlyKept
    <3> QED BY <1>1, <1>2, <3>2
  <2> QED BY <1>1, <1>2, <1>3, <2>1 DEF OnlyKept
<1>10. InsidePassed(r)'
  <2>1. \A i \in Controls : <<r, i>> \in inside => i >= frame[r]
    BY <1>1, RunFacts DEF InsidePassed, Works
  <2>2. \A i \in Controls : <<r, i>> \in inside => i >= at[r]
    <3>1. ASSUME NEW i \in Controls, <<r, i>> \in inside
          PROVE  i >= at[r]
      <4>1. PICK x \in Nat, y \in Nat : x = frame[r] /\ y = at[r] /\ x > y
        BY <1>2, RunFacts
      <4>2. i \in Nat /\ i >= x
        BY <2>1, <3>1, <4>1, RunFacts
      <4> QED BY <4>1, <4>2
    <3> QED BY <3>1
  <2>3. \A i \in Controls : <<r, i>> \in inside' => i >= at[r]
    BY <1>1, <1>2, <2>2
  <2> QED BY <1>1, <1>2, <1>3, <2>3 DEF InsidePassed, Works
<1> QED BY <1>4, <1>5, <1>6, <1>7, <1>8, <1>9, <1>10 DEF RunnerInv, RunInv

(* The task runs in a runner of its own, which takes over its handle. *)
LEMMA TaskIsRun ==
  ASSUME RunnerInv, NEW r \in Runs, TaskRuns(r)
  PROVE  RunnerInv'
<1> DEFINE a == at[r]
<1>1. /\ UNCHANGED <<nodes, fast, starts, val, softSeen, inside>>
      /\ pc[r] = "queued" /\ pc' = [pc EXCEPT ![r] = Entry(r, a - 1)]
      /\ at' = [at EXCEPT ![r] = a - 1] /\ part' = [part EXCEPT ![r] = 0]
      /\ frame' = [frame EXCEPT ![r] = a]
      /\ held' = (held \ {<<r, QueuedTask>>}) \cup {<<r, a>>}
  BY DEF TaskRuns, Onward, RunnerInv, RunnerTypeOK
<1>2. /\ a \in Controls /\ a \in 1 .. Len(nodes) - 1 /\ starts[r] >= 1 /\ a - 1 \in 0 .. Len(nodes) - 1
      /\ Caller(a - 1) = a
  <2>1. a \in Controls /\ a \in 1 .. Len(nodes) - 1 /\ starts[r] >= 1
    BY <1>1, RunFacts DEF PlacesOK, OnItsWay
  <2>2. a - 1 \in 0 .. Len(nodes) - 1
    BY <2>1, RunFacts
  <2> QED BY <2>1, <2>2, RunFacts, CallerSteps
<1>3. /\ Controls' = Controls /\ \A i : Caller(i)' = Caller(i)
      /\ ProgramRunner' = ProgramRunner /\ NodesOK' /\ ProgramRunner = Len(nodes) /\ QueuedTask = 0
      /\ QueuedTask' = 0
  BY <1>1, SameBlueprint, RunFacts DEF QueuedTask, ProgramRunner
<1>p. /\ pc'[r] = Entry(r, a - 1) /\ pc'[r] \in {"end", "node", "hard"} /\ (pc'[r] # "end" => a - 1 >= 1)
      /\ at'[r] = a - 1 /\ part'[r] = 0 /\ frame'[r] = a /\ (pc'[r] = "node" => fast[r])
  <2>1. Entry(r, a - 1) \in {"end", "node", "hard"}
    BY DEF Entry
  <2>2. /\ Entry(r, a - 1) # "end" => a - 1 # 0
        /\ Entry(r, a - 1) = "node" => fast[r]
    BY DEF Entry
  <2>3. /\ pc'[r] = Entry(r, a - 1) /\ at'[r] = a - 1 /\ part'[r] = 0 /\ frame'[r] = a
    BY <1>1 DEF RunnerInv, RunnerTypeOK
  <2> QED BY <1>2, <2>1, <2>2, <2>3
<1> HIDE DEF a
<1>4. RunnerTypeOK'
  <2>1. Entry(r, a - 1) \in RunnerPlaces
    BY <1>p DEF RunnerPlaces
  <2>2. held' \subseteq Runs \X (0 .. Len(nodes))
    BY <1>1, <1>2 DEF RunnerInv, RunnerTypeOK
  <2>3. a \in 1 .. Len(nodes)
    BY <1>2
  <2> QED BY <1>1, <1>2, <1>3, <2>1, <2>2, <2>3 DEF RunnerInv, RunnerTypeOK
<1>5. ASSUME NEW q \in Runs \ {r}
      PROVE  RunInv(q)'
  <2>1. \A f : (<<q, f>> \in held' <=> <<q, f>> \in held) /\ (<<q, f>> \in inside' <=> <<q, f>> \in inside)
    BY <1>1
  <2>2. pc'[q] = pc[q] /\ at'[q] = at[q] /\ part'[q] = part[q] /\ frame'[q] = frame[q]
    BY <1>1 DEF RunnerInv, RunnerTypeOK
  <2> QED BY <1>1, <2>1, <2>2, RunUntouched DEF RunnerInv
<1>6. PlacesOK(r)'
  BY <1>1, <1>2, <1>3, <1>p DEF PlacesOK, OnItsWay
<1>7. SoftInv(r)'
  <2>1. ~(~fast[r] /\ softSeen[r] /\ val[r] = "value")
    BY <1>1, RunFacts DEF SoftInv
  <2> QED BY <1>1, <2>1 DEF SoftInv
<1>8. Keeps(r)'
  <2>1. \A f : <<r, f>> \in held /\ f # 0 => <<r, f>> \in held'
    BY <1>1, <1>3
  <2>2. <<r, a>> \in held' /\ Works(r)'
    BY <1>1, <1>p DEF Works
  <2>3. \A i \in Controls : Caller(i) # 0
    <3>1. \A i \in Controls : i \in 0 .. Len(nodes) - 1
      BY RunFacts
    <3> QED BY <3>1, RunFacts, CallerIsNext
  <2>4. ProgramRunner # 0
    BY <1>3, RunFacts
  <2>5. Keeps(r)
    BY RunFacts
  <2> QED BY <1>1, <1>3, <1>p, <2>1, <2>2, <2>3, <2>4, <2>5 DEF Keeps
<1>9. OnlyKept(r)'
  <2>1. ASSUME NEW f \in 0 .. Len(nodes), <<r, f>> \in held', f # a
        PROVE  \/ f = ProgramRunner /\ starts[r] < MaxStarts[r]
               \/ \E i \in Controls : <<r, i>> \in inside /\ f = Caller(i)
    <3>1. <<r, f>> \in held /\ f # QueuedTask
      BY <1>1, <2>1
    <3> QED BY <1>1, <2>1, <3>1, RunFacts DEF OnlyKept, Works
  <2>2. Works(r)'
    BY <1>p DEF Works
  <2> QED BY <1>1, <1>3, <1>p, <2>1, <2>2 DEF OnlyKept
<1>10. InsidePassed(r)'
  <2>1. \A i \in Controls : <<r, i>> \in inside => i >= a
    BY <1>1, RunFacts DEF InsidePassed, a
  <2>2. pc'[r] # "queued"
    BY <1>p
  <2> QED BY <1>1, <1>3, <1>p, <2>1, <2>2 DEF InsidePassed
<1> QED BY <1>4, <1>5, <1>6, <1>7, <1>8, <1>9, <1>10 DEF RunnerInv, RunInv

(* p returns, and the runner that has called it may be gone with that. *)
LEMMA ReturnRuns ==
  ASSUME RunnerInv, NEW r \in Runs, Return(r)
  PROVE  RunnerInv'
<1>1. PICK i \in DOMAIN nodes :
        /\ <<r, i>> \in inside /\ inside' = inside \ {<<r, i>>} /\ held' = held \ Dropped(r, Caller(i))
  BY DEF Return
<1>2. UNCHANGED <<nodes, fast, starts, at, part, val, softSeen, frame, pc>>
  BY DEF Return
<1>3. i \in Controls /\ i \in 1 .. Len(nodes) - 1 /\ i \in 0 .. Len(nodes) - 1
  <2>1. i \in Controls
    BY <1>1 DEF RunnerInv, RunnerTypeOK
  <2>2. i \in 1 .. Len(nodes) - 1
    BY <2>1, RunFacts
  <2> QED BY <2>1, <2>2
<1>4. /\ Controls' = Controls /\ \A j : Caller(j)' = Caller(j)
      /\ ProgramRunner' = ProgramRunner /\ NodesOK' /\ ProgramRunner = Len(nodes) /\ QueuedTask = 0
      /\ QueuedTask' = 0
  BY <1>2, SameBlueprint, RunFacts DEF QueuedTask, ProgramRunner
<1>5. /\ Caller(i) \in Nat /\ Caller(i) > i
      /\ \A j \in Controls : Caller(i) = Caller(j) => i = j
  BY <1>3, RunFacts, CallerIsNext, CallerSteps
<1>6. /\ \A f : <<r, f>> \in held /\ f # Caller(i) => <<r, f>> \in held'
      /\ \A f : <<r, f>> \in held /\ f = ProgramRunner /\ starts[r] < MaxStarts[r] => <<r, f>> \in held'
      /\ \A f : <<r, f>> \in held' => <<r, f>> \in held
      /\ <<r, Caller(i)>> \in held' => Caller(i) = ProgramRunner /\ starts[r] < MaxStarts[r]
      /\ \A q \in Runs \ {r} : \A f : <<q, f>> \in held' <=> <<q, f>> \in held
  BY <1>1 DEF Dropped
<1>7. RunnerTypeOK'
  BY <1>1, <1>2, <1>4 DEF RunnerInv, RunnerTypeOK
<1>8. ASSUME NEW q \in Runs \ {r}
      PROVE  RunInv(q)'
  <2>1. \A f : <<q, f>> \in inside' <=> <<q, f>> \in inside
    BY <1>1
  <2> QED BY <1>2, <1>6, <2>1, RunUntouched DEF RunnerInv
<1>9. PlacesOK(r)' /\ SoftInv(r)'
  BY <1>2, <1>4, RunFacts DEF PlacesOK, SoftInv, OnItsWay, Node
<1>10. Keeps(r)'
  <2>1. Works(r) => frame[r] # Caller(i)
    <3> SUFFICES ASSUME Works(r) PROVE frame[r] # Caller(i)
      OBVIOUS
    <3>1. PICK x \in Nat, y \in Nat : x = i /\ y = Caller(i) /\ y > x
      BY <1>3, <1>5
    <3>2. x >= frame[r] /\ frame[r] \in Nat
      BY <1>1, <1>3, <3>1, RunFacts DEF InsidePassed
    <3> QED BY <3>1, <3>2
  <2>2. Keeps(r) /\ Works(r)' = Works(r)
    BY <1>2, RunFacts DEF Works
  <2>3. Caller(i) # 0
    BY <1>3, <1>5
  <2>4. ASSUME ~fast[r], NEW j \in Controls, <<r, j>> \in inside'
        PROVE  <<r, Caller(j)>> \in held'
    <3>1. <<r, j>> \in inside /\ j # i
      BY <1>1, <2>4
    <3>2. Caller(j) # Caller(i)
      BY <1>5, <3>1
    <3> QED BY <1>6, <2>2, <2>4, <3>1, <3>2 DEF Keeps
  <2>5. Works(r) => <<r, frame[r]>> \in held'
    BY <1>6, <2>1, <2>2 DEF Keeps
  <2>6. pc[r] = "queued" => <<r, 0>> \in held'
    BY <1>4, <1>6, <2>2, <2>3 DEF Keeps
  <2>7. starts[r] < MaxStarts[r] /\ (fast[r] => starts[r] = 0) => <<r, ProgramRunner>> \in held'
    BY <1>6, <2>2 DEF Keeps
  <2> QED BY <1>2, <1>4, <2>2, <2>4, <2>5, <2>6, <2>7 DEF Keeps
<1>11. OnlyKept(r)'
  <2>1. ASSUME NEW f \in 0 .. Len(nodes), <<r, f>> \in held',
               ~(f = ProgramRunner /\ starts[r] < MaxStarts[r]), ~(f = QueuedTask /\ pc[r] = "queued"),
               ~(f = frame[r] /\ Works(r))
        PROVE  \E j \in Controls : <<r, j>> \in inside' /\ f = Caller(j)
    <3>1. PICK j \in Controls : <<r, j>> \in inside /\ f = Caller(j)
      BY <1>6, <2>1, RunFacts DEF OnlyKept
    <3>2. j # i
      BY <1>6, <2>1, <3>1
    <3> QED BY <1>1, <3>1, <3>2
  <2>2. Works(r)' = Works(r)
    BY <1>2 DEF Works
  <2> QED BY <1>2, <1>4, <2>1, <2>2 DEF OnlyKept, QueuedTask
<1>12. InsidePassed(r)'
  BY <1>1, <1>2, <1>4, RunFacts DEF InsidePassed, Works
<1> QED BY <1>7, <1>8, <1>9, <1>10, <1>11, <1>12 DEF RunnerInv, RunInv

(* operator() of a runner. *)
LEMMA StartRuns ==
  ASSUME RunnerInv, NEW r \in Runs, Start(r)
  PROVE  RunnerInv'
<1> DEFINE top == Len(nodes) - 1
<1>1. /\ UNCHANGED <<nodes, fast, softSeen, held, inside>>
      /\ pc[r] = "idle" /\ pc' = [pc EXCEPT ![r] = Entry(r, top)]
      /\ starts[r] < MaxStarts[r] /\ (fast[r] => starts[r] = 0)
      /\ \A i \in DOMAIN nodes : <<r, i>> \notin inside
      /\ starts' = [starts EXCEPT ![r] = starts[r] + 1]
      /\ at' = [at EXCEPT ![r] = top] /\ part' = [part EXCEPT ![r] = 0]
      /\ val' = [val EXCEPT ![r] = "value"] /\ frame' = [frame EXCEPT ![r] = ProgramRunner]
  BY DEF Start, RunnerInv, RunnerTypeOK
<1>2. /\ top \in 1 .. Len(nodes) - 1 /\ top \in 0 .. Len(nodes) - 1 /\ top >= 1 /\ Caller(top) = Len(nodes)
      /\ \A i \in Controls : <<r, i>> \notin inside
  <2>1. Controls \subseteq DOMAIN nodes
    BY RunFacts DEF NodesOK
  <2> QED BY <1>1, <2>1, RunFacts, CallerSteps
<1>3. /\ Controls' = Controls /\ \A i : Caller(i)' = Caller(i)
      /\ ProgramRunner' = ProgramRunner /\ NodesOK' /\ ProgramRunner = Len(nodes) /\ QueuedTask = 0
  BY <1>1, SameBlueprint, RunFacts DEF QueuedTask, ProgramRunner
<1> HIDE DEF top
<1>4. Entry(r, top) \in {"node", "hard"} /\ (Entry(r, top) = "node" => fast[r])
  BY <1>2 DEF Entry
<1>5. /\ pc'[r] = Entry(r, top) /\ at'[r] = top /\ part'[r] = 0 /\ frame'[r] = Len(nodes)
      /\ starts'[r] = starts[r] + 1 /\ Works(r)' /\ starts[r] \in Nat
  BY <1>1, <1>3, <1>4 DEF RunnerInv, RunnerTypeOK, Works
<1>6. RunnerTypeOK'
  <2>1. Entry(r, top) \in RunnerPlaces /\ "value" \in Results /\ Len(nodes) \in 1 .. Len(nodes)
    BY <1>4, RunFacts DEF RunnerPlaces, Results
  <2> QED BY <1>1, <1>2, <1>3, <1>5, <2>1 DEF RunnerInv, RunnerTypeOK
<1>7. ASSUME NEW q \in Runs \ {r}
      PROVE  RunInv(q)'
  <2>1. /\ pc'[q] = pc[q] /\ at'[q] = at[q] /\ part'[q] = part[q] /\ frame'[q] = frame[q]
        /\ starts'[q] = starts[q] /\ val'[q] = val[q]
    BY <1>1 DEF RunnerInv, RunnerTypeOK
  <2> QED BY <1>1, <2>1, RunUntouched DEF RunnerInv
<1>8. PlacesOK(r)' /\ SoftInv(r)' /\ InsidePassed(r)'
  BY <1>1, <1>2, <1>3, <1>4, <1>5 DEF PlacesOK, SoftInv, InsidePassed, OnItsWay
<1>9. Keeps(r)'
  <2>1. <<r, Len(nodes)>> \in held
    BY <1>1, <1>3, RunFacts DEF Keeps
  <2> QED BY <1>1, <1>2, <1>3, <1>4, <1>5, <2>1 DEF Keeps
<1>10. OnlyKept(r)'
  <2>1. \A f \in 0 .. Len(nodes) : <<r, f>> \in held => f = Len(nodes)
    BY <1>1, <1>2, <1>3, RunFacts DEF OnlyKept, Works
  <2> QED BY <1>1, <1>5, <2>1 DEF OnlyKept
<1> QED BY <1>6, <1>7, <1>8, <1>9, <1>10 DEF RunnerInv, RunInv

(* The end of a run: its runner is kept as long as its callable is at work. *)
LEMMA EndRuns ==
  ASSUME RunnerInv, NEW r \in Runs, NEW to \in {"idle", "store", "flag", "count"},
         pc[r] \in {"end", "store", "flag", "count"}, EndGoto(r, to)
  PROVE  RunnerInv'
<1>1. /\ UNCHANGED <<nodes, fast, starts, at, part, val, softSeen, frame, inside>>
      /\ pc' = [pc EXCEPT ![r] = to] /\ pc'[r] = to
      /\ held' = IF to = "idle" THEN held \ Dropped(r, frame[r]) ELSE held
  BY DEF EndGoto, RunnerInv, RunnerTypeOK
<1>2. /\ Controls' = Controls /\ \A i : Caller(i)' = Caller(i)
      /\ ProgramRunner' = ProgramRunner /\ NodesOK' /\ QueuedTask = 0 /\ QueuedTask' = 0
  BY <1>1, SameBlueprint, RunFacts DEF QueuedTask
<1>3. /\ \A f : <<r, f>> \in held /\ (to = "idle" => f # frame[r]) => <<r, f>> \in held'
      /\ \A f : <<r, f>> \in held /\ f = ProgramRunner /\ starts[r] < MaxStarts[r] => <<r, f>> \in held'
      /\ \A f : <<r, f>> \in held' => <<r, f>> \in held
      /\ to = "idle" /\ <<r, frame[r]>> \in held' => frame[r] = ProgramRunner /\ starts[r] < MaxStarts[r]
      /\ \A q \in Runs \ {r} : \A f : <<q, f>> \in held' <=> <<q, f>> \in held
  BY <1>1 DEF Dropped
<1>4. RunnerTypeOK'
  <2>1. held' \subseteq Runs \X (0 .. Len(nodes))
    BY <1>1 DEF RunnerInv, RunnerTypeOK
  <2> QED BY <1>1, <1>2, <2>1 DEF RunnerInv, RunnerTypeOK, RunnerPlaces
<1>5. ASSUME NEW q \in Runs \ {r}
      PROVE  RunInv(q)'
  <2>1. pc'[q] = pc[q]
    BY <1>1 DEF RunnerInv, RunnerTypeOK
  <2> QED BY <1>1, <1>3, <2>1, RunUntouched DEF RunnerInv
<1>6. PlacesOK(r)' /\ SoftInv(r)' /\ InsidePassed(r)'
  BY <1>1, <1>2, RunFacts DEF PlacesOK, SoftInv, InsidePassed, OnItsWay, Works
<1>7. Works(r) /\ Keeps(r) /\ OnlyKept(r)
  BY RunFacts DEF Works
<1>8. Keeps(r)'
  <2>1. ASSUME NEW i \in Controls, <<r, i>> \in inside
        PROVE  Caller(i) # frame[r]
    <3>1. i >= frame[r] /\ frame[r] \in Nat /\ i \in 0 .. Len(nodes) - 1
      BY <1>7, <2>1, RunFacts DEF InsidePassed
    <3>2. PICK y \in Nat : y = Caller(i) /\ y > i
      BY <3>1, RunFacts, CallerIsNext
    <3> QED BY <3>1, <3>2
  <2>2. ~fast[r] => \A i \in Controls : <<r, i>> \in inside => <<r, Caller(i)>> \in held'
    BY <1>3, <1>7, <2>1 DEF Keeps
  <2>3. Works(r)' => <<r, frame[r]>> \in held'
    BY <1>1, <1>3, <1>7 DEF Keeps, Works
  <2>4. starts[r] < MaxStarts[r] /\ (fast[r] => starts[r] = 0) => <<r, ProgramRunner>> \in held'
    BY <1>3, <1>7 DEF Keeps
  <2> QED BY <1>1, <1>2, <2>2, <2>3, <2>4 DEF Keeps
<1>9. OnlyKept(r)'
  <2>1. ASSUME NEW f \in 0 .. Len(nodes), <<r, f>> \in held'
        PROVE  \/ f = ProgramRunner /\ starts[r] < MaxStarts[r]
               \/ f = frame[r] /\ to # "idle"
               \/ \E i \in Controls : <<r, i>> \in inside /\ f = Caller(i)
    BY <1>3, <1>7, <2>1 DEF OnlyKept
  <2>2. to # "idle" => Works(r)'
    BY <1>1 DEF Works
  <2> QED BY <1>1, <1>2, <2>1, <2>2 DEF OnlyKept
<1> QED BY <1>4, <1>5, <1>6, <1>8, <1>9 DEF RunnerInv, RunInv

(* What the program has composed and not started. *)
LEMMA InitRuns == AggregatorInit => RunnerInv
<1> SUFFICES ASSUME AggregatorInit PROVE RunnerInv
  OBVIOUS
<1>1. /\ nodes = Blueprint(pipeline) /\ pipeline \in Pipelines /\ fast \in [Runs -> BOOLEAN]
      /\ starts = [r \in Runs |-> 0] /\ pc = [r \in Runs |-> "idle"]
      /\ at = [r \in Runs |-> Len(nodes) - 1] /\ part = [r \in Runs |-> 0]
      /\ val = [r \in Runs |-> "value"] /\ frame = [r \in Runs |-> Len(nodes)]
      /\ held = Runs \X {Len(nodes)} /\ inside = {} /\ softSeen = [r \in Runs |-> FALSE]
  BY DEF AggregatorInit, Init, ProgramRunner
<1>2. NodesOK
  BY <1>1, BlueprintShape DEF NodesOK
<1>3. RunnerTypeOK
  <2>1. /\ Len(nodes) - 1 \in 0 .. Len(nodes) - 1 /\ Len(nodes) \in 1 .. Len(nodes)
        /\ Len(nodes) \in 0 .. Len(nodes) /\ "value" \in Results /\ "idle" \in RunnerPlaces
    BY <1>2 DEF NodesOK, Results, RunnerPlaces
  <2> QED BY <1>1, <1>2, <2>1 DEF RunnerTypeOK
<1>4. ASSUME NEW r \in Runs
      PROVE  RunInv(r)
  <2>1. PlacesOK(r) /\ SoftInv(r)
    BY <1>1 DEF PlacesOK, SoftInv, OnItsWay
  <2>2. 0 < MaxStarts[r]
    BY FlowAssumption
  <2> QED BY <1>1, <2>1, <2>2 DEF RunInv, Keeps, OnlyKept, InsidePassed, Works, ProgramRunner
<1> QED BY <1>3, <1>4 DEF RunnerInv

(* A step that leaves all of it alone. *)
LEMMA QuietRuns ==
  ASSUME RunnerInv,
         UNCHANGED <<nodes, fast, starts, pc, at, part, val, softSeen, frame, held, inside>>
  PROVE  RunnerInv'
<1>1. RunnerTypeOK'
  BY SameBlueprint DEF RunnerInv, RunnerTypeOK
<1>2. ASSUME NEW q \in Runs
      PROVE  RunInv(q)'
  BY RunUntouched DEF RunnerInv
<1> QED BY <1>1, <1>2 DEF RunnerInv

(* The invariant of the runners holds for any pipelines, runs, starts, cancels and
   executors. *)
THEOREM RunnerInvHolds == Spec => []RunnerInv
<1>1. RunnerInv /\ [Next]_allVars => RunnerInv'
  <2> SUFFICES ASSUME RunnerInv, [Next]_allVars PROVE RunnerInv'
    OBVIOUS
  <2>1. CASE UNCHANGED allVars
    BY <2>1, QuietRuns DEF allVars, runnerVars, ownership
  <2>2. CASE Cancel
    BY <2>2, QuietRuns DEF Cancel, ownership
  <2>3. ASSUME NEW r \in Runs, StepOf(r)
        PROVE  RunnerInv'
    <3>1. CASE RunStep(r)
      BY <3>1, CheckHardRuns, CheckSoftRuns, RunStageRuns, HopRuns, TaskIsRun, ReturnRuns DEF RunStep
    <3>2. CASE TestSlot(r) \/ Store(r) \/ SetReady(r) \/ CountUp(r)
      <4>1. PICK to \in {"idle", "store", "flag", "count"} :
              pc[r] \in {"end", "store", "flag", "count"} /\ EndGoto(r, to)
        BY <3>2 DEF TestSlot, Store, SetReady, CountUp
      <4> QED BY <4>1, EndRuns
    <3> QED BY <2>3, <3>1, <3>2 DEF StepOf
  <2> QED BY <2>1, <2>2, <2>3, StartRuns DEF Next
<1> QED BY <1>1, InitRuns, PTL DEF Spec

(* A soft cancel before the last node reaches the end as an error, unless that
   very node has a handler, however the stages were fused into nodes. *)
THEOREM SoftCancelReachesEnd == Spec => []SoftReachesEnd
<1>1. RunnerInv => SoftReachesEnd
  BY DEF RunnerInv, RunInv, SoftInv, SoftReachesEnd
<1> QED BY <1>1, RunnerInvHolds, PTL

(* The blueprint is there while a run is at work on it or p has not returned, and
   gone when all is over. *)
THEOREM BlueprintIsKept == Spec => []BlueprintOutlivesUse
<1>1. RunnerInv => BlueprintOutlivesUse
  <2> SUFFICES ASSUME RunnerInv PROVE BlueprintOutlivesUse
    OBVIOUS
  <2>1. ASSUME NEW r \in Runs, pc[r] # "idle"
        PROVE  held # {}
    BY <2>1, RunFacts DEF Keeps, Works
  <2>2. ASSUME NEW r \in Runs, ~fast[r], NEW i \in DOMAIN nodes, <<r, i>> \in inside
        PROVE  held # {}
    <3>1. i \in Controls
      BY <2>2 DEF RunnerInv, RunnerTypeOK
    <3> QED BY <2>2, <3>1, RunFacts DEF Keeps
  <2>3. ASSUME \A r \in Runs : pc[r] = "idle" /\ starts[r] = MaxStarts[r], inside = {}, held # {}
        PROVE  FALSE
    <3>1. PICK r \in Runs, f \in 0 .. Len(nodes) : <<r, f>> \in held
      <4>1. PICK x \in Runs \X (0 .. Len(nodes)) : x \in held
        BY <2>3 DEF RunnerInv, RunnerTypeOK
      <4>2. x = <<x[1], x[2]>> /\ x[1] \in Runs /\ x[2] \in 0 .. Len(nodes)
        BY <4>1
      <4> QED BY <4>1, <4>2
    <3>2. starts[r] = MaxStarts[r] /\ starts[r] \in Nat
      BY <2>3, RunFacts
    <3> QED BY <2>3, <3>1, <3>2, RunFacts DEF OnlyKept, Works
  <2> QED BY <2>1, <2>2, <2>3 DEF BlueprintOutlivesUse
<1> QED BY <1>1, RunnerInvHolds, PTL

-----------------------------------------------------------------------------
(* The refinement *)

(* Two vias in a row have the same executor if their executors have the same type:
   otherwise the second one is lost, which is what FlowVia.cfg shows. *)
RowsAgree ==
  \A p \in Pipelines : \A k \in 2 .. Len(p) :
    {p[k - 1], p[k]} \subseteq Executors /\ TypeOf[p[k - 1]] = TypeOf[p[k]] => p[k - 1] = p[k]

(* The parts of a node are the identity that begins a blueprint and the stages
   of s from the o-th on. *)
PartsAre(node, o, s) ==
  /\ node.kind = "control" => Len(node.parts) = 1
  /\ \A j \in 1 .. Len(node.parts) :
       IF o + j = 1 THEN node.kind = "calc" /\ node.parts[j] = "identity"
       ELSE node.parts[j] = s[o + j - 1] /\ (node.kind = "control" <=> s[o + j - 1] \in Executors)

(* The chain bp holds the stages of s in their order, off[i] parts before node i. *)
Placed(bp, off, s) ==
  /\ off \in [1 .. Len(bp) -> Nat] /\ off[Len(bp)] = 0
  /\ \A i \in 1 .. Len(bp) - 1 : off[i] = off[i + 1] + Len(bp[i + 1].parts)
  /\ off[1] + Len(bp[1].parts) = Len(s) + 1
  /\ \A i \in 2 .. Len(bp) : off[i] + Len(bp[i].parts) <= off[1]
  /\ \A i \in 1 .. Len(bp) : PartsAre(bp[i], off[i], s)

(* The stages left of a pipeline when one more is written. *)
Written(s, stage) ==
  IF s # <<>> /\ s[Len(s)] \in Executors /\ stage \in Executors
  THEN [s EXCEPT ![Len(s)] = stage]
  ELSE Append(s, stage)

(* t is s with stage after it, or in the place of the last. *)
IsLast(stage, s, t) ==
  /\ t \in Seq(Stages) /\ t # <<>> /\ t[Len(t)] = stage
  /\ \A i \in 1 .. Len(s) - 1 : t[i] = s[i]
  /\ IF s # <<>> /\ s[Len(s)] \in Executors /\ stage \in Executors
     THEN Len(t) = Len(s)
     ELSE Len(t) = Len(s) + 1 /\ \A i \in 1 .. Len(s) : t[i] = s[i]

(* A part written after others is the last of the stages, or joins the last one. *)
LEMMA WrittenStages ==
  ASSUME NEW s \in Seq(Stages), NEW stage \in Stages
  PROVE  IsLast(stage, s, Written(s, stage))
<1> SUFFICES ASSUME NEW t, t = Written(s, stage)
             PROVE  IsLast(stage, s, t)
  OBVIOUS
<1>1. CASE s # <<>> /\ s[Len(s)] \in Executors /\ stage \in Executors
  <2>1. Len(s) \in 1 .. Len(s) /\ t = [s EXCEPT ![Len(s)] = stage]
    BY <1>1 DEF Written
  <2> QED BY <1>1, <2>1 DEF IsLast
<1>2. CASE ~(s # <<>> /\ s[Len(s)] \in Executors /\ stage \in Executors)
  <2>1. t = Append(s, stage)
    BY <1>2 DEF Written
  <2> QED BY <1>2, <2>1 DEF IsLast
<1> QED BY <1>1, <1>2

(* Parts whose stages have not changed. *)
LEMMA PartsStay ==
  ASSUME NEW node \in Inner, NEW o \in Nat, NEW s \in Seq(Stages), NEW t \in Seq(Stages),
         PartsAre(node, o, s), \A i \in 1 .. o + Len(node.parts) - 1 : t[i] = s[i]
  PROVE  PartsAre(node, o, t)
<1>1. Len(node.parts) \in Nat
  BY DEF Inner
<1>2. ASSUME NEW j \in 1 .. Len(node.parts), o + j # 1
      PROVE  t[o + j - 1] = s[o + j - 1]
  <2>1. o + j - 1 \in 1 .. o + Len(node.parts) - 1
    BY <1>1, <1>2
  <2> QED BY <2>1
<1> QED BY <1>2 DEF PartsAre

(* What Placed says, node by node. *)
LEMMA PlacedFacts ==
  ASSUME NEW bp \in Chains, NEW s \in Seq(Stages), NEW off, Placed(bp, off, s)
  PROVE  /\ Len(bp) \in Nat /\ Len(bp) >= 1 /\ Len(s) \in Nat
         /\ \A i \in 1 .. Len(bp) : /\ bp[i] \in Inner /\ Len(bp[i].parts) \in Nat /\ Len(bp[i].parts) >= 1
                                    /\ off[i] \in Nat /\ off[i] + Len(bp[i].parts) <= Len(s) + 1
         /\ off[1] \in Nat /\ bp[1] \in Inner /\ Len(bp[1].parts) \in Nat /\ Len(bp[1].parts) >= 1
         /\ off[1] + Len(bp[1].parts) = Len(s) + 1
         /\ \A i \in 1 .. Len(bp) - 1 : off[i] = off[i + 1] + Len(bp[i + 1].parts)
<1>1. Len(bp) \in Nat /\ Len(bp) >= 1 /\ Len(s) \in Nat /\ 1 \in 1 .. Len(bp)
  BY DEF Chains
<1>2. ASSUME NEW i \in 1 .. Len(bp)
      PROVE  bp[i] \in Inner /\ Len(bp[i].parts) \in Nat /\ Len(bp[i].parts) >= 1
  <2>1. bp[i] \in Inner
    BY DEF Chains
  <2> QED BY <2>1, FlowAssumption DEF Inner
<1>3. off[1] + Len(bp[1].parts) = Len(s) + 1 /\ off \in [1 .. Len(bp) -> Nat]
  BY DEF Placed
<1>4. ASSUME NEW i \in 1 .. Len(bp)
      PROVE  off[i] \in Nat /\ off[i] + Len(bp[i].parts) <= Len(s) + 1
  <2>1. off[i] \in Nat /\ off[1] \in Nat /\ Len(bp[i].parts) \in Nat /\ Len(bp[1].parts) \in Nat
    BY <1>1, <1>2, <1>3
  <2>2. i # 1 => off[i] + Len(bp[i].parts) <= off[1]
    BY <1>1 DEF Placed
  <2> QED BY <1>1, <1>3, <2>1, <2>2
<1>5. \A i \in 1 .. Len(bp) - 1 : off[i] = off[i + 1] + Len(bp[i + 1].parts)
  BY DEF Placed
<1> QED BY <1>1, <1>2, <1>3, <1>4, <1>5

(* A chain whose first node is another. *)
LEMMA FirstReplaced ==
  ASSUME NEW bp \in Chains, NEW bp2 \in Chains, Len(bp2) = Len(bp),
         \A i \in 2 .. Len(bp) : bp2[i] = bp[i],
         NEW s \in Seq(Stages), NEW t \in Seq(Stages), NEW off, Placed(bp, off, s),
         off[1] + Len(bp2[1].parts) = Len(t) + 1, PartsAre(bp2[1], off[1], t),
         \A i \in 1 .. off[1] - 1 : t[i] = s[i]
  PROVE  Placed(bp2, off, t)
<1>1. /\ Len(bp) \in Nat /\ Len(bp) >= 1 /\ \A i \in 1 .. Len(bp) : bp[i] \in Inner /\ Len(bp[i].parts) \in Nat
      /\ off[1] \in Nat /\ \A i \in 1 .. Len(bp) : off[i] \in Nat
      /\ off \in [1 .. Len(bp) -> Nat]
  BY PlacedFacts DEF Placed
<1>2. \A i \in 1 .. Len(bp) - 1 : off[i] = off[i + 1] + Len(bp2[i + 1].parts)
  BY <1>1 DEF Placed
<1>3. \A i \in 2 .. Len(bp) : off[i] + Len(bp2[i].parts) <= off[1]
  BY <1>1 DEF Placed
<1>4. ASSUME NEW i \in 1 .. Len(bp)
      PROVE  PartsAre(bp2[i], off[i], t)
  <2>1. CASE i # 1
    <3>1. i \in 2 .. Len(bp)
      BY <1>1, <2>1
    <3>2. off[i] + Len(bp[i].parts) <= off[1]
      BY <3>1 DEF Placed
    <3>3. PICK o \in Nat, l \in Nat, first \in Nat :
            o = off[i] /\ l = Len(bp[i].parts) /\ first = off[1] /\ o + l <= first
      BY <1>1, <3>1, <3>2
    <3>4. o \in Nat /\ l \in Nat /\ first \in Nat /\ o + l <= first
      BY <3>3
    <3>5. \A k \in 1 .. o + l - 1 : k \in 1 .. first - 1
      BY ONLY <3>4
    <3>6. \A k \in 1 .. o + l - 1 : t[k] = s[k]
      BY <3>3, <3>5
    <3>7. PartsAre(bp[i], o, s) /\ bp[i] \in Inner
      BY <1>1, <3>3 DEF Placed
    <3>8. PartsAre(bp[i], o, t)
      BY <3>3, <3>7, <3>6, PartsStay
    <3> QED BY <3>1, <3>3, <3>8
  <2> QED BY <2>1
<1> QED BY <1>1, <1>2, <1>3, <1>4 DEF Placed

(* A chain with a new first node of one part. *)
LEMMA FirstAdded ==
  ASSUME NEW bp \in Chains, NEW bp2 \in Chains, Len(bp2) = Len(bp) + 1,
         \A i \in 1 .. Len(bp) : bp2[i + 1] = bp[i], Len(bp2[1].parts) = 1,
         NEW s \in Seq(Stages), NEW t \in Seq(Stages), NEW off, Placed(bp, off, s),
         Len(t) = Len(s) + 1, PartsAre(bp2[1], Len(s) + 1, t), \A i \in 1 .. Len(s) : t[i] = s[i]
  PROVE  \E off2 : Placed(bp2, off2, t)
<1>1. /\ Len(bp) \in Nat /\ Len(bp) >= 1 /\ \A i \in 1 .. Len(bp) : bp[i] \in Inner /\ Len(bp[i].parts) \in Nat
      /\ off \in [1 .. Len(bp) -> Nat] /\ Len(s) \in Nat /\ \A i \in 1 .. Len(bp) : off[i] \in Nat
      /\ off[1] + Len(bp[1].parts) = Len(s) + 1
      /\ \A i \in 1 .. Len(bp) - 1 : off[i] = off[i + 1] + Len(bp[i + 1].parts)
  BY PlacedFacts DEF Placed
<1>2. PICK off2 : off2 = [i \in 1 .. Len(bp) + 1 |-> IF i = 1 THEN Len(s) + 1 ELSE off[i - 1]]
  OBVIOUS
<1>3. /\ off2 \in [1 .. Len(bp) + 1 -> Nat] /\ off2[1] = Len(s) + 1
      /\ \A i \in 1 .. Len(bp) : off2[i + 1] = off[i]
  BY <1>1, <1>2
<1>4. \A i \in 2 .. Len(bp) + 1 : i - 1 \in 1 .. Len(bp) /\ bp2[i] = bp[i - 1] /\ off2[i] = off[i - 1]
  BY <1>1, <1>3
<1>5. \A i \in 1 .. Len(bp) : off[i] + Len(bp[i].parts) <= Len(s) + 1
  BY PlacedFacts
<1>6. \A i \in 1 .. Len(bp) : off2[i] = off2[i + 1] + Len(bp2[i + 1].parts)
  <2> SUFFICES ASSUME NEW i \in 1 .. Len(bp) PROVE off2[i] = off[i] + Len(bp[i].parts)
    BY <1>3
  <2>1. CASE i = 1
    <3>1. off2[1] = Len(s) + 1 /\ off[1] + Len(bp[1].parts) = Len(s) + 1
      BY <1>1, <1>3
    <3> QED BY <2>1, <3>1
  <2>2. CASE i # 1
    <3>1. i - 1 \in 1 .. Len(bp) - 1 /\ off2[i] = off[i - 1] /\ (i - 1) + 1 = i
      BY <1>1, <1>4, <2>2
    <3> QED BY <1>1, <3>1
  <2> QED BY <2>1, <2>2
<1>7. \A i \in 2 .. Len(bp) + 1 : off2[i] + Len(bp2[i].parts) <= off2[1]
  BY <1>3, <1>4, <1>5
<1>8. ASSUME NEW i \in 1 .. Len(bp) + 1
      PROVE  PartsAre(bp2[i], off2[i], t)
  <2>1. CASE i = 1
    BY <1>3, <2>1
  <2>2. CASE i # 1
    <3>1. i \in 2 .. Len(bp) + 1
      BY <1>1, <2>2
    <3>2. PICK k \in 1 .. Len(bp) : k = i - 1 /\ bp2[i] = bp[k] /\ off2[i] = off[k]
      BY <1>4, <3>1
    <3>3. PICK o \in Nat, l \in Nat, len \in Nat :
            o = off[k] /\ l = Len(bp[k].parts) /\ len = Len(s) /\ o + l <= len + 1
      BY <1>1, <1>5
    <3>4. \A m \in 1 .. o + l - 1 : t[m] = s[m]
      <4> SUFFICES ASSUME NEW m \in 1 .. o + l - 1 PROVE t[m] = s[m]
        OBVIOUS
      <4>1. o \in Nat /\ l \in Nat /\ len \in Nat /\ o + l <= len + 1
        BY <3>3
      <4>2. m \in 1 .. len
        BY ONLY <4>1, m \in 1 .. o + l - 1
      <4> QED BY <1>1, <3>3, <4>2
    <3>5. PartsAre(bp[k], o, s) /\ bp[k] \in Inner
      BY <1>1, <3>3 DEF Placed
    <3>6. PartsAre(bp[k], o, t)
      BY <3>3, <3>4, <3>5, PartsStay
    <3> QED BY <3>2, <3>3, <3>6
  <2> QED BY <2>1, <2>2
<1>9. off2[Len(bp) + 1] = 0
  BY <1>1, <1>3 DEF Placed
<1>10. off2[1] + Len(bp2[1].parts) = Len(t) + 1
  BY <1>1, <1>3
<1>11. /\ off2 \in [1 .. Len(bp2) -> Nat] /\ off2[Len(bp2)] = 0
       /\ \A i \in 1 .. Len(bp2) - 1 : off2[i] = off2[i + 1] + Len(bp2[i + 1].parts)
       /\ \A i \in 2 .. Len(bp2) : off2[i] + Len(bp2[i].parts) <= off2[1]
       /\ \A i \in 1 .. Len(bp2) : PartsAre(bp2[i], off2[i], t)
  BY <1>1, <1>3, <1>6, <1>7, <1>8, <1>9
<1> QED BY <1>10, <1>11 DEF Placed

(* The first node is a control if the last stage is a via. *)
LEMMA FirstIsLast ==
  ASSUME NEW bp \in Chains, NEW s \in Seq(Stages), NEW off, Placed(bp, off, s)
  PROVE  /\ bp[1].kind \in {"calc", "control"}
         /\ bp[1].kind = "control" <=> s # <<>> /\ s[Len(s)] \in Executors
         /\ bp[1].kind = "control" => bp[1].parts = <<s[Len(s)]>> /\ off[1] = Len(s)
<1>1. PICK o \in Nat, l \in Nat, len \in Nat :
        o = off[1] /\ l = Len(bp[1].parts) /\ len = Len(s) /\ l >= 1 /\ o + l = len + 1
  BY PlacedFacts
<1>2. /\ o + l - 1 = len /\ (o + l = 1 <=> len = 0) /\ (l = 1 => o = len)
      /\ l \in 1 .. Len(bp[1].parts)
  <2>1. o \in Nat /\ l \in Nat /\ len \in Nat /\ l >= 1 /\ o + l = len + 1
    BY <1>1
  <2>2. /\ o + l - 1 = len /\ (o + l = 1 <=> len = 0) /\ (l = 1 => o = len) /\ l \in 1 .. l
    BY ONLY <2>1
  <2> QED BY <1>1, <2>2
<1>3. PartsAre(bp[1], o, s) /\ bp[1] \in Inner
  <2>1. bp[1] \in Inner /\ 1 \in 1 .. Len(bp)
    BY PlacedFacts
  <2>2. PartsAre(bp[1], off[1], s)
    BY <2>1 DEF Placed
  <2> QED BY <1>1, <2>1, <2>2
<1>4. IF len = 0 THEN bp[1].kind = "calc"
      ELSE bp[1].parts[l] = s[len] /\ (bp[1].kind = "control" <=> s[len] \in Executors)
  BY <1>2, <1>3 DEF PartsAre
<1>5. s = <<>> <=> len = 0
  BY <1>1
<1>6. ASSUME bp[1].kind = "control"
      PROVE  bp[1].parts = <<s[len]>> /\ off[1] = len
  <2>1. l = 1 /\ bp[1].parts \in Seq(Stages) /\ Len(bp[1].parts) = 1
    BY <1>1, <1>3, <1>6 DEF PartsAre, Inner
  <2>2. bp[1].parts = <<bp[1].parts[1]>>
    BY <2>1
  <2> QED BY <1>1, <1>2, <1>4, <1>6, <2>1, <2>2
<1> QED BY <1>1, <1>3, <1>4, <1>5, <1>6 DEF Inner

(* operator| keeps the stages in their order. *)
LEMMA ExtendPlaced ==
  ASSUME NEW bp \in Chains, NEW s \in Seq(Stages), NEW off, Placed(bp, off, s), NEW stage \in Stages,
         s # <<>> /\ {s[Len(s)], stage} \subseteq Executors /\ TypeOf[s[Len(s)]] = TypeOf[stage] =>
           s[Len(s)] = stage
  PROVE  \E off2 : Placed(Extend(bp, stage), off2, Written(s, stage))
<1>1. PICK bp2 \in Chains : bp2 = Extend(bp, stage)
  BY ExtendIsChain
<1>2. PICK t \in Seq(Stages) : t = Written(s, stage) /\ IsLast(stage, s, t)
  <2>1. PICK w : w = Written(s, stage)
    OBVIOUS
  <2>2. IsLast(stage, s, w)
    BY ONLY <2>1, WrittenStages, s \in Seq(Stages), stage \in Stages
  <2>3. w \in Seq(Stages)
    BY ONLY <2>2 DEF IsLast
  <2> QED BY ONLY <2>1, <2>2, <2>3
<1>3. PICK first \in Inner, l \in Nat, o \in Nat, len \in Nat :
        /\ first = bp[1] /\ first = Head(bp) /\ l = Len(first.parts) /\ o = off[1] /\ len = Len(s)
        /\ l >= 1 /\ o + l = len + 1
  <2>1. Head(bp) = bp[1]
    BY DEF Chains
  <2> QED BY <2>1, PlacedFacts
<1>4. /\ first.kind \in {"calc", "control"}
      /\ first.kind = "control" <=> s # <<>> /\ s[len] \in Executors
      /\ first.kind = "control" => first.parts = <<s[len]>> /\ o = len
  BY <1>3, FirstIsLast
<1>5. PartsAre(first, o, s)
  <2>1. 1 \in 1 .. Len(bp)
    BY PlacedFacts
  <2>2. PartsAre(bp[1], off[1], s)
    BY <2>1 DEF Placed
  <2> QED BY ONLY <1>3, <2>2
<1>6. /\ \A n \in Inner : /\ Len(<<n>> \o Tail(bp)) = Len(bp) /\ (<<n>> \o Tail(bp))[1] = n
                           /\ \A i \in 2 .. Len(bp) : (<<n>> \o Tail(bp))[i] = bp[i]
      /\ \A n \in Inner : /\ Len(<<n>> \o bp) = Len(bp) + 1 /\ (<<n>> \o bp)[1] = n
                           /\ \A i \in 1 .. Len(bp) : (<<n>> \o bp)[i + 1] = bp[i]
  BY DEF Chains
<1>7. /\ o \in Nat /\ l \in Nat /\ len \in Nat /\ l >= 1 /\ o + l = len + 1
  BY <1>3
<1>8. /\ \A j \in 1 .. l : o + j # 1 => o + j - 1 \in 1 .. len
      /\ o + (l + 1) - 1 = len + 1 /\ o + (l + 1) # 1 /\ o + (l + 1) = (len + 1) + 1
      /\ \A i \in 1 .. o - 1 : i \in 1 .. len
  BY ONLY <1>7
<1>9. /\ t[Len(t)] = stage /\ \A i \in 1 .. len - 1 : t[i] = s[i]
      /\ IF s # <<>> /\ s[len] \in Executors /\ stage \in Executors
         THEN Len(t) = len ELSE Len(t) = len + 1 /\ \A i \in 1 .. len : t[i] = s[i]
  <2>1. /\ t[Len(t)] = stage /\ \A i \in 1 .. Len(s) - 1 : t[i] = s[i]
        /\ IF s # <<>> /\ s[Len(s)] \in Executors /\ stage \in Executors
           THEN Len(t) = Len(s) ELSE Len(t) = Len(s) + 1 /\ \A i \in 1 .. Len(s) : t[i] = s[i]
    BY <1>2 DEF IsLast
  <2>2. Len(s) = len
    BY <1>3
  <2> QED BY <2>1, <2>2, Zenon
<1>10. CASE stage \notin Executors
  <2>1. Len(t) = len + 1 /\ t[len + 1] = stage /\ \A i \in 1 .. len : t[i] = s[i]
    BY <1>10, <1>9
  <2>2. CASE first.kind = "calc" /\ l < MaxZip
    <3>1. /\ Fuse(first, stage).kind = "calc" /\ Len(Fuse(first, stage).parts) = l + 1
          /\ Fuse(first, stage).parts[l + 1] = stage
          /\ \A j \in 1 .. l : Fuse(first, stage).parts[j] = first.parts[j]
          /\ Fuse(first, stage) \in Inner
      <4>1. first.parts \in Seq(Stages) /\ Append(first.parts, stage) \in Seq(Stages)
        BY DEF Inner
      <4>2. l + 1 \in 1 .. MaxZip
        BY <2>2, FlowAssumption
      <4> QED BY <1>3, <4>1, <4>2 DEF Fuse, CalcNode, Inner
    <3>2. bp2 = <<Fuse(first, stage)>> \o Tail(bp)
      BY <1>1, <1>3, <1>10, <2>2 DEF Extend
    <3>3. PartsAre(Fuse(first, stage), o, t)
      <4>1. ASSUME NEW j \in 1 .. l
            PROVE  IF o + j = 1 THEN first.parts[j] = "identity"
                   ELSE first.parts[j] = t[o + j - 1] /\ t[o + j - 1] \notin Executors
        <5>1. o + j # 1 => t[o + j - 1] = s[o + j - 1]
          BY <1>8, <2>1
        <5>2. j \in 1 .. Len(first.parts)
          BY <1>3
        <5>3. IF o + j = 1 THEN first.parts[j] = "identity"
              ELSE first.parts[j] = s[o + j - 1] /\ s[o + j - 1] \notin Executors
          BY <1>5, <2>2, <5>2 DEF PartsAre
        <5> QED BY <5>1, <5>3
      <4>2. t[o + (l + 1) - 1] = stage /\ o + (l + 1) # 1
        BY <1>8, <2>1
      <4>3. ASSUME NEW j \in 1 .. l + 1
            PROVE  IF o + j = 1 THEN Fuse(first, stage).parts[j] = "identity"
                   ELSE /\ Fuse(first, stage).parts[j] = t[o + j - 1]
                        /\ t[o + j - 1] \notin Executors
        <5>1. CASE j = l + 1
          BY <1>10, <3>1, <4>2, <5>1
        <5>2. CASE j # l + 1
          <6>1. j \in 1 .. l
            BY <1>7, <5>2
          <6> QED BY <3>1, <4>1, <6>1
        <5> QED BY <5>1, <5>2
      <4> QED BY <3>1, <4>3 DEF PartsAre
    <3>4. Placed(bp2, off, t)
      <4>1. Len(bp2) = Len(bp) /\ bp2[1] = Fuse(first, stage) /\ \A i \in 2 .. Len(bp) : bp2[i] = bp[i]
        BY <1>6, <3>1, <3>2
      <4>2. \A i \in 1 .. off[1] - 1 : t[i] = s[i]
        BY <1>3, <1>8, <2>1
      <4>3. off[1] + Len(bp2[1].parts) = Len(t) + 1 /\ PartsAre(bp2[1], off[1], t)
        BY <1>3, <1>8, <2>1, <3>1, <3>3, <4>1
      <4> QED BY <4>1, <4>2, <4>3, FirstReplaced
    <3> QED BY <1>1, <1>2, <3>4
  <2>3. CASE first.kind = "control" \/ l = MaxZip
    <3>1. bp2 = <<CalcNode(<<stage>>)>> \o bp
      <4>1. bp2 = Extend(bp, stage) /\ first = Head(bp) /\ l = Len(first.parts) /\ MaxZip \in Nat
        BY <1>1, <1>3, FlowAssumption
      <4> QED BY ONLY <4>1, <1>10, <2>3 DEF Extend
    <3>2. CalcNode(<<stage>>) \in Inner /\ Len(CalcNode(<<stage>>).parts) = 1
      BY SingleNodes DEF CalcNode
    <3>3. PartsAre(CalcNode(<<stage>>), len + 1, t)
      BY <1>10, <2>1 DEF PartsAre, CalcNode
    <3>4. Len(bp2) = Len(bp) + 1 /\ bp2[1] = CalcNode(<<stage>>) /\ \A i \in 1 .. Len(bp) : bp2[i + 1] = bp[i]
      BY <1>6, <3>1, <3>2
    <3>5. \E off2 : Placed(bp2, off2, t)
      BY <1>3, <2>1, <3>2, <3>3, <3>4, FirstAdded
    <3> QED BY <1>1, <1>2, <3>5
  <2>4. l < MaxZip \/ l = MaxZip
    BY <1>3, FlowAssumption DEF Inner
  <2> QED BY <1>4, <2>2, <2>3, <2>4
<1>11. CASE stage \in Executors /\ first.kind = "calc"
  <2>1. Len(t) = len + 1 /\ t[len + 1] = stage /\ \A i \in 1 .. len : t[i] = s[i]
    BY <1>4, <1>11, <1>9
  <2>2. bp2 = <<ControlNode(stage)>> \o bp
    BY <1>1, <1>3, <1>11 DEF Extend
  <2>3. ControlNode(stage) \in Inner /\ Len(ControlNode(stage).parts) = 1
    BY SingleNodes DEF ControlNode
  <2>4. PartsAre(ControlNode(stage), len + 1, t)
    BY <1>11, <2>1 DEF PartsAre, ControlNode
  <2>5. Len(bp2) = Len(bp) + 1 /\ bp2[1] = ControlNode(stage) /\ \A i \in 1 .. Len(bp) : bp2[i + 1] = bp[i]
    BY <1>6, <2>2, <2>3
  <2>6. \E off2 : Placed(bp2, off2, t)
    BY <1>3, <2>1, <2>3, <2>4, <2>5, FirstAdded
  <2> QED BY <1>1, <1>2, <2>6
<1>12. CASE stage \in Executors /\ first.kind = "control"
  <2>1. Len(t) = len /\ t[len] = stage /\ (\A i \in 1 .. len - 1 : t[i] = s[i])
    BY <1>4, <1>12, <1>9
  <2>2. len >= 1
    <3>1. s # <<>>
      BY <1>4, <1>12
    <3>2. Len(s) # 0
      BY <3>1
    <3> QED BY <1>3, <1>7, <3>2
  <2>3. bp2 = bp \/ bp2 = <<ControlNode(stage)>> \o Tail(bp)
    BY <1>1, <1>3, <1>12 DEF Extend
  <2>4. bp2 = bp => s[len] = stage
    <3>1. CASE TypeOf[stage] = TypeOf[first.parts[1]]
      BY <1>3, <1>4, <1>12, <3>1
    <3>2. CASE TypeOf[stage] # TypeOf[first.parts[1]]
      <4>1. bp2 = <<ControlNode(stage)>> \o Tail(bp)
        BY <1>1, <1>3, <1>12, <3>2 DEF Extend
      <4>2. bp2[1] = ControlNode(stage)
        BY <1>6, <4>1, SingleNodes
      <4> QED BY <1>3, <1>4, <1>12, <4>2 DEF ControlNode
    <3> QED BY <3>1, <3>2
  <2>5. bp2[1] = ControlNode(stage) /\ Len(bp2) = Len(bp) /\ \A i \in 2 .. Len(bp) : bp2[i] = bp[i]
    <3>1. CASE bp2 = bp
      <4>1. first.parts = <<stage>> /\ first.kind = "control"
        BY <1>4, <1>12, <2>4, <3>1
      <4>2. first = ControlNode(stage)
        BY <4>1 DEF Inner, ControlNode
      <4> QED BY <1>3, <3>1, <4>2
    <3>2. CASE bp2 = <<ControlNode(stage)>> \o Tail(bp)
      BY <1>6, <3>2, SingleNodes
    <3> QED BY <2>3, <3>1, <3>2
  <2>6. PartsAre(ControlNode(stage), len, t)
    BY <1>12, <1>7, <2>1, <2>2 DEF PartsAre, ControlNode
  <2>7. off[1] = len /\ Len(ControlNode(stage).parts) = 1
    BY <1>3, <1>4, <1>12 DEF ControlNode
  <2>8. Placed(bp2, off, t)
    BY <1>3, <2>1, <2>5, <2>6, <2>7, FirstReplaced
  <2> QED BY <1>1, <1>2, <2>8
<1> QED BY <1>4, <1>10, <1>11, <1>12

(* The stages that are left of a pipeline's prefixes. *)
LEMMA PrefixKept ==
  ASSUME NEW p \in Pipelines, NEW n \in Nat, n = Len(p)
  PROVE  \E h \in [0 .. n -> Seq(Stages)] : h[0] = <<>> /\ \A k \in 1 .. n : h[k] = Written(h[k - 1], p[k])
<1>1. \A k \in 1 .. n : p[k] \in Stages
  BY PipelineStages
<1>2. PICK step : step = [k \in 1 .. n |-> [s \in Seq(Stages) |-> Written(s, p[k])]]
  OBVIOUS
<1>3. \A k \in 1 .. n : \A s \in Seq(Stages) : step[k][s] \in Seq(Stages)
  <2>1. \A k \in 1 .. n : \A s \in Seq(Stages) : Written(s, p[k]) \in Seq(Stages)
    BY <1>1, WrittenStages DEF IsLast
  <2> QED BY <1>2, <2>1
<1>4. <<>> \in Seq(Stages)
  OBVIOUS
<1>5. PICK h : Iterates(h, n, Seq(Stages), <<>>, step)
  <2>1. PICK S, first : S = Seq(Stages) /\ first = <<>>
    OBVIOUS
  <2>2. n \in Nat /\ first \in S /\ \A k \in 1 .. n : \A s \in S : step[k][s] \in S
    BY <1>3, <1>4, <2>1
  <2>3. \E h : Iterates(h, n, S, first, step)
    BY ONLY <2>2, Iterated, Zenon
  <2> QED BY <2>1, <2>3, Zenon
<1>6. h \in [0 .. n -> Seq(Stages)] /\ h[0] = <<>> /\ \A k \in 1 .. n : h[k] = step[k][h[k - 1]]
  BY <1>5 DEF Iterates
<1>7. \A k \in 1 .. n : h[k] = Written(h[k - 1], p[k])
  <2> SUFFICES ASSUME NEW k \in 1 .. n PROVE h[k] = Written(h[k - 1], p[k])
    OBVIOUS
  <2>1. h[k - 1] \in Seq(Stages) /\ h[k] = step[k][h[k - 1]]
    BY <1>6
  <2> QED BY <1>2, <2>1
<1> QED BY <1>6, <1>7

(* The nodes of a blueprint hold, in their order, the stages that README.md says are
   left of the pipeline. *)
LEMMA StagesPlaced ==
  ASSUME RowsAgree, NEW p \in Pipelines
  PROVE  /\ Effective(p) \in Seq(Stages)
         /\ \E bp, off : bp \in Chains /\ Blueprint(p) = <<EndNode>> \o bp /\ Placed(bp, off, Effective(p))
<1>1. PICK n \in Nat : n = Len(p)
  BY PipelineStages
<1>2. \A k \in 1 .. n : p[k] \in Stages
  BY <1>1, PipelineStages
<1> DEFINE row(k) == k > 1 /\ {p[k - 1], p[k]} \subseteq Executors
           composed[k \in 0 .. Len(p)] ==
             IF k = 0 THEN MakeBlueprint ELSE Extend(composed[k - 1], p[k])
           kept[k \in 0 .. Len(p)] ==
             CASE k = 0            -> <<>>
               [] k # 0 /\ row(k)  -> [kept[k - 1] EXCEPT ![Len(kept[k - 1])] = p[k]]
               [] k # 0 /\ ~row(k) -> Append(kept[k - 1], p[k])
<1>3. Blueprint(p) = <<EndNode>> \o composed[Len(p)] /\ Effective(p) = kept[Len(p)]
  BY DEF Blueprint, Effective
<1>4. composed = [k \in 0 .. Len(p) |-> IF k = 0 THEN MakeBlueprint ELSE Extend(composed[k - 1], p[k])]
  <2>1. PICK g \in [0 .. n -> Chains] :
          \A k \in 0 .. n : g[k] = IF k = 0 THEN MakeBlueprint ELSE Extend(g[k - 1], p[k])
    BY <1>1, PrefixComposed
  <2>2. g = [k \in 0 .. Len(p) |-> IF k = 0 THEN MakeBlueprint ELSE Extend(g[k - 1], p[k])]
    BY <1>1, <2>1
  <2> QED BY <2>2
<1>5. kept = [k \in 0 .. Len(p) |->
                CASE k = 0            -> <<>>
                  [] k # 0 /\ row(k)  -> [kept[k - 1] EXCEPT ![Len(kept[k - 1])] = p[k]]
                  [] k # 0 /\ ~row(k) -> Append(kept[k - 1], p[k])]
  <2>1. PICK h \in [0 .. n -> Seq(Stages)] :
          h[0] = <<>> /\ \A k \in 1 .. n : h[k] = Written(h[k - 1], p[k])
    BY <1>1, PrefixKept
  <2>2. ASSUME NEW k \in 1 .. n
        PROVE  /\ row(k) => h[k] = [h[k - 1] EXCEPT ![Len(h[k - 1])] = p[k]]
               /\ ~row(k) => h[k] = Append(h[k - 1], p[k])
    <3>1. k - 1 \in 0 .. n /\ h[k - 1] \in Seq(Stages) /\ p[k] \in Stages /\ h[k] = Written(h[k - 1], p[k])
      BY <1>2, <2>1
    <3>2. CASE k = 1
      <4>1. h[k - 1] = <<>>
        BY <2>1, <3>2
      <4> QED BY <3>1, <3>2, <4>1 DEF Written
    <3>3. CASE k # 1
      <4>1. k - 1 \in 1 .. n /\ k - 1 - 1 \in 0 .. n
        BY <3>3
      <4>2. h[k - 1] = Written(h[k - 1 - 1], p[k - 1]) /\ h[k - 1 - 1] \in Seq(Stages) /\ p[k - 1] \in Stages
        BY <1>2, <2>1, <4>1
      <4>3. h[k - 1] # <<>> /\ h[k - 1][Len(h[k - 1])] = p[k - 1]
        <5>1. IsLast(p[k - 1], h[k - 1 - 1], h[k - 1])
          BY <4>2, WrittenStages
        <5> QED BY <5>1 DEF IsLast
      <4>4. row(k) <=> p[k - 1] \in Executors /\ p[k] \in Executors
        BY <3>3
      <4> QED BY <3>1, <4>3, <4>4 DEF Written
    <3> QED BY <3>2, <3>3
  <2>3. h = [k \in 0 .. Len(p) |->
               CASE k = 0            -> <<>>
                 [] k # 0 /\ row(k)  -> [h[k - 1] EXCEPT ![Len(h[k - 1])] = p[k]]
                 [] k # 0 /\ ~row(k) -> Append(h[k - 1], p[k])]
    <3> HIDE DEF row
    <3>1. h[0] = <<>> /\ \A k \in 0 .. n : k # 0 => k \in 1 .. n
      BY <2>1
    <3>2. \A k \in 0 .. n : h[k] = CASE k = 0            -> <<>>
                 [] k # 0 /\ row(k)  -> [h[k - 1] EXCEPT ![Len(h[k - 1])] = p[k]]
                 [] k # 0 /\ ~row(k) -> Append(h[k - 1], p[k])
      BY <2>2, <3>1
    <3> QED BY <1>1, <2>1, <3>2
  <2> QED BY <2>3
<1>6. /\ composed[0] = MakeBlueprint /\ kept[0] = <<>>
      /\ \A k \in 1 .. n : /\ composed[k] = Extend(composed[k - 1], p[k])
                           /\ row(k) => kept[k] = [kept[k - 1] EXCEPT ![Len(kept[k - 1])] = p[k]]
                           /\ ~row(k) => kept[k] = Append(kept[k - 1], p[k])
  <2> HIDE DEF composed, kept, row
  <2>1. 0 \in 0 .. Len(p) /\ \A k \in 1 .. n : k \in 0 .. Len(p) /\ k # 0
    BY <1>1
  <2>2. composed[0] = MakeBlueprint /\ \A k \in 1 .. n : composed[k] = Extend(composed[k - 1], p[k])
    BY <1>4, <2>1
  <2>3. /\ kept[0] = <<>>
        /\ \A k \in 1 .. n : /\ row(k) => kept[k] = [kept[k - 1] EXCEPT ![Len(kept[k - 1])] = p[k]]
                             /\ ~row(k) => kept[k] = Append(kept[k - 1], p[k])
    BY <1>5, <2>1
  <2> QED BY <2>2, <2>3
<1> HIDE DEF composed, kept
<1> DEFINE Good(k) ==
             /\ composed[k] \in Chains /\ kept[k] \in Seq(Stages)
             /\ k # 0 => kept[k] # <<>> /\ kept[k][Len(kept[k])] = p[k]
             /\ \E off : Placed(composed[k], off, kept[k])
<1>7. Good(0)
  <2>1. MakeBlueprint \in Chains
    <3>1. CalcNode(<<"identity">>) \in Inner
      BY SingleNodes DEF Stages
    <3> QED BY <3>1 DEF MakeBlueprint, Chains
  <2>2. PICK off : off = [i \in 1 .. 1 |-> 0]
    OBVIOUS
  <2>3. PICK bp : bp = MakeBlueprint
    OBVIOUS
  <2>4. /\ Len(bp) = 1 /\ bp[1] = CalcNode(<<"identity">>) /\ Len(<<>>) = 0
        /\ bp[1].kind = "calc" /\ Len(bp[1].parts) = 1 /\ bp[1].parts[1] = "identity"
    BY <2>3 DEF MakeBlueprint, CalcNode
  <2>5. off \in [1 .. 1 -> Nat] /\ off[1] = 0
    BY <2>2
  <2>6. PartsAre(bp[1], 0, <<>>)
    BY <2>4 DEF PartsAre
  <2>7. Placed(bp, off, <<>>)
    BY <2>4, <2>5, <2>6 DEF Placed
  <2> QED BY <1>6, <2>1, <2>3, <2>7
<1>8. ASSUME NEW k \in 1 .. n, Good(k - 1)
      PROVE  Good(k)
  <2>1. PICK bp \in Chains, s \in Seq(Stages) :
          bp = composed[k - 1] /\ s = kept[k - 1] /\ \E off : Placed(bp, off, s)
    BY <1>8
  <2>2. p[k] \in Stages /\ (k # 1 => s # <<>> /\ s[Len(s)] = p[k - 1]) /\ (k = 1 => s = <<>>)
    BY <1>2, <1>6, <1>8, <2>1
  <2>3. composed[k] = Extend(bp, p[k])
    BY <1>6, <2>1
  <2>4. kept[k] = Written(s, p[k])
    <3>1. row(k) <=> s # <<>> /\ s[Len(s)] \in Executors /\ p[k] \in Executors
      BY <2>2
    <3>2. /\ row(k) => kept[k] = [s EXCEPT ![Len(s)] = p[k]]
          /\ ~row(k) => kept[k] = Append(s, p[k])
      BY <1>6, <2>1
    <3> HIDE DEF row
    <3> QED BY <3>1, <3>2 DEF Written
  <2>5. s # <<>> /\ {s[Len(s)], p[k]} \subseteq Executors /\ TypeOf[s[Len(s)]] = TypeOf[p[k]] =>
          s[Len(s)] = p[k]
    <3> SUFFICES ASSUME s # <<>>, {s[Len(s)], p[k]} \subseteq Executors, TypeOf[s[Len(s)]] = TypeOf[p[k]]
                 PROVE  s[Len(s)] = p[k]
      OBVIOUS
    <3>1. k \in 2 .. Len(p) /\ s[Len(s)] = p[k - 1]
      BY <1>1, <2>2
    <3> QED BY <3>1 DEF RowsAgree
  <2>6. \E off2 : Placed(composed[k], off2, kept[k])
    <3>1. PICK off : Placed(bp, off, s)
      BY <2>1
    <3> QED BY <2>1, <2>2, <2>3, <2>4, <2>5, <3>1, ExtendPlaced
  <2>7. composed[k] \in Chains
    BY <2>1, <2>2, <2>3, ExtendIsChain
  <2>8. kept[k] \in Seq(Stages) /\ kept[k] # <<>> /\ kept[k][Len(kept[k])] = p[k]
    <3>1. IsLast(p[k], s, kept[k])
      BY <2>1, <2>2, <2>4, WrittenStages
    <3> QED BY <3>1 DEF IsLast
  <2> QED BY <2>6, <2>7, <2>8
<1> HIDE DEF Good
<1>9. Good(n)
  <2>1. PICK good : good = {k \in 0 .. n : Good(k)}
    OBVIOUS
  <2>2. 0 \in good /\ \A k \in 1 .. n : k - 1 \in good => k \in good
    BY <1>7, <1>8, <2>1
  <2>3. n \in good
    BY <2>2, UpTo
  <2> QED BY <2>1, <2>3
<1> QED BY <1>1, <1>3, <1>9 DEF Good

(* PassedStages, of the nodes ns at part b of node a; all stages at the end. *)
PartsOf(ns, a) == UNION {{i} \X DOMAIN ns[i].parts : i \in a + 2 .. Len(ns)}
PassedAt(ns, total, a, b) ==
  LET passed == Cardinality(PartsOf(ns, a)) + b IN
  IF a = 0 THEN total ELSE IF passed = 0 THEN 0 ELSE passed - 1

(* The parts of the nodes before node a. *)
LEMMA PartsBefore ==
  ASSUME NEW bp \in Chains, NEW s \in Seq(Stages), NEW off, Placed(bp, off, s),
         NEW ns, ns = <<EndNode>> \o bp, NEW a \in 1 .. Len(bp)
  PROVE  Cardinality(PartsOf(ns, a)) = off[a]
<1>1. PICK n \in Nat : n = Len(bp)
  BY PlacedFacts
<1>2. Len(ns) = n + 1 /\ \A i \in 1 .. n : ns[i + 1] = bp[i]
  <2>1. Len(<<EndNode>> \o bp) = Len(bp) + 1 /\ \A i \in 1 .. Len(bp) : (<<EndNode>> \o bp)[i + 1] = bp[i]
    BY DEF Chains
  <2> QED BY <1>1, <2>1
<1> DEFINE Before(k) == UNION {{i} \X DOMAIN ns[i].parts : i \in k + 2 .. n + 1}
           Good(k) == IsFiniteSet(Before(k)) /\ Cardinality(Before(k)) = off[k]
<1>3. /\ n >= 1 /\ \A i \in 1 .. n : /\ off[i] \in Nat /\ bp[i].parts \in Seq(Stages)
                                     /\ Len(bp[i].parts) \in Nat /\ DOMAIN bp[i].parts = 1 .. Len(bp[i].parts)
      /\ off[n] = 0 /\ \A i \in 1 .. n - 1 : off[i] = off[i + 1] + Len(bp[i + 1].parts)
  <2>1. ASSUME NEW i \in 1 .. n
        PROVE  bp[i].parts \in Seq(Stages)
    BY <1>1, PlacedFacts DEF Inner
  <2>2. /\ n >= 1 /\ \A i \in 1 .. n : off[i] \in Nat /\ Len(bp[i].parts) \in Nat
        /\ \A i \in 1 .. n - 1 : off[i] = off[i + 1] + Len(bp[i + 1].parts)
    BY <1>1, PlacedFacts
  <2>3. off[n] = 0
    BY <1>1 DEF Placed
  <2> QED BY <2>1, <2>2, <2>3
<1>4. Good(n)
  <2>1. n + 2 .. n + 1 = {}
    OBVIOUS
  <2>2. Before(n) = {}
    BY <2>1
  <2> QED BY <1>3, <2>2, FS_EmptySet
<1>5. ASSUME NEW k \in 1 .. n - 1, Good(k + 1)
      PROVE  Good(k)
  <2>1. k + 2 \in Nat /\ k + 2 .. n + 1 = {k + 2} \cup (k + 3 .. n + 1) /\ k + 2 \notin k + 3 .. n + 1
        /\ (k + 1) + 2 = k + 3 /\ k + 1 \in 1 .. n /\ (k + 1) + 1 = k + 2
    BY <1>1
  <2>2. PICK m \in Nat, l \in Nat : m = k + 2 /\ l = Len(bp[k + 1].parts) /\ DOMAIN ns[m].parts = 1 .. l
    <3>1. PICK j \in 1 .. n : j = k + 1 /\ j + 1 = k + 2
      BY <2>1
    <3>2. ns[j + 1] = bp[j] /\ Len(bp[j].parts) \in Nat /\ DOMAIN bp[j].parts = 1 .. Len(bp[j].parts)
      BY <1>3, <1>2
    <3> QED BY <2>1, <3>1, <3>2
  <2>3. PICK new : new = {m} \X (1 .. l)
    OBVIOUS
  <2>4. IsFiniteSet(new) /\ Cardinality(new) = l
    <3>1. IsFiniteSet({m}) /\ Cardinality({m}) = 1
      BY FS_Singleton
    <3>2. IsFiniteSet(1 .. l) /\ Cardinality(1 .. l) = l
      <4>1. 1 \in Int /\ l \in Int /\ (IF 1 > l THEN 0 ELSE l - 1 + 1) = l
        BY <2>2
      <4> QED BY <4>1, FS_Interval
    <3>3. PICK one, all : one = {m} /\ all = 1 .. l
      OBVIOUS
    <3>4. IsFiniteSet(one) /\ IsFiniteSet(all)
      BY <3>1, <3>2, <3>3
    <3>5. IsFiniteSet(one \X all) /\ Cardinality(one \X all) = Cardinality(one) * Cardinality(all)
      BY <3>4, FS_Product
    <3>6. 1 * l = l
      BY <2>2
    <3> QED BY <2>3, <3>1, <3>2, <3>3, <3>5, <3>6
  <2>5. Before(k) = new \cup Before(k + 1)
    <3>1. Before(k) = UNION {{i} \X DOMAIN ns[i].parts : i \in {m} \cup (k + 3 .. n + 1)}
      BY <2>1, <2>2
    <3>2. Before(k + 1) = UNION {{i} \X DOMAIN ns[i].parts : i \in k + 3 .. n + 1}
      BY <2>1
    <3>3. PICK later : later = k + 3 .. n + 1
      OBVIOUS
    <3>4. ASSUME NEW x
          PROVE  x \in Before(k) <=> x \in new \/ x \in Before(k + 1)
      <4>1. x \in Before(k) <=> \E i \in {m} \cup later : x \in {i} \X DOMAIN ns[i].parts
        BY <3>1, <3>3
      <4>2. x \in Before(k + 1) <=> \E i \in later : x \in {i} \X DOMAIN ns[i].parts
        BY <3>2, <3>3
      <4>3. x \in new <=> x \in {m} \X DOMAIN ns[m].parts
        BY <2>2, <2>3
      <4> QED BY <4>1, <4>2, <4>3
    <3> HIDE DEF Before
    <3> QED BY <3>4
  <2>6. new \cap Before(k + 1) = {}
    <3> SUFFICES ASSUME NEW x \in new, NEW i \in k + 3 .. n + 1, x \in {i} \X DOMAIN ns[i].parts
                 PROVE  FALSE
      BY <2>1
    <3>1. x[1] = m /\ x[1] = i
      BY <2>3
    <3> QED BY <2>1, <2>2, <3>1
  <2>7. PICK old : old = Before(k + 1)
    OBVIOUS
  <2>8. IsFiniteSet(old) /\ Cardinality(old) = off[k + 1] /\ new \cap old = {} /\ Before(k) = new \cup old
    BY <1>5, <2>5, <2>6, <2>7
  <2> HIDE DEF Before
  <2>9. IsFiniteSet(new \cup old) /\ Cardinality(new \cup old) = Cardinality(new) + Cardinality(old) - 0
    <3>1. Cardinality({}) = 0
      BY FS_EmptySet
    <3>2. /\ IsFiniteSet(new \cup old)
          /\ Cardinality(new \cup old) = Cardinality(new) + Cardinality(old) - Cardinality(new \cap old)
      BY <2>4, <2>8, FS_Union
    <3> QED BY <2>8, <3>1, <3>2
  <2>10. off[k] = off[k + 1] + l /\ off[k + 1] \in Nat
    BY <1>3, <2>1, <2>2
  <2> QED BY <2>2, <2>4, <2>8, <2>9, <2>10
<1> HIDE DEF Good
<1>6. \A d \in 0 .. n - 1 : Good(n - d)
  <2>1. PICK top \in Nat : top = n - 1
    BY <1>3
  <2>2. PICK good : good = {d \in 0 .. top : Good(n - d)}
    OBVIOUS
  <2>3. n - 0 = n
    OBVIOUS
  <2>4. 0 \in good
    BY <1>4, <2>1, <2>3, <2>2
  <2>5. ASSUME NEW d \in 1 .. top, d - 1 \in good
        PROVE  d \in good
    <3>1. n - d \in 1 .. n - 1 /\ n - (d - 1) = (n - d) + 1 /\ d \in 0 .. top
      BY <2>1
    <3>2. Good((n - d) + 1)
      BY <2>5, <2>2, <3>1
    <3> QED BY <1>5, <2>2, <3>1, <3>2
  <2>6. \A d \in 1 .. top : d - 1 \in good => d \in good
    BY <2>5
  <2>7. 0 .. top \subseteq good
    BY <2>1, <2>4, <2>6, UpTo
  <2> QED BY <2>1, <2>2, <2>7
<1>7. n - a \in 0 .. n - 1 /\ n - (n - a) = a
  BY <1>1
<1>8. Good(a)
  BY <1>6, <1>7
<1>9. PartsOf(ns, a) = Before(a)
  BY <1>2 DEF PartsOf
<1> QED BY <1>8, <1>9 DEF Good

(* ns is a blueprint of the stages s. *)
LaidOut(ns, bp, off, s) ==
  bp \in Chains /\ s \in Seq(Stages) /\ Placed(bp, off, s) /\ ns = <<EndNode>> \o bp

(* Where a run is in the pipeline. *)
LEMMA PassedCounted ==
  ASSUME NEW ns, NEW bp, NEW off, NEW s, LaidOut(ns, bp, off, s), NEW a \in 1 .. Len(bp), NEW b \in Nat
  PROVE  PassedAt(ns, Len(s), a, b) = IF off[a] + b = 0 THEN 0 ELSE off[a] + b - 1
<1>1. Cardinality(PartsOf(ns, a)) = off[a]
  BY PartsBefore DEF LaidOut
<1>2. a # 0 /\ off[a] \in Nat
  BY PlacedFacts DEF LaidOut
<1> QED BY <1>1, <1>2 DEF PassedAt

(* The next part is the identity or the next stage of s. *)
LEMMA NextPart ==
  ASSUME NEW ns, NEW bp, NEW off, NEW s, LaidOut(ns, bp, off, s), NEW a \in 1 .. Len(bp), NEW b \in Nat,
         NEW l \in Nat, l = Len(bp[a].parts), NEW a2, NEW b2,
         \/ b + 1 < l /\ a2 = a /\ b2 = b + 1
         \/ b + 1 = l /\ a2 = a - 1 /\ b2 = 0,
         NEW m, m = PassedAt(ns, Len(s), a, b), NEW m2, m2 = PassedAt(ns, Len(s), a2, b2)
  PROVE  /\ m \in Nat /\ m <= Len(s)
         /\ \/ m2 = m /\ bp[a].parts[b + 1] = "identity" /\ bp[a].kind = "calc"
            \/ /\ m2 = m + 1 /\ m < Len(s) /\ bp[a].parts[b + 1] = s[m + 1]
               /\ bp[a].kind = "control" <=> s[m + 1] \in Executors
<1>1. PICK n \in Nat, len \in Nat, o \in Nat :
        n = Len(bp) /\ len = Len(s) /\ o = off[a] /\ o + l <= len + 1 /\ a \in 1 .. n
  BY PlacedFacts DEF LaidOut
<1>2. m = IF o + b = 0 THEN 0 ELSE o + b - 1
  <2>1. m = IF off[a] + b = 0 THEN 0 ELSE off[a] + b - 1
    BY PassedCounted
  <2>2. off[a] = o
    BY <1>1
  <2> QED BY <2>1, <2>2
<1>3. b + 1 \in 1 .. l
  OBVIOUS
<1>4. m2 = o + b
  <2>1. CASE b + 1 < l /\ a2 = a /\ b2 = b + 1
    <3>1. b + 1 \in Nat /\ m2 = PassedAt(ns, Len(s), a, b + 1)
      BY <2>1
    <3>2. m2 = IF off[a] + (b + 1) = 0 THEN 0 ELSE off[a] + (b + 1) - 1
      BY <3>1, PassedCounted
    <3>3. off[a] = o /\ o \in Nat
      BY <1>1
    <3> QED BY <3>2, <3>3
  <2>2. CASE b + 1 = l /\ a2 = a - 1 /\ b2 = 0 /\ a # 1
    <3>1. a2 \in 1 .. Len(bp) /\ a2 \in 1 .. n - 1 /\ a2 + 1 = a
      BY <1>1, <2>2
    <3>2. off[a2] = o + l
      <4>1. a2 \in 1 .. Len(bp) - 1
        BY <1>1, <3>1
      <4>2. off[a2] = off[a2 + 1] + Len(bp[a2 + 1].parts)
        BY <4>1, PlacedFacts DEF LaidOut
      <4> QED BY <1>1, <3>1, <4>2
    <3>3. m2 = IF off[a2] + b2 = 0 THEN 0 ELSE off[a2] + b2 - 1
      <4>1. b2 \in Nat
        BY <2>2
      <4> QED BY <3>1, <4>1, PassedCounted
    <3>4. off[a2] + b2 = o + (b + 1) /\ o \in Nat
      <4>1. b2 = 0 /\ l = b + 1 /\ b \in Nat /\ o \in Nat /\ off[a2] = o + l
        BY <1>1, <2>2, <3>2
      <4> QED BY ONLY <4>1
    <3>5. off[a2] + b2 = 0 => m2 = 0
      BY <3>3
    <3>6. off[a2] + b2 # 0 => m2 = off[a2] + b2 - 1
      BY <3>3
    <3>7. off[a2] \in Nat /\ b2 \in Nat /\ b \in Nat
      BY <1>1, <2>2, <3>2
    <3> QED BY <3>4, <3>5, <3>6, <3>7
  <2>3. CASE b + 1 = l /\ a2 = a - 1 /\ a = 1
    <3>1. a2 = 0
      BY <2>3
    <3>2. m2 = len
      BY <1>1, <3>1 DEF PassedAt
    <3>3. o + l = len + 1
      <4>1. off[1] + Len(bp[1].parts) = Len(s) + 1
        BY PlacedFacts DEF LaidOut
      <4> QED BY <1>1, <2>3, <4>1
    <3> QED BY <1>1, <2>3, <3>2, <3>3
  <2> QED BY <1>1, <2>1, <2>2, <2>3
<1>5. PartsAre(bp[a], o, s)
  BY <1>1 DEF Placed, LaidOut
<1>6. IF o + (b + 1) = 1 THEN bp[a].kind = "calc" /\ bp[a].parts[b + 1] = "identity"
      ELSE bp[a].parts[b + 1] = s[o + (b + 1) - 1] /\ (bp[a].kind = "control" <=> s[o + (b + 1) - 1] \in Executors)
  BY <1>3, <1>5 DEF PartsAre
<1>7. CASE o + b = 0
  <2>1. m = 0 /\ m2 = 0 /\ o + (b + 1) = 1
    BY <1>1, <1>2, <1>4, <1>7
  <2> QED BY <1>1, <1>6, <2>1
<1>8. CASE o + b # 0
  <2>1. PICK k \in Int : k = o + b - 1
    BY <1>1
  <2>2. o \in Nat /\ b \in Nat /\ len \in Nat /\ o + l <= len + 1 /\ b + 1 <= l /\ l \in Nat
    BY <1>1, <1>3
  <2>3. k \in Nat /\ o + b = k + 1 /\ o + (b + 1) # 1 /\ o + (b + 1) - 1 = k + 1 /\ k < len
    BY ONLY <1>8, <2>1, <2>2
  <2>4. m = k /\ m2 = k + 1
    BY <1>2, <1>4, <1>8, <2>1, <2>3
  <2>5. bp[a].parts[b + 1] = s[k + 1] /\ (bp[a].kind = "control" <=> s[k + 1] \in Executors)
    BY <1>6, <2>3
  <2> QED BY <1>1, <2>3, <2>4, <2>5
<1> QED BY <1>7, <1>8

StagesInv ==
  /\ pipeline \in Pipelines /\ nodes = Blueprint(pipeline)
  /\ \A r \in Runs : pc[r] \in {"end", "store", "flag", "count"} => at[r] = 0

PassedOf == [r \in Runs |-> PassedAt(nodes, Len(Effective(pipeline)), at[r], part[r])]
RunningOf == [r \in Runs |-> pc[r] # "idle"]

(* PassedOf and RunningOf are what FlowRunner substitutes in its promise. *)
LEMMA Substituted ==
  /\ [r \in Runs |-> IF at[r] = 0 THEN Len(Effective(pipeline)) ELSE PassedStages(r)] = PassedOf
  /\ [r \in Runs |-> IF at[r] = 0 THEN Len(Effective(pipeline)) ELSE PassedStages(r)]' = PassedOf'
  /\ Promise!Stages = Effective(pipeline)
  /\ \A stage, in : Promise!Effect(stage, in) = Effect(stage, in)
<1>1. [r \in Runs |-> IF at[r] = 0 THEN Len(Effective(pipeline)) ELSE PassedStages(r)] = PassedOf
  BY DEF PassedOf, PassedAt, PassedStages, PartsOf
<1>2. [r \in Runs |-> IF at[r] = 0 THEN Len(Effective(pipeline)) ELSE PassedStages(r)]' = PassedOf'
  BY DEF PassedOf, PassedAt, PassedStages, PartsOf
<1>3. Promise!Stages = Effective(pipeline)
  BY DEF Promise!Stages, Promise!Effective, Effective
<1>4. \A stage, in : Promise!Effect(stage, in) = Effect(stage, in)
  BY DEF Promise!Effect, Effect
<1> QED BY <1>1, <1>2, <1>3, <1>4

(* The actions of the promise, in these terms. *)
LEMMA PromiseSteps ==
  ASSUME NEW r \in Runs, UNCHANGED <<pipeline, cancel>>
  PROVE  /\ (/\ ~RunningOf[r] /\ RunningOf' = [RunningOf EXCEPT ![r] = TRUE]
             /\ PassedOf' = [PassedOf EXCEPT ![r] = 0] /\ val' = [val EXCEPT ![r] = "value"]
             /\ where' = [where EXCEPT ![r] = "caller"]) => Promise!Start(r)
         /\ (/\ RunningOf[r] /\ PassedOf[r] < Len(Effective(pipeline))
             /\ Effective(pipeline)[PassedOf[r] + 1] \notin Executors
             /\ \E v \in Effect(Effective(pipeline)[PassedOf[r] + 1], val[r]) : val' = [val EXCEPT ![r] = v]
             /\ PassedOf' = [PassedOf EXCEPT ![r] = PassedOf[r] + 1]
             /\ UNCHANGED <<where, RunningOf>>) => Promise!Calc(r)
         /\ (/\ RunningOf[r] /\ PassedOf[r] < Len(Effective(pipeline))
             /\ Effective(pipeline)[PassedOf[r] + 1] \in Executors
             /\ where' = [where EXCEPT ![r] = Effective(pipeline)[PassedOf[r] + 1]]
             /\ PassedOf' = [PassedOf EXCEPT ![r] = PassedOf[r] + 1]
             /\ UNCHANGED <<val, RunningOf>>) => Promise!Via(r)
         /\ (/\ RunningOf[r] /\ cancel = "hard" /\ val' = [val EXCEPT ![r] = "hard"]
             /\ PassedOf' = [PassedOf EXCEPT ![r] = Len(Effective(pipeline))]
             /\ UNCHANGED <<where, RunningOf>>) => Promise!HardCanceled(r)
         /\ (/\ RunningOf[r] /\ cancel = "soft" /\ val' = [val EXCEPT ![r] = "soft"]
             /\ UNCHANGED <<PassedOf, where, RunningOf>>) => Promise!SoftCanceled(r)
         /\ (/\ RunningOf[r] /\ PassedOf[r] = Len(Effective(pipeline))
             /\ RunningOf' = [RunningOf EXCEPT ![r] = FALSE]
             /\ UNCHANGED <<PassedOf, val, where>>) => Promise!Deliver(r)
<1> DEFINE passed == [q \in Runs |-> IF at[q] = 0 THEN Len(Effective(pipeline)) ELSE PassedStages(q)]
<1>1. passed = PassedOf /\ passed' = PassedOf'
  BY Substituted
<1>2. RunningOf = [q \in Runs |-> pc[q] # "idle"] /\ RunningOf' = [q \in Runs |-> pc[q] # "idle"]'
  BY DEF RunningOf
<1>3. Promise!Stages = Effective(pipeline) /\ \A stage, in : Promise!Effect(stage, in) = Effect(stage, in)
  BY Substituted
<1> HIDE DEF RunningOf
<1>4. ASSUME ~RunningOf[r], RunningOf' = [RunningOf EXCEPT ![r] = TRUE], passed' = [passed EXCEPT ![r] = 0],
             val' = [val EXCEPT ![r] = "value"], where' = [where EXCEPT ![r] = "caller"]
      PROVE  Promise!Start(r)
  BY <1>2, <1>4 DEF Promise!Start
<1>5. ASSUME RunningOf[r], passed[r] < Len(Promise!Stages), Promise!Stages[passed[r] + 1] \notin Executors,
             \E v \in Promise!Effect(Promise!Stages[passed[r] + 1], val[r]) : val' = [val EXCEPT ![r] = v],
             passed' = [passed EXCEPT ![r] = passed[r] + 1], UNCHANGED <<where, RunningOf>>
      PROVE  Promise!Calc(r)
  BY <1>2, <1>5 DEF Promise!Calc
<1>6. ASSUME RunningOf[r], passed[r] < Len(Promise!Stages), Promise!Stages[passed[r] + 1] \in Executors,
             where' = [where EXCEPT ![r] = Promise!Stages[passed[r] + 1]],
             passed' = [passed EXCEPT ![r] = passed[r] + 1], UNCHANGED <<val, RunningOf>>
      PROVE  Promise!Via(r)
  BY <1>2, <1>6 DEF Promise!Via
<1>7. ASSUME RunningOf[r], cancel = "hard", val' = [val EXCEPT ![r] = "hard"],
             passed' = [passed EXCEPT ![r] = Len(Promise!Stages)], UNCHANGED <<where, RunningOf>>
      PROVE  Promise!HardCanceled(r)
  BY <1>2, <1>7 DEF Promise!HardCanceled
<1>8. ASSUME RunningOf[r], cancel = "soft", val' = [val EXCEPT ![r] = "soft"],
             UNCHANGED <<passed, where, RunningOf>>
      PROVE  Promise!SoftCanceled(r)
  BY <1>2, <1>8 DEF Promise!SoftCanceled
<1>9. ASSUME RunningOf[r], passed[r] = Len(Promise!Stages), RunningOf' = [RunningOf EXCEPT ![r] = FALSE],
             UNCHANGED <<passed, val, where>>
      PROVE  Promise!Deliver(r)
  BY <1>2, <1>9 DEF Promise!Deliver
<1> HIDE DEF passed
<1> QED BY <1>1, <1>3, <1>4, <1>5, <1>6, <1>7, <1>8, <1>9

(* The nodes are a blueprint of the stages that are left of the pipeline. *)
LEMMA NodesLaidOut ==
  ASSUME RowsAgree, StagesInv
  PROVE  /\ Effective(pipeline) \in Seq(Stages)
         /\ \E bp, off : /\ LaidOut(nodes, bp, off, Effective(pipeline)) /\ bp \in Chains
                         /\ Len(nodes) = Len(bp) + 1 /\ \A i \in 1 .. Len(bp) : nodes[i + 1] = bp[i]
<1>1. PICK p \in Pipelines : p = pipeline /\ nodes = Blueprint(p)
  BY DEF StagesInv
<1>2. PICK bp, off : bp \in Chains /\ Blueprint(p) = <<EndNode>> \o bp /\ Placed(bp, off, Effective(p))
  BY StagesPlaced
<1>3. Effective(p) \in Seq(Stages)
  BY StagesPlaced
<1>4. Len(<<EndNode>> \o bp) = Len(bp) + 1 /\ \A i \in 1 .. Len(bp) : (<<EndNode>> \o bp)[i + 1] = bp[i]
  BY DEF Chains
<1>5. LaidOut(nodes, bp, off, Effective(p))
  BY <1>1, <1>2, <1>3 DEF LaidOut
<1> QED BY <1>1, <1>2, <1>3, <1>4, <1>5

(* A step of one run. *)
LEMMA OneRunMoves ==
  ASSUME RunnerTypeOK, NEW r \in Runs, UNCHANGED <<pipeline, nodes>>,
         \A q \in Runs \ {r} : at'[q] = at[q] /\ part'[q] = part[q] /\ pc'[q] = pc[q]
  PROVE  /\ PassedOf' = [PassedOf EXCEPT ![r] = PassedAt(nodes, Len(Effective(pipeline)), at'[r], part'[r])]
         /\ PassedOf[r] = PassedAt(nodes, Len(Effective(pipeline)), at[r], part[r])
         /\ RunningOf' = [RunningOf EXCEPT ![r] = pc'[r] # "idle"]
         /\ RunningOf[r] <=> pc[r] # "idle"
         /\ at'[r] = at[r] /\ part'[r] = part[r] => PassedOf' = PassedOf
         /\ (pc'[r] = "idle" <=> pc[r] = "idle") => RunningOf' = RunningOf
<1>1. PassedOf' = [q \in Runs |-> PassedAt(nodes, Len(Effective(pipeline)), at'[q], part'[q])]
  BY DEF PassedOf
<1>2. RunningOf' = [q \in Runs |-> pc'[q] # "idle"]
  BY DEF RunningOf
<1>3. PassedOf' = [PassedOf EXCEPT ![r] = PassedAt(nodes, Len(Effective(pipeline)), at'[r], part'[r])]
  BY <1>1 DEF PassedOf
<1>4. RunningOf' = [RunningOf EXCEPT ![r] = pc'[r] # "idle"]
  BY <1>2 DEF RunningOf
<1>5. at'[r] = at[r] /\ part'[r] = part[r] => PassedOf' = PassedOf
  BY <1>1 DEF PassedOf
<1>6. (pc'[r] = "idle" <=> pc[r] = "idle") => RunningOf' = RunningOf
  BY <1>2 DEF RunningOf
<1> QED BY <1>3, <1>4, <1>5, <1>6 DEF PassedOf, RunningOf

(* Nothing of the promise changes. *)
LEMMA PromiseStutters ==
  ASSUME UNCHANGED <<pipeline, cancel, val, where, PassedOf, RunningOf>>
  PROVE  UNCHANGED Promise!vars
  BY Substituted DEF Promise!vars, RunningOf

(* A stage of a calc node is the identity or the next stage of the pipeline. *)
LEMMA StageRefines ==
  ASSUME RowsAgree, StagesInv, RunnerInv, NEW r \in Runs, RunStage(r)
  PROVE  Promise!Calc(r) \/ UNCHANGED Promise!vars
<1> DEFINE s == Effective(pipeline)
<1>1. PICK bp, off : /\ bp \in Chains /\ LaidOut(nodes, bp, off, s) /\ Len(nodes) = Len(bp) + 1
                     /\ \A i \in 1 .. Len(bp) : nodes[i + 1] = bp[i]
  BY NodesLaidOut
<1>2. PICK v \in Effect(Node(r).parts[part[r] + 1], val[r]) : val' = [val EXCEPT ![r] = v]
  BY DEF RunStage
<1>3. /\ UNCHANGED <<pipeline, nodes, cancel, where>> /\ pc[r] = "node" /\ Node(r).kind = "calc"
      /\ \/ part[r] + 1 = Len(Node(r).parts) /\ Onward(r)
         \/ /\ part[r] + 1 < Len(Node(r).parts)
            /\ part' = [part EXCEPT ![r] = part[r] + 1] /\ UNCHANGED <<at, pc>>
  BY DEF RunStage, ownership
<1>4. PICK a \in 1 .. Len(bp), b \in Nat : a = at[r] /\ b = part[r] /\ Node(r) = bp[a]
  <2>1. at[r] \in 1 .. Len(nodes) - 1 /\ part[r] \in Nat
    BY <1>3, RunFacts DEF PlacesOK, OnItsWay
  <2>2. at[r] \in 1 .. Len(bp)
    BY <1>1, <2>1
  <2> QED BY <1>1, <2>1, <2>2 DEF Node
<1>5. PICK l \in Nat : l = Len(bp[a].parts)
  BY <1>1, PlacedFacts DEF LaidOut
<1>6. /\ \A q \in Runs \ {r} : at'[q] = at[q] /\ part'[q] = part[q] /\ pc'[q] = pc[q]
      /\ \/ b + 1 < l /\ at'[r] = a /\ part'[r] = b + 1
         \/ b + 1 = l /\ at'[r] = a - 1 /\ part'[r] = 0
      /\ pc'[r] # "idle"
  BY <1>3, <1>4, <1>5 DEF Onward, Entry, RunnerInv, RunnerTypeOK
<1>7. PICK m, m2 : m = PassedAt(nodes, Len(s), a, b) /\ m2 = PassedAt(nodes, Len(s), at'[r], part'[r])
  OBVIOUS
<1>8. /\ m \in Nat
      /\ \/ m2 = m /\ bp[a].parts[b + 1] = "identity"
         \/ m2 = m + 1 /\ m < Len(s) /\ bp[a].parts[b + 1] = s[m + 1] /\ s[m + 1] \notin Executors
  <2>1. PICK a2, b2 : a2 = at'[r] /\ b2 = part'[r]
    OBVIOUS
  <2>2. PICK ns : ns = nodes
    OBVIOUS
  <2>3. LaidOut(ns, bp, off, s)
    BY <1>1, <2>2
  <2>4. \/ b + 1 < l /\ a2 = a /\ b2 = b + 1
        \/ b + 1 = l /\ a2 = a - 1 /\ b2 = 0
    BY <1>6, <2>1
  <2>5. m = PassedAt(ns, Len(s), a, b) /\ m2 = PassedAt(ns, Len(s), a2, b2)
    BY <1>7, <2>1, <2>2
  <2> HIDE DEF s
  <2>6. /\ m \in Nat
        /\ \/ m2 = m /\ bp[a].parts[b + 1] = "identity" /\ bp[a].kind = "calc"
           \/ /\ m2 = m + 1 /\ m < Len(s) /\ bp[a].parts[b + 1] = s[m + 1]
              /\ bp[a].kind = "control" <=> s[m + 1] \in Executors
    BY <1>5, <2>3, <2>4, <2>5, NextPart
  <2> QED BY <1>3, <1>4, <2>6
<1>9. /\ PassedOf' = [PassedOf EXCEPT ![r] = m2] /\ PassedOf[r] = m /\ RunningOf[r] /\ RunningOf' = RunningOf
  BY <1>3, <1>4, <1>6, <1>7, OneRunMoves DEF RunnerInv
<1>10. CASE m2 = m /\ bp[a].parts[b + 1] = "identity"
  <2>1. PassedOf' = PassedOf
    BY <1>9, <1>10 DEF PassedOf
  <2>2. v = val[r]
    BY <1>2, <1>4, <1>10 DEF Effect
  <2>3. val' = val
    BY <1>2, <2>2 DEF RunnerInv, RunnerTypeOK
  <2> QED BY <1>3, <1>9, <2>1, <2>3, PromiseStutters
<1>11. CASE m2 = m + 1 /\ m < Len(s) /\ bp[a].parts[b + 1] = s[m + 1] /\ s[m + 1] \notin Executors
  <2>1. \E w \in Effect(s[PassedOf[r] + 1], val[r]) : val' = [val EXCEPT ![r] = w]
    BY <1>2, <1>4, <1>9, <1>11
  <2> HIDE DEF s
  <2>2. Promise!Calc(r)
    BY <1>3, <1>9, <1>11, <2>1, PromiseSteps DEF s
  <2> QED BY <2>2
<1> QED BY <1>8, <1>10, <1>11

(* The task of a via runs on its executor. *)
LEMMA TaskRefines ==
  ASSUME RowsAgree, StagesInv, RunnerInv, NEW r \in Runs, TaskRuns(r)
  PROVE  Promise!Via(r)
<1> DEFINE s == Effective(pipeline)
<1>1. PICK bp, off : /\ bp \in Chains /\ LaidOut(nodes, bp, off, s) /\ Len(nodes) = Len(bp) + 1
                     /\ \A i \in 1 .. Len(bp) : nodes[i + 1] = bp[i]
  BY NodesLaidOut
<1>2. /\ UNCHANGED <<pipeline, nodes, cancel, val>> /\ pc[r] = "queued"
      /\ where' = [where EXCEPT ![r] = Node(r).parts[1]] /\ Onward(r)
  BY DEF TaskRuns
<1>3. PICK a \in 1 .. Len(bp) : a = at[r] /\ part[r] = 0 /\ Node(r) = bp[a] /\ bp[a].kind = "control"
  <2>1. at[r] \in 1 .. Len(nodes) - 1 /\ part[r] = 0 /\ at[r] \in Controls
    BY <1>2, RunFacts DEF PlacesOK, OnItsWay
  <2>2. at[r] \in 1 .. Len(bp)
    BY <1>1, <2>1
  <2> QED BY <1>1, <2>1, <2>2 DEF Node, Controls
<1>4. PICK l \in Nat : l = Len(bp[a].parts) /\ l = 1
  <2>1. bp[a].kind = "control" => Len(bp[a].parts) = 1
    BY <1>1 DEF LaidOut, Placed, PartsAre
  <2> QED BY <1>3, <2>1
<1>5. /\ \A q \in Runs \ {r} : at'[q] = at[q] /\ part'[q] = part[q] /\ pc'[q] = pc[q]
      /\ at'[r] = a - 1 /\ part'[r] = 0 /\ pc'[r] # "idle"
  BY <1>2, <1>3 DEF Onward, Entry, RunnerInv, RunnerTypeOK
<1>6. PICK m, m2 : m = PassedAt(nodes, Len(s), a, 0) /\ m2 = PassedAt(nodes, Len(s), at'[r], part'[r])
  OBVIOUS
<1>7. m \in Nat /\ m2 = m + 1 /\ m < Len(s) /\ bp[a].parts[1] = s[m + 1] /\ s[m + 1] \in Executors
  <2>1. PICK a2, b2 : a2 = at'[r] /\ b2 = part'[r]
    OBVIOUS
  <2>2. PICK ns, b : ns = nodes /\ b = 0
    OBVIOUS
  <2>3. LaidOut(ns, bp, off, s)
    BY <1>1, <2>2
  <2>4. /\ b \in Nat
        /\ \/ b + 1 < l /\ a2 = a /\ b2 = b + 1
           \/ b + 1 = l /\ a2 = a - 1 /\ b2 = 0
    BY <1>4, <1>5, <2>1, <2>2
  <2>5. m = PassedAt(ns, Len(s), a, b) /\ m2 = PassedAt(ns, Len(s), a2, b2)
    BY <1>6, <2>1, <2>2
  <2>6. l = Len(bp[a].parts)
    BY <1>4
  <2> HIDE DEF s
  <2>7. /\ m \in Nat
        /\ \/ m2 = m /\ bp[a].parts[b + 1] = "identity" /\ bp[a].kind = "calc"
           \/ /\ m2 = m + 1 /\ m < Len(s) /\ bp[a].parts[b + 1] = s[m + 1]
              /\ bp[a].kind = "control" <=> s[m + 1] \in Executors
    BY <2>6, <2>3, <2>4, <2>5, NextPart
  <2> QED BY <1>3, <2>2, <2>7
<1>8. /\ PassedOf' = [PassedOf EXCEPT ![r] = m2] /\ PassedOf[r] = m /\ RunningOf[r] /\ RunningOf' = RunningOf
  BY <1>2, <1>3, <1>5, <1>6, OneRunMoves DEF RunnerInv
<1> HIDE DEF s
<1>9. where' = [where EXCEPT ![r] = s[PassedOf[r] + 1]]
  BY <1>2, <1>3, <1>7, <1>8
<1> QED BY <1>2, <1>7, <1>8, <1>9, PromiseSteps DEF s

(* The tests of the controller. *)
LEMMA ChecksRefine ==
  ASSUME RunnerInv, NEW r \in Runs, CheckHard(r) \/ CheckSoft(r)
  PROVE  Promise!HardCanceled(r) \/ Promise!SoftCanceled(r) \/ UNCHANGED Promise!vars
<1>1. /\ UNCHANGED <<pipeline, nodes, cancel, where, part>> /\ pc[r] # "idle"
      /\ \A q \in Runs \ {r} : at'[q] = at[q] /\ part'[q] = part[q] /\ pc'[q] = pc[q]
      /\ pc'[r] # "idle"
  BY DEF CheckHard, CheckSoft, RunnerInv, RunnerTypeOK
<1>2. RunningOf[r] /\ RunningOf' = RunningOf
  BY <1>1, OneRunMoves DEF RunnerInv
<1>3. CASE CheckHard(r) /\ cancel = "hard"
  <2>1. at'[r] = 0 /\ val' = [val EXCEPT ![r] = "hard"]
    BY <1>3 DEF CheckHard, RunnerInv, RunnerTypeOK
  <2>2. PassedOf' = [PassedOf EXCEPT ![r] = Len(Effective(pipeline))]
    <3>1. PassedAt(nodes, Len(Effective(pipeline)), at'[r], part'[r]) = Len(Effective(pipeline))
      BY <2>1 DEF PassedAt
    <3> QED BY <1>1, <3>1, OneRunMoves DEF RunnerInv
  <2> QED BY <1>1, <1>2, <1>3, <2>1, <2>2, PromiseSteps
<1>4. CASE CheckHard(r) /\ cancel # "hard"
  <2>1. UNCHANGED <<at, part, val>>
    BY <1>4 DEF CheckHard
  <2>2. PassedOf' = PassedOf
    BY <1>1, <2>1, OneRunMoves DEF RunnerInv
  <2> QED BY <1>1, <1>2, <2>1, <2>2, PromiseStutters
<1>5. CASE CheckSoft(r)
  <2>1. UNCHANGED <<at, part>> /\ val' = [val EXCEPT ![r] = IF cancel = "soft" THEN "soft" ELSE val[r]]
    BY <1>5 DEF CheckSoft
  <2>2. PassedOf' = PassedOf
    BY <1>1, <2>1, OneRunMoves DEF RunnerInv
  <2>3. cancel # "soft" => val' = val
    BY <2>1 DEF RunnerInv, RunnerTypeOK
  <2> QED BY <1>1, <1>2, <2>1, <2>2, <2>3, PromiseSteps, PromiseStutters
<1> QED BY <1>3, <1>4, <1>5

(* A run is started at the first stage. *)
LEMMA StartRefines ==
  ASSUME RowsAgree, StagesInv, RunnerInv, NEW r \in Runs, Start(r)
  PROVE  Promise!Start(r)
<1>1. PICK bp, off : bp \in Chains /\ LaidOut(nodes, bp, off, Effective(pipeline)) /\ Len(nodes) = Len(bp) + 1
  BY NodesLaidOut
<1>2. /\ UNCHANGED <<pipeline, nodes, cancel>> /\ pc[r] = "idle"
      /\ \A q \in Runs \ {r} : at'[q] = at[q] /\ part'[q] = part[q] /\ pc'[q] = pc[q]
      /\ at'[r] = Len(nodes) - 1 /\ part'[r] = 0 /\ pc'[r] # "idle"
      /\ val' = [val EXCEPT ![r] = "value"] /\ where' = [where EXCEPT ![r] = "caller"]
  BY DEF Start, Entry, RunnerInv, RunnerTypeOK
<1>3. PassedAt(nodes, Len(Effective(pipeline)), Len(nodes) - 1, 0) = 0
  <2>1. PICK n \in Nat : n = Len(bp) /\ n >= 1 /\ n = Len(nodes) - 1
    BY <1>1, PlacedFacts DEF LaidOut
  <2>2. off[n] = 0
    BY <1>1, <2>1 DEF LaidOut, Placed
  <2>3. n \in 1 .. Len(bp) /\ 0 \in Nat
    BY <2>1
  <2>4. PassedAt(nodes, Len(Effective(pipeline)), n, 0) = IF off[n] + 0 = 0 THEN 0 ELSE off[n] + 0 - 1
    BY <1>1, <2>3, PassedCounted
  <2> QED BY <2>1, <2>2, <2>4
<1>4. /\ PassedOf' = [PassedOf EXCEPT ![r] = 0] /\ ~RunningOf[r]
      /\ RunningOf' = [RunningOf EXCEPT ![r] = TRUE]
  <2>1. PassedAt(nodes, Len(Effective(pipeline)), at'[r], part'[r]) = 0
    BY <1>2, <1>3
  <2> QED BY <1>2, <2>1, OneRunMoves DEF RunnerInv
<1> QED BY <1>2, <1>4, PromiseSteps

(* The end delivers when all stages are passed. *)
LEMMA EndRefines ==
  ASSUME StagesInv, RunnerInv, NEW r \in Runs, NEW to \in {"idle", "store", "flag", "count"},
         pc[r] \in {"end", "store", "flag", "count"}, EndGoto(r, to)
  PROVE  Promise!Deliver(r) \/ UNCHANGED Promise!vars
<1>1. /\ UNCHANGED <<pipeline, nodes, cancel, at, part, val, where>> /\ pc'[r] = to
      /\ \A q \in Runs \ {r} : at'[q] = at[q] /\ part'[q] = part[q] /\ pc'[q] = pc[q]
  BY DEF EndGoto, RunnerInv, RunnerTypeOK
<1>2. PassedOf' = PassedOf /\ RunningOf[r]
  BY <1>1, OneRunMoves DEF RunnerInv
<1>3. PassedOf[r] = Len(Effective(pipeline))
  BY DEF StagesInv, PassedOf, PassedAt
<1>4. CASE to = "idle"
  <2>1. RunningOf' = [RunningOf EXCEPT ![r] = FALSE]
    BY <1>1, <1>4, OneRunMoves DEF RunnerInv
  <2> QED BY <1>1, <1>2, <1>3, <2>1, PromiseSteps
<1>5. CASE to # "idle"
  <2>1. RunningOf' = RunningOf
    BY <1>1, <1>5, OneRunMoves DEF RunnerInv
  <2> QED BY <1>1, <1>2, <2>1, PromiseStutters
<1> QED BY <1>4, <1>5

(* Steps that the promise does not see. *)
LEMMA HiddenRefine ==
  ASSUME RunnerInv, NEW r \in Runs, Hop(r) \/ Return(r)
  PROVE  UNCHANGED Promise!vars
<1>1. /\ UNCHANGED <<pipeline, nodes, cancel, at, part, val, where>>
      /\ \A q \in Runs \ {r} : at'[q] = at[q] /\ part'[q] = part[q] /\ pc'[q] = pc[q]
      /\ pc'[r] = "idle" <=> pc[r] = "idle"
  BY DEF Hop, Return, RunnerInv, RunnerTypeOK
<1>2. PassedOf' = PassedOf /\ RunningOf' = RunningOf
  BY <1>1, OneRunMoves DEF RunnerInv
<1> QED BY <1>1, <1>2, PromiseStutters

(* A blueprint is composed once, and the end is the node 0. *)
LEMMA StagesInvKept ==
  ASSUME StagesInv, RunnerInv, [Next]_allVars
  PROVE  StagesInv'
<1>1. UNCHANGED <<pipeline, nodes>>
  BY DEF Next, StepOf, RunStep, Cancel, Start, CheckHard, CheckSoft, RunStage, Hop, TaskRuns, Return,
         TestSlot, Store, SetReady, CountUp, EndGoto, allVars, runnerVars
<1>2. ASSUME NEW q \in Runs, pc'[q] \in {"end", "store", "flag", "count"}
      PROVE  at'[q] = 0
  <2>1. CASE UNCHANGED <<pc, at>>
    BY <1>2, <2>1 DEF StagesInv
  <2>2. ASSUME NEW r \in Runs, Start(r)
        PROVE  at'[q] = 0
    <3>1. Len(nodes) - 1 # 0
      <4>1. PICK n \in Nat : n = Len(nodes) /\ n >= 2
        BY RunFacts
      <4>2. n - 1 # 0
        BY <4>1
      <4> QED BY <4>1, <4>2
    <3> QED BY <1>2, <2>2, <3>1 DEF Start, Entry, StagesInv, RunnerInv, RunnerTypeOK
  <2>3. ASSUME NEW r \in Runs, CheckHard(r) \/ CheckSoft(r)
        PROVE  at'[q] = 0
    BY <1>2, <2>3 DEF CheckHard, CheckSoft, StagesInv, RunnerInv, RunnerTypeOK
  <2>4. ASSUME NEW r \in Runs, RunStage(r) \/ TaskRuns(r)
        PROVE  at'[q] = 0
    <3>1. Onward(r) \/ UNCHANGED <<pc, at>>
      BY <2>4 DEF RunStage, TaskRuns
    <3>2. CASE Onward(r)
      BY <1>2, <3>2 DEF Onward, Entry, StagesInv, RunnerInv, RunnerTypeOK
    <3> QED BY <2>1, <3>1, <3>2
  <2>5. ASSUME NEW r \in Runs, Hop(r) \/ Return(r)
        PROVE  at'[q] = 0
    BY <1>2, <2>5 DEF Hop, Return, StagesInv, RunnerInv, RunnerTypeOK
  <2>6. ASSUME NEW r \in Runs, TestSlot(r) \/ Store(r) \/ SetReady(r) \/ CountUp(r)
        PROVE  at'[q] = 0
    BY <1>2, <2>6 DEF TestSlot, Store, SetReady, CountUp, EndGoto, StagesInv, RunnerInv, RunnerTypeOK
  <2>7. CASE Cancel
    BY <2>1, <2>7 DEF Cancel
  <2>8. CASE UNCHANGED allVars
    BY <2>1, <2>8 DEF allVars, runnerVars
  <2> QED BY <2>2, <2>3, <2>4, <2>5, <2>6, <2>7, <2>8 DEF Next, StepOf, RunStep
<1> QED BY <1>1, <1>2 DEF StagesInv

(* The promise holds at the start. *)
LEMMA InitRefines ==
  ASSUME RowsAgree, AggregatorInit
  PROVE  StagesInv /\ Promise!Init
<1>1. StagesInv
  BY DEF AggregatorInit, Init, StagesInv
<1>2. PICK bp, off : bp \in Chains /\ LaidOut(nodes, bp, off, Effective(pipeline)) /\ Len(nodes) = Len(bp) + 1
  BY <1>1, NodesLaidOut
<1>3. PassedAt(nodes, Len(Effective(pipeline)), Len(nodes) - 1, 0) = 0
  <2>1. PICK n \in Nat : n = Len(bp) /\ n >= 1 /\ n = Len(nodes) - 1
    BY <1>2, PlacedFacts DEF LaidOut
  <2>2. off[n] = 0
    BY <1>2, <2>1 DEF LaidOut, Placed
  <2>3. n \in 1 .. Len(bp) /\ 0 \in Nat
    BY <2>1
  <2>4. PassedAt(nodes, Len(Effective(pipeline)), n, 0) = IF off[n] + 0 = 0 THEN 0 ELSE off[n] + 0 - 1
    BY <1>2, <2>3, PassedCounted
  <2> QED BY <2>1, <2>2, <2>4
<1>4. PassedOf = [r \in Runs |-> 0] /\ RunningOf = [r \in Runs |-> FALSE]
  BY <1>3 DEF PassedOf, RunningOf, AggregatorInit, Init
<1> QED BY <1>1, <1>4, Substituted DEF AggregatorInit, Init, Promise!Init, RunningOf

(* The nodes do what the pipeline says, for any pipelines, runs, executors and
   cancels: the stages in their order, however they are fused into nodes, and of
   several vias in a row the last, if executors of one type in a row are the same. *)
THEOREM StagesImplemented ==
  ASSUME RowsAgree
  PROVE  Spec => ImplementsStages
<1>1. StagesInv /\ RunnerInv /\ [Next]_allVars => [Promise!Next]_Promise!vars
  <2> SUFFICES ASSUME StagesInv, RunnerInv, [Next]_allVars
               PROVE  Promise!Next \/ UNCHANGED Promise!vars
    OBVIOUS
  <2>1. CASE Cancel
    <3>1. UNCHANGED <<pipeline, val, where, PassedOf, RunningOf>> /\ cancel' \in {"soft", "hard"}
      BY <2>1 DEF Cancel, PassedOf, RunningOf
    <3>2. Promise!Cancel
      BY <3>1, Substituted DEF Promise!Cancel, RunningOf
    <3> QED BY <3>2 DEF Promise!Next
  <2>2. ASSUME NEW r \in Runs, Start(r)
        PROVE  Promise!Next
    BY <2>2, StartRefines DEF Promise!Next
  <2>3. ASSUME NEW r \in Runs, RunStep(r)
        PROVE  Promise!Next \/ UNCHANGED Promise!vars
    <3>1. \/ Promise!Calc(r) \/ Promise!Via(r) \/ Promise!HardCanceled(r) \/ Promise!SoftCanceled(r)
          \/ UNCHANGED Promise!vars
      BY <2>3, ChecksRefine, StageRefines, TaskRefines, HiddenRefine DEF RunStep
    <3> QED BY <3>1 DEF Promise!Next
  <2>4. ASSUME NEW r \in Runs, TestSlot(r) \/ Store(r) \/ SetReady(r) \/ CountUp(r)
        PROVE  Promise!Next \/ UNCHANGED Promise!vars
    <3>1. PICK to \in {"idle", "store", "flag", "count"} :
            pc[r] \in {"end", "store", "flag", "count"} /\ EndGoto(r, to)
      BY <2>4 DEF TestSlot, Store, SetReady, CountUp
    <3>2. Promise!Deliver(r) \/ UNCHANGED Promise!vars
      BY <3>1, EndRefines
    <3> QED BY <3>2 DEF Promise!Next
  <2>5. CASE UNCHANGED allVars
    <3>1. UNCHANGED <<pipeline, cancel, val, where, PassedOf, RunningOf>>
      BY <2>5 DEF allVars, runnerVars, PassedOf, RunningOf
    <3> QED BY <3>1, PromiseStutters
  <2> QED BY <2>1, <2>2, <2>3, <2>4, <2>5 DEF Next, StepOf
<1>2. AggregatorInit => StagesInv /\ Promise!Init
  BY InitRefines
<1>3. StagesInv /\ RunnerInv /\ [Next]_allVars => StagesInv'
  BY StagesInvKept
<1> QED BY <1>1, <1>2, <1>3, RunnerInvHolds, PTL DEF Spec, ImplementsStages, Promise!Spec

=============================================================================
