---------------------------- MODULE StaticMemPool ----------------------------
(***************************************************************************)
(* lite_fnds::static_mem_pool (memory/static_mem_pool.h): a buffer of lines *)
(* with the same number of bytes, line i cut into blocks of block_size(i),  *)
(* and for every line a static_list of the blocks that are free.            *)
(*                                                                         *)
(* allocate pops the smallest class that fits, then the bigger ones;        *)
(* deallocate finds the line from the address and pushes the block back,    *)
(* ignoring whether that push succeeded. A block is its offset in buff.     *)
(* MaxOff is 3 in the code; it is a parameter here to have fewer lines.     *)
(***************************************************************************)
EXTENDS StaticList

CONSTANTS
  MaxOff,         \* maxoff: the number of lines less one
  MaxBlockCount,  \* max_block_count
  MaxBlockSize,   \* max_block_size
  Sizes,          \* the sizes asked for
  MaxOps          \* bound: allocations by each thread

Lines == 0 .. MaxOff
MinBlockSize == MaxBlockSize \div 2^MaxOff
LineWidth == MaxBlockSize * MaxBlockCount
BlockSize(i) == MinBlockSize * 2^i
BlockCount(i) == MaxBlockCount * 2^(MaxOff - i)

(* match: the first class whose blocks are large enough, or none of them *)
Match(n) == CHOOSE i \in 0 .. MaxOff + 1 :
              /\ i > MaxOff \/ n <= BlockSize(i)
              /\ \A j \in 0 .. i - 1 : n > BlockSize(j)

(* Mutant: off by one. *)
CalcLineShort(ptr) ==
  IF ptr \in 0 .. (MaxOff + 1) * LineWidth - 1 THEN (ptr - 1) \div LineWidth ELSE -1

CalcLine(ptr) == IF ptr \in 0 .. (MaxOff + 1) * LineWidth - 1 THEN ptr \div LineWidth ELSE -1

(* the constructor cuts the blocks one after the other, line by line *)
LineStart[i \in 0 .. MaxOff + 1] ==
  IF i = 0 THEN 0 ELSE LineStart[i - 1] + BlockSize(i - 1) * BlockCount(i - 1)

Blocks == UNION {{LineStart[i] + j * BlockSize(i) : j \in 0 .. BlockCount(i) - 1} : i \in Lines}

ASSUME PoolAssumption ==
  /\ Lists = Lines
  /\ Cap = [i \in Lines |-> BlockCount(i)]
  /\ Blocks \subseteq Values /\ Sizes \subseteq Nat
  /\ MaxOff \in 0 .. 3
  /\ MaxBlockCount \in Nat \ {0} /\ MaxBlockSize \in Nat \ {0}
  /\ MaxBlockSize % 2^MaxOff = 0  \* not asserted by the code, see README.md
  /\ MaxOps \in Nat
  /\ IsFiniteSet(Threads) /\ "pool" \notin Threads

VARIABLES
  want,    \* want[th]: the size th asks for, 0 outside allocate
  owner,   \* owner[b]: the thread block b was handed to, or "pool"
  allocs,  \* how many allocations each thread has started
  unbuilt  \* the blocks the constructor has not emplaced yet

poolVars == <<want, owner, allocs, unbuilt>>
vars == <<listVars, poolVars>>

PoolInit ==
  /\ Init
  /\ want = [th \in Threads |-> 0]
  /\ owner = [b \in Blocks |-> "pool"]
  /\ allocs = [th \in Threads |-> 0]
  /\ unbuilt = Blocks

(* the constructor emplaces the blocks in address order, each in its line *)
Construct(th) ==
  /\ \A u \in Threads : loc[u].pc = "idle"
  /\ \E b \in unbuilt :
       /\ \A a \in unbuilt : b <= a
       /\ \E i \in Lines : /\ b \in LineStart[i] .. LineStart[i + 1] - 1
                          /\ BeginPush(th, i, b)
  /\ UNCHANGED poolVars

-----------------------------------------------------------------------------
(* allocate; a size that matches no class is answered with nullptr at once *)

Allocate(th) ==
  /\ unbuilt = {} /\ allocs[th] < MaxOps
  /\ allocs' = [allocs EXCEPT ![th] = @ + 1]
  /\ \E n \in Sizes : /\ Match(n) <= MaxOff
                      /\ want' = [want EXCEPT ![th] = n]
                      /\ BeginPop(th, Match(n))
  /\ UNCHANGED <<owner, unbuilt>>

(* the list had a block: steal it *)
AllocateReturns(th) ==
  /\ loc[th].op = "pop" /\ loc[th].ok
  /\ Return(th)
  /\ owner' = [owner EXCEPT ![loc[th].val] = th]
  /\ want' = [want EXCEPT ![th] = 0]
  /\ UNCHANGED <<allocs, unbuilt>>

(* the list was empty: fall through to the next class *)
FallThrough(th) ==
  /\ loc[th].pc = "done" /\ loc[th].op = "pop" /\ ~loc[th].ok
  /\ L(th) < MaxOff
  /\ loc' = [loc EXCEPT ![th] = [Idle EXCEPT !.pc = "load", !.list = L(th) + 1, !.op = "pop"]]
  /\ UNCHANGED <<top, next, sat, chain, poolVars>>

AllocateFails(th) ==
  /\ loc[th].op = "pop" /\ ~loc[th].ok /\ L(th) = MaxOff
  /\ Return(th)
  /\ want' = [want EXCEPT ![th] = 0]
  /\ UNCHANGED <<owner, allocs, unbuilt>>

-----------------------------------------------------------------------------
(* deallocate: any thread may give back a block that has been handed out *)

Deallocate(th) ==
  /\ \E b \in Blocks :
       /\ owner[b] # "pool" /\ CalcLine(b) \in Lines
       /\ owner' = [owner EXCEPT ![b] = "pool"]
       /\ BeginPush(th, CalcLine(b), b)
  /\ UNCHANGED <<want, allocs, unbuilt>>

(* Neither deallocate nor the constructor looks at the result of emplace. *)
EmplaceReturns(th) ==
  /\ loc[th].op = "push"
  /\ Return(th)
  /\ unbuilt' = unbuilt \ {loc[th].val}
  /\ UNCHANGED <<want, owner, allocs>>

PoolStep(th) ==
  \/ ListStep(th) /\ UNCHANGED poolVars
  \/ AllocateReturns(th) \/ FallThrough(th) \/ AllocateFails(th)
  \/ EmplaceReturns(th)

PoolNext == \E th \in Threads : Construct(th) \/ Allocate(th) \/ Deallocate(th) \/ PoolStep(th)

PoolSpec == PoolInit /\ [][PoolNext]_vars

(* Every thread but one keeps running, and a weak CAS that stays possible
   succeeds in the end: the others must not depend on the one that stopped. *)
FairExcept(stalled) ==
  \A th \in Threads \ {stalled} :
    /\ WF_vars(PoolStep(th))
    /\ SF_vars(PopNode(th) /\ UNCHANGED poolVars)
    /\ SF_vars(AppendNode(th) /\ UNCHANGED poolVars)

-----------------------------------------------------------------------------
(* Every block is in one place: in the list of its own line, with its caller, or
   in the hands of a thread that moves it between the two. A block that came
   back to another line, or whose push found no node, is missing here. One that
   allocate is about to hand out is as large as what was asked for. *)
Resting(b) ==
  {place \in Lists \X (0 .. Cap[0] - 1) :
     \E i \in DOMAIN chain[place[1]].head :
       chain[place[1]].head[i] = place[2] /\ sat[place[1]][place[2]] = b}

Moving(b) ==
  {th \in Threads : \/ loc[th].op = "push" /\ ~loc[th].ok /\ loc[th].pc # "done" /\ loc[th].val = b
                    \/ loc[th].op = "pop" /\ loc[th].pc = "hold" /\ sat[L(th)][loc[th].node.offset] = b
                    \/ loc[th].op = "pop" /\ loc[th].pc # "idle" /\ loc[th].val = b}

BlocksAccounted ==
  /\ \A b \in Blocks :
       /\ b \notin unbuilt =>
            Cardinality(Resting(b)) + Cardinality(Moving(b)) + (IF owner[b] = "pool" THEN 0 ELSE 1) = 1
       /\ \A place \in Resting(b) : b \in LineStart[place[1]] .. LineStart[place[1] + 1] - 1
  /\ \A th \in Threads : loc[th].op = "pop" /\ loc[th].pc = "done" /\ loc[th].ok =>
       want[th] <= BlockSize(CalcLine(loc[th].val))

(* The list a block goes back to always has a node for it, although other
   threads hold nodes of the same list: no block is lost to the result that
   deallocate ignores. *)
NoBlockIsDropped ==
  \A th \in Threads : loc[th].op = "push" /\ loc[th].pc = "done" => loc[th].ok
=============================================================================
