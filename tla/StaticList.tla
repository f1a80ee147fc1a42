----------------------------- MODULE StaticList -----------------------------
(***************************************************************************)
(* lite_fnds::static_list (utility/static_list.h): a stack of values in a   *)
(* fixed array of nodes. The nodes form two linked lists, the values        *)
(* (head_) and the unused nodes (free_), each pushed and popped by compare- *)
(* and-swap on a tag: the offset of the first node and a sequence number    *)
(* that a node's tag gets when it moves from free_ to head_.                *)
(*                                                                         *)
(* push and emplace pop a node from free_, construct the value in it and    *)
(* append the node to head_; pop does the reverse. Every access to a head   *)
(* or to a node's next is a step of its own. next is not atomic: a read of  *)
(* it that races with the node's new owner may return anything (Junk).      *)
(*                                                                         *)
(* Lists names several static_lists, so that a pool made of them can extend *)
(* this module.                                                            *)
(***************************************************************************)
EXTENDS Integers, Sequences, FiniteSets

CONSTANTS
  Threads,
  Lists,    \* the static_lists
  Cap,      \* Cap[l]: the template parameter capacity of l
  Values,   \* what is pushed
  SeqMod,   \* seq_msk + 1: sequences are counted modulo this
  Raw,      \* the satellite of a node without a value
  Junk      \* what a racing read of next may return

ASSUME StaticListAssumption ==
  /\ Cap \in [Lists -> Nat \ {0}]
  /\ SeqMod \in Nat \ {0}
  /\ Raw \notin Values

VARIABLES
  top,   \* top[l]["head"], top[l]["free"]: the tags head_ and free_
  next,  \* next[l][o]: the tag in node o
  sat,   \* sat[l][o]: its satellite, or Raw
  loc,   \* loc[th]: where thread th stands, and its locals
  chain  \* history: the offsets in head_ and free_, first node first

listVars == <<top, next, sat, loc, chain>>

Nodes(l) == 0 .. Cap[l] - 1
Tag(seq, offset) == [seq |-> seq, offset |-> offset]
EmptyTag(l) == Tag(0, Cap[l])

(* pc: "idle", "load", "next", "cas", "hold", "append", "link", "link_cas", "done";
   list: the static_list worked on; op: "push" or "pop"; val: the value;
   h: h_ of the loop that runs; nxt: its next; node: the tag of the node in
   hand; ok: whether the operation succeeded *)
Idle == [pc |-> "idle", list |-> CHOOSE l \in Lists : TRUE, op |-> "pop", val |-> Raw,
         h |-> Junk, nxt |-> Junk, node |-> Junk, ok |-> FALSE]

L(th) == loc[th].list

(* a push brings a node from free_ to head_, a pop from head_ to free_ *)
From(th) == IF loc[th].op = "push" THEN "free" ELSE "head"
To(th) == IF loc[th].op = "push" THEN "head" ELSE "free"

Init ==
  /\ top = [l \in Lists |-> [head |-> EmptyTag(l), free |-> Tag(0, 0)]]
  /\ next = [l \in Lists |-> [o \in Nodes(l) |-> Tag(0, o + 1)]]
  /\ sat = [l \in Lists |-> [o \in Nodes(l) |-> Raw]]
  /\ loc = [th \in Threads |-> Idle]
  /\ chain = [l \in Lists |-> [head |-> <<>>, free |-> [i \in 1 .. Cap[l] |-> i - 1]]]

BeginPush(th, l, v) ==
  /\ loc[th].pc = "idle"
  /\ loc' = [loc EXCEPT ![th] = [Idle EXCEPT !.pc = "load", !.list = l, !.op = "push", !.val = v]]
  /\ UNCHANGED <<top, next, sat, chain>>

BeginPop(th, l) ==
  /\ loc[th].pc = "idle"
  /\ loc' = [loc EXCEPT ![th] = [Idle EXCEPT !.pc = "load", !.list = l, !.op = "pop"]]
  /\ UNCHANGED <<top, next, sat, chain>>

-----------------------------------------------------------------------------
(* pop_from_list *)

(* h_ takes the value of the head, by the first load or by the failed CAS *)
Reload(th) ==
  LET h == top[L(th)][From(th)] IN
  loc' = [loc EXCEPT ![th].h = h, ![th].nxt = Junk,
                     ![th].pc = IF h = EmptyTag(L(th)) THEN "done" ELSE "next"]

LoadTop(th) ==
  /\ loc[th].pc = "load"
  /\ Reload(th)
  /\ UNCHANGED <<top, next, sat, chain>>

(* The i-th tag of a list: its head, or the next of the node before. *)
TagAt(l, end, i) == IF i = 1 THEN top[l][end] ELSE next[l][chain[l][end][i - 1]]

(* The read of next is ordered with the writes of it while the node is in the
   list under the tag that was read; once the node has gone it races. *)
StillThere(th) ==
  \E i \in DOMAIN chain[L(th)][From(th)] : TagAt(L(th), From(th), i) = loc[th].h

ReadNext(th) ==
  /\ loc[th].pc = "next"
  /\ \E n \in {next[L(th)][loc[th].h.offset]} \cup (IF StillThere(th) THEN {} ELSE {Junk}) :
       loc' = [loc EXCEPT ![th].nxt = n, ![th].pc = "cas"]
  /\ UNCHANGED <<top, next, sat, chain>>

(* Mutant: the head is stored, not compared and swapped. *)
PopNodeByStore(th) ==
  /\ loc[th].pc = "cas"
  /\ chain[L(th)][From(th)] # <<>>
  /\ top' = [top EXCEPT ![L(th)][From(th)] = loc[th].nxt]
  /\ chain' = [chain EXCEPT ![L(th)][From(th)] = Tail(@)]
  /\ loc' = [loc EXCEPT ![th].node = loc[th].h, ![th].h = Junk, ![th].nxt = Junk, ![th].pc = "hold"]
  /\ UNCHANGED <<next, sat>>

PopNode(th) ==
  /\ loc[th].pc = "cas"
  /\ top[L(th)][From(th)] = loc[th].h
  /\ top' = [top EXCEPT ![L(th)][From(th)] = loc[th].nxt]
  /\ chain' = [chain EXCEPT ![L(th)][From(th)] = Tail(@)]
  /\ loc' = [loc EXCEPT ![th].node = loc[th].h, ![th].h = Junk, ![th].nxt = Junk, ![th].pc = "hold"]
  /\ UNCHANGED <<next, sat>>

(* Mutant: the CAS compares with a copy, so h_ stays what it was. *)
MissPopStale(th) ==
  /\ loc[th].pc = "cas"
  /\ loc' = [loc EXCEPT ![th].pc = "next"]
  /\ UNCHANGED <<top, next, sat, chain>>

(* the head has moved, or the weak CAS fails although it has not *)
MissPop(th) ==
  /\ loc[th].pc = "cas"
  /\ Reload(th)
  /\ UNCHANGED <<top, next, sat, chain>>

-----------------------------------------------------------------------------
(* What push and pop do with the node in hand. The node goes on with the next
   sequence after a push, with the same after a pop. *)

(* Mutant: the node keeps its sequence when a value is pushed. *)
FillSameSequence(th) ==
  /\ loc[th].pc = "hold" /\ loc[th].op = "push"
  /\ sat' = [sat EXCEPT ![L(th)][loc[th].node.offset] = loc[th].val]
  /\ loc' = [loc EXCEPT ![th].pc = "append"]
  /\ UNCHANGED <<top, next, chain>>

Fill(th) ==
  LET n == loc[th].node IN
  /\ loc[th].pc = "hold" /\ loc[th].op = "push"
  /\ sat' = [sat EXCEPT ![L(th)][n.offset] = loc[th].val]
  /\ loc' = [loc EXCEPT ![th].node = Tag((n.seq + 1) % SeqMod, n.offset), ![th].pc = "append"]
  /\ UNCHANGED <<top, next, chain>>

(* Mutants: the moved-from value is not destroyed; the node is not given back. *)
EmptyWithoutDestroy(th) ==
  /\ loc[th].pc = "hold" /\ loc[th].op = "pop"
  /\ loc' = [loc EXCEPT ![th].val = sat[L(th)][loc[th].node.offset], ![th].pc = "append"]
  /\ UNCHANGED <<top, next, sat, chain>>

EmptyKeepsNode(th) ==
  LET n == loc[th].node IN
  /\ loc[th].pc = "hold" /\ loc[th].op = "pop"
  /\ loc' = [loc EXCEPT ![th].val = sat[L(th)][n.offset], ![th].ok = TRUE, ![th].pc = "done"]
  /\ sat' = [sat EXCEPT ![L(th)][n.offset] = Raw]
  /\ UNCHANGED <<top, next, chain>>

Empty(th) ==
  LET n == loc[th].node IN
  /\ loc[th].pc = "hold" /\ loc[th].op = "pop"
  /\ loc' = [loc EXCEPT ![th].val = sat[L(th)][n.offset], ![th].pc = "append"]
  /\ sat' = [sat EXCEPT ![L(th)][n.offset] = Raw]
  /\ UNCHANGED <<top, next, chain>>

-----------------------------------------------------------------------------
(* append_to_list *)

LoadAppend(th) ==
  /\ loc[th].pc = "append"
  /\ loc' = [loc EXCEPT ![th].h = top[L(th)][To(th)], ![th].pc = "link"]
  /\ UNCHANGED <<top, next, sat, chain>>

Link(th) ==
  /\ loc[th].pc = "link"
  /\ next' = [next EXCEPT ![L(th)][loc[th].node.offset] = loc[th].h]
  /\ loc' = [loc EXCEPT ![th].pc = "link_cas"]
  /\ UNCHANGED <<top, sat, chain>>

AppendNode(th) ==
  /\ loc[th].pc = "link_cas"
  /\ top[L(th)][To(th)] = loc[th].h
  /\ top' = [top EXCEPT ![L(th)][To(th)] = loc[th].node]
  /\ chain' = [chain EXCEPT ![L(th)][To(th)] = <<loc[th].node.offset>> \o @]
  /\ loc' = [loc EXCEPT ![th].ok = TRUE, ![th].h = Junk, ![th].node = Junk, ![th].pc = "done"]
  /\ UNCHANGED <<next, sat>>

MissAppend(th) ==
  /\ loc[th].pc = "link_cas"
  /\ loc' = [loc EXCEPT ![th].h = top[L(th)][To(th)], ![th].pc = "link"]
  /\ UNCHANGED <<top, next, sat, chain>>

ListStep(th) ==
  \/ LoadTop(th) \/ ReadNext(th) \/ PopNode(th) \/ MissPop(th)
  \/ Fill(th) \/ Empty(th)
  \/ LoadAppend(th) \/ Link(th) \/ AppendNode(th) \/ MissAppend(th)

(* the caller has taken the result *)
Return(th) ==
  /\ loc[th].pc = "done"
  /\ loc' = [loc EXCEPT ![th] = Idle]
  /\ UNCHANGED <<top, next, sat, chain>>

-----------------------------------------------------------------------------
(* The linked lists are what the history says: every head is the first node of
   its chain, every next leads to the following one, the last to nowhere. *)
ChainsLinked ==
  \A l \in Lists, end \in {"head", "free"} :
    LET c == chain[l][end] IN
    /\ \A i \in 1 .. Len(c) : TagAt(l, end, i) \in [seq : 0 .. SeqMod - 1, offset : {c[i]}]
    /\ TagAt(l, end, Len(c) + 1) = EmptyTag(l)

(* Every node is in one list, once, or in the hands of one thread, and a node in
   hand carries a value exactly on its way to head_ after it was filled, and from
   head_ before it was emptied: nothing is constructed over a value or taken from
   raw storage. *)
InHand(l) == {th \in Threads : L(th) = l /\ loc[th].pc \in {"hold", "append", "link", "link_cas"}}

NodesAccounted ==
  \A l \in Lists :
    LET free == {chain[l].free[i] : i \in DOMAIN chain[l].free}
        used == {chain[l].head[i] : i \in DOMAIN chain[l].head}
        held == {loc[th].node.offset : th \in InHand(l)} IN
    /\ free \cup used \cup held = Nodes(l)
    /\ Len(chain[l].free) + Len(chain[l].head) + Cardinality(InHand(l)) = Cap[l]
    /\ \A th \in InHand(l) : sat[l][loc[th].node.offset] # Raw <=> (loc[th].op = "push" <=> loc[th].pc # "hold")

(* Each static_list implements a stack: a push takes effect at its CAS of
   head_, a pop at its CAS of head_, and what the pop returns is the value that
   was on top then. *)
Popped(th) ==
  IF loc[th].op = "pop" /\ loc[th].pc = "hold"
  THEN sat[L(th)][loc[th].node.offset]
  ELSE IF loc[th].op = "pop" THEN loc[th].val ELSE Raw

Stacks == INSTANCE LifoLists WITH
  stack <- [l \in Lists |-> [i \in DOMAIN chain[l].head |-> sat[l][chain[l].head[i]]]],
  popped <- [th \in Threads |-> Popped(th)]

ImplementsStacks == Stacks!Spec
=============================================================================
