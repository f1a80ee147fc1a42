----------------------- MODULE StaticMemPool_proofs -----------------------
(***************************************************************************)
(* Proofs about StaticList and the StaticMemPool built on it, for any       *)
(* threads, blocks, sizes and number of calls, and up to four lines (see    *)
(* PoolAssumption: the pool of the code has MAX_OFF = 3).                  *)
(*                                                                         *)
(* A node of a list is in one of its two chains or in the hands of one      *)
(* thread; a block of the pool is with the constructor, with a caller, in a *)
(* list, or carried by the one thread that moves it. The CAS of a pop takes *)
(* the node that the thread has looked at, and nothing keeps that node from *)
(* having left and come back since: what saves it is the seq of its tag,    *)
(* which grows at every emplace. So the invariant gives every tag that a    *)
(* thread remembers an age (AgesOf). This holds until seq wraps, and NoWrap *)
(* says that it does not: Budget bounds the emplaces of a behaviour, and    *)
(* ToCome counts those it may still hold.                                   *)
(***************************************************************************)
EXTENDS StaticMemPool, TLAPS, FiniteSetTheorems

-----------------------------------------------------------------------------
(* The static_lists *)

Ends == {"head", "free"}
Tags == [seq : Nat, offset : Nat]
Places == {"idle", "load", "next", "cas", "hold", "append", "link", "link_cas", "done"}
Locals == [pc : Places, list : Lists, op : {"push", "pop"}, val : Values \cup {Raw},
           h : Tags \cup {Junk}, nxt : Tags \cup {Junk}, node : Tags \cup {Junk}, ok : BOOLEAN]

ListTypeOK ==
  /\ top \in [Lists -> [Ends -> Tags]]
  /\ DOMAIN next = Lists /\ \A l \in Lists : next[l] \in [Nodes(l) -> Tags]
  /\ DOMAIN sat = Lists /\ \A l \in Lists : sat[l] \in [Nodes(l) -> Values \cup {Raw}]
  /\ loc \in [Threads -> Locals]
  /\ DOMAIN chain = Lists /\ \A l \in Lists : chain[l] \in [Ends -> Seq(Nodes(l))]

Pos(l, e) == 1 .. Len(chain[l][e])
Holds(th) == loc[th].pc \in {"hold", "append", "link", "link_cas"}
Looks(th) == loc[th].pc \in {"next", "cas"}
Off(th) == loc[th].node.offset

(* Each node is in one place. *)
HeldApart(th) ==
  Holds(th) =>
    /\ loc[th].node \in Tags /\ Off(th) \in Nodes(L(th))
    /\ \A e \in Ends : \A i \in Pos(L(th), e) : chain[L(th)][e][i] # Off(th)
    /\ \A u \in Threads : Holds(u) /\ L(u) = L(th) /\ Off(u) = Off(th) => u = th

OnePlace ==
  /\ \A l \in Lists, e \in Ends, d \in Ends : \A i \in Pos(l, e), j \in Pos(l, d) :
       chain[l][e][i] = chain[l][d][j] => e = d /\ i = j
  /\ \A th \in Threads : HeldApart(th)

(* No node is lost. *)
Somewhere ==
  \A l \in Lists :
    /\ \A o \in Nodes(l) :
         \/ \E e \in Ends : \E i \in Pos(l, e) : chain[l][e][i] = o
         \/ \E th \in Threads : Holds(th) /\ L(th) = l /\ Off(th) = o
    /\ Len(chain[l]["free"]) + Len(chain[l]["head"]) + Cardinality(InHand(l)) = Cap[l]

Linked ==
  \A l \in Lists, e \in Ends :
    /\ \A i \in Pos(l, e) : TagAt(l, e, i).offset = chain[l][e][i]
    /\ TagAt(l, e, Len(chain[l][e]) + 1) = EmptyTag(l)

(* b: how many sequences have been given *)
SeqsUpTo(b) ==
  /\ \A l \in Lists, e \in Ends : \A i \in Pos(l, e) : TagAt(l, e, i).seq <= b
  /\ \A th \in Threads : Holds(th) => loc[th].node.seq <= b

(* A push has looked at a node in free_, so that the node has a later sequence
   when it is back from head_; a pop has looked at one in head_. *)
AgeInChain(th, e) == IF e = "head" /\ loc[th].op = "push" THEN loc[th].h.seq + 1 ELSE loc[th].h.seq
AgeInHand(th, u) ==
  IF (loc[u].op = "push" /\ loc[u].pc # "hold") \/ (loc[u].op = "pop" /\ loc[th].op = "push")
  THEN loc[th].h.seq + 1 ELSE loc[th].h.seq

AgesOf(th) ==
  Looks(th) =>
    /\ loc[th].h \in Tags /\ loc[th].h.offset \in Nodes(L(th))
    /\ \A e \in Ends : \A i \in Pos(L(th), e) :
         chain[L(th)][e][i] = loc[th].h.offset => AgeInChain(th, e) <= TagAt(L(th), e, i).seq
    /\ \A u \in Threads : Holds(u) /\ L(u) = L(th) /\ Off(u) = loc[th].h.offset =>
         AgeInHand(th, u) <= loc[u].node.seq

(* If the CAS succeeds then the next that it installs is the right one. *)
NextIsRight(th) ==
  loc[th].pc = "cas" =>
    \A i \in Pos(L(th), From(th)) :
      TagAt(L(th), From(th), i) = loc[th].h => loc[th].nxt = TagAt(L(th), From(th), i + 1)

Appending(th) ==
  /\ loc[th].pc \in {"link", "link_cas"} => loc[th].h \in Tags
  /\ loc[th].pc = "link_cas" => next[L(th)][Off(th)] = loc[th].h

ValueOf(th) ==
  /\ loc[th].op = "push" /\ loc[th].pc # "idle" => loc[th].val \in Values
  /\ loc[th].op = "push" /\ Holds(th) =>
       sat[L(th)][Off(th)] = IF loc[th].pc = "hold" THEN Raw ELSE loc[th].val
  /\ loc[th].op = "pop" /\ Holds(th) =>
       IF loc[th].pc = "hold" THEN loc[th].val = Raw /\ sat[L(th)][Off(th)] \in Values
                              ELSE loc[th].val \in Values /\ sat[L(th)][Off(th)] = Raw
  /\ loc[th].op = "pop" /\ ~Holds(th) => (loc[th].val # Raw <=> loc[th].pc = "done" /\ loc[th].ok)
  /\ loc[th].pc # "done" => ~loc[th].ok
  /\ loc[th].pc = "idle" => loc[th] = Idle

Satellites ==
  \A l \in Lists :
    /\ \A i \in Pos(l, "head") : sat[l][chain[l]["head"][i]] \in Values
    /\ \A i \in Pos(l, "free") : sat[l][chain[l]["free"][i]] = Raw

ThreadInv(th) == AgesOf(th) /\ NextIsRight(th) /\ Appending(th) /\ ValueOf(th)

ListInv ==
  /\ ListTypeOK
  /\ OnePlace /\ Somewhere /\ Linked /\ Satellites
  /\ \A th \in Threads : ThreadInv(th)

(* The powers of two that the lines need. *)
LEMMA Powers == 2^0 = 1 /\ 2^1 = 2 /\ 2^2 = 4 /\ 2^3 = 8
OBVIOUS

(* The powers of two that the lines of the pool need. *)
LEMMA PowerOf == \A n \in 0 .. 3 : 2^n = IF n = 0 THEN 1 ELSE IF n = 1 THEN 2 ELSE IF n = 2 THEN 4 ELSE 8
<1>1. ASSUME NEW n, n = 0 PROVE 2^n = 1
  BY <1>1, Powers, Zenon
<1>2. ASSUME NEW n, n = 1 PROVE 2^n = 2
  BY <1>2, Powers, Zenon
<1>3. ASSUME NEW n, n = 2 PROVE 2^n = 4
  BY <1>3, Powers, Zenon
<1>4. ASSUME NEW n, n = 3 PROVE 2^n = 8
  BY <1>4, Powers, Zenon
<1>5. \A n \in 0 .. 3 : n = 0 \/ n = 1 \/ n = 2 \/ n = 3
  OBVIOUS
<1>6. ASSUME NEW n \in 0 .. 3
      PROVE  2^n = IF n = 0 THEN 1 ELSE IF n = 1 THEN 2 ELSE IF n = 2 THEN 4 ELSE 8
  <2>1. CASE n = 0
    <3>1. 2^n = 1
      BY <1>1, <2>1, Zenon
    <3> QED BY <2>1, <3>1
  <2>2. CASE n = 1
    <3>1. 2^n = 2
      BY <1>2, <2>2, Zenon
    <3> QED BY <2>2, <3>1
  <2>3. CASE n = 2
    <3>1. 2^n = 4
      BY <1>3, <2>3, Zenon
    <3> QED BY <2>3, <3>1
  <2>4. CASE n = 3
    <3>1. 2^n = 8
      BY <1>4, <2>4, Zenon
    <3> QED BY <2>4, <3>1
  <2> QED BY <1>5, <2>1, <2>2, <2>3, <2>4
<1> QED BY <1>6

(* The blocks of a line fill it, and a later line has larger blocks. *)
LEMMA LineShapes ==
  /\ MinBlockSize \in Nat \ {0} /\ LineWidth \in Nat \ {0}
  /\ \A i \in Lines : /\ BlockSize(i) \in Nat \ {0} /\ BlockCount(i) \in Nat \ {0}
                      /\ BlockSize(i) * BlockCount(i) = LineWidth
                      /\ Cap[i] = BlockCount(i)
  /\ \A i, j \in Lines : i <= j => BlockSize(i) <= BlockSize(j)
<1>1. PICK m \in Nat \ {0}, c \in Nat \ {0}, p \in {1, 2, 4, 8} :
        /\ c = MaxBlockCount /\ m * p = MaxBlockSize /\ m = MinBlockSize /\ p = 2^MaxOff
  <2>1. 2^MaxOff \in {1, 2, 4, 8}
    BY PoolAssumption, PowerOf
  <2>2. PICK p \in {1, 2, 4, 8} : p = 2^MaxOff
    BY <2>1
  <2>3. PICK b \in Nat \ {0}, c \in Nat \ {0} : b = MaxBlockSize /\ c = MaxBlockCount /\ b % p = 0
    BY <2>2, PoolAssumption
  <2>4. PICK m \in Nat \ {0} : m = b \div p /\ m * p = b
    BY <2>3
  <2> QED BY <2>2, <2>3, <2>4 DEF MinBlockSize
<1>2. LineWidth = m * p * c
  BY <1>1 DEF LineWidth
<1>3. LineWidth \in Nat \ {0}
  BY <1>1, <1>2
<1>4. ASSUME NEW i \in Lines
      PROVE  /\ BlockSize(i) \in Nat \ {0} /\ BlockCount(i) \in Nat \ {0}
             /\ BlockSize(i) * BlockCount(i) = LineWidth
             /\ Cap[i] = BlockCount(i)
  <2>1. Cap[i] = BlockCount(i)
    BY PoolAssumption
  <2>2. PICK q \in {1, 2, 4, 8}, r \in {1, 2, 4, 8} : q = 2^i /\ r = 2^(MaxOff - i) /\ q * r = p
    <3>1. MaxOff \in 0 .. 3 /\ i \in 0 .. 3 /\ MaxOff - i \in 0 .. 3 /\ i <= MaxOff
      BY PoolAssumption DEF Lines
    <3>2. PICK q \in {1, 2, 4, 8} :
            q = 2^i /\ q = IF i = 0 THEN 1 ELSE IF i = 1 THEN 2 ELSE IF i = 2 THEN 4 ELSE 8
      BY <3>1, PowerOf
    <3>3. PICK k \in 0 .. 3 : k = MaxOff - i
      BY <3>1
    <3>4. PICK r \in {1, 2, 4, 8} :
            r = 2^k /\ r = IF k = 0 THEN 1 ELSE IF k = 1 THEN 2 ELSE IF k = 2 THEN 4 ELSE 8
      BY <3>3, PowerOf
    <3>5. p = IF MaxOff = 0 THEN 1 ELSE IF MaxOff = 1 THEN 2 ELSE IF MaxOff = 2 THEN 4 ELSE 8
      BY <1>1, <3>1, PowerOf
    <3>6. PICK n \in 0 .. 3 : n = MaxOff
      BY <3>1
    <3>7. q * r = p
      <4>1. i \in 0 .. 3 /\ k = n - i /\ i <= n
        BY <3>1, <3>3, <3>6
      <4> QED BY <3>2, <3>4, <3>5, <3>6, <4>1
    <3> QED BY <3>2, <3>3, <3>4, <3>7
  <2>3. BlockSize(i) = m * q /\ BlockCount(i) = c * r
    BY <1>1, <2>2 DEF BlockSize, BlockCount
  <2>4. m * q \in Nat \ {0} /\ c * r \in Nat \ {0} /\ (m * q) * (c * r) = m * p * c
    BY <1>1, <2>2
  <2> QED BY <1>2, <2>1, <2>3, <2>4
<1>5. ASSUME NEW i \in Lines, NEW j \in Lines, i <= j
      PROVE  BlockSize(i) <= BlockSize(j)
  <2>1. i \in 0 .. 3 /\ j \in 0 .. 3
    BY PoolAssumption DEF Lines
  <2>2. PICK q \in {1, 2, 4, 8}, r \in {1, 2, 4, 8} : q = 2^i /\ r = 2^j /\ q <= r
    <3>1. PICK q \in {1, 2, 4, 8} :
            q = 2^i /\ q = IF i = 0 THEN 1 ELSE IF i = 1 THEN 2 ELSE IF i = 2 THEN 4 ELSE 8
      BY <2>1, PowerOf
    <3>2. PICK r \in {1, 2, 4, 8} :
            r = 2^j /\ r = IF j = 0 THEN 1 ELSE IF j = 1 THEN 2 ELSE IF j = 2 THEN 4 ELSE 8
      BY <2>1, PowerOf
    <3>3. q <= r
      BY <1>5, <2>1, <3>1, <3>2
    <3> QED BY <3>1, <3>2, <3>3
  <2>3. BlockSize(i) = m * q /\ BlockSize(j) = m * r
    BY <1>1, <2>2 DEF BlockSize
  <2>4. m * q <= m * r
    BY <1>1, <2>2
  <2> QED BY <2>3, <2>4
<1> QED BY <1>1, <1>3, <1>4, <1>5

(* The lines start where calc_line looks for them. *)
LEMMA LineStarts == \A i \in 0 .. MaxOff + 1 : LineStart[i] = i * LineWidth
<1> DEFINE D == 0 .. MaxOff + 1
           W(g, i) == IF i = 0 THEN 0 ELSE g[i - 1] + BlockSize(i - 1) * BlockCount(i - 1)
           f == [i \in D |-> i * LineWidth]
<1>1. MaxOff \in 0 .. 3 /\ LineWidth \in Nat
  BY PoolAssumption, LineShapes
<1>2. ASSUME NEW i \in D
      PROVE  f[i] = W(f, i)
  <2>1. CASE i = 0
    BY <1>1, <2>1
  <2>2. CASE i # 0
    <3>1. i - 1 \in Lines /\ i - 1 \in D
      BY <1>1, <2>2 DEF Lines
    <3>2. f[i - 1] = (i - 1) * LineWidth /\ f[i] = i * LineWidth
      BY <3>1
    <3>3. BlockSize(i - 1) * BlockCount(i - 1) = LineWidth
      BY <3>1, LineShapes
    <3>4. (i - 1) * LineWidth + LineWidth = i * LineWidth
      BY <1>1
    <3> QED BY <2>2, <3>2, <3>3, <3>4
  <2> QED BY <2>1, <2>2
<1>3. f = [i \in D |-> W(f, i)]
  BY <1>2
<1>4. LineStart = [i \in D |-> W(LineStart, i)]
  <2>1. \E g : g = [i \in D |-> W(g, i)]
    BY <1>3
  <2> QED BY <2>1 DEF LineStart
<1>5. \A i \in D : LineStart[i] = IF i = 0 THEN 0 ELSE LineStart[i - 1] + LineWidth
  <2>1. \A i \in D : LineStart[i] = W(LineStart, i)
    BY <1>4
  <2>2. \A i \in D : i # 0 => i - 1 \in Lines
    BY <1>1 DEF Lines
  <2> QED BY <2>1, <2>2, LineShapes
<1>6. PICK w \in Nat : w = LineWidth
  BY <1>1
<1>7. LineStart[0] = 0
  BY <1>1, <1>5
<1>8. LineStart[1] = w
  BY <1>1, <1>5, <1>6, <1>7
<1>9. 2 \in D => LineStart[2] = 2 * w
  BY <1>1, <1>5, <1>6, <1>8
<1>10. 3 \in D => LineStart[3] = 3 * w
  BY <1>1, <1>5, <1>6, <1>9
<1>11. 4 \in D => LineStart[4] = 4 * w
  BY <1>1, <1>5, <1>6, <1>10
<1>12. \A i \in D : i = 0 \/ i = 1 \/ i = 2 \/ i = 3 \/ i = 4
  BY <1>1
<1> QED BY <1>6, <1>7, <1>8, <1>9, <1>10, <1>11, <1>12

InLine(b, l) == b \in Blocks /\ b \in LineStart[l] .. LineStart[l + 1] - 1

(* The j-th block of a line lies in the line. *)
LEMMA BlockInLine ==
  ASSUME NEW l \in Lines, NEW j \in 0 .. BlockCount(l) - 1
  PROVE  /\ LineStart[l] + j * BlockSize(l) \in Nat
         /\ LineStart[l] + j * BlockSize(l) \in l * LineWidth .. (l + 1) * LineWidth - 1
         /\ LineStart[l] = l * LineWidth /\ LineStart[l + 1] = (l + 1) * LineWidth
<1>1. PICK w \in Nat \ {0}, s \in Nat \ {0}, c \in Nat \ {0} :
        /\ w = LineWidth /\ s = BlockSize(l) /\ c = BlockCount(l) /\ s * c = w
  BY LineShapes
<1>2. /\ LineStart[l] = l * LineWidth /\ LineStart[l + 1] = (l + 1) * LineWidth
      /\ l \in Nat
  <2>1. l \in 0 .. MaxOff + 1 /\ l + 1 \in 0 .. MaxOff + 1 /\ l \in Nat
    BY PoolAssumption DEF Lines
  <2> QED BY <2>1, LineStarts
<1>3. j \in Nat /\ j + 1 <= c
  BY <1>1
<1>4. (j + 1) * s <= c * s
  BY <1>1, <1>3
<1>5. j * s \in Nat /\ j * s < w
  BY <1>1, <1>3, <1>4
<1>6. l * w \in Nat /\ (l + 1) * w = l * w + w
  BY <1>1, <1>2
<1> QED BY <1>1, <1>2, <1>5, <1>6

(* Every block is in one line, the one that calc_line finds. *)
LEMMA LineOfBlock ==
  ASSUME NEW b \in Blocks
  PROVE  /\ b \in Nat /\ b < (MaxOff + 1) * LineWidth
         /\ CalcLine(b) \in Lines /\ InLine(b, CalcLine(b))
         /\ \A l \in Lines : InLine(b, l) => l = CalcLine(b)
<1>1. PICK i \in Lines : \E j \in 0 .. BlockCount(i) - 1 : b = LineStart[i] + j * BlockSize(i)
  BY DEF Blocks
<1>2. PICK w \in Nat \ {0} : w = LineWidth
  BY LineShapes
<1>3. /\ b \in Nat /\ b \in i * w .. (i + 1) * w - 1
  BY <1>1, <1>2, BlockInLine
<1>4. MaxOff \in 0 .. 3 /\ i \in 0 .. 3 /\ i <= MaxOff
  BY PoolAssumption DEF Lines
<1>5. PICK n \in 0 .. 3 : n = MaxOff
  BY <1>4
<1>6. (i + 1) * w <= (n + 1) * w
  BY <1>4, <1>5
<1>7. b < (n + 1) * w
  BY <1>3, <1>4, <1>6
<1>8. b \div w = i
  BY <1>2, <1>3, <1>4
<1>9. CalcLine(b) = i
  <2>1. b \in 0 .. (MaxOff + 1) * LineWidth - 1
    BY <1>2, <1>3, <1>5, <1>7
  <2> QED BY <1>2, <1>8, <2>1 DEF CalcLine
<1>10. \A l \in Lines : LineStart[l] = l * w /\ LineStart[l + 1] = (l + 1) * w
  BY <1>2, BlockInLine, LineShapes
<1>11. ASSUME NEW l \in Lines, InLine(b, l)
       PROVE  l = i
  <2>1. l \in 0 .. 3
    BY PoolAssumption DEF Lines
  <2>2. b \in l * w .. (l + 1) * w - 1
    BY <1>10, <1>11 DEF InLine
  <2>3. b \div w = l
    BY <1>2, <1>3, <2>1, <2>2
  <2> QED BY <1>8, <2>3
<1> QED BY <1>2, <1>3, <1>5, <1>7, <1>9, <1>10, <1>11 DEF InLine

(* The blocks are finitely many. *)
LEMMA BlocksFinite == IsFiniteSet(Blocks) /\ Cardinality(Blocks) \in Nat
<1>1. PICK n \in Nat : n = (MaxOff + 1) * LineWidth
  BY PoolAssumption, LineShapes
<1>2. Blocks \in SUBSET Nat /\ \A b \in Blocks : b <= n
  BY <1>1, LineOfBlock
<1>3. IsFiniteSet(Blocks)
  BY <1>2, FS_BoundedSetOfNaturals
<1> QED BY <1>3, FS_CardinalityType

(* A line has no more blocks than its list has nodes. *)
LEMMA LineCapacity ==
  ASSUME NEW l \in Lines
  PROVE  /\ IsFiniteSet({b \in Blocks : InLine(b, l)})
         /\ Cardinality({b \in Blocks : InLine(b, l)}) <= Cap[l]
         /\ Cardinality({b \in Blocks : InLine(b, l)}) \in Nat
<1> DEFINE S == {b \in Blocks : InLine(b, l)}
           f == [j \in 0 .. BlockCount(l) - 1 |-> LineStart[l] + j * BlockSize(l)]
<1>1. PICK c \in Nat \ {0} : c = BlockCount(l) /\ c = Cap[l]
  BY LineShapes
<1>2. \A j \in 0 .. c - 1 : f[j] \in S
  <2>1. ASSUME NEW j \in 0 .. c - 1
        PROVE  f[j] \in S
    <3>0. f[j] = LineStart[l] + j * BlockSize(l)
      BY <1>1
    <3>1. f[j] \in Blocks
      <4>1. f[j] \in {LineStart[l] + k * BlockSize(l) : k \in 0 .. BlockCount(l) - 1}
        BY <1>1, <3>0
      <4> QED BY <4>1, Zenon DEF Blocks
    <3>2. f[j] \in LineStart[l] .. LineStart[l + 1] - 1
      BY <1>1, <3>0, BlockInLine
    <3> QED BY <3>1, <3>2 DEF InLine
  <2> QED BY <2>1
<1>3. ASSUME NEW b \in S
      PROVE  \E j \in 0 .. c - 1 : f[j] = b
  <2>1. PICK i \in Lines : \E j \in 0 .. BlockCount(i) - 1 : b = LineStart[i] + j * BlockSize(i)
    BY DEF Blocks
  <2>2. PICK j \in 0 .. BlockCount(i) - 1 : b = LineStart[i] + j * BlockSize(i)
    BY <2>1
  <2>3. InLine(b, i)
    BY <2>2, BlockInLine DEF InLine
  <2>4. i = l
    BY <2>3, LineOfBlock
  <2> QED BY <1>1, <2>2, <2>4
<1>4. f \in Surjection(0 .. c - 1, S)
  BY <1>1, <1>2, <1>3 DEF Surjection
<1>5. IsFiniteSet(0 .. c - 1) /\ Cardinality(0 .. c - 1) = c
  <2>1. 0 \in Int /\ c - 1 \in Int /\ ~(0 > c - 1) /\ (c - 1) - 0 + 1 = c
    OBVIOUS
  <2> QED BY <2>1, FS_Interval
<1> HIDE DEF S, f
<1>6. IsFiniteSet(S) /\ Cardinality(S) <= c
  BY <1>4, <1>5, FS_Surjection
<1>7. Cardinality(S) \in Nat
  BY <1>6, FS_CardinalityType
<1> QED BY <1>1, <1>6, <1>7 DEF S
-----------------------------------------------------------------------------
(* Facts about the state that the step lemmas keep needing. *)

(* What the thread works on is one of the lists, and it has two ends. *)
LEMMA ThreadTypes ==
  ASSUME ListTypeOK, NEW th \in Threads
  PROVE  /\ loc[th] \in Locals
         /\ L(th) \in Lists /\ From(th) \in Ends /\ To(th) \in Ends /\ From(th) # To(th)
         /\ loc[th].op = "push" => From(th) = "free" /\ To(th) = "head"
         /\ loc[th].op = "pop" => From(th) = "head" /\ To(th) = "free"
BY DEF ListTypeOK, Locals, L, From, To, Ends

(* The offsets in a chain, and the tags that lead from one to the next. *)
LEMMA ChainTypes ==
  ASSUME ListTypeOK, NEW l \in Lists, NEW e \in Ends
  PROVE  /\ chain[l][e] \in Seq(Nodes(l)) /\ Len(chain[l][e]) \in Nat /\ top[l][e] \in Tags
         /\ Cap[l] \in Nat \ {0}
         /\ \A i \in Pos(l, e) : chain[l][e][i] \in Nodes(l)
         /\ \A i \in 1 .. Len(chain[l][e]) + 1 : TagAt(l, e, i) \in Tags
<1>1. chain[l][e] \in Seq(Nodes(l)) /\ Len(chain[l][e]) \in Nat /\ top[l][e] \in Tags
      /\ Cap[l] \in Nat \ {0}
  BY StaticListAssumption DEF ListTypeOK
<1>2. \A i \in Pos(l, e) : chain[l][e][i] \in Nodes(l)
  BY <1>1 DEF Pos
<1>3. ASSUME NEW i \in 1 .. Len(chain[l][e]) + 1
      PROVE  TagAt(l, e, i) \in Tags
  <2>1. CASE i = 1
    BY <1>1, <2>1 DEF TagAt
  <2>2. CASE i # 1
    <3>1. i - 1 \in Pos(l, e)
      BY <1>1, <2>2 DEF Pos
    <3>2. chain[l][e][i - 1] \in Nodes(l)
      BY <1>2, <3>1
    <3>3. next[l] \in [Nodes(l) -> Tags]
      BY DEF ListTypeOK
    <3> QED BY <2>2, <3>2, <3>3 DEF TagAt
  <2> QED BY <2>1, <2>2
<1> QED BY <1>1, <1>2, <1>3

(* A head that names a node names the first one of its chain. *)
LEMMA TopIsFirst ==
  ASSUME ListInv, NEW l \in Lists, NEW e \in Ends
  PROVE  /\ top[l][e] = EmptyTag(l) <=> chain[l][e] = <<>>
         /\ chain[l][e] # <<>> => 1 \in Pos(l, e) /\ top[l][e].offset = chain[l][e][1]
         /\ top[l][e].offset \in Nodes(l) => chain[l][e] # <<>>
         /\ top[l][e] = TagAt(l, e, 1)
<1>1. top[l][e] = TagAt(l, e, 1)
  BY DEF TagAt
<1>2. chain[l][e] = <<>> => top[l][e] = EmptyTag(l)
  BY <1>1 DEF ListInv, Linked
<1>3. chain[l][e] # <<>> => 1 \in Pos(l, e)
  BY ChainTypes DEF ListInv, Pos
<1>4. chain[l][e] # <<>> => top[l][e].offset = chain[l][e][1] /\ chain[l][e][1] \in Nodes(l)
  BY <1>1, <1>3, ChainTypes DEF ListInv, Linked
<1>5. EmptyTag(l).offset = Cap[l] /\ Cap[l] \notin Nodes(l)
  BY StaticListAssumption DEF EmptyTag, Tag, Nodes
<1> QED BY <1>1, <1>2, <1>3, <1>4, <1>5

-----------------------------------------------------------------------------
(* The steps of a static_list, one lemma per kind of step *)

(* The values that the thread-local part of the invariant reads are the same for
   every thread but th, and th keeps what it holds. *)
Keeps(th) ==
  /\ \A u \in Threads \ {th} : loc'[u] = loc[u]
  /\ Holds(th)' <=> Holds(th)
  /\ Holds(th) => /\ loc'[th].list = loc[th].list /\ loc'[th].op = loc[th].op
                  /\ loc'[th].node = loc[th].node
                  /\ (loc'[th].pc = "hold" <=> loc[th].pc = "hold")

(* A step of one thread that leaves the lists alone. *)
LEMMA ThreadMoves ==
  ASSUME ListInv, NEW th \in Threads,
         UNCHANGED <<top, next, sat, chain>>, loc' \in [Threads -> Locals], Keeps(th),
         AgesOf(th)', NextIsRight(th)', Appending(th)', ValueOf(th)'
  PROVE  /\ ListInv'
         /\ \A b \in Nat : SeqsUpTo(b) => SeqsUpTo(b)'
<1>1. ListTypeOK'
  BY DEF ListInv, ListTypeOK, Nodes
<1>2. \A u \in Threads : /\ Holds(u)' <=> Holds(u)
                         /\ Holds(u) => /\ L(u)' = L(u) /\ Off(u)' = Off(u)
                                        /\ loc'[u].node = loc[u].node
  BY DEF Keeps, Holds, L, Off
<1>3. \A l \in Lists : InHand(l)' = InHand(l)
  <2>1. \A u \in Threads, l \in Lists : (L(u)' = l /\ Holds(u)') <=> (L(u) = l /\ Holds(u))
    BY <1>2
  <2> QED BY <2>1 DEF InHand, Holds
<1>4. /\ \A l \in Lists, e \in Ends : Pos(l, e)' = Pos(l, e)
      /\ \A l \in Lists, e \in Ends, i \in Nat : TagAt(l, e, i)' = TagAt(l, e, i)
  BY DEF Pos, TagAt
<1>5. OnePlace'
  <2>1. \A u \in Threads : HeldApart(u)'
    <3>1. ASSUME NEW u \in Threads
          PROVE  HeldApart(u)'
      <4>1. HeldApart(u)
        BY DEF ListInv, OnePlace
      <4>2. Holds(u) => L(u) \in Lists
        BY ThreadTypes DEF ListInv
      <4> QED BY <1>2, <1>4, <4>1, <4>2 DEF HeldApart
    <3> QED BY <3>1
  <2> QED BY <1>4, <2>1 DEF ListInv, OnePlace
<1>6. Somewhere'
  <2>1. ASSUME NEW l \in Lists
        PROVE  /\ \A o \in Nodes(l) :
                    \/ \E e \in Ends : \E i \in Pos(l, e)' : chain'[l][e][i] = o
                    \/ \E u \in Threads : Holds(u)' /\ L(u)' = l /\ Off(u)' = o
               /\ Len(chain'[l]["free"]) + Len(chain'[l]["head"]) + Cardinality(InHand(l)') = Cap[l]
    <3>1. /\ \A o \in Nodes(l) :
               \/ \E e \in Ends : \E i \in Pos(l, e) : chain[l][e][i] = o
               \/ \E u \in Threads : Holds(u) /\ L(u) = l /\ Off(u) = o
          /\ Len(chain[l]["free"]) + Len(chain[l]["head"]) + Cardinality(InHand(l)) = Cap[l]
      BY DEF ListInv, Somewhere
    <3>2. InHand(l)' = InHand(l) /\ \A e \in Ends : Pos(l, e)' = Pos(l, e)
      BY <1>3, <1>4
    <3> QED BY <1>2, <3>1, <3>2
  <2> QED BY <2>1 DEF Somewhere, Nodes
<1>7. Linked' /\ Satellites'
  BY <1>4 DEF ListInv, Linked, Satellites, EmptyTag, TagAt, Pos
<1>8. ASSUME NEW u \in Threads
      PROVE  ThreadInv(u)'
  <2>1. CASE u = th
    BY <2>1 DEF ThreadInv
  <2>2. CASE u # th
    <3>1. loc'[u] = loc[u] /\ ThreadInv(u) /\ L(u) \in Lists /\ From(u) \in Ends
      BY <2>2, ThreadTypes DEF Keeps, ListInv
    <3>2. L(u)' = L(u) /\ From(u)' = From(u) /\ Holds(u)' = Holds(u) /\ Looks(u)' = Looks(u)
          /\ Off(u)' = Off(u)
      BY <3>1 DEF L, From, Holds, Looks, Off
    <3>3. \A w \in Threads : Holds(w) => AgeInHand(u, w)' = AgeInHand(u, w)
      BY <3>1 DEF AgeInHand, Keeps
    <3>4. AgesOf(u)'
      <4>1. \A e \in Ends : AgeInChain(u, e)' = AgeInChain(u, e)
        BY <3>1 DEF AgeInChain
      <4>2. ASSUME NEW e \in Ends
            PROVE  /\ Pos(L(u), e)' = Pos(L(u), e)
                   /\ \A i \in Pos(L(u), e) : TagAt(L(u), e, i)' = TagAt(L(u), e, i)
        BY <3>1, <3>2 DEF Pos, TagAt
      <4>3. AgesOf(u)
        BY <3>1 DEF ThreadInv
      <4>4. chain' = chain /\ loc'[u].h = loc[u].h
        BY <3>1
      <4> QED BY <1>2, <3>1, <3>2, <3>3, <4>1, <4>2, <4>3, <4>4 DEF AgesOf
    <3>5. NextIsRight(u)'
      BY <1>4, <3>1, <3>2 DEF ThreadInv, NextIsRight, Pos
    <3>6. Appending(u)' /\ ValueOf(u)'
      BY <3>1, <3>2 DEF ThreadInv, Appending, ValueOf
    <3> QED BY <3>4, <3>5, <3>6 DEF ThreadInv
  <2> QED BY <2>1, <2>2
<1>9. ASSUME NEW b \in Nat, SeqsUpTo(b)
      PROVE  SeqsUpTo(b)'
  BY <1>2, <1>4, <1>9 DEF SeqsUpTo, Pos
<1> QED BY <1>1, <1>5, <1>6, <1>7, <1>8, <1>9 DEF ListInv

(* A thread between two operations works on some list. *)
LEMMA IdleType == Idle \in Locals /\ Idle.pc = "idle" /\ Idle.op = "pop" /\ Idle.val = Raw /\ ~Idle.ok
<1>1. 0 \in Lists
  BY PoolAssumption DEF Lines
<1>2. (CHOOSE l \in Lists : TRUE) \in Lists
  BY <1>1
<1> QED BY <1>2 DEF Idle, Locals, Places

(* An operation begins, or a thread is done with one. *)
LEMMA FreshStart ==
  ASSUME ListInv, NEW th \in Threads, ~Holds(th), UNCHANGED <<top, next, sat, chain>>,
         NEW r \in Locals, loc' = [loc EXCEPT ![th] = r],
         \/ r = Idle
         \/ r.pc = "load" /\ r.op = "pop" /\ r.val = Raw /\ ~r.ok
         \/ r.pc = "load" /\ r.op = "push" /\ r.val \in Values /\ ~r.ok
  PROVE  /\ ListInv'
         /\ \A b \in Nat : SeqsUpTo(b) => SeqsUpTo(b)'
<1>1. loc \in [Threads -> Locals]
  BY DEF ListInv, ListTypeOK
<1>2. loc'[th] = r /\ loc' \in [Threads -> Locals] /\ \A u \in Threads \ {th} : loc'[u] = loc[u]
  BY <1>1
<1>3. r.pc \in {"idle", "load"}
  BY IdleType
<1>4. Keeps(th)
  BY <1>2, <1>3 DEF Keeps, Holds
<1>5. AgesOf(th)' /\ NextIsRight(th)' /\ Appending(th)'
  BY <1>2, <1>3 DEF AgesOf, Looks, NextIsRight, Appending
<1>6. ValueOf(th)'
  BY <1>2, <1>3, IdleType, StaticListAssumption DEF ValueOf, Holds
<1> QED BY <1>2, <1>4, <1>5, <1>6, ThreadMoves

(* pop_from_list reads the head, or reads it again after a failed CAS. *)
LEMMA ReloadPreserves ==
  ASSUME ListInv, NEW th \in Threads, LoadTop(th) \/ MissPop(th)
  PROVE  /\ ListInv'
         /\ \A b \in Nat : SeqsUpTo(b) => SeqsUpTo(b)'
<1>0. PICK l \in Lists, e \in Ends : l = L(th) /\ e = From(th)
  BY ThreadTypes DEF ListInv
<1>h. PICK h \in Tags : h = top[l][e]
  BY ChainTypes DEF ListInv
<1>1. /\ loc \in [Threads -> Locals] /\ loc[th].pc \in {"load", "cas"} /\ ValueOf(th)
      /\ UNCHANGED <<top, next, sat, chain>>
  BY DEF ListInv, ListTypeOK, ThreadInv, LoadTop, MissPop
<1>2. loc[th] \in Locals /\ (loc[th].op = "push" => e = "free")
  BY <1>0, ThreadTypes DEF ListInv
<1>3. /\ loc' = [loc EXCEPT ![th].h = h, ![th].nxt = Junk,
                            ![th].pc = IF h = EmptyTag(l) THEN "done" ELSE "next"]
  BY <1>0, <1>h DEF LoadTop, MissPop, Reload
<1>4. /\ loc' \in [Threads -> Locals] /\ \A u \in Threads \ {th} : loc'[u] = loc[u]
      /\ loc'[th].h = h /\ loc'[th].pc = IF h = EmptyTag(l) THEN "done" ELSE "next"
      /\ loc'[th].list = l /\ loc'[th].op = loc[th].op /\ loc'[th].val = loc[th].val
      /\ loc'[th].ok = loc[th].ok
  <2>1. [loc[th] EXCEPT !.h = h, !.nxt = Junk,
                        !.pc = IF h = EmptyTag(l) THEN "done" ELSE "next"] \in Locals
    BY <1>h, <1>2 DEF Locals, Places
  <2>2. loc' = [loc EXCEPT ![th] = [loc[th] EXCEPT !.h = h, !.nxt = Junk,
                                    !.pc = IF h = EmptyTag(l) THEN "done" ELSE "next"]]
    BY <1>1, <1>3
  <2> QED BY <1>0, <1>1, <1>2, <2>1, <2>2 DEF Locals, L
<1>5. Keeps(th) /\ ~Holds(th)' /\ ~Holds(th)
  BY <1>1, <1>4 DEF Keeps, Holds
<1>6. NextIsRight(th)' /\ Appending(th)'
  BY <1>4 DEF NextIsRight, Appending
<1>7. ValueOf(th)'
  BY <1>1, <1>4 DEF ValueOf, Holds
<1>8. AgesOf(th)'
  <2>1. SUFFICES ASSUME h # EmptyTag(l)
                 PROVE  AgesOf(th)'
    BY <1>4 DEF AgesOf, Looks
  <2>2. 1 \in Pos(l, e) /\ h.offset = chain[l][e][1] /\ h = TagAt(l, e, 1) /\ h.offset \in Nodes(l)
    BY <1>h, <2>1, TopIsFirst, ChainTypes DEF ListInv
  <2>3. L(th)' = l /\ Nodes(l)' = Nodes(l)
    BY <1>4 DEF L, Nodes
  <2>4. ASSUME NEW d \in Ends, NEW i \in Pos(l, d), chain[l][d][i] = h.offset
        PROVE  AgeInChain(th, d)' <= TagAt(l, d, i).seq
    <3>1. d = e /\ i = 1
      BY <1>2, <2>2, <2>4 DEF ListInv, OnePlace
    <3>2. TagAt(l, d, i) = h
      BY <2>2, <3>1
    <3>3. AgeInChain(th, d)' = h.seq
      BY <1>2, <1>4, <3>1 DEF AgeInChain
    <3> QED BY <1>h, <3>2, <3>3 DEF Tags
  <2>5. ASSUME NEW u \in Threads, Holds(u)', L(u)' = l, Off(u)' = h.offset
        PROVE  FALSE
    <3>1. u # th
      BY <1>5, <2>5
    <3>2. Holds(u) /\ L(u) = l /\ Off(u) = h.offset
      BY <1>4, <2>5, <3>1 DEF Holds, L, Off
    <3>3. HeldApart(u)
      BY DEF ListInv, OnePlace
    <3> QED BY <1>2, <2>2, <3>2, <3>3 DEF HeldApart
  <2>6. chain' = chain /\ \A d \in Ends : Pos(l, d)' = Pos(l, d)
    BY <1>1 DEF Pos
  <2>7. \A d \in Ends, i \in Nat : TagAt(l, d, i)' = TagAt(l, d, i)
    BY <1>1 DEF TagAt
  <2>8. \A d \in Ends : Pos(l, d) \subseteq Nat
    BY DEF Pos
  <2> QED BY <1>h, <1>4, <2>2, <2>3, <2>4, <2>5, <2>6, <2>7, <2>8 DEF AgesOf
<1> QED BY <1>1, <1>4, <1>5, <1>6, <1>7, <1>8, ThreadMoves

(* pop_from_list reads the next of the node, which may be somebody else's by now. *)
LEMMA ReadNextPreserves ==
  ASSUME ListInv, NEW th \in Threads, ReadNext(th)
  PROVE  /\ ListInv'
         /\ \A b \in Nat : SeqsUpTo(b) => SeqsUpTo(b)'
<1>0. PICK l \in Lists, e \in Ends : l = L(th) /\ e = From(th)
  BY ThreadTypes DEF ListInv
<1>1. /\ loc \in [Threads -> Locals] /\ loc[th].pc = "next" /\ ThreadInv(th)
      /\ UNCHANGED <<top, next, sat, chain>>
  BY DEF ListInv, ListTypeOK, ReadNext
<1>2. loc[th] \in Locals
  BY ThreadTypes DEF ListInv
<1>3. PICK h \in Tags : h = loc[th].h /\ h.offset \in Nodes(l)
  BY <1>0, <1>1 DEF ThreadInv, AgesOf, Looks
<1>4. PICK n : /\ n = next[l][h.offset] \/ (n = Junk /\ ~StillThere(th))
               /\ loc' = [loc EXCEPT ![th].nxt = n, ![th].pc = "cas"]
  BY <1>0, <1>3 DEF ReadNext
<1>5. n \in Tags \cup {Junk}
  BY <1>3, <1>4 DEF ListInv, ListTypeOK
<1>6. /\ loc' \in [Threads -> Locals] /\ \A u \in Threads \ {th} : loc'[u] = loc[u]
      /\ loc'[th].h = h /\ loc'[th].pc = "cas" /\ loc'[th].nxt = n
      /\ loc'[th].list = l /\ loc'[th].op = loc[th].op /\ loc'[th].val = loc[th].val
      /\ loc'[th].ok = loc[th].ok
  <2>1. [loc[th] EXCEPT !.nxt = n, !.pc = "cas"] \in Locals
    BY <1>2, <1>5 DEF Locals, Places
  <2>2. loc' = [loc EXCEPT ![th] = [loc[th] EXCEPT !.nxt = n, !.pc = "cas"]]
    BY <1>1, <1>4
  <2> QED BY <1>0, <1>1, <1>2, <1>3, <2>1, <2>2 DEF Locals, L
<1>7. Keeps(th) /\ ~Holds(th)' /\ ~Holds(th)
  BY <1>1, <1>6 DEF Keeps, Holds
<1>8. L(th)' = l /\ From(th)' = e /\ Looks(th) /\ Looks(th)'
  BY <1>0, <1>1, <1>6 DEF L, From, Looks
<1>9. NextIsRight(th)'
  <2>1. ASSUME NEW i \in Pos(l, e), TagAt(l, e, i) = h
        PROVE  n = TagAt(l, e, i + 1)
    <3>1. StillThere(th)
      BY <1>0, <1>3, <2>1 DEF StillThere, Pos
    <3>2. chain[l][e][i] = h.offset /\ i + 1 # 1 /\ (i + 1) - 1 = i
      BY <2>1 DEF ListInv, Linked, Pos
    <3>3. TagAt(l, e, i + 1) = next[l][chain[l][e][i]]
      BY <3>2 DEF TagAt
    <3> QED BY <1>4, <3>1, <3>2, <3>3
  <2>2. Pos(l, e)' = Pos(l, e) /\ \A i \in Nat : TagAt(l, e, i)' = TagAt(l, e, i)
    BY <1>1 DEF Pos, TagAt
  <2>3. Pos(l, e) \subseteq Nat /\ \A i \in Pos(l, e) : i + 1 \in Nat
    BY DEF Pos
  <2> QED BY <1>6, <1>8, <2>1, <2>2, <2>3 DEF NextIsRight
<1>10. AgesOf(th)'
  <2>1. AgesOf(th)
    BY <1>1 DEF ThreadInv
  <2>2. ASSUME NEW d \in Ends
        PROVE  /\ AgeInChain(th, d)' = AgeInChain(th, d)
               /\ Pos(l, d)' = Pos(l, d) /\ \A i \in Pos(l, d) : TagAt(l, d, i)' = TagAt(l, d, i)
    BY <1>1, <1>3, <1>6 DEF AgeInChain, Pos, TagAt
  <2>3. ASSUME NEW u \in Threads, Holds(u)'
        PROVE  /\ Holds(u) /\ L(u)' = L(u) /\ Off(u)' = Off(u) /\ loc'[u] = loc[u]
               /\ AgeInHand(th, u)' = AgeInHand(th, u)
    <3>1. u # th /\ loc'[u] = loc[u]
      BY <1>6, <1>7, <2>3
    <3>2. loc'[th].h = loc[th].h /\ loc'[th].op = loc[th].op
      BY <1>3, <1>6
    <3> QED BY <2>3, <3>1, <3>2 DEF Holds, L, Off, AgeInHand
  <2>4. chain' = chain /\ Nodes(l)' = Nodes(l)
    BY <1>1 DEF Nodes
  <2> QED BY <1>0, <1>3, <1>6, <1>8, <2>1, <2>2, <2>3, <2>4 DEF AgesOf
<1>11. ValueOf(th)' /\ Appending(th)'
  BY <1>1, <1>6 DEF ThreadInv, ValueOf, Holds, Appending
<1> QED BY <1>1, <1>6, <1>7, <1>9, <1>10, <1>11, ThreadMoves

(* append_to_list reads the head, or reads it again after a failed CAS. *)
LEMMA LoadAppendPreserves ==
  ASSUME ListInv, NEW th \in Threads, LoadAppend(th) \/ MissAppend(th)
  PROVE  /\ ListInv'
         /\ \A b \in Nat : SeqsUpTo(b) => SeqsUpTo(b)'
<1> DEFINE l == L(th)
           h == top[l][To(th)]
<1>1. /\ loc \in [Threads -> Locals] /\ loc[th].pc \in {"append", "link_cas"} /\ ThreadInv(th)
      /\ UNCHANGED <<top, next, sat, chain>>
      /\ loc' = [loc EXCEPT ![th].h = h, ![th].pc = "link"]
  BY DEF ListInv, ListTypeOK, LoadAppend, MissAppend
<1>2. loc[th] \in Locals /\ h \in Tags
  BY ThreadTypes, ChainTypes DEF ListInv
<1>3. /\ loc' \in [Threads -> Locals] /\ \A u \in Threads \ {th} : loc'[u] = loc[u]
      /\ loc'[th].h = h /\ loc'[th].pc = "link" /\ loc'[th].node = loc[th].node
      /\ loc'[th].list = l /\ loc'[th].op = loc[th].op /\ loc'[th].val = loc[th].val
      /\ loc'[th].ok = loc[th].ok
  <2>1. [loc[th] EXCEPT !.h = h, !.pc = "link"] \in Locals
    BY <1>2 DEF Locals, Places
  <2>2. PICK r \in Locals : r = [loc[th] EXCEPT !.h = h, !.pc = "link"]
    BY <2>1
  <2>3. /\ r.h = h /\ r.pc = "link" /\ r.node = loc[th].node /\ r.list = loc[th].list
        /\ r.op = loc[th].op /\ r.val = loc[th].val /\ r.ok = loc[th].ok
    BY <1>2, <2>2 DEF Locals
  <2>4. loc' = [loc EXCEPT ![th] = r]
    BY <1>1, <2>2
  <2>5. loc[th].list = l
    BY DEF L
  <2> QED BY <1>1, <2>3, <2>4, <2>5
<1>4. Keeps(th) /\ Holds(th) /\ Holds(th)'
  BY <1>1, <1>3 DEF Keeps, Holds, L
<1>5. AgesOf(th)' /\ NextIsRight(th)' /\ Appending(th)'
  BY <1>2, <1>3 DEF AgesOf, Looks, NextIsRight, Appending
<1>6. ValueOf(th)'
  <2>1. sat'[L(th)'][Off(th)'] = sat[L(th)][Off(th)]
    BY <1>1, <1>3 DEF L, Off
  <2> QED BY <1>1, <1>3, <1>4, <2>1 DEF ThreadInv, ValueOf
<1> QED BY <1>1, <1>3, <1>4, <1>5, <1>6, ThreadMoves

(* A thread works on the node in its hands, which is in no list. *)
LEMMA HandMoves ==
  ASSUME ListInv, NEW th \in Threads, Holds(th), Holds(th)',
         UNCHANGED <<top, chain>>, ListTypeOK',
         \A u \in Threads \ {th} : loc'[u] = loc[u],
         loc'[th].list = loc[th].list, loc'[th].op = loc[th].op,
         loc'[th].node \in Tags, Off(th)' = Off(th),
         \A l \in Lists : \A o \in Nodes(l) : l # L(th) \/ o # Off(th) =>
           next'[l][o] = next[l][o] /\ sat'[l][o] = sat[l][o],
         \A u \in Threads \ {th} : Looks(u) /\ AgeInHand(u, th) <= loc[th].node.seq =>
           AgeInHand(u, th)' <= loc'[th].node.seq,
         Appending(th)', ValueOf(th)'
  PROVE  /\ ListInv'
         /\ \A b \in Nat : SeqsUpTo(b) /\ loc'[th].node.seq <= b => SeqsUpTo(b)'
<1>t. ListTypeOK /\ L(th) \in Lists /\ HeldApart(th)
  BY ThreadTypes DEF ListInv, OnePlace
<1>1. \A u \in Threads : /\ Holds(u)' <=> Holds(u)
                         /\ L(u)' = L(u) /\ Off(u)' = Off(u)
                         /\ loc'[u].node \in Tags <=> loc[u].node \in Tags
  <2>1. loc[th].node \in Tags
    BY <1>t DEF HeldApart
  <2> QED BY <2>1 DEF Holds, L, Off
<1>2. \A l \in Lists : InHand(l)' = InHand(l)
  <2>1. \A u \in Threads, l \in Lists : (L(u)' = l /\ Holds(u)') <=> (L(u) = l /\ Holds(u))
    BY <1>1
  <2> QED BY <2>1 DEF InHand, Holds
<1>3. ASSUME NEW l \in Lists, NEW e \in Ends
      PROVE  /\ Pos(l, e)' = Pos(l, e) /\ Pos(l, e) \subseteq Nat
             /\ Len(chain[l][e]) \in Nat
             /\ \A i \in Pos(l, e) : sat'[l][chain[l][e][i]] = sat[l][chain[l][e][i]]
             /\ \A i \in 1 .. Len(chain[l][e]) + 1 : TagAt(l, e, i)' = TagAt(l, e, i)
  <2>1. Pos(l, e)' = Pos(l, e) /\ Pos(l, e) \subseteq Nat /\ Len(chain[l][e]) \in Nat
    BY <1>t, ChainTypes DEF Pos
  <2>2. ASSUME NEW i \in Pos(l, e)
        PROVE  /\ next'[l][chain[l][e][i]] = next[l][chain[l][e][i]]
               /\ sat'[l][chain[l][e][i]] = sat[l][chain[l][e][i]]
    <3>1. chain[l][e][i] \in Nodes(l)
      BY <1>t, ChainTypes
    <3>2. l # L(th) \/ chain[l][e][i] # Off(th)
      BY <1>t DEF HeldApart
    <3> QED BY <3>1, <3>2
  <2>3. ASSUME NEW i \in 1 .. Len(chain[l][e]) + 1
        PROVE  TagAt(l, e, i)' = TagAt(l, e, i)
    <3>1. CASE i = 1
      BY <3>1 DEF TagAt
    <3>2. CASE i # 1
      <4>1. i - 1 \in Pos(l, e)
        BY <2>1, <3>2 DEF Pos
      <4> QED BY <2>2, <3>2, <4>1 DEF TagAt
    <3> QED BY <3>1, <3>2
  <2> QED BY <2>1, <2>2, <2>3
<1>4. OnePlace'
  <2>1. ASSUME NEW u \in Threads
        PROVE  HeldApart(u)'
    <3>1. HeldApart(u) /\ L(u) \in Lists
      BY <1>t, ThreadTypes DEF ListInv, OnePlace
    <3> QED BY <1>1, <1>3, <3>1 DEF HeldApart, Nodes
  <2> QED BY <1>3, <2>1 DEF ListInv, OnePlace
<1>5. Somewhere'
  <2>1. ASSUME NEW l \in Lists
        PROVE  /\ \A o \in Nodes(l) :
                    \/ \E e \in Ends : \E i \in Pos(l, e)' : chain'[l][e][i] = o
                    \/ \E u \in Threads : Holds(u)' /\ L(u)' = l /\ Off(u)' = o
               /\ Len(chain'[l]["free"]) + Len(chain'[l]["head"]) + Cardinality(InHand(l)') = Cap[l]
    <3>1. /\ \A o \in Nodes(l) :
               \/ \E e \in Ends : \E i \in Pos(l, e) : chain[l][e][i] = o
               \/ \E u \in Threads : Holds(u) /\ L(u) = l /\ Off(u) = o
          /\ Len(chain[l]["free"]) + Len(chain[l]["head"]) + Cardinality(InHand(l)) = Cap[l]
      BY DEF ListInv, Somewhere
    <3>2. InHand(l)' = InHand(l) /\ \A e \in Ends : Pos(l, e)' = Pos(l, e)
      BY <1>2, <1>3
    <3>3. Len(chain'[l]["free"]) + Len(chain'[l]["head"]) + Cardinality(InHand(l)') = Cap[l]
      BY <1>1, <3>1, <3>2
    <3>4. ASSUME NEW o \in Nodes(l)
          PROVE  \/ \E e \in Ends : \E i \in Pos(l, e)' : chain'[l][e][i] = o
                 \/ \E u \in Threads : Holds(u)' /\ L(u)' = l /\ Off(u)' = o
      BY <1>1, <1>3, <3>1, <3>2
    <3> QED BY <3>3, <3>4
  <2> QED BY <2>1 DEF Somewhere, Nodes
<1>6. Linked'
  <2>1. ASSUME NEW l \in Lists, NEW e \in Ends
        PROVE  /\ \A i \in Pos(l, e)' : TagAt(l, e, i)'.offset = chain'[l][e][i]
               /\ TagAt(l, e, Len(chain[l][e]) + 1)' = EmptyTag(l)
    <3>1. /\ \A i \in Pos(l, e) : TagAt(l, e, i).offset = chain[l][e][i]
          /\ TagAt(l, e, Len(chain[l][e]) + 1) = EmptyTag(l)
      BY DEF ListInv, Linked
    <3>2. /\ Pos(l, e) \subseteq 1 .. Len(chain[l][e]) + 1
          /\ Len(chain[l][e]) + 1 \in 1 .. Len(chain[l][e]) + 1
      BY <1>3 DEF Pos
    <3>3. chain' = chain
      OBVIOUS
    <3>4. PICK n \in 1 .. Len(chain[l][e]) + 1 : n = Len(chain[l][e]) + 1 /\ n = Len(chain[l][e])' + 1
      BY <3>2, <3>3
    <3>5. TagAt(l, e, Len(chain[l][e]) + 1)' = TagAt(l, e, n)'
      BY <3>4 DEF TagAt
    <3> QED BY <1>3, <3>1, <3>2, <3>3, <3>4, <3>5
  <2> QED BY <2>1 DEF Linked, EmptyTag
<1>7. Satellites'
  <2>1. ASSUME NEW l \in Lists
        PROVE  /\ \A i \in Pos(l, "head")' : sat'[l][chain'[l]["head"][i]] \in Values
               /\ \A i \in Pos(l, "free")' : sat'[l][chain'[l]["free"][i]] = Raw
    <3>1. "head" \in Ends /\ "free" \in Ends
      BY DEF Ends
    <3>2. chain' = chain
      OBVIOUS
    <3> QED BY <1>3, <3>1, <3>2 DEF ListInv, Satellites
  <2> QED BY <2>1 DEF Satellites
<1>8. ASSUME NEW u \in Threads
      PROVE  ThreadInv(u)'
  <2>1. CASE u = th
    <3>1. AgesOf(th)' /\ NextIsRight(th)'
      BY DEF AgesOf, NextIsRight, Holds, Looks
    <3> QED BY <2>1, <3>1 DEF ThreadInv
  <2>2. CASE u # th
    <3>1. loc'[u] = loc[u] /\ ThreadInv(u) /\ L(u) \in Lists /\ From(u) \in Ends
      BY <2>2, <1>t, ThreadTypes DEF ListInv
    <3>2. L(u)' = L(u) /\ From(u)' = From(u) /\ Looks(u)' = Looks(u) /\ Holds(u)' = Holds(u)
          /\ Off(u)' = Off(u)
      BY <3>1 DEF L, From, Looks, Holds, Off
    <3>3. AgesOf(u)'
      <4>1. AgesOf(u)
        BY <3>1 DEF ThreadInv
      <4>2. ASSUME NEW e \in Ends
            PROVE  /\ AgeInChain(u, e)' = AgeInChain(u, e)
                   /\ Pos(L(u), e)' = Pos(L(u), e)
                   /\ \A i \in Pos(L(u), e) : TagAt(L(u), e, i)' = TagAt(L(u), e, i)
        <5>1. PICK l \in Lists : l = L(u) /\ l = L(u)'
          BY <3>1, <3>2
        <5>2. Pos(l, e)' = Pos(l, e) /\ \A i \in Pos(l, e) : TagAt(l, e, i)' = TagAt(l, e, i)
          BY <1>3 DEF Pos
        <5>3. AgeInChain(u, e)' = AgeInChain(u, e)
          BY <3>1 DEF AgeInChain
        <5>4. Pos(L(u), e)' = Pos(l, e)'
          BY <5>1 DEF Pos
        <5>5. \A i \in Pos(l, e) : TagAt(L(u), e, i)' = TagAt(l, e, i)'
          BY <5>1 DEF TagAt
        <5> QED BY <5>1, <5>2, <5>3, <5>4, <5>5
      <4>3. ASSUME NEW w \in Threads, Holds(w), L(w) = L(u), Off(w) = loc[u].h.offset, Looks(u)
            PROVE  AgeInHand(u, w)' <= loc'[w].node.seq
        <5>1. AgeInHand(u, w) <= loc[w].node.seq
          BY <4>1, <4>3 DEF AgesOf
        <5>2. CASE w = th
          BY <2>2, <4>3, <5>1, <5>2
        <5>3. CASE w # th
          <6>1. loc'[w] = loc[w]
            BY <5>3
          <6> QED BY <3>1, <5>1, <6>1 DEF AgeInHand
        <5> QED BY <5>2, <5>3
      <4>4. chain' = chain /\ loc'[u].h = loc[u].h /\ Nodes(L(u))' = Nodes(L(u))
        BY <3>1, <3>2 DEF Nodes
      <4> QED BY <1>1, <3>1, <3>2, <4>1, <4>2, <4>3, <4>4 DEF AgesOf
    <3>4. NextIsRight(u)'
      <4>1. PICK l \in Lists, e \in Ends : l = L(u) /\ l = L(u)' /\ e = From(u) /\ e = From(u)'
        BY <3>1, <3>2
      <4>2. Pos(l, e)' = Pos(l, e)
            /\ \A i \in Pos(l, e) : TagAt(l, e, i)' = TagAt(l, e, i)
/\ TagAt(l, e, i + 1)' = TagAt(l, e, i + 1)
        <5>1. \A i \in Pos(l, e) : i \in 1 .. Len(chain[l][e]) + 1 /\ i + 1 \in 1 .. Len(chain[l][e]) + 1
          BY <1>3 DEF Pos
        <5> QED BY <1>3, <5>1
      <4>3. loc[u].pc = "cas" => \A i \in Pos(l, e) : TagAt(l, e, i) = loc[u].h
                                 => loc[u].nxt = TagAt(l, e, i + 1)
        BY <3>1, <4>1 DEF ThreadInv, NextIsRight
      <4>4. loc'[u].pc = "cas" => \A i \in Pos(l, e)' : TagAt(l, e, i)' = loc'[u].h
                                  => loc'[u].nxt = TagAt(l, e, i + 1)'
        BY <3>1, <4>2, <4>3
      <4> QED BY <4>1, <4>4 DEF NextIsRight, TagAt, Pos
    <3>5. Appending(u)' /\ ValueOf(u)'
      <4>1. HeldApart(u) /\ HeldApart(th)
        BY DEF ListInv, OnePlace
      <4>2. Holds(u) => Off(u) \in Nodes(L(u)) /\ (L(u) # L(th) \/ Off(u) # Off(th))
        BY <2>2, <4>1 DEF HeldApart
      <4>3. Holds(u) => /\ next'[L(u)][Off(u)] = next[L(u)][Off(u)]
                        /\ sat'[L(u)][Off(u)] = sat[L(u)][Off(u)]
        BY <3>1, <4>2
      <4>4. loc[u].pc = "link_cas" => Holds(u)
        BY DEF Holds
      <4>5. Appending(u)'
        BY <3>1, <3>2, <4>3, <4>4 DEF ThreadInv, Appending
      <4>6. ValueOf(u)'
        BY <3>1, <3>2, <4>3 DEF ThreadInv, ValueOf
      <4> QED BY <4>5, <4>6
    <3> QED BY <3>3, <3>4, <3>5 DEF ThreadInv
  <2> QED BY <2>1, <2>2
<1>9. ASSUME NEW b \in Nat, SeqsUpTo(b), loc'[th].node.seq <= b
      PROVE  SeqsUpTo(b)'
  <2>1. \A l \in Lists, e \in Ends : \A i \in Pos(l, e)' : TagAt(l, e, i)'.seq <= b
    <3>1. ASSUME NEW l \in Lists, NEW e \in Ends, NEW i \in Pos(l, e)
          PROVE  TagAt(l, e, i)'.seq <= b
      <4>1. i \in 1 .. Len(chain[l][e]) + 1
        BY <1>3 DEF Pos
      <4> QED BY <1>3, <1>9, <4>1 DEF SeqsUpTo
    <3> QED BY <1>3, <3>1
  <2>2. \A u \in Threads : Holds(u)' => loc'[u].node.seq <= b
    BY <1>1, <1>9 DEF SeqsUpTo
  <2> QED BY <2>1, <2>2 DEF SeqsUpTo
<1> QED BY <1>4, <1>5, <1>6, <1>7, <1>8, <1>9 DEF ListInv

(* The construction gives the node its next sequence and its value. *)
LEMMA FillPreserves ==
  ASSUME ListInv, NEW th \in Threads, Fill(th), NEW b \in Nat, SeqsUpTo(b), b + 1 < SeqMod
  PROVE  ListInv' /\ SeqsUpTo(b + 1)'
<1>0. PICK l \in Lists : l = L(th)
  BY ThreadTypes DEF ListInv
<1>1. /\ loc \in [Threads -> Locals] /\ loc[th] \in Locals /\ ThreadInv(th) /\ HeldApart(th)
      /\ loc[th].pc = "hold" /\ loc[th].op = "push" /\ Holds(th)
      /\ UNCHANGED <<top, next, chain>>
  BY DEF ListInv, ListTypeOK, OnePlace, Fill, Holds
<1>2. PICK n \in Tags : n = loc[th].node /\ n.offset \in Nodes(l) /\ n.offset = Off(th)
  BY <1>0, <1>1 DEF HeldApart, Off
<1>3. n.seq \in Nat /\ n.seq <= b /\ SeqMod \in Nat
  BY <1>1, <1>2, StaticListAssumption DEF SeqsUpTo, Tags
<1>4. (n.seq + 1) % SeqMod = n.seq + 1
  BY <1>3
<1>5. PICK m \in Tags : m.seq = n.seq + 1 /\ m.offset = n.offset
                        /\ m = Tag((n.seq + 1) % SeqMod, n.offset)
  <2>1. n.offset \in Nat /\ n.seq + 1 \in Nat
    BY <1>3 DEF Tags
  <2>2. Tag(n.seq + 1, n.offset) \in Tags
    BY <2>1 DEF Tag, Tags
  <2>3. Tag(n.seq + 1, n.offset).seq = n.seq + 1 /\ Tag(n.seq + 1, n.offset).offset = n.offset
    BY DEF Tag
  <2> QED BY <1>4, <2>2, <2>3
<1>6. PICK v \in Values : v = loc[th].val
  BY <1>1 DEF ThreadInv, ValueOf
<1>7. /\ sat' = [sat EXCEPT ![l][n.offset] = v]
      /\ loc' = [loc EXCEPT ![th].node = m, ![th].pc = "append"]
  BY <1>0, <1>2, <1>5, <1>6 DEF Fill
<1>8. /\ loc' \in [Threads -> Locals] /\ \A u \in Threads \ {th} : loc'[u] = loc[u]
      /\ loc'[th].pc = "append" /\ loc'[th].node = m
      /\ loc'[th].list = l /\ loc[th].list = l /\ loc'[th].op = "push" /\ loc'[th].val = v
      /\ loc'[th].ok = loc[th].ok
  <2>1. [loc[th] EXCEPT !.node = m, !.pc = "append"] \in Locals
    BY <1>1 DEF Locals, Places
  <2>2. loc' = [loc EXCEPT ![th] = [loc[th] EXCEPT !.node = m, !.pc = "append"]]
    BY <1>1, <1>7
  <2> QED BY <1>0, <1>1, <1>6, <2>1, <2>2 DEF Locals, L
<1>9. /\ DOMAIN sat' = Lists /\ \A k \in Lists : sat'[k] \in [Nodes(k) -> Values \cup {Raw}]
      /\ sat'[l][n.offset] = v
      /\ \A k \in Lists : \A o \in Nodes(k) : k # l \/ o # n.offset => sat'[k][o] = sat[k][o]
  <2>1. DOMAIN sat = Lists /\ \A k \in Lists : sat[k] \in [Nodes(k) -> Values \cup {Raw}]
    BY DEF ListInv, ListTypeOK
  <2> QED BY <1>2, <1>7, <2>1
<1>10. ListTypeOK'
  BY <1>1, <1>8, <1>9 DEF ListInv, ListTypeOK, Nodes
<1>11. Holds(th)' /\ Off(th)' = Off(th) /\ L(th)' = l
  BY <1>2, <1>5, <1>8 DEF Holds, Off, L
<1>12. ASSUME NEW u \in Threads \ {th}, Looks(u), AgeInHand(u, th) <= loc[th].node.seq
       PROVE  AgeInHand(u, th)' <= loc'[th].node.seq
  <2>1. AgesOf(u) /\ loc'[u] = loc[u]
    BY <1>8 DEF ListInv, ThreadInv
  <2>2. loc[u].h.seq \in Nat
    BY <1>12, <2>1 DEF AgesOf, Tags
  <2>3. AgeInHand(u, th) = loc[u].h.seq /\ AgeInHand(u, th)' = loc[u].h.seq + 1
    BY <1>1, <1>8, <2>1 DEF AgeInHand
  <2> QED BY <1>2, <1>3, <1>5, <1>8, <1>12, <2>2, <2>3
<1>13. Appending(th)'
  BY <1>8 DEF Appending
<1>14. ValueOf(th)'
  BY <1>1, <1>2, <1>8, <1>9, <1>11 DEF ValueOf, ThreadInv
<1>15. ListInv' /\ \A c \in Nat : SeqsUpTo(c) /\ loc'[th].node.seq <= c => SeqsUpTo(c)'
  <2>1. next' = next
    BY <1>1
  <2> QED BY <1>0, <1>1, <1>2, <1>8, <1>9, <1>10, <1>11, <1>12, <1>13, <1>14, <2>1, HandMoves
<1>16. PICK c \in Nat : c = b + 1
  OBVIOUS
<1>17. SeqsUpTo(c)
  <2>1. \A k \in Lists, e \in Ends : \A i \in Pos(k, e) : TagAt(k, e, i).seq \in Nat
    <3>1. \A k \in Lists, e \in Ends : \A i \in Pos(k, e) :
            Len(chain[k][e]) \in Nat /\ i \in 1 .. Len(chain[k][e]) + 1
      BY ChainTypes DEF ListInv, Pos
    <3> QED BY <3>1, ChainTypes DEF ListInv, Tags
  <2>2. \A u \in Threads : Holds(u) => loc[u].node.seq \in Nat
    BY DEF ListInv, OnePlace, HeldApart, Tags
  <2> QED BY <1>16, <2>1, <2>2 DEF SeqsUpTo
<1>18. SeqsUpTo(c)'
  BY <1>2, <1>3, <1>5, <1>8, <1>15, <1>16, <1>17
<1> QED BY <1>15, <1>16, <1>18 DEF SeqsUpTo

(* The value moves out of the node, and is destroyed there. *)
LEMMA EmptyPreserves ==
  ASSUME ListInv, NEW th \in Threads, Empty(th)
  PROVE  /\ ListInv'
         /\ \A b \in Nat : SeqsUpTo(b) => SeqsUpTo(b)'
<1>0. PICK l \in Lists : l = L(th)
  BY ThreadTypes DEF ListInv
<1>1. /\ loc \in [Threads -> Locals] /\ loc[th] \in Locals /\ ThreadInv(th) /\ HeldApart(th)
      /\ loc[th].pc = "hold" /\ loc[th].op = "pop" /\ Holds(th)
      /\ UNCHANGED <<top, next, chain>>
  BY DEF ListInv, ListTypeOK, OnePlace, Empty, Holds
<1>2. PICK n \in Tags : n = loc[th].node /\ n.offset \in Nodes(l) /\ n.offset = Off(th)
  BY <1>0, <1>1 DEF HeldApart, Off
<1>6. PICK v \in Values : v = sat[l][n.offset]
  BY <1>0, <1>1, <1>2 DEF ThreadInv, ValueOf
<1>7. /\ sat' = [sat EXCEPT ![l][n.offset] = Raw]
      /\ loc' = [loc EXCEPT ![th].val = v, ![th].pc = "append"]
  BY <1>0, <1>2, <1>6 DEF Empty
<1>8. /\ loc' \in [Threads -> Locals] /\ \A u \in Threads \ {th} : loc'[u] = loc[u]
      /\ loc'[th].pc = "append" /\ loc'[th].node = n
      /\ loc'[th].list = l /\ loc[th].list = l /\ loc'[th].op = "pop" /\ loc'[th].val = v
      /\ loc'[th].ok = loc[th].ok
  <2>1. [loc[th] EXCEPT !.val = v, !.pc = "append"] \in Locals
    BY <1>1 DEF Locals, Places
  <2>2. loc' = [loc EXCEPT ![th] = [loc[th] EXCEPT !.val = v, !.pc = "append"]]
    BY <1>1, <1>7
  <2> QED BY <1>0, <1>1, <1>2, <2>1, <2>2 DEF Locals, L
<1>9. /\ DOMAIN sat' = Lists /\ \A k \in Lists : sat'[k] \in [Nodes(k) -> Values \cup {Raw}]
      /\ sat'[l][n.offset] = Raw
      /\ \A k \in Lists : \A o \in Nodes(k) : k # l \/ o # n.offset => sat'[k][o] = sat[k][o]
  <2>1. DOMAIN sat = Lists /\ \A k \in Lists : sat[k] \in [Nodes(k) -> Values \cup {Raw}]
    BY DEF ListInv, ListTypeOK
  <2> QED BY <1>2, <1>7, <2>1
<1>10. ListTypeOK'
  BY <1>1, <1>8, <1>9 DEF ListInv, ListTypeOK, Nodes
<1>11. Holds(th)' /\ Off(th)' = Off(th) /\ L(th)' = l
  BY <1>2, <1>8 DEF Holds, Off, L
<1>12. ASSUME NEW u \in Threads \ {th}, Looks(u), AgeInHand(u, th) <= loc[th].node.seq
       PROVE  AgeInHand(u, th)' <= loc'[th].node.seq
  <2>1. loc'[u] = loc[u]
    BY <1>8
  <2>2. AgeInHand(u, th)' = AgeInHand(u, th)
    BY <1>1, <1>8, <2>1 DEF AgeInHand
  <2> QED BY <1>2, <1>8, <1>12, <2>2
<1>13. Appending(th)'
  BY <1>8 DEF Appending
<1>14. ValueOf(th)'
  BY <1>1, <1>2, <1>8, <1>9, <1>11 DEF ValueOf, ThreadInv
<1>15. ListInv' /\ \A c \in Nat : SeqsUpTo(c) /\ loc'[th].node.seq <= c => SeqsUpTo(c)'
  <2>1. next' = next
    BY <1>1
  <2> QED BY <1>0, <1>1, <1>2, <1>8, <1>9, <1>10, <1>11, <1>12, <1>13, <1>14, <2>1, HandMoves
<1> QED BY <1>1, <1>2, <1>8, <1>15 DEF SeqsUpTo

(* The node in hand gets the head that was read as its next. *)
LEMMA LinkPreserves ==
  ASSUME ListInv, NEW th \in Threads, Link(th)
  PROVE  /\ ListInv'
         /\ \A b \in Nat : SeqsUpTo(b) => SeqsUpTo(b)'
<1>0. PICK l \in Lists : l = L(th)
  BY ThreadTypes DEF ListInv
<1>1. /\ loc \in [Threads -> Locals] /\ loc[th] \in Locals /\ ThreadInv(th) /\ HeldApart(th)
      /\ loc[th].pc = "link" /\ Holds(th)
      /\ UNCHANGED <<top, sat, chain>>
  BY DEF ListInv, ListTypeOK, OnePlace, Link, Holds
<1>2. PICK n \in Tags : n = loc[th].node /\ n.offset \in Nodes(l) /\ n.offset = Off(th)
  BY <1>0, <1>1 DEF HeldApart, Off
<1>6. PICK h \in Tags : h = loc[th].h
  BY <1>1 DEF ThreadInv, Appending
<1>7. /\ next' = [next EXCEPT ![l][n.offset] = h]
      /\ loc' = [loc EXCEPT ![th].pc = "link_cas"]
  BY <1>0, <1>2, <1>6 DEF Link
<1>8. /\ loc' \in [Threads -> Locals] /\ \A u \in Threads \ {th} : loc'[u] = loc[u]
      /\ loc'[th].pc = "link_cas" /\ loc'[th].node = n /\ loc'[th].h = h
      /\ loc'[th].list = l /\ loc[th].list = l /\ loc'[th].op = loc[th].op
      /\ loc'[th].val = loc[th].val /\ loc'[th].ok = loc[th].ok
  <2>1. [loc[th] EXCEPT !.pc = "link_cas"] \in Locals
    BY <1>1 DEF Locals, Places
  <2>2. loc' = [loc EXCEPT ![th] = [loc[th] EXCEPT !.pc = "link_cas"]]
    BY <1>1, <1>7
  <2> QED BY <1>0, <1>1, <1>2, <1>6, <2>1, <2>2 DEF Locals, L
<1>9. /\ DOMAIN next' = Lists /\ \A k \in Lists : next'[k] \in [Nodes(k) -> Tags]
      /\ next'[l][n.offset] = h
      /\ \A k \in Lists : \A o \in Nodes(k) : k # l \/ o # n.offset => next'[k][o] = next[k][o]
  <2>1. DOMAIN next = Lists /\ \A k \in Lists : next[k] \in [Nodes(k) -> Tags]
    BY DEF ListInv, ListTypeOK
  <2> QED BY <1>2, <1>7, <2>1
<1>10. ListTypeOK'
  BY <1>1, <1>8, <1>9 DEF ListInv, ListTypeOK, Nodes
<1>11. Holds(th)' /\ Off(th)' = Off(th) /\ L(th)' = l
  BY <1>2, <1>8 DEF Holds, Off, L
<1>12. ASSUME NEW u \in Threads \ {th}, Looks(u), AgeInHand(u, th) <= loc[th].node.seq
       PROVE  AgeInHand(u, th)' <= loc'[th].node.seq
  <2>1. loc'[u] = loc[u]
    BY <1>8
  <2>2. AgeInHand(u, th)' = AgeInHand(u, th)
    BY <1>1, <1>8, <2>1 DEF AgeInHand
  <2> QED BY <1>2, <1>8, <1>12, <2>2
<1>13. Appending(th)'
  BY <1>2, <1>8, <1>9, <1>11 DEF Appending
<1>14. ValueOf(th)'
  <2>1. sat'[L(th)'][Off(th)'] = sat[L(th)][Off(th)]
    BY <1>0, <1>1, <1>11
  <2> QED BY <1>1, <1>8, <1>11, <2>1 DEF ValueOf, ThreadInv
<1>15. ListInv' /\ \A c \in Nat : SeqsUpTo(c) /\ loc'[th].node.seq <= c => SeqsUpTo(c)'
  <2>1. sat' = sat
    BY <1>1
  <2> QED BY <1>0, <1>1, <1>2, <1>8, <1>9, <1>10, <1>11, <1>12, <1>13, <1>14, <2>1, HandMoves
<1> QED BY <1>1, <1>2, <1>8, <1>15 DEF SeqsUpTo

(* The thread's locals after the CAS of pop_from_list. *)
LEMMA PopLocals ==
  ASSUME ListInv, NEW th \in Threads, PopNode(th), NEW l \in Lists, l = L(th)
  PROVE  /\ loc' \in [Threads -> Locals] /\ \A u \in Threads \ {th} : loc'[u] = loc[u]
         /\ loc[th].pc = "cas" /\ loc'[th].pc = "hold" /\ loc'[th].node = loc[th].h
         /\ loc'[th].list = l /\ loc[th].list = l /\ loc'[th].op = loc[th].op
         /\ loc'[th].val = loc[th].val /\ loc'[th].ok = loc[th].ok
<1>1. loc \in [Threads -> Locals] /\ loc[th].pc = "cas" /\ AgesOf(th)
  BY DEF ListInv, ListTypeOK, ThreadInv, PopNode
<1>2. loc[th] \in Locals /\ loc[th].h \in Tags
  BY <1>1 DEF AgesOf, Looks
<1>3. [loc[th] EXCEPT !.node = loc[th].h, !.h = Junk, !.nxt = Junk, !.pc = "hold"] \in Locals
  BY <1>2 DEF Locals, Places
<1>4. loc' = [loc EXCEPT ![th] =
                [loc[th] EXCEPT !.node = loc[th].h, !.h = Junk, !.nxt = Junk, !.pc = "hold"]]
  BY <1>1 DEF PopNode
<1> QED BY <1>1, <1>2, <1>3, <1>4 DEF Locals, L

(* Where the i-th node of list m, end f, was before a node left end e of list l. *)
After(l, e, m, f, i) == IF m = l /\ f = e THEN i + 1 ELSE i

(* The CAS takes the first node off its chain, and the head goes on to the second. *)
LEMMA PopShifts ==
  ASSUME ListInv, NEW th \in Threads, PopNode(th),
         NEW l \in Lists, NEW e \in Ends, l = L(th), e = From(th)
  PROVE  /\ 1 \in Pos(l, e) /\ loc[th].h \in Tags
         /\ loc[th].h = TagAt(l, e, 1) /\ loc[th].h.offset = chain[l][e][1]
         /\ UNCHANGED <<next, sat>>
         /\ top' \in [Lists -> [Ends -> Tags]]
         /\ DOMAIN chain' = Lists /\ \A m \in Lists : chain'[m] \in [Ends -> Seq(Nodes(m))]
         /\ \A m \in Lists, f \in Ends :
              /\ Len(chain'[m][f]) \in Nat
              /\ Len(chain'[m][f]) = IF m = l /\ f = e THEN Len(chain[m][f]) - 1 ELSE Len(chain[m][f])
              /\ \A i \in Pos(m, f)' :
                   /\ i \in Nat /\ After(l, e, m, f, i) \in Pos(m, f)
                   /\ chain'[m][f][i] = chain[m][f][After(l, e, m, f, i)]
              /\ \A i \in 1 .. Len(chain'[m][f]) + 1 :
                   TagAt(m, f, i)' = TagAt(m, f, After(l, e, m, f, i))
<1>1. /\ loc[th].pc = "cas" /\ top[l][e] = loc[th].h /\ ThreadInv(th) /\ ListTypeOK
      /\ top' = [top EXCEPT ![l][e] = loc[th].nxt]
      /\ chain' = [chain EXCEPT ![l][e] = Tail(@)]
      /\ UNCHANGED <<next, sat>>
  BY DEF ListInv, PopNode
<1>2. loc[th].h \in Tags /\ loc[th].h.offset \in Nodes(l)
  BY <1>1 DEF ThreadInv, AgesOf, Looks
<1>3. /\ 1 \in Pos(l, e) /\ loc[th].h = TagAt(l, e, 1) /\ loc[th].h.offset = chain[l][e][1]
      /\ chain[l][e] # <<>>
  BY <1>1, <1>2, TopIsFirst
<1>4. loc[th].nxt = TagAt(l, e, 2)
  <2>1. \A i \in Pos(l, e) : TagAt(l, e, i) = loc[th].h => loc[th].nxt = TagAt(l, e, i + 1)
    BY <1>1 DEF ThreadInv, NextIsRight
  <2>2. loc[th].nxt = TagAt(l, e, 1 + 1)
    BY <1>3, <2>1
  <2> QED BY <2>2
<1>5. /\ chain[l][e] \in Seq(Nodes(l)) /\ Len(chain[l][e]) \in Nat /\ Len(chain[l][e]) >= 1
      /\ TagAt(l, e, 2) \in Tags
  <2>1. chain[l][e] \in Seq(Nodes(l)) /\ Len(chain[l][e]) \in Nat /\ Len(chain[l][e]) >= 1
    BY <1>1, <1>3, ChainTypes DEF Pos
  <2>2. 2 \in 1 .. Len(chain[l][e]) + 1
    BY <2>1
  <2> QED BY <1>1, <2>1, <2>2, ChainTypes
<1>6. top' \in [Lists -> [Ends -> Tags]] /\ top'[l][e] = TagAt(l, e, 2)
      /\ \A m \in Lists, f \in Ends : m # l \/ f # e => top'[m][f] = top[m][f]
  BY <1>1, <1>4, <1>5 DEF ListTypeOK
<1>7. /\ Tail(chain[l][e]) \in Seq(Nodes(l)) /\ Len(Tail(chain[l][e])) = Len(chain[l][e]) - 1
      /\ \A i \in 1 .. Len(chain[l][e]) - 1 : Tail(chain[l][e])[i] = chain[l][e][i + 1]
  BY <1>3, <1>5
<1>8. /\ DOMAIN chain' = Lists /\ \A m \in Lists : chain'[m] \in [Ends -> Seq(Nodes(m))]
      /\ chain'[l][e] = Tail(chain[l][e])
      /\ \A m \in Lists, f \in Ends : m # l \/ f # e => chain'[m][f] = chain[m][f]
  <2>1. DOMAIN chain = Lists /\ \A m \in Lists : chain[m] \in [Ends -> Seq(Nodes(m))]
    BY <1>1 DEF ListTypeOK
  <2> QED BY <1>1, <1>7, <2>1
<1>9. ASSUME NEW m \in Lists, NEW f \in Ends
      PROVE  /\ Len(chain'[m][f]) \in Nat
             /\ Len(chain'[m][f]) = IF m = l /\ f = e THEN Len(chain[m][f]) - 1 ELSE Len(chain[m][f])
             /\ \A i \in Pos(m, f)' :
                  /\ i \in Nat /\ After(l, e, m, f, i) \in Pos(m, f)
                  /\ chain'[m][f][i] = chain[m][f][After(l, e, m, f, i)]
             /\ \A i \in 1 .. Len(chain'[m][f]) + 1 :
                  TagAt(m, f, i)' = TagAt(m, f, After(l, e, m, f, i))
  <2>0. Len(chain[m][f]) \in Nat
    BY <1>1, ChainTypes
  <2>1. CASE m = l /\ f = e
    <3>1. Len(chain'[l][e]) = Len(chain[l][e]) - 1 /\ Len(chain'[l][e]) \in Nat
      BY <1>5, <1>7, <1>8
    <3>2. ASSUME NEW i \in Pos(l, e)'
          PROVE  i \in Nat /\ i + 1 \in Pos(l, e) /\ chain'[l][e][i] = chain[l][e][i + 1]
      BY <1>5, <1>7, <1>8, <3>1 DEF Pos
    <3>3. ASSUME NEW i \in 1 .. Len(chain'[l][e]) + 1
          PROVE  TagAt(l, e, i)' = TagAt(l, e, i + 1)
      <4>1. CASE i = 1
        BY <1>6, <4>1 DEF TagAt
      <4>2. CASE i # 1
        <5>1. i - 1 \in Pos(l, e)' /\ (i - 1) + 1 = i /\ (i + 1) - 1 = i /\ i + 1 # 1
          BY <3>1, <4>2 DEF Pos
        <5>2. chain'[l][e][i - 1] = chain[l][e][i]
          BY <3>2, <5>1
        <5>3. TagAt(l, e, i)' = next'[l][chain'[l][e][i - 1]]
          BY <4>2 DEF TagAt
        <5>4. TagAt(l, e, i + 1) = next[l][chain[l][e][i]]
          BY <5>1 DEF TagAt
        <5> QED BY <1>1, <5>2, <5>3, <5>4
      <4> QED BY <4>1, <4>2
    <3> QED BY <2>1, <3>1, <3>2, <3>3 DEF After
  <2>2. CASE m # l \/ f # e
    <3>1. chain'[m][f] = chain[m][f] /\ top'[m][f] = top[m][f]
      BY <1>6, <1>8, <2>2
    <3>2. Pos(m, f)' = Pos(m, f) /\ Pos(m, f) \subseteq Nat
      BY <3>1 DEF Pos
    <3>n. next' = next
      BY <1>1
    <3>3. \A i \in Nat : TagAt(m, f, i)' = TagAt(m, f, i)
      BY <3>n, <3>1 DEF TagAt
    <3>4. \A i \in Nat : After(l, e, m, f, i) = i
      BY <2>2 DEF After
    <3>5. \A i \in 1 .. Len(chain[m][f]) + 1 : TagAt(m, f, i)' = TagAt(m, f, After(l, e, m, f, i))
      BY <2>0, <3>3, <3>4
    <3>6. \A i \in Pos(m, f)' : i \in Nat /\ After(l, e, m, f, i) \in Pos(m, f)
            /\ chain'[m][f][i] = chain[m][f][After(l, e, m, f, i)]
      BY <3>1, <3>2, <3>4
    <3> QED BY <2>0, <2>2, <3>1, <3>5, <3>6
  <2> QED BY <2>1, <2>2
<1> QED BY <1>1, <1>2, <1>3, <1>6, <1>8, <1>9

(* The thread now holds the node. *)
LEMMA PopNodePreserves ==
  ASSUME ListInv, NEW th \in Threads, PopNode(th)
  PROVE  /\ ListInv'
         /\ \A b \in Nat : SeqsUpTo(b) => SeqsUpTo(b)'
<1>0. PICK l \in Lists, e \in Ends : /\ l = L(th) /\ e = From(th)
                                     /\ loc[th].op = "push" => e = "free"
                                     /\ loc[th].op = "pop" => e = "head"
  BY ThreadTypes DEF ListInv
<1>t. ListTypeOK /\ loc[th] \in Locals /\ ThreadInv(th)
  BY ThreadTypes DEF ListInv
<1>h. PICK h \in Tags : h = loc[th].h
  BY <1>0, PopShifts
<1>a. /\ 1 \in Pos(l, e) /\ h = TagAt(l, e, 1) /\ h.offset = chain[l][e][1]
      /\ h.offset \in Nodes(l) /\ UNCHANGED <<next, sat>>
  BY <1>0, <1>h, <1>t, PopShifts, ChainTypes
<1>s. \A m \in Lists, f \in Ends :
        /\ Len(chain'[m][f]) \in Nat /\ Len(chain[m][f]) \in Nat
        /\ Len(chain'[m][f]) = IF m = l /\ f = e THEN Len(chain[m][f]) - 1 ELSE Len(chain[m][f])
        /\ \A i \in Pos(m, f)' :
             /\ i \in Nat /\ After(l, e, m, f, i) \in Pos(m, f)
             /\ chain'[m][f][i] = chain[m][f][After(l, e, m, f, i)]
        /\ \A i \in 1 .. Len(chain'[m][f]) + 1 :
             TagAt(m, f, i)' = TagAt(m, f, After(l, e, m, f, i))
  BY <1>0, <1>t, PopShifts, ChainTypes
<1>l. /\ loc' \in [Threads -> Locals] /\ \A u \in Threads \ {th} : loc'[u] = loc[u]
      /\ loc[th].pc = "cas" /\ loc'[th].pc = "hold" /\ loc'[th].node = h
      /\ loc'[th].list = l /\ loc[th].list = l /\ loc'[th].op = loc[th].op
      /\ loc'[th].val = loc[th].val /\ loc'[th].ok = loc[th].ok
  BY <1>0, <1>h, PopLocals
<1>o. /\ ~Holds(th) /\ Holds(th)' /\ L(th)' = l /\ Off(th)' = h.offset
      /\ \A u \in Threads \ {th} : /\ L(u)' = L(u) /\ Off(u)' = Off(u) /\ Looks(u)' = Looks(u)
                                   /\ Holds(u)' = Holds(u) /\ From(u)' = From(u)
  BY <1>l DEF Holds, L, Off, Looks, From
<1>1. ListTypeOK'
  <2>1. /\ top' \in [Lists -> [Ends -> Tags]]
        /\ DOMAIN chain' = Lists /\ \A m \in Lists : chain'[m] \in [Ends -> Seq(Nodes(m))]
    BY <1>0, PopShifts
  <2> QED BY <1>t, <1>a, <1>l, <2>1 DEF ListTypeOK, Nodes
<1>2. OnePlace'
  <2>1. ASSUME NEW m \in Lists, NEW f \in Ends, NEW g \in Ends,
               NEW i \in Pos(m, f)', NEW j \in Pos(m, g)', chain'[m][f][i] = chain'[m][g][j]
        PROVE  f = g /\ i = j
    <3>1. f = g /\ After(l, e, m, f, i) = After(l, e, m, g, j)
      BY <1>s, <2>1 DEF ListInv, OnePlace
    <3> QED BY <1>s, <3>1 DEF After
  <2>2. ASSUME NEW f \in Ends, NEW i \in Pos(l, f)'
        PROVE  chain'[l][f][i] # h.offset
    <3>1. After(l, e, l, f, i) \in Pos(l, f) /\ i \in Nat /\ i # 0
          /\ chain'[l][f][i] = chain[l][f][After(l, e, l, f, i)]
      BY <1>s DEF Pos
    <3>2. f # e \/ After(l, e, l, f, i) # 1
      BY <3>1 DEF After
    <3> QED BY <1>a, <3>1, <3>2 DEF ListInv, OnePlace
  <2>3. ASSUME NEW u \in Threads \ {th}, Holds(u), L(u) = l
        PROVE  Off(u) # h.offset
    <3>1. HeldApart(u)
      BY DEF ListInv, OnePlace
    <3> QED BY <1>a, <2>3, <3>1 DEF HeldApart
  <2>4. ASSUME NEW u \in Threads
        PROVE  HeldApart(u)'
    <3>1. CASE u = th
      BY <1>a, <1>l, <1>o, <2>2, <2>3, <3>1 DEF HeldApart, Nodes
    <3>2. CASE u # th
      <4>1. HeldApart(u) /\ L(u) \in Lists
        BY <1>t, ThreadTypes DEF ListInv, OnePlace
      <4>2. PICK m \in Lists : m = L(u) /\ m = L(u)'
        BY <1>o, <3>2, <4>1
      <4>3. SUFFICES ASSUME Holds(u)
                     PROVE  HeldApart(u)'
        BY <1>o, <3>2 DEF HeldApart
      <4>4. ASSUME NEW f \in Ends, NEW i \in Pos(m, f)'
            PROVE  chain'[m][f][i] # Off(u)
        <5>1. PICK j \in Pos(m, f) : chain'[m][f][i] = chain[m][f][j]
          BY <1>s, <4>4
        <5> QED BY <4>1, <4>2, <4>3, <5>1 DEF HeldApart
      <4>5. ASSUME NEW w \in Threads, Holds(w)', L(w)' = m, Off(w)' = Off(u)
            PROVE  w = u
        <5>1. CASE w = th
          BY <1>o, <2>3, <3>2, <4>2, <4>3, <4>5, <5>1
        <5>2. CASE w # th
          BY <1>o, <4>1, <4>2, <4>3, <4>5, <5>2 DEF HeldApart
        <5> QED BY <5>1, <5>2
      <4>6. loc'[u].node \in Tags /\ Off(u)' = Off(u) /\ Off(u) \in Nodes(m) /\ Nodes(m)' = Nodes(m)
        BY <1>l, <1>o, <3>2, <4>1, <4>2, <4>3 DEF HeldApart, Nodes
      <4>7. \A f \in Ends : Pos(L(u), f)' = Pos(m, f)'
        BY <4>2 DEF Pos
      <4> QED BY <4>2, <4>4, <4>5, <4>6, <4>7 DEF HeldApart, Nodes
    <3> QED BY <3>1, <3>2
  <2> QED BY <2>1, <2>4 DEF OnePlace
<1>3. Somewhere'
  <2>1. ASSUME NEW m \in Lists, NEW o \in Nodes(m)
        PROVE  \/ \E f \in Ends : \E i \in Pos(m, f)' : chain'[m][f][i] = o
               \/ \E u \in Threads : Holds(u)' /\ L(u)' = m /\ Off(u)' = o
    <3>1. CASE m = l /\ o = h.offset
      BY <1>o, <3>1
    <3>2. ASSUME NEW f \in Ends, NEW j \in Pos(m, f), chain[m][f][j] = o, m # l \/ o # h.offset
          PROVE  \E i \in Pos(m, f)' : chain'[m][f][i] = o
      <4>1. m # l \/ f # e \/ j # 1
        BY <1>a, <3>2
      <4>2. PICK i \in Nat : i = IF m = l /\ f = e THEN j - 1 ELSE j
        BY <4>1 DEF Pos
      <4>3. i \in Pos(m, f)' /\ After(l, e, m, f, i) = j
        BY <1>s, <4>1, <4>2 DEF Pos, After
      <4> QED BY <1>s, <3>2, <4>3
    <3>3. ASSUME NEW u \in Threads, Holds(u), L(u) = m, Off(u) = o
          PROVE  Holds(u)' /\ L(u)' = m /\ Off(u)' = o
      BY <1>o, <3>3
    <3> QED BY <3>1, <3>2, <3>3 DEF ListInv, Somewhere
  <2>2. ASSUME NEW m \in Lists
        PROVE  Len(chain'[m]["free"]) + Len(chain'[m]["head"]) + Cardinality(InHand(m)') = Cap[m]
    <3>1. /\ Len(chain[m]["free"]) + Len(chain[m]["head"]) + Cardinality(InHand(m)) = Cap[m]
          /\ IsFiniteSet(InHand(m)) /\ Cardinality(InHand(m)) \in Nat
      <4>1. IsFiniteSet(InHand(m))
        BY PoolAssumption, FS_Subset DEF InHand
      <4> QED BY <4>1, FS_CardinalityType DEF ListInv, Somewhere
    <3>2. InHand(m)' = IF m = l THEN InHand(m) \cup {th} ELSE InHand(m)
      <4>1. \A u \in Threads : u \in InHand(m)' <=> (u \in InHand(m) \/ (u = th /\ m = l))
        <5>1. \A u \in Threads : u \in InHand(m)' <=> (Holds(u)' /\ L(u)' = m)
          BY DEF InHand, Holds
        <5>2. \A u \in Threads : u \in InHand(m) <=> (Holds(u) /\ L(u) = m)
          BY DEF InHand, Holds
        <5> QED BY <1>o, <5>1, <5>2
      <4> QED BY <4>1 DEF InHand
    <3>3. th \notin InHand(m)
      BY <1>o DEF InHand, Holds
    <3>4. Cardinality(InHand(m)') = IF m = l THEN Cardinality(InHand(m)) + 1 ELSE Cardinality(InHand(m))
      BY <3>1, <3>2, <3>3, FS_AddElement
    <3>5. e = "head" \/ e = "free"
      BY DEF Ends
    <3>6. "head" \in Ends /\ "free" \in Ends
      BY DEF Ends
    <3>7. /\ Len(chain[m]["free"]) \in Nat /\ Len(chain[m]["head"]) \in Nat
          /\ Len(chain'[m]["free"]) = IF m = l /\ e = "free" THEN Len(chain[m]["free"]) - 1
                                                            ELSE Len(chain[m]["free"])
          /\ Len(chain'[m]["head"]) = IF m = l /\ e = "head" THEN Len(chain[m]["head"]) - 1
                                                            ELSE Len(chain[m]["head"])
      BY <1>s, <3>6
    <3>p. PICK x \in Nat, y \in Nat, z \in Nat :
            /\ x = Len(chain[m]["free"]) /\ y = Len(chain[m]["head"]) /\ z = Cardinality(InHand(m))
            /\ x + y + z = Cap[m]
      BY <3>1, <3>7
    <3>8. CASE m = l
      <4>0. Cardinality(InHand(m)') = Cardinality(InHand(m)) + 1
        BY <3>4, <3>8
      <4>1. CASE e = "head"
        <5>1. /\ Len(chain'[m]["head"]) = Len(chain[m]["head"]) - 1
              /\ Len(chain'[m]["free"]) = Len(chain[m]["free"])
          BY <3>7, <3>8, <4>1
        <5>2. (x - 1) + y + (z + 1) = x + y + z /\ x + (y - 1) + (z + 1) = x + y + z
          OBVIOUS
        <5> QED BY <3>p, <4>0, <5>1, <5>2
      <4>2. CASE e = "free"
        <5>1. /\ Len(chain'[m]["free"]) = Len(chain[m]["free"]) - 1
              /\ Len(chain'[m]["head"]) = Len(chain[m]["head"])
          BY <3>7, <3>8, <4>2
        <5>2. (x - 1) + y + (z + 1) = x + y + z /\ x + (y - 1) + (z + 1) = x + y + z
          OBVIOUS
        <5> QED BY <3>p, <4>0, <5>1, <5>2
      <4> QED BY <3>5, <4>1, <4>2
    <3>9. CASE m # l
      BY <3>1, <3>4, <3>7, <3>9
    <3> QED BY <3>8, <3>9
  <2> QED BY <2>1, <2>2 DEF Somewhere, Nodes
<1>4. Linked'
  <2>1. ASSUME NEW m \in Lists, NEW f \in Ends
        PROVE  /\ \A i \in Pos(m, f)' : TagAt(m, f, i)'.offset = chain'[m][f][i]
               /\ TagAt(m, f, Len(chain[m][f]) + 1)' = EmptyTag(m)
    <3>1. /\ \A i \in Pos(m, f) : TagAt(m, f, i).offset = chain[m][f][i]
          /\ TagAt(m, f, Len(chain[m][f]) + 1) = EmptyTag(m)
      BY DEF ListInv, Linked
    <3>2. PICK n \in Nat : n = Len(chain'[m][f]) + 1 /\ n = Len(chain[m][f])' + 1
      BY <1>s
    <3>3. n \in 1 .. Len(chain'[m][f]) + 1 /\ After(l, e, m, f, n) = Len(chain[m][f]) + 1
      <4>1. /\ Len(chain'[m][f]) \in Nat /\ Len(chain[m][f]) \in Nat
            /\ Len(chain'[m][f]) = IF m = l /\ f = e THEN Len(chain[m][f]) - 1 ELSE Len(chain[m][f])
        BY <1>s
      <4> QED BY <3>2, <4>1 DEF After
    <3>4. TagAt(m, f, Len(chain[m][f]) + 1)' = TagAt(m, f, n)'
      BY <3>2 DEF TagAt
    <3>5. \A i \in Pos(m, f)' : i \in 1 .. Len(chain'[m][f]) + 1
      BY <1>s DEF Pos
    <3> QED BY <1>s, <3>1, <3>3, <3>4, <3>5
  <2> QED BY <2>1 DEF Linked, EmptyTag
<1>5. Satellites'
  <2>1. "head" \in Ends /\ "free" \in Ends
    BY DEF Ends
  <2>2. ASSUME NEW m \in Lists
        PROVE  /\ \A i \in Pos(m, "head")' : sat'[m][chain'[m]["head"][i]] \in Values
               /\ \A i \in Pos(m, "free")' : sat'[m][chain'[m]["free"][i]] = Raw
    <3>1. /\ \A i \in Pos(m, "head") : sat[m][chain[m]["head"][i]] \in Values
          /\ \A i \in Pos(m, "free") : sat[m][chain[m]["free"][i]] = Raw
      BY DEF ListInv, Satellites
    <3>2. ASSUME NEW i \in Pos(m, "head")'
          PROVE  sat'[m][chain'[m]["head"][i]] \in Values
      <4>1. PICK j \in Pos(m, "head") : chain'[m]["head"][i] = chain[m]["head"][j]
        BY <1>s, <2>1
      <4> QED BY <1>a, <3>1, <4>1
    <3>3. ASSUME NEW i \in Pos(m, "free")'
          PROVE  sat'[m][chain'[m]["free"][i]] = Raw
      <4>1. PICK j \in Pos(m, "free") : chain'[m]["free"][i] = chain[m]["free"][j]
        BY <1>s, <2>1
      <4> QED BY <1>a, <3>1, <4>1
    <3> QED BY <3>2, <3>3
  <2> QED BY <2>2 DEF Satellites
<1>6. ASSUME NEW u \in Threads
      PROVE  ThreadInv(u)'
  <2>1. CASE u = th
    <3>1. AgesOf(th)' /\ NextIsRight(th)' /\ Appending(th)'
      BY <1>l DEF AgesOf, Looks, NextIsRight, Appending
    <3>2. sat'[l][h.offset] = sat[l][h.offset]
          /\ (loc[th].op = "push" => sat[l][h.offset] = Raw)
          /\ (loc[th].op = "pop" => sat[l][h.offset] \in Values)
      BY <1>0, <1>a DEF ListInv, Satellites
    <3>3. ValueOf(th)'
      BY <1>t, <1>l, <1>o, <3>2 DEF ThreadInv, ValueOf
    <3> QED BY <2>1, <3>1, <3>3 DEF ThreadInv
  <2>2. CASE u # th
    <3>1. loc'[u] = loc[u] /\ ThreadInv(u) /\ L(u) \in Lists /\ From(u) \in Ends
      BY <2>2, <1>t, <1>l, ThreadTypes DEF ListInv
    <3>2. L(u)' = L(u) /\ From(u)' = From(u) /\ Looks(u)' = Looks(u) /\ Holds(u)' = Holds(u)
          /\ Off(u)' = Off(u)
      BY <1>o, <2>2
    <3>3. PICK m \in Lists, g \in Ends : m = L(u) /\ m = L(u)' /\ g = From(u) /\ g = From(u)'
      BY <3>1, <3>2
    <3>4. AgesOf(u)'
      <4>1. SUFFICES ASSUME Looks(u)
                     PROVE  AgesOf(u)'
        BY <3>2 DEF AgesOf
      <4>2. /\ loc[u].h \in Tags /\ loc[u].h.offset \in Nodes(m) /\ loc'[u].h = loc[u].h
            /\ \A f \in Ends : \A i \in Pos(m, f) :
                 chain[m][f][i] = loc[u].h.offset => AgeInChain(u, f) <= TagAt(m, f, i).seq
        <5>1. AgesOf(u)
          BY <3>1 DEF ThreadInv
        <5> QED BY <3>1, <3>3, <4>1, <5>1 DEF AgesOf
      <4>3. ASSUME NEW f \in Ends, NEW i \in Pos(m, f)', chain'[m][f][i] = loc[u].h.offset
            PROVE  AgeInChain(u, f)' <= TagAt(m, f, i)'.seq
        <5>1. i \in 1 .. Len(chain'[m][f]) + 1
          BY <1>s DEF Pos
        <5>2. AgeInChain(u, f) <= TagAt(m, f, After(l, e, m, f, i)).seq
          BY <1>s, <4>2, <4>3
        <5>3. AgeInChain(u, f)' = AgeInChain(u, f)
          BY <3>1 DEF AgeInChain
        <5> QED BY <1>s, <5>1, <5>2, <5>3
      <4>4. ASSUME NEW w \in Threads, Holds(w)', L(w)' = m, Off(w)' = loc[u].h.offset
            PROVE  AgeInHand(u, w)' <= loc'[w].node.seq
        <5>1. CASE w = th
          <6>1. AgeInChain(u, e) <= h.seq
            BY <1>a, <1>o, <4>2, <4>4, <5>1
          <6>2. AgeInHand(u, th)' = AgeInChain(u, e)
            <7>1. loc[th].op = "push" \/ loc[th].op = "pop"
              BY <1>t DEF Locals
            <7> QED BY <1>0, <1>l, <3>1, <7>1 DEF AgeInHand, AgeInChain
          <6> QED BY <1>l, <5>1, <6>1, <6>2
        <5>2. CASE w # th
          <6>1. loc'[w] = loc[w] /\ Holds(w) /\ L(w) = m /\ Off(w) = loc[u].h.offset
            BY <1>l, <1>o, <4>4, <5>2
          <6>2. AgeInHand(u, w) <= loc[w].node.seq
            <7>1. AgesOf(u)
              BY <3>1 DEF ThreadInv
            <7> QED BY <3>3, <4>1, <6>1, <7>1 DEF AgesOf
          <6> QED BY <3>1, <6>1, <6>2 DEF AgeInHand
        <5> QED BY <5>1, <5>2
      <4>5. Nodes(m)' = Nodes(m) /\ \A f \in Ends : Pos(L(u), f)' = Pos(m, f)'
        BY <3>3 DEF Nodes, Pos
      <4>6. \A f \in Ends, i \in Nat : TagAt(L(u), f, i)' = TagAt(m, f, i)'
        BY <3>3 DEF TagAt
      <4>7. \A f \in Ends : \A i \in Pos(m, f)' : i \in Nat
        BY <1>s
      <4> QED BY <3>3, <4>2, <4>3, <4>4, <4>5, <4>6, <4>7 DEF AgesOf, Nodes
    <3>5. NextIsRight(u)'
      <4>1. ASSUME loc[u].pc = "cas", NEW i \in Pos(m, g)', TagAt(m, g, i)' = loc[u].h
            PROVE  loc[u].nxt = TagAt(m, g, i + 1)'
        <5>1. /\ i \in 1 .. Len(chain'[m][g]) + 1 /\ i + 1 \in 1 .. Len(chain'[m][g]) + 1
              /\ After(l, e, m, g, i) \in Pos(m, g)
              /\ After(l, e, m, g, i + 1) = After(l, e, m, g, i) + 1
          BY <1>s DEF Pos, After
        <5>2. TagAt(m, g, i)' = TagAt(m, g, After(l, e, m, g, i))
              /\ TagAt(m, g, i + 1)' = TagAt(m, g, After(l, e, m, g, i) + 1)
          BY <1>s, <5>1
        <5>3. NextIsRight(u)
          BY <3>1 DEF ThreadInv
        <5> QED BY <3>3, <4>1, <5>1, <5>2, <5>3 DEF NextIsRight
      <4>2. Pos(L(u), From(u))' = Pos(m, g)'
        BY <3>3 DEF Pos
      <4>3. \A i \in Nat : TagAt(L(u), From(u), i)' = TagAt(m, g, i)'
        BY <3>3 DEF TagAt
      <4>4. \A i \in Pos(m, g)' : i \in Nat /\ i + 1 \in Nat
        BY <1>s
      <4> QED BY <3>1, <4>1, <4>2, <4>3, <4>4 DEF NextIsRight
    <3>6. Appending(u)' /\ ValueOf(u)'
      BY <1>a, <3>1, <3>2 DEF ThreadInv, Appending, ValueOf
    <3> QED BY <3>4, <3>5, <3>6 DEF ThreadInv
  <2> QED BY <2>1, <2>2
<1>7. ASSUME NEW b \in Nat, SeqsUpTo(b)
      PROVE  SeqsUpTo(b)'
  <2>1. \A m \in Lists, f \in Ends : \A i \in Pos(m, f)' : TagAt(m, f, i)'.seq <= b
    <3>1. ASSUME NEW m \in Lists, NEW f \in Ends, NEW i \in Pos(m, f)'
          PROVE  TagAt(m, f, i)'.seq <= b
      <4>1. i \in 1 .. Len(chain'[m][f]) + 1
        BY <1>s DEF Pos
      <4> QED BY <1>s, <1>7, <4>1 DEF SeqsUpTo
    <3> QED BY <3>1
  <2>2. ASSUME NEW u \in Threads, Holds(u)'
        PROVE  loc'[u].node.seq <= b
    <3>1. CASE u = th
      BY <1>a, <1>l, <1>7, <3>1 DEF SeqsUpTo
    <3>2. CASE u # th
      BY <1>l, <1>o, <1>7, <2>2, <3>2 DEF SeqsUpTo
    <3> QED BY <3>1, <3>2
  <2> QED BY <2>1, <2>2 DEF SeqsUpTo
<1> QED BY <1>1, <1>2, <1>3, <1>4, <1>5, <1>6, <1>7 DEF ListInv

(* The thread's locals after the CAS of append_to_list. *)
LEMMA AppendLocals ==
  ASSUME ListInv, NEW th \in Threads, AppendNode(th), NEW l \in Lists, l = L(th)
  PROVE  /\ loc' \in [Threads -> Locals] /\ \A u \in Threads \ {th} : loc'[u] = loc[u]
         /\ loc[th].pc = "link_cas" /\ loc'[th].pc = "done" /\ loc'[th].ok
         /\ loc'[th].list = l /\ loc[th].list = l /\ loc'[th].op = loc[th].op
         /\ loc'[th].val = loc[th].val
<1>1. loc \in [Threads -> Locals] /\ loc[th].pc = "link_cas" /\ loc[th] \in Locals
  BY DEF ListInv, ListTypeOK, AppendNode
<1>2. [loc[th] EXCEPT !.ok = TRUE, !.h = Junk, !.node = Junk, !.pc = "done"] \in Locals
  BY <1>1 DEF Locals, Places
<1>3. loc' = [loc EXCEPT ![th] =
                [loc[th] EXCEPT !.ok = TRUE, !.h = Junk, !.node = Junk, !.pc = "done"]]
  BY <1>1 DEF AppendNode
<1> QED BY <1>1, <1>2, <1>3 DEF Locals, L

(* The i-th node of list m, end f, is the one that was just put first on end d
   of list l, or it was one place further to the front before. *)
IsNew(l, d, m, f, i) == m = l /\ f = d /\ i = 1
Before(l, d, m, f, i) == IF m = l /\ f = d THEN i - 1 ELSE i

(* The CAS puts the node in hand before the others, to which its next leads. *)
LEMMA AppendShifts ==
  ASSUME ListInv, NEW th \in Threads, AppendNode(th),
         NEW l \in Lists, NEW d \in Ends, l = L(th), d = To(th)
  PROVE  /\ loc[th].node \in Tags /\ loc[th].node.offset \in Nodes(l)
         /\ UNCHANGED <<next, sat>>
         /\ top' \in [Lists -> [Ends -> Tags]]
         /\ DOMAIN chain' = Lists /\ \A m \in Lists : chain'[m] \in [Ends -> Seq(Nodes(m))]
         /\ 1 \in Pos(l, d)' /\ chain'[l][d][1] = loc[th].node.offset
         /\ TagAt(l, d, 1)' = loc[th].node
         /\ \A m \in Lists, f \in Ends :
              /\ Len(chain[m][f]) \in Nat /\ Len(chain'[m][f]) \in Nat
              /\ Len(chain'[m][f]) = IF m = l /\ f = d THEN Len(chain[m][f]) + 1 ELSE Len(chain[m][f])
              /\ \A i \in Pos(m, f)' : ~IsNew(l, d, m, f, i) =>
                   /\ Before(l, d, m, f, i) \in Pos(m, f)
                   /\ chain'[m][f][i] = chain[m][f][Before(l, d, m, f, i)]
              /\ \A i \in 1 .. Len(chain'[m][f]) + 1 : ~IsNew(l, d, m, f, i) =>
                   TagAt(m, f, i)' = TagAt(m, f, Before(l, d, m, f, i))
<1>1. /\ loc[th].pc = "link_cas" /\ top[l][d] = loc[th].h /\ ThreadInv(th) /\ HeldApart(th)
      /\ ListTypeOK /\ Holds(th)
  BY DEF ListInv, OnePlace, AppendNode, Holds
<1>2. PICK n \in Tags : n = loc[th].node /\ n.offset \in Nodes(l) /\ next[l][n.offset] = top[l][d]
  BY <1>1 DEF HeldApart, Off, ThreadInv, Appending
<1>3. /\ top' = [top EXCEPT ![l][d] = n]
      /\ chain' = [chain EXCEPT ![l][d] = <<n.offset>> \o @]
  BY <1>2 DEF AppendNode
<1>n. UNCHANGED <<next, sat>>
  BY DEF AppendNode
<1>4. chain[l][d] \in Seq(Nodes(l)) /\ Len(chain[l][d]) \in Nat
  BY <1>1, ChainTypes
<1>6. top' \in [Lists -> [Ends -> Tags]] /\ top'[l][d] = n
      /\ \A m \in Lists, f \in Ends : m # l \/ f # d => top'[m][f] = top[m][f]
  BY <1>1, <1>3 DEF ListTypeOK
<1>7. PICK s \in Seq(Nodes(l)) :
        /\ s = <<n.offset>> \o chain[l][d] /\ Len(s) = Len(chain[l][d]) + 1 /\ s[1] = n.offset
        /\ \A i \in 2 .. Len(chain[l][d]) + 1 : s[i] = chain[l][d][i - 1]
  <2>1. <<n.offset>> \o chain[l][d] \in Seq(Nodes(l))
    BY <1>2, <1>4
  <2>2. Len(<<n.offset>> \o chain[l][d]) = Len(chain[l][d]) + 1
    BY <1>2, <1>4
  <2>3. (<<n.offset>> \o chain[l][d])[1] = n.offset
    BY <1>2, <1>4
  <2>4. \A i \in 2 .. Len(chain[l][d]) + 1 :
          (<<n.offset>> \o chain[l][d])[i] = chain[l][d][i - 1]
    BY <1>2, <1>4
  <2> QED BY <2>1, <2>2, <2>3, <2>4
<1>8. /\ DOMAIN chain' = Lists /\ \A m \in Lists : chain'[m] \in [Ends -> Seq(Nodes(m))]
      /\ chain'[l][d] = s
      /\ \A m \in Lists, f \in Ends : m # l \/ f # d => chain'[m][f] = chain[m][f]
  <2>1. DOMAIN chain = Lists /\ \A m \in Lists : chain[m] \in [Ends -> Seq(Nodes(m))]
    BY <1>1 DEF ListTypeOK
  <2> QED BY <1>3, <1>7, <2>1
<1>9. ASSUME NEW m \in Lists, NEW f \in Ends
      PROVE  /\ Len(chain[m][f]) \in Nat /\ Len(chain'[m][f]) \in Nat
             /\ Len(chain'[m][f]) = IF m = l /\ f = d THEN Len(chain[m][f]) + 1 ELSE Len(chain[m][f])
             /\ \A i \in Pos(m, f)' : ~IsNew(l, d, m, f, i) =>
                  /\ Before(l, d, m, f, i) \in Pos(m, f)
                  /\ chain'[m][f][i] = chain[m][f][Before(l, d, m, f, i)]
             /\ \A i \in 1 .. Len(chain'[m][f]) + 1 : ~IsNew(l, d, m, f, i) =>
                  TagAt(m, f, i)' = TagAt(m, f, Before(l, d, m, f, i))
  <2>0. Len(chain[m][f]) \in Nat
    BY <1>1, ChainTypes
  <2>1. CASE m = l /\ f = d
    <3>1. Len(chain'[l][d]) = Len(chain[l][d]) + 1 /\ Len(chain'[l][d]) \in Nat
      BY <1>4, <1>7, <1>8
    <3>2. ASSUME NEW i \in Pos(l, d)', i # 1
          PROVE  i - 1 \in Pos(l, d) /\ chain'[l][d][i] = chain[l][d][i - 1]
      <4>1. i \in 2 .. Len(chain[l][d]) + 1
        BY <1>4, <3>1, <3>2 DEF Pos
      <4>2. i - 1 \in Pos(l, d)
        BY <1>4, <4>1 DEF Pos
      <4> QED BY <1>7, <1>8, <4>1, <4>2
    <3>3. ASSUME NEW i \in 1 .. Len(chain'[l][d]) + 1, i # 1
          PROVE  TagAt(l, d, i)' = TagAt(l, d, i - 1)
      <4>1. CASE i = 2
        <5>1. TagAt(l, d, 2)' = next'[l][chain'[l][d][1]]
          BY DEF TagAt
        <5>2. TagAt(l, d, 1) = top[l][d]
          BY DEF TagAt
        <5>3. chain'[l][d][1] = n.offset /\ next' = next
          BY <1>7, <1>8, <1>n
        <5> QED BY <1>2, <4>1, <5>1, <5>2, <5>3
      <4>2. CASE i # 2
        <5>1. i - 1 \in Pos(l, d)' /\ i - 1 # 1 /\ (i - 1) - 1 = i - 2
          BY <3>1, <3>3, <4>2 DEF Pos
        <5>2. chain'[l][d][i - 1] = chain[l][d][i - 2]
          BY <3>2, <5>1
        <5>3. TagAt(l, d, i)' = next'[l][chain'[l][d][i - 1]]
          BY <3>3 DEF TagAt
        <5>4. TagAt(l, d, i - 1) = next[l][chain[l][d][i - 2]]
          BY <5>1 DEF TagAt
        <5> QED BY <1>n, <5>2, <5>3, <5>4
      <4> QED BY <4>1, <4>2
    <3> QED BY <2>0, <2>1, <3>1, <3>2, <3>3 DEF Before, IsNew
  <2>2. CASE m # l \/ f # d
    <3>1. chain'[m][f] = chain[m][f] /\ top'[m][f] = top[m][f]
      BY <1>6, <1>8, <2>2
    <3>2. Pos(m, f)' = Pos(m, f) /\ Pos(m, f) \subseteq Nat
      BY <3>1 DEF Pos
    <3>3. next' = next
      BY <1>n
    <3>4. \A i \in Nat : TagAt(m, f, i)' = TagAt(m, f, i)
      BY <3>1, <3>3 DEF TagAt
    <3>5. \A i \in Nat : Before(l, d, m, f, i) = i
      BY <2>2 DEF Before
    <3>6. \A i \in 1 .. Len(chain[m][f]) + 1 : TagAt(m, f, i)' = TagAt(m, f, Before(l, d, m, f, i))
      BY <2>0, <3>4, <3>5
    <3>7. \A i \in Pos(m, f)' : /\ Before(l, d, m, f, i) \in Pos(m, f)
                                /\ chain'[m][f][i] = chain[m][f][Before(l, d, m, f, i)]
      BY <3>1, <3>2, <3>5
    <3> QED BY <2>0, <2>2, <3>1, <3>6, <3>7
  <2> QED BY <2>1, <2>2
<1>10. 1 \in Pos(l, d)' /\ chain'[l][d][1] = n.offset /\ TagAt(l, d, 1)' = n
  BY <1>4, <1>6, <1>7, <1>8 DEF Pos, TagAt
<1> QED BY <1>2, <1>n, <1>6, <1>8, <1>9, <1>10

(* The node is in a list again. *)
LEMMA AppendNodePreserves ==
  ASSUME ListInv, NEW th \in Threads, AppendNode(th)
  PROVE  /\ ListInv'
         /\ \A b \in Nat : SeqsUpTo(b) => SeqsUpTo(b)'
<1>0. PICK l \in Lists, d \in Ends : /\ l = L(th) /\ d = To(th)
                                     /\ loc[th].op = "push" => d = "head"
                                     /\ loc[th].op = "pop" => d = "free"
  BY ThreadTypes DEF ListInv
<1>t. ListTypeOK /\ loc[th] \in Locals /\ ThreadInv(th) /\ HeldApart(th)
      /\ (loc[th].op = "push" \/ loc[th].op = "pop")
  BY ThreadTypes DEF ListInv, OnePlace, Locals
<1>h. PICK n \in Tags : n = loc[th].node /\ n.offset \in Nodes(l)
  BY <1>0, AppendShifts
<1>a. /\ 1 \in Pos(l, d)' /\ chain'[l][d][1] = n.offset /\ TagAt(l, d, 1)' = n
      /\ UNCHANGED <<next, sat>>
  BY <1>0, <1>h, AppendShifts
<1>s. \A m \in Lists, f \in Ends :
        /\ Len(chain[m][f]) \in Nat /\ Len(chain'[m][f]) \in Nat
        /\ Len(chain'[m][f]) = IF m = l /\ f = d THEN Len(chain[m][f]) + 1 ELSE Len(chain[m][f])
        /\ \A i \in Pos(m, f)' : ~IsNew(l, d, m, f, i) =>
             /\ Before(l, d, m, f, i) \in Pos(m, f)
             /\ chain'[m][f][i] = chain[m][f][Before(l, d, m, f, i)]
        /\ \A i \in 1 .. Len(chain'[m][f]) + 1 : ~IsNew(l, d, m, f, i) =>
             TagAt(m, f, i)' = TagAt(m, f, Before(l, d, m, f, i))
  BY <1>0, AppendShifts
<1>l. /\ loc' \in [Threads -> Locals] /\ \A u \in Threads \ {th} : loc'[u] = loc[u]
      /\ loc[th].pc = "link_cas" /\ loc'[th].pc = "done" /\ loc'[th].ok
      /\ loc'[th].list = l /\ loc[th].list = l /\ loc'[th].op = loc[th].op
      /\ loc'[th].val = loc[th].val
  BY <1>0, AppendLocals
<1>o. /\ Holds(th) /\ ~Holds(th)' /\ L(th) = l /\ Off(th) = n.offset
      /\ \A u \in Threads \ {th} : /\ L(u)' = L(u) /\ Off(u)' = Off(u) /\ Looks(u)' = Looks(u)
                                   /\ Holds(u)' = Holds(u) /\ From(u)' = From(u)
  BY <1>h, <1>l DEF Holds, L, Off, Looks, From
<1>p. \A m \in Lists, f \in Ends : \A i \in Pos(m, f)' :
        /\ i \in Nat /\ i \in 1 .. Len(chain'[m][f]) + 1
        /\ IsNew(l, d, m, f, i) => chain'[m][f][i] = n.offset /\ TagAt(m, f, i)' = n
  <2>1. \A m \in Lists, f \in Ends : \A i \in Pos(m, f)' : i \in Nat /\ i \in 1 .. Len(chain'[m][f]) + 1
    BY <1>s DEF Pos
  <2> QED BY <1>a, <2>1 DEF IsNew
<1>1. ListTypeOK'
  <2>1. /\ top' \in [Lists -> [Ends -> Tags]]
        /\ DOMAIN chain' = Lists /\ \A m \in Lists : chain'[m] \in [Ends -> Seq(Nodes(m))]
    BY <1>0, AppendShifts
  <2> QED BY <1>t, <1>a, <1>l, <2>1 DEF ListTypeOK, Nodes
<1>2. OnePlace'
  <2>0. \A f \in Ends : \A i \in Pos(l, f) : chain[l][f][i] # n.offset
    BY <1>t, <1>o DEF HeldApart
  <2>1. ASSUME NEW m \in Lists, NEW f \in Ends, NEW g \in Ends,
               NEW i \in Pos(m, f)', NEW j \in Pos(m, g)', chain'[m][f][i] = chain'[m][g][j]
        PROVE  f = g /\ i = j
    <3>1. CASE IsNew(l, d, m, f, i) /\ IsNew(l, d, m, g, j)
      BY <3>1 DEF IsNew
    <3>2. CASE IsNew(l, d, m, f, i) /\ ~IsNew(l, d, m, g, j)
      <4>1. m = l /\ chain'[m][f][i] = n.offset
        BY <1>p, <3>2 DEF IsNew
      <4> QED BY <1>s, <2>0, <2>1, <3>2, <4>1
    <3>3. CASE ~IsNew(l, d, m, f, i) /\ IsNew(l, d, m, g, j)
      <4>1. m = l /\ chain'[m][g][j] = n.offset
        BY <1>p, <3>3 DEF IsNew
      <4> QED BY <1>s, <2>0, <2>1, <3>3, <4>1
    <3>4. CASE ~IsNew(l, d, m, f, i) /\ ~IsNew(l, d, m, g, j)
      <4>1. f = g /\ Before(l, d, m, f, i) = Before(l, d, m, g, j)
        BY <1>s, <2>1, <3>4 DEF ListInv, OnePlace
      <4>2. i \in Nat /\ j \in Nat
        BY <1>p
      <4> QED BY <4>1, <4>2 DEF Before
    <3> QED BY <3>1, <3>2, <3>3, <3>4
  <2>4. ASSUME NEW u \in Threads
        PROVE  HeldApart(u)'
    <3>1. CASE u = th
      BY <1>o, <3>1 DEF HeldApart
    <3>2. CASE u # th
      <4>1. HeldApart(u) /\ L(u) \in Lists
        BY <1>t, ThreadTypes DEF ListInv, OnePlace
      <4>2. PICK m \in Lists : m = L(u) /\ m = L(u)'
        BY <1>o, <3>2, <4>1
      <4>3. SUFFICES ASSUME Holds(u)
                     PROVE  HeldApart(u)'
        BY <1>o, <3>2 DEF HeldApart
      <4>4. ASSUME NEW f \in Ends, NEW i \in Pos(m, f)'
            PROVE  chain'[m][f][i] # Off(u)
        <5>1. CASE IsNew(l, d, m, f, i)
          <6>1. chain'[m][f][i] = n.offset /\ m = l
            BY <1>p, <5>1 DEF IsNew
          <6> QED BY <1>t, <1>o, <3>2, <4>2, <4>3, <6>1 DEF HeldApart
        <5>2. CASE ~IsNew(l, d, m, f, i)
          BY <1>s, <4>1, <4>2, <4>3, <5>2 DEF HeldApart
        <5> QED BY <5>1, <5>2
      <4>5. ASSUME NEW w \in Threads, Holds(w)', L(w)' = m, Off(w)' = Off(u)
            PROVE  w = u
        <5>1. w # th
          BY <1>o, <4>5
        <5> QED BY <1>o, <4>1, <4>2, <4>3, <4>5, <5>1 DEF HeldApart
      <4>6. loc'[u].node \in Tags /\ Off(u)' = Off(u) /\ Off(u) \in Nodes(m) /\ Nodes(m)' = Nodes(m)
        BY <1>l, <1>o, <3>2, <4>1, <4>2, <4>3 DEF HeldApart, Nodes
      <4>7. \A f \in Ends : Pos(L(u), f)' = Pos(m, f)'
        BY <4>2 DEF Pos
      <4> QED BY <4>2, <4>4, <4>5, <4>6, <4>7 DEF HeldApart, Nodes
    <3> QED BY <3>1, <3>2
  <2> QED BY <2>1, <2>4 DEF OnePlace
<1>3. Somewhere'
  <2>1. ASSUME NEW m \in Lists, NEW o \in Nodes(m)
        PROVE  \/ \E f \in Ends : \E i \in Pos(m, f)' : chain'[m][f][i] = o
               \/ \E u \in Threads : Holds(u)' /\ L(u)' = m /\ Off(u)' = o
    <3>1. CASE m = l /\ o = n.offset
      BY <1>a, <3>1
    <3>2. ASSUME NEW f \in Ends, NEW j \in Pos(m, f), chain[m][f][j] = o
          PROVE  \E i \in Pos(m, f)' : chain'[m][f][i] = o
      <4>2. PICK i \in Nat : i = IF m = l /\ f = d THEN j + 1 ELSE j
        BY DEF Pos
      <4>3. i \in Pos(m, f)' /\ Before(l, d, m, f, i) = j /\ ~IsNew(l, d, m, f, i)
        <5>1. j \in 1 .. Len(chain[m][f]) /\ Len(chain[m][f]) \in Nat
              /\ Len(chain'[m][f]) = IF m = l /\ f = d THEN Len(chain[m][f]) + 1 ELSE Len(chain[m][f])
          BY <1>s DEF Pos
        <5> QED BY <4>2, <5>1 DEF Pos, Before, IsNew
      <4> QED BY <1>s, <3>2, <4>3
    <3>3. ASSUME NEW u \in Threads, Holds(u), L(u) = m, Off(u) = o, m # l \/ o # n.offset
          PROVE  Holds(u)' /\ L(u)' = m /\ Off(u)' = o
      <4>1. u # th
        BY <1>o, <3>3
      <4> QED BY <1>o, <3>3, <4>1
    <3> QED BY <3>1, <3>2, <3>3 DEF ListInv, Somewhere
  <2>2. ASSUME NEW m \in Lists
        PROVE  Len(chain'[m]["free"]) + Len(chain'[m]["head"]) + Cardinality(InHand(m)') = Cap[m]
    <3>1. /\ Len(chain[m]["free"]) + Len(chain[m]["head"]) + Cardinality(InHand(m)) = Cap[m]
          /\ IsFiniteSet(InHand(m)) /\ Cardinality(InHand(m)) \in Nat
      <4>1. IsFiniteSet(InHand(m))
        BY PoolAssumption, FS_Subset DEF InHand
      <4> QED BY <4>1, FS_CardinalityType DEF ListInv, Somewhere
    <3>2. InHand(m)' = IF m = l THEN InHand(m) \ {th} ELSE InHand(m)
      <4>1. \A u \in Threads : u \in InHand(m)' <=> (u \in InHand(m) /\ (u # th \/ m # l))
        <5>1. \A u \in Threads : u \in InHand(m)' <=> (Holds(u)' /\ L(u)' = m)
          BY DEF InHand, Holds
        <5>2. \A u \in Threads : u \in InHand(m) <=> (Holds(u) /\ L(u) = m)
          BY DEF InHand, Holds
        <5> QED BY <1>o, <5>1, <5>2
      <4> QED BY <4>1 DEF InHand
    <3>3. m = l => th \in InHand(m)
      BY <1>o DEF InHand, Holds
    <3>4. Cardinality(InHand(m)') = IF m = l THEN Cardinality(InHand(m)) - 1 ELSE Cardinality(InHand(m))
      BY <3>1, <3>2, <3>3, FS_RemoveElement
    <3>5. d = "head" \/ d = "free"
      BY DEF Ends
    <3>6. "head" \in Ends /\ "free" \in Ends
      BY DEF Ends
    <3>7. /\ Len(chain[m]["free"]) \in Nat /\ Len(chain[m]["head"]) \in Nat
          /\ Len(chain'[m]["free"]) = IF m = l /\ d = "free" THEN Len(chain[m]["free"]) + 1
                                                            ELSE Len(chain[m]["free"])
          /\ Len(chain'[m]["head"]) = IF m = l /\ d = "head" THEN Len(chain[m]["head"]) + 1
                                                            ELSE Len(chain[m]["head"])
      BY <1>s, <3>6
    <3>p. PICK x \in Nat, y \in Nat, z \in Nat :
            /\ x = Len(chain[m]["free"]) /\ y = Len(chain[m]["head"]) /\ z = Cardinality(InHand(m))
            /\ x + y + z = Cap[m]
      BY <3>1, <3>7
    <3>8. CASE m = l
      <4>0. Cardinality(InHand(m)') = Cardinality(InHand(m)) - 1
        BY <3>4, <3>8
      <4>1. (x + 1) + y + (z - 1) = x + y + z /\ x + (y + 1) + (z - 1) = x + y + z
        OBVIOUS
      <4>2. CASE d = "head"
        <5>1. /\ Len(chain'[m]["head"]) = Len(chain[m]["head"]) + 1
              /\ Len(chain'[m]["free"]) = Len(chain[m]["free"])
          BY <3>7, <3>8, <4>2
        <5> QED BY <3>p, <4>0, <4>1, <5>1
      <4>3. CASE d = "free"
        <5>1. /\ Len(chain'[m]["free"]) = Len(chain[m]["free"]) + 1
              /\ Len(chain'[m]["head"]) = Len(chain[m]["head"])
          BY <3>7, <3>8, <4>3
        <5> QED BY <3>p, <4>0, <4>1, <5>1
      <4> QED BY <3>5, <4>2, <4>3
    <3>9. CASE m # l
      BY <3>1, <3>4, <3>7, <3>9
    <3> QED BY <3>8, <3>9
  <2> QED BY <2>1, <2>2 DEF Somewhere, Nodes
<1>4. Linked'
  <2>1. ASSUME NEW m \in Lists, NEW f \in Ends
        PROVE  /\ \A i \in Pos(m, f)' : TagAt(m, f, i)'.offset = chain'[m][f][i]
               /\ TagAt(m, f, Len(chain[m][f]) + 1)' = EmptyTag(m)
    <3>1. /\ \A i \in Pos(m, f) : TagAt(m, f, i).offset = chain[m][f][i]
          /\ TagAt(m, f, Len(chain[m][f]) + 1) = EmptyTag(m)
      BY DEF ListInv, Linked
    <3>2. PICK k \in Nat : k = Len(chain'[m][f]) + 1 /\ k = Len(chain[m][f])' + 1
      BY <1>s
    <3>3. /\ k \in 1 .. Len(chain'[m][f]) + 1 /\ ~IsNew(l, d, m, f, k)
          /\ Before(l, d, m, f, k) = Len(chain[m][f]) + 1
      <4>1. /\ Len(chain'[m][f]) \in Nat /\ Len(chain[m][f]) \in Nat
            /\ Len(chain'[m][f]) = IF m = l /\ f = d THEN Len(chain[m][f]) + 1 ELSE Len(chain[m][f])
        BY <1>s
      <4> QED BY <3>2, <4>1 DEF Before, IsNew
    <3>4. TagAt(m, f, Len(chain[m][f]) + 1)' = TagAt(m, f, k)'
      BY <3>2 DEF TagAt
    <3>5. TagAt(m, f, k)' = EmptyTag(m)
      BY <1>s, <3>1, <3>3
    <3>6. ASSUME NEW i \in Pos(m, f)'
          PROVE  TagAt(m, f, i)'.offset = chain'[m][f][i]
      <4>1. CASE IsNew(l, d, m, f, i)
        BY <1>p, <4>1
      <4>2. CASE ~IsNew(l, d, m, f, i)
        BY <1>p, <1>s, <3>1, <4>2
      <4> QED BY <4>1, <4>2
    <3> QED BY <3>4, <3>5, <3>6
  <2> QED BY <2>1 DEF Linked, EmptyTag
<1>5. Satellites'
  <2>1. ASSUME NEW m \in Lists, NEW i \in Pos(m, "head")'
        PROVE  sat'[m][chain'[m]["head"][i]] \in Values
    <3>0. "head" \in Ends /\ sat' = sat
      BY <1>a DEF Ends
    <3>1. CASE IsNew(l, d, m, "head", i)
      <4>1. m = l /\ d = "head" /\ chain'[m]["head"][i] = n.offset /\ loc[th].op = "push"
        BY <1>0, <1>t, <1>p, <3>0, <3>1 DEF IsNew
      <4> QED BY <1>t, <1>l, <1>o, <3>0, <4>1 DEF ThreadInv, ValueOf
    <3>2. CASE ~IsNew(l, d, m, "head", i)
      <4>1. PICK j \in Pos(m, "head") : chain'[m]["head"][i] = chain[m]["head"][j]
        BY <1>s, <3>0, <3>2
      <4> QED BY <3>0, <4>1 DEF ListInv, Satellites
    <3> QED BY <3>1, <3>2
  <2>2. ASSUME NEW m \in Lists, NEW i \in Pos(m, "free")'
        PROVE  sat'[m][chain'[m]["free"][i]] = Raw
    <3>0. "free" \in Ends /\ sat' = sat
      BY <1>a DEF Ends
    <3>1. CASE IsNew(l, d, m, "free", i)
      <4>1. m = l /\ d = "free" /\ chain'[m]["free"][i] = n.offset /\ loc[th].op = "pop"
        BY <1>0, <1>t, <1>p, <3>0, <3>1 DEF IsNew
      <4> QED BY <1>t, <1>l, <1>o, <3>0, <4>1 DEF ThreadInv, ValueOf
    <3>2. CASE ~IsNew(l, d, m, "free", i)
      <4>1. PICK j \in Pos(m, "free") : chain'[m]["free"][i] = chain[m]["free"][j]
        BY <1>s, <3>0, <3>2
      <4> QED BY <3>0, <4>1 DEF ListInv, Satellites
    <3> QED BY <3>1, <3>2
  <2> QED BY <2>1, <2>2 DEF Satellites
<1>6. ASSUME NEW u \in Threads
      PROVE  ThreadInv(u)'
  <2>1. CASE u = th
    <3>1. AgesOf(th)' /\ NextIsRight(th)' /\ Appending(th)'
      BY <1>l DEF AgesOf, Looks, NextIsRight, Appending
    <3>3. ValueOf(th)'
      BY <1>t, <1>l, <1>o, StaticListAssumption DEF ThreadInv, ValueOf
    <3> QED BY <2>1, <3>1, <3>3 DEF ThreadInv
  <2>2. CASE u # th
    <3>1. loc'[u] = loc[u] /\ ThreadInv(u) /\ L(u) \in Lists /\ From(u) \in Ends
      BY <2>2, <1>t, <1>l, ThreadTypes DEF ListInv
    <3>2. L(u)' = L(u) /\ From(u)' = From(u) /\ Looks(u)' = Looks(u) /\ Holds(u)' = Holds(u)
          /\ Off(u)' = Off(u)
      BY <1>o, <2>2
    <3>3. PICK m \in Lists, g \in Ends : m = L(u) /\ m = L(u)' /\ g = From(u) /\ g = From(u)'
      BY <3>1, <3>2
    <3>a. Looks(u) =>
            /\ loc[u].h \in Tags /\ loc[u].h.offset \in Nodes(m) /\ loc[u].h.seq \in Nat
            /\ loc'[u].h = loc[u].h
            /\ \A f \in Ends : \A i \in Pos(m, f) :
                 chain[m][f][i] = loc[u].h.offset => AgeInChain(u, f) <= TagAt(m, f, i).seq
            /\ m = l /\ loc[u].h.offset = n.offset => AgeInHand(u, th) <= n.seq
      <4>1. AgesOf(u)
        BY <3>1 DEF ThreadInv
      <4> QED BY <1>h, <1>o, <3>1, <3>3, <4>1 DEF AgesOf, Tags
    <3>b. AgeInHand(u, th) = IF loc[th].op = "push" \/ loc[u].op = "push"
                             THEN loc[u].h.seq + 1 ELSE loc[u].h.seq
      BY <1>t, <1>l DEF AgeInHand
    <3>4. AgesOf(u)'
      <4>1. SUFFICES ASSUME Looks(u)
                     PROVE  AgesOf(u)'
        BY <3>2 DEF AgesOf
      <4>3. ASSUME NEW f \in Ends, NEW i \in Pos(m, f)', chain'[m][f][i] = loc[u].h.offset
            PROVE  AgeInChain(u, f)' <= TagAt(m, f, i)'.seq
        <5>0. AgeInChain(u, f)' = AgeInChain(u, f)
          BY <3>1 DEF AgeInChain
        <5>1. CASE IsNew(l, d, m, f, i)
          <6>1. m = l /\ f = d /\ n.offset = loc[u].h.offset /\ TagAt(m, f, i)' = n
            BY <1>p, <4>3, <5>1 DEF IsNew
          <6>2. AgeInHand(u, th) <= n.seq /\ loc[u].h.seq \in Nat /\ n.seq \in Nat
            BY <3>a, <4>1, <6>1 DEF Tags
          <6>3. AgeInChain(u, f) <= AgeInHand(u, th)
            BY <1>0, <1>t, <3>b, <6>1, <6>2 DEF AgeInChain
          <6>4. AgeInChain(u, f) \in Nat /\ AgeInHand(u, th) \in Nat
            BY <3>b, <6>2 DEF AgeInChain
          <6> QED BY <5>0, <6>1, <6>2, <6>3, <6>4
        <5>2. CASE ~IsNew(l, d, m, f, i)
          <6>1. AgeInChain(u, f) <= TagAt(m, f, Before(l, d, m, f, i)).seq
            BY <1>s, <3>a, <4>1, <4>3, <5>2
          <6> QED BY <1>p, <1>s, <5>0, <5>2, <6>1
        <5> QED BY <5>1, <5>2
      <4>4. ASSUME NEW w \in Threads, Holds(w)', L(w)' = m, Off(w)' = loc[u].h.offset
            PROVE  AgeInHand(u, w)' <= loc'[w].node.seq
        <5>1. w # th
          BY <1>o, <4>4
        <5>2. loc'[w] = loc[w] /\ Holds(w) /\ L(w) = m /\ Off(w) = loc[u].h.offset
          BY <1>l, <1>o, <4>4, <5>1
        <5>3. AgeInHand(u, w) <= loc[w].node.seq
          <6>1. AgesOf(u)
            BY <3>1 DEF ThreadInv
          <6> QED BY <3>3, <4>1, <5>2, <6>1 DEF AgesOf
        <5> QED BY <3>1, <5>2, <5>3 DEF AgeInHand
      <4>5. Nodes(m)' = Nodes(m) /\ \A f \in Ends : Pos(L(u), f)' = Pos(m, f)'
        BY <3>3 DEF Nodes, Pos
      <4>6. \A f \in Ends, i \in Nat : TagAt(L(u), f, i)' = TagAt(m, f, i)'
        BY <3>3 DEF TagAt
      <4>7. \A f \in Ends : \A i \in Pos(m, f)' : i \in Nat
        BY <1>p
      <4> QED BY <3>3, <3>a, <4>1, <4>3, <4>4, <4>5, <4>6, <4>7 DEF AgesOf, Nodes
    <3>5. NextIsRight(u)'
      <4>1. ASSUME loc[u].pc = "cas", NEW i \in Pos(m, g)', TagAt(m, g, i)' = loc[u].h
            PROVE  loc[u].nxt = TagAt(m, g, i + 1)'
        <5>0. Looks(u)
          BY <4>1 DEF Looks
        <5>1. CASE IsNew(l, d, m, g, i)
          <6>1. m = l /\ g = d /\ n = loc[u].h
            BY <1>p, <4>1, <5>1 DEF IsNew
          <6>2. AgeInHand(u, th) <= n.seq /\ n.seq \in Nat
            BY <3>a, <5>0, <6>1
          <6>3. loc[th].op = "push" \/ loc[u].op = "push"
            BY <1>0, <1>t, <3>1, <3>3, <6>1, ThreadTypes DEF ListInv, From
          <6> QED BY <3>b, <6>1, <6>2, <6>3
        <5>2. CASE ~IsNew(l, d, m, g, i)
          <6>0. /\ i \in Nat /\ i + 1 \in 1 .. Len(chain'[m][g]) + 1 /\ i \in 1 .. Len(chain'[m][g]) + 1
                /\ ~IsNew(l, d, m, g, i + 1)
                /\ Before(l, d, m, g, i + 1) = Before(l, d, m, g, i) + 1
            <7>1. i \in 1 .. Len(chain'[m][g]) /\ Len(chain'[m][g]) \in Nat
              BY <1>s DEF Pos
            <7> QED BY <7>1 DEF IsNew, Before
          <6>1. Before(l, d, m, g, i) \in Pos(m, g)
            BY <1>s, <5>2
          <6>2. TagAt(m, g, i)' = TagAt(m, g, Before(l, d, m, g, i))
                /\ TagAt(m, g, i + 1)' = TagAt(m, g, Before(l, d, m, g, i) + 1)
            BY <1>s, <5>2, <6>0
          <6>3. NextIsRight(u)
            BY <3>1 DEF ThreadInv
          <6> QED BY <3>3, <4>1, <6>1, <6>2, <6>3 DEF NextIsRight
        <5> QED BY <5>1, <5>2
      <4>2. Pos(L(u), From(u))' = Pos(m, g)'
        BY <3>3 DEF Pos
      <4>3. \A i \in Nat : TagAt(L(u), From(u), i)' = TagAt(m, g, i)'
        BY <3>3 DEF TagAt
      <4>4. \A i \in Pos(m, g)' : i \in Nat /\ i + 1 \in Nat
        BY <1>p
      <4> QED BY <3>1, <4>1, <4>2, <4>3, <4>4 DEF NextIsRight
    <3>6. Appending(u)' /\ ValueOf(u)'
      BY <1>a, <3>1, <3>2 DEF ThreadInv, Appending, ValueOf
    <3> QED BY <3>4, <3>5, <3>6 DEF ThreadInv
  <2> QED BY <2>1, <2>2
<1>7. ASSUME NEW b \in Nat, SeqsUpTo(b)
      PROVE  SeqsUpTo(b)'
  <2>1. \A m \in Lists, f \in Ends : \A i \in Pos(m, f)' : TagAt(m, f, i)'.seq <= b
    <3>1. ASSUME NEW m \in Lists, NEW f \in Ends, NEW i \in Pos(m, f)'
          PROVE  TagAt(m, f, i)'.seq <= b
      <4>1. CASE IsNew(l, d, m, f, i)
        BY <1>h, <1>o, <1>p, <1>7, <4>1 DEF SeqsUpTo
      <4>2. CASE ~IsNew(l, d, m, f, i)
        BY <1>p, <1>s, <1>7, <4>2 DEF SeqsUpTo
      <4> QED BY <4>1, <4>2
    <3> QED BY <3>1
  <2>2. ASSUME NEW u \in Threads, Holds(u)'
        PROVE  loc'[u].node.seq <= b
    <3>1. u # th
      BY <1>o, <2>2
    <3> QED BY <1>l, <1>o, <1>7, <2>2, <3>1 DEF SeqsUpTo
  <2> QED BY <2>1, <2>2 DEF SeqsUpTo
<1> QED BY <1>1, <1>2, <1>3, <1>4, <1>5, <1>6, <1>7 DEF ListInv

-----------------------------------------------------------------------------
(* The pool *)

PoolTypeOK ==
  /\ want \in [Threads -> Nat]
  /\ owner \in [Blocks -> Threads \cup {"pool"}]
  /\ allocs \in [Threads -> 0 .. MaxOps]
  /\ unbuilt \subseteq Blocks

(* Where a block can be: with the constructor, with a caller, in a list, or in
   the hands of a thread that moves it. *)
Pushing(th, b) == loc[th].op = "push" /\ loc[th].pc # "idle" /\ loc[th].val = b
Unborn(b) == b \in unbuilt /\ \A th \in Threads : ~Pushing(th, b)
Out(b) == owner[b] # "pool"
Rests(l, o) == \E i \in Pos(l, "head") : chain[l]["head"][i] = o
Rest(b, l, o) == Rests(l, o) /\ sat[l][o] = b
Carried(th) ==
  IF loc[th].op = "push"
  THEN IF loc[th].pc = "done" THEN Raw ELSE loc[th].val
  ELSE Popped(th)

OneHome(b) ==
  /\ \/ Unborn(b) \/ Out(b)
     \/ \E l \in Lists : \E o \in Nodes(l) : Rest(b, l, o)
     \/ \E th \in Threads : Carried(th) = b
  /\ Unborn(b) => ~Out(b)
  /\ Unborn(b) \/ Out(b) => /\ \A l \in Lists : \A o \in Nodes(l) : ~Rest(b, l, o)
                            /\ \A th \in Threads : Carried(th) # b
  /\ \A l \in Lists : \A o \in Nodes(l) : Rest(b, l, o) =>
       /\ \A m \in Lists : \A q \in Nodes(m) : Rest(b, m, q) => m = l /\ q = o
       /\ \A th \in Threads : Carried(th) # b
  /\ \A th \in Threads, u \in Threads : Carried(th) = b /\ Carried(u) = b => th = u

(* and every block is in its own line. *)
InLines ==
  /\ \A l \in Lists : \A o \in Nodes(l) : Rests(l, o) => InLine(sat[l][o], l)
  /\ \A th \in Threads : Carried(th) # Raw => InLine(Carried(th), L(th))

Wanted == \A th \in Threads : loc[th].op = "pop" /\ loc[th].pc # "idle" => want[th] <= BlockSize(L(th))

PoolInv ==
  /\ PoolTypeOK
  /\ \A b \in Blocks : OneHome(b)
  /\ InLines
  /\ Wanted
  /\ NoBlockIsDropped

(* A sequence is given by Fill. Every thread that may still come to one, every
   block out of the pool or not built yet, and every allocation still to come
   stands for one at most. *)
Left == {x \in Threads \X (1 .. MaxOps) : x[2] > allocs[x[1]]}
Owned == {b \in Blocks : Out(b)}
Busy == {th \in Threads : IF loc[th].op = "pop" THEN loc[th].pc # "idle"
                                                ELSE loc[th].pc \in {"load", "next", "cas", "hold"}}
Unbuilt == {b \in Blocks : Unborn(b)}
ToCome == Cardinality(Left) + Cardinality(Owned) + Cardinality(Busy) + Cardinality(Unbuilt)

Budget == Cardinality(Threads) * MaxOps + Cardinality(Blocks)
SeqsInv == ToCome <= Budget /\ SeqsUpTo(Budget - ToCome)
NoWrap == Budget < SeqMod

Inv == ListInv /\ PoolInv /\ SeqsInv

(* What the steps of a static_list have in common: the thread goes on with its
   operation, and touches a satellite only in the node it holds. *)
LEMMA StepLocals ==
  ASSUME ListInv, NEW th \in Threads, ListStep(th)
  PROVE  /\ loc \in [Threads -> Locals] /\ loc[th] \in Locals
         /\ \A u \in Threads \ {th} : loc'[u] = loc[u]
         /\ loc'[th].list = loc[th].list /\ loc'[th].op = loc[th].op
         /\ loc[th].pc \notin {"idle", "done"} /\ loc'[th].pc \notin {"idle", "load"}
         /\ loc[th].op = "push" => loc'[th].val = loc[th].val
         /\ \/ /\ loc[th].pc \in {"load", "next", "cas"} /\ loc'[th].pc \in {"next", "cas", "done"}
               /\ loc'[th].val = loc[th].val /\ loc'[th].ok = loc[th].ok
               /\ loc'[th].pc = "done" => loc[th].pc \in {"load", "cas"}
                                          /\ top[L(th)][From(th)] = EmptyTag(L(th))
               /\ UNCHANGED <<chain, sat>>
            \/ /\ PopNode(th) /\ loc[th].pc = "cas" /\ loc'[th].pc = "hold"
               /\ loc'[th].val = loc[th].val /\ loc'[th].node = loc[th].h /\ UNCHANGED sat
            \/ /\ Fill(th) /\ loc[th].op = "push" /\ loc[th].pc = "hold" /\ loc'[th].pc = "append"
               /\ loc'[th].val = loc[th].val /\ UNCHANGED chain
            \/ /\ Empty(th) /\ loc[th].op = "pop" /\ loc[th].pc = "hold" /\ loc'[th].pc = "append"
               /\ loc'[th].val = sat[L(th)][Off(th)] /\ UNCHANGED chain
            \/ /\ loc[th].pc \in {"append", "link", "link_cas"} /\ loc'[th].pc \in {"link", "link_cas"}
               /\ loc'[th].val = loc[th].val /\ loc'[th].node = loc[th].node /\ UNCHANGED <<chain, sat>>
            \/ /\ AppendNode(th) /\ loc[th].pc = "link_cas" /\ loc'[th].pc = "done"
               /\ loc'[th].val = loc[th].val /\ loc'[th].ok /\ UNCHANGED sat
<1>1. loc \in [Threads -> Locals] /\ loc[th] \in Locals
  BY DEF ListInv, ListTypeOK
<1>2. CASE LoadTop(th) \/ MissPop(th)
  <2>1. PICK h : /\ h = top[L(th)][From(th)]
                 /\ loc' = [loc EXCEPT ![th].h = h, ![th].nxt = Junk,
                                       ![th].pc = IF h = EmptyTag(L(th)) THEN "done" ELSE "next"]
    BY <1>2 DEF LoadTop, MissPop, Reload
  <2>2. loc[th].pc \in {"load", "cas"} /\ UNCHANGED <<chain, sat>>
    BY <1>2 DEF LoadTop, MissPop
  <2> QED BY <1>1, <2>1, <2>2 DEF Locals
<1>3. CASE ReadNext(th)
  <2>1. PICK n : loc' = [loc EXCEPT ![th].nxt = n, ![th].pc = "cas"]
    BY <1>3 DEF ReadNext
  <2>2. loc[th].pc = "next" /\ UNCHANGED <<chain, sat>>
    BY <1>3 DEF ReadNext
  <2> QED BY <1>1, <2>1, <2>2 DEF Locals
<1>4. CASE PopNode(th)
  <2>1. loc' = [loc EXCEPT ![th].node = loc[th].h, ![th].h = Junk, ![th].nxt = Junk, ![th].pc = "hold"]
        /\ loc[th].pc = "cas" /\ UNCHANGED sat
    BY <1>4 DEF PopNode
  <2> QED BY <1>1, <1>4, <2>1 DEF Locals
<1>5. CASE Fill(th)
  <2>1. PICK n : loc' = [loc EXCEPT ![th].node = n, ![th].pc = "append"]
    BY <1>5 DEF Fill
  <2>2. loc[th].pc = "hold" /\ loc[th].op = "push" /\ UNCHANGED chain
    BY <1>5 DEF Fill
  <2> QED BY <1>1, <1>5, <2>1, <2>2 DEF Locals
<1>6. CASE Empty(th)
  <2>1. PICK v : v = sat[L(th)][Off(th)] /\ loc' = [loc EXCEPT ![th].val = v, ![th].pc = "append"]
    BY <1>6 DEF Empty, Off
  <2>2. loc[th].pc = "hold" /\ loc[th].op = "pop" /\ UNCHANGED chain
    BY <1>6 DEF Empty
  <2> QED BY <1>1, <1>6, <2>1, <2>2 DEF Locals
<1>7. CASE LoadAppend(th) \/ MissAppend(th) \/ Link(th)
  <2>1. PICK h : \/ loc' = [loc EXCEPT ![th].h = h, ![th].pc = "link"]
                 \/ loc' = [loc EXCEPT ![th].pc = "link_cas"]
    BY <1>7 DEF LoadAppend, MissAppend, Link
  <2>2. loc[th].pc \in {"append", "link", "link_cas"} /\ UNCHANGED <<chain, sat>>
    BY <1>7 DEF LoadAppend, MissAppend, Link
  <2> QED BY <1>1, <2>1, <2>2 DEF Locals
<1>8. CASE AppendNode(th)
  <2>1. loc' = [loc EXCEPT ![th].ok = TRUE, ![th].h = Junk, ![th].node = Junk, ![th].pc = "done"]
        /\ loc[th].pc = "link_cas" /\ UNCHANGED sat
    BY <1>8 DEF AppendNode
  <2> QED BY <1>1, <1>8, <2>1 DEF Locals
<1> QED BY <1>2, <1>3, <1>4, <1>5, <1>6, <1>7, <1>8 DEF ListStep

(* Only the satellite of the node in hand changes. *)
LEMMA SatelliteKept ==
  ASSUME ListInv, NEW th \in Threads, ListStep(th), NEW l \in Lists, NEW o \in Nodes(l),
         ~Holds(th) \/ l # L(th) \/ o # Off(th)
  PROVE  sat'[l][o] = sat[l][o]
<1>1. CASE Fill(th) \/ Empty(th)
  <2>1. PICK v : sat' = [sat EXCEPT ![L(th)][Off(th)] = v]
    BY <1>1 DEF Fill, Empty, Off
  <2>2. Holds(th)
    BY <1>1 DEF Fill, Empty, Holds
  <2>3. DOMAIN sat = Lists /\ \A k \in Lists : sat[k] \in [Nodes(k) -> Values \cup {Raw}]
    BY DEF ListInv, ListTypeOK
  <2> QED BY <2>1, <2>2, <2>3
<1>2. CASE ~(Fill(th) \/ Empty(th))
  BY <1>2 DEF ListStep, LoadTop, ReadNext, PopNode, MissPop, LoadAppend, Link, AppendNode, MissAppend
<1> QED BY <1>1, <1>2

(* What the other threads carry stays. *)
LEMMA OthersCarry ==
  ASSUME ListInv, NEW th \in Threads, ListStep(th), NEW u \in Threads \ {th}
  PROVE  Carried(u)' = Carried(u)
<1>1. loc'[u] = loc[u] /\ L(u)' = L(u) /\ Off(u)' = Off(u) /\ L(u) \in Lists
  BY StepLocals, ThreadTypes DEF L, Off, ListInv
<1>2. Holds(u) => sat'[L(u)][Off(u)] = sat[L(u)][Off(u)]
  <2>1. HeldApart(u) /\ HeldApart(th)
    BY DEF ListInv, OnePlace
  <2>2. Holds(u) => Off(u) \in Nodes(L(u)) /\ (~Holds(th) \/ L(u) # L(th) \/ Off(u) # Off(th))
    BY <2>1 DEF HeldApart
  <2> QED BY <1>1, <2>2, SatelliteKept
<1> QED BY <1>1, <1>2 DEF Carried, Popped, Holds, Off

(* What rests in a list is a value. *)
LEMMA RestingIsValue ==
  ASSUME ListInv, NEW l \in Lists, NEW o \in Nodes(l), Rests(l, o)
  PROVE  sat[l][o] \in Values /\ sat[l][o] # Raw
BY StaticListAssumption DEF ListInv, Satellites, Rests

-----------------------------------------------------------------------------
(* The homes of the blocks *)

KeepsHome(b) ==
  /\ Unborn(b)' <=> Unborn(b)
  /\ Out(b)' <=> Out(b)
  /\ \A l \in Lists : \A o \in Nodes(l) : Rest(b, l, o)' <=> Rest(b, l, o)
  /\ \A th \in Threads : (Carried(th)' = b) <=> (Carried(th) = b)

(* A block that nothing happens to is still in one place. *)
LEMMA HomeKept ==
  ASSUME NEW b, OneHome(b), KeepsHome(b)
  PROVE  OneHome(b)'
BY DEF OneHome, KeepsHome, Nodes

(* A step that moves no block. *)
LEMMA QuietStep ==
  ASSUME ListInv, PoolInv,
         \A b \in Blocks : (Unborn(b)' <=> Unborn(b)) /\ (Out(b)' <=> Out(b)),
         \A u \in Threads : Carried(u)' = Carried(u) /\ (Carried(u) = Raw \/ L(u)' = L(u)),
         \A l \in Lists : \A o \in Nodes(l) :
           (Rests(l, o)' <=> Rests(l, o)) /\ (Rests(l, o) => sat'[l][o] = sat[l][o])
  PROVE  (\A b \in Blocks : OneHome(b)') /\ InLines'
<1>1. ASSUME NEW b \in Blocks
      PROVE  KeepsHome(b)
  BY DEF KeepsHome, Rest
<1>2. \A b \in Blocks : OneHome(b)'
  BY <1>1, HomeKept DEF PoolInv
<1>3. InLines'
  BY DEF PoolInv, InLines, Nodes, InLine
<1> QED BY <1>2, <1>3

(* The list of a block that is on its way back has room for it: were its free_
   empty then every node would stand for another block of the line. *)
LEMMA RoomForPush ==
  ASSUME ListInv, PoolInv, NEW th \in Threads,
         loc[th].op = "push", loc[th].pc \in {"load", "next", "cas"}
  PROVE  top[L(th)]["free"] # EmptyTag(L(th))
<1>0. PICK l \in Lists : l = L(th) /\ l \in Lines
  BY ThreadTypes, PoolAssumption DEF ListInv
<1>1. SUFFICES ASSUME top[l]["free"] = EmptyTag(l)
               PROVE  FALSE
  BY <1>0
<1> DEFINE Holder(o) == {u \in Threads : Holds(u) /\ L(u) = l /\ Off(u) = o}
           Block(o) == IF o = Cap[l] THEN Carried(th)
                       ELSE IF Rests(l, o) THEN sat[l][o]
                       ELSE Carried(CHOOSE u \in Threads : u \in Holder(o))
           S == {b \in Blocks : InLine(b, l)}
           f == [o \in 0 .. Cap[l] |-> Block(o)]
<1>2. Cap[l] \in Nat \ {0} /\ Nodes(l) = 0 .. Cap[l] - 1
  BY StaticListAssumption DEF Nodes
<1>3. ASSUME NEW o \in Nodes(l)
      PROVE  Rests(l, o) \/ \E u \in Threads : u \in Holder(o)
  <2>1. chain[l]["free"] = <<>>
    BY <1>1, TopIsFirst DEF Ends
  <2>2. ~\E i \in Pos(l, "free") : chain[l]["free"][i] = o
    BY <2>1 DEF Pos
  <2>3. \/ \E e \in Ends : \E i \in Pos(l, e) : chain[l][e][i] = o
        \/ \E u \in Threads : Holds(u) /\ L(u) = l /\ Off(u) = o
    <3> HIDE DEF Holder
    <3> QED BY DEF ListInv, Somewhere
  <2>4. (\E e \in Ends : \E i \in Pos(l, e) : chain[l][e][i] = o) => Rests(l, o)
    BY <2>2 DEF Rests, Ends
  <2> QED BY <2>3, <2>4
<1>4. ASSUME NEW u \in Threads, Holds(u)
      PROVE  Carried(u) # Raw
  <2>1. ValueOf(u) /\ loc[u] \in Locals
    BY ThreadTypes DEF ListInv, ThreadInv
  <2> QED BY <1>4, <2>1, StaticListAssumption DEF ValueOf, Carried, Popped, Holds, Off, Locals
<1>5. Carried(th) # Raw /\ Carried(th) \in S /\ ~Holds(th)
  <2>1. ValueOf(th)
    BY DEF ListInv, ThreadInv
  <2>2. Carried(th) # Raw /\ ~Holds(th)
    BY <2>1, StaticListAssumption DEF ValueOf, Carried, Holds
  <2> QED BY <1>0, <2>2 DEF PoolInv, InLines, InLine
<1>6. ASSUME NEW o \in Nodes(l)
      PROVE  \/ Rests(l, o) /\ Block(o) = sat[l][o] /\ Block(o) \in S
             \/ /\ ~Rests(l, o) /\ Block(o) \in S
                /\ \E u \in Threads : u \in Holder(o) /\ Block(o) = Carried(u)
  <2>0. o # Cap[l]
    BY <1>2, <1>6
  <2>1. CASE Rests(l, o)
    BY <2>0, <2>1 DEF PoolInv, InLines, InLine
  <2>2. CASE ~Rests(l, o)
    <3>1. PICK u \in Threads : u = (CHOOSE w \in Threads : w \in Holder(o)) /\ u \in Holder(o)
      BY <1>3, <2>2
    <3>2. Carried(u) # Raw /\ L(u) = l
      BY <1>4, <3>1
    <3>3. Block(o) = Carried(u)
      BY <2>0, <2>2, <3>1
    <3>4. Carried(u) \in S
      BY <3>2 DEF PoolInv, InLines, InLine
    <3> QED BY <2>2, <3>1, <3>3, <3>4
  <2> QED BY <2>1, <2>2
<1>7. \A o \in 0 .. Cap[l] : o \in Nodes(l) \/ (o = Cap[l] /\ Block(o) = Carried(th))
  BY <1>2
<1>8. f \in [0 .. Cap[l] -> S]
  BY <1>5, <1>6, <1>7
<1>9. ASSUME NEW x \in 0 .. Cap[l], NEW y \in 0 .. Cap[l], x # y, f[x] = f[y]
      PROVE  FALSE
  <2>1. Block(x) = Block(y) /\ Block(x) \in Blocks
    BY <1>8, <1>9
  <2>2. PICK b \in Blocks : b = Block(x) /\ b = Block(y)
    BY <2>1
  <2>3. OneHome(b)
    BY DEF PoolInv
  <2> HIDE DEF Block
  <2>4. ASSUME NEW o \in Nodes(l), Block(o) = b
        PROVE  \/ Rest(b, l, o)
               \/ \E u \in Threads : u \in Holder(o) /\ Carried(u) = b
    BY <1>6, <2>4 DEF Rest
  <2>5. CASE x \in Nodes(l) /\ y \in Nodes(l)
    <3>1. CASE Rest(b, l, x)
      BY <1>9, <2>2, <2>3, <2>4, <2>5, <3>1 DEF OneHome
    <3>2. CASE Rest(b, l, y)
      BY <1>9, <2>2, <2>3, <2>4, <2>5, <3>2 DEF OneHome
    <3>3. CASE ~Rest(b, l, x) /\ ~Rest(b, l, y)
      <4>1. PICK u \in Threads : u \in Holder(x) /\ Carried(u) = b
        BY <2>2, <2>4, <2>5, <3>3
      <4>2. PICK w \in Threads : w \in Holder(y) /\ Carried(w) = b
        BY <2>2, <2>4, <2>5, <3>3
      <4>3. u = w
        BY <2>3, <4>1, <4>2 DEF OneHome
      <4> QED BY <1>9, <4>1, <4>2, <4>3
    <3> QED BY <3>1, <3>2, <3>3
  <2>6. ASSUME NEW o \in Nodes(l), Block(o) = b, Carried(th) = b
        PROVE  FALSE
    <3>1. ~Rest(b, l, o)
      BY <2>3, <2>6 DEF OneHome
    <3>2. PICK u \in Threads : u \in Holder(o) /\ Carried(u) = b
      BY <2>4, <2>6, <3>1
    <3>3. u = th
      BY <2>3, <2>6, <3>2 DEF OneHome
    <3> QED BY <1>5, <3>2, <3>3
  <2> QED BY <1>7, <1>9, <2>2, <2>5, <2>6
<1>10. /\ IsFiniteSet(0 .. Cap[l]) /\ Cardinality(0 .. Cap[l]) = Cap[l] + 1
  <2>1. 0 \in Int /\ Cap[l] \in Int /\ ~(0 > Cap[l]) /\ Cap[l] - 0 + 1 = Cap[l] + 1
    BY <1>2
  <2> QED BY <2>1, FS_Interval
<1>11. IsFiniteSet(S) /\ Cardinality(S) < Cardinality(0 .. Cap[l])
  <2>1. IsFiniteSet(S) /\ Cardinality(S) <= Cap[l] /\ Cardinality(S) \in Nat
    BY <1>0, LineCapacity
  <2> QED BY <1>2, <1>10, <2>1
<1> HIDE DEF S, f
<1>12. PICK I : /\ I = 0 .. Cap[l] /\ IsFiniteSet(I) /\ f \in [I -> S]
               /\ IsFiniteSet(S) /\ Cardinality(S) < Cardinality(I)
  BY <1>8, <1>10, <1>11, Zenon
<1>13. \E x, y \in I : x # y /\ f[x] = f[y]
  BY ONLY <1>12, FS_PigeonHole, Zenon
<1> QED BY <1>9, <1>12, <1>13

-----------------------------------------------------------------------------
(* The steps of a static_list as moves of blocks *)

(* A step on free_ leaves head_ alone, and the values where they rest. *)
LEMMA HeadKept ==
  ASSUME ListInv, NEW th \in Threads,
         \/ PopNode(th) /\ From(th) = "free"
         \/ AppendNode(th) /\ To(th) = "free"
         \/ UNCHANGED chain,
         NEW l \in Lists
  PROVE  /\ chain'[l]["head"] = chain[l]["head"]
         /\ \A o : Rests(l, o)' <=> Rests(l, o)
<1>1. chain'[l]["head"] = chain[l]["head"]
  <2>1. DOMAIN chain = Lists /\ \A k \in Lists : chain[k] \in [Ends -> Seq(Nodes(k))]
    BY DEF ListInv, ListTypeOK
  <2>2. ASSUME NEW s, chain' = [chain EXCEPT ![L(th)]["free"] = s]
        PROVE  chain'[l]["head"] = chain[l]["head"]
    BY <2>1, <2>2 DEF Ends
  <2> QED BY <2>2 DEF PopNode, AppendNode
<1> QED BY <1>1 DEF Rests, Pos

(* The node that a pop takes is the first of its list. *)
LEMMA FirstRests ==
  ASSUME ListInv, NEW th \in Threads, PopNode(th), loc[th].op = "pop"
  PROVE  Rests(L(th), loc[th].h.offset) /\ loc[th].h.offset \in Nodes(L(th))
<1>0. PICK m \in Lists : m = L(th) /\ From(th) = "head"
  BY ThreadTypes DEF ListInv
<1>1. 1 \in Pos(m, "head") /\ loc[th].h.offset = chain[m]["head"][1]
  BY <1>0, PopShifts DEF Ends
<1>2. chain[m]["head"][1] \in Nodes(m)
  BY <1>1, ChainTypes DEF ListInv, Ends
<1> QED BY <1>0, <1>1, <1>2 DEF Rests

(* The CAS of a pop takes the first value from where it rests. *)
LEMMA RestsAfterPop ==
  ASSUME ListInv, ListInv', NEW th \in Threads, PopNode(th), loc[th].op = "pop",
         NEW l \in Lists, NEW o \in Nodes(l)
  PROVE  Rests(l, o)' <=> Rests(l, o) /\ ~(l = L(th) /\ o = loc[th].h.offset)
<1>0. PICK m \in Lists : m = L(th) /\ From(th) = "head"
  BY ThreadTypes DEF ListInv
<1>1. /\ 1 \in Pos(m, "head") /\ loc[th].h.offset = chain[m]["head"][1]
      /\ \A i \in Pos(l, "head")' :
           /\ i \in Nat /\ After(m, "head", l, "head", i) \in Pos(l, "head")
           /\ chain'[l]["head"][i] = chain[l]["head"][After(m, "head", l, "head", i)]
      /\ Len(chain'[l]["head"]) = IF l = m THEN Len(chain[l]["head"]) - 1 ELSE Len(chain[l]["head"])
      /\ Len(chain'[l]["head"]) \in Nat
  BY <1>0, PopShifts DEF Ends
<1>2. loc'[th].node = loc[th].h /\ L(th)' = m /\ loc'[th].pc = "hold"
  BY <1>0, PopLocals DEF L
<1>4. ASSUME Rests(l, o)'
      PROVE  Rests(l, o) /\ ~(l = m /\ o = loc[th].h.offset)
  <2>1. PICK i \in Pos(l, "head")' : chain'[l]["head"][i] = o
    BY <1>4 DEF Rests
  <2>2. HeldApart(th)'
    BY DEF ListInv, OnePlace
  <2>3. l = m => o # loc[th].h.offset
    BY <1>2, <2>1, <2>2 DEF HeldApart, Ends, Off, Holds
  <2> QED BY <1>1, <2>1, <2>3 DEF Rests
<1>5. ASSUME Rests(l, o), ~(l = m /\ o = loc[th].h.offset)
      PROVE  Rests(l, o)'
  <2>1. PICK i \in Pos(l, "head") : chain[l]["head"][i] = o
    BY <1>5 DEF Rests
  <2>2. CASE l = m
    <3>1. PICK n \in Nat, k \in Int : n = Len(chain'[l]["head"]) /\ k = Len(chain[l]["head"]) /\ n = k - 1
      BY <1>1, <2>2, ChainTypes DEF ListInv, Ends
    <3>2. i # 1 /\ i \in 1 .. k
      BY <1>1, <1>5, <2>1, <2>2, <3>1 DEF Pos
    <3>3. i - 1 \in Pos(l, "head")'
      BY <3>1, <3>2 DEF Pos
    <3>4. chain'[l]["head"][i - 1] = chain[l]["head"][i]
      BY <1>1, <2>2, <3>2, <3>3 DEF After
    <3> QED BY <2>1, <3>3, <3>4 DEF Rests
  <2>3. CASE l # m
    <3>1. i \in Pos(l, "head")'
      BY <1>1, <2>1, <2>3 DEF Pos
    <3> QED BY <1>1, <2>1, <2>3, <3>1 DEF Rests, After
  <2> QED BY <2>2, <2>3
<1> QED BY <1>0, <1>4, <1>5

(* The CAS of a push lets the value rest in its node. *)
LEMMA RestsAfterAppend ==
  ASSUME ListInv, NEW th \in Threads, AppendNode(th), loc[th].op = "push",
         NEW l \in Lists, NEW o \in Nodes(l)
  PROVE  Rests(l, o)' <=> Rests(l, o) \/ (l = L(th) /\ o = Off(th))
<1>0. PICK m \in Lists : m = L(th) /\ To(th) = "head"
  BY ThreadTypes DEF ListInv
<1>1. /\ 1 \in Pos(m, "head")' /\ chain'[m]["head"][1] = Off(th)
      /\ \A i \in Pos(l, "head")' : ~IsNew(m, "head", l, "head", i) =>
           /\ Before(m, "head", l, "head", i) \in Pos(l, "head")
           /\ chain'[l]["head"][i] = chain[l]["head"][Before(m, "head", l, "head", i)]
      /\ Len(chain[l]["head"]) \in Nat /\ Len(chain'[l]["head"]) \in Nat
      /\ Len(chain'[l]["head"]) = IF l = m THEN Len(chain[l]["head"]) + 1 ELSE Len(chain[l]["head"])
  BY <1>0, AppendShifts DEF Ends, Off
<1>2. ASSUME Rests(l, o)'
      PROVE  Rests(l, o) \/ (l = m /\ o = Off(th))
  <2>1. PICK i \in Pos(l, "head")' : chain'[l]["head"][i] = o
    BY <1>2 DEF Rests
  <2> QED BY <1>1, <2>1 DEF Rests, IsNew
<1>3. ASSUME Rests(l, o)
      PROVE  Rests(l, o)'
  <2>1. PICK i \in Pos(l, "head") : chain[l]["head"][i] = o
    BY <1>3 DEF Rests
  <2>2. CASE l = m
    <3>1. i + 1 \in Pos(l, "head")' /\ i \in Nat /\ i + 1 # 1 /\ (i + 1) - 1 = i
      BY <1>1, <2>1, <2>2 DEF Pos
    <3>2. chain'[l]["head"][i + 1] = chain[l]["head"][i]
      BY <1>1, <2>2, <3>1 DEF Before, IsNew
    <3> QED BY <2>1, <3>1, <3>2 DEF Rests
  <2>3. CASE l # m
    <3>1. i \in Pos(l, "head")'
      BY <1>1, <2>1, <2>3 DEF Pos
    <3> QED BY <1>1, <2>1, <2>3, <3>1 DEF Rests, Before, IsNew
  <2> QED BY <2>2, <2>3
<1> QED BY <1>0, <1>1, <1>2, <1>3 DEF Rests

(* What a thread that works on a list still has to do with its block. *)
LEMMA CarriedInStep ==
  ASSUME ListInv, PoolInv, NEW th \in Threads, ListStep(th),
         ~(PopNode(th) /\ loc[th].op = "pop"), ~(AppendNode(th) /\ loc[th].op = "push")
  PROVE  Carried(th)' = Carried(th) /\ (loc'[th].op = "push" => loc'[th].pc # "done")
<1>0. ValueOf(th) /\ loc[th].op \in {"push", "pop"} /\ loc[th] \in Locals
  BY ThreadTypes DEF ListInv, ThreadInv, Locals
<1>1. CASE loc[th].op = "push"
  <2>1. loc'[th].op = "push" /\ loc'[th].val = loc[th].val /\ loc[th].pc # "done"
    BY <1>1, StepLocals
  <2>2. loc'[th].pc # "done"
    <3>1. SUFFICES ASSUME loc'[th].pc = "done" PROVE FALSE
      OBVIOUS
    <3>2. loc[th].pc \in {"load", "cas"} /\ top[L(th)][From(th)] = EmptyTag(L(th))
      BY <1>1, <3>1, StepLocals
    <3>3. From(th) = "free"
      BY <1>1 DEF From
    <3> QED BY <1>1, <3>2, <3>3, RoomForPush
  <2> QED BY <1>1, <2>1, <2>2 DEF Carried
<1>2. CASE loc[th].op = "pop"
  <2>1. loc'[th].op = "pop" /\ Carried(th) = Popped(th) /\ Carried(th)' = Popped(th)'
    BY <1>2, StepLocals DEF Carried
  <2>2. CASE Empty(th)
    <3>1. loc[th].pc = "hold" /\ loc'[th].pc = "append" /\ loc'[th].val = sat[L(th)][Off(th)]
      <4>1. PICK v : v = sat[L(th)][Off(th)] /\ loc' = [loc EXCEPT ![th].val = v, ![th].pc = "append"]
        BY <2>2 DEF Empty, Off
      <4> QED BY <2>2, <4>1, StepLocals DEF Empty, Locals
    <3> QED BY <1>2, <2>1, <3>1 DEF Popped, Off
  <2>3. CASE ~Empty(th)
    <3>1. loc[th].pc # "hold" /\ loc'[th].pc # "hold" /\ loc'[th].val = loc[th].val
      <4>1. loc[th].pc # "hold"
        BY <1>2, <2>3 DEF ListStep, LoadTop, ReadNext, PopNode, MissPop, Fill, LoadAppend, Link,
             AppendNode, MissAppend
      <4> QED BY <1>2, <2>3, <4>1, StepLocals
    <3> QED BY <1>2, <2>1, <3>1 DEF Popped
  <2> QED BY <2>2, <2>3
<1> QED BY <1>0, <1>1, <1>2

(* A step that neither pops nor pushes a value moves no block. *)
LEMMA QuietListStep ==
  ASSUME ListInv, PoolInv, NEW th \in Threads, ListStep(th), UNCHANGED poolVars,
         ~(PopNode(th) /\ loc[th].op = "pop"), ~(AppendNode(th) /\ loc[th].op = "push")
  PROVE  (\A b \in Blocks : OneHome(b)') /\ InLines'
<1>1. \A u \in Threads : Carried(u)' = Carried(u)
  BY CarriedInStep, OthersCarry
<1>2. \A u \in Threads : L(u)' = L(u)
  BY StepLocals DEF L
<1>3. \A b \in Blocks : (Unborn(b)' <=> Unborn(b)) /\ (Out(b)' <=> Out(b))
  <2>1. \A u \in Threads : \A b \in Blocks : Pushing(u, b)' <=> Pushing(u, b)
    BY StepLocals DEF Pushing
  <2> QED BY <2>1 DEF Unborn, Out, poolVars
<1>4. ASSUME NEW l \in Lists, NEW o \in Nodes(l)
      PROVE  (Rests(l, o)' <=> Rests(l, o)) /\ (Rests(l, o) => sat'[l][o] = sat[l][o])
  <2>1. \/ PopNode(th) /\ From(th) = "free"
        \/ AppendNode(th) /\ To(th) = "free"
        \/ UNCHANGED chain
    <3>1. loc[th].op \in {"push", "pop"}
      BY StepLocals DEF Locals
    <3> QED BY <3>1, StepLocals DEF From, To
  <2>2. Rests(l, o) => ~Holds(th) \/ l # L(th) \/ o # Off(th)
    BY DEF ListInv, OnePlace, HeldApart, Rests, Ends
  <2> QED BY <2>1, <2>2, HeadKept, SatelliteKept
<1> QED BY <1>1, <1>2, <1>3, <1>4, QuietStep

(* A pop takes a block from where it rests into the hands of the thread. *)
LEMMA PopMovesBlock ==
  ASSUME ListInv, ListInv', PoolInv, NEW th \in Threads, PopNode(th), loc[th].op = "pop",
         UNCHANGED poolVars
  PROVE  (\A b \in Blocks : OneHome(b)') /\ InLines'
<1>0. ListStep(th) /\ L(th) \in Lists
  BY ThreadTypes DEF ListStep, ListInv
<1>m. PICK m \in Lists : m = L(th)
  BY <1>0
<1>h. PICK h \in Nodes(m) : m = L(th) /\ h = loc[th].h.offset
  BY <1>m, FirstRests
<1>1. /\ \A l \in Lists : \A o \in Nodes(l) : Rests(l, o)' <=> Rests(l, o) /\ ~(l = m /\ o = h)
      /\ Rests(m, h)
  BY <1>h, RestsAfterPop, FirstRests
<1>2. UNCHANGED sat /\ sat[m][h] \in Values /\ sat[m][h] # Raw
  BY <1>1, RestingIsValue DEF PopNode
<1>3. Carried(th) = Raw /\ Carried(th)' = sat[m][h] /\ L(th)' = m
  <2>1. ValueOf(th) /\ loc[th].pc = "cas"
    BY DEF ListInv, ThreadInv, PopNode
  <2>2. loc[th].val = Raw
    BY <2>1 DEF ValueOf, Holds
  <2>3. loc'[th].pc = "hold" /\ loc'[th].op = "pop" /\ loc'[th].node = loc[th].h /\ loc'[th].list = m
    BY <1>h, PopLocals
  <2> QED BY <1>h, <1>2, <2>1, <2>2, <2>3 DEF Carried, Popped, L
<1>4. \A u \in Threads \ {th} : Carried(u)' = Carried(u) /\ L(u)' = L(u)
  BY <1>0, OthersCarry, StepLocals DEF L
<1>5. \A b : /\ Unborn(b)' <=> Unborn(b)
             /\ Out(b)' <=> Out(b)
  <2>1. \A u \in Threads : loc'[u].op = loc[u].op /\ (loc[u].op = "push" => loc'[u] = loc[u])
    BY <1>0, StepLocals
  <2> QED BY <2>1 DEF Unborn, Out, Pushing, poolVars
<1>6. \A b : \A l \in Lists : \A o \in Nodes(l) :
        Rest(b, l, o)' <=> Rest(b, l, o) /\ ~(l = m /\ o = h)
  BY <1>1, <1>2 DEF Rest
<1>7. ASSUME NEW b \in Blocks
      PROVE  OneHome(b)'
  <2>0. OneHome(b) /\ b # Raw
    BY StaticListAssumption, PoolAssumption DEF PoolInv
  <2>1. CASE sat[m][h] = b
    <3>1. Rest(b, m, h)
      BY <1>1, <2>1 DEF Rest
    <3>2. \A l \in Lists : \A o \in Nodes(l) : ~Rest(b, l, o)'
      BY <1>6, <2>0, <3>1 DEF OneHome
    <3>3. ~Unborn(b) /\ ~Out(b) /\ \A u \in Threads : Carried(u) # b
      BY <1>h, <2>0, <3>1 DEF OneHome
    <3>4. \A u \in Threads : Carried(u)' = b => u = th
      BY <1>4, <3>3
    <3> QED BY <1>3, <1>5, <2>1, <3>2, <3>3, <3>4 DEF OneHome, Nodes
  <2>2. CASE sat[m][h] # b
    <3>1. KeepsHome(b)
      BY <1>2, <1>3, <1>4, <1>5, <1>6, <2>0, <2>2 DEF KeepsHome, Rest
    <3> QED BY <2>0, <3>1, HomeKept
  <2> QED BY <2>1, <2>2
<1>8. InLines'
  <2>1. \A l \in Lists : \A o \in Nodes(l) : Rests(l, o)' => InLine(sat'[l][o], l)
    BY <1>1, <1>2 DEF PoolInv, InLines
  <2>2. \A u \in Threads : Carried(u)' # Raw => InLine(Carried(u)', L(u)')
    BY <1>1, <1>3, <1>4 DEF PoolInv, InLines
  <2> QED BY <2>1, <2>2 DEF InLines, Nodes, InLine
<1> QED BY <1>7, <1>8

(* A push takes a block out of the hands of the thread and lets it rest. *)
LEMMA PushMovesBlock ==
  ASSUME ListInv, ListInv', PoolInv, NEW th \in Threads, AppendNode(th), loc[th].op = "push",
         UNCHANGED poolVars
  PROVE  (\A b \in Blocks : OneHome(b)') /\ InLines'
<1>0. ListStep(th) /\ L(th) \in Lists /\ loc[th].pc = "link_cas" /\ Holds(th) /\ HeldApart(th)
  BY ThreadTypes DEF ListStep, ListInv, AppendNode, Holds, OnePlace
<1>m. PICK m \in Lists : m = L(th)
  BY <1>0
<1>h. PICK h \in Nodes(m) : m = L(th) /\ h = Off(th)
  BY <1>0, <1>m DEF HeldApart
<1>1. /\ \A l \in Lists : \A o \in Nodes(l) : Rests(l, o)' <=> Rests(l, o) \/ (l = m /\ o = h)
      /\ ~Rests(m, h)
  BY <1>0, <1>h, RestsAfterAppend DEF HeldApart, Rests, Ends
<1>2. UNCHANGED sat /\ sat[m][h] = Carried(th) /\ Carried(th) \in Values /\ Carried(th) # Raw
  <2>1. ValueOf(th)
    BY DEF ListInv, ThreadInv
  <2> QED BY <1>0, <1>h, <2>1, StaticListAssumption DEF AppendNode, ValueOf, Carried
<1>3. Carried(th)' = Raw
  BY <1>0, AppendLocals DEF Carried
<1>4. \A u \in Threads \ {th} : Carried(u)' = Carried(u) /\ L(u)' = L(u)
  BY <1>0, OthersCarry, StepLocals DEF L
<1>5. \A b : /\ Unborn(b)' <=> Unborn(b)
             /\ Out(b)' <=> Out(b)
  <2>1. \A u \in Threads : /\ loc'[u].op = loc[u].op /\ loc'[u].val = loc[u].val
                           /\ loc'[u].pc # "idle" <=> loc[u].pc # "idle"
    BY <1>0, AppendLocals
  <2> QED BY <2>1 DEF Unborn, Out, Pushing, poolVars
<1>6. \A b : \A l \in Lists : \A o \in Nodes(l) :
        Rest(b, l, o)' <=> Rest(b, l, o) \/ (l = m /\ o = h /\ Carried(th) = b)
  BY <1>1, <1>2 DEF Rest
<1>7. ASSUME NEW b \in Blocks
      PROVE  OneHome(b)'
  <2>0. OneHome(b) /\ b # Raw
    BY StaticListAssumption, PoolAssumption DEF PoolInv
  <2>1. CASE Carried(th) = b
    <3>1. ~Unborn(b) /\ ~Out(b) /\ \A l \in Lists : \A o \in Nodes(l) : ~Rest(b, l, o)
      BY <2>0, <2>1 DEF OneHome
    <3>2. \A l \in Lists : \A o \in Nodes(l) : Rest(b, l, o)' <=> l = m /\ o = h
      BY <1>6, <2>1, <3>1
    <3>3. \A u \in Threads : Carried(u)' # b
      BY <1>3, <1>4, <2>0, <2>1 DEF OneHome
    <3>4. \E l \in Lists : \E o \in Nodes(l) : Rest(b, l, o)'
      BY <3>2
    <3> QED BY <1>5, <3>1, <3>2, <3>3, <3>4 DEF OneHome, Nodes
  <2>2. CASE Carried(th) # b
    <3>1. KeepsHome(b)
      BY <1>2, <1>3, <1>4, <1>5, <1>6, <2>0, <2>2 DEF KeepsHome
    <3> QED BY <2>0, <3>1, HomeKept
  <2> QED BY <2>1, <2>2
<1>8. InLines'
  <2>1. \A l \in Lists : \A o \in Nodes(l) : Rests(l, o)' => InLine(sat'[l][o], l)
    BY <1>h, <1>1, <1>2 DEF PoolInv, InLines
  <2>2. \A u \in Threads : Carried(u)' # Raw => InLine(Carried(u)', L(u)')
    BY <1>3, <1>4 DEF PoolInv, InLines
  <2> QED BY <2>1, <2>2 DEF InLines, Nodes, InLine
<1> QED BY <1>7, <1>8

(* The steps of a static_list keep what the pool says of its blocks. *)
LEMMA ListStepPreserves ==
  ASSUME ListInv, ListInv', PoolInv, NEW th \in Threads, ListStep(th), UNCHANGED poolVars
  PROVE  PoolInv'
<1>1. (\A b \in Blocks : OneHome(b)') /\ InLines'
  BY PopMovesBlock, PushMovesBlock, QuietListStep
<1>2. PoolTypeOK'
  BY DEF PoolInv, PoolTypeOK, poolVars
<1>3. Wanted'
  <2>1. ASSUME NEW u \in Threads
        PROVE  /\ loc'[u].list = loc[u].list /\ loc'[u].op = loc[u].op
               /\ loc[u].pc = "idle" => loc'[u].pc = "idle"
    BY StepLocals
  <2> QED BY <2>1 DEF PoolInv, Wanted, poolVars, L
<1>4. NoBlockIsDropped'
  <2>1. ASSUME NEW u \in Threads, loc'[u].op = "push", loc'[u].pc = "done"
        PROVE  loc'[u].ok
    <3>1. CASE u # th
      BY <2>1, <3>1, StepLocals DEF PoolInv, NoBlockIsDropped
    <3>2. CASE u = th /\ AppendNode(th) /\ loc[th].op = "push"
      BY <3>2, StepLocals, AppendLocals, ThreadTypes DEF ListInv
    <3>3. CASE u = th /\ ~(AppendNode(th) /\ loc[th].op = "push")
      <4>1. loc[th].op = "push"
        BY <2>1, <3>3, StepLocals
      <4> QED BY <2>1, <3>3, <4>1, CarriedInStep
    <3> QED BY <3>1, <3>2, <3>3
  <2> QED BY <2>1 DEF NoBlockIsDropped
<1> QED BY <1>1, <1>2, <1>3, <1>4 DEF PoolInv

-----------------------------------------------------------------------------
(* The calls of the pool *)

PushCall(l, v) == [Idle EXCEPT !.pc = "load", !.list = l, !.op = "push", !.val = v]
PopCall(l) == [Idle EXCEPT !.pc = "load", !.list = l, !.op = "pop"]

(* What a call on a static_list starts with. *)
LEMMA CallTypes ==
  /\ \A l \in Lists, v \in Values :
       /\ PushCall(l, v) \in Locals /\ PushCall(l, v).pc = "load" /\ PushCall(l, v).op = "push"
       /\ PushCall(l, v).val = v /\ PushCall(l, v).list = l /\ ~PushCall(l, v).ok
  /\ \A l \in Lists :
       /\ PopCall(l) \in Locals /\ PopCall(l).pc = "load" /\ PopCall(l).op = "pop"
       /\ PopCall(l).val = Raw /\ PopCall(l).list = l /\ ~PopCall(l).ok
<1>1. Idle \in Locals /\ Idle.val = Raw /\ ~Idle.ok
  BY IdleType
<1> HIDE DEF Idle
<1>2. ASSUME NEW l \in Lists, NEW v \in Values
      PROVE  /\ PushCall(l, v) \in Locals /\ PushCall(l, v).pc = "load" /\ PushCall(l, v).op = "push"
             /\ PushCall(l, v).val = v /\ PushCall(l, v).list = l /\ ~PushCall(l, v).ok
  BY <1>1 DEF PushCall, Locals, Places
<1>3. ASSUME NEW l \in Lists
      PROVE  /\ PopCall(l) \in Locals /\ PopCall(l).pc = "load" /\ PopCall(l).op = "pop"
             /\ PopCall(l).val = Raw /\ PopCall(l).list = l /\ ~PopCall(l).ok
  BY <1>1 DEF PopCall, Locals, Places
<1> QED BY <1>2, <1>3

(* A call or a return changes the locals of its thread only. *)
LEMMA CallStep ==
  ASSUME ListInv, NEW th \in Threads, UNCHANGED <<top, next, sat, chain>>,
         NEW r \in Locals, r.pc \in {"idle", "load"}, loc' = [loc EXCEPT ![th] = r]
  PROVE  /\ loc'[th] = r /\ L(th)' = r.list /\ Carried(th)' = r.val
         /\ \A u \in Threads \ {th} :
              /\ loc'[u] = loc[u] /\ Carried(u)' = Carried(u) /\ L(u)' = L(u)
              /\ \A b : Pushing(u, b)' <=> Pushing(u, b)
         /\ \A l \in Lists : \A o : /\ Rests(l, o)' <=> Rests(l, o)
                                    /\ \A b : Rest(b, l, o)' <=> Rest(b, l, o)
         /\ \A l : Nodes(l)' = Nodes(l)
<1>1. loc \in [Threads -> Locals]
  BY DEF ListInv, ListTypeOK
<1>2. loc'[th] = r /\ \A u \in Threads \ {th} : loc'[u] = loc[u]
  BY <1>1
<1>3. L(th)' = r.list /\ Carried(th)' = r.val
  <2>1. r.op \in {"push", "pop"} /\ r.pc # "hold" /\ r.pc # "done"
    BY DEF Locals
  <2> QED BY <1>2, <2>1 DEF L, Carried, Popped
<1>4. \A u \in Threads \ {th} : /\ Carried(u)' = Carried(u) /\ L(u)' = L(u)
                                /\ \A b : Pushing(u, b)' <=> Pushing(u, b)
  BY <1>2 DEF L, Carried, Popped, Pushing
<1>5. \A l \in Lists : \A o : /\ Rests(l, o)' <=> Rests(l, o)
                              /\ \A b : Rest(b, l, o)' <=> Rest(b, l, o)
  BY DEF Rests, Rest, Pos
<1> QED BY <1>2, <1>3, <1>4, <1>5 DEF Nodes

(* A thread that is idle, or done without a block to hand over, carries nothing. *)
LEMMA CarriesNothing ==
  ASSUME ListInv, NEW th \in Threads,
         \/ loc[th].pc = "idle"
         \/ loc[th].pc = "done" /\ loc[th].op = "push"
         \/ loc[th].pc = "done" /\ loc[th].op = "pop" /\ ~loc[th].ok
  PROVE  Carried(th) = Raw /\ ~Holds(th)
<1>1. ValueOf(th) /\ ~Holds(th)
  BY DEF ListInv, ThreadInv, Holds
<1>2. loc[th].pc = "idle" => loc[th].op = "pop" /\ loc[th].val = Raw
  BY <1>1, IdleType DEF ValueOf
<1> QED BY <1>1, <1>2 DEF ValueOf, Carried, Popped

(* A call that moves no block. *)
LEMMA QuietCall ==
  ASSUME ListInv, PoolInv, NEW th \in Threads, UNCHANGED <<top, next, sat, chain>>,
         NEW r \in Locals, r.pc \in {"idle", "load"}, r.op = "pop", r.val = Raw, ~r.ok,
         r = Idle \/ r.pc = "load",
         loc' = [loc EXCEPT ![th] = r], UNCHANGED owner, Carried(th) = Raw, ~Holds(th),
         \A b \in Blocks : Unborn(b)' <=> Unborn(b)
  PROVE  /\ ListInv' /\ \A b \in Nat : SeqsUpTo(b) => SeqsUpTo(b)'
         /\ \A b \in Blocks : OneHome(b)'
         /\ InLines' /\ NoBlockIsDropped'
<1>1. ListInv' /\ \A b \in Nat : SeqsUpTo(b) => SeqsUpTo(b)'
  BY FreshStart
<1>2. \A u \in Threads : Carried(u)' = Carried(u) /\ (Carried(u) = Raw \/ L(u)' = L(u))
  BY CallStep
<1>3. \A l \in Lists : \A o \in Nodes(l) :
        (Rests(l, o)' <=> Rests(l, o)) /\ (Rests(l, o) => sat'[l][o] = sat[l][o])
  BY CallStep
<1>4. \A b \in Blocks : Out(b)' <=> Out(b)
  BY DEF Out
<1>5. (\A b \in Blocks : OneHome(b)') /\ InLines'
  BY <1>2, <1>3, <1>4, QuietStep
<1>6. NoBlockIsDropped'
  <2>1. \A u \in Threads : loc'[u] = loc[u] \/ loc'[u].op = "pop"
    BY CallStep
  <2> QED BY <2>1 DEF PoolInv, NoBlockIsDropped
<1> QED BY <1>1, <1>5, <1>6

(* A block goes from the constructor or from a caller into the hands of a thread
   that pushes it to its own line. *)
LEMMA PushBegins ==
  ASSUME ListInv, PoolInv, NEW th \in Threads, NEW c \in Blocks, NEW m \in Lists,
         BeginPush(th, m, c), InLine(c, m), Unborn(c) \/ Out(c), ~Out(c)',
         UNCHANGED <<want, allocs, unbuilt>>, PoolTypeOK',
         \A b \in Blocks \ {c} : Out(b)' <=> Out(b)
  PROVE  /\ ListInv' /\ PoolInv' /\ \A b \in Nat : SeqsUpTo(b) => SeqsUpTo(b)'
         /\ loc'[th] = PushCall(m, c) /\ loc[th] = Idle
         /\ \A u \in Threads \ {th} : loc'[u] = loc[u]
         /\ \A b \in Blocks : Unborn(b)' <=> Unborn(b) /\ b # c
<1>0. c \in Values /\ c # Raw
  BY PoolAssumption, StaticListAssumption
<1>r. PICK r \in Locals : /\ r = PushCall(m, c) /\ r.pc = "load" /\ r.op = "push"
                          /\ r.val = c /\ r.list = m /\ ~r.ok
  BY <1>0, CallTypes
<1>1. loc[th].pc = "idle" /\ loc' = [loc EXCEPT ![th] = r] /\ UNCHANGED <<top, next, sat, chain>>
  BY <1>r DEF BeginPush, PushCall
<1>2. Carried(th) = Raw /\ ~Holds(th)
  BY <1>1, CarriesNothing
<1>3. ListInv' /\ \A b \in Nat : SeqsUpTo(b) => SeqsUpTo(b)'
  BY <1>0, <1>1, <1>2, <1>r, FreshStart
<1>4. /\ loc'[th] = r /\ L(th)' = m /\ Carried(th)' = c
      /\ \A u \in Threads \ {th} :
           /\ loc'[u] = loc[u] /\ Carried(u)' = Carried(u) /\ L(u)' = L(u)
           /\ \A b : Pushing(u, b)' <=> Pushing(u, b)
      /\ \A l \in Lists : \A o : /\ Rests(l, o)' <=> Rests(l, o)
                                 /\ \A b : Rest(b, l, o)' <=> Rest(b, l, o)
      /\ \A l : Nodes(l)' = Nodes(l)
  BY <1>1, <1>r, CallStep
<1>5. \A b : Unborn(b)' <=> Unborn(b) /\ b # c
  <2>1. \A b : Pushing(th, b)' <=> b = c
    BY <1>4, <1>r DEF Pushing
  <2>2. \A b : ~Pushing(th, b)
    BY <1>1 DEF Pushing
  <2> QED BY <1>4, <2>1, <2>2 DEF Unborn
<1>6. ASSUME NEW b \in Blocks
      PROVE  OneHome(b)'
  <2>0. OneHome(b) /\ b # Raw
    BY PoolAssumption, StaticListAssumption DEF PoolInv
  <2>1. CASE b = c
    <3>1. /\ \A l \in Lists : \A o \in Nodes(l) : ~Rest(b, l, o)'
          /\ \A u \in Threads : Carried(u)' = b <=> u = th
      BY <1>4, <2>0, <2>1 DEF OneHome
    <3> QED BY <1>4, <1>5, <2>1, <3>1 DEF OneHome
  <2>2. CASE b # c
    <3>1. KeepsHome(b)
      BY <1>2, <1>4, <1>5, <2>0, <2>2 DEF KeepsHome
    <3> QED BY <2>0, <3>1, HomeKept
  <2> QED BY <2>1, <2>2
<1>7. InLines'
  <2>1. \A l \in Lists : \A o \in Nodes(l) : Rests(l, o)' => InLine(sat'[l][o], l)
    BY <1>1, <1>4 DEF PoolInv, InLines
  <2>2. \A u \in Threads : Carried(u)' # Raw => InLine(Carried(u)', L(u)')
    BY <1>4 DEF PoolInv, InLines
  <2> QED BY <2>1, <2>2 DEF InLines, Nodes, InLine
<1>8. Wanted'
  BY <1>4, <1>r DEF PoolInv, Wanted
<1>9. NoBlockIsDropped'
  BY <1>4, <1>r DEF PoolInv, NoBlockIsDropped
<1>10. loc[th] = Idle
  BY <1>1 DEF ListInv, ThreadInv, ValueOf
<1> QED BY <1>3, <1>4, <1>5, <1>6, <1>7, <1>8, <1>9, <1>10, <1>r DEF PoolInv

(* match finds a class whose blocks are large enough, when it finds one. *)
LEMMA MatchFits ==
  ASSUME NEW n \in Nat, Match(n) <= MaxOff
  PROVE  Match(n) \in Lines /\ n <= BlockSize(Match(n))
<1> DEFINE P(i) == i > MaxOff \/ n <= BlockSize(i)
           Q(i) == P(i) /\ \A j \in 0 .. i - 1 : n > BlockSize(j)
<1>0. /\ MaxOff \in 0 .. 3
      /\ \A i \in 0 .. 4 : ~P(i) => i <= MaxOff /\ i + 1 \in 0 .. MaxOff + 1 /\ n > BlockSize(i)
  BY PoolAssumption, LineShapes DEF Lines
<1> HIDE DEF P
<1>1. \E i \in 0 .. MaxOff + 1 : Q(i)
  <2>1. CASE P(0)
    BY <1>0, <2>1
  <2>2. CASE ~P(0) /\ P(1)
    <3>1. 1 \in 0 .. MaxOff + 1 /\ \A j \in 0 .. 1 - 1 : n > BlockSize(j)
      BY <1>0, <2>2
    <3> QED BY <2>2, <3>1
  <2>3. CASE ~P(0) /\ ~P(1) /\ P(2)
    <3>1. 2 \in 0 .. MaxOff + 1 /\ \A j \in 0 .. 2 - 1 : n > BlockSize(j)
      <4>1. \A j \in 0 .. 2 - 1 : j = 0 \/ j = 1
        OBVIOUS
      <4> QED BY <1>0, <2>3, <4>1
    <3> QED BY <2>3, <3>1
  <2>4. CASE ~P(0) /\ ~P(1) /\ ~P(2) /\ P(3)
    <3>1. 3 \in 0 .. MaxOff + 1 /\ \A j \in 0 .. 3 - 1 : n > BlockSize(j)
      <4>1. \A j \in 0 .. 3 - 1 : j = 0 \/ j = 1 \/ j = 2
        OBVIOUS
      <4> QED BY <1>0, <2>4, <4>1
    <3> QED BY <2>4, <3>1
  <2>5. CASE ~P(0) /\ ~P(1) /\ ~P(2) /\ ~P(3)
    <3>1. MaxOff = 3 /\ 4 \in 0 .. MaxOff + 1 /\ P(4)
      BY <1>0, <2>5
    <3>2. \A j \in 0 .. 4 - 1 : j = 0 \/ j = 1 \/ j = 2 \/ j = 3
      OBVIOUS
    <3>3. \A j \in 0 .. 4 - 1 : n > BlockSize(j)
      BY <1>0, <2>5, <3>2
    <3> QED BY <3>1, <3>3
  <2> QED BY <2>1, <2>2, <2>3, <2>4, <2>5
<1>2. Match(n) = CHOOSE i \in 0 .. MaxOff + 1 : Q(i)
  BY DEF Match, P
<1> HIDE DEF Q
<1>3. Match(n) \in 0 .. MaxOff + 1 /\ Q(Match(n))
  BY <1>1, <1>2
<1> USE DEF Q, P
<1> QED BY <1>0, <1>3 DEF Lines

(* The constructor takes the blocks one after the other to their lines. *)
LEMMA ConstructPreserves ==
  ASSUME ListInv, PoolInv, NEW th \in Threads, Construct(th)
  PROVE  /\ ListInv' /\ PoolInv' /\ \A b \in Nat : SeqsUpTo(b) => SeqsUpTo(b)'
         /\ \E c \in Blocks : \E m \in Lists :
              /\ Unborn(c) /\ loc'[th] = PushCall(m, c) /\ loc[th] = Idle
              /\ \A u \in Threads \ {th} : loc'[u] = loc[u]
              /\ \A b \in Blocks : Unborn(b)' <=> Unborn(b) /\ b # c
<1>1. PICK c \in unbuilt, m \in Lines :
        c \in LineStart[m] .. LineStart[m + 1] - 1 /\ BeginPush(th, m, c)
  BY DEF Construct
<1>2. c \in Blocks /\ m \in Lists /\ InLine(c, m)
  BY <1>1, PoolAssumption DEF PoolInv, PoolTypeOK, InLine
<1>3. Unborn(c) /\ OneHome(c)
  BY <1>1, <1>2 DEF Construct, Unborn, Pushing, PoolInv
<1>4. ~Out(c)' /\ \A b \in Blocks \ {c} : Out(b)' <=> Out(b)
  BY <1>3 DEF Construct, Out, OneHome, poolVars
<1>5. PoolTypeOK' /\ UNCHANGED <<want, allocs, unbuilt>>
  BY DEF PoolInv, PoolTypeOK, Construct, poolVars
<1>6. /\ ListInv' /\ PoolInv' /\ \A b \in Nat : SeqsUpTo(b) => SeqsUpTo(b)'
      /\ loc'[th] = PushCall(m, c) /\ loc[th] = Idle
      /\ \A u \in Threads \ {th} : loc'[u] = loc[u]
      /\ \A b \in Blocks : Unborn(b)' <=> Unborn(b) /\ b # c
  BY <1>1, <1>2, <1>3, <1>4, <1>5, PushBegins
<1> QED BY <1>2, <1>3, <1>6

(* The caller gives a block back. *)
LEMMA DeallocatePreserves ==
  ASSUME ListInv, PoolInv, NEW th \in Threads, Deallocate(th)
  PROVE  /\ ListInv' /\ PoolInv' /\ \A b \in Nat : SeqsUpTo(b) => SeqsUpTo(b)'
         /\ \E c \in Blocks : \E m \in Lists :
              /\ Out(c) /\ ~Out(c)' /\ loc'[th] = PushCall(m, c) /\ loc[th] = Idle
              /\ \A u \in Threads \ {th} : loc'[u] = loc[u]
              /\ \A b \in Blocks \ {c} : Out(b)' <=> Out(b)
              /\ \A b \in Blocks : Unborn(b)' => Unborn(b)
<1>1. PICK c \in Blocks : /\ owner[c] # "pool"
                          /\ owner' = [owner EXCEPT ![c] = "pool"]
                          /\ BeginPush(th, CalcLine(c), c)
  BY DEF Deallocate
<1>2. PICK m \in Lists : m = CalcLine(c) /\ InLine(c, m)
  BY LineOfBlock, PoolAssumption
<1>3. Out(c) /\ ~Out(c)' /\ \A b \in Blocks \ {c} : Out(b)' <=> Out(b)
  BY <1>1 DEF PoolInv, PoolTypeOK, Out
<1>4. PoolTypeOK' /\ UNCHANGED <<want, allocs, unbuilt>>
  BY <1>1 DEF PoolInv, PoolTypeOK, Deallocate
<1>6. /\ ListInv' /\ PoolInv' /\ \A b \in Nat : SeqsUpTo(b) => SeqsUpTo(b)'
      /\ loc'[th] = PushCall(m, c) /\ loc[th] = Idle
      /\ \A u \in Threads \ {th} : loc'[u] = loc[u]
      /\ \A b \in Blocks : Unborn(b)' <=> Unborn(b) /\ b # c
  BY <1>1, <1>2, <1>3, <1>4, PushBegins
<1> QED BY <1>3, <1>6

(* allocate begins with the smallest class that fits. *)
LEMMA AllocatePreserves ==
  ASSUME ListInv, PoolInv, NEW th \in Threads, Allocate(th)
  PROVE  /\ ListInv' /\ PoolInv' /\ \A b \in Nat : SeqsUpTo(b) => SeqsUpTo(b)'
         /\ \E m \in Lists : loc'[th] = PopCall(m) /\ loc[th] = Idle
         /\ \A u \in Threads \ {th} : loc'[u] = loc[u]
         /\ \A b \in Blocks : Unborn(b)' <=> Unborn(b)
<1>1. PICK n \in Sizes : /\ Match(n) <= MaxOff
                         /\ want' = [want EXCEPT ![th] = n]
                         /\ BeginPop(th, Match(n))
  BY DEF Allocate
<1>2. PICK m \in Lists : m = Match(n) /\ n \in Nat /\ n <= BlockSize(m)
  BY <1>1, MatchFits, PoolAssumption
<1>r. PICK r \in Locals : /\ r = PopCall(m) /\ r.pc = "load" /\ r.op = "pop"
                          /\ r.val = Raw /\ r.list = m /\ ~r.ok
  BY CallTypes
<1>3. loc[th].pc = "idle" /\ loc' = [loc EXCEPT ![th] = r] /\ UNCHANGED <<top, next, sat, chain>>
  BY <1>1, <1>2, <1>r DEF BeginPop, PopCall
<1>4. Carried(th) = Raw /\ ~Holds(th) /\ UNCHANGED <<owner, unbuilt>>
  <2>1. Carried(th) = Raw /\ ~Holds(th)
    BY <1>3, CarriesNothing
  <2> QED BY <2>1 DEF Allocate
<1>5. loc'[th] = r /\ \A u \in Threads \ {th} : loc'[u] = loc[u]
  BY <1>3, <1>r, CallStep
<1>6. \A b \in Blocks : Unborn(b)' <=> Unborn(b)
  <2>1. \A u \in Threads : \A b : Pushing(u, b)' <=> Pushing(u, b)
    BY <1>3, <1>5, <1>r DEF Pushing
  <2> QED BY <1>4, <2>1 DEF Unborn
<1>7. /\ ListInv' /\ \A b \in Nat : SeqsUpTo(b) => SeqsUpTo(b)'
      /\ \A b \in Blocks : OneHome(b)'
      /\ InLines' /\ NoBlockIsDropped'
  BY <1>3, <1>4, <1>6, <1>r, QuietCall
<1>8. PoolTypeOK'
  <2>1. allocs[th] + 1 \in 0 .. MaxOps
    BY PoolAssumption DEF PoolInv, PoolTypeOK, Allocate
  <2> QED BY <1>1, <1>2, <1>4, <2>1 DEF PoolInv, PoolTypeOK, Allocate
<1>9. Wanted'
  <2>1. want'[th] = n /\ \A u \in Threads \ {th} : want'[u] = want[u]
    BY <1>1 DEF PoolInv, PoolTypeOK
  <2> QED BY <1>2, <1>5, <1>r, <2>1 DEF PoolInv, Wanted, L
<1>10. loc[th] = Idle
  BY <1>3 DEF ListInv, ThreadInv, ValueOf
<1> QED BY <1>5, <1>6, <1>7, <1>8, <1>9, <1>10, <1>r DEF PoolInv

(* The list had no block: allocate asks the next class. *)
LEMMA FallThroughPreserves ==
  ASSUME ListInv, PoolInv, NEW th \in Threads, FallThrough(th)
  PROVE  /\ ListInv' /\ PoolInv' /\ \A b \in Nat : SeqsUpTo(b) => SeqsUpTo(b)'
         /\ loc[th].pc = "done" /\ loc[th].op = "pop" /\ loc'[th].pc = "load" /\ loc'[th].op = "pop"
         /\ ~loc[th].ok /\ loc'[th].val = Raw
         /\ \A u \in Threads \ {th} : loc'[u] = loc[u]
         /\ \A b \in Blocks : Unborn(b)' <=> Unborn(b)
<1>2. PICK m \in Lists : m = L(th) + 1 /\ L(th) \in Lines /\ BlockSize(L(th)) <= BlockSize(m)
  <2>1. L(th) \in Lines /\ L(th) < MaxOff /\ MaxOff \in Nat
    BY ThreadTypes, PoolAssumption DEF ListInv, FallThrough
  <2>2. L(th) + 1 \in Lines /\ L(th) <= L(th) + 1
    BY <2>1 DEF Lines
  <2> QED BY <2>1, <2>2, LineShapes, PoolAssumption
<1>r. PICK r \in Locals : /\ r = PopCall(m) /\ r.pc = "load" /\ r.op = "pop"
                          /\ r.val = Raw /\ r.list = m /\ ~r.ok
  BY CallTypes
<1>3. /\ loc[th].pc = "done" /\ loc[th].op = "pop" /\ ~loc[th].ok
      /\ loc' = [loc EXCEPT ![th] = r] /\ UNCHANGED <<top, next, sat, chain, want, owner, allocs, unbuilt>>
  BY <1>2, <1>r DEF FallThrough, PopCall, poolVars
<1>4. Carried(th) = Raw /\ ~Holds(th)
  <2>1. loc[th].pc = "done" /\ loc[th].op = "pop" /\ ~loc[th].ok
    BY <1>3
  <2> QED BY <2>1, CarriesNothing
<1>5. loc'[th] = r /\ \A u \in Threads \ {th} : loc'[u] = loc[u]
  BY <1>3, <1>r, CallStep
<1>6. \A b \in Blocks : Unborn(b)' <=> Unborn(b)
  <2>1. \A u \in Threads : \A b : Pushing(u, b)' <=> Pushing(u, b)
    BY <1>3, <1>5, <1>r DEF Pushing
  <2> QED BY <1>3, <2>1 DEF Unborn
<1>7. /\ ListInv' /\ \A b \in Nat : SeqsUpTo(b) => SeqsUpTo(b)'
      /\ \A b \in Blocks : OneHome(b)'
      /\ InLines' /\ NoBlockIsDropped'
  BY <1>3, <1>4, <1>6, <1>r, QuietCall
<1>8. PoolTypeOK'
  BY <1>3 DEF PoolInv, PoolTypeOK
<1>9. Wanted'
  <2>1. want[th] <= BlockSize(L(th)) /\ want[th] \in Nat
    BY <1>3 DEF PoolInv, Wanted, PoolTypeOK
  <2>2. want[th] <= BlockSize(m)
    <3>1. BlockSize(L(th)) \in Nat /\ BlockSize(m) \in Nat
      BY <1>2, LineShapes, PoolAssumption
    <3> QED BY <1>2, <2>1, <3>1
  <2> QED BY <1>3, <1>5, <1>r, <2>2 DEF PoolInv, Wanted, L
<1> QED BY <1>3, <1>5, <1>6, <1>7, <1>8, <1>9, <1>r DEF PoolInv

(* There was no block in any class that fits. *)
LEMMA AllocateFailsPreserves ==
  ASSUME ListInv, PoolInv, NEW th \in Threads, AllocateFails(th)
  PROVE  /\ ListInv' /\ PoolInv' /\ \A b \in Nat : SeqsUpTo(b) => SeqsUpTo(b)'
         /\ loc'[th] = Idle /\ \A u \in Threads \ {th} : loc'[u] = loc[u]
         /\ \A b \in Blocks : Unborn(b)' <=> Unborn(b)
<1>r. PICK r \in Locals : /\ r = Idle /\ r.pc = "idle" /\ r.op = "pop" /\ r.val = Raw /\ ~r.ok
  BY IdleType
<1>3. /\ loc[th].pc = "done" /\ loc[th].op = "pop" /\ ~loc[th].ok
      /\ loc' = [loc EXCEPT ![th] = r] /\ UNCHANGED <<top, next, sat, chain, owner, allocs, unbuilt>>
      /\ want' = [want EXCEPT ![th] = 0]
  BY <1>r DEF AllocateFails, Return
<1>4. Carried(th) = Raw /\ ~Holds(th)
  BY <1>3, CarriesNothing
<1>5. loc'[th] = r /\ \A u \in Threads \ {th} : loc'[u] = loc[u]
  BY <1>3, <1>r, CallStep
<1>6. \A b \in Blocks : Unborn(b)' <=> Unborn(b)
  <2>1. \A u \in Threads : \A b : Pushing(u, b)' <=> Pushing(u, b)
    BY <1>3, <1>5, <1>r DEF Pushing
  <2> QED BY <1>3, <2>1 DEF Unborn
<1>7. /\ ListInv' /\ \A b \in Nat : SeqsUpTo(b) => SeqsUpTo(b)'
      /\ \A b \in Blocks : OneHome(b)'
      /\ InLines' /\ NoBlockIsDropped'
  BY <1>3, <1>4, <1>6, <1>r, QuietCall
<1>8. PoolTypeOK'
  BY <1>3 DEF PoolInv, PoolTypeOK
<1>9. Wanted'
  <2>1. \A u \in Threads \ {th} : want'[u] = want[u]
    BY <1>3 DEF PoolInv, PoolTypeOK
  <2> QED BY <1>5, <1>r, <2>1 DEF PoolInv, Wanted, L
<1> QED BY <1>5, <1>7, <1>6, <1>8, <1>9, <1>r DEF PoolInv

(* The constructor or deallocate is done with its block. *)
LEMMA EmplaceReturnsPreserves ==
  ASSUME ListInv, PoolInv, NEW th \in Threads, EmplaceReturns(th)
  PROVE  /\ ListInv' /\ PoolInv' /\ \A b \in Nat : SeqsUpTo(b) => SeqsUpTo(b)'
         /\ loc'[th] = Idle /\ \A u \in Threads \ {th} : loc'[u] = loc[u]
         /\ \A b \in Blocks : Unborn(b)' <=> Unborn(b)
<1>r. PICK r \in Locals : /\ r = Idle /\ r.pc = "idle" /\ r.op = "pop" /\ r.val = Raw /\ ~r.ok
  BY IdleType
<1>3. /\ loc[th].pc = "done" /\ loc[th].op = "push"
      /\ loc' = [loc EXCEPT ![th] = r] /\ UNCHANGED <<top, next, sat, chain, owner, allocs, want>>
      /\ unbuilt' = unbuilt \ {loc[th].val}
  BY <1>r DEF EmplaceReturns, Return
<1>4. Carried(th) = Raw /\ ~Holds(th)
  BY <1>3, CarriesNothing
<1>5. loc'[th] = r /\ \A u \in Threads \ {th} : loc'[u] = loc[u]
  BY <1>3, <1>r, CallStep
<1>6. \A b \in Blocks : Unborn(b)' <=> Unborn(b)
  <2>1. \A u \in Threads \ {th} : \A b : Pushing(u, b)' <=> Pushing(u, b)
    BY <1>5 DEF Pushing
  <2>2. \A b : Pushing(th, b) <=> b = loc[th].val
    BY <1>3 DEF Pushing
  <2>3. \A b : ~Pushing(th, b)'
    BY <1>5, <1>r DEF Pushing
  <2> QED BY <1>3, <2>1, <2>2, <2>3 DEF Unborn
<1>7. /\ ListInv' /\ \A b \in Nat : SeqsUpTo(b) => SeqsUpTo(b)'
      /\ \A b \in Blocks : OneHome(b)'
      /\ InLines' /\ NoBlockIsDropped'
  BY <1>3, <1>4, <1>6, <1>r, QuietCall
<1>8. PoolTypeOK'
  BY <1>3 DEF PoolInv, PoolTypeOK
<1>9. Wanted'
  BY <1>3, <1>5, <1>r DEF PoolInv, Wanted, L
<1> QED BY <1>5, <1>7, <1>6, <1>8, <1>9, <1>r DEF PoolInv

(* allocate hands its block to the caller. *)
LEMMA AllocateReturnsPreserves ==
  ASSUME ListInv, PoolInv, NEW th \in Threads, AllocateReturns(th)
  PROVE  /\ ListInv' /\ PoolInv' /\ \A b \in Nat : SeqsUpTo(b) => SeqsUpTo(b)'
         /\ loc[th].pc = "done" /\ loc[th].op = "pop" /\ loc[th].val \in Blocks
         /\ loc'[th] = Idle /\ \A u \in Threads \ {th} : loc'[u] = loc[u]
         /\ \A b \in Blocks : (Unborn(b)' <=> Unborn(b)) /\ (Out(b)' <=> Out(b) \/ b = loc[th].val)
<1>r. PICK r \in Locals : /\ r = Idle /\ r.pc = "idle" /\ r.op = "pop" /\ r.val = Raw /\ ~r.ok
  BY IdleType
<1>3. /\ loc[th].pc = "done" /\ loc[th].op = "pop" /\ loc[th].ok
      /\ loc' = [loc EXCEPT ![th] = r] /\ UNCHANGED <<top, next, sat, chain, allocs, unbuilt>>
      /\ want' = [want EXCEPT ![th] = 0]
      /\ owner' = [owner EXCEPT ![loc[th].val] = th]
  BY <1>r DEF AllocateReturns, Return
<1>4. ~Holds(th) /\ Carried(th) # Raw /\ Carried(th) = loc[th].val
  <2>1. ValueOf(th)
    BY DEF ListInv, ThreadInv
  <2> QED BY <1>3, <2>1 DEF Holds, ValueOf, Carried, Popped
<1>c. PICK c \in Blocks : c = loc[th].val /\ InLine(c, L(th))
  BY <1>4 DEF PoolInv, InLines, InLine
<1>5. /\ loc'[th] = r /\ Carried(th)' = Raw
      /\ \A u \in Threads \ {th} :
           /\ loc'[u] = loc[u] /\ Carried(u)' = Carried(u) /\ L(u)' = L(u)
           /\ \A b : Pushing(u, b)' <=> Pushing(u, b)
      /\ \A l \in Lists : \A o : /\ Rests(l, o)' <=> Rests(l, o)
                                 /\ \A b : Rest(b, l, o)' <=> Rest(b, l, o)
      /\ \A l : Nodes(l)' = Nodes(l)
  BY <1>3, <1>r, CallStep
<1>6. \A b : Unborn(b)' <=> Unborn(b)
  <2>1. \A b : Pushing(th, b)' <=> Pushing(th, b)
    BY <1>3, <1>5, <1>r DEF Pushing
  <2> QED BY <1>3, <1>5, <2>1 DEF Unborn
<1>7. \A b \in Blocks : Out(b)' <=> Out(b) \/ b = c
  BY <1>3, <1>c, PoolAssumption DEF PoolInv, PoolTypeOK, Out
<1>8. ListInv' /\ \A b \in Nat : SeqsUpTo(b) => SeqsUpTo(b)'
  BY <1>3, <1>4, <1>r, FreshStart
<1>9. ASSUME NEW b \in Blocks
      PROVE  OneHome(b)'
  <2>0. OneHome(b) /\ b # Raw
    BY PoolAssumption, StaticListAssumption DEF PoolInv
  <2>1. CASE b = c
    <3>1. /\ ~Unborn(b) /\ \A l \in Lists : \A o \in Nodes(l) : ~Rest(b, l, o)'
          /\ \A u \in Threads : Carried(u)' # b
      BY <1>4, <1>5, <1>c, <2>0, <2>1 DEF OneHome
    <3> QED BY <1>5, <1>6, <1>7, <2>1, <3>1 DEF OneHome
  <2>2. CASE b # c
    <3>1. KeepsHome(b)
      BY <1>4, <1>5, <1>6, <1>7, <1>c, <2>0, <2>2 DEF KeepsHome
    <3> QED BY <2>0, <3>1, HomeKept
  <2> QED BY <2>1, <2>2
<1>10. InLines'
  <2>1. \A l \in Lists : \A o \in Nodes(l) : Rests(l, o)' => InLine(sat'[l][o], l)
    BY <1>3, <1>5 DEF PoolInv, InLines
  <2>2. \A u \in Threads : Carried(u)' # Raw => InLine(Carried(u)', L(u)')
    BY <1>5 DEF PoolInv, InLines
  <2> QED BY <2>1, <2>2 DEF InLines, Nodes, InLine
<1>11. PoolTypeOK'
  BY <1>3, <1>c DEF PoolInv, PoolTypeOK
<1>12. Wanted'
  <2>1. \A u \in Threads \ {th} : want'[u] = want[u]
    BY <1>3 DEF PoolInv, PoolTypeOK
  <2> QED BY <1>5, <1>r, <2>1 DEF PoolInv, Wanted
<1>13. NoBlockIsDropped'
  BY <1>5, <1>r DEF PoolInv, NoBlockIsDropped
<1> QED BY <1>3, <1>c, <1>5, <1>6, <1>7, <1>8, <1>9, <1>10, <1>11, <1>12, <1>13, <1>r DEF PoolInv

-----------------------------------------------------------------------------
(* What is still to come shrinks. *)

(* A set that loses, or gains at most, one element. *)
LEMMA SmallerSet ==
  ASSUME NEW S, IsFiniteSet(S), NEW T, T \subseteq S
  PROVE  Cardinality(S) \in Nat /\ Cardinality(T) \in Nat /\ Cardinality(T) <= Cardinality(S)
<1>1. T \in SUBSET S
  OBVIOUS
<1> QED BY <1>1, FS_Subset, FS_CardinalityType

(* A part that misses an element is smaller. *)
LEMMA OneLess ==
  ASSUME NEW S, IsFiniteSet(S), NEW x \in S, NEW T, T \subseteq S \ {x}
  PROVE  Cardinality(S) \in Nat /\ Cardinality(T) \in Nat /\ Cardinality(T) <= Cardinality(S) - 1
<1>1. /\ IsFiniteSet(S \ {x}) /\ Cardinality(S \ {x}) = Cardinality(S) - 1 /\ Cardinality(S) \in Nat
  BY FS_RemoveElement, FS_CardinalityType
<1> QED BY <1>1, SmallerSet

(* A part of a set and one more element. *)
LEMMA OneMore ==
  ASSUME NEW S, IsFiniteSet(S), NEW x, NEW T, T \subseteq S \cup {x}
  PROVE  Cardinality(S) \in Nat /\ Cardinality(T) \in Nat /\ Cardinality(T) <= Cardinality(S) + 1
<1>1. /\ IsFiniteSet(S \cup {x}) /\ Cardinality(S \cup {x}) <= Cardinality(S) + 1 /\ Cardinality(S) \in Nat
  BY FS_AddElement, FS_CardinalityType
<1>2. Cardinality(T) \in Nat /\ Cardinality(T) <= Cardinality(S \cup {x}) /\ Cardinality(S \cup {x}) \in Nat
  BY <1>1, SmallerSet
<1> QED BY <1>1, <1>2

(* What is counted is finite. *)
LEMMA CountedIsFinite ==
  /\ IsFiniteSet(Left) /\ IsFiniteSet(Owned) /\ IsFiniteSet(Busy) /\ IsFiniteSet(Unbuilt)
  /\ Left \subseteq Threads \X (1 .. MaxOps) /\ IsFiniteSet(Threads \X (1 .. MaxOps))
  /\ Cardinality(Threads \X (1 .. MaxOps)) = Cardinality(Threads) * MaxOps
  /\ Budget \in Nat /\ ToCome \in Nat
<1>1. IsFiniteSet(1 .. MaxOps) /\ Cardinality(1 .. MaxOps) = MaxOps /\ MaxOps \in Nat
  <2>1. MaxOps \in Nat /\ 1 \in Int /\ MaxOps \in Int
    BY PoolAssumption
  <2>2. Cardinality(1 .. MaxOps) = IF 1 > MaxOps THEN 0 ELSE MaxOps - 1 + 1
    BY <2>1, FS_Interval
  <2>3. Cardinality(1 .. MaxOps) = MaxOps
    BY <2>1, <2>2
  <2> QED BY <2>1, <2>3, FS_Interval
<1>2. IsFiniteSet(Threads) /\ Cardinality(Threads) \in Nat
  BY PoolAssumption, FS_CardinalityType
<1>3. /\ IsFiniteSet(Threads \X (1 .. MaxOps))
      /\ Cardinality(Threads \X (1 .. MaxOps)) = Cardinality(Threads) * MaxOps
  BY <1>1, <1>2, FS_Product
<1>4. Left \in SUBSET (Threads \X (1 .. MaxOps)) /\ Owned \in SUBSET Blocks /\ Unbuilt \in SUBSET Blocks
      /\ Busy \in SUBSET Threads
  BY DEF Left, Owned, Unbuilt, Busy
<1>5. IsFiniteSet(Left) /\ IsFiniteSet(Owned) /\ IsFiniteSet(Busy) /\ IsFiniteSet(Unbuilt)
  BY <1>2, <1>3, <1>4, BlocksFinite, FS_Subset
<1>6. ToCome \in Nat
  BY <1>5, FS_CardinalityType DEF ToCome
<1>7. Budget \in Nat
  <2>1. PICK t \in Nat, m \in Nat : t = Cardinality(Threads) /\ m = MaxOps
    BY <1>1, <1>2
  <2>2. t * m \in Nat
    OBVIOUS
  <2> QED BY <2>1, <2>2, BlocksFinite DEF Budget
<1> QED BY <1>3, <1>4, <1>5, <1>6, <1>7

(* A sequence that is bounded by what was given is bounded by more. *)
LEMMA SeqsMonotone ==
  ASSUME ListInv, NEW b \in Nat, NEW c \in Nat, b <= c, SeqsUpTo(b)
  PROVE  SeqsUpTo(c)
<1>1. ASSUME NEW l \in Lists, NEW e \in Ends, NEW i \in Pos(l, e)
      PROVE  TagAt(l, e, i).seq <= c
  <2>1. i \in 1 .. Len(chain[l][e]) + 1 /\ TagAt(l, e, i) \in Tags
    BY ChainTypes DEF Pos, ListInv
  <2>2. TagAt(l, e, i).seq \in Nat /\ TagAt(l, e, i).seq <= b
    BY <2>1 DEF Tags, SeqsUpTo
  <2> QED BY <2>2
<1>2. ASSUME NEW th \in Threads, Holds(th)
      PROVE  loc[th].node.seq <= c
  <2>1. loc[th].node.seq \in Nat /\ loc[th].node.seq <= b
    BY <1>2 DEF ListInv, OnePlace, HeldApart, Tags, SeqsUpTo
  <2> QED BY <2>1
<1> QED BY <1>1, <1>2 DEF SeqsUpTo

(* Nothing that is counted grows. *)
LEMMA NothingMoreToCome ==
  ASSUME Left' \subseteq Left, Owned' \subseteq Owned, Busy' \subseteq Busy, Unbuilt' \subseteq Unbuilt
  PROVE  ToCome' \in Nat /\ ToCome' <= ToCome
<1>1. PICK a \in Nat, b \in Nat, c \in Nat, d \in Nat :
        /\ a = Cardinality(Left) /\ b = Cardinality(Owned)
        /\ c = Cardinality(Busy) /\ d = Cardinality(Unbuilt)
  BY CountedIsFinite, FS_CardinalityType
<1>2. PICK i \in Nat, j \in Nat, k \in Nat, l \in Nat :
        /\ i = Cardinality(Left') /\ j = Cardinality(Owned')
        /\ k = Cardinality(Busy') /\ l = Cardinality(Unbuilt')
        /\ i <= a /\ j <= b /\ k <= c /\ l <= d
  BY <1>1, CountedIsFinite, SmallerSet
<1>3. ToCome = a + b + c + d /\ ToCome' = i + j + k + l
  BY <1>1, <1>2 DEF ToCome
<1> QED BY <1>2, <1>3

(* Arithmetic: with less to come, more has been given. *)
LEMMA LessLeft ==
  ASSUME NEW g \in Nat, NEW t \in Nat, NEW n \in Nat, n <= t, t <= g
  PROVE  g - t \in Nat /\ g - n \in Nat /\ g - t <= g - n /\ n <= g
OBVIOUS

(* The bound on the sequences follows what is still to come. *)
LEMMA SeqsFollow ==
  ASSUME ListInv, SeqsInv, NEW n \in Nat, n = ToCome', n <= ToCome,
         \A b \in Nat : SeqsUpTo(b) => SeqsUpTo(b)'
  PROVE  SeqsInv'
<1>0. ToCome <= Budget /\ ToCome \in Nat /\ Budget \in Nat
  BY CountedIsFinite DEF SeqsInv
<1>a. PICK t \in Nat, g \in Nat : t = ToCome /\ g = Budget /\ n <= t /\ t <= g
  BY <1>0, Zenon
<1>b. g - t \in Nat /\ g - n \in Nat /\ g - t <= g - n /\ n <= g
  BY <1>a, LessLeft
<1>1. PICK b \in Nat, c \in Nat : b = Budget - ToCome /\ c = Budget - n /\ b <= c /\ n <= Budget
  BY <1>a, <1>b, Zenon
<1>2. SeqsUpTo(b)
  BY <1>1 DEF SeqsInv, SeqsUpTo
<1>3. SeqsUpTo(c)'
  BY <1>1, <1>2, SeqsMonotone
<1> QED BY <1>1, <1>3 DEF SeqsInv, SeqsUpTo, Budget

(* The steps of a static_list: only Fill gives a sequence, and its thread gives no other
   in this operation. *)
LEMMA ListStepCounts ==
  ASSUME ListInv, NEW th \in Threads, ListStep(th), UNCHANGED poolVars
  PROVE  /\ Left' \subseteq Left /\ Owned' \subseteq Owned
         /\ Busy' \subseteq Busy /\ Unbuilt' \subseteq Unbuilt
         /\ Fill(th) => th \in Busy /\ th \notin Busy'
<1>1. Left' = Left /\ Owned' = Owned
  BY DEF Left, Owned, Out, poolVars
<1>2. Unbuilt' = Unbuilt
  <2>1. \A u \in Threads : \A b \in Blocks : Pushing(u, b)' <=> Pushing(u, b)
    BY StepLocals DEF Pushing
  <2> QED BY <2>1 DEF Unbuilt, Unborn, poolVars
<1>3. ASSUME NEW u \in Busy'
      PROVE  u \in Busy
  <2>1. CASE u # th
    BY <1>3, <2>1, StepLocals DEF Busy
  <2>2. CASE u = th
    <3>1. loc[th].op = "push" \/ loc[th].op = "pop"
      BY StepLocals DEF Locals
    <3>2. CASE loc[th].op = "push"
      <4>1. loc'[th].op = "push" /\ loc'[th].pc \in {"load", "next", "cas", "hold"}
        BY <1>3, <2>2, <3>2, StepLocals DEF Busy
      <4>2. loc[th].pc \in {"load", "next", "cas", "hold"}
        BY <4>1, StepLocals
      <4> QED BY <2>2, <3>2, <4>2 DEF Busy
    <3>3. CASE loc[th].op = "pop"
      BY <2>2, <3>3, StepLocals DEF Busy
    <3> QED BY <3>1, <3>2, <3>3
  <2> QED BY <2>1, <2>2
<1>4. Fill(th) => th \in Busy /\ th \notin Busy'
  <2>1. SUFFICES ASSUME Fill(th) PROVE th \in Busy /\ th \notin Busy'
    OBVIOUS
  <2>2. loc[th].op = "push" /\ loc[th].pc = "hold"
    BY <2>1 DEF Fill
  <2>3. loc'[th].op = "push" /\ loc'[th].pc = "append"
    BY <2>1, <2>2, StepLocals DEF PopNode, Empty, AppendNode
  <2> QED BY <2>2, <2>3 DEF Busy
<1> QED BY <1>1, <1>2, <1>3, <1>4

(* A step of static_list preserves the whole invariant: only Fill gives a
   sequence, and its thread has then one less to come. *)
LEMMA ListStepInv ==
  ASSUME NoWrap, Inv, NEW th \in Threads, ListStep(th), UNCHANGED poolVars
  PROVE  Inv'
<1>0. ListInv /\ PoolInv /\ SeqsInv
  BY DEF Inv
<1>c. /\ Left' \subseteq Left /\ Owned' \subseteq Owned
      /\ Busy' \subseteq Busy /\ Unbuilt' \subseteq Unbuilt
      /\ Fill(th) => th \in Busy /\ th \notin Busy'
  BY <1>0, ListStepCounts
<1>t. PICK n \in Nat : n = ToCome' /\ n <= ToCome
  BY <1>c, NothingMoreToCome
<1>1. CASE ~Fill(th)
  <2>1. ListInv' /\ \A b \in Nat : SeqsUpTo(b) => SeqsUpTo(b)'
    BY <1>0, <1>1, ReloadPreserves, ReadNextPreserves, PopNodePreserves, EmptyPreserves,
       LoadAppendPreserves, LinkPreserves, AppendNodePreserves DEF ListStep
  <2>2. PoolInv'
    BY <1>0, <2>1, ListStepPreserves
  <2>3. SeqsInv'
    BY <1>0, <1>t, <2>1, SeqsFollow
  <2> QED BY <2>1, <2>2, <2>3 DEF Inv
<1>2. CASE Fill(th)
  <2>1. PICK t \in Nat, g \in Nat : t = ToCome /\ g = Budget /\ t <= g /\ g < SeqMod
    BY <1>0, CountedIsFinite DEF SeqsInv, NoWrap
  <2>2. n <= t - 1
    <3>1. PICK a \in Nat, b \in Nat, c \in Nat, d \in Nat :
            /\ a = Cardinality(Left) /\ b = Cardinality(Owned)
            /\ c = Cardinality(Busy) /\ d = Cardinality(Unbuilt)
      BY CountedIsFinite, FS_CardinalityType
    <3>2. PICK i \in Nat, j \in Nat, l \in Nat :
            /\ i = Cardinality(Left') /\ j = Cardinality(Owned') /\ l = Cardinality(Unbuilt')
            /\ i <= a /\ j <= b /\ l <= d
      BY <1>c, <3>1, CountedIsFinite, SmallerSet
    <3>3. PICK k \in Nat : k = Cardinality(Busy') /\ k <= c - 1
      <4>1. th \in Busy /\ Busy' \subseteq Busy \ {th}
        BY <1>c, <1>2
      <4> QED BY <3>1, <4>1, CountedIsFinite, OneLess
    <3>4. t = a + b + c + d /\ n = i + j + k + l
      BY <1>t, <2>1, <3>1, <3>2, <3>3 DEF ToCome
    <3> QED BY <3>2, <3>3, <3>4
  <2>3. PICK b \in Nat, c \in Nat : b = g - t /\ c = (g - n) - 1 /\ b <= c /\ c + 1 < SeqMod /\ n <= g
    <3>1. g - t \in Nat /\ (g - n) - 1 \in Nat /\ g - t <= (g - n) - 1 /\ n <= g /\ ((g - n) - 1) + 1 <= g
      BY <2>1, <2>2
    <3>2. ((g - n) - 1) + 1 < SeqMod
      BY <2>1, <3>1, StaticListAssumption
    <3> QED BY <3>1, <3>2
  <2>4. SeqsUpTo(b)
    BY <1>0, <2>1, <2>3 DEF SeqsInv, SeqsUpTo
  <2>5. SeqsUpTo(c)
    BY <1>0, <2>3, <2>4, SeqsMonotone
  <2>6. ListInv' /\ SeqsUpTo(c + 1)'
    BY <1>0, <1>2, <2>3, <2>5, FillPreserves
  <2>7. PoolInv'
    BY <1>0, <2>6, ListStepPreserves
  <2>8. SeqsInv'
    <3>1. c + 1 = g - n
      BY <2>3
    <3>2. PICK x \in Int : x = g - n /\ SeqsUpTo(x)'
      BY <2>6, <3>1
    <3> QED BY <1>t, <2>1, <2>3, <3>2 DEF SeqsInv, SeqsUpTo, Budget
  <2> QED BY <2>6, <2>7, <2>8 DEF Inv
<1> QED BY <1>1, <1>2

-----------------------------------------------------------------------------
(* The calls and returns: a thread that starts stands for what it will do. *)

(* The thread th becomes busy, and something that stood for it goes. *)
LEMMA BusyForOther ==
  ASSUME NEW th \in Threads, Busy' \subseteq Busy \cup {th},
         \/ Left' \subseteq Left /\ Owned' \subseteq Owned
            /\ \E x \in Unbuilt : Unbuilt' \subseteq Unbuilt \ {x}
         \/ Left' \subseteq Left /\ Unbuilt' \subseteq Unbuilt
            /\ \E x \in Owned : Owned' \subseteq Owned \ {x}
         \/ Owned' \subseteq Owned /\ Unbuilt' \subseteq Unbuilt
            /\ \E x \in Left : Left' \subseteq Left \ {x}
  PROVE  ToCome' \in Nat /\ ToCome' <= ToCome
<1>1. PICK a \in Nat, b \in Nat, c \in Nat, d \in Nat :
        /\ a = Cardinality(Left) /\ b = Cardinality(Owned)
        /\ c = Cardinality(Busy) /\ d = Cardinality(Unbuilt)
  BY CountedIsFinite, FS_CardinalityType
<1>2. PICK k \in Nat : k = Cardinality(Busy') /\ k <= c + 1
  BY <1>1, CountedIsFinite, OneMore
<1>3. PICK i \in Nat, j \in Nat, l \in Nat :
        /\ i = Cardinality(Left') /\ j = Cardinality(Owned') /\ l = Cardinality(Unbuilt')
        /\ \/ i <= a /\ j <= b /\ l <= d - 1
           \/ i <= a /\ l <= d /\ j <= b - 1
           \/ j <= b /\ l <= d /\ i <= a - 1
  <2>1. CASE Left' \subseteq Left /\ Owned' \subseteq Owned
             /\ \E x \in Unbuilt : Unbuilt' \subseteq Unbuilt \ {x}
    <3>1. PICK i \in Nat : i = Cardinality(Left') /\ i <= a
      BY <1>1, <2>1, CountedIsFinite, SmallerSet
    <3>2. PICK j \in Nat : j = Cardinality(Owned') /\ j <= b
      BY <1>1, <2>1, CountedIsFinite, SmallerSet
    <3>3. PICK l \in Nat : l = Cardinality(Unbuilt') /\ l <= d - 1
      BY <1>1, <2>1, CountedIsFinite, OneLess
    <3> QED BY <3>1, <3>2, <3>3
  <2>2. CASE Left' \subseteq Left /\ Unbuilt' \subseteq Unbuilt
             /\ \E x \in Owned : Owned' \subseteq Owned \ {x}
    <3>1. PICK i \in Nat : i = Cardinality(Left') /\ i <= a
      BY <1>1, <2>2, CountedIsFinite, SmallerSet
    <3>2. PICK l \in Nat : l = Cardinality(Unbuilt') /\ l <= d
      BY <1>1, <2>2, CountedIsFinite, SmallerSet
    <3>3. PICK j \in Nat : j = Cardinality(Owned') /\ j <= b - 1
      BY <1>1, <2>2, CountedIsFinite, OneLess
    <3> QED BY <3>1, <3>2, <3>3
  <2>3. CASE Owned' \subseteq Owned /\ Unbuilt' \subseteq Unbuilt
             /\ \E x \in Left : Left' \subseteq Left \ {x}
    <3>1. PICK j \in Nat : j = Cardinality(Owned') /\ j <= b
      BY <1>1, <2>3, CountedIsFinite, SmallerSet
    <3>2. PICK l \in Nat : l = Cardinality(Unbuilt') /\ l <= d
      BY <1>1, <2>3, CountedIsFinite, SmallerSet
    <3>3. PICK i \in Nat : i = Cardinality(Left') /\ i <= a - 1
      BY <1>1, <2>3, CountedIsFinite, OneLess
    <3> QED BY <3>1, <3>2, <3>3
  <2> QED BY <2>1, <2>2, <2>3
<1>4. ToCome = a + b + c + d /\ ToCome' = i + j + k + l
  BY <1>1, <1>2, <1>3 DEF ToCome
<1> QED BY <1>2, <1>3, <1>4

(* The thread th is done with what it was busy with, and at most one more block is out. *)
LEMMA OtherForBusy ==
  ASSUME NEW th \in Busy, Busy' \subseteq Busy \ {th}, Left' \subseteq Left, Unbuilt' \subseteq Unbuilt,
         NEW x, Owned' \subseteq Owned \cup {x}
  PROVE  ToCome' \in Nat /\ ToCome' <= ToCome
<1>1. PICK a \in Nat, b \in Nat, c \in Nat, d \in Nat :
        /\ a = Cardinality(Left) /\ b = Cardinality(Owned)
        /\ c = Cardinality(Busy) /\ d = Cardinality(Unbuilt)
  BY CountedIsFinite, FS_CardinalityType
<1>2. PICK i \in Nat, l \in Nat :
        i = Cardinality(Left') /\ l = Cardinality(Unbuilt') /\ i <= a /\ l <= d
  BY <1>1, CountedIsFinite, SmallerSet
<1>3. PICK j \in Nat : j = Cardinality(Owned') /\ j <= b + 1
  BY <1>1, CountedIsFinite, OneMore
<1>4. PICK k \in Nat : k = Cardinality(Busy') /\ k <= c - 1
  BY <1>1, CountedIsFinite, OneLess
<1>5. ToCome = a + b + c + d /\ ToCome' = i + j + k + l
  BY <1>1, <1>2, <1>3, <1>4 DEF ToCome
<1> QED BY <1>2, <1>3, <1>4, <1>5

(* What the actions of the pool do with the counts. *)
LEMMA ConstructCounts ==
  ASSUME ListInv, PoolInv, NEW th \in Threads, Construct(th)
  PROVE  ToCome' \in Nat /\ ToCome' <= ToCome
<1>1. PICK c \in Blocks, m \in Lists :
        /\ Unborn(c) /\ loc'[th] = PushCall(m, c) /\ loc[th] = Idle
        /\ \A u \in Threads \ {th} : loc'[u] = loc[u]
        /\ \A b \in Blocks : Unborn(b)' <=> Unborn(b) /\ b # c
  BY ConstructPreserves
<1>2. Left' \subseteq Left /\ Owned' \subseteq Owned
  BY DEF Construct, poolVars, Left, Owned, Out
<1>3. c \in Unbuilt /\ Unbuilt' \subseteq Unbuilt \ {c}
  BY <1>1 DEF Unbuilt
<1>4. Busy' \subseteq Busy \cup {th}
  BY <1>1 DEF Busy
<1> QED BY <1>2, <1>3, <1>4, BusyForOther

(* deallocate: the block is no longer out, and its push is on its way. *)
LEMMA DeallocateCounts ==
  ASSUME ListInv, PoolInv, NEW th \in Threads, Deallocate(th)
  PROVE  ToCome' \in Nat /\ ToCome' <= ToCome
<1>1. PICK c \in Blocks, m \in Lists :
        /\ Out(c) /\ ~Out(c)' /\ loc'[th] = PushCall(m, c) /\ loc[th] = Idle
        /\ \A u \in Threads \ {th} : loc'[u] = loc[u]
        /\ \A b \in Blocks \ {c} : Out(b)' <=> Out(b)
        /\ \A b \in Blocks : Unborn(b)' => Unborn(b)
  BY DeallocatePreserves
<1>2. Left' \subseteq Left /\ Unbuilt' \subseteq Unbuilt
  BY <1>1 DEF Deallocate, Left, Unbuilt
<1>3. c \in Owned /\ Owned' \subseteq Owned \ {c}
  BY <1>1 DEF Owned
<1>4. Busy' \subseteq Busy \cup {th}
  BY <1>1 DEF Busy
<1> QED BY <1>2, <1>3, <1>4, BusyForOther

(* allocate: one allocation less is left, and its pop is on its way. *)
LEMMA AllocateCounts ==
  ASSUME ListInv, PoolInv, NEW th \in Threads, Allocate(th)
  PROVE  ToCome' \in Nat /\ ToCome' <= ToCome
<1>1. PICK m \in Lists :
        /\ loc'[th] = PopCall(m) /\ loc[th] = Idle
        /\ \A u \in Threads \ {th} : loc'[u] = loc[u]
        /\ \A b \in Blocks : Unborn(b)' <=> Unborn(b)
  BY AllocatePreserves
<1>2. Owned' \subseteq Owned /\ Unbuilt' \subseteq Unbuilt
  BY <1>1 DEF Allocate, Owned, Out, Unbuilt
<1>3. PICK x : x = <<th, allocs[th] + 1>>
  OBVIOUS
<1>4. x \in Left /\ Left' \subseteq Left \ {x}
  <2>1. allocs \in [Threads -> 0 .. MaxOps] /\ MaxOps \in Nat
    BY PoolAssumption DEF PoolInv, PoolTypeOK
  <2>2. allocs[th] < MaxOps /\ allocs' = [allocs EXCEPT ![th] = allocs[th] + 1]
    BY DEF Allocate
  <2>3. PICK k \in Nat : k = allocs[th] /\ k + 1 \in 1 .. MaxOps
    BY <2>1, <2>2
  <2>4. x[1] = th /\ x[2] = k + 1 /\ x \in Threads \X (1 .. MaxOps)
    BY <1>3, <2>3
  <2>5. x \in Left
    BY <2>3, <2>4 DEF Left
  <2>6. ASSUME NEW y \in Left'
        PROVE  y \in Left /\ y # x
    <3>1. y \in Threads \X (1 .. MaxOps) /\ y[2] > allocs'[y[1]] /\ y[1] \in Threads /\ y[2] \in Int
      BY <2>6 DEF Left
    <3>2. CASE y[1] = th
      BY <2>1, <2>2, <2>3, <2>4, <3>1, <3>2 DEF Left
    <3>3. CASE y[1] # th
      BY <2>1, <2>2, <2>4, <3>1, <3>3 DEF Left
    <3> QED BY <3>2, <3>3
  <2> QED BY <2>5, <2>6
<1>5. Busy' \subseteq Busy \cup {th}
  BY <1>1 DEF Busy
<1> QED BY <1>2, <1>4, <1>5, BusyForOther

(* The return of a block by allocate: the pop is over, and the block is out. *)
LEMMA AllocateReturnsCounts ==
  ASSUME ListInv, PoolInv, NEW th \in Threads, AllocateReturns(th)
  PROVE  ToCome' \in Nat /\ ToCome' <= ToCome
<1>1. PICK c \in Blocks :
        /\ loc[th].pc = "done" /\ loc[th].op = "pop" /\ loc'[th] = Idle
        /\ \A u \in Threads \ {th} : loc'[u] = loc[u]
        /\ \A b \in Blocks : (Unborn(b)' <=> Unborn(b)) /\ (Out(b)' <=> Out(b) \/ b = c)
  BY AllocateReturnsPreserves
<1>2. Left' \subseteq Left /\ Unbuilt' \subseteq Unbuilt
  BY <1>1 DEF AllocateReturns, Left, Unbuilt
<1>3. Owned' \subseteq Owned \cup {c}
  BY <1>1 DEF Owned
<1>4. th \in Busy /\ Busy' \subseteq Busy \ {th}
  BY <1>1, IdleType DEF Busy
<1> QED BY <1>2, <1>3, <1>4, OtherForBusy

(* The other ends of a call only have less to come. *)
LEMMA OtherCounts ==
  ASSUME ListInv, PoolInv, NEW th \in Threads,
         FallThrough(th) \/ AllocateFails(th) \/ EmplaceReturns(th)
  PROVE  ToCome' \in Nat /\ ToCome' <= ToCome
<1>1. /\ \/ loc'[th] = Idle
         \/ /\ loc[th].pc = "done" /\ loc[th].op = "pop"
      /\ \A u \in Threads \ {th} : loc'[u] = loc[u]
      /\ \A b \in Blocks : Unborn(b)' <=> Unborn(b)
  BY FallThroughPreserves, AllocateFailsPreserves, EmplaceReturnsPreserves
<1>2. Left' \subseteq Left /\ Owned' \subseteq Owned
  BY DEF FallThrough, AllocateFails, EmplaceReturns, poolVars, Left, Owned, Out
<1>3. Unbuilt' \subseteq Unbuilt
  BY <1>1 DEF Unbuilt
<1>4. Busy' \subseteq Busy
  BY <1>1, IdleType DEF Busy
<1> QED BY <1>2, <1>3, <1>4, NothingMoreToCome

(* The calls of the pool and their returns preserve the whole invariant. *)
LEMMA CallInv ==
  ASSUME Inv, NEW th \in Threads,
         \/ Construct(th) \/ Allocate(th) \/ Deallocate(th) \/ AllocateReturns(th)
         \/ FallThrough(th) \/ AllocateFails(th) \/ EmplaceReturns(th)
  PROVE  Inv'
<1>0. ListInv /\ PoolInv /\ SeqsInv
  BY DEF Inv
<1>1. ListInv' /\ PoolInv' /\ \A b \in Nat : SeqsUpTo(b) => SeqsUpTo(b)'
  BY <1>0, ConstructPreserves, AllocatePreserves, DeallocatePreserves, AllocateReturnsPreserves,
     FallThroughPreserves, AllocateFailsPreserves, EmplaceReturnsPreserves
<1>2. PICK n \in Nat : n = ToCome' /\ n <= ToCome
  BY <1>0, ConstructCounts, AllocateCounts, DeallocateCounts, AllocateReturnsCounts, OtherCounts
<1> QED BY <1>0, <1>1, <1>2, SeqsFollow DEF Inv

-----------------------------------------------------------------------------
(* The pool as a whole *)

(* A record of two ends is a function on them. *)
LEMMA EndsFunction ==
  ASSUME NEW S, NEW x \in S, NEW y \in S
  PROVE  [head |-> x, free |-> y] \in [Ends -> S]
BY DEF Ends

(* The constructor has made every list, and nothing is in the pool. *)
LEMMA InitInv == PoolInit => Inv
<1> SUFFICES ASSUME PoolInit
             PROVE  Inv
  OBVIOUS
<1>0. /\ top = [l \in Lists |-> [head |-> EmptyTag(l), free |-> Tag(0, 0)]]
      /\ next = [l \in Lists |-> [o \in Nodes(l) |-> Tag(0, o + 1)]]
      /\ sat = [l \in Lists |-> [o \in Nodes(l) |-> Raw]]
      /\ loc = [th \in Threads |-> Idle]
      /\ chain = [l \in Lists |-> [head |-> <<>>, free |-> [i \in 1 .. Cap[l] |-> i - 1]]]
      /\ want = [th \in Threads |-> 0]
      /\ owner = [b \in Blocks |-> "pool"]
      /\ allocs = [th \in Threads |-> 0]
      /\ unbuilt = Blocks
  BY DEF PoolInit, Init
<1>1. ASSUME NEW l \in Lists
      PROVE  /\ Cap[l] \in Nat \ {0} /\ Nodes(l) = 0 .. Cap[l] - 1
             /\ top[l] \in [Ends -> Tags] /\ next[l] \in [Nodes(l) -> Tags]
             /\ sat[l] \in [Nodes(l) -> Values \cup {Raw}] /\ chain[l] \in [Ends -> Seq(Nodes(l))]
             /\ chain[l]["head"] = <<>> /\ Len(chain[l]["free"]) = Cap[l]
             /\ Pos(l, "head") = {} /\ Pos(l, "free") = 1 .. Cap[l]
             /\ \A i \in 1 .. Cap[l] : chain[l]["free"][i] = i - 1
             /\ top[l]["head"] = EmptyTag(l)
             /\ \A i \in 1 .. Cap[l] + 1 : TagAt(l, "free", i) = Tag(0, i - 1)
             /\ \A o \in Nodes(l) : sat[l][o] = Raw
  <2>1. PICK c \in Nat \ {0} : c = Cap[l] /\ Nodes(l) = 0 .. c - 1
    BY StaticListAssumption DEF Nodes
  <2>2. PICK f : f = [i \in 1 .. c |-> i - 1]
    OBVIOUS
  <2>3. f \in Seq(Nodes(l)) /\ Len(f) = c /\ \A i \in 1 .. c : f[i] = i - 1
    BY <2>1, <2>2
  <2>4. chain[l]["head"] = <<>> /\ chain[l]["free"] = f /\ chain[l] \in [Ends -> Seq(Nodes(l))]
    <3>1. chain[l] = [head |-> <<>>, free |-> f]
      BY <1>0, <2>1, <2>2
    <3>a. <<>> \in Seq(Nodes(l))
      OBVIOUS
    <3>2. PICK S, s : S = Seq(Nodes(l)) /\ s = <<>> /\ s \in S /\ f \in S
      BY <2>3, <3>a, Zenon
    <3>3. chain[l] = [head |-> s, free |-> f]
      BY <3>1, <3>2
    <3>b. [head |-> s, free |-> f] \in [Ends -> S]
      BY <3>2, EndsFunction
    <3>4. chain[l]["head"] = s /\ chain[l]["free"] = f /\ chain[l] \in [Ends -> S]
      <4> HIDE DEF Ends
      <4>1. chain[l] \in [Ends -> S]
        BY <3>3, <3>b, Zenon
      <4> QED BY <3>3, <4>1
    <3> QED BY <3>2, <3>4
  <2>5. \A n, o \in Nat : Tag(n, o) \in Tags
    BY DEF Tag, Tags
  <2>6. top[l] = [head |-> EmptyTag(l), free |-> Tag(0, 0)] /\ EmptyTag(l) \in Tags
    BY <1>0, <2>1, <2>5 DEF EmptyTag
  <2>7. next[l] = [o \in Nodes(l) |-> Tag(0, o + 1)]
    BY <1>0
  <2>8. next[l] \in [Nodes(l) -> Tags]
    BY <2>1, <2>5, <2>7
  <2>9. top[l] \in [Ends -> Tags] /\ top[l]["head"] = EmptyTag(l) /\ top[l]["free"] = Tag(0, 0)
    BY <2>5, <2>6 DEF Ends
  <2>10. sat[l] = [o \in Nodes(l) |-> Raw]
    BY <1>0
  <2>11. Pos(l, "head") = {} /\ Pos(l, "free") = 1 .. c
    BY <2>3, <2>4 DEF Pos
  <2>12. ASSUME NEW i \in 1 .. c + 1
         PROVE  TagAt(l, "free", i) = Tag(0, i - 1)
    <3>1. CASE i = 1
      BY <2>9, <3>1 DEF TagAt
    <3>2. CASE i # 1
      <4>1. i - 1 \in 1 .. c /\ i - 2 \in Nodes(l) /\ (i - 1) - 1 = i - 2 /\ (i - 2) + 1 = i - 1
        BY <2>1, <3>2
      <4>2. chain[l]["free"][i - 1] = i - 2
        BY <2>3, <2>4, <4>1
      <4> QED BY <2>7, <3>2, <4>1, <4>2 DEF TagAt
    <3> QED BY <3>1, <3>2
  <2> QED BY <2>1, <2>3, <2>4, <2>8, <2>9, <2>10, <2>11, <2>12
<1>2. ASSUME NEW th \in Threads
      PROVE  /\ loc[th] = Idle /\ loc[th].pc = "idle" /\ loc[th].op = "pop" /\ loc[th].val = Raw
             /\ loc[th] \in Locals /\ ~loc[th].ok /\ ~Holds(th)
  BY <1>0, IdleType DEF Holds
<1>3. ListTypeOK
  <2>1. top \in [Lists -> [Ends -> Tags]]
    BY <1>0, <1>1
  <2>2. loc \in [Threads -> Locals]
    BY <1>0, <1>2
  <2> QED BY <1>0, <1>1, <2>1, <2>2 DEF ListTypeOK
<1>4. OnePlace
  <2>1. ASSUME NEW l \in Lists, NEW e \in Ends, NEW d \in Ends, NEW i \in Pos(l, e), NEW j \in Pos(l, d),
               chain[l][e][i] = chain[l][d][j]
        PROVE  e = d /\ i = j
    <3>1. e = "free" /\ d = "free" /\ i \in 1 .. Cap[l] /\ j \in 1 .. Cap[l]
      BY <1>1, <2>1 DEF Ends
    <3>2. i - 1 = j - 1
      BY <1>1, <2>1, <3>1
    <3> QED BY <3>1, <3>2
  <2> QED BY <1>2, <2>1 DEF OnePlace, HeldApart
<1>5. Somewhere
  <2>1. ASSUME NEW l \in Lists, NEW o \in Nodes(l)
        PROVE  \E e \in Ends : \E i \in Pos(l, e) : chain[l][e][i] = o
    <3>0. PICK c \in Nat : /\ c = Cap[l] /\ o \in 0 .. c - 1 /\ Pos(l, "free") = 1 .. c
                           /\ \A i \in 1 .. c : chain[l]["free"][i] = i - 1
      BY <1>1
    <3>1. o + 1 \in Pos(l, "free") /\ chain[l]["free"][o + 1] = o
      BY <3>0
    <3> QED BY <3>1 DEF Ends
  <2>2. ASSUME NEW l \in Lists
        PROVE  Len(chain[l]["free"]) + Len(chain[l]["head"]) + Cardinality(InHand(l)) = Cap[l]
    <3>1. InHand(l) = {}
      BY <1>2 DEF InHand
    <3>2. Cardinality(InHand(l)) = 0
      BY <3>1, FS_EmptySet
    <3>3. Len(chain[l]["head"]) = 0 /\ Len(chain[l]["free"]) = Cap[l] /\ Cap[l] \in Nat
      BY <1>1
    <3> QED BY <3>2, <3>3
  <2> QED BY <2>1, <2>2 DEF Somewhere
<1>6. Linked
  <2>1. ASSUME NEW l \in Lists
        PROVE  /\ \A i \in Pos(l, "free") : TagAt(l, "free", i).offset = chain[l]["free"][i]
               /\ TagAt(l, "free", Len(chain[l]["free"]) + 1) = EmptyTag(l)
    <3>1. \A i \in 1 .. Cap[l] : TagAt(l, "free", i).offset = i - 1
      BY <1>1 DEF Tag
    <3>2. PICK c \in Nat : c = Cap[l] /\ c + 1 \in 1 .. c + 1 /\ (c + 1) - 1 = c
      BY <1>1
    <3>3. TagAt(l, "free", c + 1) = Tag(0, c)
      BY <1>1, <3>2
    <3>4. Len(chain[l]["free"]) = c /\ Pos(l, "free") = 1 .. c
      BY <1>1, <3>2
    <3>5. \A i \in 1 .. c : chain[l]["free"][i] = i - 1
      BY <1>1, <3>2
    <3> QED BY <3>1, <3>2, <3>3, <3>4, <3>5 DEF EmptyTag
  <2>2. ASSUME NEW l \in Lists
        PROVE  /\ Pos(l, "head") = {}
               /\ TagAt(l, "head", Len(chain[l]["head"]) + 1) = EmptyTag(l)
    BY <1>1 DEF TagAt
  <2> QED BY <2>1, <2>2 DEF Linked, Ends
<1>7. Satellites
  <2>1. ASSUME NEW l \in Lists
        PROVE  /\ Pos(l, "head") = {}
               /\ \A i \in Pos(l, "free") : sat[l][chain[l]["free"][i]] = Raw
    <3>0. PICK c \in Nat : /\ Nodes(l) = 0 .. c - 1 /\ Pos(l, "free") = 1 .. c
                           /\ \A i \in 1 .. c : chain[l]["free"][i] = i - 1
      BY <1>1
    <3>1. \A i \in Pos(l, "free") : chain[l]["free"][i] \in Nodes(l)
      BY <3>0
    <3> QED BY <1>1, <3>1
  <2> QED BY <2>1 DEF Satellites
<1>8. \A th \in Threads : ThreadInv(th)
  BY <1>2 DEF ThreadInv, AgesOf, NextIsRight, Appending, ValueOf, Looks, Holds
<1>9. ListInv
  BY <1>3, <1>4, <1>5, <1>6, <1>7, <1>8 DEF ListInv
<1>10. PoolTypeOK
  BY <1>0, PoolAssumption DEF PoolTypeOK
<1>11. \A b \in Blocks : Unborn(b) /\ ~Out(b)
  BY <1>0, <1>2 DEF Unborn, Out, Pushing
<1>12. \A th \in Threads : Carried(th) = Raw
  BY <1>2 DEF Carried, Popped
<1>13. \A l \in Lists : \A o : ~Rests(l, o)
  BY <1>1 DEF Rests
<1>14. PoolInv
  <2>1. \A b \in Blocks : b # Raw
    BY PoolAssumption, StaticListAssumption
  <2>2. \A b \in Blocks : OneHome(b)
    BY <1>11, <1>12, <1>13, <2>1 DEF OneHome, Rest
  <2>3. InLines
    BY <1>12, <1>13 DEF InLines
  <2>4. Wanted /\ NoBlockIsDropped
    BY <1>2 DEF Wanted, NoBlockIsDropped
  <2> QED BY <1>10, <2>2, <2>3, <2>4 DEF PoolInv
<1>15. SeqsInv
  <2>1. SeqsUpTo(0)
    <3>1. ASSUME NEW l \in Lists, NEW e \in Ends, NEW i \in Pos(l, e)
          PROVE  TagAt(l, e, i).seq <= 0
      <4>1. e = "free" /\ i \in 1 .. Cap[l] + 1
        BY <1>1, <3>1 DEF Ends
      <4>2. TagAt(l, e, i) = Tag(0, i - 1)
        BY <1>1, <4>1
      <4> QED BY <4>2 DEF Tag
    <3> QED BY <1>2, <3>1 DEF SeqsUpTo
  <2>2. Owned = {} /\ Busy = {} /\ Unbuilt = Blocks
    BY <1>2, <1>11 DEF Owned, Busy, Unbuilt
  <2>3. PICK t \in Nat, g \in Nat, x \in Nat, k \in Nat :
          /\ t = ToCome /\ g = Budget /\ x = Cardinality(Left) /\ k = Cardinality(Threads \X (1 .. MaxOps))
          /\ x <= k
    BY CountedIsFinite, SmallerSet
  <2>4. PICK y \in Nat : y = Cardinality(Blocks)
    BY BlocksFinite
  <2>5. t = x + 0 + 0 + y /\ g = k + y
    BY <2>2, <2>3, <2>4, FS_EmptySet, CountedIsFinite DEF ToCome, Budget
  <2>6. g - t \in Nat /\ 0 <= g - t /\ t <= g
    BY <2>3, <2>5
  <2>7. PICK c \in Nat : c = g - t /\ 0 <= c
    BY <2>6
  <2>8. SeqsUpTo(c)
    BY <1>9, <2>1, <2>7, SeqsMonotone
  <2> QED BY <2>3, <2>6, <2>7, <2>8 DEF SeqsInv, SeqsUpTo
<1> QED BY <1>9, <1>14, <1>15 DEF Inv

(* A step in which nothing changes. *)
LEMMA StutterInv == Inv /\ UNCHANGED vars => Inv'
<1> SUFFICES ASSUME Inv, UNCHANGED vars
             PROVE  Inv'
  OBVIOUS
<1>1. /\ top' = top /\ next' = next /\ sat' = sat /\ loc' = loc /\ chain' = chain
      /\ want' = want /\ owner' = owner /\ allocs' = allocs /\ unbuilt' = unbuilt
  BY DEF vars, listVars, poolVars
<1>2. ListInv'
  <2>1. ListTypeOK'
    BY <1>1 DEF Inv, ListInv, ListTypeOK, Nodes
  <2>2. OnePlace'
    <3>1. ASSUME NEW th \in Threads
          PROVE  HeldApart(th)'
      BY <1>1 DEF Inv, ListInv, OnePlace, HeldApart, Holds, Off, L, Pos, Nodes
    <3>2. \A l \in Lists, e \in Ends, d \in Ends : \A i \in Pos(l, e)', j \in Pos(l, d)' :
            chain'[l][e][i] = chain'[l][d][j] => e = d /\ i = j
      BY <1>1 DEF Inv, ListInv, OnePlace, Pos
    <3> QED BY <3>1, <3>2 DEF OnePlace
  <2>3. Somewhere'
    <3>1. ASSUME NEW l \in Lists
          PROVE  /\ InHand(l)' = InHand(l) /\ Nodes(l)' = Nodes(l)
                 /\ \A e \in Ends : Pos(l, e)' = Pos(l, e)
      BY <1>1 DEF InHand, Pos, Nodes, L
    <3>2. \A th \in Threads : Holds(th)' = Holds(th) /\ L(th)' = L(th) /\ Off(th)' = Off(th)
      BY <1>1 DEF Holds, L, Off
    <3>3. Somewhere
      BY DEF Inv, ListInv
    <3>4. ASSUME NEW l \in Lists, NEW o \in Nodes(l)
          PROVE  \/ \E e \in Ends : \E i \in Pos(l, e)' : chain'[l][e][i] = o
                 \/ \E th \in Threads : Holds(th)' /\ L(th)' = l /\ Off(th)' = o
      <4>1. \/ \E e \in Ends : \E i \in Pos(l, e) : chain[l][e][i] = o
            \/ \E th \in Threads : Holds(th) /\ L(th) = l /\ Off(th) = o
        BY <3>3 DEF Somewhere
      <4>2. ASSUME NEW e \in Ends, NEW i \in Pos(l, e), chain[l][e][i] = o
            PROVE  i \in Pos(l, e)' /\ chain'[l][e][i] = o
        BY <1>1, <3>1, <4>2
      <4>3. ASSUME NEW th \in Threads, Holds(th), L(th) = l, Off(th) = o
            PROVE  Holds(th)' /\ L(th)' = l /\ Off(th)' = o
        BY <3>2, <4>3
      <4> QED BY <4>1, <4>2, <4>3
    <3>5. ASSUME NEW l \in Lists
          PROVE  Len(chain'[l]["free"]) + Len(chain'[l]["head"]) + Cardinality(InHand(l)') = Cap[l]
      BY <1>1, <3>1, <3>3 DEF Somewhere
    <3> QED BY <3>1, <3>4, <3>5 DEF Somewhere
  <2>4. Linked'
    BY <1>1 DEF Inv, ListInv, Linked, Pos, TagAt, EmptyTag, Tag
  <2>5. Satellites'
    BY <1>1 DEF Inv, ListInv, Satellites, Pos
  <2>6. ASSUME NEW th \in Threads
        PROVE  ThreadInv(th)'
    <3>1. AgesOf(th)'
      <4>1. \A l \in Lists, e \in Ends, i \in Nat : Pos(l, e)' = Pos(l, e) /\ TagAt(l, e, i)' = TagAt(l, e, i)
        BY <1>1 DEF Pos, TagAt
      <4>2. /\ \A e \in Ends : AgeInChain(th, e)' = AgeInChain(th, e)
            /\ \A u \in Threads : AgeInHand(th, u)' = AgeInHand(th, u)
        BY <1>1 DEF AgeInChain, AgeInHand
      <4>3. \A u \in Threads : /\ Holds(u)' = Holds(u) /\ Looks(u)' = Looks(u) /\ L(u)' = L(u)
                               /\ Off(u)' = Off(u)
        BY <1>1 DEF Holds, Looks, L, Off
      <4>4. L(th) \in Lists /\ \A e \in Ends : Pos(L(th), e) \subseteq Nat
        BY <1>1, ThreadTypes DEF Inv, ListInv, Pos
      <4>5. AgesOf(th)
        BY <1>1 DEF Inv, ListInv, ThreadInv
      <4> QED BY <1>1, <4>1, <4>2, <4>3, <4>4, <4>5 DEF AgesOf, Nodes
    <3>2. NextIsRight(th)'
      BY <1>1 DEF Inv, ListInv, ThreadInv, NextIsRight, From, L, Pos, TagAt
    <3>3. Appending(th)' /\ ValueOf(th)'
      BY <1>1 DEF Inv, ListInv, ThreadInv, Appending, ValueOf, Holds, L, Off
    <3> QED BY <3>1, <3>2, <3>3 DEF ThreadInv
  <2> QED BY <2>1, <2>2, <2>3, <2>4, <2>5, <2>6 DEF ListInv
<1>3. PoolInv'
  <2>1. \A b : (Unborn(b)' <=> Unborn(b)) /\ (Out(b)' <=> Out(b))
    BY <1>1 DEF Unborn, Out, Pushing
  <2>2. \A u \in Threads : Carried(u)' = Carried(u) /\ L(u)' = L(u)
    BY <1>1 DEF Carried, Popped, L
  <2>3. \A l \in Lists : \A o \in Nodes(l) :
          (Rests(l, o)' <=> Rests(l, o)) /\ (Rests(l, o) => sat'[l][o] = sat[l][o])
    BY <1>1 DEF Rests, Pos
  <2>4. (\A b \in Blocks : OneHome(b)') /\ InLines'
    BY <2>1, <2>2, <2>3, QuietStep DEF Inv
  <2>5. PoolTypeOK' /\ Wanted' /\ NoBlockIsDropped'
    BY <1>1 DEF Inv, PoolInv, PoolTypeOK, Wanted, NoBlockIsDropped, L
  <2> QED BY <2>4, <2>5 DEF PoolInv
<1>4. SeqsInv'
  <2>1. \A b \in Nat : SeqsUpTo(b) => SeqsUpTo(b)'
    BY <1>1 DEF SeqsUpTo, TagAt, Pos, Holds
  <2>2. Left' = Left /\ Owned' = Owned /\ Busy' = Busy /\ Unbuilt' = Unbuilt
    BY <1>1 DEF Left, Owned, Busy, Unbuilt, Out, Unborn, Pushing
  <2>3. PICK n \in Nat : n = ToCome' /\ n <= ToCome
    BY <2>2, NothingMoreToCome
  <2> QED BY <2>1, <2>3, SeqsFollow DEF Inv
<1> QED BY <1>2, <1>3, <1>4 DEF Inv

(* Every step of the pool preserves the invariant. *)
LEMMA NextInv == NoWrap /\ Inv /\ [PoolNext]_vars => Inv'
<1> SUFFICES ASSUME NoWrap, Inv, [PoolNext]_vars
             PROVE  Inv'
  OBVIOUS
<1>1. CASE UNCHANGED vars
  BY <1>1, StutterInv
<1>2. CASE PoolNext
  <2>1. PICK th \in Threads : Construct(th) \/ Allocate(th) \/ Deallocate(th) \/ PoolStep(th)
    BY <1>2 DEF PoolNext
  <2>2. CASE ListStep(th) /\ UNCHANGED poolVars
    BY <2>2, ListStepInv
  <2> QED BY <2>1, <2>2, CallInv DEF PoolStep
<1> QED BY <1>1, <1>2

(* The inductive invariant: no node is lost or in two places, the tags that a thread has read
   are out of date when its node has been away, and no block is lost or in two places. *)
THEOREM InvHolds == NoWrap => (PoolSpec => []Inv)
<1> SUFFICES ASSUME NoWrap
             PROVE  PoolSpec => []Inv
  OBVIOUS
<1>1. Inv /\ [PoolNext]_vars => Inv'
  BY NextInv
<1> QED BY InitInv, <1>1, PTL DEF PoolSpec

-----------------------------------------------------------------------------
(* What the runs check, for every pool *)

(* The invariant implies that the chains are those of the next fields. *)
LEMMA InvLinked == NoWrap /\ Inv => ChainsLinked
<1> SUFFICES ASSUME NoWrap, Inv, NEW l \in Lists, NEW e \in Ends
             PROVE  /\ \A i \in 1 .. Len(chain[l][e]) :
                         TagAt(l, e, i) \in [seq : 0 .. SeqMod - 1, offset : {chain[l][e][i]}]
                    /\ TagAt(l, e, Len(chain[l][e]) + 1) = EmptyTag(l)
  BY DEF ChainsLinked, Ends
<1>0. ListInv /\ SeqsInv
  BY DEF Inv
<1>1. PICK b \in Nat : b = Budget - ToCome /\ b < SeqMod
  <2>1. PICK g \in Nat, t \in Nat : g = Budget /\ t = ToCome /\ t <= g /\ g < SeqMod
    BY <1>0, CountedIsFinite DEF SeqsInv, NoWrap
  <2>2. g - t \in Nat /\ g - t < SeqMod
    BY <2>1, StaticListAssumption
  <2> QED BY <2>1, <2>2
<1>2. SeqsUpTo(b)
  BY <1>0, <1>1 DEF SeqsInv, SeqsUpTo
<1>3. ASSUME NEW i \in 1 .. Len(chain[l][e])
      PROVE  TagAt(l, e, i) \in [seq : 0 .. SeqMod - 1, offset : {chain[l][e][i]}]
  <2>1. i \in Pos(l, e) /\ i \in 1 .. Len(chain[l][e]) + 1
    BY <1>0, ChainTypes DEF Pos, ListInv
  <2>2. PICK t \in Tags : t = TagAt(l, e, i)
    BY <1>0, <2>1, ChainTypes DEF ListInv
  <2>3. t.offset = chain[l][e][i] /\ t.seq <= b /\ t.seq \in Nat
    BY <1>0, <1>2, <2>1, <2>2 DEF ListInv, Linked, SeqsUpTo, Tags
  <2>4. t.seq \in 0 .. SeqMod - 1
    BY <1>1, <2>3, StaticListAssumption
  <2> QED BY <2>2, <2>3, <2>4 DEF Tags
<1>4. TagAt(l, e, Len(chain[l][e]) + 1) = EmptyTag(l)
  BY <1>0 DEF ListInv, Linked
<1> QED BY <1>3, <1>4

(* The invariant implies that each node is in one place. *)
LEMMA InvAccounted == Inv => NodesAccounted
<1> SUFFICES ASSUME Inv, NEW l \in Lists
             PROVE  LET free == {chain[l].free[i] : i \in DOMAIN chain[l].free}
                        used == {chain[l].head[i] : i \in DOMAIN chain[l].head}
                        held == {loc[th].node.offset : th \in InHand(l)} IN
                    /\ free \cup used \cup held = Nodes(l)
                    /\ Len(chain[l].free) + Len(chain[l].head) + Cardinality(InHand(l)) = Cap[l]
                    /\ \A th \in InHand(l) :
                         sat[l][loc[th].node.offset] # Raw <=> (loc[th].op = "push" <=> loc[th].pc # "hold")
  BY DEF NodesAccounted
<1> DEFINE free == {chain[l].free[i] : i \in DOMAIN chain[l].free}
           used == {chain[l].head[i] : i \in DOMAIN chain[l].head}
           held == {loc[th].node.offset : th \in InHand(l)}
<1>0. ListInv
  BY DEF Inv
<1>1. /\ DOMAIN chain[l]["free"] = Pos(l, "free") /\ DOMAIN chain[l]["head"] = Pos(l, "head")
      /\ \A i \in Pos(l, "free") : chain[l]["free"][i] \in Nodes(l)
      /\ \A i \in Pos(l, "head") : chain[l]["head"][i] \in Nodes(l)
  BY <1>0, ChainTypes DEF ListInv, Ends, Pos
<1>2. ASSUME NEW th \in InHand(l)
      PROVE  th \in Threads /\ Holds(th) /\ L(th) = l /\ Off(th) \in Nodes(l)
  BY <1>0 DEF ListInv, OnePlace, HeldApart, InHand, Holds
<1>3. ASSUME NEW o \in Nodes(l)
      PROVE  o \in free \cup used \cup held
  <2>1. \/ \E e \in Ends : \E i \in Pos(l, e) : chain[l][e][i] = o
        \/ \E th \in Threads : Holds(th) /\ L(th) = l /\ Off(th) = o
    BY <1>0 DEF ListInv, Somewhere
  <2>2. CASE \E e \in Ends : \E i \in Pos(l, e) : chain[l][e][i] = o
    BY <1>1, <2>2 DEF Ends
  <2>3. CASE \E th \in Threads : Holds(th) /\ L(th) = l /\ Off(th) = o
    BY <2>3 DEF InHand, Holds, Off
  <2> QED BY <2>1, <2>2, <2>3
<1>4. free \cup used \cup held = Nodes(l)
  BY <1>1, <1>2, <1>3 DEF Off
<1>5. Len(chain[l].free) + Len(chain[l].head) + Cardinality(InHand(l)) = Cap[l]
  BY <1>0 DEF ListInv, Somewhere
<1>6. ASSUME NEW th \in InHand(l)
      PROVE  sat[l][loc[th].node.offset] # Raw <=> (loc[th].op = "push" <=> loc[th].pc # "hold")
  <2>1. ValueOf(th) /\ (loc[th].op = "push" \/ loc[th].op = "pop")
    BY <1>0, <1>2, ThreadTypes DEF ListInv, ThreadInv, Locals
  <2>2. loc[th].op = "push" =>
          /\ loc[th].val \in Values
          /\ sat[l][Off(th)] = IF loc[th].pc = "hold" THEN Raw ELSE loc[th].val
    BY <1>2, <2>1 DEF ValueOf, Holds
  <2>3. loc[th].op = "pop" => IF loc[th].pc = "hold" THEN sat[l][Off(th)] \in Values
                                 ELSE sat[l][Off(th)] = Raw
    BY <1>2, <2>1 DEF ValueOf
  <2> QED BY <2>1, <2>2, <2>3, StaticListAssumption DEF Off
<1> QED BY <1>4, <1>5, <1>6

(* The first line has the most blocks. *)
LEMMA FirstLineIsLongest ==
  ASSUME NEW l \in Lists
  PROVE  Nodes(l) \subseteq 0 .. Cap[0] - 1
<1>1. l \in Lines /\ 0 \in Lines /\ 0 <= l
  BY PoolAssumption DEF Lines
<1>2. PICK s \in Nat \ {0}, c \in Nat \ {0}, t \in Nat \ {0}, d \in Nat \ {0} :
        /\ s = BlockSize(0) /\ c = Cap[0] /\ t = BlockSize(l) /\ d = Cap[l]
        /\ s * c = t * d /\ s <= t
  BY <1>1, LineShapes
<1>3. d <= c
  <2>1. SUFFICES ASSUME d >= c + 1 PROVE FALSE
    BY <1>2
  <2>2. t * d >= s * d
    BY <1>2
  <2>3. s * d >= s * (c + 1)
    BY <1>2, <2>1
  <2>4. s * (c + 1) = s * c + s
    BY <1>2
  <2> QED BY <1>2, <2>2, <2>3, <2>4
<1> QED BY <1>2, <1>3 DEF Nodes

(* The invariant implies that each block is in one place. *)
LEMMA InvBlocks == Inv => BlocksAccounted
<1> SUFFICES ASSUME Inv
             PROVE  BlocksAccounted
  OBVIOUS
<1>0. ListInv /\ PoolInv
  BY DEF Inv
<1>1. ASSUME NEW b \in Blocks, NEW place
      PROVE  place \in Resting(b) <=>
               /\ place \in Lists \X (0 .. Cap[0] - 1)
               /\ place[2] \in Nodes(place[1]) /\ Rest(b, place[1], place[2])
  <2>1. ASSUME NEW l \in Lists
        PROVE  DOMAIN chain[l]["head"] = Pos(l, "head")
               /\ \A i \in Pos(l, "head") : chain[l]["head"][i] \in Nodes(l)
    BY <1>0, ChainTypes DEF ListInv, Ends, Pos
  <2>2. place \in Resting(b) <=>
          /\ place \in Lists \X (0 .. Cap[0] - 1)
          /\ \E i \in DOMAIN chain[place[1]]["head"] :
               chain[place[1]]["head"][i] = place[2] /\ sat[place[1]][place[2]] = b
    BY DEF Resting
  <2>3. place \in Lists \X (0 .. Cap[0] - 1) => place[1] \in Lists
    OBVIOUS
  <2> QED BY <2>1, <2>2, <2>3 DEF Rest, Rests
<1>2. ASSUME NEW b \in Blocks, NEW th \in Threads
      PROVE  th \in Moving(b) <=> Carried(th) = b
  <2>1. ValueOf(th) /\ loc[th].op \in {"push", "pop"} /\ b # Raw
    BY <1>0, ThreadTypes, PoolAssumption, StaticListAssumption DEF ListInv, ThreadInv, Locals
  <2>2. th \in Moving(b) <=>
          \/ loc[th].op = "push" /\ ~loc[th].ok /\ loc[th].pc # "done" /\ loc[th].val = b
          \/ loc[th].op = "pop" /\ loc[th].pc = "hold" /\ sat[L(th)][loc[th].node.offset] = b
          \/ loc[th].op = "pop" /\ loc[th].pc # "idle" /\ loc[th].val = b
    BY DEF Moving
  <2>3. CASE loc[th].op = "push"
    BY <2>1, <2>2, <2>3 DEF ValueOf, Carried
  <2>4. CASE loc[th].op = "pop" /\ loc[th].pc = "hold"
    BY <2>1, <2>2, <2>4 DEF ValueOf, Carried, Popped, Holds
  <2>5. CASE loc[th].op = "pop" /\ loc[th].pc # "hold"
    <3>1. loc[th].pc = "idle" => loc[th].val = Raw
      BY <2>1, <2>5 DEF ValueOf, Holds
    <3> QED BY <2>1, <2>2, <2>5, <3>1 DEF Carried, Popped
  <2> QED BY <2>1, <2>3, <2>4, <2>5
<1>3. ASSUME NEW b \in Blocks, b \notin unbuilt
      PROVE  Cardinality(Resting(b)) + Cardinality(Moving(b)) + (IF owner[b] = "pool" THEN 0 ELSE 1) = 1
  <2>0. OneHome(b) /\ ~Unborn(b) /\ Moving(b) \subseteq Threads
    BY <1>0, <1>3 DEF PoolInv, Unborn, Moving
  <2>1. CASE Out(b)
    <3>1. Resting(b) = {} /\ Moving(b) = {}
      BY <1>1, <1>2, <2>0, <2>1 DEF OneHome
    <3>2. Cardinality(Resting(b)) = 0 /\ Cardinality(Moving(b)) = 0
      BY <3>1, FS_EmptySet
    <3> QED BY <2>1, <3>2 DEF Out
  <2>2. ASSUME ~Out(b), NEW l \in Lists, NEW o \in Nodes(l), Rest(b, l, o)
        PROVE  Cardinality(Resting(b)) + Cardinality(Moving(b)) + (IF owner[b] = "pool" THEN 0 ELSE 1) = 1
    <3>1. Moving(b) = {}
      BY <1>2, <2>0, <2>2 DEF OneHome
    <3>2. PICK p : p = <<l, o>>
      OBVIOUS
    <3>3. p \in Lists \X (0 .. Cap[0] - 1) /\ p[1] = l /\ p[2] = o
      BY <3>2, FirstLineIsLongest
    <3>4. p \in Resting(b)
      BY <1>1, <2>2, <3>3
    <3>5. ASSUME NEW q \in Resting(b)
          PROVE  q = p
      <4>1. /\ q \in Lists \X (0 .. Cap[0] - 1)
            /\ q[2] \in Nodes(q[1]) /\ Rest(b, q[1], q[2])
        BY <1>1
      <4>2. q[1] = l /\ q[2] = o
        BY <2>0, <2>2, <4>1 DEF OneHome
      <4> QED BY <3>2, <4>1, <4>2
    <3>6. Resting(b) = {p}
      BY <3>4, <3>5
    <3>7. Cardinality(Resting(b)) = 1 /\ Cardinality(Moving(b)) = 0
      BY <3>1, <3>6, FS_EmptySet, FS_Singleton
    <3> QED BY <2>2, <3>7 DEF Out
  <2>3. ASSUME ~Out(b), NEW th \in Threads, Carried(th) = b
        PROVE  Cardinality(Resting(b)) + Cardinality(Moving(b)) + (IF owner[b] = "pool" THEN 0 ELSE 1) = 1
    <3>1. ASSUME NEW q \in Resting(b)
          PROVE  FALSE
      <4>1. q[1] \in Lists /\ q[2] \in Nodes(q[1]) /\ Rest(b, q[1], q[2])
        BY <1>1
      <4> QED BY <2>0, <2>3, <4>1 DEF OneHome
    <3>2. Resting(b) = {}
      BY <3>1
    <3>3. Moving(b) = {th}
      BY <1>2, <2>0, <2>3 DEF OneHome
    <3>4. Cardinality(Resting(b)) = 0 /\ Cardinality(Moving(b)) = 1
      BY <3>2, <3>3, FS_EmptySet, FS_Singleton
    <3> QED BY <2>3, <3>4 DEF Out
  <2> QED BY <2>0, <2>1, <2>2, <2>3 DEF OneHome
<1>4. ASSUME NEW b \in Blocks, NEW place \in Resting(b)
      PROVE  b \in LineStart[place[1]] .. LineStart[place[1] + 1] - 1
  <2>1. place[1] \in Lists /\ place[2] \in Nodes(place[1]) /\ Rest(b, place[1], place[2])
    BY <1>1
  <2>2. InLine(b, place[1])
    BY <1>0, <2>1 DEF PoolInv, InLines, Rest
  <2> QED BY <2>2 DEF InLine
<1>5. ASSUME NEW th \in Threads, loc[th].op = "pop", loc[th].pc = "done", loc[th].ok
      PROVE  want[th] <= BlockSize(CalcLine(loc[th].val))
  <2>1. ValueOf(th) /\ L(th) \in Lines
    BY <1>0, ThreadTypes, PoolAssumption DEF ListInv, ThreadInv
  <2>2. Carried(th) = loc[th].val /\ Carried(th) # Raw
    BY <1>5, <2>1 DEF ValueOf, Holds, Carried, Popped
  <2>3. InLine(loc[th].val, L(th))
    BY <1>0, <2>2 DEF PoolInv, InLines
  <2>4. L(th) = CalcLine(loc[th].val)
    BY <2>1, <2>3, LineOfBlock DEF InLine
  <2>5. want[th] <= BlockSize(L(th))
    BY <1>0, <1>5 DEF PoolInv, Wanted
  <2> QED BY <2>4, <2>5
<1> QED BY <1>3, <1>4, <1>5 DEF BlocksAccounted

(* static_list: every head and every next leads to the node that the operations in order
   left there, whatever the threads read on the way. *)
THEOREM ListsStayLinked == NoWrap => (PoolSpec => []ChainsLinked)
<1> SUFFICES ASSUME NoWrap
             PROVE  PoolSpec => []ChainsLinked
  OBVIOUS
<1>1. Inv => ChainsLinked
  BY InvLinked
<1> QED BY InvHolds, <1>1, PTL

(* static_list: every node is in head_, in free_ or in the hands of one thread, and carries a
   value exactly when it should. *)
THEOREM NoNodeIsLost == NoWrap => (PoolSpec => []NodesAccounted)
<1> SUFFICES ASSUME NoWrap
             PROVE  PoolSpec => []NodesAccounted
  OBVIOUS
<1> QED BY InvHolds, InvAccounted, PTL

(* static_mem_pool: every block is in the list of its own line, with a caller, or on its way
   between the two, and allocate answers with a block that is large enough. *)
THEOREM NoBlockIsLost == NoWrap => (PoolSpec => []BlocksAccounted)
<1> SUFFICES ASSUME NoWrap
             PROVE  PoolSpec => []BlocksAccounted
  OBVIOUS
<1> QED BY InvHolds, InvBlocks, PTL

(* static_mem_pool: deallocate and the constructor may ignore the result of emplace. *)
THEOREM PushesSucceed == NoWrap => (PoolSpec => []NoBlockIsDropped)
<1> SUFFICES ASSUME NoWrap
             PROVE  PoolSpec => []NoBlockIsDropped
  OBVIOUS
<1>1. Inv => NoBlockIsDropped
  BY DEF Inv, PoolInv
<1> QED BY InvHolds, <1>1, PTL

-----------------------------------------------------------------------------
(* The lists as stacks *)

Stack(l) == [i \in DOMAIN chain[l].head |-> sat[l][chain[l].head[i]]]
AbsStack == [l \in Lists |-> Stack(l)]
AbsPopped == [th \in Threads |-> Popped(th)]

(* The stack of a list is as long as its chain. *)
LEMMA StackTypes ==
  ASSUME ListInv, NEW l \in Lists
  PROVE  /\ Stack(l) \in Seq(Values) /\ Len(Stack(l)) = Len(chain[l]["head"])
         /\ Len(Stack(l)) \in Nat
         /\ \A i \in Pos(l, "head") : Stack(l)[i] = sat[l][chain[l]["head"][i]]
<1>1. PICK n \in Nat : n = Len(chain[l]["head"]) /\ DOMAIN chain[l]["head"] = 1 .. n
                       /\ Pos(l, "head") = 1 .. n
  BY ChainTypes DEF ListInv, Ends, Pos
<1>2. \A i \in 1 .. n : sat[l][chain[l]["head"][i]] \in Values
  BY <1>1 DEF ListInv, Satellites
<1>3. PICK f : f = [i \in 1 .. n |-> sat[l][chain[l]["head"][i]]]
  OBVIOUS
<1>4. f \in Seq(Values) /\ Len(f) = n /\ \A i \in 1 .. n : f[i] = sat[l][chain[l]["head"][i]]
  BY <1>2, <1>3
<1>5. Stack(l) = f
  BY <1>1, <1>3 DEF Stack
<1> QED BY <1>1, <1>4, <1>5

(* StackTypes, after a step. *)
LEMMA StackTypesNext ==
  ASSUME ListInv', NEW l \in Lists
  PROVE  /\ Stack(l)' \in Seq(Values) /\ Len(Stack(l)') = Len(chain'[l]["head"])
         /\ Len(Stack(l)') \in Nat
         /\ \A i \in Pos(l, "head")' : Stack(l)'[i] = sat'[l][chain'[l]["head"][i]]
<1>1. PICK n \in Nat : /\ n = Len(chain'[l]["head"]) /\ DOMAIN chain'[l]["head"] = 1 .. n
                       /\ Pos(l, "head")' = 1 .. n
  <2>1. chain'[l] \in [Ends -> Seq(Nodes(l)')] /\ "head" \in Ends
    BY DEF ListInv, ListTypeOK, Ends
  <2>2. chain'[l]["head"] \in Seq(Nodes(l)')
    BY <2>1
  <2> QED BY <2>2 DEF Pos
<1>2. \A i \in 1 .. n : sat'[l][chain'[l]["head"][i]] \in Values
  BY <1>1 DEF ListInv, Satellites
<1>3. PICK f : f = [i \in 1 .. n |-> sat'[l][chain'[l]["head"][i]]]
  OBVIOUS
<1>4. f \in Seq(Values) /\ Len(f) = n /\ \A i \in 1 .. n : f[i] = sat'[l][chain'[l]["head"][i]]
  BY <1>2, <1>3
<1>5. Stack(l)' = f
  BY <1>1, <1>3 DEF Stack
<1> QED BY <1>1, <1>4, <1>5

(* Sequences with the same elements are the same. *)
LEMMA SameSeq ==
  ASSUME NEW S, NEW s \in Seq(S), NEW t \in Seq(S), Len(s) = Len(t), \A i \in 1 .. Len(s) : s[i] = t[i]
  PROVE  s = t
OBVIOUS

(* The parts of a sequence that is not empty. *)
LEMMA HeadAndTail ==
  ASSUME NEW S, NEW s \in Seq(S), s # <<>>
  PROVE  /\ Head(s) = s[1] /\ Tail(s) \in Seq(S) /\ Len(Tail(s)) = Len(s) - 1
         /\ Len(s) \in Nat \ {0}
         /\ \A i \in 1 .. Len(s) - 1 : Tail(s)[i] = s[i + 1]
OBVIOUS

(* A sequence with one more element in front. *)
LEMMA Prefixed ==
  ASSUME NEW S, NEW s \in Seq(S), NEW v \in S
  PROVE  /\ <<v>> \o s \in Seq(S) /\ Len(<<v>> \o s) = Len(s) + 1 /\ (<<v>> \o s)[1] = v
         /\ Len(s) \in Nat
         /\ \A i \in 2 .. Len(s) + 1 : (<<v>> \o s)[i] = s[i - 1]
<1>1. <<v>> \in Seq(S) /\ Len(<<v>>) = 1
  OBVIOUS
<1> QED BY <1>1

(* A step that leaves the values where they are and pops none. *)
LEMMA QuietStack ==
  ASSUME ListInv, ListInv',
         \A l \in Lists : chain'[l]["head"] = chain[l]["head"],
         \A l \in Lists : \A o \in Nodes(l) : Rests(l, o) => sat'[l][o] = sat[l][o],
         \A th \in Threads : Popped(th)' = Popped(th)
  PROVE  AbsStack' = AbsStack /\ AbsPopped' = AbsPopped
<1>1. ASSUME NEW l \in Lists
      PROVE  Stack(l)' = Stack(l)
  <2>1. DOMAIN chain[l]["head"] = Pos(l, "head")
        /\ \A i \in Pos(l, "head") : chain[l]["head"][i] \in Nodes(l)
    BY ChainTypes DEF ListInv, Ends, Pos
  <2>2. \A i \in Pos(l, "head") : sat'[l][chain[l]["head"][i]] = sat[l][chain[l]["head"][i]]
    BY <2>1 DEF Rests
  <2> QED BY <2>1, <2>2 DEF Stack
<1>2. AbsStack' = AbsStack
  BY <1>1 DEF AbsStack
<1>3. AbsPopped' = AbsPopped
  BY DEF AbsPopped
<1> QED BY <1>2, <1>3

(* What a thread has popped is what it carries. *)
LEMMA PoppedIsCarried ==
  ASSUME NEW th \in Threads
  PROVE  Popped(th) = IF loc[th].op = "push" THEN Raw ELSE Carried(th)
BY DEF Popped, Carried

(* The CAS of a pop takes the value on top. *)
LEMMA PopIsPop ==
  ASSUME ListInv, ListInv', NEW th \in Threads, PopNode(th), loc[th].op = "pop"
  PROVE  \E l \in Lists : Stacks!Pop(l, th)
<1>0. PICK m \in Lists : m = L(th) /\ From(th) = "head"
  BY ThreadTypes DEF ListInv
<1>1. PICK h \in Nodes(m) : /\ h = loc[th].h.offset /\ h = chain[m]["head"][1]
                            /\ 1 \in Pos(m, "head")
  BY <1>0, FirstRests, PopShifts DEF Ends
<1>2. /\ UNCHANGED sat
      /\ \A l \in Lists :
           /\ Len(chain'[l]["head"]) \in Nat
           /\ Len(chain'[l]["head"]) = IF l = m THEN Len(chain[l]["head"]) - 1 ELSE Len(chain[l]["head"])
           /\ \A i \in Pos(l, "head")' :
                /\ i \in Nat /\ After(m, "head", l, "head", i) \in Pos(l, "head")
                /\ chain'[l]["head"][i] = chain[l]["head"][After(m, "head", l, "head", i)]
  BY <1>0, PopShifts DEF Ends
<1>3. \A l \in Lists :
        /\ Stack(l) \in Seq(Values) /\ Len(Stack(l)) = Len(chain[l]["head"])
        /\ \A i \in Pos(l, "head") : Stack(l)[i] = sat[l][chain[l]["head"][i]]
  BY StackTypes
<1>4. \A l \in Lists :
        /\ Stack(l)' \in Seq(Values) /\ Len(Stack(l)') = Len(chain'[l]["head"])
        /\ \A i \in Pos(l, "head")' : Stack(l)'[i] = sat'[l][chain'[l]["head"][i]]
  BY StackTypesNext
<1>5. Stack(m) # <<>> /\ Head(Stack(m)) = sat[m][h] /\ Stack(m)' = Tail(Stack(m))
  <2>1. PICK s \in Seq(Values), t \in Seq(Values) : s = Stack(m) /\ t = Stack(m)'
    BY <1>3, <1>4
  <2>2. PICK n \in Nat : n = Len(s) /\ Pos(m, "head") = 1 .. n /\ n >= 1
    BY <1>1, <1>3, <2>1 DEF Pos
  <2>3. s # <<>> /\ s[1] = sat[m][h]
    BY <1>1, <1>3, <2>1, <2>2
  <2>4. Len(t) = n - 1 /\ Pos(m, "head")' = 1 .. n - 1
    BY <1>2, <1>3, <1>4, <2>1, <2>2 DEF Pos
  <2>5. ASSUME NEW i \in 1 .. n - 1
        PROVE  t[i] = s[i + 1]
    <3>1. i \in Pos(m, "head")' /\ After(m, "head", m, "head", i) = i + 1
      BY <2>4 DEF After
    <3>2. i + 1 \in Pos(m, "head") /\ chain'[m]["head"][i] = chain[m]["head"][i + 1]
      BY <1>2, <3>1
    <3>3. t[i] = sat'[m][chain'[m]["head"][i]]
      BY <1>4, <2>1, <3>1
    <3>4. s[i + 1] = sat[m][chain[m]["head"][i + 1]]
      BY <1>3, <2>1, <3>2
    <3> QED BY <1>2, <3>2, <3>3, <3>4
  <2>6. t = Tail(s) /\ Head(s) = s[1]
    <3>1. /\ Head(s) = s[1] /\ Tail(s) \in Seq(Values) /\ Len(Tail(s)) = n - 1
          /\ \A i \in 1 .. n - 1 : Tail(s)[i] = s[i + 1]
      BY <2>2, <2>3, HeadAndTail
    <3> QED BY <2>4, <2>5, <3>1, SameSeq
  <2> QED BY <2>1, <2>3, <2>6
<1>6. \A l \in Lists : l # m => Stack(l)' = Stack(l)
  <2>1. ASSUME NEW l \in Lists, l # m
        PROVE  Stack(l)' = Stack(l)
    <3>1. Pos(l, "head")' = Pos(l, "head") /\ Pos(l, "head") = 1 .. Len(Stack(l))
      BY <1>2, <1>3, <2>1 DEF Pos
    <3>2. PICK s \in Seq(Values), t \in Seq(Values) :
            s = Stack(l) /\ t = Stack(l)' /\ Len(s) = Len(t) /\ Pos(l, "head") = 1 .. Len(s)
      <4>1. Len(chain'[l]["head"]) = Len(chain[l]["head"])
        BY <1>2, <2>1
      <4>2. Stack(l) \in Seq(Values) /\ Stack(l)' \in Seq(Values) /\ Len(Stack(l)) = Len(Stack(l)')
        BY <1>3, <1>4, <4>1
      <4> QED BY <3>1, <4>2
    <3>3. ASSUME NEW i \in 1 .. Len(s)
          PROVE  s[i] = t[i]
      <4>1. i \in Pos(l, "head") /\ i \in Pos(l, "head")' /\ After(m, "head", l, "head", i) = i
        BY <2>1, <3>1, <3>2 DEF After
      <4>2. chain'[l]["head"][i] = chain[l]["head"][i]
        BY <1>2, <4>1
      <4>3. t[i] = sat'[l][chain'[l]["head"][i]] /\ s[i] = sat[l][chain[l]["head"][i]]
        BY <1>3, <1>4, <3>2, <4>1
      <4> QED BY <1>2, <4>2, <4>3
    <3> QED BY <3>2, <3>3, SameSeq
  <2> QED BY <2>1
<1>7. Popped(th) = Raw /\ Popped(th)' = sat[m][h]
  <2>1. ValueOf(th) /\ loc[th].pc = "cas"
    BY DEF ListInv, ThreadInv, PopNode
  <2>2. loc'[th].pc = "hold" /\ loc'[th].op = "pop" /\ loc'[th].node = loc[th].h /\ loc'[th].list = m
    BY <1>0, PopLocals
  <2> QED BY <1>1, <1>2, <2>1, <2>2 DEF ValueOf, Holds, Popped, L
<1>8. \A u \in Threads \ {th} : Popped(u)' = Popped(u)
  <2>1. \A u \in Threads \ {th} : Carried(u)' = Carried(u) /\ loc'[u] = loc[u]
    BY OthersCarry, StepLocals DEF ListStep
  <2> QED BY <2>1 DEF Popped, Carried
<1>9. AbsStack' = [AbsStack EXCEPT ![m] = Tail(@)]
  BY <1>5, <1>6 DEF AbsStack
<1>10. AbsPopped' = [AbsPopped EXCEPT ![th] = Head(AbsStack[m])]
  BY <1>5, <1>7, <1>8 DEF AbsPopped, AbsStack
<1>11. AbsStack[m] # <<>> /\ AbsPopped[th] = Raw
  BY <1>5, <1>7 DEF AbsStack, AbsPopped
<1>12. Stacks!Pop(m, th)
  BY <1>9, <1>10, <1>11 DEF Stacks!Pop, AbsStack, AbsPopped, Stack
<1> QED BY <1>12

(* Arithmetic: a sum with another term that is not zero. *)
LEMMA PartIsLess ==
  ASSUME NEW x \in Nat, NEW y \in Nat, NEW z \in Nat, NEW c \in Nat, x + y + z = c, z # 0
  PROVE  y < c
OBVIOUS

(* The CAS of a push puts its value on top, and there is room for it. *)
LEMMA PushIsPush ==
  ASSUME ListInv, ListInv', NEW th \in Threads, AppendNode(th), loc[th].op = "push"
  PROVE  \E l \in Lists, v \in Values : Stacks!Push(l, v)
<1>0. PICK m \in Lists : m = L(th) /\ To(th) = "head"
  BY ThreadTypes DEF ListInv
<1>1. /\ UNCHANGED sat /\ 1 \in Pos(m, "head")' /\ chain'[m]["head"][1] = Off(th)
      /\ \A l \in Lists :
           /\ Len(chain[l]["head"]) \in Nat /\ Len(chain'[l]["head"]) \in Nat
           /\ Len(chain'[l]["head"]) = IF l = m THEN Len(chain[l]["head"]) + 1 ELSE Len(chain[l]["head"])
           /\ \A i \in Pos(l, "head")' : ~IsNew(m, "head", l, "head", i) =>
                /\ Before(m, "head", l, "head", i) \in Pos(l, "head")
                /\ chain'[l]["head"][i] = chain[l]["head"][Before(m, "head", l, "head", i)]
  BY <1>0, AppendShifts DEF Ends, Off
<1>2. PICK v \in Values : v = loc[th].val /\ sat[m][Off(th)] = v
  <2>1. ValueOf(th) /\ loc[th].pc = "link_cas"
    BY DEF ListInv, ThreadInv, AppendNode
  <2> QED BY <1>0, <2>1 DEF ValueOf, Holds
<1>3. \A l \in Lists :
        /\ Stack(l) \in Seq(Values) /\ Len(Stack(l)) = Len(chain[l]["head"])
        /\ \A i \in Pos(l, "head") : Stack(l)[i] = sat[l][chain[l]["head"][i]]
  BY StackTypes
<1>4. \A l \in Lists :
        /\ Stack(l)' \in Seq(Values) /\ Len(Stack(l)') = Len(chain'[l]["head"])
        /\ \A i \in Pos(l, "head")' : Stack(l)'[i] = sat'[l][chain'[l]["head"][i]]
  BY StackTypesNext
<1>5. Stack(m)' = <<v>> \o Stack(m)
  <2>1. PICK s \in Seq(Values), t \in Seq(Values) : s = Stack(m) /\ t = Stack(m)'
    BY <1>3, <1>4
  <2>2. PICK n \in Nat : n = Len(s) /\ Len(t) = n + 1 /\ Pos(m, "head")' = 1 .. n + 1
    BY <1>1, <1>3, <1>4, <2>1 DEF Pos
  <2>3. t[1] = v
    BY <1>1, <1>2, <1>4, <2>1
  <2>4. ASSUME NEW i \in 2 .. n + 1
        PROVE  t[i] = s[i - 1]
    <3>1. /\ i \in Pos(m, "head")' /\ ~IsNew(m, "head", m, "head", i)
          /\ Before(m, "head", m, "head", i) = i - 1
      BY <2>2 DEF Before, IsNew
    <3>2. i - 1 \in Pos(m, "head") /\ chain'[m]["head"][i] = chain[m]["head"][i - 1]
      BY <1>1, <3>1
    <3>3. t[i] = sat'[m][chain'[m]["head"][i]]
      BY <1>4, <2>1, <3>1
    <3>4. s[i - 1] = sat[m][chain[m]["head"][i - 1]]
      BY <1>3, <2>1, <3>2
    <3> QED BY <1>1, <3>2, <3>3, <3>4
  <2>5. PICK p : p = <<v>> \o s
    OBVIOUS
  <2>p. p \in Seq(Values) /\ Len(p) = n + 1 /\ p[1] = v /\ \A i \in 2 .. n + 1 : p[i] = s[i - 1]
    BY <2>2, <2>5, Prefixed
  <2>6. \A i \in 1 .. n + 1 : t[i] = p[i]
    <3>1. \A i \in 1 .. n + 1 : i = 1 \/ i \in 2 .. n + 1
      OBVIOUS
    <3> QED BY <2>3, <2>4, <2>p, <3>1
  <2>7. t = p
    BY <2>2, <2>p, <2>6, SameSeq
  <2> QED BY <2>1, <2>5, <2>7
<1>6. \A l \in Lists : l # m => Stack(l)' = Stack(l)
  <2>1. ASSUME NEW l \in Lists, l # m
        PROVE  Stack(l)' = Stack(l)
    <3>1. Pos(l, "head")' = Pos(l, "head")
      BY <1>1, <2>1 DEF Pos
    <3>2. PICK s \in Seq(Values), t \in Seq(Values) :
            s = Stack(l) /\ t = Stack(l)' /\ Len(s) = Len(t) /\ Pos(l, "head") = 1 .. Len(s)
      BY <1>1, <1>3, <1>4, <2>1, <3>1 DEF Pos
    <3>3. ASSUME NEW i \in 1 .. Len(s)
          PROVE  s[i] = t[i]
      <4>1. /\ i \in Pos(l, "head") /\ i \in Pos(l, "head")' /\ ~IsNew(m, "head", l, "head", i)
            /\ Before(m, "head", l, "head", i) = i
        BY <2>1, <3>1, <3>2 DEF Before, IsNew
      <4>2. chain'[l]["head"][i] = chain[l]["head"][i]
        BY <1>1, <4>1
      <4>3. t[i] = sat'[l][chain'[l]["head"][i]] /\ s[i] = sat[l][chain[l]["head"][i]]
        BY <1>3, <1>4, <3>2, <4>1
      <4> QED BY <1>1, <4>2, <4>3
    <3> QED BY <3>2, <3>3, SameSeq
  <2> QED BY <2>1
<1>7. \A u \in Threads : Popped(u)' = Popped(u)
  <2>1. \A u \in Threads \ {th} : Carried(u)' = Carried(u) /\ loc'[u] = loc[u]
    BY OthersCarry, StepLocals DEF ListStep
  <2>2. loc[th].op = "push" /\ loc'[th].op = "push"
    BY <1>0, AppendLocals
  <2> QED BY <2>1, <2>2 DEF Popped, Carried
<1>8. Len(Stack(m)) < Cap[m]
  <2>1. Len(chain[m]["free"]) + Len(chain[m]["head"]) + Cardinality(InHand(m)) = Cap[m]
    BY DEF ListInv, Somewhere
  <2>2. th \in InHand(m) /\ InHand(m) \in SUBSET Threads
    BY <1>0 DEF InHand, AppendNode
  <2>3. IsFiniteSet(InHand(m)) /\ Cardinality(InHand(m)) \in Nat
    BY <2>2, PoolAssumption, FS_Subset, FS_CardinalityType
  <2>4. Cardinality(InHand(m)) # 0
    BY <2>2, <2>3, FS_EmptySet
  <2>5. Len(chain[m]["free"]) \in Nat /\ Len(chain[m]["head"]) \in Nat /\ Cap[m] \in Nat
    BY ChainTypes DEF ListInv, Ends
  <2>6. PICK x \in Nat, y \in Nat : x = Len(chain[m]["free"]) /\ y = Len(chain[m]["head"])
    BY <2>5, Zenon
  <2>7. PICK z \in Nat, c \in Nat : z = Cardinality(InHand(m)) /\ c = Cap[m]
    BY <2>3, <2>5, Zenon
  <2>8. x + y + z = c /\ z # 0
    BY <2>1, <2>4, <2>6, <2>7, Zenon
  <2>9. y < c
    BY <2>8, PartIsLess
  <2> QED BY <1>3, <2>6, <2>7, <2>9
<1>9. AbsStack' = [AbsStack EXCEPT ![m] = <<v>> \o @]
  BY <1>5, <1>6 DEF AbsStack
<1>10. AbsPopped' = AbsPopped
  BY <1>7 DEF AbsPopped
<1>11. Len(AbsStack[m]) < Cap[m]
  BY <1>8 DEF AbsStack
<1>12. Stacks!Push(m, v)
  <2>1. Stacks!Push(m, v) <=> /\ Len(AbsStack[m]) < Cap[m]
                              /\ AbsStack' = [AbsStack EXCEPT ![m] = <<v>> \o @]
                              /\ AbsPopped' = AbsPopped
    BY DEF Stacks!Push, AbsStack, AbsPopped, Stack
  <2> QED BY <1>9, <1>10, <1>11, <2>1
<1> QED BY <1>12

(* The other steps of a static_list change nothing in the stacks. *)
LEMMA OtherListSteps ==
  ASSUME ListInv, ListInv', PoolInv, NEW th \in Threads, ListStep(th),
         ~(PopNode(th) /\ loc[th].op = "pop"), ~(AppendNode(th) /\ loc[th].op = "push")
  PROVE  AbsStack' = AbsStack /\ AbsPopped' = AbsPopped
<1>1. \/ PopNode(th) /\ From(th) = "free"
      \/ AppendNode(th) /\ To(th) = "free"
      \/ UNCHANGED chain
  <2>1. loc[th].op \in {"push", "pop"}
    BY StepLocals DEF Locals
  <2> QED BY <2>1, StepLocals DEF From, To
<1>2. \A l \in Lists : chain'[l]["head"] = chain[l]["head"]
  BY <1>1, HeadKept
<1>3. ASSUME NEW l \in Lists, NEW o \in Nodes(l), Rests(l, o)
      PROVE  sat'[l][o] = sat[l][o]
  <2>1. ~Holds(th) \/ l # L(th) \/ o # Off(th)
    BY <1>3 DEF ListInv, OnePlace, HeldApart, Rests, Ends
  <2> QED BY <2>1, SatelliteKept
<1>4. ASSUME NEW u \in Threads
      PROVE  Popped(u)' = Popped(u)
  <2>1. Carried(u)' = Carried(u) /\ loc'[u].op = loc[u].op
    BY OthersCarry, CarriedInStep, StepLocals
  <2>2. loc[u].op \in {"push", "pop"}
    BY ThreadTypes DEF ListInv, Locals
  <2> QED BY <2>1, <2>2 DEF Popped, Carried
<1> QED BY <1>2, <1>3, <1>4, QuietStack

(* Nor do the calls, and the returns without a block. *)
LEMMA CallsAreQuiet ==
  ASSUME ListInv, PoolInv, NEW th \in Threads,
         \/ Construct(th) \/ Allocate(th) \/ Deallocate(th)
         \/ FallThrough(th) \/ AllocateFails(th) \/ EmplaceReturns(th)
  PROVE  AbsStack' = AbsStack /\ AbsPopped' = AbsPopped
<1>1. UNCHANGED <<sat, chain>>
  BY DEF Construct, Allocate, Deallocate, FallThrough, AllocateFails, EmplaceReturns,
         BeginPush, BeginPop, Return
<1>2. \A u \in Threads \ {th} : loc'[u] = loc[u]
  BY ConstructPreserves, AllocatePreserves, DeallocatePreserves, FallThroughPreserves,
     AllocateFailsPreserves, EmplaceReturnsPreserves
<1>3. Popped(th) = Raw
  <2>1. CASE Construct(th) \/ Allocate(th) \/ Deallocate(th)
    <3>1. loc[th] = Idle
      BY <2>1, ConstructPreserves, AllocatePreserves, DeallocatePreserves
    <3> QED BY <3>1, IdleType DEF Popped
  <2>2. CASE FallThrough(th) \/ AllocateFails(th)
    <3>1. loc[th].pc = "done" /\ loc[th].op = "pop" /\ ~loc[th].ok
      BY <2>2 DEF FallThrough, AllocateFails, Return
    <3>2. Carried(th) = Raw
      BY <3>1, CarriesNothing
    <3> QED BY <3>1, <3>2 DEF Carried
  <2>3. CASE EmplaceReturns(th)
    BY <2>3 DEF EmplaceReturns, Popped
  <2> QED BY <2>1, <2>2, <2>3
<1>4. Popped(th)' = Raw
  <2>1. CASE Construct(th) \/ Deallocate(th)
    <3>1. PICK c \in Blocks, m \in Lists : loc'[th] = PushCall(m, c)
      BY <2>1, ConstructPreserves, DeallocatePreserves
    <3>2. loc'[th].op = "push"
      BY <3>1, CallTypes, PoolAssumption
    <3> QED BY <3>2 DEF Popped
  <2>2. CASE Allocate(th)
    <3>1. PICK m \in Lists : loc'[th] = PopCall(m)
      BY <2>2, AllocatePreserves
    <3>2. loc'[th].op = "pop" /\ loc'[th].pc = "load" /\ loc'[th].val = Raw
      BY <3>1, CallTypes
    <3> QED BY <3>2 DEF Popped
  <2>3. CASE FallThrough(th)
    <3>1. loc'[th].op = "pop" /\ loc'[th].pc = "load" /\ loc'[th].val = Raw
      BY <2>3, FallThroughPreserves
    <3> QED BY <3>1 DEF Popped
  <2>4. CASE AllocateFails(th) \/ EmplaceReturns(th)
    <3>1. loc'[th] = Idle
      BY <2>4, AllocateFailsPreserves, EmplaceReturnsPreserves
    <3> QED BY <3>1, IdleType DEF Popped
  <2> QED BY <2>1, <2>2, <2>3, <2>4
<1>5. \A l \in Lists : Stack(l)' = Stack(l)
  BY <1>1 DEF Stack
<1>6. \A u \in Threads : Popped(u)' = Popped(u)
  BY <1>1, <1>2, <1>3, <1>4 DEF Popped, L
<1> QED BY <1>5, <1>6 DEF AbsStack, AbsPopped

(* allocate hands over what it popped. *)
LEMMA ReturnIsReturn ==
  ASSUME ListInv, PoolInv, NEW th \in Threads, AllocateReturns(th)
  PROVE  Stacks!Return(th)
<1>1. UNCHANGED <<sat, chain>> /\ loc[th].pc = "done" /\ loc[th].op = "pop" /\ loc[th].ok
  BY DEF AllocateReturns, Return
<1>2. loc'[th] = Idle /\ \A u \in Threads \ {th} : loc'[u] = loc[u]
  BY AllocateReturnsPreserves
<1>3. Popped(th) # Raw
  <2>1. ValueOf(th)
    BY DEF ListInv, ThreadInv
  <2> QED BY <1>1, <2>1 DEF ValueOf, Holds, Popped
<1>4. Popped(th)' = Raw
  BY <1>2, IdleType DEF Popped
<1>5. \A u \in Threads \ {th} : Popped(u)' = Popped(u)
  BY <1>1, <1>2 DEF Popped, L
<1>6. \A l \in Lists : Stack(l)' = Stack(l)
  BY <1>1 DEF Stack
<1>7. AbsStack' = AbsStack
  BY <1>6 DEF AbsStack
<1>8. AbsPopped' = [AbsPopped EXCEPT ![th] = Raw]
  BY <1>4, <1>5 DEF AbsPopped
<1>9. AbsPopped[th] # Raw
  BY <1>3 DEF AbsPopped
<1> QED BY <1>7, <1>8, <1>9 DEF Stacks!Return, AbsStack, AbsPopped, Stack

(* static_list: each list of the pool is a stack of its blocks. A push takes effect at its CAS
   of head_, and so does a pop, which returns what was on top then. *)
THEOREM ListsAreStacks == NoWrap => (PoolSpec => ImplementsStacks)
<1> SUFFICES ASSUME NoWrap
             PROVE  PoolSpec => ImplementsStacks
  OBVIOUS
<1>1. PoolInit => Stacks!Init
  <2> SUFFICES ASSUME PoolInit
               PROVE  Stacks!Init
    OBVIOUS
  <2>0. ListInv /\ \A l \in Lists : chain[l]["head"] = <<>>
    BY InitInv DEF Inv, PoolInit, Init
  <2>1. ASSUME NEW l \in Lists
        PROVE  Stack(l) = <<>>
    <3>1. Stack(l) \in Seq(Values) /\ Len(Stack(l)) = 0
      <4>1. Len(Stack(l)) = Len(chain[l]["head"]) /\ Stack(l) \in Seq(Values)
        BY <2>0, StackTypes
      <4> QED BY <2>0, <4>1
    <3> QED BY <3>1
  <2>2. \A th \in Threads : Popped(th) = Raw
    BY IdleType DEF PoolInit, Init, Popped
  <2> QED BY <2>1, <2>2 DEF Stacks!Init, Stack
<1>2. Inv /\ Inv' /\ [PoolNext]_vars => [Stacks!Next]_(Stacks!vars)
  <2> SUFFICES ASSUME Inv, Inv', [PoolNext]_vars
               PROVE  [Stacks!Next]_(Stacks!vars)
    OBVIOUS
  <2>0. ListInv /\ PoolInv /\ ListInv'
    BY DEF Inv
  <2>1. AbsStack' = AbsStack /\ AbsPopped' = AbsPopped => UNCHANGED Stacks!vars
    BY DEF Stacks!vars, AbsStack, AbsPopped, Stack
  <2>2. CASE UNCHANGED vars
    <3>1. UNCHANGED <<sat, chain, loc>>
      BY <2>2 DEF vars, listVars
    <3>2. \A l \in Lists : Stack(l)' = Stack(l)
      BY <3>1 DEF Stack
    <3>3. \A th \in Threads : Popped(th)' = Popped(th)
      BY <3>1 DEF Popped, L
    <3> QED BY <2>1, <3>2, <3>3 DEF AbsStack, AbsPopped
  <2>3. CASE PoolNext
    <3>1. PICK th \in Threads : Construct(th) \/ Allocate(th) \/ Deallocate(th) \/ PoolStep(th)
      BY <2>3 DEF PoolNext
    <3>2. CASE ListStep(th)
      <4>1. CASE PopNode(th) /\ loc[th].op = "pop"
        <5>1. PICK l \in Lists : Stacks!Pop(l, th)
          BY <2>0, <4>1, PopIsPop
        <5> QED BY <5>1 DEF Stacks!Next
      <4>2. CASE AppendNode(th) /\ loc[th].op = "push"
        <5>1. PICK l \in Lists, v \in Values : Stacks!Push(l, v)
          BY <2>0, <4>2, PushIsPush
        <5> QED BY <5>1 DEF Stacks!Next
      <4>3. CASE ~(PopNode(th) /\ loc[th].op = "pop") /\ ~(AppendNode(th) /\ loc[th].op = "push")
        BY <2>0, <2>1, <3>2, <4>3, OtherListSteps
      <4> QED BY <4>1, <4>2, <4>3
    <3>3. CASE AllocateReturns(th)
      <4>1. Stacks!Return(th)
        BY <2>0, <3>3, ReturnIsReturn
      <4> QED BY <4>1 DEF Stacks!Next
    <3>4. CASE \/ Construct(th) \/ Allocate(th) \/ Deallocate(th)
               \/ FallThrough(th) \/ AllocateFails(th) \/ EmplaceReturns(th)
      BY <2>0, <2>1, <3>4, CallsAreQuiet
    <3> QED BY <3>1, <3>2, <3>3, <3>4 DEF PoolStep
  <2> QED BY <2>2, <2>3
<1> QED BY InvHolds, <1>1, <1>2, PTL DEF PoolSpec, ImplementsStacks, Stacks!Spec
=============================================================================
