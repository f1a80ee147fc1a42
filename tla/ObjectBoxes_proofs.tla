------------------------- MODULE ObjectBoxes_proofs -------------------------
(***************************************************************************)
(* Proofs about ObjectBoxes, for any boxes, types and values.               *)
(*                                                                         *)
(* An operation is a list of calls that the actions of ObjectCells carry    *)
(* out, and any Make of a type that may throw may throw. Fine says that     *)
(* what is left of an operation runs to its end, whatever throws, without   *)
(* ever touching a cell wrongly, and ends with an outcome in P. It is the   *)
(* invariant of an operation: a step leads from fine to fine. That each     *)
(* operation is fine where it is called is shown call by call.             *)
(***************************************************************************)
EXTENDS ObjectBoxes, Integers, TLAPS

-----------------------------------------------------------------------------
(* One call, on values: cl is the cells, tg the tags, td the calls left, un the
   handler, th whether something was thrown. *)
LiveIn(cl, c) == cl[c] \notin {Raw, Null}

CellThen(cl, do) ==
  CASE do.do \in {"make", "put"} ->
         [cl EXCEPT ![do.to] = cl[do.from], ![do.from].val = IF do.how = "move" THEN Moved ELSE @]
    [] do.do = "swap" -> [cl EXCEPT ![do.to] = cl[do.from], ![do.from] = cl[do.to]]
    [] do.do = "pass" -> [cl EXCEPT ![do.to] = cl[do.from], ![do.from] = Null]
    [] do.do = "drop" -> [cl EXCEPT ![do.to] = Raw]
    [] do.do \in {"tag", "try"} -> cl

TagThen(tg, do) == IF do.do = "tag" THEN [tg EXCEPT ![do.box] = do.as] ELSE tg
UndoThen(un, do) == IF do.do = "try" THEN do.handler ELSE un

Allowed(cl, do) ==
  \/ do.do \in {"tag", "try"}
  \/ do.do \in {"make", "pass"} /\ ~LiveIn(cl, do.to) /\ LiveIn(cl, do.from)
  \/ do.do \in {"put", "swap"} /\ LiveIn(cl, do.to) /\ LiveIn(cl, do.from)
  \/ do.do = "drop" /\ cl[do.to] # Raw

MayThrow(cl, do) == do.do = "make" /\ ~NothrowOf(cl[do.from].ty, do.how)

DropLive(cl, c) == IF LiveIn(cl, c) THEN <<Drop(c)>> ELSE <<>>
Unwound(un, cl) == un \o DropLive(cl, Backup) \o DropLive(cl, Tmp) \o DropLive(cl, Buffer)

(* Whatever is in R goes on in R, one allowed call after the other, and ends in P. *)
Closed(R, P) ==
  \A cl, tg, td, un, th : <<cl, tg, td, un, th>> \in R =>
    /\ td = <<>> => un = <<>> /\ <<cl, tg, th>> \in P
    /\ td # <<>> =>
         LET do == Head(td) IN
         /\ Allowed(cl, do)
         /\ <<CellThen(cl, do), TagThen(tg, do), Tail(td), UndoThen(un, do), th>> \in R
         /\ MayThrow(cl, do) => <<cl, tg, Unwound(un, cl), <<>>, TRUE>> \in R

Fine(cl, tg, td, un, th, P) == \E R : <<cl, tg, td, un, th>> \in R /\ Closed(R, P)

(* An operation without calls left is fine where it ends. *)
LEMMA FineEnd ==
  ASSUME NEW cl, NEW tg, NEW th, NEW P, <<cl, tg, th>> \in P
  PROVE  Fine(cl, tg, <<>>, <<>>, th, P)
<1>1. Closed({<<cl, tg, <<>>, <<>>, th>>}, P)
  BY DEF Closed
<1> QED BY <1>1 DEF Fine

(* An operation without calls left has ended, with an outcome it may have. *)
LEMMA FineAtEnd ==
  ASSUME NEW cl, NEW tg, NEW un, NEW th, NEW P, Fine(cl, tg, <<>>, un, th, P)
  PROVE  un = <<>> /\ <<cl, tg, th>> \in P
<1>1. PICK R : <<cl, tg, <<>>, un, th>> \in R /\ Closed(R, P)
  BY DEF Fine
<1> QED BY <1>1 DEF Closed

(* A fine operation makes an allowed call and is fine after it, thrown or not. *)
LEMMA FineGoesOn ==
  ASSUME NEW cl, NEW tg, NEW td, NEW un, NEW th, NEW P, Fine(cl, tg, td, un, th, P), td # <<>>,
         NEW do, do = Head(td)
  PROVE  /\ Allowed(cl, do)
         /\ Fine(CellThen(cl, do), TagThen(tg, do), Tail(td), UndoThen(un, do), th, P)
         /\ MayThrow(cl, do) => Fine(cl, tg, Unwound(un, cl), <<>>, TRUE, P)
<1>1. PICK R : <<cl, tg, td, un, th>> \in R /\ Closed(R, P)
  BY DEF Fine
<1>2. /\ Allowed(cl, do)
      /\ <<CellThen(cl, do), TagThen(tg, do), Tail(td), UndoThen(un, do), th>> \in R
      /\ MayThrow(cl, do) => <<cl, tg, Unwound(un, cl), <<>>, TRUE>> \in R
  BY <1>1 DEF Closed
<1> QED BY <1>1, <1>2 DEF Fine

(* And the other way round. *)
LEMMA FineBefore ==
  ASSUME NEW cl, NEW tg, NEW td, NEW un, NEW th, NEW P, td # <<>>,
         NEW do, do = Head(td), Allowed(cl, do),
         Fine(CellThen(cl, do), TagThen(tg, do), Tail(td), UndoThen(un, do), th, P),
         MayThrow(cl, do) => Fine(cl, tg, Unwound(un, cl), <<>>, TRUE, P)
  PROVE  Fine(cl, tg, td, un, th, P)
<1>1. PICK R : /\ <<CellThen(cl, do), TagThen(tg, do), Tail(td), UndoThen(un, do), th>> \in R
               /\ Closed(R, P)
  BY DEF Fine
<1>2. PICK Q : /\ MayThrow(cl, do) => <<cl, tg, Unwound(un, cl), <<>>, TRUE>> \in Q
               /\ Closed(Q, P)
  <2>1. CASE MayThrow(cl, do)
    BY <2>1 DEF Fine
  <2>2. CASE ~MayThrow(cl, do)
    BY <2>2, <1>1
  <2> QED BY <2>1, <2>2
<1>3. PICK S : S = R \cup Q \cup {<<cl, tg, td, un, th>>}
  OBVIOUS
<1>4. Closed(S, P)
  <2> SUFFICES ASSUME NEW cl1, NEW tg1, NEW td1, NEW un1, NEW th1,
                      <<cl1, tg1, td1, un1, th1>> \in S
               PROVE  /\ td1 = <<>> => un1 = <<>> /\ <<cl1, tg1, th1>> \in P
                      /\ td1 # <<>> =>
                           LET d == Head(td1) IN
                           /\ Allowed(cl1, d)
                           /\ <<CellThen(cl1, d), TagThen(tg1, d), Tail(td1), UndoThen(un1, d), th1>> \in S
                           /\ MayThrow(cl1, d) => <<cl1, tg1, Unwound(un1, cl1), <<>>, TRUE>> \in S
    BY DEF Closed
  <2>1. CASE <<cl1, tg1, td1, un1, th1>> \in R
    BY <1>1, <1>3, <2>1 DEF Closed
  <2>2. CASE <<cl1, tg1, td1, un1, th1>> \in Q
    BY <1>2, <1>3, <2>2 DEF Closed
  <2>3. CASE <<cl1, tg1, td1, un1, th1>> = <<cl, tg, td, un, th>>
    <3>1. cl1 = cl /\ tg1 = tg /\ td1 = td /\ un1 = un /\ th1 = th
      BY <2>3
    <3> QED BY <1>1, <1>2, <1>3, <3>1
  <2> QED BY <1>3, <2>1, <2>2, <2>3
<1> QED BY <1>3, <1>4 DEF Fine

-----------------------------------------------------------------------------
(* Lists of calls *)

IsCalls(s) == \E S : s \in Seq(S)

Then(do, rest) == <<do>> \o rest

(* A call and then a list of calls is a list of calls. *)
LEMMA ThenFacts ==
  ASSUME NEW do, NEW rest, IsCalls(rest)
  PROVE  /\ IsCalls(Then(do, rest)) /\ Then(do, rest) # <<>>
         /\ Head(Then(do, rest)) = do /\ Tail(Then(do, rest)) = rest
<1>1. PICK S : rest \in Seq(S)
  BY DEF IsCalls
<1>2. PICK Q : Q = S \cup {do}
  OBVIOUS
<1>3. rest \in Seq(Q) /\ do \in Q
  BY <1>1, <1>2
<1> HIDE <1>2
<1>4. <<do>> \o rest \in Seq(Q)
  BY <1>3
<1>5. <<do>> \o rest # <<>> /\ Head(<<do>> \o rest) = do /\ Tail(<<do>> \o rest) = rest
  BY <1>3, <1>4
<1> QED BY <1>4, <1>5 DEF IsCalls, Then

(* The empty list is a list of calls. *)
LEMMA NoCalls == IsCalls(<<>>)
BY DEF IsCalls

(* Two lists of calls joined are a list of calls. *)
LEMMA JoinedCalls ==
  ASSUME NEW s, NEW r, IsCalls(s), IsCalls(r)
  PROVE  IsCalls(s \o r)
<1>1. PICK S, R : s \in Seq(S) /\ r \in Seq(R)
  BY DEF IsCalls
<1>2. PICK Q : Q = S \cup R
  OBVIOUS
<1>3. s \in Seq(Q) /\ r \in Seq(Q)
  BY <1>1, <1>2
<1>4. s \o r \in Seq(Q)
  BY <1>3
<1> QED BY <1>4 DEF IsCalls

(* Joining lists of calls is associative. *)
LEMMA JoinedInTurn ==
  ASSUME NEW s, NEW r, NEW q, IsCalls(s), IsCalls(r), IsCalls(q)
  PROVE  (s \o r) \o q = s \o (r \o q)
<1>1. PICK S, R, Q : s \in Seq(S) /\ r \in Seq(R) /\ q \in Seq(Q)
  BY DEF IsCalls
<1>2. PICK A : A = S \cup R \cup Q
  OBVIOUS
<1>3. s \in Seq(A) /\ r \in Seq(A) /\ q \in Seq(A)
  BY <1>1, <1>2
<1> QED BY <1>3

(* Lists joined from the left are lists joined from the right. *)
LEMMA TwoJoined ==
  ASSUME NEW p, NEW q, IsCalls(p), IsCalls(q)
  PROVE  /\ IsCalls(p \o q)
         /\ \A rest : IsCalls(rest) => (p \o q) \o rest = p \o (q \o rest) /\ IsCalls(q \o rest)
BY JoinedCalls, JoinedInTurn

(* Three lists joined, the rest after them, one list at a time. *)
LEMMA ThreeJoined ==
  ASSUME NEW p, NEW q, NEW r, IsCalls(p), IsCalls(q), IsCalls(r)
  PROVE  /\ IsCalls((p \o q) \o r)
         /\ \A rest : IsCalls(rest) => ((p \o q) \o r) \o rest = p \o (q \o (r \o rest))
<1>1. PICK v : v = p \o q
  OBVIOUS
<1>2. IsCalls(v) /\ \A rest : IsCalls(rest) => v \o rest = p \o (q \o rest)
  BY <1>1, TwoJoined
<1>3. IsCalls(v \o r) /\ \A rest : IsCalls(rest) => (v \o r) \o rest = v \o (r \o rest) /\ IsCalls(r \o rest)
  BY <1>2, TwoJoined
<1> QED BY <1>1, <1>2, <1>3

(* Four lists joined, one list at a time. *)
FourInTurn(p, q, r, s) ==
  /\ IsCalls(((p \o q) \o r) \o s)
  /\ \A rest : IsCalls(rest) => (((p \o q) \o r) \o s) \o rest = p \o (q \o (r \o (s \o rest)))

(* Joining four lists is joining them one at a time. *)
LEMMA FourJoined ==
  ASSUME NEW p, NEW q, NEW r, NEW s, IsCalls(p), IsCalls(q), IsCalls(r), IsCalls(s)
  PROVE  FourInTurn(p, q, r, s)
<1>1. PICK v : v = (p \o q) \o r
  OBVIOUS
<1>2. IsCalls(v) /\ \A rest : IsCalls(rest) => v \o rest = p \o (q \o (r \o rest))
  BY <1>1, ThreeJoined
<1>3. IsCalls(v \o s) /\ \A rest : IsCalls(rest) => (v \o s) \o rest = v \o (s \o rest) /\ IsCalls(s \o rest)
  BY <1>2, TwoJoined
<1> QED BY <1>1, <1>2, <1>3 DEF FourInTurn

(* Joining the empty list changes nothing. *)
LEMMA NothingJoined ==
  ASSUME NEW s, IsCalls(s)
  PROVE  s \o <<>> = s /\ <<>> \o s = s
<1>1. PICK S : s \in Seq(S)
  BY DEF IsCalls
<1> QED BY <1>1

(* A list of calls as the operations are written: one call, then the others. *)

(* A list of one call is that call and then the rest. *)
LEMMA OneCall ==
  ASSUME NEW a
  PROVE  IsCalls(<<a>>) /\ \A rest : <<a>> \o rest = Then(a, rest)
<1>1. PICK S : a \in S
  OBVIOUS
<1>2. <<a>> \in Seq(S)
  BY <1>1
<1> QED BY <1>2, Zenon DEF IsCalls, Then

(* Joining leaves the first call first. *)
LEMMA ThenJoined ==
  ASSUME NEW do, NEW s, NEW rest, IsCalls(s), IsCalls(rest)
  PROVE  Then(do, s) \o rest = Then(do, s \o rest)
<1>1. IsCalls(<<do>>)
  BY OneCall
<1>2. (<<do>> \o s) \o rest = <<do>> \o (s \o rest)
  BY <1>1, JoinedInTurn
<1> QED BY <1>2, Zenon DEF Then

(* A call joined to a list is that call and then the list. *)
LEMMA CallAhead ==
  ASSUME NEW do, NEW s, NEW rest, IsCalls(s), IsCalls(rest)
  PROVE  (<<do>> \o s) \o rest = Then(do, s \o rest)
<1>1. <<do>> \o s = Then(do, s)
  BY OneCall, Zenon
<1>2. Then(do, s) \o rest = Then(do, s \o rest)
  BY ThenJoined
<1> QED BY <1>1, <1>2

(* A list between two calls *)
Around(x, s, y) == (<<x>> \o s) \o <<y>>

(* A list of calls between two calls. *)
LEMMA CallsAround ==
  ASSUME NEW x, NEW s, NEW y, IsCalls(s)
  PROVE  /\ IsCalls(Around(x, s, y))
         /\ \A rest : IsCalls(rest) => Around(x, s, y) \o rest = Then(x, s \o Then(y, rest))
<1>1. PICK v, w : v = <<x>> /\ w = <<y>>
  OBVIOUS
<1>2. IsCalls(v) /\ IsCalls(w)
  BY <1>1, OneCall
<1>3. IsCalls(v \o s)
  BY <1>2, JoinedCalls
<1>4. IsCalls((v \o s) \o w)
  BY <1>2, <1>3, JoinedCalls
<1>5. ASSUME NEW rest, IsCalls(rest)
      PROVE  ((v \o s) \o w) \o rest = Then(x, s \o Then(y, rest))
  <2>1. PICK r : r = w \o rest
    OBVIOUS
  <2>2. IsCalls(r) /\ r = Then(y, rest)
    BY <1>1, <1>2, <1>5, <2>1, OneCall, JoinedCalls
  <2>3. ((v \o s) \o w) \o rest = (v \o s) \o r
    <3>1. PICK m : m = v \o s
      OBVIOUS
    <3>2. IsCalls(m) /\ IsCalls(w) /\ IsCalls(rest)
      BY <1>2, <1>3, <1>5, <3>1
    <3>3. (m \o w) \o rest = m \o (w \o rest)
      BY ONLY <3>2, JoinedInTurn
    <3> QED BY ONLY <2>1, <3>1, <3>3
  <2>4. (v \o s) \o r = v \o (s \o r)
    BY <1>2, <2>2, JoinedInTurn
  <2>5. v \o (s \o r) = Then(x, s \o r)
    BY <1>1, OneCall
  <2> QED BY <2>2, <2>3, <2>4, <2>5
<1> QED BY <1>1, <1>4, <1>5 DEF Around

(* A list of two calls, one call at a time; the next lemmas do the same for longer
   lists. *)
LEMMA TwoCalls ==
  ASSUME NEW a, NEW b
  PROVE  /\ IsCalls(<<a, b>>)
         /\ \A rest : IsCalls(rest) =>
              <<a, b>> \o rest = Then(a, Then(b, rest))
<1>1. PICK S : a \in S /\ b \in S
  <2>1. a \in {a, b} /\ b \in {a, b}
    OBVIOUS
  <2> QED BY <2>1
<1>2. <<a>> \in Seq(S) /\ <<b>> \in Seq(S) /\ <<a, b>> \in Seq(S)
  BY <1>1
<1>3. <<a, b>> = <<a>> \o <<b>>
  <2>1. <<a>> \o <<b>> \in Seq(S) /\ Len(<<a>> \o <<b>>) = 2
    BY <1>2
  <2>2. (<<a>> \o <<b>>)[1] = a /\ (<<a>> \o <<b>>)[2] = b
    BY <1>2
  <2>3. ASSUME NEW s \in Seq(S), Len(s) = 2, s[1] = a, s[2] = b
        PROVE  s = <<a, b>>
    <3>1. \A i \in 1 .. 2 : s[i] = <<a, b>>[i]
      BY <2>3
    <3> QED BY <1>2, <2>3, <3>1
  <2> QED BY <2>1, <2>2, <2>3
<1>4. IsCalls(<<a>>) /\ IsCalls(<<b>>)
  BY OneCall, OneCall, Zenon
<1>5. IsCalls(<<a, b>>)
  BY <1>3, <1>4, JoinedCalls, Zenon
<1>6. ASSUME NEW rest, IsCalls(rest)
      PROVE  <<a, b>> \o rest = Then(a, Then(b, rest))
  <2>1. PICK s : s = <<b>>
    OBVIOUS
  <2>2. IsCalls(s)
    BY <1>4, <2>1
  <2>3. <<a, b>> = Then(a, s)
    BY <1>3, <2>1 DEF Then
  <2>4. Then(a, s) \o rest = Then(a, s \o rest)
    BY <1>6, <2>2, ThenJoined
  <2>5. <<b>> \o rest = Then(b, rest)
    BY <1>6, OneCall, Zenon
  <2> QED BY <2>1, <2>3, <2>4, <2>5
<1> QED BY <1>5, <1>6, Zenon

(* Three calls. *)
LEMMA ThreeCalls ==
  ASSUME NEW a, NEW b, NEW c
  PROVE  /\ IsCalls(<<a, b, c>>)
         /\ \A rest : IsCalls(rest) =>
              <<a, b, c>> \o rest = Then(a, Then(b, Then(c, rest)))
<1>1. <<a, b, c>> = <<a>> \o <<b, c>>
  OBVIOUS
<1>2. IsCalls(<<a>>) /\ IsCalls(<<b, c>>)
  BY OneCall, TwoCalls, Zenon
<1>3. IsCalls(<<a, b, c>>)
  BY <1>1, <1>2, JoinedCalls, Zenon
<1>4. ASSUME NEW rest, IsCalls(rest)
      PROVE  <<a, b, c>> \o rest = Then(a, Then(b, Then(c, rest)))
  <2>1. PICK s : s = <<b, c>>
    OBVIOUS
  <2>2. IsCalls(s)
    BY <1>2, <2>1
  <2>3. <<a, b, c>> = Then(a, s)
    BY <1>1, <2>1 DEF Then
  <2>4. Then(a, s) \o rest = Then(a, s \o rest)
    BY <1>4, <2>2, ThenJoined
  <2>5. <<b, c>> \o rest = Then(b, Then(c, rest))
    BY <1>4, TwoCalls
  <2> QED BY <2>1, <2>3, <2>4, <2>5
<1> QED BY <1>3, <1>4, Zenon

(* Four calls. *)
LEMMA FourCalls ==
  ASSUME NEW a, NEW b, NEW c, NEW d
  PROVE  /\ IsCalls(<<a, b, c, d>>)
         /\ \A rest : IsCalls(rest) =>
              <<a, b, c, d>> \o rest = Then(a, Then(b, Then(c, Then(d, rest))))
<1>1. <<a, b, c, d>> = <<a>> \o <<b, c, d>>
  OBVIOUS
<1>2. IsCalls(<<a>>) /\ IsCalls(<<b, c, d>>)
  BY OneCall, ThreeCalls, Zenon
<1>3. IsCalls(<<a, b, c, d>>)
  BY <1>1, <1>2, JoinedCalls, Zenon
<1>4. ASSUME NEW rest, IsCalls(rest)
      PROVE  <<a, b, c, d>> \o rest = Then(a, Then(b, Then(c, Then(d, rest))))
  <2>1. PICK s : s = <<b, c, d>>
    OBVIOUS
  <2>2. IsCalls(s)
    BY <1>2, <2>1
  <2>3. <<a, b, c, d>> = Then(a, s)
    BY <1>1, <2>1 DEF Then
  <2>4. Then(a, s) \o rest = Then(a, s \o rest)
    BY <1>4, <2>2, ThenJoined
  <2>5. <<b, c, d>> \o rest = Then(b, Then(c, Then(d, rest)))
    BY <1>4, ThreeCalls
  <2> QED BY <2>1, <2>3, <2>4, <2>5
<1> QED BY <1>3, <1>4, Zenon

(* Five calls. *)
LEMMA FiveCalls ==
  ASSUME NEW a, NEW b, NEW c, NEW d, NEW e
  PROVE  /\ IsCalls(<<a, b, c, d, e>>)
         /\ \A rest : IsCalls(rest) =>
              <<a, b, c, d, e>> \o rest = Then(a, Then(b, Then(c, Then(d, Then(e, rest)))))
<1>1. <<a, b, c, d, e>> = <<a>> \o <<b, c, d, e>>
  OBVIOUS
<1>2. IsCalls(<<a>>) /\ IsCalls(<<b, c, d, e>>)
  BY OneCall, FourCalls, Zenon
<1>3. IsCalls(<<a, b, c, d, e>>)
  BY <1>1, <1>2, JoinedCalls, Zenon
<1>4. ASSUME NEW rest, IsCalls(rest)
      PROVE  <<a, b, c, d, e>> \o rest = Then(a, Then(b, Then(c, Then(d, Then(e, rest)))))
  <2>1. PICK s : s = <<b, c, d, e>>
    OBVIOUS
  <2>2. IsCalls(s)
    BY <1>2, <2>1
  <2>3. <<a, b, c, d, e>> = Then(a, s)
    BY <1>1, <2>1 DEF Then
  <2>4. Then(a, s) \o rest = Then(a, s \o rest)
    BY <1>4, <2>2, ThenJoined
  <2>5. <<b, c, d, e>> \o rest = Then(b, Then(c, Then(d, Then(e, rest))))
    BY <1>4, FourCalls
  <2> QED BY <2>1, <2>3, <2>4, <2>5
<1> QED BY <1>3, <1>4, Zenon

(* Six calls. *)
LEMMA SixCalls ==
  ASSUME NEW a, NEW b, NEW c, NEW d, NEW e, NEW f
  PROVE  /\ IsCalls(<<a, b, c, d, e, f>>)
         /\ \A rest : IsCalls(rest) =>
              <<a, b, c, d, e, f>> \o rest = Then(a, Then(b, Then(c, Then(d, Then(e, Then(f, rest))))))
<1>1. <<a, b, c, d, e, f>> = <<a>> \o <<b, c, d, e, f>>
  OBVIOUS
<1>2. IsCalls(<<a>>) /\ IsCalls(<<b, c, d, e, f>>)
  BY OneCall, FiveCalls, Zenon
<1>3. IsCalls(<<a, b, c, d, e, f>>)
  BY <1>1, <1>2, JoinedCalls, Zenon
<1>4. ASSUME NEW rest, IsCalls(rest)
      PROVE  <<a, b, c, d, e, f>> \o rest = Then(a, Then(b, Then(c, Then(d, Then(e, Then(f, rest))))))
  <2>1. PICK s : s = <<b, c, d, e, f>>
    OBVIOUS
  <2>2. IsCalls(s)
    BY <1>2, <2>1
  <2>3. <<a, b, c, d, e, f>> = Then(a, s)
    BY <1>1, <2>1 DEF Then
  <2>4. Then(a, s) \o rest = Then(a, s \o rest)
    BY <1>4, <2>2, ThenJoined
  <2>5. <<b, c, d, e, f>> \o rest = Then(b, Then(c, Then(d, Then(e, Then(f, rest)))))
    BY <1>4, FiveCalls
  <2> QED BY <2>1, <2>3, <2>4, <2>5
<1> QED BY <1>3, <1>4, Zenon

(* Seven calls. *)
LEMMA SevenCalls ==
  ASSUME NEW a, NEW b, NEW c, NEW d, NEW e, NEW f, NEW g
  PROVE  /\ IsCalls(<<a, b, c, d, e, f, g>>)
         /\ \A rest : IsCalls(rest) =>
              <<a, b, c, d, e, f, g>> \o rest = Then(a, Then(b, Then(c, Then(d, Then(e, Then(f, Then(g, rest)))))))
<1>1. <<a, b, c, d, e, f, g>> = <<a>> \o <<b, c, d, e, f, g>>
  OBVIOUS
<1>2. IsCalls(<<a>>) /\ IsCalls(<<b, c, d, e, f, g>>)
  BY OneCall, SixCalls, Zenon
<1>3. IsCalls(<<a, b, c, d, e, f, g>>)
  BY <1>1, <1>2, JoinedCalls, Zenon
<1>4. ASSUME NEW rest, IsCalls(rest)
      PROVE  <<a, b, c, d, e, f, g>> \o rest = Then(a, Then(b, Then(c, Then(d, Then(e, Then(f, Then(g, rest)))))))
  <2>1. PICK s : s = <<b, c, d, e, f, g>>
    OBVIOUS
  <2>2. IsCalls(s)
    BY <1>2, <2>1
  <2>3. <<a, b, c, d, e, f, g>> = Then(a, s)
    BY <1>1, <2>1 DEF Then
  <2>4. Then(a, s) \o rest = Then(a, s \o rest)
    BY <1>4, <2>2, ThenJoined
  <2>5. <<b, c, d, e, f, g>> \o rest = Then(b, Then(c, Then(d, Then(e, Then(f, Then(g, rest))))))
    BY <1>4, SixCalls
  <2> QED BY <2>1, <2>3, <2>4, <2>5
<1> QED BY <1>3, <1>4, Zenon

-----------------------------------------------------------------------------
(* Cells *)

Objects == [ty : Types, val : Vals \cup {Moved}]
CellFns == [Cells -> Objects \cup {Raw, Null}]
Tags == Types \cup {"first", "second", Empty, Gone}
TagFns == [AllBoxes -> Tags]

(* What a source is left as, and what an object is worth. *)
Left(x, how) == IF x \in Objects /\ how = "move" THEN [ty |-> x.ty, val |-> Moved] ELSE x
ValOf(x) == IF x \in Objects THEN x.val ELSE Raw

Same(c2, cl, S) == \A c \in Cells \ S : c2[c] = cl[c]
Made(c2, cl, to, from, how) ==
  c2 \in CellFns /\ c2[to] = cl[from] /\ c2[from] = Left(cl[from], how) /\ Same(c2, cl, {to, from})
Passed(c2, cl, to, from) ==
  c2 \in CellFns /\ c2[to] = cl[from] /\ c2[from] = Null /\ Same(c2, cl, {to, from})
Swapped(c2, cl, to, from) ==
  c2 \in CellFns /\ c2[to] = cl[from] /\ c2[from] = cl[to] /\ Same(c2, cl, {to, from})
Dropped(c2, cl, c) == c2 \in CellFns /\ c2[c] = Raw /\ Same(c2, cl, {c})

(* A cell is live when it holds an object. *)
LEMMA LiveIsObject ==
  ASSUME NEW cl \in CellFns, NEW c \in Cells
  PROVE  LiveIn(cl, c) <=> cl[c] \in Objects
BY CellAssumption DEF CellFns, Objects, LiveIn

(* An object is its type and its value, moved from or not. *)
LEMMA ObjectParts ==
  ASSUME NEW x \in Objects
  PROVE  /\ x.ty \in Types /\ x.val \in Vals \cup {Moved} /\ x = [ty |-> x.ty, val |-> x.val]
         /\ \A how : Left(x, how) \in Objects /\ Left(x, how).ty = x.ty
         /\ [x EXCEPT !.val = Moved] = [ty |-> x.ty, val |-> Moved] /\ x # Raw /\ x # Null
  BY CellAssumption DEF Objects, Left

(* What a constructor or an assignment does to the cells. *)
LEMMA TransferredIsMade ==
  ASSUME NEW cl \in CellFns, NEW to \in Cells, NEW from \in Cells, NEW how,
         to # from, LiveIn(cl, from), NEW c2,
         c2 = [cl EXCEPT ![to] = cl[from], ![from].val = IF how = "move" THEN Moved ELSE @]
  PROVE  Made(c2, cl, to, from, how)
<1>1. PICK x \in Objects : x = cl[from]
  BY LiveIsObject
<1>2. c2 = [cl EXCEPT ![to] = x, ![from] = [x EXCEPT !.val = IF how = "move" THEN Moved ELSE @]]
  BY <1>1 DEF CellFns
<1>3. [x EXCEPT !.val = IF how = "move" THEN Moved ELSE @] = Left(x, how)
  BY ObjectParts DEF Left, Objects
<1>4. c2 = [cl EXCEPT ![to] = x, ![from] = Left(x, how)]
  BY <1>2, <1>3
<1>5. Left(x, how) \in Objects
  BY ObjectParts
<1> QED BY <1>1, <1>4, <1>5 DEF Made, Same, CellFns

-----------------------------------------------------------------------------
(* One rule for each kind of call: an operation that begins with it is fine if
   what is left of it is fine after the call, and if need be after the throw. *)

(* A constructor call: for a free cell, from an object, and the unwinding is fine if
   it may throw. *)
LEMMA MakeCall ==
  ASSUME NEW cl \in CellFns, NEW tg, NEW rest, NEW un, NEW th, NEW P, IsCalls(rest),
         NEW to \in Cells, NEW from \in Cells, NEW how,
         to # from, ~LiveIn(cl, to), LiveIn(cl, from),
         NothrowOf(cl[from].ty, how) \/ Fine(cl, tg, Unwound(un, cl), <<>>, TRUE, P),
         \A c2 : Made(c2, cl, to, from, how) => Fine(c2, tg, rest, un, th, P)
  PROVE  Fine(cl, tg, Then(Make(to, from, how), rest), un, th, P)
<1>1. PICK do : do = Make(to, from, how)
  OBVIOUS
<1>2. do.do = "make" /\ do.to = to /\ do.from = from /\ do.how = how
  BY <1>1 DEF Make
<1>3. PICK td : td = Then(do, rest) /\ td # <<>> /\ Head(td) = do /\ Tail(td) = rest
  BY ThenFacts
<1>4. PICK c2 : c2 = [cl EXCEPT ![to] = cl[from], ![from].val = IF how = "move" THEN Moved ELSE @]
  OBVIOUS
<1>5. Made(c2, cl, to, from, how)
  BY <1>4, TransferredIsMade
<1>6. CellThen(cl, do) = c2 /\ TagThen(tg, do) = tg /\ UndoThen(un, do) = un
  BY <1>2, <1>4 DEF CellThen, TagThen, UndoThen
<1>7. Allowed(cl, do)
  BY <1>2 DEF Allowed
<1>8. MayThrow(cl, do) => Fine(cl, tg, Unwound(un, cl), <<>>, TRUE, P)
  BY <1>2 DEF MayThrow
<1>9. Fine(c2, tg, rest, un, th, P)
  BY <1>5
<1>10. Fine(cl, tg, td, un, th, P)
  BY <1>3, <1>6, <1>7, <1>8, <1>9, FineBefore
<1> QED BY <1>1, <1>3, <1>10

(* An assignment call, between two objects. *)
LEMMA PutCall ==
  ASSUME NEW cl \in CellFns, NEW tg, NEW rest, NEW un, NEW th, NEW P, IsCalls(rest),
         NEW to \in Cells, NEW from \in Cells, NEW how,
         to # from, LiveIn(cl, to), LiveIn(cl, from),
         \A c2 : Made(c2, cl, to, from, how) => Fine(c2, tg, rest, un, th, P)
  PROVE  Fine(cl, tg, Then(Put(to, from, how), rest), un, th, P)
<1>1. PICK do : do = Put(to, from, how)
  OBVIOUS
<1>2. do.do = "put" /\ do.to = to /\ do.from = from /\ do.how = how
  BY <1>1 DEF Put
<1>3. PICK td : td = Then(do, rest) /\ td # <<>> /\ Head(td) = do /\ Tail(td) = rest
  BY ThenFacts
<1>4. PICK c2 : c2 = [cl EXCEPT ![to] = cl[from], ![from].val = IF how = "move" THEN Moved ELSE @]
  OBVIOUS
<1>5. Made(c2, cl, to, from, how)
  BY <1>4, TransferredIsMade
<1>6. CellThen(cl, do) = c2 /\ TagThen(tg, do) = tg /\ UndoThen(un, do) = un
  BY <1>2, <1>4 DEF CellThen, TagThen, UndoThen
<1>7. Allowed(cl, do) /\ ~MayThrow(cl, do)
  BY <1>2 DEF Allowed, MayThrow
<1>8. Fine(c2, tg, rest, un, th, P)
  BY <1>5
<1>9. Fine(cl, tg, td, un, th, P)
  BY <1>3, <1>6, <1>7, <1>8, FineBefore
<1> QED BY <1>1, <1>3, <1>9

(* A pointer passed to a free cell. *)
LEMMA PassCall ==
  ASSUME NEW cl \in CellFns, NEW tg, NEW rest, NEW un, NEW th, NEW P, IsCalls(rest),
         NEW to \in Cells, NEW from \in Cells, to # from, ~LiveIn(cl, to), LiveIn(cl, from),
         \A c2 : Passed(c2, cl, to, from) => Fine(c2, tg, rest, un, th, P)
  PROVE  Fine(cl, tg, Then(Pass(to, from), rest), un, th, P)
<1>1. PICK do : do = Pass(to, from)
  OBVIOUS
<1>2. do.do = "pass" /\ do.to = to /\ do.from = from
  BY <1>1 DEF Pass
<1>3. PICK td : td = Then(do, rest) /\ td # <<>> /\ Head(td) = do /\ Tail(td) = rest
  BY ThenFacts
<1>4. PICK c2 : c2 = [cl EXCEPT ![to] = cl[from], ![from] = Null]
  OBVIOUS
<1>5. Passed(c2, cl, to, from)
  BY <1>4 DEF Passed, Same, CellFns
<1>6. CellThen(cl, do) = c2 /\ TagThen(tg, do) = tg /\ UndoThen(un, do) = un
  BY <1>2, <1>4 DEF CellThen, TagThen, UndoThen
<1>7. Allowed(cl, do) /\ ~MayThrow(cl, do)
  BY <1>2 DEF Allowed, MayThrow
<1>8. Fine(c2, tg, rest, un, th, P)
  BY <1>5
<1>9. Fine(cl, tg, td, un, th, P)
  BY <1>3, <1>6, <1>7, <1>8, FineBefore
<1> QED BY <1>1, <1>3, <1>9

(* A swap call, between two objects. *)
LEMMA SwapCall ==
  ASSUME NEW cl \in CellFns, NEW tg, NEW rest, NEW un, NEW th, NEW P, IsCalls(rest),
         NEW to \in Cells, NEW from \in Cells, to # from, LiveIn(cl, to), LiveIn(cl, from),
         \A c2 : Swapped(c2, cl, to, from) => Fine(c2, tg, rest, un, th, P)
  PROVE  Fine(cl, tg, Then(Swap(to, from), rest), un, th, P)
<1>1. PICK do : do = Swap(to, from)
  OBVIOUS
<1>2. do.do = "swap" /\ do.to = to /\ do.from = from
  BY <1>1 DEF Swap
<1>3. PICK td : td = Then(do, rest) /\ td # <<>> /\ Head(td) = do /\ Tail(td) = rest
  BY ThenFacts
<1>4. PICK c2 : c2 = [cl EXCEPT ![to] = cl[from], ![from] = cl[to]]
  OBVIOUS
<1>5. Swapped(c2, cl, to, from)
  BY <1>4 DEF Swapped, Same, CellFns
<1>6. CellThen(cl, do) = c2 /\ TagThen(tg, do) = tg /\ UndoThen(un, do) = un
  BY <1>2, <1>4 DEF CellThen, TagThen, UndoThen
<1>7. Allowed(cl, do) /\ ~MayThrow(cl, do)
  BY <1>2 DEF Allowed, MayThrow
<1>8. Fine(c2, tg, rest, un, th, P)
  BY <1>5
<1>9. Fine(cl, tg, td, un, th, P)
  BY <1>3, <1>6, <1>7, <1>8, FineBefore
<1> QED BY <1>1, <1>3, <1>9

(* A destructor call, where there is an object or a null pointer. *)
LEMMA DropCall ==
  ASSUME NEW cl \in CellFns, NEW tg, NEW rest, NEW un, NEW th, NEW P, IsCalls(rest),
         NEW c \in Cells, cl[c] # Raw,
         \A c2 : Dropped(c2, cl, c) => Fine(c2, tg, rest, un, th, P)
  PROVE  Fine(cl, tg, Then(Drop(c), rest), un, th, P)
<1>1. PICK do : do = Drop(c)
  OBVIOUS
<1>2. do.do = "drop" /\ do.to = c
  BY <1>1 DEF Drop
<1>3. PICK td : td = Then(do, rest) /\ td # <<>> /\ Head(td) = do /\ Tail(td) = rest
  BY ThenFacts
<1>4. PICK c2 : c2 = [cl EXCEPT ![c] = Raw]
  OBVIOUS
<1>5. Dropped(c2, cl, c)
  BY <1>4 DEF Dropped, Same, CellFns
<1>6. CellThen(cl, do) = c2 /\ TagThen(tg, do) = tg /\ UndoThen(un, do) = un
  BY <1>2, <1>4 DEF CellThen, TagThen, UndoThen
<1>7. Allowed(cl, do) /\ ~MayThrow(cl, do)
  BY <1>2 DEF Allowed, MayThrow
<1>8. Fine(c2, tg, rest, un, th, P)
  BY <1>5
<1>9. Fine(cl, tg, td, un, th, P)
  BY <1>3, <1>6, <1>7, <1>8, FineBefore
<1> QED BY <1>1, <1>3, <1>9

(* A change of a tag. *)
LEMMA TagCall ==
  ASSUME NEW cl, NEW tg, NEW rest, NEW un, NEW th, NEW P, IsCalls(rest), NEW b, NEW t,
         Fine(cl, [tg EXCEPT ![b] = t], rest, un, th, P)
  PROVE  Fine(cl, tg, Then(SetTag(b, t), rest), un, th, P)
<1>1. PICK do : do = SetTag(b, t)
  OBVIOUS
<1>2. do.do = "tag" /\ do.box = b /\ do.as = t
  BY <1>1 DEF SetTag
<1>3. PICK td : td = Then(do, rest) /\ td # <<>> /\ Head(td) = do /\ Tail(td) = rest
  BY ThenFacts
<1>4. CellThen(cl, do) = cl /\ TagThen(tg, do) = [tg EXCEPT ![b] = t] /\ UndoThen(un, do) = un
  BY <1>2 DEF CellThen, TagThen, UndoThen
<1>5. Allowed(cl, do) /\ ~MayThrow(cl, do)
  BY <1>2 DEF Allowed, MayThrow
<1>6. Fine(cl, tg, td, un, th, P)
  BY <1>3, <1>4, <1>5, FineBefore
<1> QED BY <1>1, <1>3, <1>6

(* The begin or the end of a try block. *)
LEMMA TryCall ==
  ASSUME NEW cl, NEW tg, NEW rest, NEW un, NEW th, NEW P, IsCalls(rest), NEW handler,
         Fine(cl, tg, rest, handler, th, P)
  PROVE  Fine(cl, tg, Then(Try(handler), rest), un, th, P)
<1>1. PICK do : do = Try(handler)
  OBVIOUS
<1>2. do.do = "try" /\ do.handler = handler
  BY <1>1 DEF Try
<1>3. PICK td : td = Then(do, rest) /\ td # <<>> /\ Head(td) = do /\ Tail(td) = rest
  BY ThenFacts
<1>4. CellThen(cl, do) = cl /\ TagThen(tg, do) = tg /\ UndoThen(un, do) = handler
  BY <1>2 DEF CellThen, TagThen, UndoThen
<1>5. Allowed(cl, do) /\ ~MayThrow(cl, do)
  BY <1>2 DEF Allowed, MayThrow
<1>6. Fine(cl, tg, td, un, th, P)
  BY <1>3, <1>4, <1>5, FineBefore
<1> QED BY <1>1, <1>3, <1>6

-----------------------------------------------------------------------------
(* Which cells there are *)

(* No local is built but those in S. *)
Clear(cl, S) == \A c \in Locals \ S : ~LiveIn(cl, c)

(* The cells on the stack are three, and the argument is in none of them. *)
LEMMA LocalCells ==
  /\ Locals = {Buffer, Tmp, Backup} /\ Locals \subseteq Cells
  /\ Buffer # Tmp /\ Buffer # Backup /\ Tmp # Backup
  /\ Args \in Cells /\ Args \notin Locals
<1>1. Locals = {Buffer, Tmp, Backup}
  BY DEF Locals, Buffer, Tmp, Backup
<1>2. Buffer # Tmp /\ Buffer # Backup /\ Tmp # Backup
  BY DEF Buffer, Tmp, Backup
<1>3. Args # Buffer
  BY DEF Buffer, Args
<1>4. Args # Tmp
  BY DEF Tmp, Args
<1>5. Args # Backup
  BY DEF Backup, Args
<1>6. Locals \subseteq Cells /\ Args \in Cells
  BY DEF Cells
<1> QED BY <1>1, <1>2, <1>3, <1>4, <1>5, <1>6

(* The two cells of a box are apart, from the stack and from the argument. *)
LEMMA BoxCells ==
  ASSUME NEW b \in AllBoxes
  PROVE  /\ First(b) \in Cells /\ Second(b) \in Cells /\ First(b) # Second(b)
         /\ First(b) \notin Locals /\ Second(b) \notin Locals /\ First(b) # Args /\ Second(b) # Args
<1>1. First(b) \in Cells /\ Second(b) \in Cells
  BY DEF Cells
<1>2. First(b) # Second(b) /\ First(b) # Args /\ Second(b) # Args
  BY DEF First, Second, Args
<1>3. First(b) # Buffer /\ First(b) # Tmp /\ First(b) # Backup
  BY DEF First, Buffer, Tmp, Backup
<1>4. Second(b) # Buffer /\ Second(b) # Tmp /\ Second(b) # Backup
  BY DEF Second, Buffer, Tmp, Backup
<1> QED BY <1>1, <1>2, <1>3, <1>4, LocalCells

(* Two boxes share no cell. *)
LEMMA BoxesApart ==
  ASSUME NEW b \in AllBoxes, NEW o \in AllBoxes, b # o
  PROVE  First(b) # First(o) /\ First(b) # Second(o) /\ Second(b) # First(o) /\ Second(b) # Second(o)
BY DEF First, Second

(* The temporary box is not one of the program's. *)
LEMMA TempApart == Boxes \subseteq AllBoxes /\ Temp \in AllBoxes /\ Temp \notin Boxes
BY CellAssumption DEF AllBoxes

-----------------------------------------------------------------------------
(* What an exception does on its way out: the locals go, the rest stays. *)

Rest(c2, cl) == c2 \in CellFns /\ Clear(c2, {}) /\ Same(c2, cl, Locals)
Unwinds(cl, tg, un, P) == \A c2 : Rest(c2, cl) => Fine(c2, tg, un, <<>>, TRUE, P)
IsUndo(un) == un = <<>> \/ \E b, t : un = <<SetTag(b, t)>>

(* The destructor call of a local is a list of calls. *)
LEMMA DropLiveCalls ==
  ASSUME NEW cl, NEW c
  PROVE  IsCalls(DropLive(cl, c))
BY OneCall, NoCalls DEF DropLive

(* The destructor call of a local, if it has an object. *)
LEMMA DropIt ==
  ASSUME NEW cl \in CellFns, NEW tg, NEW P, NEW rest, NEW c \in Cells, NEW at,
         IsCalls(rest), LiveIn(at, c) <=> LiveIn(cl, c),
         \A c2 : c2 \in CellFns /\ ~LiveIn(c2, c) /\ Same(c2, cl, {c})
           => Fine(c2, tg, rest, <<>>, TRUE, P)
  PROVE  Fine(cl, tg, DropLive(at, c) \o rest, <<>>, TRUE, P)
<1>1. CASE LiveIn(cl, c)
  <2>1. DropLive(at, c) \o rest = Then(Drop(c), rest)
    BY <1>1, OneCall DEF DropLive
  <2>2. ASSUME NEW c2, Dropped(c2, cl, c)
        PROVE  Fine(c2, tg, rest, <<>>, TRUE, P)
    BY <2>2 DEF Dropped, LiveIn
  <2> QED BY <1>1, <2>1, <2>2, DropCall DEF LiveIn
<1>2. CASE ~LiveIn(cl, c)
  <2>1. DropLive(at, c) \o rest = rest
    BY <1>2, NothingJoined DEF DropLive
  <2> QED BY <1>2, <2>1 DEF Same
<1> QED BY <1>1, <1>2

(* The destructor calls of all locals, in the order an exception makes them. *)
LEMMA DropsFine ==
  ASSUME NEW cl \in CellFns, NEW tg, NEW P, NEW at,
         \A l \in Locals : LiveIn(at, l) <=> LiveIn(cl, l),
         \A c2 : Rest(c2, cl) => <<c2, tg, TRUE>> \in P
  PROVE  Fine(cl, tg, DropLive(at, Backup) \o (DropLive(at, Tmp) \o DropLive(at, Buffer)),
              <<>>, TRUE, P)
<1>1. IsCalls(DropLive(at, Buffer)) /\ IsCalls(DropLive(at, Tmp) \o DropLive(at, Buffer))
  BY DropLiveCalls, JoinedCalls
<1>2. SUFFICES ASSUME NEW c1 \in CellFns, ~LiveIn(c1, Backup), Same(c1, cl, {Backup})
               PROVE  Fine(c1, tg, DropLive(at, Tmp) \o DropLive(at, Buffer), <<>>, TRUE, P)
  BY <1>1, DropIt, LocalCells
<1>3. LiveIn(at, Tmp) <=> LiveIn(c1, Tmp)
  BY <1>2, LocalCells DEF Same, LiveIn
<1>4. SUFFICES ASSUME NEW c2 \in CellFns, ~LiveIn(c2, Tmp), Same(c2, c1, {Tmp})
               PROVE  Fine(c2, tg, DropLive(at, Buffer), <<>>, TRUE, P)
  BY <1>1, <1>3, DropIt, LocalCells
<1>5. LiveIn(at, Buffer) <=> LiveIn(c2, Buffer)
  BY <1>2, <1>4, LocalCells DEF Same, LiveIn
<1>6. DropLive(at, Buffer) = DropLive(at, Buffer) \o <<>>
  BY <1>1, NothingJoined
<1>7. SUFFICES ASSUME NEW c3 \in CellFns, ~LiveIn(c3, Buffer), Same(c3, c2, {Buffer})
               PROVE  Fine(c3, tg, <<>>, <<>>, TRUE, P)
  BY <1>5, <1>6, NoCalls, DropIt, LocalCells
<1>8. Clear(c3, {}) /\ Same(c3, cl, Locals)
  BY <1>2, <1>4, <1>7, LocalCells DEF Same, LiveIn, Clear
<1> QED BY <1>7, <1>8, FineEnd DEF Rest

(* An exception's calls, one list at a time. *)
LEMMA UnwoundIs ==
  ASSUME NEW un, NEW cl, IsCalls(un)
  PROVE  Unwound(un, cl) = un \o (DropLive(cl, Backup) \o (DropLive(cl, Tmp) \o DropLive(cl, Buffer)))
<1>1. PICK x, y, z : x = DropLive(cl, Backup) /\ y = DropLive(cl, Tmp) /\ z = DropLive(cl, Buffer)
  OBVIOUS
<1>2. IsCalls(x) /\ IsCalls(y) /\ IsCalls(z)
  BY <1>1, DropLiveCalls
<1>3. ((un \o x) \o y) \o z = un \o (x \o (y \o z))
  BY ONLY IsCalls(un), <1>2, ThreeJoined
<1> QED BY <1>1, <1>3 DEF Unwound

(* If a handler goes on well from clear locals, the exception it handles does. *)
LEMMA Unwinding ==
  ASSUME NEW cl \in CellFns, NEW tg, NEW P, NEW un, IsUndo(un), Unwinds(cl, tg, un, P)
  PROVE  Fine(cl, tg, Unwound(un, cl), <<>>, TRUE, P)
<1>1. PICK drops : drops = DropLive(cl, Backup) \o (DropLive(cl, Tmp) \o DropLive(cl, Buffer))
  OBVIOUS
<1>2. IsCalls(drops)
  BY <1>1, DropLiveCalls, JoinedCalls
<1>3. CASE un = <<>>
  <2>1. \A c2 : Rest(c2, cl) => <<c2, tg, TRUE>> \in P
    BY <1>3, FineAtEnd DEF Unwinds
  <2>2. Fine(cl, tg, drops, <<>>, TRUE, P)
    BY <1>1, <2>1, DropsFine
  <2>3. Unwound(un, cl) = drops
    BY <1>1, <1>2, <1>3, UnwoundIs, NothingJoined, NoCalls
  <2> QED BY <2>2, <2>3
<1>4. ASSUME NEW b, NEW t, un = <<SetTag(b, t)>>
      PROVE  Fine(cl, tg, Unwound(un, cl), <<>>, TRUE, P)
  <2>1. PICK do, t2 : do = SetTag(b, t) /\ t2 = [tg EXCEPT ![b] = t]
    OBVIOUS
  <2>2. IsCalls(un) /\ un = Then(do, <<>>) /\ un \o drops = Then(do, drops)
    BY <1>2, <1>4, <2>1, OneCall, NoCalls, NothingJoined
  <2>3. ASSUME NEW c2, Rest(c2, cl)
        PROVE  <<c2, t2, TRUE>> \in P
    <3>1. Fine(c2, tg, un, <<>>, TRUE, P)
      BY <2>3 DEF Unwinds
    <3>2. un # <<>> /\ Head(un) = do /\ Tail(un) = <<>>
      BY <2>2, ThenFacts, NoCalls
    <3>3. CellThen(c2, do) = c2 /\ TagThen(tg, do) = t2 /\ UndoThen(<<>>, do) = <<>>
      BY <2>1 DEF SetTag, CellThen, TagThen, UndoThen
    <3>4. Fine(CellThen(c2, do), TagThen(tg, do), Tail(un), UndoThen(<<>>, do), TRUE, P)
      BY <3>1, <3>2, FineGoesOn
    <3>5. Fine(c2, t2, <<>>, <<>>, TRUE, P)
      BY <3>2, <3>3, <3>4
    <3> QED BY <3>5, FineAtEnd
  <2>4. Fine(cl, t2, drops, <<>>, TRUE, P)
    BY <1>1, <2>3, DropsFine
  <2>5. Fine(cl, tg, Then(do, drops), <<>>, TRUE, P)
    BY <1>2, <2>1, <2>4, TagCall
  <2> QED BY <1>1, <2>2, <2>5, UnwoundIs
<1> QED BY <1>3, <1>4 DEF IsUndo

(* A call may come between the throw and the handler as long as it only changes locals. *)
LEMMA UnwindsLater ==
  ASSUME NEW cl, NEW c1 \in CellFns, NEW tg, NEW un, NEW P, Unwinds(cl, tg, un, P),
         Same(c1, cl, Locals)
  PROVE  Unwinds(c1, tg, un, P)
BY DEF Unwinds, Rest, Same

-----------------------------------------------------------------------------
(* emplace_at: the new object is in c, the source is left, the buffer is empty. *)

Replaced(c2, cl, c, from, how) ==
  /\ c2 \in CellFns /\ c2[c] = cl[from] /\ c2[from] = Left(cl[from], how)
  /\ ~LiveIn(c2, Buffer) /\ Same(c2, cl, {c, from, Buffer})

(* emplace_at puts a new object in place of the old one, or throws and leaves the old
   one. *)
LEMMA EmplaceAtFine ==
  ASSUME NEW cl \in CellFns, NEW tg, NEW rest, NEW un, NEW th, NEW P,
         NEW c \in Cells, NEW ty \in Types, NEW from \in Cells, NEW how,
         IsCalls(rest), IsUndo(un), c # from, c # Buffer, from # Buffer,
         LiveIn(cl, c), LiveIn(cl, from), ~LiveIn(cl, Buffer),
         cl[from].ty = ty, CanStrongReplace(ty) \/ NothrowOf(ty, how),
         NothrowOf(ty, how) \/ Unwinds(cl, tg, un, P),
         \A c2 : Replaced(c2, cl, c, from, how) => Fine(c2, tg, rest, un, th, P)
  PROVE  Fine(cl, tg, EmplaceAt(c, ty, from, how) \o rest, un, th, P)
<1>1. Buffer \in Cells
  BY LocalCells
<1>2. PICK x \in Objects : x = cl[from] /\ x.ty = ty
  BY LiveIsObject
<1>3. Left(x, how) \in Objects /\ x # Raw /\ x # Null
  BY ObjectParts
<1>4. NothrowOf(cl[from].ty, how) \/ Fine(cl, tg, Unwound(un, cl), <<>>, TRUE, P)
  BY Unwinding
<1>5. ASSUME NEW by \in {"move", "copy"},
             EmplaceAt(c, ty, from, how) = <<Make(Buffer, from, how), Put(c, Buffer, by), Drop(Buffer)>>
      PROVE  Fine(cl, tg, EmplaceAt(c, ty, from, how) \o rest, un, th, P)
  <2>1. PICK r1, r2 : r2 = Then(Drop(Buffer), rest) /\ r1 = Then(Put(c, Buffer, by), r2)
    OBVIOUS
  <2>2. IsCalls(r1) /\ IsCalls(r2)
    BY <2>1, ThenFacts
  <2>3. EmplaceAt(c, ty, from, how) \o rest = Then(Make(Buffer, from, how), r1)
    BY <1>5, <2>1, ThreeCalls
  <2>4. SUFFICES ASSUME NEW c1, Made(c1, cl, Buffer, from, how)
                 PROVE  Fine(c1, tg, r1, un, th, P)
    BY <1>1, <1>2, <1>4, <2>2, <2>3, MakeCall
  <2>5. /\ c1 \in CellFns /\ c1[Buffer] = x /\ c1[from] = Left(x, how) /\ c1[c] = cl[c]
        /\ LiveIn(c1, c) /\ LiveIn(c1, Buffer) /\ Same(c1, cl, {Buffer, from})
    BY <1>2, <1>3, <2>4 DEF Made, Same, LiveIn
  <2>6. SUFFICES ASSUME NEW c2, Made(c2, c1, c, Buffer, by)
                 PROVE  Fine(c2, tg, r2, un, th, P)
    BY <1>1, <2>1, <2>2, <2>5, PutCall
  <2>7. /\ c2 \in CellFns /\ c2[c] = x /\ c2[Buffer] = Left(x, by) /\ c2[from] = Left(x, how)
        /\ Same(c2, cl, {c, Buffer, from})
    BY <1>2, <2>5, <2>6 DEF Made, Same
  <2>8. c2[Buffer] # Raw
    BY <1>2, <2>7, ObjectParts
  <2>9. SUFFICES ASSUME NEW c3, Dropped(c3, c2, Buffer)
                 PROVE  Fine(c3, tg, rest, un, th, P)
    BY <1>1, <2>1, <2>7, <2>8, DropCall
  <2>10. Replaced(c3, cl, c, from, how)
    BY <1>2, <2>7, <2>9 DEF Dropped, Same, Replaced, LiveIn
  <2> QED BY <2>10
<1>6. CASE NothrowOf(ty, "moveAssign")
  <2>1. EmplaceAt(c, ty, from, how) = <<Make(Buffer, from, how), Put(c, Buffer, "move"), Drop(Buffer)>>
    BY <1>6 DEF EmplaceAt, NothrowOf, CanStrongReplace, CanStrongConstruct
  <2> QED BY <1>5, <2>1
<1>7. CASE ~NothrowOf(ty, "moveAssign") /\ NothrowOf(ty, "copyAssign")
  <2>1. EmplaceAt(c, ty, from, how) = <<Make(Buffer, from, how), Put(c, Buffer, "copy"), Drop(Buffer)>>
    BY <1>7 DEF EmplaceAt, NothrowOf, CanStrongReplace, CanStrongConstruct
  <2> QED BY <1>5, <2>1
<1>8. CASE ~NothrowOf(ty, "moveAssign") /\ ~NothrowOf(ty, "copyAssign") /\ CanStrongConstruct(ty)
  <2>1. PICK by : by = Transfer(ty)
    OBVIOUS
  <2>2. NothrowOf(ty, by)
    BY <1>8, <2>1 DEF Transfer, NothrowOf, CanStrongConstruct
  <2>3. EmplaceAt(c, ty, from, how) =
          <<Make(Buffer, from, how), Drop(c), Make(c, Buffer, by), Drop(Buffer)>>
    BY <1>8, <2>1 DEF EmplaceAt, NothrowOf, CanStrongReplace, CanStrongConstruct
  <2>4. PICK r1, r2, r3 : /\ r3 = Then(Drop(Buffer), rest) /\ r2 = Then(Make(c, Buffer, by), r3)
                          /\ r1 = Then(Drop(c), r2)
    OBVIOUS
  <2>5. IsCalls(r1) /\ IsCalls(r2) /\ IsCalls(r3)
    BY <2>4, ThenFacts
  <2>6. EmplaceAt(c, ty, from, how) \o rest = Then(Make(Buffer, from, how), r1)
    BY <2>3, <2>4, FourCalls
  <2>7. SUFFICES ASSUME NEW c1, Made(c1, cl, Buffer, from, how)
                 PROVE  Fine(c1, tg, r1, un, th, P)
    BY <1>1, <1>2, <1>4, <2>5, <2>6, MakeCall
  <2>8. /\ c1 \in CellFns /\ c1[Buffer] = x /\ c1[from] = Left(x, how) /\ c1[c] # Raw
        /\ Same(c1, cl, {Buffer, from})
    BY <1>2, <1>3, <2>7 DEF Made, Same, LiveIn
  <2>9. SUFFICES ASSUME NEW c2, Dropped(c2, c1, c)
                 PROVE  Fine(c2, tg, r2, un, th, P)
    BY <2>4, <2>5, <2>8, DropCall
  <2>10. /\ c2 \in CellFns /\ c2[Buffer] = x /\ c2[from] = Left(x, how)
         /\ ~LiveIn(c2, c) /\ LiveIn(c2, Buffer) /\ Same(c2, cl, {Buffer, from, c})
    BY <1>1, <1>3, <2>8, <2>9 DEF Dropped, Same, LiveIn
  <2>11. SUFFICES ASSUME NEW c3, Made(c3, c2, c, Buffer, by)
                  PROVE  Fine(c3, tg, r3, un, th, P)
    BY <1>1, <1>2, <2>2, <2>4, <2>5, <2>10, MakeCall
  <2>12. /\ c3 \in CellFns /\ c3[c] = x /\ c3[from] = Left(x, how) /\ c3[Buffer] = Left(x, by)
         /\ Same(c3, cl, {Buffer, from, c})
    BY <1>2, <2>10, <2>11 DEF Made, Same
  <2>13. c3[Buffer] # Raw
    BY <1>2, <2>12, ObjectParts
  <2>14. SUFFICES ASSUME NEW c4, Dropped(c4, c3, Buffer)
                  PROVE  Fine(c4, tg, rest, un, th, P)
    BY <1>1, <2>4, <2>12, <2>13, DropCall
  <2>15. Replaced(c4, cl, c, from, how)
    BY <1>2, <2>12, <2>14 DEF Dropped, Same, Replaced, LiveIn
  <2> QED BY <2>15
<1>9. CASE ~CanStrongReplace(ty)
  <2>1. EmplaceAt(c, ty, from, how) = <<Drop(c), Make(c, from, how)>> /\ NothrowOf(ty, how)
    BY <1>9 DEF EmplaceAt, NothrowOf, CanStrongReplace, CanStrongConstruct
  <2>2. PICK r1 : r1 = Then(Make(c, from, how), rest)
    OBVIOUS
  <2>3. IsCalls(r1)
    BY <2>2, ThenFacts
  <2>4. EmplaceAt(c, ty, from, how) \o rest = Then(Drop(c), r1)
    BY <2>1, <2>2, TwoCalls
  <2>5. SUFFICES ASSUME NEW c1, Dropped(c1, cl, c)
                 PROVE  Fine(c1, tg, r1, un, th, P)
    BY <2>3, <2>4, DropCall DEF LiveIn
  <2>6. /\ c1 \in CellFns /\ c1[from] = x /\ ~LiveIn(c1, c) /\ LiveIn(c1, from) /\ Same(c1, cl, {c})
    BY <1>2, <1>3, <2>5 DEF Dropped, Same, LiveIn
  <2>7. SUFFICES ASSUME NEW c2, Made(c2, c1, c, from, how)
                 PROVE  Fine(c2, tg, rest, un, th, P)
    BY <1>2, <2>1, <2>2, <2>6, MakeCall
  <2>8. Replaced(c2, cl, c, from, how)
    BY <1>1, <1>2, <2>6, <2>7 DEF Made, Same, Replaced, LiveIn
  <2> QED BY <2>8
<1> QED BY <1>6, <1>7, <1>8, <1>9 DEF CanStrongReplace, CanStrongConstruct, NothrowOf

-----------------------------------------------------------------------------
(* Boxes: the object in a box is the one that its tag names. *)

KindFits ==
  \/ kind = "either" /\ T \in Types \cup {Void} /\ U \in SecondTypes
  \/ kind = "inplace" /\ T \in Types /\ U = Void
  \/ kind = "erased" /\ T = Void /\ U = Void

Names(t) == t \notin {Gone, Empty}
Keeps(b, t, c) == Names(t) /\ TypeOf(t) # Void /\ c = CellOf(b, t)

BoxFits(cl, tg, b) ==
  \A c \in {First(b), Second(b)} :
    /\ LiveIn(cl, c) <=> Keeps(b, tg[b], c)
    /\ Keeps(b, tg[b], c) => cl[c].ty = TypeOf(tg[b])

Sides(b, c, d) == c # d /\ (<<c, d>> = <<First(b), Second(b)>> \/ <<c, d>> = <<Second(b), First(b)>>)
Bare(cl, b) == ~LiveIn(cl, First(b)) /\ ~LiveIn(cl, Second(b))

(* What an alternative says of its type and of the cell of its object. *)
LEMMA AlternativeFacts ==
  ASSUME KindFits, NEW alt \in Alternatives
  PROVE  /\ Names(alt) /\ alt \in Tags /\ TypeOf(alt) \in Types \cup {Void}
         /\ alt = "second" => kind = "either" /\ TypeOf(alt) = U /\ U \in Types
         /\ alt # "second" => \A b : CellOf(b, alt) = First(b)
         /\ alt = "second" => \A b : CellOf(b, alt) = Second(b)
         /\ kind # "erased" /\ alt # "second" => alt = "first" /\ TypeOf(alt) = T
         /\ kind = "erased" => TypeOf(alt) = alt /\ alt \in Types /\ alt # Void
         /\ kind = "inplace" => TypeOf(alt) # Void
BY CellAssumption, BoxAssumption
   DEF KindFits, Alternatives, Names, Tags, TypeOf, CellOf

(* A box whose tag names no object fits when it has none. *)
LEMMA BareFits ==
  ASSUME NEW cl, NEW tg, NEW b, ~Names(tg[b]) \/ TypeOf(tg[b]) = Void
  PROVE  BoxFits(cl, tg, b) <=> Bare(cl, b)
BY DEF BoxFits, Bare, Keeps

(* A box whose tag names an object fits when it has that one and no other. *)
LEMMA FullFits ==
  ASSUME NEW cl, NEW tg, NEW b, NEW t, NEW c, NEW d, t = tg[b], Names(t), TypeOf(t) # Void,
         c = CellOf(b, t), Sides(b, c, d)
  PROVE  BoxFits(cl, tg, b) <=> LiveIn(cl, c) /\ cl[c].ty = TypeOf(t) /\ ~LiveIn(cl, d)
BY DEF BoxFits, Keeps, Sides

-----------------------------------------------------------------------------
(* What most operations do: box b gets alternative alt, with the value of the object
   in from, which is left as how leaves it; nothing else changes. *)

Ready(cl, tg, b, alt, from) ==
  /\ cl \in CellFns /\ tg \in TagFns /\ b \in AllBoxes /\ alt \in Alternatives
  /\ from \in Cells \ {First(b), Second(b), Buffer, Backup}
  /\ Clear(cl, {from})
  /\ TypeOf(alt) # Void => LiveIn(cl, from) /\ cl[from].ty = TypeOf(alt)
  /\ TypeOf(alt) = Void => ~LiveIn(cl, from)

Placed(c2, t2, cl, tg, b, alt, from, how) ==
  /\ c2 \in CellFns /\ t2 = [tg EXCEPT ![b] = alt]
  /\ BoxFits(c2, t2, b) /\ ValOf(c2[CellOf(b, alt)]) = ValOf(cl[from])
  /\ c2[from] = Left(cl[from], how) /\ Clear(c2, {from})
  /\ Same(c2, cl, {First(b), Second(b), from} \cup Locals)

Throws(alt, how) == TypeOf(alt) # Void /\ ~NothrowOf(TypeOf(alt), how)

Places(body, cl, tg, un, b, alt, from, how) ==
  /\ IsCalls(body)
  /\ \A rest, th, P :
       /\ IsCalls(rest)
       /\ Throws(alt, how) => Unwinds(cl, tg, un, P)
       /\ \A c2, t2 : Placed(c2, t2, cl, tg, b, alt, from, how) => Fine(c2, t2, rest, un, th, P)
       => Fine(cl, tg, body \o rest, un, th, P)

(* What follows from Ready, in the shape the proofs use it. *)
LEMMA ReadyCells ==
  ASSUME KindFits, NEW cl, NEW tg, NEW b, NEW alt, NEW from, Ready(cl, tg, b, alt, from),
         NEW c, c = CellOf(b, alt)
  PROVE  \E d : /\ Sides(b, c, d) /\ c \in Cells /\ d \in Cells
                /\ c # from /\ d # from /\ c \notin Locals /\ d \notin Locals
                /\ Buffer \in Cells /\ Backup \in Cells /\ Tmp \in Cells
                /\ from # Buffer /\ from # Backup
<1>1. b \in AllBoxes /\ alt \in Alternatives /\ from \in Cells \ {First(b), Second(b), Buffer, Backup}
  BY DEF Ready
<1>2. CASE alt = "second"
  <2>1. c = Second(b)
    BY <1>1, <1>2, AlternativeFacts
  <2> WITNESS First(b)
  <2> QED BY <1>1, <2>1, BoxCells, LocalCells DEF Sides
<1>3. CASE alt # "second"
  <2>1. c = First(b)
    BY <1>1, <1>3, AlternativeFacts
  <2>2. First(b) # Second(b)
    BY <1>1, BoxCells
  <2> WITNESS Second(b)
  <2> QED BY <1>1, <2>1, BoxCells, LocalCells DEF Sides
<1> QED BY <1>2, <1>3

(* The object is where the tag says and nowhere else in the box. *)
LEMMA IsPlaced ==
  ASSUME KindFits, NEW cl, NEW tg, NEW b, NEW alt, NEW from, NEW how, NEW c2, NEW t2,
         Ready(cl, tg, b, alt, from), TypeOf(alt) # Void,
         c2 \in CellFns, t2 = [tg EXCEPT ![b] = alt],
         NEW c, NEW d, c = CellOf(b, alt), Sides(b, c, d),
         ~LiveIn(c2, d), c2[c] = cl[from], c2[from] = Left(cl[from], how),
         Clear(c2, {from}), Same(c2, cl, {First(b), Second(b), from} \cup Locals)
  PROVE  Placed(c2, t2, cl, tg, b, alt, from, how)
<1>1. /\ cl \in CellFns /\ tg \in TagFns /\ b \in AllBoxes /\ alt \in Alternatives
      /\ from \in Cells /\ LiveIn(cl, from) /\ cl[from].ty = TypeOf(alt)
  BY DEF Ready
<1>2. t2[b] = alt /\ Names(alt)
  BY <1>1, AlternativeFacts DEF TagFns
<1>3. LiveIn(c2, c) /\ c2[c].ty = TypeOf(alt)
  BY <1>1, <1>2 DEF LiveIn
<1>4. BoxFits(c2, t2, b)
  BY <1>1, <1>2, <1>3, FullFits
<1> QED BY <1>4 DEF Placed

(* A void alternative is in place when the tag names it and the box is bare. *)
LEMMA VoidPlaced ==
  ASSUME KindFits, NEW cl, NEW tg, NEW b, NEW alt, NEW from, NEW how, NEW t2,
         Ready(cl, tg, b, alt, from), TypeOf(alt) = Void, Bare(cl, b), t2 = [tg EXCEPT ![b] = alt]
  PROVE  Placed(cl, t2, cl, tg, b, alt, from, how)
<1>1. /\ cl \in CellFns /\ tg \in TagFns /\ b \in AllBoxes /\ alt \in Alternatives
      /\ from \in Cells /\ ~LiveIn(cl, from) /\ Clear(cl, {from})
  BY DEF Ready
<1>2. PICK c, d : c = CellOf(b, alt) /\ Sides(b, c, d) /\ c \in Cells
  BY ReadyCells
<1>3. cl[from] \notin Objects /\ cl[c] \notin Objects
  BY <1>1, <1>2, LiveIsObject DEF Bare, Sides
<1>4. t2[b] = alt
  BY <1>1, AlternativeFacts DEF TagFns
<1>5. BoxFits(cl, t2, b)
  BY <1>4, BareFits
<1> QED BY <1>1, <1>2, <1>3, <1>5 DEF Placed, ValOf, Left, Same

(* Nothing that Placed speaks of has changed before. *)
LEMMA PlacedAfter ==
  ASSUME NEW c2, NEW t2, NEW c1, NEW t1, NEW cl, NEW tg, NEW b, NEW alt, NEW from, NEW how,
         Placed(c2, t2, c1, t1, b, alt, from, how), c1[from] = cl[from],
         Same(c1, cl, {First(b), Second(b), from} \cup Locals),
         [t1 EXCEPT ![b] = alt] = [tg EXCEPT ![b] = alt]
  PROVE  Placed(c2, t2, cl, tg, b, alt, from, how)
BY DEF Placed, Same

(* Calls that leave the source alone leave it ready. *)
LEMMA ReadyAfter ==
  ASSUME NEW c1 \in CellFns, NEW t1 \in TagFns, NEW cl, NEW tg, NEW b, NEW alt, NEW from,
         Ready(cl, tg, b, alt, from), c1[from] = cl[from], Clear(c1, {from})
  PROVE  Ready(c1, t1, b, alt, from)
BY DEF Ready, LiveIn

(* One constructor call. *)
LEMMA MakeFine ==
  ASSUME KindFits, NEW cl, NEW tg, NEW b, NEW alt, NEW from, NEW how,
         NEW rest, NEW un, NEW th, NEW P, NEW c, NEW t2, c = CellOf(b, alt),
         Ready(cl, tg, b, alt, from), TypeOf(alt) # Void, Bare(cl, b), IsCalls(rest), IsUndo(un),
         Throws(alt, how) => Unwinds(cl, tg, un, P), t2 = [tg EXCEPT ![b] = alt],
         \A c2 : Placed(c2, t2, cl, tg, b, alt, from, how) => Fine(c2, tg, rest, un, th, P)
  PROVE  Fine(cl, tg, Then(Make(c, from, how), rest), un, th, P)
<1>1. /\ cl \in CellFns /\ tg \in TagFns /\ b \in AllBoxes /\ alt \in Alternatives
      /\ from \in Cells /\ LiveIn(cl, from) /\ cl[from].ty = TypeOf(alt) /\ Clear(cl, {from})
  BY DEF Ready
<1>2. PICK d : /\ Sides(b, c, d) /\ c \in Cells /\ d \in Cells
               /\ c # from /\ d # from /\ c \notin Locals /\ d \notin Locals
  BY ReadyCells
<1>3. ~LiveIn(cl, c) /\ ~LiveIn(cl, d) /\ c # d
  BY <1>2 DEF Bare, Sides
<1>4. NothrowOf(cl[from].ty, how) \/ Fine(cl, tg, Unwound(un, cl), <<>>, TRUE, P)
  BY <1>1, Unwinding DEF Throws
<1>5. SUFFICES ASSUME NEW c2, Made(c2, cl, c, from, how)
               PROVE  Fine(c2, tg, rest, un, th, P)
  BY <1>1, <1>2, <1>3, <1>4, MakeCall
<1>6. /\ c2 \in CellFns /\ ~LiveIn(c2, d) /\ c2[c] = cl[from] /\ c2[from] = Left(cl[from], how)
      /\ Same(c2, cl, {First(b), Second(b), from} \cup Locals)
  BY <1>2, <1>3, <1>5 DEF Made, Same, LiveIn, Sides
<1>7. Clear(c2, {from})
  BY <1>1, <1>2, <1>5, LocalCells DEF Made, Same, LiveIn, Clear
<1>8. Placed(c2, t2, cl, tg, b, alt, from, how)
  BY <1>2, <1>6, <1>7, IsPlaced
<1> QED BY <1>8

(* One constructor call and the tag. *)
LEMMA BuildFine ==
  ASSUME KindFits, NEW cl, NEW tg, NEW b, NEW alt, NEW from, NEW how,
         NEW rest, NEW un, NEW th, NEW P, NEW c, c = CellOf(b, alt),
         Ready(cl, tg, b, alt, from), TypeOf(alt) # Void, Bare(cl, b), IsCalls(rest), IsUndo(un),
         Throws(alt, how) => Unwinds(cl, tg, un, P),
         \A c2, t2 : Placed(c2, t2, cl, tg, b, alt, from, how) => Fine(c2, t2, rest, un, th, P)
  PROVE  Fine(cl, tg, Then(Make(c, from, how), Then(SetTag(b, alt), rest)), un, th, P)
<1>1. PICK r1, t2 : r1 = Then(SetTag(b, alt), rest) /\ t2 = [tg EXCEPT ![b] = alt]
  OBVIOUS
<1>2. IsCalls(r1)
  BY <1>1, ThenFacts
<1>3. ASSUME NEW c2, Placed(c2, t2, cl, tg, b, alt, from, how)
      PROVE  Fine(c2, tg, r1, un, th, P)
  <2>1. Fine(c2, t2, rest, un, th, P)
    BY <1>3
  <2> QED BY <1>1, <2>1, TagCall
<1> QED BY <1>1, <1>2, <1>3, MakeFine

(* The box already holds the alternative: emplace_at replaces the object. *)
LEMMA EmplacePlaces ==
  ASSUME KindFits, NEW cl, NEW tg, NEW b, NEW alt, NEW from, NEW how, NEW un, NEW c, NEW ty,
         c = CellOf(b, alt), ty = TypeOf(alt), Ready(cl, tg, b, alt, from), ty # Void, IsUndo(un),
         tg[b] = alt, BoxFits(cl, tg, b), CanStrongReplace(ty) \/ NothrowOf(ty, how)
  PROVE  Places(EmplaceAt(c, ty, from, how), cl, tg, un, b, alt, from, how)
<1>1. /\ cl \in CellFns /\ tg \in TagFns /\ b \in AllBoxes /\ alt \in Alternatives
      /\ from \in Cells /\ LiveIn(cl, from) /\ cl[from].ty = ty /\ Clear(cl, {from})
  BY DEF Ready
<1>2. PICK d : /\ Sides(b, c, d) /\ c \in Cells /\ d \in Cells
               /\ c # from /\ d # from /\ c \notin Locals /\ d \notin Locals
               /\ from # Buffer /\ Buffer \in Cells
  BY ReadyCells
<1>3. ty \in Types /\ Names(alt)
  BY <1>1, AlternativeFacts
<1>4. LiveIn(cl, c) /\ ~LiveIn(cl, d)
  BY <1>1, <1>2, <1>3, FullFits
<1>5. ~LiveIn(cl, Buffer) /\ c # Buffer
  BY <1>1, <1>2, LocalCells DEF Clear
<1>6. IsCalls(EmplaceAt(c, ty, from, how))
  BY TwoCalls, ThreeCalls, FourCalls
     DEF EmplaceAt, NothrowOf, CanStrongReplace, CanStrongConstruct
<1>7. ASSUME NEW rest, NEW th, NEW P, IsCalls(rest),
             Throws(alt, how) => Unwinds(cl, tg, un, P),
             \A c2, t2 : Placed(c2, t2, cl, tg, b, alt, from, how) => Fine(c2, t2, rest, un, th, P)
      PROVE  Fine(cl, tg, EmplaceAt(c, ty, from, how) \o rest, un, th, P)
  <2>1. ASSUME NEW c2, Replaced(c2, cl, c, from, how)
        PROVE  Fine(c2, tg, rest, un, th, P)
    <3>1. tg = [tg EXCEPT ![b] = alt]
      BY <1>1 DEF TagFns
    <3>2. /\ c2 \in CellFns /\ c2[c] = cl[from] /\ c2[from] = Left(cl[from], how) /\ ~LiveIn(c2, d)
          /\ Same(c2, cl, {First(b), Second(b), from} \cup Locals)
      BY <1>2, <1>4, <2>1, LocalCells DEF Replaced, Same, LiveIn, Sides
    <3>3. Clear(c2, {from})
      BY <1>1, <1>2, <2>1, LocalCells DEF Replaced, Same, LiveIn, Clear
    <3>4. Placed(c2, tg, cl, tg, b, alt, from, how)
      BY <1>2, <3>1, <3>2, <3>3, IsPlaced
    <3> QED BY <1>7, <3>4
  <2>2. NothrowOf(ty, how) \/ Unwinds(cl, tg, un, P)
    BY <1>7 DEF Throws
  <2> QED BY <1>1, <1>2, <1>3, <1>4, <1>5, <1>7, <2>1, <2>2, EmplaceAtFine
<1> QED BY <1>6, <1>7 DEF Places

-----------------------------------------------------------------------------
(* Constructors of a box: inside the try block an exception takes the box away again. *)

NoBox(b) == <<SetTag(b, Gone)>>

(* The handler of a constructor takes the box away again. *)
LEMMA InTry ==
  ASSUME NEW cl, NEW tg \in TagFns, NEW P, NEW b \in AllBoxes, NEW t, NEW t1,
         tg[b] = Gone, t1 = [tg EXCEPT ![b] = t], Unwinds(cl, tg, <<>>, P)
  PROVE  IsUndo(NoBox(b)) /\ Unwinds(cl, t1, NoBox(b), P)
<1> SUFFICES ASSUME NEW c2, Rest(c2, cl)
             PROVE  Fine(c2, t1, NoBox(b), <<>>, TRUE, P)
  BY DEF Unwinds, IsUndo, NoBox
<1>1. Fine(c2, tg, <<>>, <<>>, TRUE, P)
  BY DEF Unwinds
<1>2. [t1 EXCEPT ![b] = Gone] = tg
  BY DEF TagFns
<1>3. Fine(c2, t1, Then(SetTag(b, Gone), <<>>), <<>>, TRUE, P)
  BY <1>1, <1>2, NoCalls, TagCall
<1>4. NoBox(b) = Then(SetTag(b, Gone), <<>>)
  BY OneCall, NothingJoined DEF NoBox
<1> QED BY <1>3, <1>4

(* The try block of a constructor, one list at a time. *)
LEMMA OrNoBoxIs ==
  ASSUME NEW b, NEW calls, IsCalls(calls)
  PROVE  /\ IsCalls(OrNoBox(b, calls))
         /\ \A rest : IsCalls(rest) =>
              OrNoBox(b, calls) \o rest = Then(Try(NoBox(b)), calls \o Then(EndTry, rest))
<1>1. PICK x, y : x = Try(NoBox(b)) /\ y = EndTry
  OBVIOUS
<1>2. /\ IsCalls(Around(x, calls, y))
      /\ \A rest : IsCalls(rest) => Around(x, calls, y) \o rest = Then(x, calls \o Then(y, rest))
  BY CallsAround
<1>3. OrNoBox(b, calls) = Around(x, calls, y)
  BY <1>1 DEF OrNoBox, NoBox, Around
<1> QED BY <1>1, <1>2, <1>3

-----------------------------------------------------------------------------
(* either_t: the constructors *)

(* either_t's constructor from a value. *)
LEMMA EitherConstructPlaces ==
  ASSUME KindFits, NEW cl, NEW tg, NEW b, NEW alt, NEW from, NEW how,
         Ready(cl, tg, b, alt, from), tg[b] = Gone, Bare(cl, b)
  PROVE  Places(EitherConstruct(b, alt, from, how), cl, tg, <<>>, b, alt, from, how)
<1>1. cl \in CellFns /\ tg \in TagFns /\ b \in AllBoxes /\ alt \in Alternatives /\ Clear(cl, {from})
  BY DEF Ready
<1>2. PICK t1, c, body, made : /\ t1 = [tg EXCEPT ![b] = alt] /\ c = CellOf(b, alt)
                               /\ made = <<Make(c, from, how)>>
                               /\ body = OfObject(alt, OrNoBox(b, made))
  OBVIOUS
<1>3. /\ IsCalls(made) /\ IsCalls(body)
      /\ EitherConstruct(b, alt, from, how) = <<SetTag(b, alt)>> \o body
  BY <1>2, OrNoBoxIs, OneCall, NoCalls DEF OfObject, EitherConstruct
<1>4. IsCalls(<<SetTag(b, alt)>> \o body)
  BY <1>3, OneCall, JoinedCalls
<1>5. ASSUME NEW rest, NEW th, NEW P, IsCalls(rest),
             Throws(alt, how) => Unwinds(cl, tg, <<>>, P),
             \A c2, t2 : Placed(c2, t2, cl, tg, b, alt, from, how) => Fine(c2, t2, rest, <<>>, th, P)
      PROVE  Fine(cl, tg, (<<SetTag(b, alt)>> \o body) \o rest, <<>>, th, P)
  <2>1. PICK r1 : r1 = body \o rest /\ IsCalls(r1)
    BY <1>3, <1>5, JoinedCalls
  <2>2. (<<SetTag(b, alt)>> \o body) \o rest = Then(SetTag(b, alt), r1)
    BY <1>3, <1>5, <2>1, CallAhead
  <2>3. SUFFICES Fine(cl, t1, r1, <<>>, th, P)
    BY <1>2, <2>1, <2>2, TagCall
  <2>4. CASE TypeOf(alt) = Void
    <3>1. r1 = rest
      BY <1>2, <1>5, <2>1, <2>4, NothingJoined DEF OfObject
    <3>2. Placed(cl, t1, cl, tg, b, alt, from, how)
      BY <1>2, <2>4, VoidPlaced
    <3> QED BY <1>5, <3>1, <3>2
  <2>5. CASE TypeOf(alt) # Void
    <3>1. PICK un, r2, r3 : /\ un = NoBox(b) /\ r3 = Then(EndTry, rest)
                            /\ r2 = Then(Make(c, from, how), r3)
      OBVIOUS
    <3>2. IsCalls(r3) /\ IsCalls(r2)
      BY <1>5, <3>1, ThenFacts
    <3>3. body \o rest = Then(Try(un), made \o r3)
      <4>1. body = OrNoBox(b, made)
        BY <1>2, <2>5 DEF OfObject
      <4>2. IsCalls(made)
        BY <1>3
      <4>3. OrNoBox(b, made) \o rest = Then(Try(NoBox(b)), made \o Then(EndTry, rest))
        BY <1>5, <4>2, OrNoBoxIs
      <4> QED BY <3>1, <4>1, <4>3
    <3>4. r1 = Then(Try(un), r2)
      BY <1>2, <2>1, <3>1, <3>3, OneCall
    <3>5. t1 \in TagFns
      BY <1>1, <1>2, AlternativeFacts DEF TagFns
    <3>6. Ready(cl, t1, b, alt, from)
      BY <1>1, <3>5, ReadyAfter
    <3>7. IsUndo(un) /\ (Throws(alt, how) => Unwinds(cl, t1, un, P))
      BY <1>1, <1>2, <1>5, <3>1, InTry DEF IsUndo, NoBox
    <3>8. ASSUME NEW c2, Placed(c2, t1, cl, t1, b, alt, from, how)
          PROVE  Fine(c2, t1, r3, un, th, P)
      <4>1. /\ [t1 EXCEPT ![b] = alt] = [tg EXCEPT ![b] = alt]
            /\ Same(cl, cl, {First(b), Second(b), from} \cup Locals)
        BY <1>1, <1>2 DEF TagFns, Same
      <4>2. Placed(c2, t1, cl, tg, b, alt, from, how)
        BY <3>8, <4>1, PlacedAfter
      <4>3. Fine(c2, t1, rest, <<>>, th, P)
        BY <1>5, <4>2
      <4> QED BY <1>5, <3>1, <4>3, TryCall DEF EndTry
    <3>9. t1 = [t1 EXCEPT ![b] = alt]
      BY <1>1, <1>2 DEF TagFns
    <3>10. Fine(cl, t1, r2, un, th, P)
      BY <1>2, <2>5, <3>1, <3>2, <3>6, <3>7, <3>8, <3>9, MakeFine
    <3> QED BY <3>2, <3>4, <3>10, TryCall
  <2> QED BY <2>4, <2>5
<1> QED BY <1>3, <1>4, <1>5 DEF Places

(* either_t's copy constructor. *)
LEMMA EitherCopyConstructPlaces ==
  ASSUME KindFits, NEW cl, NEW tg, NEW b, NEW alt, NEW from, NEW how, NEW mid, NEW c,
         Ready(cl, tg, b, alt, from), tg[b] = Gone, Bare(cl, b), c = CellOf(b, alt),
         mid = OfObject(alt, OrNoBox(b, <<Make(c, from, how)>>))
  PROVE  Places(Around(SetTag(b, Empty), mid, SetTag(b, alt)), cl, tg, <<>>, b, alt, from, how)
<1>1. cl \in CellFns /\ tg \in TagFns /\ b \in AllBoxes /\ alt \in Alternatives /\ Clear(cl, {from})
  BY DEF Ready
<1>2. PICK t1, made : t1 = [tg EXCEPT ![b] = Empty] /\ made = <<Make(c, from, how)>>
  OBVIOUS
<1>3. IsCalls(made) /\ \A r : IsCalls(r) => made \o r = Then(Make(c, from, how), r)
  BY <1>2, OneCall
<1>4. IsCalls(OrNoBox(b, made))
  BY <1>3, OrNoBoxIs
<1>5. IsCalls(mid)
  BY <1>2, <1>4, NoCalls DEF OfObject
<1>6. t1 \in TagFns /\ [t1 EXCEPT ![b] = alt] = [tg EXCEPT ![b] = alt]
  BY <1>1, <1>2 DEF TagFns, Tags
<1>7. ASSUME NEW rest, NEW th, NEW P, IsCalls(rest),
             Throws(alt, how) => Unwinds(cl, tg, <<>>, P),
             \A c2, t2 : Placed(c2, t2, cl, tg, b, alt, from, how) => Fine(c2, t2, rest, <<>>, th, P)
      PROVE  Fine(cl, tg, Around(SetTag(b, Empty), mid, SetTag(b, alt)) \o rest, <<>>, th, P)
  <2>1. PICK r1 : r1 = Then(SetTag(b, alt), rest)
    OBVIOUS
  <2>2. IsCalls(r1)
    BY <1>7, <2>1, ThenFacts
  <2>3. IsCalls(mid \o r1)
    BY <1>5, <2>2, JoinedCalls
  <2>4. Around(SetTag(b, Empty), mid, SetTag(b, alt)) \o rest = Then(SetTag(b, Empty), mid \o r1)
    <3>1. IsCalls(rest)
      BY <1>7
    <3>2. Around(SetTag(b, Empty), mid, SetTag(b, alt)) \o rest
            = Then(SetTag(b, Empty), mid \o Then(SetTag(b, alt), rest))
      BY ONLY <1>5, <3>1, CallsAround
    <3> QED BY <2>1, <3>2
  <2>5. SUFFICES Fine(cl, t1, mid \o r1, <<>>, th, P)
    BY <1>2, <2>3, <2>4, TagCall
  <2>6. PICK t2 : t2 = [t1 EXCEPT ![b] = alt]
    OBVIOUS
  <2>7. CASE TypeOf(alt) = Void
    <3>1. mid \o r1 = r1
      BY <2>2, <2>7, NothingJoined DEF OfObject
    <3>2. Placed(cl, t2, cl, tg, b, alt, from, how)
      BY <1>6, <2>6, <2>7, VoidPlaced
    <3>3. Fine(cl, t2, rest, <<>>, th, P)
      BY <1>7, <3>2
    <3>4. Fine(cl, t1, r1, <<>>, th, P)
      BY <1>7, <2>1, <2>6, <3>3, TagCall
    <3> QED BY <3>1, <3>4
  <2>8. CASE TypeOf(alt) # Void
    <3>1. PICK un, r2, r3 : /\ un = NoBox(b) /\ r3 = Then(EndTry, r1)
                            /\ r2 = Then(Make(c, from, how), r3)
      OBVIOUS
    <3>2. IsCalls(r3) /\ IsCalls(r2)
      BY <2>2, <3>1, ThenFacts
    <3>3. mid \o r1 = Then(Try(un), r2)
      <4>1. mid = OrNoBox(b, made)
        BY <1>2, <2>8 DEF OfObject
      <4>2. IsCalls(made)
        BY <1>3
      <4>3. OrNoBox(b, made) \o r1 = Then(Try(NoBox(b)), made \o Then(EndTry, r1))
        BY <2>2, <4>2, OrNoBoxIs
      <4> QED BY <1>3, <3>1, <3>2, <4>1, <4>3
    <3>4. Ready(cl, t1, b, alt, from)
      BY <1>1, <1>6, ReadyAfter
    <3>5. IsUndo(un) /\ (Throws(alt, how) => Unwinds(cl, t1, un, P))
      BY <1>1, <1>2, <1>7, <3>1, InTry DEF IsUndo, NoBox
    <3>6. ASSUME NEW c2, Placed(c2, t2, cl, t1, b, alt, from, how)
          PROVE  Fine(c2, t1, r3, un, th, P)
      <4>1. Same(cl, cl, {First(b), Second(b), from} \cup Locals)
        BY DEF Same
      <4>2. Placed(c2, t2, cl, tg, b, alt, from, how)
        BY <1>6, <3>6, <4>1, PlacedAfter
      <4>3. Fine(c2, t2, rest, <<>>, th, P)
        BY <1>7, <4>2
      <4>4. Fine(c2, t1, r1, <<>>, th, P)
        BY <1>7, <2>1, <2>6, <4>3, TagCall
      <4> QED BY <2>2, <3>1, <4>4, TryCall DEF EndTry
    <3>7. Fine(cl, t1, r2, un, th, P)
      BY <2>6, <2>8, <3>1, <3>2, <3>4, <3>5, <3>6, MakeFine
    <3> QED BY <3>2, <3>3, <3>7, TryCall
  <2> QED BY <2>7, <2>8
<1> QED BY <1>5, <1>7, CallsAround DEF Places

(* either_t's move constructor. *)
LEMMA EitherMoveConstructPlaces ==
  ASSUME KindFits, NEW cl, NEW tg, NEW b, NEW alt, NEW from, NEW how, NEW mid, NEW c,
         Ready(cl, tg, b, alt, from), tg[b] = Gone, Bare(cl, b), c = CellOf(b, alt),
         ~Throws(alt, how), mid = OfObject(alt, <<Make(c, from, how)>>)
  PROVE  Places(Around(SetTag(b, Empty), mid, SetTag(b, alt)), cl, tg, <<>>, b, alt, from, how)
<1>1. cl \in CellFns /\ tg \in TagFns /\ b \in AllBoxes /\ alt \in Alternatives /\ Clear(cl, {from})
  BY DEF Ready
<1>2. PICK t1, made : t1 = [tg EXCEPT ![b] = Empty] /\ made = <<Make(c, from, how)>>
  OBVIOUS
<1>3. IsCalls(made) /\ \A r : IsCalls(r) => made \o r = Then(Make(c, from, how), r)
  BY <1>2, OneCall
<1>4. IsCalls(mid)
  BY <1>2, <1>3, NoCalls DEF OfObject
<1>5. t1 \in TagFns /\ [t1 EXCEPT ![b] = alt] = [tg EXCEPT ![b] = alt]
  BY <1>1, <1>2 DEF TagFns, Tags
<1>6. ASSUME NEW rest, NEW th, NEW P, IsCalls(rest),
             \A c2, t2 : Placed(c2, t2, cl, tg, b, alt, from, how) => Fine(c2, t2, rest, <<>>, th, P)
      PROVE  Fine(cl, tg, Around(SetTag(b, Empty), mid, SetTag(b, alt)) \o rest, <<>>, th, P)
  <2>1. PICK r1 : r1 = Then(SetTag(b, alt), rest)
    OBVIOUS
  <2>2. IsCalls(r1)
    BY <1>6, <2>1, ThenFacts
  <2>3. IsCalls(mid \o r1)
    BY <1>4, <2>2, JoinedCalls
  <2>4. Around(SetTag(b, Empty), mid, SetTag(b, alt)) \o rest = Then(SetTag(b, Empty), mid \o r1)
    <3>1. IsCalls(rest)
      BY <1>6
    <3>2. Around(SetTag(b, Empty), mid, SetTag(b, alt)) \o rest
            = Then(SetTag(b, Empty), mid \o Then(SetTag(b, alt), rest))
      BY ONLY <1>4, <3>1, CallsAround
    <3> QED BY <2>1, <3>2
  <2>5. SUFFICES Fine(cl, t1, mid \o r1, <<>>, th, P)
    BY <1>2, <2>3, <2>4, TagCall
  <2>6. PICK t2 : t2 = [t1 EXCEPT ![b] = alt]
    OBVIOUS
  <2>7. CASE TypeOf(alt) = Void
    <3>1. mid \o r1 = r1
      BY <2>2, <2>7, NothingJoined DEF OfObject
    <3>2. Placed(cl, t2, cl, tg, b, alt, from, how)
      BY <1>5, <2>6, <2>7, VoidPlaced
    <3>3. Fine(cl, t2, rest, <<>>, th, P)
      BY <1>6, <3>2
    <3>4. Fine(cl, t1, r1, <<>>, th, P)
      BY <1>6, <2>1, <2>6, <3>3, TagCall
    <3> QED BY <3>1, <3>4
  <2>8. CASE TypeOf(alt) # Void
    <3>1. mid \o r1 = Then(Make(c, from, how), r1)
      BY <1>2, <1>3, <2>2, <2>8 DEF OfObject
    <3>2. Ready(cl, t1, b, alt, from) /\ IsUndo(<<>>)
      BY <1>1, <1>5, ReadyAfter DEF IsUndo
    <3>3. ASSUME NEW c2, NEW t3, Placed(c2, t3, cl, t1, b, alt, from, how)
          PROVE  Fine(c2, t3, rest, <<>>, th, P)
      <4>1. Same(cl, cl, {First(b), Second(b), from} \cup Locals)
        BY DEF Same
      <4>2. Placed(c2, t3, cl, tg, b, alt, from, how)
        BY <1>5, <3>3, <4>1, PlacedAfter
      <4> QED BY <1>6, <4>2
    <3>4. Fine(cl, t1, Then(Make(c, from, how), r1), <<>>, th, P)
      BY <1>6, <2>1, <2>8, <3>2, <3>3, BuildFine
    <3> QED BY <3>1, <3>4
  <2> QED BY <2>7, <2>8
<1> QED BY <1>4, <1>6, CallsAround DEF Places

-----------------------------------------------------------------------------
(* either_t: emplace *)

(* The second object makes room for the first; if that throws, a backup of it returns. *)
LEMMA ReplaceSecondPlaces ==
  ASSUME KindFits, kind = "either", NEW cl, NEW tg, NEW b, NEW from, NEW how,
         Ready(cl, tg, b, "first", from), T # Void, tg[b] = "second", BoxFits(cl, tg, b)
  PROVE  Places(ReplaceSecond(b, from, how), cl, tg, <<>>, b, "first", from, how)
<1>1. /\ cl \in CellFns /\ tg \in TagFns /\ b \in AllBoxes /\ Clear(cl, {from})
      /\ "first" \in Alternatives /\ "second" \in Alternatives
  BY DEF Ready, Alternatives
<1>2. /\ TypeOf("first") = T /\ T \in Types /\ TypeOf("second") = U /\ U \in Types
      /\ U # Void /\ Names("second")
  BY <1>1, AlternativeFacts, BoxAssumption DEF KindFits
<1>3. PICK c, d, by : c = First(b) /\ d = Second(b) /\ by = Transfer(U)
  OBVIOUS
<1>4. c = CellOf(b, "first") /\ d = CellOf(b, "second") /\ Sides(b, c, d) /\ Sides(b, d, c)
  BY <1>1, <1>3, BoxCells DEF CellOf, Sides
<1>5. /\ c \in Cells /\ d \in Cells /\ Backup \in Cells /\ from \in Cells
      /\ c # d /\ c # Backup /\ d # Backup /\ c # from /\ d # from /\ from # Backup
      /\ c \notin Locals /\ d \notin Locals
  BY <1>1, <1>3, BoxCells, LocalCells DEF Ready
<1>6. NothrowOf(U, by)
  BY <1>3, BoxAssumption DEF KindFits, Transfer, NothrowOf, CanStrongConstruct
<1>7. LiveIn(cl, d) /\ cl[d].ty = U /\ ~LiveIn(cl, c)
  BY <1>2, <1>4, FullFits
<1>8. LiveIn(cl, from) /\ cl[from].ty = T /\ ~LiveIn(cl, Backup)
  BY <1>1, <1>2, <1>5, LocalCells DEF Ready, Clear
<1>9. PICK x \in Objects, y \in Objects : x = cl[from] /\ y = cl[d] /\ x.ty = T /\ y.ty = U
  BY <1>1, <1>5, <1>7, <1>8, LiveIsObject
<1>10. /\ Left(x, how) \in Objects /\ Left(y, by) \in Objects /\ x # Raw /\ x # Null /\ y # Raw /\ y # Null
       /\ Left(y, by) # Raw /\ Left(y, by) # Null
  BY ObjectParts
<1>11. PICK un, a1, a2, a3, a4, a5, a6, a7 :
         /\ un = <<Make(d, Backup, by)>> /\ a1 = Make(Backup, d, by) /\ a2 = Drop(d) /\ a3 = Try(un)
         /\ a4 = Make(c, from, how) /\ a5 = SetTag(b, "first") /\ a6 = Try(<<>>) /\ a7 = Drop(Backup)
  OBVIOUS
<1>12. ReplaceSecond(b, from, how) = <<a1, a2, a3, a4, a5, a6, a7>>
  BY <1>3, <1>11 DEF ReplaceSecond, EndTry
<1>13. IsCalls(<<a1, a2, a3, a4, a5, a6, a7>>)
  BY ONLY SevenCalls
<1>14. ASSUME NEW rest, NEW th, NEW P, IsCalls(rest),
             Throws("first", how) => Unwinds(cl, tg, <<>>, P),
             \A c2, t2 : Placed(c2, t2, cl, tg, b, "first", from, how) => Fine(c2, t2, rest, <<>>, th, P)
      PROVE  Fine(cl, tg, <<a1, a2, a3, a4, a5, a6, a7>> \o rest, <<>>, th, P)
  <2>1. IsCalls(rest)
    BY <1>14
  <2>2. PICK r1, r2, r3, r4, r5, r6 :
          /\ r6 = Then(a7, rest) /\ r5 = Then(a6, r6) /\ r4 = Then(a5, r5)
          /\ r3 = Then(a4, r4) /\ r2 = Then(a3, r3) /\ r1 = Then(a2, r2)
    OBVIOUS
  <2>3. IsCalls(r1) /\ IsCalls(r2) /\ IsCalls(r3) /\ IsCalls(r4) /\ IsCalls(r5) /\ IsCalls(r6)
    BY ONLY <2>1, <2>2, ThenFacts
  <2>4. <<a1, a2, a3, a4, a5, a6, a7>> \o rest = Then(a1, r1)
    BY ONLY <2>1, <2>2, SevenCalls
  <2>5. SUFFICES ASSUME NEW c1, Made(c1, cl, Backup, d, by)
                 PROVE  Fine(c1, tg, r1, <<>>, th, P)
    BY <1>1, <1>5, <1>6, <1>7, <1>8, <1>11, <2>3, <2>4, MakeCall
  <2>6. /\ c1 \in CellFns /\ c1[Backup] = y /\ c1[d] = Left(y, by) /\ Same(c1, cl, {Backup, d})
    BY <1>9, <2>5 DEF Made
  <2>7. SUFFICES ASSUME NEW c2, Dropped(c2, c1, d)
                 PROVE  Fine(c2, tg, r2, <<>>, th, P)
    BY <1>5, <1>10, <1>11, <2>2, <2>3, <2>6, DropCall
  <2>8. /\ c2 \in CellFns /\ c2[Backup] = y /\ c2[d] = Raw /\ c2[from] = x /\ ~LiveIn(c2, c)
        /\ ~LiveIn(c2, d) /\ LiveIn(c2, from) /\ LiveIn(c2, Backup) /\ Same(c2, cl, {Backup, d})
    BY <1>5, <1>7, <1>9, <1>10, <2>6, <2>7 DEF Dropped, Same, LiveIn
  <2>9. SUFFICES Fine(c2, tg, r3, un, th, P)
    BY <1>11, <2>2, <2>3, TryCall
  <2>10. ASSUME ~NothrowOf(T, how)
         PROVE  Fine(c2, tg, Unwound(un, c2), <<>>, TRUE, P)
    <3>1. PICK drops : drops = DropLive(c2, Backup) \o (DropLive(c2, Tmp) \o DropLive(c2, Buffer))
      OBVIOUS
    <3>2. IsCalls(drops) /\ IsCalls(un)
      BY <1>11, <3>1, DropLiveCalls, JoinedCalls, OneCall
    <3>3. Unwound(un, c2) = un \o drops
      BY <3>1, <3>2, UnwoundIs
    <3>4. un \o drops = Then(Make(d, Backup, by), drops)
      BY <1>11, OneCall
    <3>5. SUFFICES ASSUME NEW c3, Made(c3, c2, d, Backup, by)
                   PROVE  Fine(c3, tg, drops, <<>>, TRUE, P)
      BY <1>5, <1>6, <1>9, <2>8, <3>2, <3>3, <3>4, MakeCall
    <3>6. /\ c3 \in CellFns /\ c3[d] = y /\ c3[Backup] = Left(y, by) /\ Same(c3, cl, {Backup, d})
      BY <2>8, <3>5 DEF Made, Same
    <3>7. \A l \in Locals : LiveIn(c2, l) <=> LiveIn(c3, l)
      BY <1>5, <1>10, <2>8, <3>6, LocalCells DEF Same, LiveIn
    <3>8. Same(c3, cl, Locals)
      BY <1>9, <3>6, LocalCells DEF Same
    <3>9. Unwinds(c3, tg, <<>>, P)
      BY <1>2, <1>14, <2>10, <3>6, <3>8, UnwindsLater, BoxAssumption DEF Throws
    <3>10. \A c4 : Rest(c4, c3) => <<c4, tg, TRUE>> \in P
      BY <3>9, FineAtEnd DEF Unwinds
    <3> QED BY <3>1, <3>6, <3>7, <3>10, DropsFine
  <2>11. SUFFICES ASSUME NEW c3, Made(c3, c2, c, from, how)
                  PROVE  Fine(c3, tg, r4, un, th, P)
    BY <1>5, <1>9, <1>11, <2>2, <2>3, <2>8, <2>10, MakeCall
  <2>12. /\ c3 \in CellFns /\ c3[c] = x /\ c3[from] = Left(x, how) /\ c3[Backup] = y /\ ~LiveIn(c3, d)
         /\ Same(c3, cl, {c, d, from, Backup})
    BY <1>5, <2>8, <2>11 DEF Made, Same, LiveIn
  <2>13. PICK t2 : t2 = [tg EXCEPT ![b] = "first"]
    OBVIOUS
  <2>14. SUFFICES Fine(c3, t2, r5, un, th, P)
    BY <1>11, <2>2, <2>3, <2>13, TagCall
  <2>15. SUFFICES Fine(c3, t2, r6, <<>>, th, P)
    BY <1>11, <2>2, <2>3, TryCall
  <2>16. SUFFICES ASSUME NEW c4, Dropped(c4, c3, Backup)
                  PROVE  Fine(c4, t2, rest, <<>>, th, P)
    BY <1>5, <1>10, <1>11, <2>1, <2>2, <2>12, DropCall
  <2>17. /\ c4 \in CellFns /\ c4[c] = x /\ c4[from] = Left(x, how) /\ ~LiveIn(c4, d)
         /\ c4[Backup] = Raw /\ Same(c4, cl, {c, d, from, Backup})
    BY <1>5, <2>12, <2>16 DEF Dropped, Same, LiveIn
  <2>18. Same(c4, cl, {First(b), Second(b), from} \cup Locals)
    BY <1>3, <2>17, LocalCells DEF Same
  <2>19. Clear(c4, {from})
    BY <1>1, <1>5, <2>17, LocalCells DEF Same, LiveIn, Clear
  <2>20. Placed(c4, t2, cl, tg, b, "first", from, how)
    BY <1>2, <1>4, <1>9, <2>13, <2>17, <2>18, <2>19, IsPlaced, BoxAssumption
  <2> QED BY <1>14, <2>20
<1> QED BY <1>12, <1>13, <1>14 DEF Places

(* The first object makes room for the second, which has been built beside it. *)
LEMMA ReplaceFirstPlaces ==
  ASSUME KindFits, kind = "either", NEW cl, NEW tg, NEW b, NEW from, NEW how,
         Ready(cl, tg, b, "second", from), from # Tmp, tg[b] = "first", BoxFits(cl, tg, b)
  PROVE  Places(ReplaceFirst(b, from, how), cl, tg, <<>>, b, "second", from, how)
<1>1. /\ cl \in CellFns /\ tg \in TagFns /\ b \in AllBoxes /\ Clear(cl, {from})
      /\ "first" \in Alternatives /\ "second" \in Alternatives
  BY DEF Ready, Alternatives
<1>2. TypeOf("first") = T /\ TypeOf("second") = U /\ U \in Types /\ U # Void /\ Names("first")
  BY <1>1, AlternativeFacts, BoxAssumption DEF KindFits
<1>3. PICK c, d, by : c = Second(b) /\ d = First(b) /\ by = Transfer(U)
  OBVIOUS
<1>4. c = CellOf(b, "second") /\ d = CellOf(b, "first") /\ Sides(b, c, d) /\ Sides(b, d, c)
  BY <1>1, <1>3, BoxCells DEF CellOf, Sides
<1>5. /\ c \in Cells /\ d \in Cells /\ Tmp \in Cells /\ from \in Cells
      /\ c # d /\ c # Tmp /\ d # Tmp /\ c # from /\ d # from
      /\ c \notin Locals /\ d \notin Locals
  BY <1>1, <1>3, BoxCells, LocalCells DEF Ready
<1>6. NothrowOf(U, by)
  BY <1>3, BoxAssumption DEF KindFits, Transfer, NothrowOf, CanStrongConstruct
<1>7. LiveIn(cl, from) /\ cl[from].ty = U /\ ~LiveIn(cl, Tmp)
  BY <1>1, <1>2, <1>5, LocalCells DEF Ready, Clear
<1>8. PICK x \in Objects : x = cl[from] /\ x.ty = U
  BY <1>1, <1>5, <1>7, LiveIsObject
<1>9. /\ Left(x, how) \in Objects /\ Left(x, by) \in Objects /\ x # Raw /\ x # Null
      /\ Left(x, by) # Raw /\ Left(x, by) # Null
  BY ObjectParts
<1>10. CASE T = Void
  <2>1. PICK a1, a2 : a1 = Make(c, from, how) /\ a2 = SetTag(b, "second")
    OBVIOUS
  <2>2. ReplaceFirst(b, from, how) = <<a1, a2>>
    BY <1>3, <1>10, <2>1 DEF ReplaceFirst
  <2>3. IsCalls(<<a1, a2>>)
    BY ONLY TwoCalls
  <2>4. Bare(cl, b)
    BY <1>2, <1>10, BareFits
  <2>5. ASSUME NEW rest, NEW th, NEW P, IsCalls(rest),
               Throws("second", how) => Unwinds(cl, tg, <<>>, P),
               \A c2, t2 : Placed(c2, t2, cl, tg, b, "second", from, how) => Fine(c2, t2, rest, <<>>, th, P)
        PROVE  Fine(cl, tg, <<a1, a2>> \o rest, <<>>, th, P)
    <3>1. IsCalls(rest)
      BY <2>5
    <3>2. <<a1, a2>> \o rest = Then(a1, Then(a2, rest))
      BY ONLY <3>1, TwoCalls
    <3>3. IsUndo(<<>>)
      BY DEF IsUndo
    <3> QED BY <1>2, <1>4, <2>1, <2>4, <2>5, <3>2, <3>3, BuildFine
  <2> QED BY <2>2, <2>3, <2>5 DEF Places
<1>11. CASE T # Void
  <2>1. LiveIn(cl, d) /\ ~LiveIn(cl, c)
    BY <1>2, <1>4, <1>11, FullFits
  <2>2. PICK a1, a2, a3, a4, a5 :
          /\ a1 = Make(Tmp, from, how) /\ a2 = Drop(d) /\ a3 = Make(c, Tmp, by)
          /\ a4 = SetTag(b, "second") /\ a5 = Drop(Tmp)
    OBVIOUS
  <2>3. ReplaceFirst(b, from, how) = <<a1, a2, a3, a4, a5>>
    BY <1>3, <1>11, <2>2 DEF ReplaceFirst
  <2>4. IsCalls(<<a1, a2, a3, a4, a5>>)
    BY ONLY FiveCalls
  <2>5. ASSUME NEW rest, NEW th, NEW P, IsCalls(rest),
               Throws("second", how) => Unwinds(cl, tg, <<>>, P),
               \A c2, t2 : Placed(c2, t2, cl, tg, b, "second", from, how) => Fine(c2, t2, rest, <<>>, th, P)
        PROVE  Fine(cl, tg, <<a1, a2, a3, a4, a5>> \o rest, <<>>, th, P)
    <3>1. IsCalls(rest)
      BY <2>5
    <3>2. PICK r1, r2, r3, r4 :
            r4 = Then(a5, rest) /\ r3 = Then(a4, r4) /\ r2 = Then(a3, r3) /\ r1 = Then(a2, r2)
      OBVIOUS
    <3>3. IsCalls(r1) /\ IsCalls(r2) /\ IsCalls(r3) /\ IsCalls(r4)
      BY ONLY <3>1, <3>2, ThenFacts
    <3>4. <<a1, a2, a3, a4, a5>> \o rest = Then(a1, r1)
      BY ONLY <3>1, <3>2, FiveCalls
    <3>5. NothrowOf(U, how) \/ Fine(cl, tg, Unwound(<<>>, cl), <<>>, TRUE, P)
      BY <1>1, <1>2, <2>5, Unwinding DEF Throws, IsUndo
    <3>6. SUFFICES ASSUME NEW c1, Made(c1, cl, Tmp, from, how)
                   PROVE  Fine(c1, tg, r1, <<>>, th, P)
      BY <1>1, <1>5, <1>7, <2>2, <3>3, <3>4, <3>5, MakeCall
    <3>7. /\ c1 \in CellFns /\ c1[Tmp] = x /\ c1[from] = Left(x, how) /\ c1[d] = cl[d]
          /\ Same(c1, cl, {Tmp, from})
      BY <1>5, <1>8, <3>6 DEF Made, Same
    <3>8. SUFFICES ASSUME NEW c2, Dropped(c2, c1, d)
                   PROVE  Fine(c2, tg, r2, <<>>, th, P)
      BY <1>5, <2>1, <2>2, <3>2, <3>3, <3>7, DropCall DEF LiveIn
    <3>9. /\ c2 \in CellFns /\ c2[Tmp] = x /\ c2[from] = Left(x, how) /\ ~LiveIn(c2, c) /\ ~LiveIn(c2, d)
          /\ LiveIn(c2, Tmp) /\ Same(c2, cl, {Tmp, from, d})
      BY <1>5, <1>9, <2>1, <3>7, <3>8 DEF Dropped, Same, LiveIn
    <3>10. SUFFICES ASSUME NEW c3, Made(c3, c2, c, Tmp, by)
                    PROVE  Fine(c3, tg, r3, <<>>, th, P)
      BY <1>5, <1>6, <1>8, <2>2, <3>2, <3>3, <3>9, MakeCall
    <3>11. /\ c3 \in CellFns /\ c3[c] = x /\ c3[from] = Left(x, how) /\ ~LiveIn(c3, d)
           /\ c3[Tmp] = Left(x, by) /\ Same(c3, cl, {c, d, from, Tmp})
      BY <1>5, <3>9, <3>10 DEF Made, Same, LiveIn
    <3>12. PICK t2 : t2 = [tg EXCEPT ![b] = "second"]
      OBVIOUS
    <3>13. SUFFICES Fine(c3, t2, r4, <<>>, th, P)
      BY <2>2, <3>2, <3>3, <3>12, TagCall
    <3>14. SUFFICES ASSUME NEW c4, Dropped(c4, c3, Tmp)
                    PROVE  Fine(c4, t2, rest, <<>>, th, P)
      BY <1>5, <1>9, <2>2, <3>1, <3>2, <3>11, DropCall
    <3>15. /\ c4 \in CellFns /\ c4[c] = x /\ c4[from] = Left(x, how) /\ ~LiveIn(c4, d)
           /\ c4[Tmp] = Raw /\ Same(c4, cl, {c, d, from, Tmp})
      BY <1>5, <3>11, <3>14 DEF Dropped, Same, LiveIn
    <3>16. Same(c4, cl, {First(b), Second(b), from} \cup Locals)
      BY <1>3, <3>15, LocalCells DEF Same
    <3>17. Clear(c4, {from})
      BY <1>1, <1>5, <3>15, LocalCells DEF Same, LiveIn, Clear
    <3>18. Placed(c4, t2, cl, tg, b, "second", from, how)
      BY <1>2, <1>4, <1>8, <3>12, <3>15, <3>16, <3>17, IsPlaced
    <3> QED BY <2>5, <3>18
  <2> QED BY <2>3, <2>4, <2>5 DEF Places
<1> QED BY <1>10, <1>11

(* either_t::operator=(U): the constructor does not throw, so the old object goes first. *)
LEMMA EitherAssignSecondPlaces ==
  ASSUME KindFits, kind = "either", NEW cl, NEW b, NEW from, NEW how,
         Ready(cl, tag, b, "second", from), tag[b] = "first", BoxFits(cl, tag, b), NothrowOf(U, how)
  PROVE  Places(EitherAssignSecond(b, from, how), cl, tag, <<>>, b, "second", from, how)
<1>1. /\ cl \in CellFns /\ tag \in TagFns /\ b \in AllBoxes /\ Clear(cl, {from})
      /\ "first" \in Alternatives /\ "second" \in Alternatives
  BY DEF Ready, Alternatives
<1>2. TypeOf("first") = T /\ TypeOf("second") = U /\ U \in Types /\ U # Void /\ Names("first")
  BY <1>1, AlternativeFacts, BoxAssumption DEF KindFits
<1>3. PICK c, d : c = Second(b) /\ d = First(b)
  OBVIOUS
<1>4. c = CellOf(b, "second") /\ d = CellOf(b, "first") /\ Sides(b, c, d) /\ Sides(b, d, c)
  BY <1>1, <1>3, BoxCells DEF CellOf, Sides
<1>5. /\ c \in Cells /\ d \in Cells /\ from \in Cells /\ c # d /\ d # from
      /\ c \notin Locals /\ d \notin Locals
  BY <1>1, <1>3, BoxCells, LocalCells DEF Ready
<1>6. PICK a1, a2, a3, drop : /\ a1 = Drop(d) /\ a2 = Make(c, from, how) /\ a3 = SetTag(b, "second")
                              /\ drop = DropHeld(b)
  OBVIOUS
<1>7. EitherAssignSecond(b, from, how) = drop \o <<a2, a3>>
  BY <1>3, <1>6 DEF EitherAssignSecond
<1>8. IF T = Void THEN drop = <<>> ELSE drop = <<a1>>
  BY <1>2, <1>4, <1>6 DEF DropHeld, Holds, Held, OfObject, Names
<1>9. IsCalls(drop) /\ IsCalls(<<a2, a3>>)
  BY <1>8, OneCall, TwoCalls, NoCalls
<1>10. IsCalls(drop \o <<a2, a3>>)
  BY ONLY <1>9, JoinedCalls
<1>11. ~Throws("second", how) /\ IsUndo(<<>>)
  BY <1>2 DEF Throws, IsUndo
<1>12. ASSUME NEW rest, NEW th, NEW P, IsCalls(rest),
              \A c2, t2 : Placed(c2, t2, cl, tag, b, "second", from, how) => Fine(c2, t2, rest, <<>>, th, P)
       PROVE  Fine(cl, tag, (drop \o <<a2, a3>>) \o rest, <<>>, th, P)
  <2>1. IsCalls(rest)
    BY <1>12
  <2>2. PICK r : r = Then(a2, Then(a3, rest))
    OBVIOUS
  <2>3. IsCalls(Then(a3, rest))
    BY ONLY <2>1, ThenFacts
  <2>4. IsCalls(r)
    BY ONLY <2>2, <2>3, ThenFacts
  <2>5. (drop \o <<a2, a3>>) \o rest = drop \o r
    <3>1. (drop \o <<a2, a3>>) \o rest = drop \o (<<a2, a3>> \o rest)
      BY ONLY <1>9, <2>1, JoinedInTurn
    <3>2. <<a2, a3>> \o rest = Then(a2, Then(a3, rest))
      BY ONLY <2>1, TwoCalls
    <3> QED BY <2>2, <3>1, <3>2
  <2>6. ASSUME NEW c1, c1 \in CellFns, Bare(c1, b), Same(c1, cl, {First(b)})
        PROVE  Fine(c1, tag, r, <<>>, th, P)
    <3>1. c1[from] = cl[from]
      BY <1>3, <1>5, <2>6 DEF Same
    <3>2. Clear(c1, {from})
      BY <1>1, <1>3, <1>5, <2>6, LocalCells DEF Clear, Same, LiveIn
    <3>3. Ready(c1, tag, b, "second", from)
      BY <1>1, <2>6, <3>1, <3>2, ReadyAfter
    <3>4. Same(c1, cl, {First(b), Second(b), from} \cup Locals)
      BY <2>6 DEF Same
    <3>5. ASSUME NEW c2, NEW t2, Placed(c2, t2, c1, tag, b, "second", from, how)
          PROVE  Fine(c2, t2, rest, <<>>, th, P)
      <4>1. Placed(c2, t2, cl, tag, b, "second", from, how)
        BY <3>1, <3>4, <3>5, PlacedAfter
      <4> QED BY <1>12, <4>1
    <3> QED BY <1>2, <1>4, <1>6, <1>11, <2>1, <2>2, <2>6, <3>3, <3>5, BuildFine
  <2>7. CASE T = Void
    <3>1. Bare(cl, b) /\ Same(cl, cl, {First(b)}) /\ drop \o r = r
      BY <1>2, <1>8, <2>4, <2>7, BareFits, NothingJoined DEF Same
    <3> QED BY <1>1, <2>5, <2>6, <3>1
  <2>8. CASE T # Void
    <3>1. LiveIn(cl, d) /\ ~LiveIn(cl, c)
      BY <1>2, <1>4, <2>8, FullFits
    <3>2. drop \o r = Then(a1, r)
      BY <1>8, <2>8, OneCall
    <3>3. ASSUME NEW c1, Dropped(c1, cl, d)
          PROVE  Fine(c1, tag, r, <<>>, th, P)
      <4>1. c1 \in CellFns /\ Bare(c1, b) /\ Same(c1, cl, {First(b)})
        BY <1>3, <1>5, <3>1, <3>3 DEF Dropped, Same, Bare, LiveIn
      <4> QED BY <2>6, <4>1
    <3>4. Fine(cl, tag, Then(Drop(d), r), <<>>, th, P)
      BY <1>1, <1>5, <2>4, <3>1, <3>3, DropCall DEF LiveIn
    <3> QED BY <1>6, <2>5, <3>2, <3>4
  <2> QED BY <2>7, <2>8
<1> QED BY <1>7, <1>10, <1>12 DEF Places

(* emplace_first, by emplace_at or with a backup of the second object. *)
LEMMA EmplaceFirstPlaces ==
  ASSUME KindFits, kind = "either", NEW cl, NEW b, NEW from, NEW how,
         Ready(cl, tag, b, "first", from), tag[b] \in {"first", "second"}, BoxFits(cl, tag, b),
         T # Void => CanStrongReplace(T) \/ NothrowOf(T, how)
  PROVE  Places(EmplaceFirst(b, from, how), cl, tag, <<>>, b, "first", from, how)
<1>1. /\ cl \in CellFns /\ tag \in TagFns /\ b \in AllBoxes /\ Clear(cl, {from})
      /\ "first" \in Alternatives /\ "second" \in Alternatives /\ IsUndo(<<>>)
  BY DEF Ready, Alternatives, IsUndo
<1>2. /\ TypeOf("first") = T /\ TypeOf("second") = U /\ U \in Types /\ U # Void
      /\ Names("first") /\ Names("second")
  BY <1>1, AlternativeFacts, BoxAssumption DEF KindFits
<1>3. PICK c, d : c = First(b) /\ d = Second(b)
  OBVIOUS
<1>4. c = CellOf(b, "first") /\ d = CellOf(b, "second") /\ Sides(b, c, d) /\ Sides(b, d, c)
  BY <1>1, <1>3, BoxCells DEF CellOf, Sides
<1>5. CASE T # Void /\ tag[b] = "first"
  <2>1. EmplaceFirst(b, from, how) = EmplaceAt(c, T, from, how)
    BY <1>3, <1>5 DEF EmplaceFirst
  <2> QED BY <1>1, <1>2, <1>4, <1>5, <2>1, EmplacePlaces
<1>6. CASE T # Void /\ tag[b] = "second"
  <2>1. EmplaceFirst(b, from, how) = ReplaceSecond(b, from, how)
    BY <1>6 DEF EmplaceFirst
  <2> QED BY <1>6, <2>1, ReplaceSecondPlaces
<1>7. CASE T = Void /\ tag[b] = "first"
  <2>1. EmplaceFirst(b, from, how) = <<>>
    BY <1>7 DEF EmplaceFirst
  <2>2. Bare(cl, b)
    BY <1>2, <1>7, BareFits
  <2>3. ASSUME NEW rest, NEW th, NEW P, IsCalls(rest),
               \A c2, t2 : Placed(c2, t2, cl, tag, b, "first", from, how) => Fine(c2, t2, rest, <<>>, th, P)
        PROVE  Fine(cl, tag, <<>> \o rest, <<>>, th, P)
    <3>1. tag = [tag EXCEPT ![b] = "first"]
      BY <1>1, <1>7 DEF TagFns
    <3>2. Placed(cl, tag, cl, tag, b, "first", from, how)
      BY <1>2, <1>7, <2>2, <3>1, VoidPlaced
    <3>3. <<>> \o rest = rest
      BY <2>3, NothingJoined
    <3> QED BY <2>3, <3>2, <3>3
  <2> QED BY <2>1, <2>3, NoCalls DEF Places
<1>8. CASE T = Void /\ tag[b] = "second"
  <2>1. PICK a1, a2 : a1 = Drop(d) /\ a2 = SetTag(b, "first")
    OBVIOUS
  <2>2. EmplaceFirst(b, from, how) = <<a1, a2>>
    BY <1>3, <1>8, <2>1 DEF EmplaceFirst
  <2>3. IsCalls(<<a1, a2>>)
    BY ONLY TwoCalls
  <2>4. LiveIn(cl, d) /\ ~LiveIn(cl, c)
    BY <1>2, <1>4, <1>8, FullFits
  <2>5. c \in Cells /\ d \in Cells /\ c # d /\ d # from /\ d \notin Locals /\ from \in Cells
    BY <1>1, <1>3, BoxCells DEF Ready
  <2>6. ASSUME NEW rest, NEW th, NEW P, IsCalls(rest),
               \A c2, t2 : Placed(c2, t2, cl, tag, b, "first", from, how) => Fine(c2, t2, rest, <<>>, th, P)
        PROVE  Fine(cl, tag, <<a1, a2>> \o rest, <<>>, th, P)
    <3>1. IsCalls(rest)
      BY <2>6
    <3>2. <<a1, a2>> \o rest = Then(a1, Then(a2, rest))
      BY ONLY <3>1, TwoCalls
    <3>3. PICK r1 : r1 = Then(a2, rest)
      OBVIOUS
    <3>4. IsCalls(r1)
      BY ONLY <3>1, <3>3, ThenFacts
    <3>5. SUFFICES ASSUME NEW c1, Dropped(c1, cl, d)
                   PROVE  Fine(c1, tag, r1, <<>>, th, P)
      BY <1>1, <2>1, <2>4, <2>5, <3>2, <3>3, <3>4, DropCall DEF LiveIn
    <3>6. PICK t2 : t2 = [tag EXCEPT ![b] = "first"]
      OBVIOUS
    <3>7. /\ c1 \in CellFns /\ c1[from] = cl[from] /\ Bare(c1, b)
          /\ Same(c1, cl, {First(b), Second(b), from} \cup Locals)
      BY <1>3, <2>4, <2>5, <3>5 DEF Dropped, Same, Bare, LiveIn
    <3>8. Clear(c1, {from})
      BY <1>1, <2>5, <3>5, LocalCells DEF Clear, Dropped, Same, LiveIn
    <3>9. Ready(c1, tag, b, "first", from)
      BY <1>1, <3>7, <3>8, ReadyAfter
    <3>10. Placed(c1, t2, c1, tag, b, "first", from, how)
      BY <1>2, <1>8, <3>6, <3>7, <3>9, VoidPlaced
    <3>11. Placed(c1, t2, cl, tag, b, "first", from, how)
      BY <3>7, <3>10, PlacedAfter
    <3>12. Fine(c1, t2, rest, <<>>, th, P)
      BY <2>6, <3>11
    <3> QED BY <2>1, <3>1, <3>3, <3>6, <3>12, TagCall
  <2> QED BY <2>2, <2>3, <2>6 DEF Places
<1> QED BY <1>5, <1>6, <1>7, <1>8

(* emplace_second and the assignment of a U. *)
LEMMA EmplaceSecondPlaces ==
  ASSUME KindFits, kind = "either", NEW cl, NEW b, NEW from, NEW how,
         Ready(cl, tag, b, "second", from), from # Tmp, tag[b] \in {"first", "second"},
         BoxFits(cl, tag, b), CanStrongReplace(U) \/ NothrowOf(U, how)
  PROVE  /\ Places(EmplaceSecond(b, from, how), cl, tag, <<>>, b, "second", from, how)
         /\ NothrowOf(U, how) =>
              Places(EitherAssignSecond(b, from, how), cl, tag, <<>>, b, "second", from, how)
<1>1. b \in AllBoxes /\ "second" \in Alternatives /\ IsUndo(<<>>)
  BY DEF Ready, Alternatives, IsUndo
<1>2. TypeOf("second") = U /\ U \in Types /\ U # Void
  BY <1>1, AlternativeFacts, BoxAssumption DEF KindFits
<1>3. Second(b) = CellOf(b, "second")
  BY DEF CellOf
<1>4. CASE tag[b] = "second"
  <2>1. /\ EmplaceSecond(b, from, how) = EmplaceAt(Second(b), U, from, how)
        /\ EitherAssignSecond(b, from, how) = EmplaceAt(Second(b), U, from, how)
    BY <1>4 DEF EmplaceSecond, EitherAssignSecond
  <2>2. Places(EmplaceAt(Second(b), U, from, how), cl, tag, <<>>, b, "second", from, how)
    BY <1>1, <1>2, <1>3, <1>4, EmplacePlaces
  <2> QED BY <2>1, <2>2
<1>5. CASE tag[b] = "first"
  <2>1. EmplaceSecond(b, from, how) = ReplaceFirst(b, from, how)
    BY <1>5 DEF EmplaceSecond
  <2>2. Places(ReplaceFirst(b, from, how), cl, tag, <<>>, b, "second", from, how)
    BY <1>5, ReplaceFirstPlaces
  <2> QED BY <1>5, <2>1, <2>2, EitherAssignSecondPlaces
<1> QED BY <1>4, <1>5

-----------------------------------------------------------------------------
(* Every box is as its tag says and no local is left: what an operation starts from,
   and what every part of one goes back to. *)

TagFits(t) == t = Gone \/ t \in Alternatives \/ (t = Empty /\ kind # "either")
Tidy(cl, tg) ==
  /\ cl \in CellFns /\ tg \in TagFns /\ Clear(cl, {})
  /\ \A b \in AllBoxes : TagFits(tg[b]) /\ BoxFits(cl, tg, b)

ValueIn(cl, tg, b) == IF Names(tg[b]) THEN ValOf(cl[CellOf(b, tg[b])]) ELSE Raw
ValuesOf(cl, tg) == [b \in AllBoxes |-> ValueIn(cl, tg, b)]

(* The value of a box is the one in the cell its tag names. *)
LEMMA ValueWhere ==
  ASSUME NEW cl, NEW tg, NEW b, NEW t, tg[b] = t, Names(t)
  PROVE  ValueIn(cl, tg, b) = ValOf(cl[CellOf(b, t)])
BY DEF ValueIn

SameBox(c2, t2, cl, tg, b) ==
  t2[b] = tg[b] /\ c2[First(b)] = cl[First(b)] /\ c2[Second(b)] = cl[Second(b)]

(* A box that was left alone fits as it did, with its value. *)
LEMMA SameBoxFits ==
  ASSUME KindFits, NEW cl, NEW tg, NEW c2, NEW t2, NEW b, SameBox(c2, t2, cl, tg, b),
         TagFits(tg[b]) \/ tg[b] = Gone, BoxFits(cl, tg, b)
  PROVE  TagFits(t2[b]) /\ BoxFits(c2, t2, b) /\ ValueIn(c2, t2, b) = ValueIn(cl, tg, b)
BY DEF SameBox, TagFits, BoxFits, ValueIn, CellOf, LiveIn

(* Some boxes have changed and fit, the others have not. *)
LEMMA TidyAfter ==
  ASSUME KindFits, NEW cl, NEW tg, NEW c2 \in CellFns, NEW t2 \in TagFns, NEW S, NEW W,
         Tidy(cl, tg), Clear(c2, {}),
         \A x \in AllBoxes \ S : SameBox(c2, t2, cl, tg, x),
         \A x \in AllBoxes \cap S : TagFits(t2[x]) /\ BoxFits(c2, t2, x),
         W = [x \in AllBoxes |-> W[x]],
         \A x \in AllBoxes \ S : W[x] = ValueIn(cl, tg, x),
         \A x \in AllBoxes \cap S : W[x] = ValueIn(c2, t2, x)
  PROVE  Tidy(c2, t2) /\ ValuesOf(c2, t2) = W
<1>1. \A x \in AllBoxes \ S : TagFits(t2[x]) /\ BoxFits(c2, t2, x) /\ ValueIn(c2, t2, x) = ValueIn(cl, tg, x)
  BY SameBoxFits DEF Tidy
<1>2. \A x \in AllBoxes : W[x] = ValueIn(c2, t2, x)
  BY <1>1
<1>3. ValuesOf(c2, t2) = W
  BY <1>2 DEF ValuesOf
<1> QED BY <1>1, <1>3 DEF Tidy

(* What a throw leaves is as tidy, with the same values. *)
LEMMA TidyRest ==
  ASSUME KindFits, NEW cl, NEW tg, NEW c2, Tidy(cl, tg), Rest(c2, cl)
  PROVE  Tidy(c2, tg) /\ ValuesOf(c2, tg) = ValuesOf(cl, tg)
<1>1. c2 \in CellFns /\ Clear(c2, {}) /\ tg \in TagFns
  BY DEF Rest, Tidy
<1>2. \A x \in AllBoxes \ {} : SameBox(c2, tg, cl, tg, x)
  BY BoxCells DEF Rest, Same, SameBox
<1>3. PICK W : W = ValuesOf(cl, tg)
  OBVIOUS
<1>4. W = [x \in AllBoxes |-> W[x]] /\ \A x \in AllBoxes \ {} : W[x] = ValueIn(cl, tg, x)
  BY <1>3 DEF ValuesOf
<1> QED BY <1>1, <1>2, <1>3, <1>4, TidyAfter

-----------------------------------------------------------------------------
(* A part of an operation: from tidy boxes to tidy boxes with these tags and values,
   or, if it may throw, to the handler un. *)

Does(body, cl, tg, un, may, t2, W) ==
  /\ IsCalls(body)
  /\ \A rest, th, P :
       /\ IsCalls(rest)
       /\ may => Unwinds(cl, tg, un, P)
       /\ \A c2 : Tidy(c2, t2) /\ ValuesOf(c2, t2) = W => Fine(c2, t2, rest, un, th, P)
       => Fine(cl, tg, body \o rest, un, th, P)

(* No calls do nothing. *)
LEMMA DoesNothing ==
  ASSUME NEW cl, NEW tg, NEW un, NEW may, Tidy(cl, tg)
  PROVE  Does(<<>>, cl, tg, un, may, tg, ValuesOf(cl, tg))
<1> SUFFICES ASSUME NEW rest, NEW th, NEW P, IsCalls(rest),
                    \A c2 : Tidy(c2, tg) /\ ValuesOf(c2, tg) = ValuesOf(cl, tg) => Fine(c2, tg, rest, un, th, P)
             PROVE  Fine(cl, tg, <<>> \o rest, un, th, P)
  BY NoCalls DEF Does
<1>1. <<>> \o rest = rest
  BY NothingJoined
<1> QED BY <1>1

(* One part after the other; only the first may throw. *)
LEMMA DoesInTurn ==
  ASSUME NEW cl, NEW tg, NEW un, NEW may, NEW t1, NEW W1, NEW t2, NEW W2, NEW p, NEW q, NEW free,
         Does(p, cl, tg, un, may, t1, W1), IsCalls(q), free = FALSE,
         \A c1 : Tidy(c1, t1) /\ ValuesOf(c1, t1) = W1 => Does(q, c1, t1, un, free, t2, W2)
  PROVE  Does(p \o q, cl, tg, un, may, t2, W2)
<1>1. IsCalls(p)
  BY DEF Does
<1>2. IsCalls(p \o q)
  BY <1>1, JoinedCalls
<1>3. ASSUME NEW rest, NEW th, NEW P, IsCalls(rest), may => Unwinds(cl, tg, un, P),
             \A c2 : Tidy(c2, t2) /\ ValuesOf(c2, t2) = W2 => Fine(c2, t2, rest, un, th, P)
      PROVE  Fine(cl, tg, (p \o q) \o rest, un, th, P)
  <2>1. PICK r : r = q \o rest
    OBVIOUS
  <2>2. IsCalls(r) /\ (p \o q) \o rest = p \o r
    <3>1. IsCalls(p) /\ IsCalls(q) /\ IsCalls(rest)
      BY <1>1, <1>3
    <3>2. IsCalls(q \o rest)
      BY ONLY <3>1, JoinedCalls
    <3>3. (p \o q) \o rest = p \o (q \o rest)
      BY ONLY <3>1, JoinedInTurn
    <3> QED BY ONLY <2>1, <3>2, <3>3
  <2>3. ASSUME NEW c1, Tidy(c1, t1), ValuesOf(c1, t1) = W1
        PROVE  Fine(c1, t1, r, un, th, P)
    <3>1. Does(q, c1, t1, un, free, t2, W2)
      BY <2>3
    <3> QED BY <1>3, <2>1, <3>1 DEF Does
  <2>4. Fine(cl, tg, p \o r, un, th, P)
    BY <1>3, <2>2, <2>3 DEF Does
  <2> QED BY <2>2, <2>4
<1> QED BY <1>2, <1>3 DEF Does

(* One call of no effect but on a tag. *)
LEMMA DoesTag ==
  ASSUME NEW cl, NEW tg, NEW un, NEW may, NEW b, NEW t, NEW t2, NEW W,
         t2 = [tg EXCEPT ![b] = t], Tidy(cl, t2), ValuesOf(cl, t2) = W
  PROVE  Does(<<SetTag(b, t)>>, cl, tg, un, may, t2, W)
<1>1. PICK body : body = <<SetTag(b, t)>>
  OBVIOUS
<1>2. IsCalls(body) /\ \A rest : body \o rest = Then(SetTag(b, t), rest)
  BY <1>1, OneCall
<1>3. ASSUME NEW rest, NEW th, NEW P, IsCalls(rest),
             \A c2 : Tidy(c2, t2) /\ ValuesOf(c2, t2) = W => Fine(c2, t2, rest, un, th, P)
      PROVE  Fine(cl, tg, body \o rest, un, th, P)
  BY <1>2, <1>3, TagCall
<1> QED BY <1>1, <1>2, <1>3 DEF Does

(* A box gets an object made from one outside the boxes. *)
LEMMA PutTidy ==
  ASSUME KindFits, NEW cl, NEW tg, NEW b, NEW alt, NEW from, NEW how, NEW c2, NEW t2, NEW W,
         Tidy(cl, tg), Ready(cl, tg, b, alt, from), Placed(c2, t2, cl, tg, b, alt, from, how),
         from = Args, W = [ValuesOf(cl, tg) EXCEPT ![b] = ValOf(cl[from])]
  PROVE  Tidy(c2, t2) /\ ValuesOf(c2, t2) = W
<1>1. /\ cl \in CellFns /\ tg \in TagFns /\ b \in AllBoxes /\ alt \in Alternatives /\ Clear(cl, {})
      /\ from \in Cells \ Locals /\ t2 = [tg EXCEPT ![b] = alt]
  BY LocalCells DEF Ready, Tidy, Placed
<1>2. /\ t2 \in TagFns /\ t2[b] = alt /\ TagFits(alt) /\ Names(alt)
      /\ \A x \in AllBoxes \ {b} : t2[x] = tg[x]
  BY <1>1, AlternativeFacts DEF TagFns, TagFits
<1>3. c2 \in CellFns /\ Clear(c2, {}) /\ BoxFits(c2, t2, b)
  BY <1>1 DEF Placed, Clear
<1>4. ASSUME NEW x \in AllBoxes \ {b}
      PROVE  SameBox(c2, t2, cl, tg, x)
  BY <1>1, <1>2, <1>4, BoxCells, BoxesApart DEF Placed, Same, SameBox
<1>5. W = [x \in AllBoxes |-> W[x]] /\ \A x \in AllBoxes \ {b} : W[x] = ValueIn(cl, tg, x)
  BY DEF ValuesOf
<1>6. W[b] = ValueIn(c2, t2, b)
  <2>1. W[b] = ValOf(cl[from])
    BY <1>1 DEF ValuesOf
  <2>2. ValOf(c2[CellOf(b, alt)]) = ValOf(cl[from])
    BY DEF Placed
  <2>3. t2[b] = alt /\ Names(alt)
    BY <1>2
  <2>4. ValueIn(c2, t2, b) = ValOf(c2[CellOf(b, alt)])
    BY ONLY <2>3, ValueWhere
  <2> QED BY <2>1, <2>2, <2>4, Zenon
<1>7. PICK S : S = {b}
  OBVIOUS
<1>8. /\ \A x \in AllBoxes \ S : SameBox(c2, t2, cl, tg, x) /\ W[x] = ValueIn(cl, tg, x)
      /\ \A x \in AllBoxes \cap S : TagFits(t2[x]) /\ BoxFits(c2, t2, x) /\ W[x] = ValueIn(c2, t2, x)
  BY <1>2, <1>3, <1>4, <1>5, <1>6, <1>7
<1> HIDE <1>7
<1> QED BY ONLY KindFits, Tidy(cl, tg), <1>2, <1>3, <1>5, <1>8, TidyAfter

(* A body that places the argument gives the box its value. *)
LEMMA PutDoes ==
  ASSUME KindFits, NEW cl, NEW tg, NEW un, NEW b, NEW alt, NEW from, NEW how, NEW body, NEW may,
         NEW t2, NEW W, Throws(alt, how) => may,
         Tidy(cl, tg), Ready(cl, tg, b, alt, from), Places(body, cl, tg, un, b, alt, from, how),
         from = Args, t2 = [tg EXCEPT ![b] = alt], W = [ValuesOf(cl, tg) EXCEPT ![b] = ValOf(cl[from])]
  PROVE  Does(body, cl, tg, un, may, t2, W)
<1>1. ASSUME NEW rest, NEW th, NEW P, IsCalls(rest),
             may => Unwinds(cl, tg, un, P),
             \A c2 : Tidy(c2, t2) /\ ValuesOf(c2, t2) = W => Fine(c2, t2, rest, un, th, P)
      PROVE  Fine(cl, tg, body \o rest, un, th, P)
  <2>1. ASSUME NEW c2, NEW t3, Placed(c2, t3, cl, tg, b, alt, from, how)
        PROVE  Fine(c2, t3, rest, un, th, P)
    <3>1. Tidy(c2, t3) /\ ValuesOf(c2, t3) = W
      BY <2>1, PutTidy
    <3>2. t3 = t2
      BY <2>1 DEF Placed
    <3> QED BY <1>1, <3>1, <3>2
  <2> QED BY <1>1, <2>1 DEF Places
<1> QED BY <1>1 DEF Does, Places

(* What the source of a copy or a move is worth after it. *)
LeftValue(v, how) == IF how = "move" /\ v # Raw THEN Moved ELSE v

(* A box gets what another holds. *)
LEMMA HandReady ==
  ASSUME KindFits, NEW cl, NEW tg, NEW b \in AllBoxes, NEW o \in AllBoxes, NEW alt, NEW from,
         Tidy(cl, tg), b # o, alt = tg[o], Names(alt), from = CellOf(o, alt)
  PROVE  /\ Ready(cl, tg, b, alt, from) /\ from \notin Locals
         /\ ValOf(cl[from]) = Raw <=> TypeOf(alt) = Void
<1>1. cl \in CellFns /\ tg \in TagFns /\ Clear(cl, {}) /\ alt \in Alternatives /\ BoxFits(cl, tg, o)
  BY DEF Tidy, TagFits, Names
<1>2. /\ from = First(o) \/ from = Second(o)
      /\ from \in Cells \ {First(b), Second(b), Buffer, Backup} /\ from \notin Locals
  BY BoxCells, BoxesApart, LocalCells DEF CellOf
<1>3. Clear(cl, {from})
  BY <1>1 DEF Clear
<1>4. CASE TypeOf(alt) = Void
  <2>1. ~LiveIn(cl, from)
    BY <1>1, <1>2, <1>4, BareFits DEF Bare
  <2>2. ValOf(cl[from]) = Raw
    BY <1>1, <1>2, <2>1, LiveIsObject DEF ValOf
  <2> QED BY <1>1, <1>2, <1>3, <1>4, <2>1, <2>2 DEF Ready
<1>5. CASE TypeOf(alt) # Void
  <2>1. LiveIn(cl, from) /\ cl[from].ty = TypeOf(alt)
    BY <1>1, <1>2, <1>5 DEF BoxFits, Keeps
  <2>2. cl[from] \in Objects
    BY <1>1, <1>2, <2>1, LiveIsObject
  <2>3. ValOf(cl[from]) # Raw
    BY <2>2, ObjectParts, CellAssumption DEF ValOf
  <2> QED BY <1>1, <1>2, <1>3, <1>5, <2>1, <2>3 DEF Ready
<1> QED BY <1>4, <1>5

(* What a move or a copy leaves of a value. *)
LEMMA LeftValueIs ==
  ASSUME KindFits, NEW x, NEW how
  PROVE  ValOf(Left(x, how)) = LeftValue(ValOf(x), how)
<1>1. CASE x \in Objects
  BY <1>1, ObjectParts, CellAssumption DEF ValOf, Left, LeftValue, Objects
<1>2. CASE x \notin Objects
  BY <1>2 DEF ValOf, Left, LeftValue
<1> QED BY <1>1, <1>2

(* A body that places another box's object gives the box its value, and leaves the
   other as the move or the copy does. *)
LEMMA HandDoes ==
  ASSUME KindFits, NEW cl, NEW tg, NEW un, NEW b \in AllBoxes, NEW o \in AllBoxes, NEW alt, NEW from,
         NEW how, NEW body, NEW may, NEW t2, NEW W, Throws(alt, how) => may,
         Tidy(cl, tg), b # o, alt = tg[o], Names(alt), from = CellOf(o, alt),
         Places(body, cl, tg, un, b, alt, from, how), t2 = [tg EXCEPT ![b] = alt],
         W = [ValuesOf(cl, tg) EXCEPT ![b] = ValuesOf(cl, tg)[o], ![o] = LeftValue(@, how)]
  PROVE  Does(body, cl, tg, un, may, t2, W)
<1>1. /\ cl \in CellFns /\ tg \in TagFns /\ alt \in Alternatives /\ Clear(cl, {})
      /\ from \in Cells \ Locals /\ BoxFits(cl, tg, o)
  BY HandReady DEF Ready, Tidy
<1>2. /\ t2 \in TagFns /\ t2[b] = alt /\ TagFits(alt) /\ t2[o] = alt
      /\ \A x \in AllBoxes \ {b} : t2[x] = tg[x]
  BY <1>1, AlternativeFacts DEF TagFns, TagFits
<1>3. /\ W = [x \in AllBoxes |-> W[x]] /\ W[b] = ValOf(cl[from]) /\ W[o] = LeftValue(ValOf(cl[from]), how)
      /\ \A x \in AllBoxes \ {b, o} : W[x] = ValueIn(cl, tg, x)
  BY DEF ValuesOf, ValueIn
<1>4. ASSUME NEW c2, Placed(c2, t2, cl, tg, b, alt, from, how)
      PROVE  Tidy(c2, t2) /\ ValuesOf(c2, t2) = W
  <2>1. /\ c2 \in CellFns /\ Clear(c2, {}) /\ BoxFits(c2, t2, b) /\ c2[from] = Left(cl[from], how)
        /\ ValOf(c2[CellOf(b, alt)]) = ValOf(cl[from])
    BY <1>1, <1>4 DEF Placed, Clear
  <2>2. ASSUME NEW x \in AllBoxes \ {b, o}
        PROVE  SameBox(c2, t2, cl, tg, x)
    <3>1. \A c \in {First(x), Second(x)} :
             c \in Cells /\ c \notin Locals /\ c # First(b) /\ c # Second(b) /\ c # from
      BY <1>1, BoxCells, BoxesApart DEF CellOf
    <3> QED BY <1>2, <1>4, <3>1 DEF Placed, Same, SameBox
  <2>3. BoxFits(c2, t2, o)
    <3>1. \A c \in {First(o), Second(o)} :
             c \in Cells /\ c \notin Locals /\ c # First(b) /\ c # Second(b)
      BY <1>1, BoxCells, BoxesApart
    <3>2. ASSUME NEW c \in {First(o), Second(o)}
          PROVE  (LiveIn(c2, c) <=> LiveIn(cl, c)) /\ (LiveIn(cl, c) => c2[c].ty = cl[c].ty)
      <4>1. CASE c # from
        BY <1>4, <3>1, <4>1 DEF Placed, Same, LiveIn
      <4>2. CASE c = from
        <5>1. CASE LiveIn(cl, c)
          <6>1. cl[c] \in Objects
            BY <1>1, <3>1, <5>1, LiveIsObject
          <6>2. PICK x \in Objects : x = cl[c]
            BY <6>1
          <6>3. Left(x, how) \in Objects /\ Left(x, how).ty = x.ty
            BY ObjectParts
          <6>4. c2[c] = Left(x, how) /\ c2[c] # Raw /\ c2[c] # Null
            BY <2>1, <4>2, <6>2, <6>3, ObjectParts
          <6> QED BY <5>1, <6>2, <6>3, <6>4 DEF LiveIn
        <5>2. CASE ~LiveIn(cl, c)
          <6>1. cl[c] \notin Objects
            BY <1>1, <3>1, <5>2, LiveIsObject
          <6> QED BY <2>1, <4>2, <5>2, <6>1 DEF LiveIn, Left
        <5> QED BY <5>1, <5>2
      <4> QED BY <4>1, <4>2
    <3>3. t2[o] = tg[o]
      BY <1>2
    <3> QED BY <1>1, <3>2, <3>3 DEF BoxFits
  <2>4. W[b] = ValueIn(c2, t2, b)
    <3>1. t2[b] = alt /\ Names(alt)
      BY <1>2
    <3>2. ValueIn(c2, t2, b) = ValOf(c2[CellOf(b, alt)])
      BY ONLY <3>1, ValueWhere
    <3>3. W[b] = ValOf(cl[from])
      BY <1>3
    <3> QED BY ONLY <2>1, <3>2, <3>3
  <2>5. W[o] = ValueIn(c2, t2, o)
    <3>1. ValOf(c2[from]) = LeftValue(ValOf(cl[from]), how)
      BY <2>1, LeftValueIs
    <3>2. t2[o] = alt /\ Names(alt)
      BY <1>1, <1>2
    <3>3. ValueIn(c2, t2, o) = ValOf(c2[CellOf(o, alt)])
      BY ONLY <3>2, ValueWhere
    <3>4. W[o] = LeftValue(ValOf(cl[from]), how)
      BY <1>3
    <3> QED BY <3>1, <3>3, <3>4, Zenon
  <2>6. PICK S : S = {b, o}
    OBVIOUS
  <2>7. /\ \A x \in AllBoxes \ S : SameBox(c2, t2, cl, tg, x) /\ W[x] = ValueIn(cl, tg, x)
        /\ \A x \in AllBoxes \cap S : TagFits(t2[x]) /\ BoxFits(c2, t2, x) /\ W[x] = ValueIn(c2, t2, x)
    BY <1>2, <1>3, <2>1, <2>2, <2>3, <2>4, <2>5, <2>6
  <2> QED BY ONLY KindFits, Tidy(cl, tg), <1>2, <1>3, <2>1, <2>7, TidyAfter
<1>5. ASSUME NEW rest, NEW th, NEW P, IsCalls(rest),
             may => Unwinds(cl, tg, un, P),
             \A c2 : Tidy(c2, t2) /\ ValuesOf(c2, t2) = W => Fine(c2, t2, rest, un, th, P)
      PROVE  Fine(cl, tg, body \o rest, un, th, P)
  <2>1. \A c2, t3 : Placed(c2, t3, cl, tg, b, alt, from, how) => Fine(c2, t3, rest, un, th, P)
    BY <1>4, <1>5 DEF Placed
  <2> QED BY <1>5, <2>1 DEF Places
<1> QED BY <1>5 DEF Does, Places

-----------------------------------------------------------------------------
(* Boxes that lose their objects *)

Emptied(c2, cl, b) == c2 \in CellFns /\ Bare(c2, b) /\ Same(c2, cl, {First(b), Second(b)})

Vacant(c2, cl, b) ==
  c2 \in CellFns /\ Bare(c2, b) /\ Clear(c2, {})
  /\ Same(c2, cl, {First(b), Second(b), Args} \cup Locals)

(* A box that lost its object and its tag leaves all boxes tidy, whatever the locals
   were and whatever the caller got. *)
LEMMA EmptyTidy ==
  ASSUME KindFits, NEW cl, NEW tg, NEW b \in AllBoxes, NEW t, NEW t2, NEW W, NEW c2,
         Tidy(cl, tg), t = Gone \/ (t = Empty /\ kind # "either"), Vacant(c2, cl, b),
         t2 = [tg EXCEPT ![b] = t], W = [ValuesOf(cl, tg) EXCEPT ![b] = Raw]
  PROVE  Tidy(c2, t2) /\ ValuesOf(c2, t2) = W
<1>1. cl \in CellFns /\ tg \in TagFns /\ c2 \in CellFns /\ Bare(c2, b)
  BY DEF Tidy, Vacant
<1>2. t2 \in TagFns /\ t2[b] = t /\ TagFits(t) /\ ~Names(t) /\ \A x \in AllBoxes \ {b} : t2[x] = tg[x]
  BY <1>1, CellAssumption DEF TagFns, Tags, TagFits, Names
<1>3. BoxFits(c2, t2, b)
  BY <1>1, <1>2, BareFits
<1>4. ASSUME NEW x \in AllBoxes \ {b}
      PROVE  SameBox(c2, t2, cl, tg, x)
  BY <1>2, <1>4, BoxCells, BoxesApart DEF Vacant, Same, SameBox
<1>5. W = [x \in AllBoxes |-> W[x]] /\ W[b] = Raw /\ \A x \in AllBoxes \ {b} : W[x] = ValueIn(cl, tg, x)
  BY DEF ValuesOf
<1>6. W[b] = ValueIn(c2, t2, b)
  BY <1>2, <1>5 DEF ValueIn
<1>7. PICK S : S = {b}
  OBVIOUS
<1>8. /\ \A x \in AllBoxes \ S : SameBox(c2, t2, cl, tg, x) /\ W[x] = ValueIn(cl, tg, x)
      /\ \A x \in AllBoxes \cap S : TagFits(t2[x]) /\ BoxFits(c2, t2, x) /\ W[x] = ValueIn(c2, t2, x)
  BY <1>2, <1>3, <1>4, <1>5, <1>6, <1>7
<1>9. c2 \in CellFns /\ Clear(c2, {})
  BY DEF Vacant
<1> HIDE <1>7
<1> QED BY ONLY KindFits, Tidy(cl, tg), <1>2, <1>5, <1>8, <1>9, TidyAfter

(* The same when the locals were left alone. *)
LEMMA EmptiedTidy ==
  ASSUME KindFits, NEW cl, NEW tg, NEW b \in AllBoxes, NEW t, NEW t2, NEW W, NEW c2,
         Tidy(cl, tg), t = Gone \/ (t = Empty /\ kind # "either"), Emptied(c2, cl, b),
         t2 = [tg EXCEPT ![b] = t], W = [ValuesOf(cl, tg) EXCEPT ![b] = Raw]
  PROVE  Tidy(c2, t2) /\ ValuesOf(c2, t2) = W
<1>1. Clear(cl, {}) /\ c2 \in CellFns /\ Bare(c2, b)
  BY DEF Tidy, Emptied
<1>2. Vacant(c2, cl, b)
  BY <1>1, BoxCells, LocalCells DEF Vacant, Emptied, Same, Clear, LiveIn
<1> QED BY <1>1, <1>2, EmptyTidy

(* The object that a box of this tag has, if it has one, is destroyed. *)
DropBy(b, t) == IF Names(t) /\ TypeOf(t) # Void THEN <<Drop(CellOf(b, t))>> ELSE <<>>

(* The destructor call of the object that a tag names. *)
LEMMA DropByFine ==
  ASSUME KindFits, NEW cl \in CellFns, NEW tg, NEW rest, NEW un, NEW th, NEW P, NEW b \in AllBoxes,
         IsCalls(rest), BoxFits(cl, tg, b), tg[b] \in Alternatives \/ ~Names(tg[b]),
         \A c2 : Emptied(c2, cl, b) => Fine(c2, tg, rest, un, th, P)
  PROVE  IsCalls(DropBy(b, tg[b])) /\ Fine(cl, tg, DropBy(b, tg[b]) \o rest, un, th, P)
<1>1. CASE Names(tg[b]) /\ TypeOf(tg[b]) # Void
  <2>1. PICK c : c = CellOf(b, tg[b])
    OBVIOUS
  <2>2. DropBy(b, tg[b]) = <<Drop(c)>>
    BY <1>1, <2>1 DEF DropBy
  <2>3. /\ LiveIn(cl, c) /\ c \in {First(b), Second(b)} /\ c \in Cells
        /\ \A d \in {First(b), Second(b)} \ {c} : ~LiveIn(cl, d)
    BY <1>1, <2>1, BoxCells DEF BoxFits, Keeps, CellOf
  <2>4. ASSUME NEW c2, Dropped(c2, cl, c)
        PROVE  Fine(c2, tg, rest, un, th, P)
    <3>1. First(b) \in Cells /\ Second(b) \in Cells
      BY BoxCells
    <3>2. Emptied(c2, cl, b)
      BY <2>3, <2>4, <3>1 DEF Dropped, Same, Emptied, Bare, LiveIn
    <3> QED BY <3>2
  <2>5. Fine(cl, tg, Then(Drop(c), rest), un, th, P)
    BY <2>3, <2>4, DropCall DEF LiveIn
  <2> QED BY <2>2, <2>5, OneCall
<1>2. CASE ~(Names(tg[b]) /\ TypeOf(tg[b]) # Void)
  <2>1. DropBy(b, tg[b]) = <<>>
    BY <1>2 DEF DropBy
  <2>2. Emptied(cl, cl, b)
    BY <1>2, BareFits DEF Emptied, Same
  <2> QED BY <2>1, <2>2, NoCalls, NothingJoined
<1> QED BY <1>1, <1>2

(* The box goes, with what is in it. *)
LEMMA DestroyDoes ==
  ASSUME KindFits, NEW cl, NEW tg, NEW b \in AllBoxes, NEW t, NEW un, NEW may, NEW t2, NEW W, NEW drop,
         Tidy(cl, tg), t = Gone \/ (t = Empty /\ kind # "either"), drop = DropBy(b, tg[b]),
         t2 = [tg EXCEPT ![b] = t], W = [ValuesOf(cl, tg) EXCEPT ![b] = Raw]
  PROVE  Does(drop \o <<SetTag(b, t)>>, cl, tg, un, may, t2, W)
<1>1. /\ cl \in CellFns /\ tg \in TagFns /\ BoxFits(cl, tg, b)
      /\ tg[b] \in Alternatives \/ ~Names(tg[b])
  BY DEF Tidy, TagFits, Names
<1>2. PICK set : set = <<SetTag(b, t)>>
  OBVIOUS
<1>3. IsCalls(set) /\ \A rest : set \o rest = Then(SetTag(b, t), rest)
  BY <1>2, OneCall
<1>4. IsCalls(drop)
  BY OneCall, NoCalls DEF DropBy
<1>5. IsCalls(drop \o set)
  BY <1>3, <1>4, JoinedCalls
<1>6. ASSUME NEW rest, NEW th, NEW P, IsCalls(rest),
             \A c2 : Tidy(c2, t2) /\ ValuesOf(c2, t2) = W => Fine(c2, t2, rest, un, th, P)
      PROVE  Fine(cl, tg, (drop \o set) \o rest, un, th, P)
  <2>1. PICK r : r = Then(SetTag(b, t), rest)
    OBVIOUS
  <2>2. IsCalls(r) /\ (drop \o set) \o rest = drop \o r
    <3>1. IsCalls(rest) /\ IsCalls(set) /\ set \o rest = r
      BY <1>3, <1>6, <2>1
    <3>2. (drop \o set) \o rest = drop \o (set \o rest)
      <4>1. IsCalls(rest) /\ IsCalls(set)
        BY <3>1
      <4> HIDE <1>2
      <4> QED BY ONLY <1>4, <4>1, JoinedInTurn
    <3>3. IsCalls(r)
      BY ONLY <2>1, <3>1, ThenFacts
    <3> QED BY <3>1, <3>2, <3>3
  <2>3. ASSUME NEW c2, Emptied(c2, cl, b)
        PROVE  Fine(c2, tg, r, un, th, P)
    <3>1. Fine(c2, t2, rest, un, th, P)
      BY <1>6, <2>3, EmptiedTidy
    <3> QED BY <1>6, <2>1, <3>1, TagCall
  <2> QED BY <1>1, <2>2, <2>3, DropByFine
<1> QED BY <1>2, <1>5, <1>6 DEF Does

(* clear, for inplace_t and the erasing wrappers *)
LEMMA EmptyFine ==
  ASSUME KindFits, kind # "either", NEW cl \in CellFns, NEW tg \in TagFns, NEW rest, NEW un,
         NEW th, NEW P,
         NEW b \in AllBoxes, NEW has \in BOOLEAN, NEW t1,
         IsCalls(rest), BoxFits(cl, tg, b), tg[b] \in Alternatives \/ tg[b] = Empty,
         has <=> Names(tg[b]), t1 = [tg EXCEPT ![b] = Empty],
         \A c2 : Emptied(c2, cl, b) => Fine(c2, t1, rest, un, th, P)
  PROVE  IsCalls(InplaceDestroy(b, has)) /\ Fine(cl, tg, InplaceDestroy(b, has) \o rest, un, th, P)
<1>1. CASE has
  <2>1. PICK a1, a2 : a1 = Drop(First(b)) /\ a2 = SetTag(b, Empty)
    OBVIOUS
  <2>2. InplaceDestroy(b, has) = <<a1, a2>>
    BY <1>1, <2>1 DEF InplaceDestroy
  <2>3. IsCalls(<<a1, a2>>)
    BY ONLY TwoCalls
  <2>4. PICK r : r = Then(a2, rest)
    OBVIOUS
  <2>5. IsCalls(rest)
    OBVIOUS
  <2>6. IsCalls(r) /\ <<a1, a2>> \o rest = Then(a1, r)
    <3>1. IsCalls(r)
      BY ONLY <2>4, <2>5, ThenFacts
    <3>2. <<a1, a2>> \o rest = Then(a1, Then(a2, rest))
      BY ONLY <2>5, TwoCalls
    <3> QED BY <2>4, <3>1, <3>2
  <2>7. Names(tg[b]) /\ tg[b] \in Alternatives /\ TypeOf(tg[b]) # Void /\ CellOf(b, tg[b]) = First(b)
    BY <1>1, AlternativeFacts DEF KindFits, Names
  <2>8. DropBy(b, tg[b]) = <<a1>>
    BY <2>1, <2>7 DEF DropBy
  <2>9. ASSUME NEW c2, Emptied(c2, cl, b)
        PROVE  Fine(c2, tg, r, un, th, P)
    <3>1. Fine(c2, t1, rest, un, th, P)
      BY <2>9
    <3> QED BY <2>1, <2>4, <2>5, <3>1, TagCall
  <2>10. Fine(cl, tg, DropBy(b, tg[b]) \o r, un, th, P)
    BY <2>6, <2>7, <2>9, DropByFine
  <2>11. DropBy(b, tg[b]) \o r = Then(a1, r)
    BY <2>8, OneCall
  <2> QED BY <2>2, <2>3, <2>6, <2>10, <2>11
<1>2. CASE ~has
  <2>1. InplaceDestroy(b, has) = <<>>
    BY <1>2 DEF InplaceDestroy
  <2>2. tg[b] = Empty /\ t1 = tg
    BY <1>2, AlternativeFacts DEF TagFns
  <2>3. Emptied(cl, cl, b)
    BY <1>2, BareFits DEF Emptied, Same
  <2>4. Fine(cl, tg, rest, un, th, P)
    BY <2>2, <2>3
  <2> QED BY <2>1, <2>4, NoCalls, NothingJoined
<1> QED BY <1>1, <1>2

(* inplace_t's destroy empties the box. *)
LEMMA EmptyDoes ==
  ASSUME KindFits, kind # "either", NEW cl, NEW tg, NEW un, NEW may,
         NEW b \in AllBoxes, NEW has \in BOOLEAN, NEW t2, NEW W,
         Tidy(cl, tg), tg[b] # Gone, has <=> Names(tg[b]), t2 = [tg EXCEPT ![b] = Empty],
         W = [ValuesOf(cl, tg) EXCEPT ![b] = Raw]
  PROVE  Does(InplaceDestroy(b, has), cl, tg, un, may, t2, W)
<1>1. /\ cl \in CellFns /\ tg \in TagFns /\ BoxFits(cl, tg, b)
      /\ tg[b] \in Alternatives \/ tg[b] = Empty
  BY DEF Tidy, TagFits
<1>2. IsCalls(InplaceDestroy(b, has))
  BY TwoCalls, NoCalls DEF InplaceDestroy
<1>3. ASSUME NEW rest, NEW th, NEW P, IsCalls(rest),
             \A c2 : Tidy(c2, t2) /\ ValuesOf(c2, t2) = W => Fine(c2, t2, rest, un, th, P)
      PROVE  Fine(cl, tg, InplaceDestroy(b, has) \o rest, un, th, P)
  <2>1. \A c2 : Emptied(c2, cl, b) => Fine(c2, t2, rest, un, th, P)
    BY <1>3, EmptiedTidy
  <2> QED BY <1>1, <1>3, <2>1, EmptyFine
<1> QED BY <1>2, <1>3 DEF Does

(* A new box that holds nothing *)
LEMMA NewEmptyDoes ==
  ASSUME KindFits, kind # "either", NEW cl, NEW tg, NEW un, NEW may, NEW b \in AllBoxes, NEW t2,
         Tidy(cl, tg), tg[b] = Gone, t2 = [tg EXCEPT ![b] = Empty]
  PROVE  /\ Tidy(cl, t2) /\ ValuesOf(cl, t2) = ValuesOf(cl, tg)
         /\ Does(<<SetTag(b, Empty)>>, cl, tg, un, may, t2, ValuesOf(cl, tg))
<1>1. BoxFits(cl, tg, b) /\ ~Names(tg[b]) /\ cl \in CellFns
  BY DEF Tidy, Names
<1>2. Emptied(cl, cl, b)
  BY <1>1, BareFits DEF Emptied, Same
<1>3. ValuesOf(cl, tg) = [ValuesOf(cl, tg) EXCEPT ![b] = Raw]
  BY <1>1 DEF ValuesOf, ValueIn
<1>4. Tidy(cl, t2) /\ ValuesOf(cl, t2) = ValuesOf(cl, tg)
  BY <1>2, <1>3, EmptiedTidy
<1> QED BY <1>4, DoesTag

(* A new box whose constructor builds an object: if that throws the box is not there. *)
LEMMA NewBoxDoes ==
  ASSUME KindFits, NEW cl, NEW tg \in TagFns, NEW b \in AllBoxes, NEW body, NEW may, NEW t1,
         NEW t2, NEW W,
         tg[b] = Gone, t1 = [tg EXCEPT ![b] = Empty], Does(body, cl, t1, NoBox(b), may, t2, W)
  PROVE  Does(<<SetTag(b, Empty)>> \o OrNoBox(b, body), cl, tg, <<>>, may, t2, W)
<1>1. IsCalls(body)
  BY DEF Does
<1>2. PICK new, set : new = OrNoBox(b, body) /\ set = SetTag(b, Empty)
  OBVIOUS
<1>3. IsCalls(new)
  BY <1>1, <1>2, OrNoBoxIs
<1>4. IsCalls(<<set>> \o new)
  BY <1>3, OneCall, JoinedCalls
<1>5. ASSUME NEW rest, NEW th, NEW P, IsCalls(rest), may => Unwinds(cl, tg, <<>>, P),
             \A c2 : Tidy(c2, t2) /\ ValuesOf(c2, t2) = W => Fine(c2, t2, rest, <<>>, th, P)
      PROVE  Fine(cl, tg, (<<set>> \o new) \o rest, <<>>, th, P)
  <2>1. IsCalls(new \o rest) /\ (<<set>> \o new) \o rest = Then(set, new \o rest)
    BY <1>3, <1>5, JoinedCalls, CallAhead
  <2>2. PICK un, r : un = NoBox(b) /\ r = Then(EndTry, rest)
    OBVIOUS
  <2>3. IsCalls(r) /\ IsCalls(body \o r) /\ new \o rest = Then(Try(un), body \o r)
    <3>1. IsCalls(rest)
      BY <1>5
    <3>2. IsCalls(r)
      BY ONLY <2>2, <3>1, ThenFacts
    <3>3. IsCalls(body \o r)
      BY ONLY <1>1, <3>2, JoinedCalls
    <3>4. OrNoBox(b, body) \o rest = Then(Try(NoBox(b)), body \o Then(EndTry, rest))
      BY ONLY <1>1, <3>1, OrNoBoxIs
    <3> QED BY <1>2, <2>2, <3>2, <3>3, <3>4
  <2>4. may => Unwinds(cl, t1, un, P)
    BY <1>5, <2>2, InTry
  <2>5. ASSUME NEW c2, Tidy(c2, t2), ValuesOf(c2, t2) = W
        PROVE  Fine(c2, t2, r, un, th, P)
    <3>1. Fine(c2, t2, rest, <<>>, th, P)
      BY <1>5, <2>5
    <3> QED BY <1>5, <2>2, <3>1, TryCall DEF EndTry
  <2>6. Fine(cl, t1, body \o r, un, th, P)
    BY <2>2, <2>3, <2>4, <2>5 DEF Does
  <2>7. Fine(cl, t1, new \o rest, <<>>, th, P)
    BY <2>3, <2>6, TryCall
  <2> QED BY <1>2, <2>1, <2>7, TagCall
<1> QED BY <1>2, <1>4, <1>5 DEF Does

-----------------------------------------------------------------------------
(* inplace_t *)

(* A constructor call and the tag, in a box without an object *)
LEMMA BuildPlaces ==
  ASSUME KindFits, NEW cl, NEW tg, NEW b, NEW alt, NEW from, NEW how, NEW un, NEW c,
         c = CellOf(b, alt), Ready(cl, tg, b, alt, from), TypeOf(alt) # Void, Bare(cl, b), IsUndo(un)
  PROVE  Places(<<Make(c, from, how), SetTag(b, alt)>>, cl, tg, un, b, alt, from, how)
<1>1. PICK a1, a2 : a1 = Make(c, from, how) /\ a2 = SetTag(b, alt)
  OBVIOUS
<1>2. IsCalls(<<a1, a2>>)
  BY ONLY TwoCalls
<1>3. ASSUME NEW rest, NEW th, NEW P, IsCalls(rest),
             Throws(alt, how) => Unwinds(cl, tg, un, P),
             \A c2, t2 : Placed(c2, t2, cl, tg, b, alt, from, how) => Fine(c2, t2, rest, un, th, P)
      PROVE  Fine(cl, tg, <<a1, a2>> \o rest, un, th, P)
  <2>1. IsCalls(rest)
    BY <1>3
  <2>2. <<a1, a2>> \o rest = Then(a1, Then(a2, rest))
    BY ONLY <2>1, TwoCalls
  <2> QED BY <1>1, <1>3, <2>2, BuildFine
<1> QED BY <1>1, <1>2, <1>3 DEF Places

(* inplace_t's emplace, where a type can be replaced safely or the box is empty. *)
LEMMA InplaceEmplacePlaces ==
  ASSUME KindFits, kind = "inplace", NEW cl, NEW tg, NEW b, NEW from, NEW how, NEW un,
         NEW has \in BOOLEAN,
         Ready(cl, tg, b, "first", from), IsUndo(un), BoxFits(cl, tg, b),
         tg[b] = Empty \/ tg[b] = "first", has <=> tg[b] = "first", has => CanStrongReplace(T)
  PROVE  Places(InplaceEmplace(b, has, from, how), cl, tg, un, b, "first", from, how)
<1>1. TypeOf("first") = T /\ T # Void /\ CellOf(b, "first") = First(b) /\ b \in AllBoxes
  BY BoxAssumption DEF TypeOf, CellOf, KindFits, Ready
<1>2. CASE has
  <2>1. InplaceEmplace(b, has, from, how) = EmplaceAt(First(b), T, from, how)
    BY <1>2 DEF InplaceEmplace
  <2>2. tg[b] = "first" /\ CanStrongReplace(T)
    BY <1>2
  <2>3. Places(EmplaceAt(First(b), T, from, how), cl, tg, un, b, "first", from, how)
    BY <1>1, <2>2, EmplacePlaces
  <2> QED BY <2>1, <2>3
<1>3. CASE ~has
  <2>1. InplaceEmplace(b, has, from, how) = <<Make(First(b), from, how), SetTag(b, "first")>>
    BY <1>3 DEF InplaceEmplace, InplaceConstruct
  <2>2. tg[b] = Empty
    BY <1>3
  <2>3. Bare(cl, b)
    BY <2>2, BareFits DEF Names
  <2> QED BY <1>1, <2>1, <2>3, BuildPlaces
<1> QED BY <1>2, <1>3

(* An object goes through a local. *)
LEMMA InplaceAssignPlaces ==
  ASSUME KindFits, kind = "inplace", NEW cl, NEW tg, NEW b, NEW o, NEW from, NEW how,
         NEW hasB \in BOOLEAN,
         Ready(cl, tg, b, "first", from), from \notin Locals, from = First(o), BoxFits(cl, tg, b),
         tg[b] = Empty \/ tg[b] = "first", hasB <=> tg[b] = "first", CanStrongReplace(T),
         how = "copy" \/ ~Throws("first", how)
  PROVE  Places(InplaceAssign(b, hasB, o, TRUE, how), cl, tg, <<>>, b, "first", from, how)
<1>1. /\ TypeOf("first") = T /\ T # Void /\ T \in Types /\ CellOf(b, "first") = First(b) /\ b \in AllBoxes
      /\ tg \in TagFns
  BY BoxAssumption DEF TypeOf, CellOf, KindFits, Ready
<1>2. /\ cl \in CellFns /\ from \in Cells /\ Tmp \in Cells /\ from # Tmp /\ Clear(cl, {})
      /\ LiveIn(cl, from) /\ cl[from].ty = T /\ ~LiveIn(cl, Tmp)
      /\ Tmp # First(b) /\ Tmp # Second(b) /\ from # First(b) /\ from # Second(b)
      /\ Tmp # Buffer /\ Tmp # Backup
  BY <1>1, BoxCells, LocalCells DEF Ready, Clear
<1>3. PICK x \in Objects : x = cl[from] /\ x.ty = T
  BY <1>2, LiveIsObject
<1>4. Left(x, how) \in Objects /\ x # Raw /\ x # Null
  BY ObjectParts
<1>5. PICK p, q, r, body : /\ p = Make(Tmp, from, how) /\ q = InplaceEmplace(b, hasB, Tmp, how)
                           /\ r = Drop(Tmp) /\ body = Around(p, q, r)
  OBVIOUS
<1>6. InplaceAssign(b, hasB, o, TRUE, how) = body
  BY <1>5 DEF InplaceAssign, Around
<1>7. IsCalls(q)
  BY <1>5, TwoCalls, ThreeCalls, FourCalls
     DEF InplaceEmplace, InplaceConstruct, EmplaceAt, CanStrongReplace, CanStrongConstruct, NothrowOf
<1>8. IsCalls(body)
  BY <1>5, <1>7, CallsAround
<1>9. ASSUME NEW rest, NEW th, NEW P, IsCalls(rest),
             Throws("first", how) => Unwinds(cl, tg, <<>>, P),
             \A c2, t2 : Placed(c2, t2, cl, tg, b, "first", from, how) => Fine(c2, t2, rest, <<>>, th, P)
      PROVE  Fine(cl, tg, body \o rest, <<>>, th, P)
  <2>1. PICK r1, r2 : r1 = Then(r, rest) /\ r2 = q \o r1
    OBVIOUS
  <2>2. IsCalls(r1) /\ IsCalls(r2)
    BY <1>7, <1>9, <2>1, ThenFacts, JoinedCalls
  <2>3. body \o rest = Then(p, r2)
    <3>1. IsCalls(rest)
      BY <1>9
    <3>2. Around(p, q, r) \o rest = Then(p, q \o Then(r, rest))
      BY ONLY <1>7, <3>1, CallsAround
    <3> QED BY <1>5, <2>1, <3>2
  <2>4. NothrowOf(T, how) \/ Fine(cl, tg, Unwound(<<>>, cl), <<>>, TRUE, P)
    BY <1>1, <1>2, <1>9, Unwinding DEF Throws, IsUndo
  <2>5. SUFFICES Fine(cl, tg, Then(Make(Tmp, from, how), r2), <<>>, th, P)
    BY <1>5, <2>3
  <2>6. SUFFICES ASSUME NEW c1, Made(c1, cl, Tmp, from, how)
                 PROVE  Fine(c1, tg, r2, <<>>, th, P)
    BY <1>2, <2>2, <2>4, MakeCall
  <2>7. /\ c1 \in CellFns /\ c1[Tmp] = x /\ c1[from] = Left(x, how) /\ LiveIn(c1, Tmp)
        /\ Same(c1, cl, {Tmp, from})
    BY <1>2, <1>3, <1>4, <2>6 DEF Made, Same, LiveIn
  <2>8. Clear(c1, {Tmp})
    BY <1>2, <2>7, LocalCells DEF Clear, Same, LiveIn
  <2>9. Ready(c1, tg, b, "first", Tmp)
    BY <1>1, <1>2, <1>3, <2>7, <2>8 DEF Ready
  <2>10. BoxFits(c1, tg, b)
    BY <1>1, <1>2, <2>7, BoxCells DEF BoxFits, Same, LiveIn
  <2>11. Places(q, c1, tg, <<>>, b, "first", Tmp, how)
    BY <1>5, <2>9, <2>10, InplaceEmplacePlaces DEF IsUndo
  <2>12. Throws("first", how) => Unwinds(c1, tg, <<>>, P)
    <3>1. CASE Throws("first", how)
      <4>1. Left(x, how) = x
        BY <3>1 DEF Left
      <4>2. Same(c1, cl, Locals)
        BY <1>3, <2>7, <4>1, LocalCells DEF Same
      <4> QED BY <1>9, <2>7, <3>1, <4>2, UnwindsLater
    <3> QED BY <3>1
  <2>13. SUFFICES ASSUME NEW c2, NEW t2, Placed(c2, t2, c1, tg, b, "first", Tmp, how)
                  PROVE  Fine(c2, t2, r1, <<>>, th, P)
    BY <2>1, <2>2, <2>11, <2>12 DEF Places
  <2>14. /\ c2 \in CellFns /\ t2 = [tg EXCEPT ![b] = "first"] /\ BoxFits(c2, t2, b)
         /\ ValOf(c2[First(b)]) = ValOf(x) /\ c2[Tmp] = Left(x, how) /\ Clear(c2, {Tmp})
         /\ Same(c2, c1, {First(b), Second(b), Tmp} \cup Locals)
    BY <1>1, <2>7, <2>13 DEF Placed
  <2>15. c2[Tmp] # Raw
    BY <1>4, <2>14, ObjectParts
  <2>16. SUFFICES ASSUME NEW c3, Dropped(c3, c2, Tmp)
                  PROVE  Fine(c3, t2, rest, <<>>, th, P)
    BY <1>2, <1>5, <1>9, <2>1, <2>14, <2>15, DropCall
  <2>17. c3 \in CellFns /\ c3[Tmp] = Raw /\ Same(c3, c2, {Tmp})
    BY <2>16 DEF Dropped
  <2>18. BoxFits(c3, t2, b) /\ c3[First(b)] = c2[First(b)]
    BY <1>1, <1>2, <2>14, <2>17, BoxCells DEF BoxFits, Same, LiveIn
  <2>19. c3[from] = Left(x, how)
    <3>1. c2[from] = c1[from]
      BY <1>2, <2>14, LocalCells DEF Same
    <3> QED BY <1>2, <2>7, <2>17, <3>1 DEF Same
  <2>20. Clear(c3, {from})
    BY <2>14, <2>17, LocalCells DEF Clear, Same, LiveIn
  <2>21. Same(c3, cl, {First(b), Second(b), from} \cup Locals)
    BY <2>7, <2>14, <2>17, LocalCells DEF Same
  <2>22. Placed(c3, t2, cl, tg, b, "first", from, how)
    BY <1>1, <1>3, <2>14, <2>17, <2>18, <2>19, <2>20, <2>21 DEF Placed
  <2> QED BY <1>9, <2>22
<1> QED BY <1>6, <1>8, <1>9 DEF Places

HandTags(tg, b, o) == [tg EXCEPT ![b] = tg[o]]
HandValues(v, b, o, how) == [v EXCEPT ![b] = v[o], ![o] = LeftValue(@, how)]

(* To get what an empty box holds is to be empty. *)
LEMMA HandEmpty ==
  ASSUME NEW cl, NEW tg \in TagFns, NEW b \in AllBoxes, NEW o \in AllBoxes, NEW how, b # o,
         tg[o] = Empty
  PROVE  /\ HandTags(tg, b, o) = [tg EXCEPT ![b] = Empty]
         /\ HandValues(ValuesOf(cl, tg), b, o, how) = [ValuesOf(cl, tg) EXCEPT ![b] = Raw]
<1>1. ValuesOf(cl, tg)[o] = Raw
  BY DEF ValuesOf, ValueIn, Names
<1> QED BY <1>1 DEF HandTags, HandValues, ValuesOf, LeftValue

(* The same for a new box whose constructor does it, *)
LEMMA PutNewDoes ==
  ASSUME KindFits, kind # "either", NEW cl, NEW tg, NEW b \in AllBoxes, NEW alt, NEW from, NEW how,
         NEW body,
         NEW may, NEW t1, NEW t2, NEW W, Throws(alt, how) => may, Tidy(cl, tg), tg[b] = Gone,
         from = Args, Ready(cl, tg, b, alt, from),
         t1 = [tg EXCEPT ![b] = Empty], Places(body, cl, t1, NoBox(b), b, alt, from, how),
         t2 = [tg EXCEPT ![b] = alt], W = [ValuesOf(cl, tg) EXCEPT ![b] = ValOf(cl[from])]
  PROVE  Does(<<SetTag(b, Empty)>> \o OrNoBox(b, body), cl, tg, <<>>, may, t2, W)
<1>1. Tidy(cl, t1) /\ ValuesOf(cl, t1) = ValuesOf(cl, tg)
  BY NewEmptyDoes
<1>2. tg \in TagFns /\ t1 \in TagFns /\ cl \in CellFns /\ Clear(cl, {from})
  BY <1>1 DEF Tidy, Ready
<1>3. [t1 EXCEPT ![b] = alt] = t2
  BY <1>2 DEF TagFns
<1>4. Ready(cl, t1, b, alt, from)
  BY <1>2, ReadyAfter
<1>5. t2 = [t1 EXCEPT ![b] = alt] /\ W = [ValuesOf(cl, t1) EXCEPT ![b] = ValOf(cl[from])]
  BY <1>1, <1>3
<1>6. Does(body, cl, t1, NoBox(b), may, t2, W)
  BY <1>1, <1>4, <1>5, PutDoes
<1> QED BY <1>2, <1>6, NewBoxDoes

(* A constructor of inplace_t or of a wrapper from another box. *)
LEMMA HandNewDoes ==
  ASSUME KindFits, kind # "either", NEW cl, NEW tg, NEW b \in AllBoxes, NEW o \in AllBoxes, NEW how,
         NEW body, NEW made, NEW may, NEW t2, NEW W, Tidy(cl, tg), tg[b] = Gone, tg[o] # Gone,
         Names(tg[o]) /\ Throws(tg[o], how) => may,
         made = <<Make(First(b), First(o), how), SetTag(b, tg[o])>>,
         body = (IF Names(tg[o]) THEN OrNoBox(b, made) ELSE <<>>),
         t2 = HandTags(tg, b, o), W = HandValues(ValuesOf(cl, tg), b, o, how)
  PROVE  Does(<<SetTag(b, Empty)>> \o body, cl, tg, <<>>, may, t2, W)
<1>1. tg \in TagFns /\ cl \in CellFns /\ b # o
  BY DEF Tidy
<1>2. PICK t1 : t1 = [tg EXCEPT ![b] = Empty]
  OBVIOUS
<1>3. Tidy(cl, t1) /\ ValuesOf(cl, t1) = ValuesOf(cl, tg)
  BY <1>2, NewEmptyDoes
<1>4. t1 \in TagFns /\ t1[o] = tg[o] /\ t1[b] = Empty
  BY <1>1, <1>2, <1>3 DEF TagFns, Tidy
<1>5. CASE Names(tg[o])
  <2>1. PICK alt, from : alt = tg[o] /\ from = First(o)
    OBVIOUS
  <2>2. alt \in Alternatives
    BY <2>1, <1>5 DEF Tidy, TagFits, Names
  <2>3. TypeOf(alt) # Void /\ from = CellOf(o, alt) /\ First(b) = CellOf(b, alt)
    BY <2>1, <2>2, AlternativeFacts DEF KindFits
  <2>4. Ready(cl, t1, b, alt, from)
    BY <1>1, <1>3, <1>4, <1>5, <2>1, <2>3, HandReady
  <2>5. Bare(cl, b)
    BY <1>3, <1>4, BareFits DEF Tidy, Names
  <2>6. Places(made, cl, t1, NoBox(b), b, alt, from, how)
    <3>1. IsUndo(NoBox(b))
      BY DEF IsUndo, NoBox
    <3>2. Places(<<Make(First(b), from, how), SetTag(b, alt)>>, cl, t1, NoBox(b), b, alt, from, how)
      BY <2>3, <2>4, <2>5, <3>1, BuildPlaces
    <3> QED BY <2>1, <3>2
  <2>7. [t1 EXCEPT ![b] = alt] = t2
    BY <1>1, <1>2, <2>1 DEF TagFns, HandTags
  <2>8. Does(made, cl, t1, NoBox(b), may, t2, W)
    BY <1>1, <1>3, <1>4, <1>5, <2>1, <2>3, <2>6, <2>7, HandDoes DEF HandValues
  <2>9. Does(<<SetTag(b, Empty)>> \o OrNoBox(b, made), cl, tg, <<>>, may, t2, W)
    BY <1>1, <1>2, <2>8, NewBoxDoes
  <2> QED BY <1>5, <2>9
<1>6. CASE ~Names(tg[o])
  <2>1. tg[o] = Empty
    BY <1>6 DEF Names
  <2>2. t2 = t1 /\ W = ValuesOf(cl, tg)
    <3>1. ValuesOf(cl, tg) = [ValuesOf(cl, tg) EXCEPT ![b] = Raw]
      BY DEF ValuesOf, ValueIn, Names
    <3> QED BY <1>1, <1>2, <2>1, <3>1, HandEmpty
  <2>3. Does(<<SetTag(b, Empty)>>, cl, tg, <<>>, may, t2, W)
    BY <1>2, <2>2, NewEmptyDoes
  <2>4. PICK set : set = <<SetTag(b, Empty)>>
    OBVIOUS
  <2>5. IsCalls(set)
    BY <2>4, OneCall
  <2>6. set \o <<>> = set
    BY ONLY <2>5, NothingJoined
  <2> QED BY <1>6, <2>3, <2>4, <2>6
<1> QED BY <1>5, <1>6

(* inplace_t's copy and move constructors. *)
LEMMA InplaceCreateFromDoes ==
  ASSUME KindFits, kind = "inplace", NEW cl, NEW tg, NEW b \in AllBoxes, NEW o \in AllBoxes,
         NEW has \in BOOLEAN, NEW how, NEW may, NEW t2, NEW W, Tidy(cl, tg), tg[b] = Gone,
         tg[o] # Gone, has <=> Names(tg[o]), Throws("first", how) => may, t2 = HandTags(tg, b, o),
         W = HandValues(ValuesOf(cl, tg), b, o, how)
  PROVE  Does(InplaceCreateFrom(b, o, has, how), cl, tg, <<>>, may, t2, W)
<1>1. Names(tg[o]) => tg[o] = "first"
  BY DEF Tidy, TagFits, Names, Alternatives
<1>2. PICK made, body : /\ made = <<Make(First(b), First(o), how), SetTag(b, tg[o])>>
                        /\ body = (IF Names(tg[o]) THEN OrNoBox(b, made) ELSE <<>>)
  OBVIOUS
<1>3. InplaceCreateFrom(b, o, has, how) = <<SetTag(b, Empty)>> \o body
  BY <1>1, <1>2 DEF InplaceCreateFrom, InplaceConstruct
<1>4. Names(tg[o]) /\ Throws(tg[o], how) => may
  BY <1>1
<1> QED BY <1>2, <1>3, <1>4, HandNewDoes

(* inplace_t's assignments from another box. *)
LEMMA InplaceAssignDoes ==
  ASSUME KindFits, kind = "inplace", NEW cl, NEW tg, NEW b \in AllBoxes, NEW o \in AllBoxes,
         NEW hasB \in BOOLEAN, NEW hasO \in BOOLEAN, NEW how, NEW may, NEW t2, NEW W,
         Tidy(cl, tg), b # o, tg[b] # Gone, tg[o] # Gone, hasB <=> Names(tg[b]), hasO <=> Names(tg[o]),
         CanStrongReplace(T), how = "copy" \/ ~Throws("first", how), Throws("first", how) => may,
         t2 = HandTags(tg, b, o), W = HandValues(ValuesOf(cl, tg), b, o, how)
  PROVE  Does(InplaceAssign(b, hasB, o, hasO, how), cl, tg, <<>>, may, t2, W)
<1>1. /\ tg \in TagFns /\ cl \in CellFns /\ BoxFits(cl, tg, b)
      /\ tg[b] \in {Empty, "first"} /\ tg[o] \in {Empty, "first"}
  BY DEF Tidy, TagFits, Alternatives
<1>2. CASE hasO
  <2>1. PICK from : from = First(o)
    OBVIOUS
  <2>2. tg[o] = "first" /\ from = CellOf(o, "first") /\ Names("first")
    BY <1>1, <1>2, <2>1 DEF Names, CellOf
  <2>3. Ready(cl, tg, b, "first", from) /\ from \notin Locals
    <3>1. PICK alt : alt = tg[o]
      OBVIOUS
    <3>2. Ready(cl, tg, b, alt, from) /\ from \notin Locals
      BY <2>2, <3>1, HandReady
    <3> QED BY <2>2, <3>1, <3>2
  <2>4. (hasB <=> tg[b] = "first") /\ (tg[b] = Empty \/ tg[b] = "first")
    BY <1>1, <2>2 DEF Names
  <2>5. Places(InplaceAssign(b, hasB, o, TRUE, how), cl, tg, <<>>, b, "first", from, how)
    BY <1>1, <2>1, <2>3, <2>4, InplaceAssignPlaces
  <2>6. Does(InplaceAssign(b, hasB, o, TRUE, how), cl, tg, <<>>, may, t2, W)
    BY <2>2, <2>5, HandDoes DEF HandTags, HandValues
  <2> QED BY <1>2, <2>6
<1>3. CASE ~hasO
  <2>1. tg[o] = Empty
    BY <1>3 DEF Names
  <2>2. InplaceAssign(b, hasB, o, hasO, how) = InplaceDestroy(b, hasB)
    BY <1>3 DEF InplaceAssign
  <2>3. t2 = [tg EXCEPT ![b] = Empty] /\ W = [ValuesOf(cl, tg) EXCEPT ![b] = Raw]
    BY <1>1, <2>1, HandEmpty
  <2>4. kind # "either"
    OBVIOUS
  <2>5. Does(InplaceDestroy(b, hasB), cl, tg, <<>>, may, t2, W)
    BY <2>3, <2>4, EmptyDoes
  <2> QED BY <2>2, <2>5
<1> QED BY <1>2, <1>3

(* An empty box goes. *)
LEMMA GoneDoes ==
  ASSUME KindFits, NEW cl, NEW tg, NEW un, NEW may, NEW b \in AllBoxes, NEW t2,
         Tidy(cl, tg), tg[b] = Empty, t2 = [tg EXCEPT ![b] = Gone]
  PROVE  Does(<<SetTag(b, Gone)>>, cl, tg, un, may, t2, ValuesOf(cl, tg))
<1>1. BoxFits(cl, tg, b) /\ ~Names(tg[b]) /\ cl \in CellFns
  BY DEF Tidy, Names
<1>2. Emptied(cl, cl, b)
  BY <1>1, BareFits DEF Emptied, Same
<1>3. ValuesOf(cl, tg) = [ValuesOf(cl, tg) EXCEPT ![b] = Raw]
  BY <1>1 DEF ValuesOf, ValueIn
<1>4. Tidy(cl, t2) /\ ValuesOf(cl, t2) = ValuesOf(cl, tg)
  BY <1>2, <1>3, EmptiedTidy
<1> QED BY <1>4, DoesTag

(* inplace_t's steal: the object moves out, the box is empty, and the caller gets the object,
   or the value is lost with the local. *)
LEMMA InplaceStealFine ==
  ASSUME KindFits, kind = "inplace", NEW cl, NEW tg, NEW b \in AllBoxes, NEW t2, NEW P, NEW th, th = FALSE,
         Tidy(cl, tg), Names(tg[b]), ~LiveIn(cl, Args), t2 = [tg EXCEPT ![b] = Empty],
         Throws("first", "move") => Unwinds(cl, tg, <<>>, P),
         \A c2 : Vacant(c2, cl, b) => <<c2, t2, th>> \in P,
         \A c2 : Throws("first", "move") /\ Vacant(c2, cl, b) => <<c2, t2, TRUE>> \in P
  PROVE  Fine(cl, tg, InplaceSteal(b), <<>>, th, P)
<1>1. /\ tg \in TagFns /\ cl \in CellFns /\ BoxFits(cl, tg, b) /\ Clear(cl, {}) /\ tg[b] = "first"
      /\ kind # "either" /\ tg[b] \in Alternatives
  BY DEF Tidy, TagFits, Alternatives, Names
<1>2. TypeOf("first") = T /\ T # Void /\ T \in Types /\ CellOf(b, "first") = First(b)
  BY BoxAssumption DEF TypeOf, CellOf, KindFits
<1>3. PICK from : from = First(b)
  OBVIOUS
<1>4. /\ LiveIn(cl, from) /\ cl[from].ty = T /\ ~LiveIn(cl, Second(b)) /\ ~LiveIn(cl, Tmp)
      /\ from \in Cells /\ Second(b) \in Cells /\ Tmp \in Cells /\ Args \in Cells
      /\ from # Tmp /\ Second(b) # Tmp /\ from # Second(b)
      /\ Args # Tmp /\ Args # from /\ Args # Second(b)
  BY <1>1, <1>2, <1>3, BoxCells, LocalCells DEF BoxFits, Keeps, Clear
<1>5. PICK x \in Objects : x = cl[from] /\ x.ty = T
  BY <1>1, <1>4, LiveIsObject
<1>6. Left(x, "move") \in Objects /\ Left(x, "move").ty = x.ty /\ x # Raw /\ x # Null
  BY ObjectParts
<1>7. Left(x, "move") # Raw /\ Left(x, "move") # Null
  BY <1>6, ObjectParts
<1>8. PICK p, q, r, s, has : /\ p = Make(Tmp, from, "move") /\ q = InplaceDestroy(b, has) /\ has = TRUE
                             /\ r = Make(Args, Tmp, "move") /\ s = Drop(Tmp)
  OBVIOUS
<1>9. PICK r1, r2, r3 : r1 = Then(s, <<>>) /\ r2 = Then(r, r1) /\ r3 = q \o r2
  OBVIOUS
<1>10. IsCalls(q) /\ IsCalls(r1) /\ IsCalls(r2) /\ IsCalls(r3)
  <2>1. IsCalls(q)
    BY <1>8, TwoCalls DEF InplaceDestroy
  <2>2. IsCalls(r1) /\ IsCalls(r2)
    BY <1>9, ThenFacts, NoCalls
  <2> QED BY <1>9, <2>1, <2>2, JoinedCalls
<1>11. InplaceSteal(b) = Then(p, r3)
  <2>1. PICK m, n : m = <<p>> /\ n = <<r, s>>
    OBVIOUS
  <2>2. InplaceSteal(b) = (m \o q) \o n
    BY <1>3, <1>8, <2>1 DEF InplaceSteal
  <2>3. IsCalls(m) /\ IsCalls(n) /\ n = r2
    <3>1. IsCalls(n) /\ n \o <<>> = Then(r, Then(s, <<>>))
      BY ONLY <2>1, TwoCalls, NoCalls
    <3>2. n \o <<>> = n
      BY ONLY <3>1, NothingJoined
    <3>3. IsCalls(m)
      BY ONLY <2>1, OneCall
    <3> QED BY <1>9, <3>1, <3>2, <3>3
  <2>4. (m \o q) \o n = m \o (q \o n)
    BY ONLY <1>10, <2>3, JoinedInTurn
  <2>5. m \o r3 = Then(p, r3)
    BY <2>1 DEF Then
  <2> QED BY <1>9, <2>2, <2>3, <2>4, <2>5
<1>12. NothrowOf(T, "move") \/ Fine(cl, tg, Unwound(<<>>, cl), <<>>, TRUE, P)
  BY <1>1, <1>2, Unwinding DEF Throws, IsUndo
<1>13. SUFFICES Fine(cl, tg, Then(Make(Tmp, from, "move"), r3), <<>>, th, P)
  BY <1>8, <1>11
<1>14. SUFFICES ASSUME NEW c1, Made(c1, cl, Tmp, from, "move")
                PROVE  Fine(c1, tg, r3, <<>>, th, P)
  BY <1>1, <1>4, <1>10, <1>12, MakeCall
<1>15. c1 \in CellFns /\ c1[Tmp] = x /\ c1[from] = Left(x, "move") /\ Same(c1, cl, {Tmp, from})
  BY <1>5, <1>14 DEF Made
<1>16. BoxFits(c1, tg, b)
  BY <1>1, <1>2, <1>3, <1>4, <1>5, <1>6, <1>7, <1>15 DEF BoxFits, Keeps, Same, LiveIn
<1>17. (has <=> Names(tg[b])) /\ has \in BOOLEAN
  BY <1>8
<1>18. SUFFICES ASSUME NEW c2, Emptied(c2, c1, b)
                PROVE  Fine(c2, t2, r2, <<>>, th, P)
  BY <1>1, <1>8, <1>9, <1>10, <1>15, <1>16, <1>17, EmptyFine
<1>19. c2 \in CellFns /\ Bare(c2, b) /\ c2[Tmp] = x /\ Same(c2, cl, {First(b), Second(b), Tmp})
  BY <1>3, <1>4, <1>15, <1>18 DEF Emptied, Same
<1>20. LiveIn(c2, Tmp) /\ ~LiveIn(c2, Args)
  BY <1>3, <1>4, <1>6, <1>19 DEF Same, LiveIn
<1>21. NothrowOf(T, "move") \/ Fine(c2, t2, Unwound(<<>>, c2), <<>>, TRUE, P)
  <2>1. CASE NothrowOf(T, "move")
    BY <2>1
  <2>2. CASE ~NothrowOf(T, "move")
    <3>1. Throws("first", "move")
      BY <1>2, <2>2 DEF Throws
    <3>2. ASSUME NEW c3, Rest(c3, c2)
          PROVE  Fine(c3, t2, <<>>, <<>>, TRUE, P)
      <4>1. Vacant(c3, cl, b)
        BY <1>1, <1>3, <1>4, <1>19, <3>2, LocalCells, BoxCells DEF Vacant, Rest, Same, Bare, LiveIn
      <4> QED BY <3>1, <4>1, FineEnd
    <3> QED BY <1>19, <3>2, Unwinding DEF Unwinds, IsUndo
  <2> QED BY <2>1, <2>2
<1>22. SUFFICES ASSUME NEW c3, Made(c3, c2, Args, Tmp, "move")
                PROVE  Fine(c3, t2, r1, <<>>, th, P)
  BY <1>4, <1>5, <1>8, <1>9, <1>10, <1>19, <1>20, <1>21, MakeCall
<1>23. c3 \in CellFns /\ c3[Tmp] # Raw /\ Same(c3, c2, {Args, Tmp})
  BY <1>7, <1>19, <1>22 DEF Made
<1>24. SUFFICES ASSUME NEW c4, Dropped(c4, c3, Tmp)
                PROVE  Fine(c4, t2, <<>>, <<>>, th, P)
  BY <1>4, <1>8, <1>9, <1>23, DropCall, NoCalls
<1>25. /\ c4 \in CellFns /\ Bare(c4, b) /\ c4[Tmp] = Raw
       /\ Same(c4, cl, {First(b), Second(b), Tmp, Args})
  BY <1>3, <1>4, <1>19, <1>23, <1>24 DEF Dropped, Same, Bare, LiveIn
<1>26. Vacant(c4, cl, b)
  BY <1>1, <1>3, <1>4, <1>25, LocalCells, BoxCells DEF Vacant, Same, Clear, LiveIn
<1> QED BY <1>26, FineEnd

(* swap through a temporary inplace_t *)
LEMMA InplaceSwapDoes ==
  ASSUME KindFits, kind = "inplace", NothrowOf(T, "move"),
         NEW cl, NEW x \in AllBoxes, NEW y \in AllBoxes, NEW free, NEW t6, NEW W6, free = FALSE,
         Tidy(cl, tag), x # y, x # Temp, y # Temp, tag[x] # Gone, tag[y] # Gone, tag[Temp] = Gone,
         t6 = [tag EXCEPT ![x] = tag[y], ![y] = tag[x]],
         W6 = [ValuesOf(cl, tag) EXCEPT ![x] = ValuesOf(cl, tag)[y], ![y] = ValuesOf(cl, tag)[x]]
  PROVE  Does(InplaceSwap(x, y), cl, tag, <<>>, free, t6, W6)
<1>1. tag \in TagFns /\ CanStrongReplace(T) /\ Temp \in AllBoxes /\ kind # "either"
  BY TempApart DEF Tidy, NothrowOf, CanStrongReplace
<1>2. PICK hasX, hasY : hasX = Holds(x) /\ hasY = Holds(y)
  OBVIOUS
<1>3. hasX \in BOOLEAN /\ hasY \in BOOLEAN /\ (hasX <=> Names(tag[x])) /\ (hasY <=> Names(tag[y]))
  BY <1>2 DEF Holds, Names
<1>4. ~Throws("first", "move")
  BY DEF Throws, TypeOf
<1>5. PICK v : v = ValuesOf(cl, tag)
  OBVIOUS
<1>6. v = [b \in AllBoxes |-> v[b]] /\ v[Temp] = Raw
  BY <1>1, <1>5 DEF ValuesOf, ValueIn, Names
<1>7. PICK t1, t2, t3, t4, W1, W2, W3, W4 :
        /\ t1 = HandTags(tag, Temp, y) /\ W1 = HandValues(v, Temp, y, "move")
        /\ t2 = HandTags(t1, y, x) /\ W2 = HandValues(W1, y, x, "move")
        /\ t3 = HandTags(t2, x, Temp) /\ W3 = HandValues(W2, x, Temp, "move")
        /\ t4 = [t3 EXCEPT ![Temp] = Empty] /\ W4 = [W3 EXCEPT ![Temp] = Raw]
  OBVIOUS
<1>8. /\ t1 \in TagFns /\ t1[x] = tag[x] /\ t1[y] = tag[y] /\ t1[Temp] = tag[y]
      /\ t2 \in TagFns /\ t2[x] = tag[x] /\ t2[y] = tag[x] /\ t2[Temp] = tag[y]
      /\ t3 \in TagFns /\ t3[x] = tag[y] /\ t3[y] = tag[x] /\ t3[Temp] = tag[y]
  BY <1>1, <1>7 DEF TagFns, HandTags
<1>9. t6 = [t4 EXCEPT ![Temp] = Gone] /\ t4[Temp] = Empty
  BY <1>1, <1>7 DEF TagFns, HandTags
<1>10. W6 = W4
  <2>1. /\ W1 = [b \in AllBoxes |-> W1[b]] /\ W1[x] = v[x] /\ W1[Temp] = v[y]
        /\ \A b \in AllBoxes \ {x, y, Temp} : W1[b] = v[b]
    BY <1>1, <1>6, <1>7 DEF HandValues
  <2>2. /\ W2 = [b \in AllBoxes |-> W2[b]] /\ W2[y] = v[x] /\ W2[Temp] = v[y]
        /\ \A b \in AllBoxes \ {x, y, Temp} : W2[b] = v[b]
    BY <1>1, <1>7, <2>1 DEF HandValues
  <2>3. /\ W3 = [b \in AllBoxes |-> W3[b]] /\ W3[y] = v[x] /\ W3[x] = v[y]
        /\ \A b \in AllBoxes \ {x, y, Temp} : W3[b] = v[b]
    BY <1>1, <1>7, <2>2 DEF HandValues
  <2>4. W4 = [b \in AllBoxes |-> W4[b]] /\ W4[y] = v[x] /\ W4[x] = v[y] /\ W4[Temp] = v[Temp]
        /\ \A b \in AllBoxes \ {x, y, Temp} : W4[b] = v[b]
    BY <1>1, <1>6, <1>7, <2>3
  <2>5. W6 = [b \in AllBoxes |-> W6[b]] /\ W6[y] = v[x] /\ W6[x] = v[y] /\ W6[Temp] = v[Temp]
        /\ \A b \in AllBoxes \ {x, y, Temp} : W6[b] = v[b]
    BY <1>1, <1>5, <1>6
  <2>6. \A b \in AllBoxes : W6[b] = W4[b]
    BY <2>4, <2>5
  <2> QED BY <2>4, <2>5, <2>6
<1>11. PICK s1, s2, s3, s4, s5 :
         /\ s1 = InplaceCreateFrom(Temp, y, hasY, "move")
         /\ s2 = InplaceAssign(y, hasY, x, hasX, "move")
         /\ s3 = InplaceAssign(x, hasX, Temp, hasY, "move")
         /\ s4 = InplaceDestroy(Temp, hasY) /\ s5 = <<SetTag(Temp, Gone)>>
  OBVIOUS
<1>12. InplaceSwap(x, y) = (((s1 \o s2) \o s3) \o s4) \o s5
  BY <1>2, <1>11 DEF InplaceSwap
<1>13. Does(s1, cl, tag, <<>>, free, t1, W1)
  BY <1>4, <1>1, <1>3, <1>5, <1>7, <1>11, InplaceCreateFromDoes
<1>14. ASSUME NEW c1, Tidy(c1, t1), ValuesOf(c1, t1) = W1
       PROVE  Does(s2, c1, t1, <<>>, free, t2, W2)
  BY <1>4, <1>1, <1>3, <1>7, <1>8, <1>11, <1>14, InplaceAssignDoes
<1>15. ASSUME NEW c1, Tidy(c1, t2), ValuesOf(c1, t2) = W2
       PROVE  Does(s3, c1, t2, <<>>, free, t3, W3)
  BY <1>4, <1>1, <1>3, <1>7, <1>8, <1>11, <1>15, InplaceAssignDoes
<1>16. ASSUME NEW c1, Tidy(c1, t3), ValuesOf(c1, t3) = W3
       PROVE  Does(s4, c1, t3, <<>>, free, t4, W4)
  BY <1>1, <1>3, <1>7, <1>8, <1>11, <1>16, EmptyDoes
<1>17. ASSUME NEW c1, Tidy(c1, t4), ValuesOf(c1, t4) = W4
       PROVE  Does(s5, c1, t4, <<>>, free, t6, W6)
  <2>1. Does(s5, c1, t4, <<>>, free, t6, ValuesOf(c1, t4))
    BY <1>1, <1>9, <1>11, <1>17, GoneDoes
  <2> QED BY <1>10, <1>17, <2>1
<1>18. IsCalls(s2) /\ IsCalls(s3) /\ IsCalls(s4) /\ IsCalls(s5)
  <2>1. \A b, from : IsCalls(InplaceConstruct(b, from, "move"))
    BY TwoCalls DEF InplaceConstruct
  <2>2. \A b, has : IsCalls(InplaceDestroy(b, has))
    BY TwoCalls, NoCalls DEF InplaceDestroy
  <2>3. \A c, from : IsCalls(EmplaceAt(c, T, from, "move"))
    BY <1>1, TwoCalls, ThreeCalls, FourCalls DEF EmplaceAt, NothrowOf, CanStrongReplace,
       CanStrongConstruct
  <2>4. \A b, from : /\ IsCalls(InplaceEmplace(b, TRUE, from, "move"))
                     /\ IsCalls(InplaceEmplace(b, FALSE, from, "move"))
    BY <1>1, <2>1, <2>3 DEF InplaceEmplace
  <2>5. ASSUME NEW b, NEW o, NEW hasB \in BOOLEAN, NEW hasO \in BOOLEAN
        PROVE  IsCalls(InplaceAssign(b, hasB, o, hasO, "move"))
    <3>1. PICK p, q, r : /\ p = Make(Tmp, First(o), "move") /\ q = InplaceEmplace(b, hasB, Tmp, "move")
                         /\ r = Drop(Tmp)
      OBVIOUS
    <3>2. IsCalls(q)
      BY <2>4, <2>5, <3>1
    <3>3. IsCalls(Around(p, q, r))
      BY <3>2, CallsAround
    <3> QED BY <2>2, <3>1, <3>3 DEF InplaceAssign, Around
  <2> QED BY <1>3, <1>11, <2>2, <2>5, OneCall
<1>19. PICK p2, p3, p4 : p2 = s1 \o s2 /\ p3 = p2 \o s3 /\ p4 = p3 \o s4
  OBVIOUS
<1>20. Does(p2, cl, tag, <<>>, free, t2, W2)
  <2>1. p2 = s1 \o s2 /\ IsCalls(s2)
    BY <1>18, <1>19
  <2>2. Does(s1 \o s2, cl, tag, <<>>, free, t2, W2)
    BY ONLY free = FALSE, <1>13, <1>14, <2>1, DoesInTurn
  <2> QED BY <2>1, <2>2
<1>21. Does(p3, cl, tag, <<>>, free, t3, W3)
  <2>1. p3 = p2 \o s3 /\ IsCalls(s3)
    BY <1>18, <1>19
  <2>2. Does(p2 \o s3, cl, tag, <<>>, free, t3, W3)
    BY ONLY free = FALSE, <1>15, <1>20, <2>1, DoesInTurn
  <2> QED BY <2>1, <2>2
<1>22. Does(p4, cl, tag, <<>>, free, t4, W4)
  <2>1. p4 = p3 \o s4 /\ IsCalls(s4)
    BY <1>18, <1>19
  <2>2. Does(p3 \o s4, cl, tag, <<>>, free, t4, W4)
    BY ONLY free = FALSE, <1>16, <1>21, <2>1, DoesInTurn
  <2> QED BY <2>1, <2>2
<1>23. Does(p4 \o s5, cl, tag, <<>>, free, t6, W6)
  BY <1>17, <1>18, <1>22, DoesInTurn
<1> QED BY <1>12, <1>19, <1>23

-----------------------------------------------------------------------------
(* Two boxes of a kind with one place for an object exchange what they hold. *)

(* A box of inplace_t or of a wrapper has its object in its first cell. *)
LEMMA FirstFits ==
  ASSUME KindFits, kind # "either", NEW cl, NEW tg, NEW b \in AllBoxes, NEW t, t = tg[b],
         t \in Alternatives
  PROVE  /\ BoxFits(cl, tg, b) <=>
              LiveIn(cl, First(b)) /\ cl[First(b)].ty = TypeOf(t) /\ ~LiveIn(cl, Second(b))
         /\ ValueIn(cl, tg, b) = ValOf(cl[First(b)])
<1>1. Names(t) /\ TypeOf(t) # Void /\ CellOf(b, t) = First(b)
  BY AlternativeFacts DEF KindFits
<1>2. Sides(b, First(b), Second(b))
  BY BoxCells DEF Sides
<1>3. ValueIn(cl, tg, b) = ValOf(cl[First(b)])
  BY <1>1, ValueWhere
<1> QED BY <1>1, <1>2, <1>3, FullFits

Gets(c2, cl, tg, x, y) ==
  IF Names(tg[y]) THEN c2[First(x)] = cl[First(y)] ELSE ~LiveIn(c2, First(x))

Exchanged(c2, cl, tg, x, y) ==
  /\ c2 \in CellFns /\ Clear(c2, {}) /\ Same(c2, cl, {First(x), First(y)} \cup Locals)
  /\ Gets(c2, cl, tg, x, y) /\ Gets(c2, cl, tg, y, x)

(* A box that got what another had fits the other's tag, with its value. *)
LEMMA ExchangedFits ==
  ASSUME KindFits, kind # "either", NEW cl, NEW tg, NEW c2, NEW t2, NEW x \in AllBoxes,
         NEW y \in AllBoxes,
         Tidy(cl, tg), x # y, t2[x] = tg[y],
         Gets(c2, cl, tg, x, y),
         c2[Second(x)] = cl[Second(x)]
  PROVE  TagFits(t2[x]) /\ BoxFits(c2, t2, x) /\ ValueIn(c2, t2, x) = ValueIn(cl, tg, y)
<1>1. TagFits(tg[y]) /\ BoxFits(cl, tg, y) /\ TagFits(tg[x]) /\ BoxFits(cl, tg, x)
  BY DEF Tidy
<1>2. ~LiveIn(cl, Second(x))
  <2>1. CASE Names(tg[x])
    <3>1. tg[x] \in Alternatives
      BY <1>1, <2>1 DEF TagFits, Names
    <3> QED BY <1>1, <3>1, FirstFits
  <2>2. CASE ~Names(tg[x])
    BY <1>1, <2>2, BareFits DEF Bare
  <2> QED BY <2>1, <2>2
<1>3. ~LiveIn(c2, Second(x))
  BY <1>2 DEF LiveIn
<1>4. CASE Names(tg[y])
  <2>1. PICK t : t = tg[y] /\ t = t2[x] /\ t \in Alternatives
    BY <1>1, <1>4 DEF TagFits, Names
  <2>2. LiveIn(cl, First(y)) /\ cl[First(y)].ty = TypeOf(t) /\ ValueIn(cl, tg, y) = ValOf(cl[First(y)])
    BY <1>1, <2>1, FirstFits
  <2>3. LiveIn(c2, First(x)) /\ c2[First(x)].ty = TypeOf(t) /\ ValOf(c2[First(x)]) = ValOf(cl[First(y)])
    BY <1>4, <2>2 DEF Gets, LiveIn
  <2>4. BoxFits(c2, t2, x) /\ ValueIn(c2, t2, x) = ValOf(c2[First(x)])
    BY <1>3, <2>1, <2>3, FirstFits
  <2> QED BY <1>1, <2>2, <2>3, <2>4
<1>5. CASE ~Names(tg[y])
  <2>1. Bare(c2, x)
    BY <1>3, <1>5 DEF Bare, Gets
  <2>2. ValueIn(c2, t2, x) = Raw /\ ValueIn(cl, tg, y) = Raw
    BY <1>5 DEF ValueIn
  <2> QED BY <1>1, <1>5, <2>1, <2>2, BareFits
<1> QED BY <1>4, <1>5

(* Two boxes that exchanged what they had are tidy with their tags exchanged. *)
LEMMA ExchangedTidy ==
  ASSUME KindFits, kind # "either", NEW cl, NEW tg, NEW c2, NEW x \in AllBoxes, NEW y \in AllBoxes,
         NEW t2, NEW W, Tidy(cl, tg), x # y, Exchanged(c2, cl, tg, x, y),
         t2 = [tg EXCEPT ![x] = tg[y], ![y] = tg[x]],
         W = [ValuesOf(cl, tg) EXCEPT ![x] = ValuesOf(cl, tg)[y], ![y] = ValuesOf(cl, tg)[x]]
  PROVE  Tidy(c2, t2) /\ ValuesOf(c2, t2) = W
<1>1. /\ tg \in TagFns /\ t2 \in TagFns /\ c2 \in CellFns /\ Clear(c2, {})
      /\ t2[x] = tg[y] /\ t2[y] = tg[x] /\ \A b \in AllBoxes \ {x, y} : t2[b] = tg[b]
  BY DEF Tidy, TagFns, Exchanged
<1>2. \A b \in AllBoxes \ {x, y} :
         /\ c2[First(b)] = cl[First(b)] /\ c2[Second(b)] = cl[Second(b)]
  BY BoxCells, BoxesApart DEF Exchanged, Same
<1>3. c2[Second(x)] = cl[Second(x)] /\ c2[Second(y)] = cl[Second(y)]
  BY BoxCells, BoxesApart DEF Exchanged, Same
<1>4. TagFits(t2[x]) /\ BoxFits(c2, t2, x) /\ ValueIn(c2, t2, x) = ValueIn(cl, tg, y)
  <2>1. Gets(c2, cl, tg, x, y) /\ t2[x] = tg[y] /\ c2[Second(x)] = cl[Second(x)]
    BY <1>1, <1>3 DEF Exchanged
  <2> QED BY ONLY KindFits, kind # "either", Tidy(cl, tg), x # y, x \in AllBoxes, y \in AllBoxes,
                  <2>1, ExchangedFits
<1>5. TagFits(t2[y]) /\ BoxFits(c2, t2, y) /\ ValueIn(c2, t2, y) = ValueIn(cl, tg, x)
  <2>1. Gets(c2, cl, tg, y, x) /\ t2[y] = tg[x] /\ c2[Second(y)] = cl[Second(y)]
    BY <1>1, <1>3 DEF Exchanged
  <2> QED BY ONLY KindFits, kind # "either", Tidy(cl, tg), x # y, x \in AllBoxes, y \in AllBoxes,
                  <2>1, ExchangedFits
<1>6. /\ W = [b \in AllBoxes |-> W[b]] /\ W[x] = ValueIn(cl, tg, y) /\ W[y] = ValueIn(cl, tg, x)
      /\ \A b \in AllBoxes \ {x, y} : W[b] = ValueIn(cl, tg, b)
  BY DEF ValuesOf
<1>7. PICK S : S = {x, y}
  OBVIOUS
<1>8. /\ \A b \in AllBoxes \ S : SameBox(c2, t2, cl, tg, b) /\ W[b] = ValueIn(cl, tg, b)
      /\ \A b \in AllBoxes \cap S : TagFits(t2[b]) /\ BoxFits(c2, t2, b) /\ W[b] = ValueIn(c2, t2, b)
  BY <1>1, <1>2, <1>4, <1>5, <1>6, <1>7 DEF SameBox
<1> HIDE <1>7
<1> QED BY ONLY KindFits, Tidy(cl, tg), <1>1, <1>6, <1>8, TidyAfter

(* swap of two inplace_t of different sizes *)
LEMMA SwapFull ==
  ASSUME KindFits, kind = "inplace", NothrowOf(T, "move"), NEW cl, NEW tg, NEW un, NEW th, NEW P,
         NEW rest,
         NEW x \in AllBoxes, NEW y \in AllBoxes, NEW p, NEW q, NEW r, NEW z,
         Tidy(cl, tg), x # y, Names(tg[x]), Names(tg[y]), IsCalls(rest), IsUndo(un),
         p = Make(Tmp, First(y), "move"), q = EmplaceAt(First(y), T, First(x), "move"),
         r = EmplaceAt(First(x), T, Tmp, "move"), z = Drop(Tmp),
         \A c2 : Exchanged(c2, cl, tg, x, y) => Fine(c2, tg, rest, un, th, P)
  PROVE  Fine(cl, tg, Then(p, q \o (r \o Then(z, rest))), un, th, P)
<1>1. PICK a, b : a = First(x) /\ b = First(y)
  OBVIOUS
<1>2. /\ cl \in CellFns /\ Clear(cl, {}) /\ T \in Types /\ CanStrongReplace(T)
      /\ tg[x] = "first" /\ tg[y] = "first" /\ TypeOf("first") = T /\ "first" \in Alternatives
  BY DEF Tidy, KindFits, CanStrongReplace, NothrowOf, TagFits, Names, Alternatives, TypeOf
<1>3. /\ a \in Cells /\ b \in Cells /\ a # b /\ a \notin Locals /\ b \notin Locals
      /\ Tmp \in Cells /\ Buffer \in Cells /\ Tmp # Buffer /\ Tmp # a /\ Tmp # b /\ Buffer # a /\ Buffer # b
  BY <1>1, BoxCells, BoxesApart, LocalCells
<1>4. LiveIn(cl, a) /\ LiveIn(cl, b) /\ cl[a].ty = T /\ cl[b].ty = T
  BY <1>1, <1>2, FirstFits DEF Tidy
<1>5. ~LiveIn(cl, Tmp) /\ ~LiveIn(cl, Buffer)
  BY <1>2, LocalCells DEF Clear
<1>6. PICK xv \in Objects, yv \in Objects : xv = cl[a] /\ yv = cl[b]
  BY <1>2, <1>3, <1>4, LiveIsObject
<1>7. /\ Left(xv, "move") \in Objects /\ Left(xv, "move").ty = T
      /\ Left(yv, "move") \in Objects /\ Left(yv, "move").ty = T
      /\ xv # Raw /\ xv # Null /\ yv # Raw /\ yv # Null
  BY <1>4, <1>6, ObjectParts
<1>8. /\ Left(xv, "move") # Raw /\ Left(xv, "move") # Null
      /\ Left(yv, "move") # Raw /\ Left(yv, "move") # Null
  BY <1>7, ObjectParts
<1>9. PICK r1, r2, r3 : r3 = Then(z, rest) /\ r2 = r \o r3 /\ r1 = q \o r2
  OBVIOUS
<1>10. IsCalls(r)
  BY <1>2, TwoCalls, ThreeCalls, FourCalls DEF EmplaceAt, CanStrongReplace, CanStrongConstruct,
     NothrowOf
<1>11. IsCalls(q)
  BY <1>2, TwoCalls, ThreeCalls, FourCalls DEF EmplaceAt, CanStrongReplace, CanStrongConstruct,
     NothrowOf
<1>12. IsCalls(r3) /\ IsCalls(r2) /\ IsCalls(r1)
  BY <1>9, <1>10, <1>11, ThenFacts, JoinedCalls
<1>13. SUFFICES Fine(cl, tg, Then(Make(Tmp, b, "move"), r1), un, th, P)
  BY <1>1, <1>9
<1>14. SUFFICES ASSUME NEW c1, Made(c1, cl, Tmp, b, "move")
                PROVE  Fine(c1, tg, r1, un, th, P)
  BY <1>2, <1>3, <1>4, <1>5, <1>12, MakeCall
<1>15. /\ c1 \in CellFns /\ c1[Tmp] = yv /\ c1[b] = Left(yv, "move") /\ c1[a] = xv
       /\ LiveIn(c1, a) /\ LiveIn(c1, b) /\ ~LiveIn(c1, Buffer) /\ c1[a].ty = T /\ Same(c1, cl, {Tmp, b})
  BY <1>3, <1>4, <1>5, <1>6, <1>7, <1>8, <1>14 DEF Made, Same, LiveIn
<1>16. q = EmplaceAt(b, T, a, "move") /\ r = EmplaceAt(a, T, Tmp, "move")
  BY <1>1
<1>17. SUFFICES ASSUME NEW c2, Replaced(c2, c1, b, a, "move")
                PROVE  Fine(c2, tg, r2, un, th, P)
  BY <1>2, <1>3, <1>9, <1>12, <1>15, <1>16, EmplaceAtFine
<1>18. /\ c2 \in CellFns /\ c2[Tmp] = yv /\ c2[b] = xv /\ c2[a] = Left(xv, "move")
       /\ ~LiveIn(c2, Buffer) /\ Same(c2, cl, {a, b, Tmp, Buffer})
  BY <1>3, <1>15, <1>17 DEF Replaced, Same
<1>19. LiveIn(c2, a) /\ LiveIn(c2, Tmp) /\ c2[Tmp].ty = T
  BY <1>4, <1>6, <1>7, <1>8, <1>18 DEF LiveIn
<1>20. SUFFICES ASSUME NEW c3, Replaced(c3, c2, a, Tmp, "move")
                PROVE  Fine(c3, tg, r3, un, th, P)
  BY <1>2, <1>3, <1>9, <1>12, <1>16, <1>18, <1>19, EmplaceAtFine
<1>21. /\ c3 \in CellFns /\ c3[a] = yv /\ c3[b] = xv /\ c3[Tmp] = Left(yv, "move")
       /\ ~LiveIn(c3, Buffer) /\ Same(c3, cl, {a, b, Tmp, Buffer})
  BY <1>3, <1>18, <1>20 DEF Replaced, Same
<1>22. SUFFICES ASSUME NEW c4, Dropped(c4, c3, Tmp)
                PROVE  Fine(c4, tg, rest, un, th, P)
  BY <1>3, <1>8, <1>9, <1>21, DropCall
<1>23. /\ c4 \in CellFns /\ c4[a] = yv /\ c4[b] = xv /\ ~LiveIn(c4, Tmp)
       /\ ~LiveIn(c4, Buffer) /\ Same(c4, cl, {a, b, Tmp, Buffer})
  BY <1>3, <1>21, <1>22 DEF Dropped, Same, LiveIn
<1>24. Clear(c4, {}) /\ Same(c4, cl, {a, b} \cup Locals)
  BY <1>2, <1>3, <1>23, LocalCells DEF Clear, Same, LiveIn
<1>25. Exchanged(c4, cl, tg, x, y)
  BY <1>1, <1>6, <1>23, <1>24 DEF Exchanged, Gets
<1> QED BY <1>25

(* An exchange is one both ways. *)
LEMMA ExchangedBoth ==
  ASSUME NEW c2, NEW cl, NEW tg, NEW x, NEW y
  PROVE  Exchanged(c2, cl, tg, x, y) <=> Exchanged(c2, cl, tg, y, x)
<1>1. {First(x), First(y)} = {First(y), First(x)}
  OBVIOUS
<1> QED BY <1>1 DEF Exchanged

(* The two orders of a one-sided swap, and the tags it leaves *)
HandLate(x, y, alt, rest) ==
  Then(Make(Tmp, First(y), "move"), Then(Make(First(x), Tmp, "move"), Then(SetTag(x, alt),
    Then(Drop(First(y)), Then(SetTag(y, Empty), Then(Drop(Tmp), rest))))))
HandEarly(x, y, alt, rest) ==
  Then(Make(Tmp, First(y), "move"), Then(Drop(First(y)), Then(SetTag(y, Empty),
    Then(Make(First(x), Tmp, "move"), Then(SetTag(x, alt), Then(Drop(Tmp), rest))))))
HalfTags(tg, x, y, alt) == [tg EXCEPT ![x] = alt, ![y] = Empty]

(* One of the two is empty: y hands its object to x through a local, and is emptied
   at once or at the end. *)
LEMMA SwapHalf ==
  ASSUME KindFits, kind = "inplace", NothrowOf(T, "move"), NEW cl, NEW tg, NEW un, NEW th, NEW P,
         NEW rest,
         NEW x \in AllBoxes, NEW y \in AllBoxes, NEW alt, alt = "first",
         Tidy(cl, tg), x # y, tg[x] = Empty, tg[y] = alt, IsCalls(rest), IsUndo(un),
         \A c2 : Exchanged(c2, cl, tg, x, y) => Fine(c2, HalfTags(tg, x, y, alt), rest, un, th, P)
  PROVE  /\ Fine(cl, tg, HandLate(x, y, alt, rest), un, th, P)
         /\ Fine(cl, tg, HandEarly(x, y, alt, rest), un, th, P)
<1>1. PICK t2, m, n, d, sx, sy, z : /\ t2 = HalfTags(tg, x, y, alt)
        /\ m = Make(Tmp, First(y), "move") /\ n = Make(First(x), Tmp, "move") /\ d = Drop(First(y))
        /\ sx = SetTag(x, alt) /\ sy = SetTag(y, Empty) /\ z = Drop(Tmp)
  OBVIOUS
<1>2. PICK a, b : a = First(x) /\ b = First(y)
  OBVIOUS
<1>3. /\ cl \in CellFns /\ tg \in TagFns /\ Clear(cl, {}) /\ T \in Types
      /\ TypeOf(alt) = T /\ alt \in Alternatives /\ Names(alt) /\ ~Names(Empty)
  BY AlternativeFacts DEF Tidy, KindFits, Alternatives, TypeOf, Names
<1>4. /\ a \in Cells /\ b \in Cells /\ a # b /\ a \notin Locals /\ b \notin Locals
      /\ Tmp \in Cells /\ Tmp \in Locals /\ Tmp # a /\ Tmp # b
  BY <1>2, BoxCells, BoxesApart, LocalCells
<1>5. LiveIn(cl, b) /\ cl[b].ty = T
  BY <1>2, <1>3, FirstFits DEF Tidy
<1>6. ~LiveIn(cl, a)
  BY <1>2, <1>3, BareFits DEF Tidy, Bare
<1>7. ~LiveIn(cl, Tmp)
  BY <1>3, <1>4 DEF Clear
<1>8. PICK v \in Objects : v = cl[b] /\ v.ty = T
  BY <1>3, <1>4, <1>5, LiveIsObject
<1>9. /\ Left(v, "move") \in Objects /\ Left(v, "move").ty = T /\ v # Raw /\ v # Null
      /\ Left(v, "move") # Raw /\ Left(v, "move") # Null
  BY <1>8, ObjectParts
<1>10. PICK t1, t3 : t1 = [tg EXCEPT ![x] = alt] /\ t3 = [tg EXCEPT ![y] = Empty]
  OBVIOUS
<1>11. [t1 EXCEPT ![y] = Empty] = t2 /\ [t3 EXCEPT ![x] = alt] = t2
  BY <1>1, <1>3, <1>10 DEF TagFns, HalfTags
<1>12. ASSUME NEW c5, c5 \in CellFns, c5[a] = v, ~LiveIn(c5, b), ~LiveIn(c5, Tmp), Same(c5, cl, {a, b, Tmp})
       PROVE  Fine(c5, t2, rest, un, th, P)
  <2>1. Clear(c5, {}) /\ Same(c5, cl, {a, b} \cup Locals)
    BY <1>3, <1>4, <1>12, LocalCells DEF Clear, Same, LiveIn
  <2>2. Exchanged(c5, cl, tg, x, y)
    BY <1>2, <1>3, <1>8, <1>12, <2>1 DEF Exchanged, Gets
  <2> QED BY <1>1, <2>2
<1>13. ASSUME NEW c4, c4 \in CellFns, c4[a] = v, ~LiveIn(c4, b), c4[Tmp] # Raw, Same(c4, cl, {a, b, Tmp})
       PROVE  Fine(c4, t2, Then(z, rest), un, th, P)
  <2>1. SUFFICES ASSUME NEW c5, Dropped(c5, c4, Tmp)
                 PROVE  Fine(c5, t2, rest, un, th, P)
    BY <1>1, <1>4, <1>13, DropCall
  <2>2. c5 \in CellFns /\ c5[a] = v /\ ~LiveIn(c5, b) /\ ~LiveIn(c5, Tmp) /\ Same(c5, cl, {a, b, Tmp})
    BY <1>4, <1>13, <2>1 DEF Dropped, Same, LiveIn
  <2> QED BY <1>12, <2>2
<1>14. Fine(cl, tg, Then(m, Then(n, Then(sx, Then(d, Then(sy, Then(z, rest)))))), un, th, P)
  <2>1. PICK r1, r2, r3, r4, r5 : /\ r5 = Then(z, rest) /\ r4 = Then(sy, r5) /\ r3 = Then(d, r4)
                                  /\ r2 = Then(sx, r3) /\ r1 = Then(n, r2)
    OBVIOUS
  <2>2. IsCalls(r5) /\ IsCalls(r4) /\ IsCalls(r3) /\ IsCalls(r2) /\ IsCalls(r1)
    BY <2>1, ThenFacts
  <2>3. SUFFICES Fine(cl, tg, Then(Make(Tmp, b, "move"), r1), un, th, P)
    BY <1>1, <1>2, <2>1
  <2>4. SUFFICES ASSUME NEW c1, Made(c1, cl, Tmp, b, "move")
                 PROVE  Fine(c1, tg, r1, un, th, P)
    BY <1>3, <1>4, <1>5, <1>7, <2>2, MakeCall
  <2>5. /\ c1 \in CellFns /\ c1[Tmp] = v /\ c1[b] = Left(v, "move") /\ ~LiveIn(c1, a)
        /\ LiveIn(c1, Tmp) /\ Same(c1, cl, {Tmp, b})
    BY <1>4, <1>6, <1>8, <1>9, <2>4 DEF Made, Same, LiveIn
  <2>6. SUFFICES Fine(c1, tg, Then(Make(a, Tmp, "move"), r2), un, th, P)
    BY <1>1, <1>2, <2>1
  <2>7. SUFFICES ASSUME NEW c2, Made(c2, c1, a, Tmp, "move")
                 PROVE  Fine(c2, tg, r2, un, th, P)
    BY <1>4, <1>8, <2>2, <2>5, MakeCall
  <2>8. /\ c2 \in CellFns /\ c2[Tmp] = Left(v, "move") /\ c2[b] = Left(v, "move") /\ c2[a] = v
        /\ Same(c2, cl, {a, b, Tmp})
    BY <1>4, <2>5, <2>7 DEF Made, Same
  <2>9. SUFFICES Fine(c2, t1, r3, un, th, P)
    BY <1>1, <1>10, <2>1, <2>2, TagCall
  <2>10. SUFFICES ASSUME NEW c3, Dropped(c3, c2, b)
                  PROVE  Fine(c3, t1, r4, un, th, P)
    BY <1>1, <1>2, <1>4, <1>9, <2>1, <2>2, <2>8, DropCall
  <2>11. SUFFICES Fine(c3, t2, r5, un, th, P)
    BY <1>1, <1>11, <2>1, <2>2, TagCall
  <2>12. /\ c3 \in CellFns /\ c3[a] = v /\ ~LiveIn(c3, b) /\ c3[Tmp] # Raw /\ Same(c3, cl, {a, b, Tmp})
    BY <1>4, <1>9, <2>8, <2>10 DEF Dropped, Same, LiveIn
  <2> QED BY <1>13, <2>1, <2>12
<1>15. Fine(cl, tg, Then(m, Then(d, Then(sy, Then(n, Then(sx, Then(z, rest)))))), un, th, P)
  <2>1. PICK r1, r2, r3, r4, r5 : /\ r5 = Then(z, rest) /\ r4 = Then(sx, r5) /\ r3 = Then(n, r4)
                                  /\ r2 = Then(sy, r3) /\ r1 = Then(d, r2)
    OBVIOUS
  <2>2. IsCalls(r5) /\ IsCalls(r4) /\ IsCalls(r3) /\ IsCalls(r2) /\ IsCalls(r1)
    BY <2>1, ThenFacts
  <2>3. SUFFICES Fine(cl, tg, Then(Make(Tmp, b, "move"), r1), un, th, P)
    BY <1>1, <1>2, <2>1
  <2>4. SUFFICES ASSUME NEW c1, Made(c1, cl, Tmp, b, "move")
                 PROVE  Fine(c1, tg, r1, un, th, P)
    BY <1>3, <1>4, <1>5, <1>7, <2>2, MakeCall
  <2>5. /\ c1 \in CellFns /\ c1[Tmp] = v /\ c1[b] # Raw /\ ~LiveIn(c1, a) /\ Same(c1, cl, {Tmp, b})
    BY <1>4, <1>6, <1>8, <1>9, <2>4 DEF Made, Same, LiveIn
  <2>6. SUFFICES ASSUME NEW c2, Dropped(c2, c1, b)
                 PROVE  Fine(c2, tg, r2, un, th, P)
    BY <1>1, <1>2, <1>4, <2>1, <2>2, <2>5, DropCall
  <2>7. /\ c2 \in CellFns /\ c2[Tmp] = v /\ LiveIn(c2, Tmp) /\ ~LiveIn(c2, b) /\ ~LiveIn(c2, a)
        /\ Same(c2, cl, {Tmp, b})
    BY <1>4, <1>9, <2>5, <2>6 DEF Dropped, Same, LiveIn
  <2>8. SUFFICES Fine(c2, t3, r3, un, th, P)
    BY <1>1, <1>10, <2>1, <2>2, TagCall
  <2>9. SUFFICES Fine(c2, t3, Then(Make(a, Tmp, "move"), r4), un, th, P)
    BY <1>1, <1>2, <2>1
  <2>10. SUFFICES ASSUME NEW c3, Made(c3, c2, a, Tmp, "move")
                  PROVE  Fine(c3, t3, r4, un, th, P)
    BY <1>4, <1>8, <2>2, <2>7, MakeCall
  <2>11. SUFFICES Fine(c3, t2, r5, un, th, P)
    BY <1>1, <1>11, <2>1, <2>2, TagCall
  <2>12. /\ c3 \in CellFns /\ c3[a] = v /\ ~LiveIn(c3, b) /\ c3[Tmp] # Raw /\ Same(c3, cl, {a, b, Tmp})
    BY <1>4, <1>9, <2>7, <2>10 DEF Made, Same, LiveIn
  <2> QED BY <1>13, <2>1, <2>12
<1> QED BY <1>1, <1>14, <1>15 DEF HandLate, HandEarly

(* The calls of a one-sided swap, as InplaceSwapSizes joins them *)
Late(a, b, c, d, e, f) == (((<<a>> \o <<>>) \o <<b, c>>) \o <<d, e>>) \o <<f>>
Early(a, b, c, d, e, f) == ((<<a>> \o <<b, c>>) \o <<d, e>>) \o <<f>>

(* Two ways of joining six lists, one list at a time. *)
LEMMA SixInTurn ==
  ASSUME NEW a, NEW b, NEW c, NEW d, NEW e, NEW f
  PROVE  /\ IsCalls(Late(a, b, c, d, e, f)) /\ IsCalls(Early(a, b, c, d, e, f))
         /\ \A rest : IsCalls(rest) =>
              /\ Late(a, b, c, d, e, f) \o rest = Then(a, Then(b, Then(c, Then(d, Then(e, Then(f, rest))))))
              /\ Early(a, b, c, d, e, f) \o rest = Then(a, Then(b, Then(c, Then(d, Then(e, Then(f, rest))))))
<1>1. PICK p, n, q, r, s : p = <<a>> /\ n = <<>> /\ q = <<b, c>> /\ r = <<d, e>> /\ s = <<f>>
  OBVIOUS
<1>2. IsCalls(p) /\ \A rest : p \o rest = Then(a, rest)
  BY <1>1, OneCall
<1>3. IsCalls(s) /\ \A rest : s \o rest = Then(f, rest)
  BY <1>1, OneCall
<1>4. IsCalls(q) /\ \A rest : IsCalls(rest) => q \o rest = Then(b, Then(c, rest))
  BY <1>1, TwoCalls
<1>5. IsCalls(r) /\ \A rest : IsCalls(rest) => r \o rest = Then(d, Then(e, rest))
  BY <1>1, TwoCalls
<1>6. p \o n = p
  BY <1>1, <1>2, NothingJoined
<1>7. IsCalls(p) /\ IsCalls(q) /\ IsCalls(r) /\ IsCalls(s)
  BY <1>2, <1>3, <1>4, <1>5
<1>8. /\ IsCalls(((p \o q) \o r) \o s)
      /\ \A rest : IsCalls(rest) => (((p \o q) \o r) \o s) \o rest = p \o (q \o (r \o (s \o rest)))
  <2>1. FourInTurn(p, q, r, s)
    BY ONLY <1>7, FourJoined
  <2> QED BY ONLY <2>1 DEF FourInTurn
<1>9. ASSUME NEW rest, IsCalls(rest)
      PROVE  (((p \o q) \o r) \o s) \o rest = Then(a, Then(b, Then(c, Then(d, Then(e, Then(f, rest))))))
  <2>1. PICK r1, r2, r3, r4, r5 : /\ r5 = Then(f, rest) /\ r4 = Then(e, r5) /\ r3 = Then(d, r4)
                                  /\ r2 = Then(c, r3) /\ r1 = Then(b, r2)
    OBVIOUS
  <2>2. IsCalls(rest)
    BY <1>9
  <2>3. IsCalls(r5) /\ IsCalls(r4) /\ IsCalls(r3) /\ IsCalls(r2) /\ IsCalls(r1)
    BY ONLY <2>1, <2>2, ThenFacts
  <2>4. s \o rest = r5
    BY ONLY <1>3, <2>1
  <2>5. r \o r5 = r3
    BY ONLY <1>5, <2>1, <2>3
  <2>6. q \o r3 = r1
    BY ONLY <1>4, <2>1, <2>3
  <2>7. p \o r1 = Then(a, r1)
    BY ONLY <1>2
  <2>8. (((p \o q) \o r) \o s) \o rest = p \o (q \o (r \o (s \o rest)))
    BY ONLY <1>8, <2>2
  <2> QED BY ONLY <2>1, <2>4, <2>5, <2>6, <2>7, <2>8
<1>10. /\ Late(a, b, c, d, e, f) = (((p \o n) \o q) \o r) \o s
       /\ Early(a, b, c, d, e, f) = ((p \o q) \o r) \o s
  BY <1>1 DEF Late, Early
<1> QED BY ONLY <1>6, <1>8, <1>9, <1>10

(* inplace_t's swap with a box of another size. *)
LEMMA InplaceSwapSizesDoes ==
  ASSUME KindFits, kind = "inplace", NothrowOf(T, "move"),
         NEW cl, NEW x \in AllBoxes, NEW y \in AllBoxes, NEW free, NEW t2, NEW W,
         Tidy(cl, tag), x # y, tag[x] # Gone, tag[y] # Gone,
         t2 = [tag EXCEPT ![x] = tag[y], ![y] = tag[x]],
         W = [ValuesOf(cl, tag) EXCEPT ![x] = ValuesOf(cl, tag)[y], ![y] = ValuesOf(cl, tag)[x]]
  PROVE  Does(InplaceSwapSizes(x, y), cl, tag, <<>>, free, t2, W)
<1>1. /\ tag \in TagFns /\ cl \in CellFns /\ tag[x] \in {Empty, "first"} /\ tag[y] \in {Empty, "first"}
      /\ CanStrongReplace(T) /\ Empty # "first" /\ Gone # "first" /\ Gone # Empty
  BY CellAssumption DEF Tidy, TagFits, Alternatives, NothrowOf, CanStrongReplace
<1>2. IsUndo(<<>>)
  BY DEF IsUndo
<1>3. ASSUME NEW c2, Exchanged(c2, cl, tag, x, y)
      PROVE  Tidy(c2, t2) /\ ValuesOf(c2, t2) = W
  BY <1>3, ExchangedTidy
<1>4. PICK m, n, my, nx, dx, dy, sx, sy, ex, ey, z :
        /\ m = Make(Tmp, First(x), "move") /\ n = Make(First(y), Tmp, "move")
        /\ my = Make(Tmp, First(y), "move") /\ nx = Make(First(x), Tmp, "move")
        /\ dx = Drop(First(x)) /\ dy = Drop(First(y)) /\ z = Drop(Tmp)
        /\ sx = SetTag(x, "first") /\ sy = SetTag(y, "first")
        /\ ex = SetTag(x, Empty) /\ ey = SetTag(y, Empty)
  OBVIOUS
<1>5. CASE tag[x] = Empty /\ tag[y] = "first"
  <2>1. InplaceSwapSizes(x, y) = Late(my, nx, sx, dy, ey, z)
    BY <1>1, <1>4, <1>5 DEF InplaceSwapSizes, Holds, InplaceEmplace, InplaceConstruct,
       InplaceDestroy, Late
  <2>2. t2 = [tag EXCEPT ![x] = "first", ![y] = Empty]
    BY <1>5
  <2>3. ASSUME NEW rest, NEW th, NEW P, IsCalls(rest),
               \A c2 : Tidy(c2, t2) /\ ValuesOf(c2, t2) = W => Fine(c2, t2, rest, <<>>, th, P)
        PROVE  Fine(cl, tag, InplaceSwapSizes(x, y) \o rest, <<>>, th, P)
    <3>1. \A c2 : Exchanged(c2, cl, tag, x, y) => Fine(c2, t2, rest, <<>>, th, P)
      BY <1>3, <2>3
    <3>2. Fine(cl, tag, Then(my, Then(nx, Then(sx, Then(dy, Then(ey, Then(z, rest)))))), <<>>, th, P)
      <4>1. PICK alt : alt = "first"
        OBVIOUS
      <4>2. tag[x] = Empty /\ tag[y] = alt /\ IsCalls(rest) /\ t2 = HalfTags(tag, x, y, alt)
        BY <1>5, <2>2, <2>3, <4>1 DEF HalfTags
      <4>3. Fine(cl, tag, HandLate(x, y, alt, rest), <<>>, th, P)
        BY ONLY KindFits, kind = "inplace", NothrowOf(T, "move"), x \in AllBoxes, y \in AllBoxes, x # y,
           Tidy(cl, tag), <1>2, <3>1, <4>1, <4>2, SwapHalf
      <4> QED BY <1>4, <4>1, <4>3 DEF HandLate
    <3>3. IsCalls(rest)
      BY <2>3
    <3>4. Late(my, nx, sx, dy, ey, z) \o rest
            = Then(my, Then(nx, Then(sx, Then(dy, Then(ey, Then(z, rest))))))
      BY ONLY <3>3, SixInTurn
    <3> QED BY <2>1, <3>2, <3>4
  <2>4. IsCalls(InplaceSwapSizes(x, y))
    BY <2>1, SixInTurn
  <2> QED BY <2>3, <2>4 DEF Does
<1>6. CASE tag[x] = "first" /\ tag[y] = Empty
  <2>1. InplaceSwapSizes(x, y) = Early(m, dx, ex, n, sy, z)
    BY <1>1, <1>4, <1>6 DEF InplaceSwapSizes, Holds, InplaceConstruct, InplaceDestroy, Early
  <2>2. t2 = [tag EXCEPT ![y] = "first", ![x] = Empty]
    BY <1>1, <1>6 DEF TagFns
  <2>3. ASSUME NEW rest, NEW th, NEW P, IsCalls(rest),
               \A c2 : Tidy(c2, t2) /\ ValuesOf(c2, t2) = W => Fine(c2, t2, rest, <<>>, th, P)
        PROVE  Fine(cl, tag, InplaceSwapSizes(x, y) \o rest, <<>>, th, P)
    <3>1. \A c2 : Exchanged(c2, cl, tag, y, x) => Fine(c2, t2, rest, <<>>, th, P)
      BY <1>3, <2>3, ExchangedBoth
    <3>2. Fine(cl, tag, Then(m, Then(dx, Then(ex, Then(n, Then(sy, Then(z, rest)))))), <<>>, th, P)
      <4>1. PICK alt : alt = "first"
        OBVIOUS
      <4>2. tag[y] = Empty /\ tag[x] = alt /\ IsCalls(rest) /\ y # x /\ t2 = HalfTags(tag, y, x, alt)
        BY <1>6, <2>2, <2>3, <4>1 DEF HalfTags
      <4>3. Fine(cl, tag, HandEarly(y, x, alt, rest), <<>>, th, P)
        BY ONLY KindFits, kind = "inplace", NothrowOf(T, "move"), x \in AllBoxes, y \in AllBoxes,
           Tidy(cl, tag), <1>2, <3>1, <4>1, <4>2, SwapHalf
      <4> QED BY <1>4, <4>1, <4>3 DEF HandEarly
    <3>3. IsCalls(rest)
      BY <2>3
    <3>4. Early(m, dx, ex, n, sy, z) \o rest
            = Then(m, Then(dx, Then(ex, Then(n, Then(sy, Then(z, rest))))))
      BY ONLY <3>3, SixInTurn
    <3> QED BY <2>1, <3>2, <3>4
  <2>4. IsCalls(InplaceSwapSizes(x, y))
    BY <2>1, SixInTurn
  <2> QED BY <2>3, <2>4 DEF Does
<1>7. CASE tag[x] = Empty /\ tag[y] = Empty
  <2>1. InplaceSwapSizes(x, y) = <<>>
    BY <1>7 DEF InplaceSwapSizes, Holds
  <2>2. t2 = tag
    BY <1>1, <1>7 DEF TagFns
  <2>3. W = ValuesOf(cl, tag)
    BY <1>7 DEF ValuesOf, ValueIn, Names
  <2> QED BY <2>1, <2>2, <2>3, DoesNothing
<1>8. CASE tag[x] = "first" /\ tag[y] = "first"
  <2>1. PICK p, q, r, s, u : /\ p = <<my>> /\ q = EmplaceAt(First(y), T, First(x), "move")
                             /\ r = EmplaceAt(First(x), T, Tmp, "move") /\ s = <<>> /\ u = <<z>>
    OBVIOUS
  <2>2. InplaceSwapSizes(x, y) = (((p \o q) \o r) \o s) \o u
    BY <1>1, <1>4, <1>8, <2>1 DEF InplaceSwapSizes, Holds, InplaceEmplace
  <2>3. IsCalls(p) /\ IsCalls(s) /\ IsCalls(u)
    BY <2>1, OneCall, NoCalls
  <2>4. \A c, from : IsCalls(EmplaceAt(c, T, from, "move"))
    BY <1>1, TwoCalls, ThreeCalls, FourCalls DEF EmplaceAt, NothrowOf, CanStrongReplace,
       CanStrongConstruct
  <2>5. IsCalls(p) /\ IsCalls(q) /\ IsCalls(r) /\ IsCalls(s) /\ IsCalls(u)
    BY <2>1, <2>3, <2>4
  <2>6. /\ IsCalls((((p \o q) \o r) \o s) \o u)
        /\ \A rest : IsCalls(rest) =>
             ((((p \o q) \o r) \o s) \o u) \o rest = p \o (q \o (r \o (s \o (u \o rest))))
    <3>1. IsCalls(p) /\ IsCalls(q) /\ IsCalls(r) /\ IsCalls(s)
      BY <2>5
    <3>2. PICK v : v = ((p \o q) \o r) \o s
      OBVIOUS
    <3>3. IsCalls(v) /\ \A rest : IsCalls(rest) => v \o rest = p \o (q \o (r \o (s \o rest)))
      <4>1. /\ IsCalls(((p \o q) \o r) \o s)
            /\ \A rest : IsCalls(rest) =>
                 (((p \o q) \o r) \o s) \o rest = p \o (q \o (r \o (s \o rest)))
        <5>1. FourInTurn(p, q, r, s)
          BY ONLY <3>1, FourJoined
        <5> QED BY ONLY <5>1 DEF FourInTurn
      <4> QED BY ONLY <3>2, <4>1
    <3>4. IsCalls(u)
      BY <2>5
    <3>5. IsCalls(v \o u) /\ \A rest : IsCalls(rest) => (v \o u) \o rest = v \o (u \o rest) /\ IsCalls(u \o rest)
      BY ONLY <3>3, <3>4, TwoJoined
    <3> QED BY ONLY <3>2, <3>3, <3>5
  <2>7. t2 = tag
    BY <1>1, <1>8 DEF TagFns
  <2>8. Names(tag[x]) /\ Names(tag[y])
    BY <1>1, <1>8 DEF Names
  <2>9. ASSUME NEW rest, NEW th, NEW P, IsCalls(rest),
               \A c2 : Tidy(c2, t2) /\ ValuesOf(c2, t2) = W => Fine(c2, t2, rest, <<>>, th, P)
        PROVE  Fine(cl, tag, InplaceSwapSizes(x, y) \o rest, <<>>, th, P)
    <3>1. \A c2 : Exchanged(c2, cl, tag, x, y) => Fine(c2, tag, rest, <<>>, th, P)
      BY <1>3, <2>7, <2>9
    <3>2. Fine(cl, tag, Then(my, q \o (r \o Then(z, rest))), <<>>, th, P)
      BY <1>2, <1>4, <2>1, <2>8, <2>9, <3>1, SwapFull
    <3>3. PICK v : v = Then(z, rest)
      OBVIOUS
    <3>4. IsCalls(rest)
      BY <2>9
    <3>5. IsCalls(v) /\ u \o rest = v
      BY <2>1, <3>3, <3>4, ThenFacts, OneCall
    <3>6. s \o v = v
      BY <2>1, <3>5, NothingJoined
    <3>7. p \o (q \o (r \o v)) = Then(my, q \o (r \o v))
      BY <2>1, OneCall
    <3>8. InplaceSwapSizes(x, y) \o rest = p \o (q \o (r \o (s \o (u \o rest))))
      BY <2>2, <2>6, <3>4
    <3>9. InplaceSwapSizes(x, y) \o rest = Then(my, q \o (r \o v))
      BY ONLY <3>5, <3>6, <3>7, <3>8
    <3> QED BY <3>2, <3>3, <3>9
  <2> QED BY <2>2, <2>6, <2>9 DEF Does
<1> QED BY <1>1, <1>5, <1>6, <1>7, <1>8

(* emplace of inplace_t in a box whose object nothing can replace safely: a throw
   leaves the box empty *)
LEMMA InplaceWeakFine ==
  ASSUME KindFits, kind = "inplace", NEW cl, NEW tg, NEW th, NEW P, NEW rest,
         NEW b, NEW from, NEW how, NEW t1,
         Ready(cl, tg, b, "first", from), BoxFits(cl, tg, b), from \notin Locals,
         tg[b] = "first", IsCalls(rest), t1 = [tg EXCEPT ![b] = Empty],
         \A c2 : Vacant(c2, cl, b) => <<c2, t1, TRUE>> \in P,
         \A c2, t2 : Placed(c2, t2, cl, tg, b, "first", from, how) => Fine(c2, t2, rest, <<>>, th, P)
  PROVE  /\ IsCalls(InplaceDestroy(b, TRUE) \o InplaceConstruct(b, from, how))
         /\ Fine(cl, tg, (InplaceDestroy(b, TRUE) \o InplaceConstruct(b, from, how)) \o rest, <<>>, th, P)
<1>1. /\ cl \in CellFns /\ tg \in TagFns /\ b \in AllBoxes /\ "first" \in Alternatives
      /\ from \in Cells \ {First(b), Second(b), Buffer, Backup} /\ Clear(cl, {from})
  BY DEF Ready
<1>2. TypeOf("first") = T /\ T # Void /\ CellOf(b, "first") = First(b) /\ Names("first") /\ IsUndo(<<>>)
  BY <1>1, AlternativeFacts DEF KindFits, IsUndo
<1>3. PICK p, q, r, has : /\ p = InplaceDestroy(b, has) /\ q = InplaceConstruct(b, from, how)
                          /\ r = q \o rest /\ has = TRUE
  OBVIOUS
<1>4. IsCalls(p) /\ IsCalls(q)
  BY <1>3, TwoCalls DEF InplaceDestroy, InplaceConstruct
<1>5. IsCalls(p \o q) /\ IsCalls(r) /\ (p \o q) \o rest = p \o r
  <2>1. IsCalls(p) /\ IsCalls(q) /\ IsCalls(rest) /\ r = q \o rest
    BY <1>3, <1>4
  <2> QED BY ONLY <2>1, TwoJoined
<1>6. ASSUME NEW c1, Emptied(c1, cl, b)
      PROVE  Fine(c1, t1, r, <<>>, th, P)
  <2>1. /\ c1 \in CellFns /\ Bare(c1, b) /\ c1[from] = cl[from]
        /\ Same(c1, cl, {First(b), Second(b)})
    BY <1>1, <1>6 DEF Emptied, Same
  <2>2. Clear(c1, {from})
    BY <1>1, <2>1, BoxCells, LocalCells DEF Clear, Same, LiveIn
  <2>3. t1 \in TagFns
    BY <1>1 DEF TagFns, Tags
  <2>4. Ready(c1, t1, b, "first", from)
    <3>1. PICK alt : alt = "first"
      OBVIOUS
    <3>2. Ready(c1, t1, b, alt, from)
      BY <2>1, <2>2, <2>3, <3>1, ReadyAfter
    <3> QED BY <3>1, <3>2
  <2>5. Places(q, c1, t1, <<>>, b, "first", from, how)
    BY <1>2, <1>3, <2>1, <2>4, BuildPlaces DEF InplaceConstruct
  <2>6. Unwinds(c1, t1, <<>>, P)
    <3>1. SUFFICES ASSUME NEW c2, Rest(c2, c1)
                   PROVE  Fine(c2, t1, <<>>, <<>>, TRUE, P)
      BY DEF Unwinds
    <3>2. Vacant(c2, cl, b)
      BY <1>1, <2>1, <3>1, BoxCells DEF Rest, Vacant, Same, Bare, LiveIn
    <3> QED BY <3>2, FineEnd
  <2>7. ASSUME NEW c2, NEW t2, Placed(c2, t2, c1, t1, b, "first", from, how)
        PROVE  Fine(c2, t2, rest, <<>>, th, P)
    <3>1. [t1 EXCEPT ![b] = "first"] = [tg EXCEPT ![b] = "first"]
      BY <1>1 DEF TagFns
    <3>2. Same(c1, cl, {First(b), Second(b), from} \cup Locals)
      BY <2>1 DEF Same
    <3>3. PICK alt : alt = "first"
      OBVIOUS
    <3>4. Placed(c2, t2, cl, tg, b, alt, from, how)
      BY <2>1, <2>7, <3>1, <3>2, <3>3, PlacedAfter
    <3> QED BY <3>3, <3>4
  <2> QED BY <1>3, <2>5, <2>6, <2>7 DEF Places
<1>7. Fine(cl, tg, p \o r, <<>>, th, P)
  BY <1>1, <1>2, <1>3, <1>5, <1>6, EmptyFine
<1> QED BY <1>3, <1>5, <1>7

-----------------------------------------------------------------------------
(* The erasing wrappers *)

(* A wrapper's clear makes the calls of inplace_t's destroy. *)
LEMMA ErasedClearIs ==
  ASSUME NEW b
  PROVE  ErasedClear(b) = InplaceDestroy(b, Holds(b))
BY DEF ErasedClear, InplaceDestroy

(* A wrapper's emplace, in its buffer or on the heap. *)
LEMMA ErasedEmplacePlaces ==
  ASSUME KindFits, kind = "erased", NEW cl, NEW tg, NEW b, NEW alt, NEW from, NEW how, NEW un,
         Ready(cl, tg, b, alt, from), from \notin Locals, IsUndo(un), BoxFits(cl, tg, b),
         tg[b] \in Types \cup {Empty}, Holds(b) <=> Names(tg[b])
  PROVE  Places(ErasedEmplace(b, alt, from, how), cl, tg, un, b, alt, from, how)
<1> PICK has \in BOOLEAN : has = Holds(b)
  BY DEF Holds
<1>1. /\ cl \in CellFns /\ tg \in TagFns /\ b \in AllBoxes /\ alt \in Alternatives
      /\ from \in Cells \ {First(b), Second(b), Buffer, Backup} /\ Clear(cl, {from})
  BY DEF Ready
<1>2. TypeOf(alt) = alt /\ alt \in Types /\ alt # Void /\ CellOf(b, alt) = First(b) /\ kind # "either"
      /\ (tg[b] \in Alternatives \/ tg[b] = Empty)
  BY <1>1, AlternativeFacts DEF Alternatives, CellOf
<1>3. LiveIn(cl, from) /\ cl[from].ty = alt
  BY <1>2 DEF Ready
<1>4. PICK a, d : a = First(b) /\ d = Second(b)
  OBVIOUS
<1>5. /\ a \in Cells /\ d \in Cells /\ a # d /\ a \notin Locals /\ d \notin Locals
      /\ Tmp \in Cells /\ Tmp \in Locals /\ Tmp # a /\ Tmp # d /\ from # Tmp /\ from # a /\ from # d
      /\ Sides(b, a, d)
  BY <1>1, <1>4, BoxCells, LocalCells DEF Sides
<1>6. PICK x \in Objects : x = cl[from] /\ x.ty = alt
  BY <1>1, <1>3, LiveIsObject
<1>7. Left(x, how) \in Objects /\ x # Raw /\ x # Null
  BY ObjectParts
<1>8. ~LiveIn(cl, Tmp)
  BY <1>1, <1>5 DEF Clear
<1>9. PICK p, t1, t2 : /\ p = InplaceDestroy(b, has) /\ t1 = [tg EXCEPT ![b] = Empty]
                       /\ t2 = [tg EXCEPT ![b] = alt]
  OBVIOUS
<1>10. IsCalls(p) /\ p = ErasedClear(b) /\ t1 \in TagFns /\ [t1 EXCEPT ![b] = alt] = t2
  BY <1>1, <1>9, ErasedClearIs, TwoCalls, NoCalls DEF InplaceDestroy, TagFns, Tags
<1>11. CASE InBuffer(alt) /\ NothrowOf(alt, how)
  <2>1. PICK q : q = <<Make(a, from, how), SetTag(b, alt)>>
    OBVIOUS
  <2>2. ErasedEmplace(b, alt, from, how) = p \o q
    BY <1>4, <1>10, <1>11, <2>1 DEF ErasedEmplace
  <2>3. IsCalls(q)
    BY <2>1, TwoCalls
  <2>4. IsCalls(p \o q)
    BY <1>10, <2>3, JoinedCalls
  <2>5. ASSUME NEW rest, NEW th, NEW P, IsCalls(rest),
               \A c2, t3 : Placed(c2, t3, cl, tg, b, alt, from, how) => Fine(c2, t3, rest, un, th, P)
        PROVE  Fine(cl, tg, (p \o q) \o rest, un, th, P)
    <3>1. PICK r : r = q \o rest
      OBVIOUS
    <3>2. IsCalls(p) /\ IsCalls(q) /\ IsCalls(rest)
      BY <1>10, <2>3, <2>5
    <3>3. IsCalls(r) /\ (p \o q) \o rest = p \o r
      BY ONLY <3>1, <3>2, TwoJoined
    <3>4. ASSUME NEW c1, Emptied(c1, cl, b)
          PROVE  Fine(c1, t1, r, un, th, P)
      <4>1. /\ c1 \in CellFns /\ Bare(c1, b) /\ c1[from] = cl[from]
            /\ Same(c1, cl, {First(b), Second(b)})
        BY <1>1, <3>4 DEF Emptied, Same
      <4>2. Clear(c1, {from})
        BY <1>1, <4>1, BoxCells, LocalCells DEF Clear, Same, LiveIn
      <4>3. Ready(c1, t1, b, alt, from)
        BY <1>10, <4>1, <4>2, ReadyAfter
      <4>4. Places(q, c1, t1, un, b, alt, from, how)
        BY <1>2, <1>4, <2>1, <4>1, <4>3, BuildPlaces
      <4>5. ~Throws(alt, how)
        BY <1>2, <1>11 DEF Throws
      <4>6. ASSUME NEW c2, NEW t3, Placed(c2, t3, c1, t1, b, alt, from, how)
            PROVE  Fine(c2, t3, rest, un, th, P)
        <5>1. Same(c1, cl, {First(b), Second(b), from} \cup Locals)
          BY <4>1 DEF Same
        <5>2. Placed(c2, t3, cl, tg, b, alt, from, how)
          BY <1>9, <1>10, <4>1, <4>6, <5>1, PlacedAfter
        <5> QED BY <2>5, <5>2
      <4> QED BY <2>5, <3>1, <4>4, <4>5, <4>6 DEF Places
    <3>5. Fine(cl, tg, p \o r, un, th, P)
      BY <1>1, <1>2, <1>9, <3>3, <3>4, EmptyFine
    <3> QED BY <3>3, <3>5
  <2> QED BY <2>2, <2>4, <2>5 DEF Places
<1>12. ASSUME NEW rest, NEW th, NEW P, NEW r, IsCalls(rest), IsCalls(r),
              Throws(alt, how) => Unwinds(cl, tg, un, P),
              \A c2 : /\ c2 \in CellFns /\ c2[Tmp] = x /\ c2[from] = Left(x, how)
                      /\ ~LiveIn(c2, a) /\ ~LiveIn(c2, d) /\ LiveIn(c2, Tmp) /\ Same(c2, cl, {a, d, from, Tmp})
                => Fine(c2, t1, r, un, th, P)
       PROVE  Fine(cl, tg, Then(Make(Tmp, from, how), p \o r), un, th, P)
  <2>1. NothrowOf(cl[from].ty, how) \/ Fine(cl, tg, Unwound(un, cl), <<>>, TRUE, P)
    BY <1>1, <1>2, <1>3, <1>12, Unwinding DEF Throws
  <2>2. IsCalls(p \o r)
    BY <1>10, <1>12, JoinedCalls
  <2>3. SUFFICES ASSUME NEW c1, Made(c1, cl, Tmp, from, how)
                 PROVE  Fine(c1, tg, p \o r, un, th, P)
    BY <1>1, <1>3, <1>5, <1>8, <2>1, <2>2, MakeCall
  <2>4. /\ c1 \in CellFns /\ c1[Tmp] = x /\ c1[from] = Left(x, how) /\ Same(c1, cl, {Tmp, from})
    BY <1>5, <1>6, <2>3 DEF Made, Same
  <2>5. BoxFits(c1, tg, b)
    BY <1>4, <1>5, <2>4 DEF BoxFits, Same, LiveIn
  <2>6. ASSUME NEW c2, Emptied(c2, c1, b)
        PROVE  Fine(c2, t1, r, un, th, P)
    <3>1. /\ c2 \in CellFns /\ c2[Tmp] = x /\ c2[from] = Left(x, how)
          /\ ~LiveIn(c2, a) /\ ~LiveIn(c2, d) /\ Same(c2, cl, {a, d, from, Tmp})
      BY <1>1, <1>4, <1>5, <2>4, <2>6 DEF Emptied, Bare, Same
    <3>2. LiveIn(c2, Tmp)
      BY <1>7, <3>1 DEF LiveIn
    <3> QED BY <1>12, <3>1, <3>2
  <2> QED BY <1>1, <1>2, <1>9, <1>12, <2>4, <2>5, <2>6, EmptyFine
<1>13. ASSUME NEW rest, NEW th, NEW P, NEW c4,
              \A c2, t3 : Placed(c2, t3, cl, tg, b, alt, from, how) => Fine(c2, t3, rest, un, th, P),
              c4 \in CellFns, c4[a] = x, c4[from] = Left(x, how), ~LiveIn(c4, d), ~LiveIn(c4, Tmp),
              Same(c4, cl, {a, d, from, Tmp})
       PROVE  Fine(c4, t2, rest, un, th, P)
  <2>1. Clear(c4, {from})
    BY <1>1, <1>5, <1>13, LocalCells DEF Clear, Same, LiveIn
  <2>2. Same(c4, cl, {First(b), Second(b), from} \cup Locals)
    BY <1>4, <1>5, <1>13 DEF Same
  <2>3. Placed(c4, t2, cl, tg, b, alt, from, how)
    BY <1>2, <1>4, <1>5, <1>6, <1>9, <1>13, <2>1, <2>2, IsPlaced
  <2> QED BY <1>13, <2>3
<1>14. CASE InBuffer(alt) /\ ~NothrowOf(alt, how)
  <2>1. PICK m, n, s, z, by, q : /\ m = Make(Tmp, from, how) /\ n = Make(a, Tmp, by) /\ s = SetTag(b, alt)
                                 /\ z = Drop(Tmp) /\ by = Transfer(alt) /\ q = <<n, s, z>>
    OBVIOUS
  <2>2. NothrowOf(alt, by)
    BY <1>14, <2>1 DEF Transfer, NothrowOf, InBuffer, CanStrongConstruct
  <2>3. ErasedEmplace(b, alt, from, how) = (<<m>> \o p) \o q
    BY <1>4, <1>10, <1>14, <2>1 DEF ErasedEmplace
  <2>4. IsCalls(q) /\ \A rest : IsCalls(rest) => q \o rest = Then(n, Then(s, Then(z, rest)))
    BY <2>1, ThreeCalls
  <2>5. ASSUME NEW rest, NEW th, NEW P, IsCalls(rest),
               Throws(alt, how) => Unwinds(cl, tg, un, P),
               \A c2, t3 : Placed(c2, t3, cl, tg, b, alt, from, how) => Fine(c2, t3, rest, un, th, P)
        PROVE  Fine(cl, tg, ((<<m>> \o p) \o q) \o rest, un, th, P)
    <3>1. PICK r, r1, r2 : r2 = Then(z, rest) /\ r1 = Then(s, r2) /\ r = Then(n, r1)
      OBVIOUS
    <3>2. IsCalls(r) /\ IsCalls(r1) /\ IsCalls(r2)
      BY <2>5, <3>1, ThenFacts
    <3>3. ((<<m>> \o p) \o q) \o rest = Then(m, p \o r)
      <4>1. PICK v : v = <<m>>
        OBVIOUS
      <4>2. IsCalls(v) /\ \A w : v \o w = Then(m, w)
        BY <4>1, OneCall
      <4>3. IsCalls(v) /\ IsCalls(p) /\ IsCalls(q) /\ IsCalls(rest)
        BY <1>10, <2>4, <2>5, <4>2
      <4>4. ((v \o p) \o q) \o rest = v \o (p \o (q \o rest))
        BY ONLY <4>3, ThreeJoined
      <4>5. q \o rest = r
        BY <2>4, <2>5, <3>1
      <4> QED BY ONLY <4>1, <4>2, <4>4, <4>5
    <3>4. ASSUME NEW c2, c2 \in CellFns, c2[Tmp] = x, c2[from] = Left(x, how), ~LiveIn(c2, a), ~LiveIn(c2, d),
                 LiveIn(c2, Tmp), Same(c2, cl, {a, d, from, Tmp})
          PROVE  Fine(c2, t1, r, un, th, P)
      <4>1. SUFFICES Fine(c2, t1, Then(Make(a, Tmp, by), r1), un, th, P)
        BY <2>1, <3>1
      <4>2. SUFFICES ASSUME NEW c3, Made(c3, c2, a, Tmp, by)
                     PROVE  Fine(c3, t1, r1, un, th, P)
        BY <1>5, <1>6, <2>2, <3>2, <3>4, MakeCall
      <4>3. SUFFICES Fine(c3, t2, r2, un, th, P)
        BY <1>10, <2>1, <3>1, <3>2, TagCall
      <4>4. /\ c3 \in CellFns /\ c3[a] = x /\ c3[from] = Left(x, how) /\ ~LiveIn(c3, d)
            /\ c3[Tmp] = Left(x, by) /\ Same(c3, cl, {a, d, from, Tmp})
        BY <1>1, <1>5, <3>4, <4>2 DEF Made, Same, LiveIn
      <4>5. c3[Tmp] # Raw
        BY <1>6, <4>4, ObjectParts
      <4>6. SUFFICES ASSUME NEW c4, Dropped(c4, c3, Tmp)
                     PROVE  Fine(c4, t2, rest, un, th, P)
        BY <1>5, <2>1, <2>5, <3>1, <4>4, <4>5, DropCall
      <4>7. /\ c4 \in CellFns /\ c4[a] = x /\ c4[from] = Left(x, how) /\ ~LiveIn(c4, d)
            /\ ~LiveIn(c4, Tmp) /\ Same(c4, cl, {a, d, from, Tmp})
        BY <1>1, <1>5, <4>4, <4>6 DEF Dropped, Same, LiveIn
      <4> QED BY <1>13, <2>5, <4>7
    <3>5. Fine(cl, tg, Then(m, p \o r), un, th, P)
      BY <1>12, <2>1, <2>5, <3>2, <3>4
    <3> QED BY <3>3, <3>5
  <2>6. IsCalls((<<m>> \o p) \o q)
    BY <1>10, <2>4, OneCall, JoinedCalls
  <2> QED BY <2>3, <2>5, <2>6 DEF Places
<1>15. CASE ~InBuffer(alt)
  <2>1. PICK m, n, s, q : /\ m = Make(Tmp, from, how) /\ n = Pass(a, Tmp) /\ s = SetTag(b, alt)
                          /\ q = <<n, s>>
    OBVIOUS
  <2>2. ErasedEmplace(b, alt, from, how) = (<<m>> \o p) \o q
    BY <1>4, <1>10, <1>15, <2>1 DEF ErasedEmplace
  <2>3. IsCalls(q) /\ \A rest : IsCalls(rest) => q \o rest = Then(n, Then(s, rest))
    BY <2>1, TwoCalls
  <2>4. ASSUME NEW rest, NEW th, NEW P, IsCalls(rest),
               Throws(alt, how) => Unwinds(cl, tg, un, P),
               \A c2, t3 : Placed(c2, t3, cl, tg, b, alt, from, how) => Fine(c2, t3, rest, un, th, P)
        PROVE  Fine(cl, tg, ((<<m>> \o p) \o q) \o rest, un, th, P)
    <3>1. PICK r, r1 : r1 = Then(s, rest) /\ r = Then(n, r1)
      OBVIOUS
    <3>2. IsCalls(r) /\ IsCalls(r1)
      BY <2>4, <3>1, ThenFacts
    <3>3. ((<<m>> \o p) \o q) \o rest = Then(m, p \o r)
      <4>1. PICK v : v = <<m>>
        OBVIOUS
      <4>2. IsCalls(v) /\ \A w : v \o w = Then(m, w)
        BY <4>1, OneCall
      <4>3. IsCalls(v) /\ IsCalls(p) /\ IsCalls(q) /\ IsCalls(rest)
        BY <1>10, <2>3, <2>4, <4>2
      <4>4. ((v \o p) \o q) \o rest = v \o (p \o (q \o rest))
        BY ONLY <4>3, ThreeJoined
      <4>5. q \o rest = r
        BY <2>3, <2>4, <3>1
      <4> QED BY ONLY <4>1, <4>2, <4>4, <4>5
    <3>4. ASSUME NEW c2, c2 \in CellFns, c2[Tmp] = x, c2[from] = Left(x, how), ~LiveIn(c2, a), ~LiveIn(c2, d),
                 LiveIn(c2, Tmp), Same(c2, cl, {a, d, from, Tmp})
          PROVE  Fine(c2, t1, r, un, th, P)
      <4>1. SUFFICES Fine(c2, t1, Then(Pass(a, Tmp), r1), un, th, P)
        BY <2>1, <3>1
      <4>2. SUFFICES ASSUME NEW c3, Passed(c3, c2, a, Tmp)
                     PROVE  Fine(c3, t1, r1, un, th, P)
        BY <1>5, <3>2, <3>4, PassCall
      <4>3. SUFFICES Fine(c3, t2, rest, un, th, P)
        BY <1>10, <2>1, <2>4, <3>1, TagCall
      <4>4. /\ c3 \in CellFns /\ c3[a] = x /\ c3[from] = Left(x, how) /\ ~LiveIn(c3, d)
            /\ ~LiveIn(c3, Tmp) /\ Same(c3, cl, {a, d, from, Tmp})
        BY <1>1, <1>5, <3>4, <4>2 DEF Passed, Same, LiveIn
      <4> QED BY <1>13, <2>4, <4>4
    <3>5. Fine(cl, tg, Then(m, p \o r), un, th, P)
      BY <1>12, <2>1, <2>4, <3>2, <3>4
    <3> QED BY <3>3, <3>5
  <2>5. IsCalls((<<m>> \o p) \o q)
    BY <1>10, <2>3, OneCall, JoinedCalls
  <2> QED BY <2>2, <2>4, <2>5 DEF Places
<1> QED BY <1>11, <1>14, <1>15

(* safe_relocate: the object is in another cell, and its own has none. *)
Relocated(c2, cl, to, from) ==
  c2 \in CellFns /\ c2[to] = cl[from] /\ ~LiveIn(c2, from) /\ Same(c2, cl, {to, from})

(* safe_relocate, by a constructor that does not throw or by the pointer. *)
LEMMA RelocateFine ==
  ASSUME NEW cl \in CellFns, NEW tg, NEW rest, NEW un, NEW th, NEW P, NEW ty \in Types,
         NEW to \in Cells, NEW from \in Cells, to # from, ~LiveIn(cl, to), LiveIn(cl, from),
         cl[from].ty = ty, IsCalls(rest),
         \A c2 : Relocated(c2, cl, to, from) => Fine(c2, tg, rest, un, th, P)
  PROVE  /\ IsCalls(SafeRelocate(ty, to, from))
         /\ Fine(cl, tg, SafeRelocate(ty, to, from) \o rest, un, th, P)
<1>1. PICK x \in Objects : x = cl[from]
  BY LiveIsObject
<1>2. CASE InBuffer(ty)
  <2>1. PICK by, m, z : by = Transfer(ty) /\ m = Make(to, from, by) /\ z = Drop(from)
    OBVIOUS
  <2>2. NothrowOf(ty, by)
    BY <1>2, <2>1 DEF Transfer, NothrowOf, InBuffer, CanStrongConstruct
  <2>3. SafeRelocate(ty, to, from) = <<m, z>>
    BY <1>2, <2>1 DEF SafeRelocate
  <2>4. IsCalls(rest)
    OBVIOUS
  <2>5. IsCalls(<<m, z>>) /\ <<m, z>> \o rest = Then(m, Then(z, rest))
    BY ONLY <2>4, TwoCalls
  <2>6. PICK r : r = Then(z, rest) /\ IsCalls(r)
    BY ThenFacts
  <2>7. ASSUME NEW c1, Made(c1, cl, to, from, by)
        PROVE  Fine(c1, tg, r, un, th, P)
    <3>1. c1 \in CellFns /\ c1[to] = x /\ c1[from] # Raw /\ Same(c1, cl, {to, from})
      BY <1>1, <2>7, ObjectParts DEF Made
    <3>2. SUFFICES ASSUME NEW c2, Dropped(c2, c1, from)
                   PROVE  Fine(c2, tg, rest, un, th, P)
      BY <2>1, <2>6, <3>1, DropCall
    <3>3. Relocated(c2, cl, to, from)
      BY <1>1, <3>1, <3>2 DEF Dropped, Same, Relocated, LiveIn
    <3> QED BY <3>3
  <2>8. Fine(cl, tg, Then(m, r), un, th, P)
    BY <2>1, <2>2, <2>6, <2>7, MakeCall
  <2> QED BY <2>3, <2>5, <2>6, <2>8
<1>3. CASE ~InBuffer(ty)
  <2>1. PICK m : m = Pass(to, from)
    OBVIOUS
  <2>2. SafeRelocate(ty, to, from) = <<m>>
    BY <1>3, <2>1 DEF SafeRelocate
  <2>3. IsCalls(<<m>>) /\ <<m>> \o rest = Then(m, rest)
    BY ONLY OneCall
  <2>4. ASSUME NEW c1, Passed(c1, cl, to, from)
        PROVE  Fine(c1, tg, rest, un, th, P)
    BY <2>4 DEF Passed, Relocated, LiveIn
  <2>5. Fine(cl, tg, Then(m, rest), un, th, P)
    BY <2>1, <2>4, PassCall
  <2> QED BY <2>2, <2>3, <2>5
<1> QED BY <1>2, <1>3

HandOver(x, y, tx) == SafeRelocate(tx, First(y), First(x)) \o <<SetTag(y, tx), SetTag(x, Empty)>>
HandOverTags(tg, x, y, tx) == [[tg EXCEPT ![y] = tx] EXCEPT ![x] = Empty]

(* The object of x goes to an empty box y. *)
LEMMA RelocateDoes ==
  ASSUME KindFits, kind = "erased", NEW cl, NEW tg, NEW un, NEW may, NEW x \in AllBoxes,
         NEW y \in AllBoxes,
         NEW tx, NEW W, Tidy(cl, tg), x # y, tx = tg[x], Names(tx), tg[y] = Empty,
         \A c2 : Exchanged(c2, cl, tg, x, y) =>
           Tidy(c2, HandOverTags(tg, x, y, tx)) /\ ValuesOf(c2, HandOverTags(tg, x, y, tx)) = W
  PROVE  Does(HandOver(x, y, tx), cl, tg, un, may, HandOverTags(tg, x, y, tx), W)
<1>1. PICK t2 : t2 = HandOverTags(tg, x, y, tx)
  OBVIOUS
<1>2. /\ cl \in CellFns /\ tg \in TagFns /\ Clear(cl, {}) /\ tx \in Alternatives /\ kind # "either"
      /\ BoxFits(cl, tg, x) /\ BoxFits(cl, tg, y)
  BY DEF Tidy, TagFits, Names
<1>3. TypeOf(tx) = tx /\ tx \in Types /\ ~Names(Empty)
  BY <1>2, AlternativeFacts DEF Names
<1>4. PICK a, b : a = First(x) /\ b = First(y)
  OBVIOUS
<1>5. a \in Cells /\ b \in Cells /\ a # b /\ a \notin Locals /\ b \notin Locals
  BY <1>4, BoxCells, BoxesApart
<1>6. LiveIn(cl, a) /\ cl[a].ty = tx /\ ~LiveIn(cl, b)
  BY <1>2, <1>3, <1>4, FirstFits, BareFits DEF Bare
<1>7. PICK p, q, s1, s2 : /\ p = SafeRelocate(tx, b, a) /\ q = <<s1, s2>>
                          /\ s1 = SetTag(y, tx) /\ s2 = SetTag(x, Empty)
  OBVIOUS
<1>8. IsCalls(q) /\ \A rest : IsCalls(rest) => q \o rest = Then(s1, Then(s2, rest))
  BY <1>7, TwoCalls
<1>9. IsCalls(p)
  BY <1>7, OneCall, TwoCalls DEF SafeRelocate
<1>10. IsCalls(p \o q)
  BY <1>8, <1>9, JoinedCalls
<1>11. ASSUME NEW rest, NEW th, NEW P, IsCalls(rest),
              \A c2 : Tidy(c2, t2) /\ ValuesOf(c2, t2) = W => Fine(c2, t2, rest, un, th, P)
       PROVE  Fine(cl, tg, (p \o q) \o rest, un, th, P)
  <2>1. PICK r, r1 : r1 = Then(s2, rest) /\ r = Then(s1, r1)
    OBVIOUS
  <2>2. IsCalls(r) /\ IsCalls(r1)
    BY <1>11, <2>1, ThenFacts
  <2>3. (p \o q) \o rest = p \o r
    <3>1. IsCalls(p) /\ IsCalls(q) /\ IsCalls(rest)
      BY <1>8, <1>9, <1>11
    <3>2. (p \o q) \o rest = p \o (q \o rest)
      BY ONLY <3>1, TwoJoined
    <3>3. q \o rest = r
      BY <1>8, <1>11, <2>1
    <3> QED BY ONLY <3>2, <3>3
  <2>4. SUFFICES ASSUME NEW c2, Relocated(c2, cl, b, a)
                 PROVE  Fine(c2, tg, r, un, th, P)
    BY <1>2, <1>3, <1>5, <1>6, <1>7, <2>2, <2>3, RelocateFine
  <2>5. SUFFICES Fine(c2, t2, rest, un, th, P)
    BY <1>1, <1>7, <1>11, <2>1, <2>2, TagCall DEF HandOverTags
  <2>6. Clear(c2, {}) /\ Same(c2, cl, {a, b} \cup Locals)
    BY <1>2, <1>5, <2>4, LocalCells DEF Clear, Same, LiveIn, Relocated
  <2>7. Exchanged(c2, cl, tg, x, y)
    BY <1>3, <1>4, <2>4, <2>6 DEF Exchanged, Gets, Relocated
  <2> QED BY <1>1, <1>11, <2>7
<1>12. HandOver(x, y, tx) = p \o q
  BY <1>4, <1>7 DEF HandOver
<1> QED BY <1>1, <1>10, <1>11, <1>12 DEF Does

(* swap of two erasing wrappers, through a local if both hold something *)
LEMMA ErasedSwapDoes ==
  ASSUME KindFits, kind = "erased", NEW cl, NEW tg, NEW un, NEW may, NEW x \in AllBoxes,
         NEW y \in AllBoxes,
         NEW tx, NEW ty, NEW t2, NEW W, Tidy(cl, tg), x # y, tx = tg[x], ty = tg[y], tx # Gone,
         ty # Gone,
         t2 = [tg EXCEPT ![x] = tg[y], ![y] = tg[x]],
         W = [ValuesOf(cl, tg) EXCEPT ![x] = ValuesOf(cl, tg)[y], ![y] = ValuesOf(cl, tg)[x]]
  PROVE  Does(ErasedSwap(x, tx, y, ty), cl, tg, un, may, t2, W)
<1>1. /\ cl \in CellFns /\ tg \in TagFns /\ Clear(cl, {}) /\ kind # "either"
      /\ BoxFits(cl, tg, x) /\ BoxFits(cl, tg, y) /\ TagFits(tx) /\ TagFits(ty)
  BY DEF Tidy
<1>2. ASSUME NEW c2, Exchanged(c2, cl, tg, x, y)
      PROVE  Tidy(c2, t2) /\ ValuesOf(c2, t2) = W
  BY <1>1, <1>2, ExchangedTidy
<1>3. CASE tx = Empty /\ ty = Empty
  <2>1. ErasedSwap(x, tx, y, ty) = <<>>
    BY <1>3 DEF ErasedSwap
  <2>2. t2 = tg
    BY <1>1, <1>3 DEF TagFns
  <2>3. W = ValuesOf(cl, tg)
    BY <1>3 DEF ValuesOf, ValueIn, Names
  <2> QED BY <2>1, <2>2, <2>3, DoesNothing
<1>4. CASE tx # Empty /\ ty = Empty
  <2>1. ErasedSwap(x, tx, y, ty) = HandOver(x, y, tx)
    BY <1>4 DEF ErasedSwap, HandOver
  <2>2. t2 = HandOverTags(tg, x, y, tx)
    BY <1>1, <1>4 DEF TagFns, HandOverTags
  <2>3. Names(tx) /\ tg[y] = Empty /\ tx = tg[x]
    BY <1>4 DEF Names
  <2>4. Does(HandOver(x, y, tx), cl, tg, un, may, HandOverTags(tg, x, y, tx), W)
    BY ONLY KindFits, kind = "erased", Tidy(cl, tg), x \in AllBoxes, y \in AllBoxes, x # y,
       <1>2, <2>2, <2>3, RelocateDoes
  <2> QED BY <2>1, <2>2, <2>4
<1>5. CASE tx = Empty /\ ty # Empty
  <2>1. ErasedSwap(x, tx, y, ty) = HandOver(y, x, ty)
    BY <1>5 DEF ErasedSwap, HandOver
  <2>2. t2 = HandOverTags(tg, y, x, ty)
    BY <1>1, <1>5 DEF TagFns, HandOverTags
  <2>3. Names(ty) /\ tg[x] = Empty /\ ty = tg[y] /\ y # x
    BY <1>5 DEF Names
  <2>4. \A c2 : Exchanged(c2, cl, tg, y, x) => Tidy(c2, t2) /\ ValuesOf(c2, t2) = W
    BY <1>2, ExchangedBoth
  <2>5. Does(HandOver(y, x, ty), cl, tg, un, may, HandOverTags(tg, y, x, ty), W)
    BY ONLY KindFits, kind = "erased", Tidy(cl, tg), x \in AllBoxes, y \in AllBoxes,
       <2>2, <2>3, <2>4, RelocateDoes
  <2> QED BY <2>1, <2>2, <2>5
<1>6. CASE tx # Empty /\ ty # Empty
  <2>1. tx \in Alternatives /\ ty \in Alternatives /\ Names(tx) /\ Names(ty)
    BY <1>1, <1>6 DEF TagFits, Names
  <2>2. TypeOf(tx) = tx /\ tx \in Types /\ TypeOf(ty) = ty /\ ty \in Types
    BY <2>1, AlternativeFacts
  <2>3. PICK a, b : a = First(x) /\ b = First(y)
    OBVIOUS
  <2>4. /\ a \in Cells /\ b \in Cells /\ a # b /\ a \notin Locals /\ b \notin Locals
        /\ Backup \in Cells /\ Backup \in Locals /\ Backup # a /\ Backup # b
    BY <2>3, BoxCells, BoxesApart, LocalCells
  <2>5. LiveIn(cl, a) /\ cl[a].ty = tx /\ LiveIn(cl, b) /\ cl[b].ty = ty /\ ~LiveIn(cl, Backup)
    BY <1>1, <2>1, <2>2, <2>3, <2>4, FirstFits DEF Clear
  <2>6. PICK p, q, r, s, s1, s2 : /\ p = SafeRelocate(tx, Backup, a) /\ q = SafeRelocate(ty, a, b)
                                  /\ r = SafeRelocate(tx, b, Backup) /\ s = <<s1, s2>>
                                  /\ s1 = SetTag(x, ty) /\ s2 = SetTag(y, tx)
    OBVIOUS
  <2>7. ErasedSwap(x, tx, y, ty) = ((p \o q) \o r) \o s
    BY <1>6, <2>3, <2>6 DEF ErasedSwap
  <2>8. \A t, to, from : IsCalls(SafeRelocate(t, to, from))
    BY OneCall, TwoCalls DEF SafeRelocate
  <2>9. IsCalls(s) /\ \A rest : IsCalls(rest) => s \o rest = Then(s1, Then(s2, rest))
    BY <2>6, TwoCalls
  <2>10. IsCalls(p) /\ IsCalls(q) /\ IsCalls(r) /\ IsCalls(s)
    BY <2>6, <2>8, <2>9
  <2>11. /\ IsCalls(((p \o q) \o r) \o s)
         /\ \A rest : IsCalls(rest) => (((p \o q) \o r) \o s) \o rest = p \o (q \o (r \o (s \o rest)))
    <3>1. FourInTurn(p, q, r, s)
      BY ONLY <2>10, FourJoined
    <3> QED BY ONLY <3>1 DEF FourInTurn
  <2>12. t2 = [[tg EXCEPT ![x] = ty] EXCEPT ![y] = tx]
    BY <1>1 DEF TagFns
  <2>13. ASSUME NEW rest, NEW th, NEW P, IsCalls(rest),
                \A c2 : Tidy(c2, t2) /\ ValuesOf(c2, t2) = W => Fine(c2, t2, rest, un, th, P)
         PROVE  Fine(cl, tg, ErasedSwap(x, tx, y, ty) \o rest, un, th, P)
    <3>1. PICK r1, r2, r3, r4 : /\ r4 = Then(s2, rest) /\ r3 = Then(s1, r4)
                                /\ r2 = r \o r3 /\ r1 = q \o r2
      OBVIOUS
    <3>2. IsCalls(r4) /\ IsCalls(r3) /\ IsCalls(r2) /\ IsCalls(r1)
      BY <2>10, <2>13, <3>1, ThenFacts, JoinedCalls
    <3>3. ErasedSwap(x, tx, y, ty) \o rest = p \o r1
      <4>1. (((p \o q) \o r) \o s) \o rest = p \o (q \o (r \o (s \o rest)))
        BY <2>11, <2>13
      <4>2. s \o rest = r3
        BY <2>9, <2>13, <3>1
      <4> QED BY ONLY <2>7, <3>1, <4>1, <4>2
    <3>4. SUFFICES ASSUME NEW c1, Relocated(c1, cl, Backup, a)
                   PROVE  Fine(c1, tg, r1, un, th, P)
      BY <1>1, <2>2, <2>4, <2>5, <2>6, <3>2, <3>3, RelocateFine
    <3>5. /\ c1 \in CellFns /\ c1[Backup] = cl[a] /\ ~LiveIn(c1, a) /\ c1[b] = cl[b]
          /\ LiveIn(c1, b) /\ c1[b].ty = ty /\ Same(c1, cl, {Backup, a})
      BY <2>4, <2>5, <3>4 DEF Relocated, Same, LiveIn
    <3>6. SUFFICES ASSUME NEW c2, Relocated(c2, c1, a, b)
                   PROVE  Fine(c2, tg, r2, un, th, P)
      BY <2>2, <2>4, <2>6, <3>1, <3>2, <3>5, RelocateFine
    <3>7. /\ c2 \in CellFns /\ c2[a] = cl[b] /\ ~LiveIn(c2, b) /\ c2[Backup] = cl[a]
          /\ LiveIn(c2, Backup) /\ c2[Backup].ty = tx /\ Same(c2, cl, {Backup, a, b})
      BY <2>4, <2>5, <3>5, <3>6 DEF Relocated, Same, LiveIn
    <3>8. SUFFICES ASSUME NEW c3, Relocated(c3, c2, b, Backup)
                   PROVE  Fine(c3, tg, r3, un, th, P)
      BY <2>2, <2>4, <2>6, <3>1, <3>2, <3>7, RelocateFine
    <3>9. /\ c3 \in CellFns /\ c3[a] = cl[b] /\ c3[b] = cl[a] /\ ~LiveIn(c3, Backup)
          /\ Same(c3, cl, {Backup, a, b})
      BY <2>4, <3>7, <3>8 DEF Relocated, Same
    <3>10. SUFFICES Fine(c3, t2, rest, un, th, P)
      BY <2>6, <2>12, <2>13, <3>1, <3>2, TagCall
    <3>11. Clear(c3, {}) /\ Same(c3, cl, {a, b} \cup Locals)
      BY <1>1, <2>4, <3>9, LocalCells DEF Clear, Same, LiveIn
    <3>12. Exchanged(c3, cl, tg, x, y)
      BY <2>1, <2>3, <3>9, <3>11 DEF Exchanged, Gets
    <3> QED BY <1>2, <2>13, <3>12
  <2>14. IsCalls(ErasedSwap(x, tx, y, ty))
    BY <2>7, <2>11
  <2> QED BY <2>13, <2>14 DEF Does
<1> QED BY <1>3, <1>4, <1>5, <1>6

(* What a move leaves of the boxes: an erasing wrapper gives all that it has. *)
GivenTags(tg, b, o) == [tg EXCEPT ![b] = tg[o], ![o] = Empty]
GivenValues(v, b, o) == [v EXCEPT ![b] = v[o], ![o] = Raw]

(* A wrapper's move into an empty wrapper. *)
LEMMA ErasedMoveDoes ==
  ASSUME KindFits, kind = "erased", NEW cl, NEW tg, NEW un, NEW may, NEW b \in AllBoxes,
         NEW o \in AllBoxes,
         NEW t2, NEW W, Tidy(cl, tg), b # o, tg[o] = tag[o], tag[o] # Gone, tg[b] = Empty,
         t2 = GivenTags(tg, b, o), W = GivenValues(ValuesOf(cl, tg), b, o)
  PROVE  Does(ErasedMove(b, o), cl, tg, un, may, t2, W)
<1>1. tg \in TagFns
  BY DEF Tidy
<1>2. PICK v, tx, ty : v = ValuesOf(cl, tg) /\ tx = tag[o] /\ ty = Empty
  OBVIOUS
<1>3. v = [x \in AllBoxes |-> v[x]] /\ v[b] = Raw
  BY <1>2 DEF ValuesOf, ValueIn, Names
<1>4. ErasedMove(b, o) = ErasedSwap(o, tx, b, ty)
  BY <1>2 DEF ErasedMove, ErasedSwap, Holds
<1>5. t2 = [tg EXCEPT ![o] = tg[b], ![b] = tg[o]]
  BY <1>1 DEF TagFns, GivenTags
<1>6. W = [v EXCEPT ![o] = v[b], ![b] = v[o]]
  BY <1>2, <1>3 DEF GivenValues
<1>7. tx = tg[o] /\ ty = tg[b] /\ tx # Gone /\ ty # Gone /\ o # b
  BY <1>2, CellAssumption
<1>8. Does(ErasedSwap(o, tx, b, ty), cl, tg, un, may, t2, W)
  BY ONLY KindFits, kind = "erased", Tidy(cl, tg), b \in AllBoxes, o \in AllBoxes,
     <1>2, <1>5, <1>6, <1>7, ErasedSwapDoes
<1> QED BY <1>4, <1>8

(* Either way, b is emptied first. *)
LEMMA ErasedTakeDoes ==
  ASSUME KindFits, kind = "erased", NEW cl, NEW un, NEW b \in AllBoxes, NEW o \in AllBoxes,
         NEW free, free = FALSE,
         NEW t2, NEW W, NEW first, NEW t1, NEW W1, Tidy(cl, tag), b # o, tag[o] # Gone,
         t1 = [tag EXCEPT ![b] = Empty], W1 = [ValuesOf(cl, tag) EXCEPT ![b] = Raw],
         Does(first, cl, tag, un, free, t1, W1),
         t2 = GivenTags(tag, b, o), W = GivenValues(ValuesOf(cl, tag), b, o)
  PROVE  Does(first \o ErasedMove(b, o), cl, tag, un, free, t2, W)
<1>1. tag \in TagFns
  BY DEF Tidy
<1>2. t1[o] = tag[o] /\ t1[b] = Empty /\ t2 = GivenTags(t1, b, o)
  BY <1>1 DEF TagFns, GivenTags
<1>3. W = GivenValues(W1, b, o)
  BY DEF ValuesOf, GivenValues
<1>4. PICK q : q = ErasedMove(b, o)
  OBVIOUS
<1>5. ASSUME NEW c1, Tidy(c1, t1), ValuesOf(c1, t1) = W1
      PROVE  Does(q, c1, t1, un, free, t2, W)
  <2>1. W = GivenValues(ValuesOf(c1, t1), b, o)
    BY <1>3, <1>5
  <2>2. b # o /\ tag[o] # Gone
    OBVIOUS
  <2>3. Does(ErasedMove(b, o), c1, t1, un, free, t2, W)
    BY ONLY KindFits, kind = "erased", b \in AllBoxes, o \in AllBoxes, <1>2, <1>5, <2>1, <2>2,
            ErasedMoveDoes
  <2> QED BY <1>4, <2>3
<1>6. IsCalls(q)
  <2>1. \A t, to, from : IsCalls(SafeRelocate(t, to, from))
    BY OneCall, TwoCalls DEF SafeRelocate
  <2>2. PICK p, s : /\ p = SafeRelocate(tag[o], First(b), First(o))
                    /\ s = <<SetTag(b, tag[o]), SetTag(o, Empty)>>
    OBVIOUS
  <2>3. IsCalls(p) /\ IsCalls(s)
    BY <2>1, <2>2, TwoCalls
  <2>4. IsCalls(p \o s)
    BY <2>3, JoinedCalls
  <2> QED BY <1>4, <2>2, <2>4, NoCalls DEF ErasedMove
<1>7. Does(first, cl, tag, un, free, t1, W1)
  OBVIOUS
<1>8. Does(first \o q, cl, tag, un, free, t2, W)
  BY ONLY free = FALSE, <1>5, <1>6, <1>7, DoesInTurn
<1> QED BY <1>4, <1>8

(* A wrapper's move constructor and move assignment. *)
LEMMA ErasedMoveBoxDoes ==
  ASSUME KindFits, kind = "erased", NEW cl, NEW b \in AllBoxes, NEW o \in AllBoxes, NEW free,
         free = FALSE,
         NEW t2, NEW W, Tidy(cl, tag), b # o, tag[o] # Gone,
         t2 = GivenTags(tag, b, o), W = GivenValues(ValuesOf(cl, tag), b, o)
  PROVE  /\ tag[b] = Gone => Does(ErasedMoveConstruct(b, o), cl, tag, <<>>, free, t2, W)
         /\ tag[b] # Gone => Does(ErasedMoveAssign(b, o), cl, tag, <<>>, free, t2, W)
<1>1. PICK t1, W1 : t1 = [tag EXCEPT ![b] = Empty] /\ W1 = [ValuesOf(cl, tag) EXCEPT ![b] = Raw]
  OBVIOUS
<1>2. kind # "either"
  OBVIOUS
<1>3. CASE tag[b] = Gone
  <2>1. PICK p : p = <<SetTag(b, Empty)>>
    OBVIOUS
  <2>2. Does(p, cl, tag, <<>>, free, t1, ValuesOf(cl, tag))
    BY <1>1, <1>2, <1>3, <2>1, NewEmptyDoes
  <2>3. ValuesOf(cl, tag) = W1
    BY <1>1, <1>3 DEF ValuesOf, ValueIn, Names
  <2>4. Does(p \o ErasedMove(b, o), cl, tag, <<>>, free, t2, W)
    BY <1>1, <2>2, <2>3, ErasedTakeDoes
  <2> QED BY <1>3, <2>1, <2>4 DEF ErasedMoveConstruct
<1>4. CASE tag[b] # Gone
  <2>1. PICK p, has : has = Holds(b) /\ p = InplaceDestroy(b, has)
    OBVIOUS
  <2>2. has \in BOOLEAN /\ (has <=> Names(tag[b]))
    BY <2>1 DEF Holds, Names
  <2>3. Does(p, cl, tag, <<>>, free, t1, W1)
    BY <1>1, <1>2, <1>4, <2>1, <2>2, EmptyDoes
  <2>4. Does(p \o ErasedMove(b, o), cl, tag, <<>>, free, t2, W)
    BY <1>1, <2>3, ErasedTakeDoes
  <2> QED BY <1>4, <2>1, <2>4, ErasedClearIs DEF ErasedMoveAssign
<1> QED BY <1>3, <1>4

(* A wrapper's copy constructor. *)
LEMMA ErasedCopyConstructDoes ==
  ASSUME KindFits, kind = "erased", NEW cl, NEW b \in AllBoxes, NEW o \in AllBoxes, NEW may,
         NEW t2, NEW W,
         Tidy(cl, tag), tag[b] = Gone, tag[o] # Gone, Names(tag[o]) /\ Throws(tag[o], "copy") => may,
         t2 = HandTags(tag, b, o), W = HandValues(ValuesOf(cl, tag), b, o, "copy")
  PROVE  Does(ErasedCopyConstruct(b, o), cl, tag, <<>>, may, t2, W)
<1>1. PICK made, body : /\ made = <<Make(First(b), First(o), "copy"), SetTag(b, tag[o])>>
                        /\ body = (IF Names(tag[o]) THEN OrNoBox(b, made) ELSE <<>>)
  OBVIOUS
<1>2. ErasedCopyConstruct(b, o) = <<SetTag(b, Empty)>> \o body
  BY <1>1 DEF ErasedCopyConstruct, Holds, Names
<1>3. kind # "either"
  OBVIOUS
<1> QED BY <1>1, <1>2, <1>3, HandNewDoes

(* A wrapper's copy assignment: a copy into a temporary, and a swap with it. *)
LEMMA ErasedCopyAssignDoes ==
  ASSUME KindFits, kind = "erased", NEW cl, NEW b \in AllBoxes, NEW o \in AllBoxes, NEW may,
         NEW t4, NEW W4,
         Tidy(cl, tag), b # o, b # Temp, o # Temp, tag[Temp] = Gone, tag[b] # Gone, tag[o] # Gone,
         Names(tag[o]) /\ Throws(tag[o], "copy") => may,
         t4 = HandTags(tag, b, o), W4 = HandValues(ValuesOf(cl, tag), b, o, "copy")
  PROVE  Does(ErasedCopyAssign(b, o), cl, tag, <<>>, may, t4, W4)
<1>1. tag \in TagFns /\ Temp \in AllBoxes /\ TagFits(tag[b])
  BY TempApart DEF Tidy
<1>2. PICK v, free : v = ValuesOf(cl, tag) /\ free = FALSE
  OBVIOUS
<1>3. v = [x \in AllBoxes |-> v[x]] /\ v[Temp] = Raw
  BY <1>1, <1>2 DEF ValuesOf, ValueIn, Names
<1>4. PICK t1, t2, t3, W1, W2, W3 :
        /\ t1 = HandTags(tag, Temp, o) /\ W1 = HandValues(v, Temp, o, "copy")
        /\ t2 = [t1 EXCEPT ![b] = t1[Temp], ![Temp] = t1[b]]
        /\ W2 = [W1 EXCEPT ![b] = W1[Temp], ![Temp] = W1[b]]
        /\ t3 = [t2 EXCEPT ![Temp] = Gone] /\ W3 = [W2 EXCEPT ![Temp] = Raw]
  OBVIOUS
<1>5. /\ t1 \in TagFns /\ t1[Temp] = tag[o] /\ t1[b] = tag[b] /\ t2 \in TagFns
      /\ t2[Temp] = tag[b] /\ t2[b] = tag[o] /\ t3 = t4
  BY <1>1, <1>4 DEF TagFns, HandTags
<1>6. W3 = W4
  <2>1. W1 = [x \in AllBoxes |-> W1[x]] /\ W1[Temp] = v[o] /\ \A x \in AllBoxes \ {Temp} : W1[x] = v[x]
    BY <1>1, <1>3, <1>4 DEF HandValues, LeftValue
  <2>2. W4 = [x \in AllBoxes |-> W4[x]] /\ W4[b] = v[o] /\ \A x \in AllBoxes \ {b} : W4[x] = v[x]
    BY <1>1, <1>2, <1>3 DEF HandValues, LeftValue
  <2>3. W3 = [x \in AllBoxes |-> W3[x]] /\ W3[b] = v[o] /\ W3[Temp] = Raw
        /\ \A x \in AllBoxes \ {b, Temp} : W3[x] = v[x]
    BY <1>1, <1>4, <2>1
  <2>4. \A x \in AllBoxes : W3[x] = W4[x]
    BY <1>3, <2>2, <2>3
  <2> QED BY <2>2, <2>3, <2>4
<1>7. PICK s1, s2, s3, s4, tb, to :
         /\ s1 = ErasedCopyConstruct(Temp, o) /\ s2 = ErasedSwap(b, tb, Temp, to)
         /\ s3 = (IF Holds(b) THEN <<Drop(First(Temp))>> ELSE <<>>) /\ s4 = <<SetTag(Temp, Gone)>>
         /\ tb = tag[b] /\ to = tag[o]
  OBVIOUS
<1>8. ErasedCopyAssign(b, o) = ((s1 \o s2) \o s3) \o s4
  BY <1>7 DEF ErasedCopyAssign
<1>9. Does(s1, cl, tag, <<>>, may, t1, W1)
  BY <1>1, <1>2, <1>4, <1>7, ErasedCopyConstructDoes
<1>10. ASSUME NEW c1, Tidy(c1, t1), ValuesOf(c1, t1) = W1
       PROVE  Does(s2, c1, t1, <<>>, free, t2, W2)
  <2>1. tb = t1[b] /\ to = t1[Temp] /\ tb # Gone /\ to # Gone /\ b # Temp
    BY <1>5, <1>7
  <2>2. W2 = [ValuesOf(c1, t1) EXCEPT ![b] = ValuesOf(c1, t1)[Temp], ![Temp] = ValuesOf(c1, t1)[b]]
    BY <1>4, <1>10
  <2>3. Does(ErasedSwap(b, tb, Temp, to), c1, t1, <<>>, free, t2, W2)
    BY ONLY KindFits, kind = "erased", b \in AllBoxes, <1>1, <1>4, <1>10, <2>1, <2>2, ErasedSwapDoes
  <2> QED BY <1>7, <2>3
<1>11. s3 = DropBy(Temp, tb)
  <2>1. CASE Names(tb)
    <3>1. tb \in Alternatives
      BY <1>1, <1>7, <2>1 DEF TagFits, Names
    <3>2. TypeOf(tb) # Void /\ CellOf(Temp, tb) = First(Temp)
      BY <3>1, AlternativeFacts DEF KindFits
    <3> QED BY <1>7, <2>1, <3>2 DEF DropBy, Holds, Names
  <2>2. CASE ~Names(tb)
    BY <1>7, <2>2 DEF DropBy, Holds, Names
  <2> QED BY <2>1, <2>2
<1>12. ASSUME NEW c1, Tidy(c1, t2), ValuesOf(c1, t2) = W2
       PROVE  Does(s3 \o s4, c1, t2, <<>>, free, t3, W3)
  <2>1. PICK gone : gone = Gone
    OBVIOUS
  <2>2. s3 = DropBy(Temp, t2[Temp])
    BY <1>5, <1>7, <1>11
  <2>3. /\ W3 = [ValuesOf(c1, t2) EXCEPT ![Temp] = Raw] /\ t3 = [t2 EXCEPT ![Temp] = gone]
        /\ s4 = <<SetTag(Temp, gone)>>
    BY <1>4, <1>7, <1>12, <2>1
  <2>4. Does(s3 \o <<SetTag(Temp, gone)>>, c1, t2, <<>>, free, t3, W3)
    BY ONLY KindFits, <1>1, <1>12, <2>1, <2>2, <2>3, DestroyDoes
  <2> QED BY <2>3, <2>4
<1>13. IsCalls(s1) /\ IsCalls(s3) /\ IsCalls(s4)
  BY <1>7, <1>9, OneCall, NoCalls DEF Does
<1>14. IsCalls(s2)
  <2>1. \A t, c, d : IsCalls(SafeRelocate(t, c, d))
    BY OneCall, TwoCalls DEF SafeRelocate
  <2>2. ASSUME NEW t, NEW c, NEW d, NEW e, NEW f
        PROVE  IsCalls(SafeRelocate(t, c, d) \o <<e, f>>)
    BY <2>1, TwoCalls, JoinedCalls
  <2>3. ASSUME NEW t, NEW c, NEW d, NEW t9, NEW c9, NEW d9, NEW t8, NEW c8, NEW d8, NEW e, NEW f
        PROVE  IsCalls(((SafeRelocate(t, c, d) \o SafeRelocate(t9, c9, d9))
                         \o SafeRelocate(t8, c8, d8)) \o <<e, f>>)
    BY <2>1, TwoCalls, JoinedCalls
  <2> QED BY <1>7, <2>2, <2>3, NoCalls DEF ErasedSwap
<1>15. PICK p, q : p = s1 \o s2 /\ q = s3 \o s4
  OBVIOUS
<1>16. IsCalls(p) /\ IsCalls(q) /\ (p \o s3) \o s4 = p \o q
  <2>1. IsCalls(p) /\ IsCalls(q)
    BY <1>13, <1>14, <1>15, JoinedCalls
  <2>2. IsCalls(p) /\ IsCalls(s3) /\ IsCalls(s4)
    BY <1>13, <2>1
  <2>3. (p \o s3) \o s4 = p \o (s3 \o s4)
    BY ONLY <2>2, JoinedInTurn
  <2> QED BY <1>15, <2>1, <2>3
<1>17. Does(p, cl, tag, <<>>, may, t2, W2)
  BY ONLY <1>2, <1>9, <1>10, <1>14, <1>15, DoesInTurn
<1>18. ASSUME NEW c1, Tidy(c1, t2), ValuesOf(c1, t2) = W2
       PROVE  Does(q, c1, t2, <<>>, free, t3, W3)
  BY <1>12, <1>15, <1>18
<1>19. Does(p \o q, cl, tag, <<>>, may, t3, W3)
  <2>1. IsCalls(q) /\ free = FALSE
    BY <1>2, <1>16
  <2> QED BY ONLY <1>17, <1>18, <2>1, DoesInTurn
<1> QED BY <1>5, <1>6, <1>8, <1>15, <1>16, <1>19

-----------------------------------------------------------------------------
(* swap of either_t *)

(* A function with its values at x and y exchanged, or with another value at b *)
Swapping(f, x, y) == [f EXCEPT ![x] = f[y], ![y] = f[x]]
With(f, b, z) == [f EXCEPT ![b] = z]

(* Cell p now has the object that q had, if there was one. *)
Mirrors(c2, cl, p, q) == IF LiveIn(cl, q) THEN c2[p] = cl[q] ELSE ~LiveIn(c2, p)
MirrorsBox(c2, cl, x, y) ==
  Mirrors(c2, cl, First(x), First(y)) /\ Mirrors(c2, cl, Second(x), Second(y))

Mirrored(c2, cl, x, y) ==
  /\ c2 \in CellFns /\ Clear(c2, {}) /\ MirrorsBox(c2, cl, x, y) /\ MirrorsBox(c2, cl, y, x)
  /\ Same(c2, cl, {First(x), Second(x), First(y), Second(y)} \cup Locals)

(* A box of either_t with the objects another had fits the other's tag, with its value. *)
LEMMA MirrorFits ==
  ASSUME KindFits, NEW cl, NEW tg, NEW c2 \in CellFns, NEW t2, NEW x \in AllBoxes, NEW y \in AllBoxes,
         NEW t, Tidy(cl, tg), t = tg[y], t2[x] = t, MirrorsBox(c2, cl, x, y)
  PROVE  TagFits(t2[x]) /\ BoxFits(c2, t2, x) /\ ValueIn(c2, t2, x) = ValueIn(cl, tg, y)
<1>1. TagFits(t) /\ BoxFits(cl, tg, y) /\ cl \in CellFns
  BY DEF Tidy
<1>2. /\ LiveIn(c2, First(x)) <=> LiveIn(cl, First(y))
      /\ LiveIn(cl, First(y)) => c2[First(x)] = cl[First(y)]
      /\ LiveIn(c2, Second(x)) <=> LiveIn(cl, Second(y))
      /\ LiveIn(cl, Second(y)) => c2[Second(x)] = cl[Second(y)]
  BY DEF MirrorsBox, Mirrors, LiveIn
<1>3. CASE Names(t) /\ TypeOf(t) # Void
  <2>1. t \in Alternatives
    BY <1>1, <1>3 DEF TagFits, Names
  <2>2. \/ /\ CellOf(x, t) = First(x) /\ CellOf(y, t) = First(y)
           /\ Sides(x, First(x), Second(x)) /\ Sides(y, First(y), Second(y))
        \/ /\ CellOf(x, t) = Second(x) /\ CellOf(y, t) = Second(y)
           /\ Sides(x, Second(x), First(x)) /\ Sides(y, Second(y), First(y))
    BY <2>1, BoxCells DEF CellOf, Sides
  <2>3. PICK c, d, e, f : /\ c = CellOf(x, t) /\ Sides(x, c, d) /\ e = CellOf(y, t) /\ Sides(y, e, f)
                          /\ (LiveIn(c2, c) <=> LiveIn(cl, e)) /\ (LiveIn(cl, e) => c2[c] = cl[e])
                          /\ (LiveIn(c2, d) <=> LiveIn(cl, f))
    <3>1. CASE CellOf(x, t) = First(x) /\ CellOf(y, t) = First(y)
                /\ Sides(x, First(x), Second(x)) /\ Sides(y, First(y), Second(y))
      BY <1>2, <3>1
    <3>2. CASE CellOf(x, t) = Second(x) /\ CellOf(y, t) = Second(y)
                /\ Sides(x, Second(x), First(x)) /\ Sides(y, Second(y), First(y))
      BY <1>2, <3>2
    <3> QED BY <2>2, <3>1, <3>2
  <2>4. LiveIn(cl, e) /\ cl[e].ty = TypeOf(t) /\ ~LiveIn(cl, f)
    BY <1>1, <1>3, <2>3, FullFits
  <2>5. LiveIn(c2, c) /\ c2[c].ty = TypeOf(t) /\ ~LiveIn(c2, d) /\ c2[c] = cl[e]
    BY <2>3, <2>4
  <2>6. BoxFits(c2, t2, x)
    BY <1>3, <2>3, <2>5, FullFits
  <2>7. ValueIn(c2, t2, x) = ValOf(c2[c]) /\ ValueIn(cl, tg, y) = ValOf(cl[e])
    BY <1>3, <2>3, ValueWhere
  <2> QED BY <1>1, <2>5, <2>6, <2>7
<1>4. CASE ~(Names(t) /\ TypeOf(t) # Void)
  <2>1. Bare(cl, y)
    BY <1>1, <1>4, BareFits
  <2>2. Bare(c2, x)
    BY <1>2, <2>1 DEF Bare
  <2>3. BoxFits(c2, t2, x)
    BY <1>4, <2>2, BareFits
  <2>4. \A c \in {First(x), Second(x)} : ValOf(c2[c]) = Raw
    BY <2>2, BoxCells, LiveIsObject DEF Bare, ValOf
  <2>5. \A c \in {First(y), Second(y)} : ValOf(cl[c]) = Raw
    BY <1>1, <2>1, BoxCells, LiveIsObject DEF Bare, ValOf
  <2>6. ValueIn(c2, t2, x) = Raw /\ ValueIn(cl, tg, y) = Raw
    BY <2>4, <2>5 DEF ValueIn, CellOf
  <2> QED BY <1>1, <2>3, <2>6
<1> QED BY <1>3, <1>4

(* Two boxes of either_t that exchanged their objects are tidy with their tags
   exchanged. *)
LEMMA MirrorTidy ==
  ASSUME KindFits, NEW cl, NEW tg, NEW c2, NEW x \in AllBoxes, NEW y \in AllBoxes,
         NEW t2, NEW W, Tidy(cl, tg), x # y, Mirrored(c2, cl, x, y),
         t2 = [tg EXCEPT ![x] = tg[y], ![y] = tg[x]],
         W = [ValuesOf(cl, tg) EXCEPT ![x] = ValuesOf(cl, tg)[y], ![y] = ValuesOf(cl, tg)[x]]
  PROVE  Tidy(c2, t2) /\ ValuesOf(c2, t2) = W
<1>1. /\ tg \in TagFns /\ t2 \in TagFns /\ c2 \in CellFns /\ Clear(c2, {})
      /\ t2[x] = tg[y] /\ t2[y] = tg[x] /\ \A b \in AllBoxes \ {x, y} : t2[b] = tg[b]
  BY DEF Tidy, TagFns, Mirrored
<1>2. \A b \in AllBoxes \ {x, y} :
         /\ c2[First(b)] = cl[First(b)] /\ c2[Second(b)] = cl[Second(b)]
  BY BoxCells, BoxesApart DEF Mirrored, Same
<1>3. MirrorsBox(c2, cl, x, y) /\ MirrorsBox(c2, cl, y, x)
  BY DEF Mirrored
<1>4. TagFits(t2[x]) /\ BoxFits(c2, t2, x) /\ ValueIn(c2, t2, x) = ValueIn(cl, tg, y)
  BY ONLY KindFits, Tidy(cl, tg), x \in AllBoxes, y \in AllBoxes, <1>1, <1>3, MirrorFits
<1>5. TagFits(t2[y]) /\ BoxFits(c2, t2, y) /\ ValueIn(c2, t2, y) = ValueIn(cl, tg, x)
  BY ONLY KindFits, Tidy(cl, tg), x \in AllBoxes, y \in AllBoxes, <1>1, <1>3, MirrorFits
<1>6. /\ W = [b \in AllBoxes |-> W[b]] /\ W[x] = ValueIn(cl, tg, y) /\ W[y] = ValueIn(cl, tg, x)
      /\ \A b \in AllBoxes \ {x, y} : W[b] = ValueIn(cl, tg, b)
  BY DEF ValuesOf
<1>7. PICK S : S = {x, y}
  OBVIOUS
<1>8. /\ \A b \in AllBoxes \ S : SameBox(c2, t2, cl, tg, b) /\ W[b] = ValueIn(cl, tg, b)
      /\ \A b \in AllBoxes \cap S : TagFits(t2[b]) /\ BoxFits(c2, t2, b) /\ W[b] = ValueIn(c2, t2, b)
  BY <1>1, <1>2, <1>4, <1>5, <1>6, <1>7 DEF SameBox
<1> HIDE <1>7
<1> QED BY ONLY KindFits, Tidy(cl, tg), <1>1, <1>6, <1>8, TidyAfter

(* The objects change places through a local. *)
LEMMA SwapMixedFine ==
  ASSUME KindFits, kind = "either", NEW cl, NEW tg, NEW un, NEW th, NEW P, NEW rest,
         NEW x \in AllBoxes, NEW y \in AllBoxes, NEW bt, NEW bu, NEW t2,
         Tidy(cl, tg), x # y, tg[x] = "first", tg[y] = "second", IsCalls(rest),
         T # Void, NothrowOf(T, bt), NothrowOf(U, bu), t2 = [tg EXCEPT ![x] = tg[y], ![y] = tg[x]],
         \A c2 : Mirrored(c2, cl, x, y) => Fine(c2, t2, rest, un, th, P)
  PROVE  Fine(cl, tg,
              Then(Make(Tmp, First(x), bt), Then(Drop(First(x)),
              Then(Make(Second(x), Second(y), bu), Then(SetTag(x, "second"), Then(Drop(Second(y)),
              Then(Make(First(y), Tmp, bt), Then(SetTag(y, "first"), Then(Drop(Tmp), rest)))))))), un, th, P)
<1>1. PICK fx, sx, fy, sy : fx = First(x) /\ sx = Second(x) /\ fy = First(y) /\ sy = Second(y)
  OBVIOUS
<1>2. /\ fx \in Cells /\ sx \in Cells /\ fy \in Cells /\ sy \in Cells
      /\ fx # sx /\ fx # fy /\ fx # sy /\ sx # fy /\ sx # sy /\ fy # sy
      /\ fx \notin Locals /\ fy \notin Locals /\ sx \notin Locals /\ sy \notin Locals
      /\ Tmp \in Cells /\ Tmp \in Locals /\ Tmp # fx /\ Tmp # fy /\ Tmp # sx /\ Tmp # sy
  BY <1>1, BoxCells, BoxesApart, LocalCells
<1>3. /\ cl \in CellFns /\ tg \in TagFns /\ ~LiveIn(cl, Tmp) /\ Clear(cl, {})
      /\ TypeOf("first") = T /\ TypeOf("second") = U /\ U # Void
      /\ Names("first") /\ Names("second") /\ BoxFits(cl, tg, x) /\ BoxFits(cl, tg, y)
  BY LocalCells, CellAssumption, BoxAssumption DEF Tidy, Clear, TypeOf, Names, KindFits
<1>4. LiveIn(cl, fx) /\ cl[fx].ty = T /\ ~LiveIn(cl, sx)
  BY <1>1, <1>2, <1>3 DEF BoxFits, Keeps, CellOf
<1>5. LiveIn(cl, sy) /\ cl[sy].ty = U /\ ~LiveIn(cl, fy)
  BY <1>1, <1>2, <1>3 DEF BoxFits, Keeps, CellOf
<1>6. PICK a \in Objects, b \in Objects : a = cl[fx] /\ b = cl[sy]
  BY <1>2, <1>3, <1>4, <1>5, LiveIsObject
<1>7. /\ a # Raw /\ a # Null /\ b # Raw /\ b # Null /\ Left(a, bt) \in Objects /\ Left(b, bu) \in Objects
      /\ a.ty = T /\ b.ty = U
  BY <1>4, <1>5, <1>6, ObjectParts
<1>8. Left(a, bt) # Raw /\ Left(b, bu) # Raw
  BY <1>7, ObjectParts
<1>9. PICK r1, r2, r3, r4, r5, r6, r7 :
        /\ r7 = Then(Drop(Tmp), rest) /\ r6 = Then(SetTag(y, "first"), r7)
        /\ r5 = Then(Make(fy, Tmp, bt), r6) /\ r4 = Then(Drop(sy), r5)
        /\ r3 = Then(SetTag(x, "second"), r4) /\ r2 = Then(Make(sx, sy, bu), r3)
        /\ r1 = Then(Drop(fx), r2)
  OBVIOUS
<1>10. /\ IsCalls(r1) /\ IsCalls(r2) /\ IsCalls(r3) /\ IsCalls(r4) /\ IsCalls(r5) /\ IsCalls(r6)
       /\ IsCalls(r7)
  BY <1>9, ThenFacts
<1>11. SUFFICES Fine(cl, tg, Then(Make(Tmp, fx, bt), r1), un, th, P)
  BY <1>1, <1>9
<1>12. SUFFICES ASSUME NEW c1, Made(c1, cl, Tmp, fx, bt)
                PROVE  Fine(c1, tg, r1, un, th, P)
  BY <1>2, <1>3, <1>4, <1>10, MakeCall
<1>13. /\ c1 \in CellFns /\ c1[Tmp] = a /\ c1[fx] # Raw /\ c1[sy] = b /\ c1[sx] = cl[sx]
       /\ c1[fy] = cl[fy] /\ Same(c1, cl, {Tmp, fx})
  BY <1>2, <1>6, <1>8, <1>12 DEF Made, Same
<1>14. SUFFICES ASSUME NEW c2, Dropped(c2, c1, fx)
                PROVE  Fine(c2, tg, r2, un, th, P)
  BY <1>2, <1>9, <1>10, <1>13, DropCall
<1>15. /\ c2 \in CellFns /\ c2[Tmp] = a /\ c2[fx] = Raw /\ c2[sy] = b /\ ~LiveIn(c2, sx)
       /\ c2[fy] = cl[fy] /\ Same(c2, cl, {Tmp, fx}) /\ LiveIn(c2, sy) /\ c2[sy].ty = U
  BY <1>2, <1>4, <1>5, <1>7, <1>13, <1>14 DEF Dropped, Same, LiveIn
<1>16. SUFFICES ASSUME NEW c3, Made(c3, c2, sx, sy, bu)
                PROVE  Fine(c3, tg, r3, un, th, P)
  BY <1>2, <1>9, <1>10, <1>15, MakeCall
<1>17. /\ c3 \in CellFns /\ c3[Tmp] = a /\ c3[fx] = Raw /\ c3[sx] = b /\ c3[sy] # Raw
       /\ ~LiveIn(c3, fy) /\ Same(c3, cl, {Tmp, fx, sx, sy})
  BY <1>2, <1>5, <1>8, <1>15, <1>16 DEF Made, Same, LiveIn
<1>18. PICK t1 : t1 = [tg EXCEPT ![x] = "second"]
  OBVIOUS
<1>19. SUFFICES Fine(c3, t1, r4, un, th, P)
  BY <1>9, <1>10, <1>18, TagCall
<1>20. SUFFICES ASSUME NEW c4, Dropped(c4, c3, sy)
                PROVE  Fine(c4, t1, r5, un, th, P)
  BY <1>2, <1>9, <1>10, <1>17, DropCall
<1>21. /\ c4 \in CellFns /\ c4[Tmp] = a /\ c4[fx] = Raw /\ c4[sx] = b /\ c4[sy] = Raw
       /\ ~LiveIn(c4, fy) /\ Same(c4, cl, {Tmp, fx, sx, sy}) /\ LiveIn(c4, Tmp) /\ c4[Tmp].ty = T
  BY <1>2, <1>7, <1>17, <1>20 DEF Dropped, Same, LiveIn
<1>22. SUFFICES ASSUME NEW c5, Made(c5, c4, fy, Tmp, bt)
                PROVE  Fine(c5, t1, r6, un, th, P)
  BY <1>2, <1>9, <1>10, <1>21, MakeCall
<1>23. /\ c5 \in CellFns /\ c5[fy] = a /\ c5[Tmp] # Raw /\ c5[fx] = Raw /\ c5[sx] = b /\ c5[sy] = Raw
       /\ Same(c5, cl, {Tmp, fx, sx, sy, fy})
  BY <1>2, <1>8, <1>21, <1>22 DEF Made, Same
<1>24. t2 = [t1 EXCEPT ![y] = "first"]
  BY <1>3, <1>18 DEF TagFns
<1>25. SUFFICES Fine(c5, t2, r7, un, th, P)
  BY <1>9, <1>10, <1>24, TagCall
<1>26. SUFFICES ASSUME NEW c6, Dropped(c6, c5, Tmp)
                PROVE  Fine(c6, t2, rest, un, th, P)
  BY <1>2, <1>9, <1>10, <1>23, DropCall
<1>27. /\ c6 \in CellFns /\ c6[fy] = a /\ c6[fx] = Raw /\ c6[sx] = b /\ c6[sy] = Raw /\ c6[Tmp] = Raw
       /\ Same(c6, cl, {Tmp, fx, sx, sy, fy})
  BY <1>2, <1>23, <1>26 DEF Dropped, Same
<1>28. Clear(c6, {}) /\ Same(c6, cl, {fx, sx, fy, sy} \cup Locals)
  BY <1>2, <1>3, <1>27, LocalCells DEF Clear, Same, LiveIn
<1>29. Mirrored(c6, cl, x, y)
  BY <1>1, <1>4, <1>5, <1>6, <1>27, <1>28 DEF Mirrored, MirrorsBox, Mirrors, LiveIn
<1> QED BY <1>29

(* A list of the parts of EitherSwapMixed *)
FiveParts(p, q, r, s, u) == (((p \o q) \o r) \o s) \o u

OutFirst(x) == <<Make(Tmp, First(x), Transfer(T)), Drop(First(x))>>
Across(x, y) == <<Make(Second(x), Second(y), Transfer(U)), SetTag(x, "second"), Drop(Second(y))>>
IntoFirst(y) == <<Make(First(y), Tmp, Transfer(T))>>
TagFirst(y) == <<SetTag(y, "first")>>
TmpGone == <<Drop(Tmp)>>

(* The swap of two alternatives, in the parts it is made of. *)
LEMMA MixedIs ==
  ASSUME KindFits, kind = "either", NEW x, NEW y
  PROVE  /\ T # Void => EitherSwapMixed(x, y) =
                          FiveParts(OutFirst(x), Across(x, y), IntoFirst(y), TagFirst(y), TmpGone)
         /\ T = Void => EitherSwapMixed(x, y) = Across(x, y) \o TagFirst(y)
<1>1. TypeOf("first") = T
  BY DEF TypeOf
<1>2. CASE T # Void
  BY <1>1, <1>2, Zenon
     DEF EitherSwapMixed, FiveParts, OfObject, OutFirst, Across, IntoFirst, TagFirst, TmpGone
<1>3. CASE T = Void
  <2>1. PICK q, s : q = Across(x, y) /\ s = TagFirst(y)
    OBVIOUS
  <2>2. EitherSwapMixed(x, y) = FiveParts(<<>>, q, <<>>, s, <<>>)
    BY <1>1, <1>3, <2>1, Zenon DEF EitherSwapMixed, FiveParts, OfObject, Across, TagFirst
  <2>3. IsCalls(q) /\ IsCalls(s)
    BY <2>1, ThreeCalls, OneCall DEF Across, TagFirst
  <2>4. PICK v : v = q \o s
    OBVIOUS
  <2>5. IsCalls(v)
    BY <2>3, <2>4, JoinedCalls
  <2>6. <<>> \o q = q /\ q \o <<>> = q /\ v \o <<>> = v
    BY ONLY <2>3, <2>5, NothingJoined
  <2>7. FiveParts(<<>>, q, <<>>, s, <<>>) = v
    BY <2>4, <2>6, Zenon DEF FiveParts
  <2> QED BY <1>3, <2>1, <2>2, <2>4, <2>7
<1> QED BY <1>2, <1>3

(* Without an object in the first place, only the second one moves. *)
LEMMA SwapVoidFine ==
  ASSUME KindFits, kind = "either", NEW cl, NEW tg, NEW un, NEW th, NEW P, NEW rest,
         NEW x \in AllBoxes, NEW y \in AllBoxes, NEW bu, NEW t2,
         Tidy(cl, tg), x # y, tg[x] = "first", tg[y] = "second", IsCalls(rest),
         T = Void, NothrowOf(U, bu), t2 = [tg EXCEPT ![x] = tg[y], ![y] = tg[x]],
         \A c2 : Mirrored(c2, cl, x, y) => Fine(c2, t2, rest, un, th, P)
  PROVE  Fine(cl, tg,
              Then(Make(Second(x), Second(y), bu), Then(SetTag(x, "second"), Then(Drop(Second(y)),
              Then(SetTag(y, "first"), rest)))), un, th, P)
<1>1. PICK fx, sx, fy, sy : fx = First(x) /\ sx = Second(x) /\ fy = First(y) /\ sy = Second(y)
  OBVIOUS
<1>2. /\ fx \in Cells /\ sx \in Cells /\ fy \in Cells /\ sy \in Cells
      /\ fx # sx /\ fx # fy /\ fx # sy /\ sx # fy /\ sx # sy /\ fy # sy
      /\ fx \notin Locals /\ fy \notin Locals /\ sx \notin Locals /\ sy \notin Locals
  BY <1>1, BoxCells, BoxesApart, LocalCells
<1>3. /\ cl \in CellFns /\ tg \in TagFns /\ Clear(cl, {})
      /\ TypeOf("first") = T /\ TypeOf("second") = U /\ U # Void
      /\ Names("first") /\ Names("second") /\ BoxFits(cl, tg, x) /\ BoxFits(cl, tg, y)
  BY LocalCells, CellAssumption, BoxAssumption DEF Tidy, Clear, TypeOf, Names, KindFits
<1>4. ~LiveIn(cl, fx) /\ ~LiveIn(cl, sx)
  BY <1>1, <1>2, <1>3 DEF BoxFits, Keeps, CellOf
<1>5. LiveIn(cl, sy) /\ cl[sy].ty = U /\ ~LiveIn(cl, fy)
  BY <1>1, <1>2, <1>3 DEF BoxFits, Keeps, CellOf
<1>6. PICK b \in Objects : b = cl[sy] /\ b # Raw /\ b # Null
  BY <1>2, <1>3, <1>5, LiveIsObject DEF LiveIn
<1>7. Left(b, bu) # Raw
  BY ObjectParts
<1>8. PICK r1, r2, r3 :
        /\ r3 = Then(SetTag(y, "first"), rest) /\ r2 = Then(Drop(sy), r3)
        /\ r1 = Then(SetTag(x, "second"), r2)
  OBVIOUS
<1>9. IsCalls(r1) /\ IsCalls(r2) /\ IsCalls(r3)
  BY <1>8, ThenFacts
<1>10. SUFFICES Fine(cl, tg, Then(Make(sx, sy, bu), r1), un, th, P)
  BY <1>1, <1>8
<1>11. SUFFICES ASSUME NEW c1, Made(c1, cl, sx, sy, bu)
                PROVE  Fine(c1, tg, r1, un, th, P)
  BY <1>2, <1>3, <1>4, <1>5, <1>9, MakeCall
<1>12. /\ c1 \in CellFns /\ c1[sx] = b /\ c1[sy] # Raw /\ Same(c1, cl, {sx, sy})
  BY <1>2, <1>6, <1>7, <1>11 DEF Made, Same
<1>13. PICK t1 : t1 = [tg EXCEPT ![x] = "second"]
  OBVIOUS
<1>14. SUFFICES Fine(c1, t1, r2, un, th, P)
  BY <1>8, <1>9, <1>13, TagCall
<1>15. SUFFICES ASSUME NEW c2, Dropped(c2, c1, sy)
                PROVE  Fine(c2, t1, r3, un, th, P)
  BY <1>2, <1>8, <1>9, <1>12, DropCall
<1>16. /\ c2 \in CellFns /\ c2[sx] = b /\ c2[sy] = Raw /\ Same(c2, cl, {sx, sy})
  BY <1>2, <1>12, <1>15 DEF Dropped, Same
<1>17. t2 = [t1 EXCEPT ![y] = "first"]
  BY <1>3, <1>13 DEF TagFns
<1>18. SUFFICES Fine(c2, t2, rest, un, th, P)
  BY <1>8, <1>9, <1>17, TagCall
<1>19. c2[fx] = cl[fx] /\ c2[fy] = cl[fy]
  BY <1>2, <1>16 DEF Same
<1>20. Clear(c2, {}) /\ Same(c2, cl, {fx, sx, fy, sy} \cup Locals)
  BY <1>2, <1>3, <1>16, LocalCells DEF Clear, Same, LiveIn
<1>21. Mirrored(c2, cl, x, y)
  BY <1>1, <1>4, <1>5, <1>6, <1>16, <1>19, <1>20 DEF Mirrored, MirrorsBox, Mirrors, LiveIn
<1> QED BY <1>21

(* either_t's swap of a first and a second object. *)
LEMMA SwapMixedDoes ==
  ASSUME KindFits, kind = "either", T # Void => CanStrongConstruct(T), NEW cl, NEW tg, NEW un, NEW free,
         NEW x \in AllBoxes, NEW y \in AllBoxes, NEW W,
         Tidy(cl, tg), x # y, tg[x] = "first", tg[y] = "second",
         \A c2 : Mirrored(c2, cl, x, y) => Tidy(c2, Swapping(tg, x, y)) /\ ValuesOf(c2, Swapping(tg, x, y)) = W
  PROVE  Does(EitherSwapMixed(x, y), cl, tg, un, free, Swapping(tg, x, y), W)
<1>1. PICK t2 : t2 = Swapping(tg, x, y)
  OBVIOUS
<1>2. /\ t2 = [tg EXCEPT ![x] = tg[y], ![y] = tg[x]]
      /\ \A c2 : Mirrored(c2, cl, x, y) => Tidy(c2, t2) /\ ValuesOf(c2, t2) = W
  BY <1>1 DEF Swapping
<1>3. PICK bt, bu : bt = Transfer(T) /\ bu = Transfer(U)
  OBVIOUS
<1>4. NothrowOf(U, bu) /\ (T # Void => NothrowOf(T, bt))
  BY <1>3, BoxAssumption DEF Transfer, NothrowOf, CanStrongConstruct, KindFits
<1>5. PICK a1, a2, a3, a4, a5, a6, a7, a8 :
        /\ a1 = Make(Tmp, First(x), bt) /\ a2 = Drop(First(x))
        /\ a3 = Make(Second(x), Second(y), bu) /\ a4 = SetTag(x, "second") /\ a5 = Drop(Second(y))
        /\ a6 = Make(First(y), Tmp, bt) /\ a7 = SetTag(y, "first") /\ a8 = Drop(Tmp)
  OBVIOUS
<1>6. PICK p, q, r, s, u : /\ p = OutFirst(x) /\ q = Across(x, y) /\ r = IntoFirst(y)
                           /\ s = TagFirst(y) /\ u = TmpGone
  OBVIOUS
<1>7. /\ T # Void => EitherSwapMixed(x, y) = FiveParts(p, q, r, s, u)
      /\ T = Void => EitherSwapMixed(x, y) = q \o s
  BY <1>6, MixedIs
<1>8. /\ IsCalls(p) /\ \A rest : IsCalls(rest) => p \o rest = Then(a1, Then(a2, rest))
      /\ IsCalls(q) /\ \A rest : IsCalls(rest) => q \o rest = Then(a3, Then(a4, Then(a5, rest)))
  <2>1. p = <<a1, a2>> /\ q = <<a3, a4, a5>>
    BY <1>3, <1>5, <1>6 DEF OutFirst, Across
  <2>2. IsCalls(<<a1, a2>>) /\ \A rest : IsCalls(rest) => <<a1, a2>> \o rest = Then(a1, Then(a2, rest))
    BY ONLY TwoCalls
  <2>3. /\ IsCalls(<<a3, a4, a5>>)
        /\ \A rest : IsCalls(rest) => <<a3, a4, a5>> \o rest = Then(a3, Then(a4, Then(a5, rest)))
    BY ONLY ThreeCalls
  <2> QED BY <2>1, <2>2, <2>3, Zenon
<1>9. /\ IsCalls(r) /\ \A rest : r \o rest = Then(a6, rest)
      /\ IsCalls(s) /\ \A rest : s \o rest = Then(a7, rest)
      /\ IsCalls(u) /\ \A rest : u \o rest = Then(a8, rest)
  <2>1. r = <<a6>> /\ s = <<a7>> /\ u = <<a8>>
    BY <1>3, <1>5, <1>6 DEF IntoFirst, TagFirst, TmpGone
  <2> QED BY <2>1, OneCall
<1>10. CASE T # Void
  <2>1. PICK body : body = FiveParts(p, q, r, s, u)
    OBVIOUS
  <2>2. IsCalls(body) /\ \A rest : IsCalls(rest) => body \o rest = p \o (q \o (r \o (s \o (u \o rest))))
    <3>1. IsCalls(p) /\ IsCalls(q) /\ IsCalls(r) /\ IsCalls(s) /\ IsCalls(u)
      BY <1>8, <1>9
    <3>2. /\ IsCalls(((p \o q) \o r) \o s)
          /\ \A rest : IsCalls(rest) => (((p \o q) \o r) \o s) \o rest = p \o (q \o (r \o (s \o rest)))
      <4>1. FourInTurn(p, q, r, s)
        BY ONLY <3>1, FourJoined
      <4> QED BY ONLY <4>1 DEF FourInTurn
    <3>3. PICK v : v = ((p \o q) \o r) \o s
      OBVIOUS
    <3>4. IsCalls(v) /\ \A rest : IsCalls(rest) => v \o rest = p \o (q \o (r \o (s \o rest)))
      BY ONLY <3>2, <3>3
    <3>5. IsCalls(v \o u) /\ \A rest : IsCalls(rest) => (v \o u) \o rest = v \o (u \o rest) /\ IsCalls(u \o rest)
      BY ONLY <3>1, <3>4, TwoJoined
    <3>6. body = v \o u
      BY <2>1, <3>3 DEF FiveParts
    <3> QED BY ONLY <3>4, <3>5, <3>6
  <2>3. ASSUME NEW rest, NEW th, NEW P, IsCalls(rest),
               \A c2 : Tidy(c2, t2) /\ ValuesOf(c2, t2) = W => Fine(c2, t2, rest, un, th, P)
        PROVE  Fine(cl, tg, body \o rest, un, th, P)
    <3>1. PICK r1, r2, r3 : r1 = Then(a8, rest) /\ r2 = Then(a7, r1) /\ r3 = Then(a6, r2)
      OBVIOUS
    <3>2. IsCalls(r1) /\ IsCalls(r2) /\ IsCalls(r3)
      BY <2>3, <3>1, ThenFacts
    <3>3. PICK r4 : r4 = Then(a3, Then(a4, Then(a5, r3)))
      OBVIOUS
    <3>4. IsCalls(r4)
      BY <3>2, <3>3, ThenFacts
    <3>5. body \o rest = Then(a1, Then(a2, r4))
      <4>1. body \o rest = p \o (q \o (r \o (s \o (u \o rest))))
        BY <2>2, <2>3
      <4>2. u \o rest = r1 /\ s \o r1 = r2 /\ r \o r2 = r3
        BY <1>9, <3>1
      <4>3. q \o r3 = r4 /\ p \o r4 = Then(a1, Then(a2, r4))
        BY <1>8, <3>2, <3>3, <3>4
      <4> QED BY ONLY <4>1, <4>2, <4>3
    <3>6. \A c2 : Mirrored(c2, cl, x, y) => Fine(c2, t2, rest, un, th, P)
      BY <1>2, <2>3
    <3>7. Fine(cl, tg, Then(a1, Then(a2, Then(a3, Then(a4, Then(a5, Then(a6, Then(a7, Then(a8, rest)))))))), un, th, P)
      BY <1>4, <1>5, <1>10, <1>2, <2>3, <3>6, SwapMixedFine
    <3> QED BY ONLY <3>1, <3>3, <3>5, <3>7
  <2> QED BY <1>7, <1>10, <1>1, <2>1, <2>2, <2>3 DEF Does
<1>11. CASE T = Void
  <2>1. PICK body : body = q \o s
    OBVIOUS
  <2>2. IsCalls(body) /\ \A rest : IsCalls(rest) => body \o rest = q \o (s \o rest)
    <3>1. IsCalls(q) /\ IsCalls(s)
      BY <1>8, <1>9
    <3> QED BY ONLY <2>1, <3>1, TwoJoined
  <2>3. ASSUME NEW rest, NEW th, NEW P, IsCalls(rest),
               \A c2 : Tidy(c2, t2) /\ ValuesOf(c2, t2) = W => Fine(c2, t2, rest, un, th, P)
        PROVE  Fine(cl, tg, body \o rest, un, th, P)
    <3>1. PICK r1 : r1 = Then(a7, rest)
      OBVIOUS
    <3>2. IsCalls(r1)
      BY <2>3, <3>1, ThenFacts
    <3>3. body \o rest = Then(a3, Then(a4, Then(a5, r1)))
      <4>1. body \o rest = q \o (s \o rest)
        BY <2>2, <2>3
      <4>2. s \o rest = r1
        BY <1>9, <2>3, <3>1
      <4>3. q \o r1 = Then(a3, Then(a4, Then(a5, r1)))
        BY <1>8, <3>2
      <4> QED BY ONLY <4>1, <4>2, <4>3
    <3>4. \A c2 : Mirrored(c2, cl, x, y) => Fine(c2, t2, rest, un, th, P)
      BY <1>2, <2>3
    <3> QED BY <1>4, <1>5, <1>11, <1>2, <2>3, <3>1, <3>3, <3>4, SwapVoidFine
  <2> QED BY <1>7, <1>11, <1>1, <2>1, <2>2, <2>3 DEF Does
<1> QED BY <1>10, <1>11

(* An exchange of objects is one both ways. *)
LEMMA MirrorBoth ==
  ASSUME NEW c2, NEW cl, NEW x, NEW y
  PROVE  Mirrored(c2, cl, x, y) <=> Mirrored(c2, cl, y, x)
<1>1. {First(x), Second(x), First(y), Second(y)} = {First(y), Second(y), First(x), Second(x)}
  OBVIOUS
<1> QED BY <1>1, Zenon DEF Mirrored

(* either_t's swap. *)
LEMMA EitherSwapDoes ==
  ASSUME KindFits, kind = "either", T # Void => CanStrongConstruct(T), NEW cl, NEW un, NEW free,
         NEW x \in AllBoxes, NEW y \in AllBoxes, NEW t2, NEW W,
         Tidy(cl, tag), x # y, tag[x] # Gone, tag[y] # Gone,
         t2 = [tag EXCEPT ![x] = tag[y], ![y] = tag[x]],
         W = [ValuesOf(cl, tag) EXCEPT ![x] = ValuesOf(cl, tag)[y], ![y] = ValuesOf(cl, tag)[x]]
  PROVE  Does(EitherSwap(x, y), cl, tag, un, free, t2, W)
<1>1. /\ tag[x] \in {"first", "second"} /\ tag[y] \in {"first", "second"} /\ cl \in CellFns /\ tag \in TagFns
      /\ BoxFits(cl, tag, x) /\ BoxFits(cl, tag, y) /\ Clear(cl, {})
  BY DEF Tidy, TagFits, Alternatives
<1>2. ASSUME NEW c2, Mirrored(c2, cl, x, y)
      PROVE  Tidy(c2, t2) /\ ValuesOf(c2, t2) = W
  BY <1>2, MirrorTidy
<1>3. CASE tag[x] = tag[y]
  <2>1. t2 = tag
    BY <1>1, <1>3 DEF TagFns
  <2>2. PICK alt : alt = tag[x] /\ alt = tag[y] /\ alt \in Alternatives /\ Names(alt)
    BY <1>1, <1>3, AlternativeFacts DEF Alternatives
  <2>3. PICK c, d : c = CellOf(x, alt) /\ d = CellOf(y, alt)
    OBVIOUS
  <2>4. EitherSwap(x, y) = OfObject(alt, <<Swap(c, d)>>)
    BY <1>3, <2>2, <2>3 DEF EitherSwap, Held
  <2>5. CASE TypeOf(alt) = Void
    <3>1. Bare(cl, x) /\ Bare(cl, y)
      BY <1>1, <2>2, <2>5, BareFits
    <3>2. Mirrored(cl, cl, x, y)
      BY <1>1, <3>1 DEF Bare, Mirrored, MirrorsBox, Mirrors, Same
    <3>3. EitherSwap(x, y) = <<>>
      BY <2>4, <2>5 DEF OfObject
    <3>4. ValuesOf(cl, tag) = W
      BY <1>2, <2>1, <3>2
    <3>5. Does(<<>>, cl, tag, un, free, tag, ValuesOf(cl, tag))
      BY ONLY Tidy(cl, tag), DoesNothing
    <3> QED BY ONLY <2>1, <3>3, <3>4, <3>5, Zenon
  <2>6. CASE TypeOf(alt) # Void
    <3>1. PICK e, f : /\ \/ c = First(x) /\ e = Second(x) /\ d = First(y) /\ f = Second(y)
                         \/ c = Second(x) /\ e = First(x) /\ d = Second(y) /\ f = First(y)
                      /\ Sides(x, c, e) /\ Sides(y, d, f)
      BY <2>3, BoxCells DEF CellOf, Sides
    <3>2. /\ c \in Cells /\ d \in Cells /\ e \in Cells /\ f \in Cells /\ c # d /\ c # f /\ e # d
          /\ c # e /\ d # f /\ c \notin Locals /\ d \notin Locals
      BY <3>1, BoxCells, BoxesApart
    <3>3. LiveIn(cl, c) /\ ~LiveIn(cl, e)
      BY <1>1, <2>2, <2>3, <2>6, <3>1, FullFits
    <3>4. LiveIn(cl, d) /\ ~LiveIn(cl, f)
      BY <1>1, <2>2, <2>3, <2>6, <3>1, FullFits
    <3>5. ASSUME NEW c2, Swapped(c2, cl, c, d)
          PROVE  Mirrored(c2, cl, x, y)
      <4>1. /\ c2 \in CellFns /\ c2[c] = cl[d] /\ c2[d] = cl[c] /\ ~LiveIn(c2, e) /\ ~LiveIn(c2, f)
            /\ Same(c2, cl, {c, d})
        BY <3>2, <3>3, <3>4, <3>5 DEF Swapped, Same, LiveIn
      <4>2. Clear(c2, {}) /\ Same(c2, cl, {First(x), Second(x), First(y), Second(y)} \cup Locals)
        BY <1>1, <3>1, <3>2, <4>1, LocalCells DEF Clear, Same, LiveIn
      <4>3. MirrorsBox(c2, cl, x, y) /\ MirrorsBox(c2, cl, y, x)
        BY <3>1, <3>3, <3>4, <4>1 DEF MirrorsBox, Mirrors
      <4> QED BY <4>1, <4>2, <4>3 DEF Mirrored
    <3>6. PICK do, body : do = Swap(c, d) /\ body = <<do>>
      OBVIOUS
    <3>7. EitherSwap(x, y) = body
      BY <2>4, <2>6, <3>6 DEF OfObject
    <3>8. IsCalls(body) /\ \A rest : body \o rest = Then(do, rest)
      BY <3>6, OneCall
    <3>9. ASSUME NEW rest, NEW th, NEW P, IsCalls(rest),
                 \A c2 : Tidy(c2, t2) /\ ValuesOf(c2, t2) = W => Fine(c2, t2, rest, un, th, P)
          PROVE  Fine(cl, tag, body \o rest, un, th, P)
      <4>1. ASSUME NEW c2, Swapped(c2, cl, c, d)
            PROVE  Fine(c2, tag, rest, un, th, P)
        BY <1>2, <2>1, <3>5, <3>9, <4>1
      <4> QED BY <1>1, <3>2, <3>3, <3>4, <3>6, <3>8, <3>9, <4>1, SwapCall
    <3> QED BY <3>7, <3>8, <3>9 DEF Does
  <2> QED BY <2>5, <2>6
<1>4. CASE tag[x] = "first" /\ tag[y] = "second"
  <2>1. EitherSwap(x, y) = EitherSwapMixed(x, y)
    BY <1>4 DEF EitherSwap
  <2>2. t2 = Swapping(tag, x, y)
    BY DEF Swapping
  <2>3. Does(EitherSwapMixed(x, y), cl, tag, un, free, Swapping(tag, x, y), W)
    BY ONLY KindFits, kind = "either", T # Void => CanStrongConstruct(T), x \in AllBoxes,
            y \in AllBoxes,
       Tidy(cl, tag), x # y, <1>2, <1>4, <2>2, SwapMixedDoes
  <2> QED BY ONLY <2>1, <2>2, <2>3, Zenon
<1>5. CASE tag[x] = "second" /\ tag[y] = "first"
  <2>1. EitherSwap(x, y) = EitherSwapMixed(y, x)
    BY <1>5 DEF EitherSwap
  <2>2. \A c2 : Mirrored(c2, cl, y, x) => Tidy(c2, t2) /\ ValuesOf(c2, t2) = W
    BY <1>2, MirrorBoth
  <2>3. t2 = Swapping(tag, y, x)
    BY <1>1 DEF TagFns, Swapping
  <2>4. Does(EitherSwapMixed(y, x), cl, tag, un, free, Swapping(tag, y, x), W)
    BY ONLY KindFits, kind = "either", T # Void => CanStrongConstruct(T), x \in AllBoxes,
            y \in AllBoxes,
       Tidy(cl, tag), x # y, <1>5, <2>2, <2>3, SwapMixedDoes
  <2> QED BY ONLY <2>1, <2>3, <2>4, Zenon
<1> QED BY <1>1, <1>3, <1>4, <1>5

-----------------------------------------------------------------------------
(* What the boxes hold, as ValueBoxes sees it: from the tags and the values. *)

Pair(t, v) == <<t, v>>
ContentBy(t, v) == IF Names(t) THEN Pair(t, v) ELSE t
ContentsBy(tg, V) == [b \in Boxes |-> ContentBy(tg[b], V[b])]
ContentsOf(cl, tg) == ContentsBy(tg, ValuesOf(cl, tg))

(* What is in a pair. *)
LEMMA PairParts ==
  ASSUME NEW t, NEW v
  PROVE  Pair(t, v)[1] = t /\ Pair(t, v)[2] = v
BY DEF Pair

(* Contents is ContentsOf of the state. *)
LEMMA ContentsAre ==
  ASSUME KindFits, Tidy(cell, tag)
  PROVE  Contents = ContentsOf(cell, tag)
<1>1. ASSUME NEW b \in Boxes
      PROVE  Content(b) = ContentBy(tag[b], ValuesOf(cell, tag)[b])
  <2>1. b \in AllBoxes /\ cell \in CellFns
    BY <1>1, TempApart DEF Tidy
  <2>2. PICK c : c = CellOf(b, tag[b])
    OBVIOUS
  <2>3. c \in Cells
    BY <2>1, <2>2, BoxCells DEF CellOf
  <2>4. Live(c) <=> cell[c] \in Objects
    BY <2>1, <2>3, LiveIsObject DEF Live, LiveIn
  <2>5. ValOf(cell[c]) = IF Live(c) THEN cell[c].val ELSE Raw
    BY <2>4 DEF ValOf
  <2>6. Holds(b) <=> Names(tag[b])
    BY DEF Holds, Names
  <2>7. CASE Names(tag[b])
    <3>1. ValuesOf(cell, tag)[b] = ValOf(cell[c])
      BY <2>1, <2>2, <2>7 DEF ValuesOf, ValueIn
    <3>2. Content(b) = Pair(tag[b], ValOf(cell[c]))
      BY <2>2, <2>5, <2>6, <2>7 DEF Content, Held, Pair
    <3> QED BY <2>7, <3>1, <3>2 DEF ContentBy
  <2>8. CASE ~Names(tag[b])
    BY <2>6, <2>8 DEF Content, ContentBy
  <2> QED BY <2>7, <2>8
<1> QED BY <1>1 DEF Contents, ContentsOf, ContentsBy

(* What a value can be. *)
LEMMA ValuesAre ==
  ASSUME NEW cl \in CellFns, NEW tg, NEW b \in AllBoxes
  PROVE  ValuesOf(cl, tg)[b] \in Vals \cup {Moved, Raw}
<1>1. \A c \in Cells : ValOf(cl[c]) \in Vals \cup {Moved, Raw}
  BY ObjectParts DEF ValOf, CellFns
<1>2. CellOf(b, tg[b]) \in Cells
  BY BoxCells DEF CellOf
<1> QED BY <1>1, <1>2 DEF ValuesOf, ValueIn

(* ValueBoxes' Leftover and Effect, of an operation op on contents bf *)
LeftoverOf(op, c) ==
  CASE c = Empty \/ op.erasing -> Empty
    [] c # Empty /\ ~op.erasing /\ c[2] = Raw -> c
    [] OTHER -> <<c[1], Moved>>

EffectOf(op, bf) ==
  LET b == op.box o == op.other IN
  CASE op.name = "put" -> [bf EXCEPT ![b] = <<op.alt, op.arg>>]
    [] op.name = "copy" -> [bf EXCEPT ![b] = bf[o]]
    [] op.name = "move" /\ b # o -> [bf EXCEPT ![b] = bf[o], ![o] = LeftoverOf(op, bf[o])]
    [] op.name = "swap" -> [bf EXCEPT ![b] = bf[o], ![o] = bf[b]]
    [] op.name \in {"create", "clear", "steal"} -> [bf EXCEPT ![b] = Empty]
    [] op.name = "destroy" -> [bf EXCEPT ![b] = Gone]
    [] OTHER -> bf

Moving(op, bf, b, o) == [bf EXCEPT ![b] = bf[o], ![o] = LeftoverOf(op, bf[o])]

(* The effect of an operation, by its name. *)
LEMMA EffectIs ==
  ASSUME NEW op, NEW bf, NEW b, NEW o, b = op.box, o = op.other
  PROVE  /\ op.name = "put" => EffectOf(op, bf) = With(bf, b, Pair(op.alt, op.arg))
         /\ op.name = "copy" => EffectOf(op, bf) = With(bf, b, bf[o])
         /\ op.name = "move" /\ b # o => EffectOf(op, bf) = Moving(op, bf, b, o)
         /\ op.name = "move" /\ b = o => EffectOf(op, bf) = bf
         /\ op.name = "swap" => EffectOf(op, bf) = Swapping(bf, b, o)
         /\ op.name \in {"create", "clear", "steal"} => EffectOf(op, bf) = With(bf, b, Empty)
         /\ op.name = "destroy" => EffectOf(op, bf) = With(bf, b, Gone)
BY DEF EffectOf, Pair, With, Moving, Swapping

(* The effect of each kind of change to the tags and the values. *)
LEMMA PutContents ==
  ASSUME NEW tg \in TagFns, NEW V, NEW b \in Boxes, NEW alt, NEW v, Names(alt),
         V = [x \in AllBoxes |-> V[x]]
  PROVE  ContentsBy(With(tg, b, alt), With(V, b, v)) = With(ContentsBy(tg, V), b, Pair(alt, v))
<1>1. PICK t2, W : t2 = With(tg, b, alt) /\ W = With(V, b, v)
  OBVIOUS
<1>2. \A x \in Boxes \ {b} : t2[x] = tg[x] /\ W[x] = V[x]
  BY <1>1, TempApart DEF TagFns, With
<1>3. t2[b] = alt /\ W[b] = v
  BY <1>1, TempApart DEF TagFns, With
<1>4. ContentBy(alt, v) = Pair(alt, v)
  BY DEF ContentBy
<1>5. PICK C : C = ContentsBy(tg, V)
  OBVIOUS
<1>6. C = [z \in Boxes |-> C[z]] /\ \A z \in Boxes : C[z] = ContentBy(tg[z], V[z])
  BY <1>5 DEF ContentsBy
<1>7. PICK D : D = ContentsBy(t2, W)
  OBVIOUS
<1>8. D = [z \in Boxes |-> D[z]] /\ \A z \in Boxes : D[z] = ContentBy(t2[z], W[z])
  BY <1>7 DEF ContentsBy
<1>9. D[b] = Pair(alt, v) /\ \A z \in Boxes \ {b} : D[z] = C[z]
  BY <1>2, <1>3, <1>4, <1>6, <1>8
<1> QED BY <1>1, <1>5, <1>6, <1>7, <1>8, <1>9 DEF With

(* What the boxes hold when one of them is emptied or gone. *)
LEMMA NoneContents ==
  ASSUME NEW tg \in TagFns, NEW V, NEW b \in Boxes, NEW t, t = Empty \/ t = Gone,
         V = [x \in AllBoxes |-> V[x]]
  PROVE  ContentsBy(With(tg, b, t), With(V, b, Raw)) = With(ContentsBy(tg, V), b, t)
<1>1. PICK t2, W : t2 = With(tg, b, t) /\ W = With(V, b, Raw)
  OBVIOUS
<1>2. \A x \in Boxes \ {b} : t2[x] = tg[x] /\ W[x] = V[x]
  BY <1>1, TempApart DEF TagFns, With
<1>3. t2[b] = t /\ W[b] = Raw
  BY <1>1, TempApart DEF TagFns, With
<1>4. ContentBy(t, Raw) = t
  BY DEF ContentBy, Names
<1>5. PICK C : C = ContentsBy(tg, V)
  OBVIOUS
<1>6. C = [z \in Boxes |-> C[z]] /\ \A z \in Boxes : C[z] = ContentBy(tg[z], V[z])
  BY <1>5 DEF ContentsBy
<1>7. PICK D : D = ContentsBy(t2, W)
  OBVIOUS
<1>8. D = [z \in Boxes |-> D[z]] /\ \A z \in Boxes : D[z] = ContentBy(t2[z], W[z])
  BY <1>7 DEF ContentsBy
<1>9. D[b] = t /\ \A z \in Boxes \ {b} : D[z] = C[z]
  BY <1>2, <1>3, <1>4, <1>6, <1>8
<1> QED BY <1>1, <1>5, <1>6, <1>7, <1>8, <1>9 DEF With

(* What the boxes hold when two are swapped. *)
LEMMA SwapContents ==
  ASSUME NEW tg \in TagFns, NEW V, NEW x \in Boxes, NEW y \in Boxes, x # y,
         V = [b \in AllBoxes |-> V[b]]
  PROVE  ContentsBy(Swapping(tg, x, y), Swapping(V, x, y)) = Swapping(ContentsBy(tg, V), x, y)
<1>1. PICK t2, W : t2 = Swapping(tg, x, y) /\ W = Swapping(V, x, y)
  OBVIOUS
<1>2. \A b \in Boxes \ {x, y} : t2[b] = tg[b] /\ W[b] = V[b]
  BY <1>1, TempApart DEF TagFns, Swapping
<1>3. t2[x] = tg[y] /\ W[x] = V[y] /\ t2[y] = tg[x] /\ W[y] = V[x]
  BY <1>1, TempApart DEF TagFns, Swapping
<1>4. PICK C : C = ContentsBy(tg, V)
  OBVIOUS
<1>5. C = [z \in Boxes |-> C[z]] /\ \A z \in Boxes : C[z] = ContentBy(tg[z], V[z])
  BY <1>4 DEF ContentsBy
<1>6. PICK D : D = ContentsBy(t2, W)
  OBVIOUS
<1>7. D = [z \in Boxes |-> D[z]] /\ \A z \in Boxes : D[z] = ContentBy(t2[z], W[z])
  BY <1>6 DEF ContentsBy
<1>8. D[x] = C[y] /\ D[y] = C[x] /\ \A z \in Boxes \ {x, y} : D[z] = C[z]
  <2>1. D[x] = ContentBy(tg[y], V[y]) /\ D[y] = ContentBy(tg[x], V[x])
    BY ONLY x \in Boxes, y \in Boxes, <1>3, <1>7
  <2>2. C[x] = ContentBy(tg[x], V[x]) /\ C[y] = ContentBy(tg[y], V[y])
    BY ONLY x \in Boxes, y \in Boxes, <1>5
  <2>3. \A z \in Boxes \ {x, y} : D[z] = C[z]
    BY ONLY <1>2, <1>5, <1>7
  <2> QED BY ONLY <2>1, <2>2, <2>3
<1> QED BY <1>1, <1>4, <1>5, <1>6, <1>7, <1>8 DEF Swapping

(* What the boxes hold when one is copied to another. *)
LEMMA CopyContents ==
  ASSUME NEW tg \in TagFns, NEW V, NEW b \in Boxes, NEW o \in Boxes, b # o,
         V = [x \in AllBoxes |-> V[x]]
  PROVE  ContentsBy(HandTags(tg, b, o), HandValues(V, b, o, "copy")) =
           With(ContentsBy(tg, V), b, ContentsBy(tg, V)[o])
<1> PICK t2, W : t2 = HandTags(tg, b, o) /\ W = HandValues(V, b, o, "copy")
  OBVIOUS
<1>1. \A x \in Boxes \ {b} : t2[x] = tg[x] /\ W[x] = V[x]
  BY TempApart DEF TagFns, HandTags, HandValues, LeftValue
<1>2. t2[b] = tg[o] /\ W[b] = V[o]
  BY TempApart DEF TagFns, HandTags, HandValues
<1> QED BY <1>1, <1>2 DEF ContentsBy, With

(* What the boxes hold when one is moved to another and keeps a moved-from object. *)
LEMMA MoveContents ==
  ASSUME NEW tg \in TagFns, NEW V, NEW b \in Boxes, NEW o \in Boxes, NEW op, b # o,
         V = [x \in AllBoxes |-> V[x]], tg[o] # Gone, V[o] \in Vals \cup {Moved, Raw}, ~op.erasing
  PROVE  ContentsBy(HandTags(tg, b, o), HandValues(V, b, o, "move")) =
           Moving(op, ContentsBy(tg, V), b, o)
<1> PICK t2, W : t2 = HandTags(tg, b, o) /\ W = HandValues(V, b, o, "move")
  OBVIOUS
<1>1. \A x \in Boxes \ {b, o} : t2[x] = tg[x] /\ W[x] = V[x]
  BY TempApart DEF TagFns, HandTags, HandValues
<1>2. /\ t2[b] = tg[o] /\ W[b] = V[o] /\ t2[o] = tg[o] /\ W[o] = LeftValue(V[o], "move")
      /\ tg[o] \in Tags
  BY TempApart DEF TagFns, HandTags, HandValues
<1>3. PICK t, v : t = tg[o] /\ v = V[o]
  OBVIOUS
<1>4. ContentBy(t, LeftValue(v, "move")) = LeftoverOf(op, ContentBy(t, v))
  <2>1. CASE Names(t)
    <3>1. PICK c : c = Pair(t, v)
      OBVIOUS
    <3>2. ContentBy(t, v) = c /\ ContentBy(t, LeftValue(v, "move")) = Pair(t, LeftValue(v, "move"))
      BY <2>1, <3>1 DEF ContentBy
    <3>3. c[1] = t /\ c[2] = v
      BY <3>1, PairParts
    <3>4. c # Empty
      BY <1>2, <1>3, <2>1, <3>1, CellAssumption DEF Pair, Tags, Names
    <3>5. LeftoverOf(op, c) = IF v = Raw THEN c ELSE Pair(t, Moved)
      BY <3>3, <3>4 DEF LeftoverOf, Pair
    <3>6. CASE v = Raw
      <4>1. LeftValue(v, "move") = v
        BY <3>6 DEF LeftValue
      <4> QED BY <3>1, <3>2, <3>5, <3>6, <4>1
    <3>7. CASE v # Raw
      <4>1. LeftValue(v, "move") = Moved
        BY <3>7 DEF LeftValue
      <4> QED BY <3>2, <3>5, <3>7, <4>1
    <3> QED BY <3>6, <3>7
  <2>2. CASE ~Names(t)
    <3>1. t = Empty
      BY <1>3, <2>2 DEF Names
    <3>2. \A w : ContentBy(t, w) = Empty
      BY <2>2, <3>1 DEF ContentBy
    <3>3. LeftoverOf(op, Empty) = Empty
      BY DEF LeftoverOf
    <3> QED BY <3>2, <3>3
  <2> QED BY <2>1, <2>2
<1>5. PICK C : C = ContentsBy(tg, V)
  OBVIOUS
<1>6. /\ C = [x \in Boxes |-> C[x]] /\ C[o] = ContentBy(t, v)
      /\ \A x \in Boxes : C[x] = ContentBy(tg[x], V[x])
  BY <1>3, <1>5 DEF ContentsBy
<1>7. PICK D : D = ContentsBy(t2, W)
  OBVIOUS
<1>8. D = [x \in Boxes |-> D[x]] /\ \A x \in Boxes : D[x] = ContentBy(t2[x], W[x])
  BY <1>7 DEF ContentsBy
<1>9. D[b] = C[o] /\ D[o] = LeftoverOf(op, C[o]) /\ \A x \in Boxes \ {b, o} : D[x] = C[x]
  BY <1>1, <1>2, <1>3, <1>4, <1>6, <1>8
<1> QED BY <1>5, <1>6, <1>7, <1>8, <1>9 DEF Moving

(* What the boxes hold when a wrapper gives its object to another. *)
LEMMA GiveContents ==
  ASSUME NEW tg \in TagFns, NEW V, NEW b \in Boxes, NEW o \in Boxes, NEW op, b # o,
         V = [x \in AllBoxes |-> V[x]], op.erasing
  PROVE  ContentsBy(GivenTags(tg, b, o), GivenValues(V, b, o)) =
           Moving(op, ContentsBy(tg, V), b, o)
<1> PICK t2, W : t2 = GivenTags(tg, b, o) /\ W = GivenValues(V, b, o)
  OBVIOUS
<1>1. \A x \in Boxes \ {b, o} : t2[x] = tg[x] /\ W[x] = V[x]
  BY TempApart DEF TagFns, GivenTags, GivenValues
<1>2. t2[b] = tg[o] /\ W[b] = V[o] /\ t2[o] = Empty
  BY TempApart DEF TagFns, GivenTags, GivenValues
<1>3. \A c : LeftoverOf(op, c) = Empty
  BY DEF LeftoverOf
<1>4. \A w : ContentBy(Empty, w) = Empty
  BY DEF ContentBy, Names
<1>5. PICK C, D : C = ContentsBy(tg, V) /\ D = ContentsBy(t2, W)
  OBVIOUS
<1>6. C = [x \in Boxes |-> C[x]] /\ \A x \in Boxes : C[x] = ContentBy(tg[x], V[x])
  BY <1>5 DEF ContentsBy
<1>7. D = [x \in Boxes |-> D[x]] /\ \A x \in Boxes : D[x] = ContentBy(t2[x], W[x])
  BY <1>5 DEF ContentsBy
<1>8. D[b] = C[o] /\ D[o] = LeftoverOf(op, C[o]) /\ \A x \in Boxes \ {b, o} : D[x] = C[x]
  BY <1>1, <1>2, <1>3, <1>4, <1>6, <1>7
<1> QED BY <1>5, <1>6, <1>7, <1>8 DEF Moving

-----------------------------------------------------------------------------
(* How an operation may end *)

MayEndInThrow(op) == op.name \in {"put", "copy"} \/ op.weak

(* With its effect, or with a throw that has no effect but the one that is allowed. *)
Ended(cl, tg, th, op, bf) ==
  /\ Tidy(cl, tg) /\ tg[Temp] = Gone /\ th \in BOOLEAN
  /\ ~th => ContentsOf(cl, tg) = EffectOf(op, bf)
  /\ th => /\ MayEndInThrow(op)
           /\ \/ ContentsOf(cl, tg) = bf
              \/ op.weak /\ ContentsOf(cl, tg) = [bf EXCEPT ![op.box] = Empty]

Outcomes(op, bf) == {w \in CellFns \X TagFns \X BOOLEAN : Ended(w[1], w[2], w[3], op, bf)}

(* An outcome is an end that the operation may come to. *)
LEMMA InOutcomes ==
  ASSUME NEW cl, NEW tg, NEW th, NEW op, NEW bf
  PROVE  <<cl, tg, th>> \in Outcomes(op, bf) <=> Ended(cl, tg, th, op, bf)
<1>1. ASSUME <<cl, tg, th>> \in Outcomes(op, bf)
      PROVE  Ended(cl, tg, th, op, bf)
  BY <1>1 DEF Outcomes
<1>2. ASSUME Ended(cl, tg, th, op, bf)
      PROVE  <<cl, tg, th>> \in Outcomes(op, bf)
  <2>1. cl \in CellFns /\ tg \in TagFns /\ th \in BOOLEAN
    BY <1>2 DEF Ended, Tidy
  <2> QED BY <1>2, <2>1 DEF Outcomes
<1> QED BY <1>1, <1>2

(* What an operation starts from *)
Starts(cl) == KindFits /\ Tidy(cl, tag) /\ tag[Temp] = Gone
Safely(body, cl, op) == Fine(cl, tag, body, <<>>, FALSE, Outcomes(op, ContentsOf(cl, tag)))

(* An exception that changes nothing but locals is an end of an operation that may throw. *)
LEMMA UnwindsKept ==
  ASSUME NEW cl, NEW op, NEW P, Starts(cl), MayEndInThrow(op), P = Outcomes(op, ContentsOf(cl, tag))
  PROVE  Unwinds(cl, tag, <<>>, P)
<1>1. SUFFICES ASSUME NEW c2, Rest(c2, cl)
               PROVE  Fine(c2, tag, <<>>, <<>>, TRUE, P)
  BY DEF Unwinds
<1>2. KindFits /\ Tidy(cl, tag) /\ tag[Temp] = Gone
  BY DEF Starts
<1>3. Tidy(c2, tag) /\ ValuesOf(c2, tag) = ValuesOf(cl, tag)
  BY <1>1, <1>2, TidyRest
<1>4. PICK bf : bf = ContentsOf(cl, tag)
  OBVIOUS
<1>5. ContentsOf(c2, tag) = bf
  BY <1>3, <1>4 DEF ContentsOf
<1>6. Ended(c2, tag, TRUE, op, bf)
  BY <1>2, <1>3, <1>5 DEF Ended
<1>7. <<c2, tag, TRUE>> \in P
  BY <1>4, <1>6, InOutcomes
<1> QED BY <1>7, FineEnd

(* An operation that does what its effect says. *)
LEMMA DoesSafely ==
  ASSUME NEW cl, NEW op, NEW body, NEW may, NEW t2, NEW W, Starts(cl),
         Does(body, cl, tag, <<>>, may, t2, W), t2[Temp] = Gone,
         ContentsBy(t2, W) = EffectOf(op, ContentsOf(cl, tag)), may => MayEndInThrow(op)
  PROVE  Safely(body, cl, op)
<1>1. KindFits /\ Tidy(cl, tag) /\ tag[Temp] = Gone
  BY DEF Starts
<1>2. PICK P, bf : P = Outcomes(op, bf) /\ bf = ContentsOf(cl, tag)
  OBVIOUS
<1>3. ASSUME NEW c2, Tidy(c2, t2), ValuesOf(c2, t2) = W
      PROVE  Fine(c2, t2, <<>>, <<>>, FALSE, P)
  <2>1. ContentsOf(c2, t2) = EffectOf(op, bf)
    BY <1>2, <1>3 DEF ContentsOf
  <2>2. Ended(c2, t2, FALSE, op, bf)
    BY <1>3, <2>1 DEF Ended
  <2>3. <<c2, t2, FALSE>> \in P
    BY <1>2, <2>2, InOutcomes
  <2> QED BY <2>3, FineEnd
<1>4. ASSUME may
      PROVE  Unwinds(cl, tag, <<>>, P)
  BY <1>2, <1>4, UnwindsKept
<1>5. IsCalls(body)
  BY DEF Does
<1>6. body \o <<>> = body
  BY ONLY <1>5, NothingJoined
<1>7. PICK rest : rest = <<>>
  OBVIOUS
<1>8. IsCalls(rest) /\ \A c2 : Tidy(c2, t2) /\ ValuesOf(c2, t2) = W => Fine(c2, t2, rest, <<>>, FALSE, P)
  BY <1>3, <1>7, NoCalls
<1>9. Fine(cl, tag, body \o rest, <<>>, FALSE, P)
  BY <1>4, <1>8 DEF Does
<1> QED BY <1>2, <1>6, <1>7, <1>9 DEF Safely

(* Nothing to do, and no effect *)
LEMMA NothingSafely ==
  ASSUME NEW cl, NEW op, Starts(cl), EffectOf(op, ContentsOf(cl, tag)) = ContentsOf(cl, tag)
  PROVE  Safely(<<>>, cl, op)
<1>1. PICK free : free = FALSE
  OBVIOUS
<1>2. Tidy(cl, tag) /\ tag[Temp] = Gone
  BY DEF Starts
<1>3. Does(<<>>, cl, tag, <<>>, free, tag, ValuesOf(cl, tag))
  BY ONLY <1>2, DoesNothing
<1> QED BY <1>1, <1>2, <1>3, DoesSafely DEF ContentsOf

(* What an operation finds when it begins. *)
LEMMA StartFacts ==
  ASSUME NEW cl, Starts(cl), NEW V, V = ValuesOf(cl, tag)
  PROVE  /\ KindFits /\ Tidy(cl, tag) /\ tag[Temp] = Gone /\ cl \in CellFns /\ tag \in TagFns
         /\ V = [x \in AllBoxes |-> V[x]] /\ ContentsOf(cl, tag) = ContentsBy(tag, V)
         /\ ContentsOf(cl, tag) = [x \in Boxes |-> ContentsOf(cl, tag)[x]]
         /\ \A b \in Boxes : b \in AllBoxes /\ b # Temp /\ V[b] \in Vals \cup {Moved, Raw}
         /\ \A b \in AllBoxes : TagFits(tag[b]) /\ BoxFits(cl, tag, b)
<1>1. KindFits /\ Tidy(cl, tag) /\ tag[Temp] = Gone /\ cl \in CellFns /\ tag \in TagFns
  BY DEF Starts, Tidy
<1>2. V = [x \in AllBoxes |-> V[x]] /\ ContentsOf(cl, tag) = ContentsBy(tag, V)
  BY DEF ValuesOf, ContentsOf
<1>3. ContentsOf(cl, tag) = [x \in Boxes |-> ContentsOf(cl, tag)[x]]
  BY DEF ContentsOf, ContentsBy
<1>4. \A b \in Boxes : b \in AllBoxes /\ b # Temp
  BY TempApart
<1>5. \A b \in Boxes : V[b] \in Vals \cup {Moved, Raw}
  BY <1>1, <1>4, ValuesAre
<1>6. \A b \in AllBoxes : TagFits(tag[b]) /\ BoxFits(cl, tag, b)
  BY <1>1 DEF Tidy
<1> QED BY <1>1, <1>2, <1>3, <1>4, <1>5, <1>6

-----------------------------------------------------------------------------
(* put: the argument is in Args *)

Handed(cl, alt) ==
  IF TypeOf(alt) = Void THEN ~LiveIn(cl, Args)
  ELSE LiveIn(cl, Args) /\ cl[Args].ty = TypeOf(alt)

IsPut(op, b, alt, v) == op.name = "put" /\ op.box = b /\ op.alt = alt /\ op.arg = v

(* The argument of a call is ready to be placed. *)
LEMMA HandedReady ==
  ASSUME NEW cl, NEW b \in Boxes, NEW alt \in Alternatives, Starts(cl), Handed(cl, alt),
         NEW from, from = Args
  PROVE  Ready(cl, tag, b, alt, from) /\ from \notin Locals
<1>1. Tidy(cl, tag) /\ cl \in CellFns /\ tag \in TagFns /\ b \in AllBoxes
  BY StartFacts
<1>2. from \in Cells \ {First(b), Second(b), Buffer, Backup} /\ from \notin Locals
  BY <1>1, BoxCells, LocalCells
<1>3. Clear(cl, {from})
  BY <1>1 DEF Tidy, Clear
<1> QED BY <1>1, <1>2, <1>3 DEF Ready, Handed

(* A body that places the argument is what a put may do. *)
LEMMA PutSafely ==
  ASSUME NEW cl, NEW b \in Boxes, NEW alt \in Alternatives, NEW op, NEW body, NEW may, NEW from, NEW v,
         NEW t2, NEW W,
         Starts(cl), IsPut(op, b, alt, v), v = ValOf(cl[from]), from = Args,
         t2 = [tag EXCEPT ![b] = alt], W = [ValuesOf(cl, tag) EXCEPT ![b] = v],
         Does(body, cl, tag, <<>>, may, t2, W)
  PROVE  Safely(body, cl, op)
<1>1. PICK V : V = ValuesOf(cl, tag)
  OBVIOUS
<1>2. /\ tag \in TagFns /\ b \in AllBoxes /\ b # Temp /\ tag[Temp] = Gone /\ KindFits
      /\ V = [x \in AllBoxes |-> V[x]] /\ ContentsOf(cl, tag) = ContentsBy(tag, V)
  BY <1>1, StartFacts
<1>3. Names(alt)
  BY <1>2, AlternativeFacts
<1>4. ContentsBy(t2, W) = With(ContentsBy(tag, V), b, Pair(alt, v))
  <2>1. t2 = With(tag, b, alt) /\ W = With(V, b, v)
    BY <1>1 DEF With
  <2> QED BY ONLY b \in Boxes, <1>2, <1>3, <2>1, PutContents
<1>5. EffectOf(op, ContentsBy(tag, V)) = With(ContentsBy(tag, V), b, Pair(alt, v))
  BY EffectIs DEF IsPut
<1>6. t2[Temp] = Gone
  BY <1>2 DEF TagFns
<1>7. ContentsBy(t2, W) = EffectOf(op, ContentsOf(cl, tag)) /\ MayEndInThrow(op)
  BY <1>2, <1>4, <1>5 DEF IsPut, MayEndInThrow
<1>8. Does(body, cl, tag, <<>>, may, t2, W) /\ Starts(cl)
  OBVIOUS
<1> QED BY ONLY <1>6, <1>7, <1>8, DoesSafely

(* Every put of either_t ends as a put may. *)
LEMMA EitherPutSafely ==
  ASSUME kind = "either", NEW cl, NEW b \in Boxes, NEW alt \in Alternatives, NEW how, NEW op, NEW v,
         Starts(cl), Handed(cl, alt), IsPut(op, b, alt, v), v = ValOf(cl[Args]), CanPut(b, alt, how),
         NEW body \in EitherPut(b, alt, Args, how)
  PROVE  Safely(body, cl, op)
<1>1. PICK from, may, t2, W, V :
        /\ from = Args /\ may = TRUE /\ t2 = [tag EXCEPT ![b] = alt] /\ V = ValuesOf(cl, tag)
        /\ W = [V EXCEPT ![b] = v]
  OBVIOUS
<1>2. /\ KindFits /\ Tidy(cl, tag) /\ BoxFits(cl, tag, b) /\ TagFits(tag[b]) /\ b \in AllBoxes
      /\ tag \in TagFns
  BY StartFacts
<1>3. Ready(cl, tag, b, alt, from) /\ from \notin Locals
  BY <1>1, HandedReady
<1>4. body \in EitherPut(b, alt, from, how)
  BY <1>1
<1>5. Places(body, cl, tag, <<>>, b, alt, from, how)
  <2>1. CASE tag[b] = Gone
    <3>1. body = EitherConstruct(b, alt, from, how)
      BY <1>4, <2>1 DEF EitherPut, Exists
    <3>2. Bare(cl, b)
      BY <1>2, <2>1, BareFits DEF Names
    <3> QED BY <1>2, <1>3, <2>1, <3>1, <3>2, EitherConstructPlaces
  <2>2. CASE tag[b] # Gone
    <3>1. tag[b] \in {"first", "second"}
      BY <1>2, <2>2 DEF TagFits, Alternatives
    <3>2. TypeOf(alt) # Void => CanStrongReplace(TypeOf(alt)) \/ NothrowOf(TypeOf(alt), how)
      BY <2>2 DEF CanPut, Exists
    <3>3. CASE alt = "first"
      <4>1. body = EmplaceFirst(b, from, how)
        BY <1>4, <2>2, <3>3 DEF EitherPut, Exists
      <4>2. T # Void => CanStrongReplace(T) \/ NothrowOf(T, how)
        BY <3>2, <3>3 DEF TypeOf
      <4>3. Ready(cl, tag, b, "first", from)
        BY <1>3, <3>3
      <4>4. Places(EmplaceFirst(b, from, how), cl, tag, <<>>, b, "first", from, how)
        BY <1>2, <3>1, <4>2, <4>3, EmplaceFirstPlaces
      <4> QED BY <3>3, <4>1, <4>4
    <3>4. CASE alt = "second"
      <4>1. \/ body = EmplaceSecond(b, from, how)
            \/ NothrowOf(U, how) /\ body = EitherAssignSecond(b, from, how)
        BY <1>4, <2>2, <3>4 DEF EitherPut, Exists
      <4>2. CanStrongReplace(U) \/ NothrowOf(U, how)
        BY <1>2, BoxAssumption DEF KindFits, CanStrongReplace, CanStrongConstruct
      <4>3. Ready(cl, tag, b, "second", from) /\ from # Tmp
        BY <1>3, <3>4, LocalCells
      <4>4. /\ Places(EmplaceSecond(b, from, how), cl, tag, <<>>, b, "second", from, how)
            /\ NothrowOf(U, how) =>
                 Places(EitherAssignSecond(b, from, how), cl, tag, <<>>, b, "second", from, how)
        BY <1>2, <3>1, <4>2, <4>3, EmplaceSecondPlaces
      <4> QED BY <3>4, <4>1, <4>4
    <3> QED BY <3>3, <3>4 DEF Alternatives
  <2> QED BY <2>1, <2>2
<1>6. Does(body, cl, tag, <<>>, may, t2, W)
  BY <1>1, <1>2, <1>3, <1>5, PutDoes
<1> QED BY <1>1, <1>6, PutSafely

(* Every put of inplace_t ends as a put may, with its loss for the types that cannot
   be replaced. *)
LEMMA InplacePutSafely ==
  ASSUME kind = "inplace", NEW cl, NEW b \in Boxes, NEW alt \in Alternatives, NEW how, NEW op, NEW v,
         Starts(cl), Handed(cl, alt), IsPut(op, b, alt, v), v = ValOf(cl[Args]),
         op.weak <=> ~CanStrongReplace(T)
  PROVE  Safely(InplacePut(b, Args, how), cl, op)
<1>1. PICK from, may, t1, t2, W, V :
        /\ from = Args /\ may = TRUE /\ t2 = [tag EXCEPT ![b] = alt] /\ V = ValuesOf(cl, tag)
        /\ W = [V EXCEPT ![b] = v] /\ t1 = [tag EXCEPT ![b] = Empty]
  OBVIOUS
<1>2. /\ KindFits /\ Tidy(cl, tag) /\ BoxFits(cl, tag, b) /\ TagFits(tag[b]) /\ b \in AllBoxes
      /\ tag \in TagFns /\ cl \in CellFns /\ kind # "either" /\ alt = "first"
      /\ V = [x \in AllBoxes |-> V[x]] /\ ContentsOf(cl, tag) = ContentsBy(tag, V)
  BY <1>1, StartFacts DEF Alternatives
<1>3. Ready(cl, tag, b, alt, from) /\ from \notin Locals
  BY <1>1, HandedReady
<1>4. CellOf(b, alt) = First(b) /\ TypeOf(alt) # Void
  BY <1>2, AlternativeFacts DEF CellOf
<1>5. CASE tag[b] = Gone
  <2>1. PICK body : body = InplaceConstruct(b, from, how)
    OBVIOUS
  <2>2. InplacePut(b, from, how) = <<SetTag(b, Empty)>> \o OrNoBox(b, body)
    BY <1>5, <2>1 DEF InplacePut, Exists
  <2>3. Ready(cl, t1, b, alt, from)
    <3>1. t1 \in TagFns /\ Clear(cl, {from})
      BY <1>1, <1>2, <1>3, CellAssumption DEF TagFns, Tags, Ready
    <3> QED BY <1>2, <1>3, <3>1, ReadyAfter
  <2>4. Bare(cl, b) /\ IsUndo(NoBox(b))
    BY <1>2, <1>5, BareFits DEF Names, IsUndo, NoBox
  <2>5. Places(<<Make(First(b), from, how), SetTag(b, alt)>>, cl, t1, NoBox(b), b, alt, from, how)
    BY <1>2, <1>4, <2>3, <2>4, BuildPlaces
  <2>6. Places(body, cl, t1, NoBox(b), b, alt, from, how)
    BY <1>2, <2>1, <2>5 DEF InplaceConstruct
  <2>7. Does(<<SetTag(b, Empty)>> \o OrNoBox(b, body), cl, tag, <<>>, may, t2, W)
    BY <1>1, <1>2, <1>3, <1>5, <2>6, PutNewDoes
  <2> QED BY <1>1, <2>2, <2>7, PutSafely
<1>6. CASE tag[b] # Gone /\ (tag[b] = "first" => CanStrongReplace(T))
  <2>1. PICK has \in BOOLEAN : has = Holds(b)
    BY DEF Holds
  <2>2. (tag[b] = Empty \/ tag[b] = "first") /\ (has <=> tag[b] = "first")
    BY <1>2, <1>6, <2>1, CellAssumption DEF TagFits, Alternatives, Holds
  <2>3. PICK body : body = InplaceEmplace(b, has, from, how)
    OBVIOUS
  <2>4. InplacePut(b, from, how) = body
    BY <1>6, <2>1, <2>3 DEF InplacePut, Exists
  <2>5. Ready(cl, tag, b, "first", from) /\ IsUndo(<<>>)
    BY <1>2, <1>3 DEF IsUndo
  <2>6. Places(InplaceEmplace(b, has, from, how), cl, tag, <<>>, b, "first", from, how)
    BY <1>2, <1>6, <2>2, <2>5, InplaceEmplacePlaces
  <2>7. Places(body, cl, tag, <<>>, b, alt, from, how)
    BY <1>2, <2>3, <2>6
  <2>8. Does(body, cl, tag, <<>>, may, t2, W)
    BY <1>1, <1>2, <1>3, <2>7, PutDoes
  <2> QED BY <1>1, <2>4, <2>8, PutSafely
<1>7. CASE tag[b] = "first" /\ ~CanStrongReplace(T)
  <2>1. PICK body : body = InplaceDestroy(b, TRUE) \o InplaceConstruct(b, from, how)
    OBVIOUS
  <2>2. InplacePut(b, from, how) = body
    BY <1>2, <1>7, <2>1, CellAssumption DEF InplacePut, InplaceEmplace, Exists, Holds
  <2>3. PICK P, bf, W1, none : /\ bf = ContentsBy(tag, V) /\ P = Outcomes(op, bf)
                               /\ W1 = [V EXCEPT ![b] = Raw] /\ none = Empty
    OBVIOUS
  <2>4. t1[Temp] = Gone /\ t2[Temp] = Gone
    BY <1>1, StartFacts DEF TagFns
  <2>5. ASSUME NEW c2, Vacant(c2, cl, b)
        PROVE  <<c2, t1, TRUE>> \in P
    <3>1. Tidy(c2, t1) /\ ValuesOf(c2, t1) = W1
      <4>1. /\ t1 = [tag EXCEPT ![b] = none] /\ W1 = [ValuesOf(cl, tag) EXCEPT ![b] = Raw]
            /\ none = Empty
        BY <1>1, <2>3
      <4> QED BY ONLY <1>2, <2>5, <4>1, EmptyTidy
    <3>2. ContentsBy(t1, W1) = With(ContentsBy(tag, V), b, none)
      <4>1. t1 = With(tag, b, none) /\ W1 = With(V, b, Raw) /\ (none = Empty \/ none = Gone)
        BY <1>1, <2>3 DEF With
      <4> QED BY ONLY b \in Boxes, <1>2, <4>1, NoneContents
    <3>3. ContentsOf(c2, t1) = [bf EXCEPT ![op.box] = Empty]
      BY <2>3, <3>1, <3>2 DEF ContentsOf, IsPut, With
    <3>4. Ended(c2, t1, TRUE, op, bf)
      BY <1>7, <2>4, <3>1, <3>3 DEF Ended, IsPut, MayEndInThrow
    <3> QED BY <2>3, <3>4, InOutcomes
  <2>6. ASSUME NEW c2, NEW t3, Placed(c2, t3, cl, tag, b, "first", from, how)
        PROVE  Fine(c2, t3, <<>>, <<>>, FALSE, P)
    <3>1. t3 = t2
      BY <1>1, <1>2, <2>6 DEF Placed
    <3>2. W = [ValuesOf(cl, tag) EXCEPT ![b] = ValOf(cl[from])]
      BY <1>1
    <3>3. Placed(c2, t3, cl, tag, b, alt, from, how)
      BY <1>2, <2>6
    <3>4. Tidy(c2, t3) /\ ValuesOf(c2, t3) = W
      BY <1>1, <1>2, <1>3, <3>2, <3>3, PutTidy
    <3>5. Names(alt)
      BY <1>2, AlternativeFacts
    <3>6. ContentsBy(t2, W) = With(ContentsBy(tag, V), b, Pair(alt, v))
      <4>1. t2 = With(tag, b, alt) /\ W = With(V, b, v)
        BY <1>1 DEF With
      <4> QED BY ONLY b \in Boxes, <1>2, <3>5, <4>1, PutContents
    <3>7. EffectOf(op, bf) = With(bf, b, Pair(alt, v))
      BY EffectIs DEF IsPut
    <3>8. Ended(c2, t3, FALSE, op, bf)
      BY <2>3, <2>4, <3>1, <3>4, <3>6, <3>7 DEF Ended, ContentsOf
    <3>9. <<c2, t3, FALSE>> \in P
      BY <2>3, <3>8, InOutcomes
    <3> QED BY <3>9, FineEnd
  <2>7. PICK rest, th : rest = <<>> /\ th = FALSE
    OBVIOUS
  <2>8. Ready(cl, tag, b, "first", from) /\ IsCalls(rest)
    BY <1>2, <1>3, <2>7, NoCalls
  <2>9. \A c2, t3 : Placed(c2, t3, cl, tag, b, "first", from, how) => Fine(c2, t3, rest, <<>>, th, P)
    BY <2>6, <2>7
  <2>10. /\ IsCalls(InplaceDestroy(b, TRUE) \o InplaceConstruct(b, from, how))
         /\ Fine(cl, tag, (InplaceDestroy(b, TRUE) \o InplaceConstruct(b, from, how)) \o rest, <<>>, th, P)
    BY <1>1, <1>2, <1>3, <1>7, <2>5, <2>8, <2>9, InplaceWeakFine
  <2>11. IsCalls(body)
    BY <2>1, <2>10
  <2>12. body \o <<>> = body
    BY ONLY <2>11, NothingJoined
  <2>13. Fine(cl, tag, body, <<>>, FALSE, P)
    BY <2>1, <2>7, <2>10, <2>12
  <2> QED BY <1>1, <1>2, <2>2, <2>3, <2>13 DEF Safely
<1> QED BY <1>5, <1>6, <1>7

(* Every put of a wrapper ends as a put may. *)
LEMMA ErasedPutSafely ==
  ASSUME kind = "erased", NEW cl, NEW b \in Boxes, NEW alt \in Alternatives, NEW how, NEW op, NEW v,
         Starts(cl), Handed(cl, alt), IsPut(op, b, alt, v), v = ValOf(cl[Args])
  PROVE  Safely(ErasedPut(b, alt, Args, how), cl, op)
<1>1. PICK from, may, t1, t2, W, V :
        /\ from = Args /\ may = TRUE /\ t2 = [tag EXCEPT ![b] = alt] /\ V = ValuesOf(cl, tag)
        /\ W = [V EXCEPT ![b] = v] /\ t1 = [tag EXCEPT ![b] = Empty]
  OBVIOUS
<1>2. /\ KindFits /\ Tidy(cl, tag) /\ BoxFits(cl, tag, b) /\ TagFits(tag[b]) /\ b \in AllBoxes
      /\ tag \in TagFns /\ cl \in CellFns /\ kind # "either"
  BY <1>1, StartFacts
<1>3. Ready(cl, tag, b, alt, from) /\ from \notin Locals
  BY <1>1, HandedReady
<1>4. PICK body, has : body = ErasedEmplace(b, alt, from, how) /\ has = Holds(b)
  OBVIOUS
<1>5. has \in BOOLEAN /\ (has <=> Names(tag[b]))
  BY <1>4 DEF Holds, Names
<1>6. CASE tag[b] = Gone
  <2>1. ErasedPut(b, alt, from, how) = <<SetTag(b, Empty)>> \o OrNoBox(b, body)
    BY <1>4, <1>6 DEF ErasedPut, Exists
  <2>2. Ready(cl, t1, b, alt, from)
    <3>1. t1 \in TagFns /\ Clear(cl, {from})
      BY <1>1, <1>2, <1>3, CellAssumption DEF TagFns, Tags, Ready
    <3> QED BY <1>2, <1>3, <3>1, ReadyAfter
  <2>3. t1[b] = Empty /\ ~Names(t1[b]) /\ ~has
    BY <1>1, <1>2, <1>5, <1>6 DEF TagFns, Names
  <2>4. BoxFits(cl, t1, b) /\ IsUndo(NoBox(b))
    BY <1>2, <1>6, <2>3, BareFits DEF Names, IsUndo, NoBox
  <2>5. t1[b] \in Types \cup {Empty} /\ (Holds(b) <=> Names(t1[b]))
    BY <1>4, <2>3
  <2>6. Places(ErasedEmplace(b, alt, from, how), cl, t1, NoBox(b), b, alt, from, how)
    BY ONLY <1>2, kind = "erased", <1>3, <2>2, <2>4, <2>5, ErasedEmplacePlaces
  <2>7. Places(body, cl, t1, NoBox(b), b, alt, from, how)
    BY <1>4, <2>6
  <2>8. Does(<<SetTag(b, Empty)>> \o OrNoBox(b, body), cl, tag, <<>>, may, t2, W)
    BY <1>1, <1>2, <1>3, <1>6, <2>7, PutNewDoes
  <2> QED BY <1>1, <2>1, <2>8, PutSafely
<1>7. CASE tag[b] # Gone
  <2>1. ErasedPut(b, alt, from, how) = body
    BY <1>4, <1>7 DEF ErasedPut, Exists
  <2>2. tag[b] \in Types \cup {Empty} /\ IsUndo(<<>>)
    BY <1>2, <1>7 DEF TagFits, Alternatives, IsUndo
  <2>3. Holds(b) <=> Names(tag[b])
    BY <1>4, <1>5
  <2>4. Places(ErasedEmplace(b, alt, from, how), cl, tag, <<>>, b, alt, from, how)
    BY ONLY <1>2, kind = "erased", <1>3, <2>2, <2>3, ErasedEmplacePlaces
  <2>5. Places(body, cl, tag, <<>>, b, alt, from, how)
    BY <1>4, <2>4
  <2>6. Does(body, cl, tag, <<>>, may, t2, W)
    BY <1>1, <1>2, <1>3, <2>5, PutDoes
  <2> QED BY <1>1, <2>1, <2>6, PutSafely
<1> QED BY <1>6, <1>7

-----------------------------------------------------------------------------
(* copy and move *)

IsCall(op, name, b, o) ==
  op.name = name /\ op.box = b /\ op.other = o /\ (op.erasing <=> kind = "erased")

(* What was handed over is the effect of a copy, and of a move that leaves an object. *)
LEMMA HandSafely ==
  ASSUME NEW cl, NEW b \in Boxes, NEW o \in Boxes, NEW op, NEW how, NEW body, NEW may, NEW t2, NEW W,
         Starts(cl), b # o, tag[o] # Gone, IsCall(op, how, b, o),
         how = "copy" \/ (how = "move" /\ kind # "erased"), may => how = "copy",
         t2 = HandTags(tag, b, o), W = HandValues(ValuesOf(cl, tag), b, o, how),
         Does(body, cl, tag, <<>>, may, t2, W)
  PROVE  Safely(body, cl, op)
<1>1. PICK V : V = ValuesOf(cl, tag)
  OBVIOUS
<1>2. /\ tag \in TagFns /\ b # Temp /\ o # Temp /\ tag[Temp] = Gone
      /\ V = [x \in AllBoxes |-> V[x]] /\ ContentsOf(cl, tag) = ContentsBy(tag, V)
      /\ V[o] \in Vals \cup {Moved, Raw}
  BY <1>1, StartFacts
<1>3. ContentsBy(t2, W) = EffectOf(op, ContentsBy(tag, V))
  <2>1. t2 = HandTags(tag, b, o) /\ W = HandValues(V, b, o, how)
    BY <1>1
  <2>2. CASE how = "copy"
    <3>1. ContentsBy(HandTags(tag, b, o), HandValues(V, b, o, "copy")) =
            With(ContentsBy(tag, V), b, ContentsBy(tag, V)[o])
      BY <1>2, CopyContents
    <3>2. EffectOf(op, ContentsBy(tag, V)) = With(ContentsBy(tag, V), b, ContentsBy(tag, V)[o])
      BY <2>2, EffectIs DEF IsCall
    <3> QED BY <2>1, <2>2, <3>1, <3>2
  <2>3. CASE how = "move" /\ kind # "erased"
    <3>1. ~op.erasing
      BY <2>3 DEF IsCall
    <3>2. ContentsBy(HandTags(tag, b, o), HandValues(V, b, o, "move")) =
            Moving(op, ContentsBy(tag, V), b, o)
      BY <1>2, <3>1, MoveContents
    <3>3. EffectOf(op, ContentsBy(tag, V)) = Moving(op, ContentsBy(tag, V), b, o)
      BY <2>3, EffectIs DEF IsCall
    <3> QED BY <2>1, <2>3, <3>2, <3>3
  <2> QED BY <2>2, <2>3
<1>4. t2[Temp] = Gone
  BY <1>2 DEF TagFns, HandTags
<1>5. ContentsBy(t2, W) = EffectOf(op, ContentsOf(cl, tag)) /\ (may => MayEndInThrow(op))
  BY <1>2, <1>3 DEF IsCall, MayEndInThrow
<1>6. Does(body, cl, tag, <<>>, may, t2, W) /\ Starts(cl)
  OBVIOUS
<1> QED BY ONLY <1>4, <1>5, <1>6, DoesSafely

(* A box copied or moved onto itself *)
LEMMA SelfSafely ==
  ASSUME NEW cl, NEW b \in Boxes, NEW op, NEW how, Starts(cl), IsCall(op, how, b, b),
         how \in {"copy", "move", "swap"}
  PROVE  Safely(<<>>, cl, op)
<1>1. PICK bf : bf = ContentsOf(cl, tag)
  OBVIOUS
<1>2. bf = [x \in Boxes |-> bf[x]]
  BY <1>1 DEF ContentsOf, ContentsBy
<1>3. EffectOf(op, bf) = bf
  <2>1. op.name = how /\ b = op.box /\ b = op.other
    BY DEF IsCall
  <2>2. /\ op.name = "copy" => EffectOf(op, bf) = With(bf, b, bf[b])
        /\ op.name = "move" => EffectOf(op, bf) = bf
        /\ op.name = "swap" => EffectOf(op, bf) = Swapping(bf, b, b)
    BY <2>1 DEF EffectOf, With, Swapping
  <2>3. With(bf, b, bf[b]) = bf /\ Swapping(bf, b, b) = bf
    BY <1>2 DEF With, Swapping
  <2> QED BY <2>1, <2>2, <2>3
<1> QED BY <1>1, <1>3, NothingSafely

(* either_t's constructors from another, by the tag it has. *)
LEMMA EitherCopyIs ==
  ASSUME NEW b, NEW o, NEW alt, NEW from, NEW mid, alt = tag[o], from = CellOf(o, alt)
  PROVE  /\ mid = OfObject(alt, OrNoBox(b, <<Make(CellOf(b, alt), from, "copy")>>))
              => EitherCopyConstruct(b, o) = Around(SetTag(b, Empty), mid, SetTag(b, alt))
         /\ mid = OfObject(alt, <<Make(CellOf(b, alt), from, "move")>>)
              => EitherMoveConstruct(b, o) = Around(SetTag(b, Empty), mid, SetTag(b, alt))
BY DEF EitherCopyConstruct, EitherMoveConstruct, Around, Held

(* Every copy and move of either_t ends as one may. *)
LEMMA EitherGiveSafely ==
  ASSUME kind = "either", NEW cl, NEW b \in Boxes, NEW o \in Boxes, NEW op, NEW how, NEW body,
         Starts(cl), tag[o] # Gone, IsCall(op, how, b, o),
         \/ how = "copy" /\ (tag[b] # Gone => StrongFirst)
         \/ how = "move" /\ NothrowMoves,
         body = IF Exists(b) THEN EitherAssign(b, o, how)
                ELSE IF how = "copy" THEN EitherCopyConstruct(b, o) ELSE EitherMoveConstruct(b, o)
  PROVE  Safely(body, cl, op)
<1>1. CASE b = o
  <2>1. body = <<>>
    BY <1>1 DEF Exists, EitherAssign
  <2> QED BY <1>1, <2>1, SelfSafely
<1>2. CASE b # o
  <2>1. PICK alt, from, may, t2, W :
          /\ alt = tag[o] /\ from = CellOf(o, alt) /\ t2 = [tag EXCEPT ![b] = alt]
          /\ W = [ValuesOf(cl, tag) EXCEPT ![b] = ValuesOf(cl, tag)[o], ![o] = LeftValue(@, how)]
          /\ may \in BOOLEAN /\ (may <=> how = "copy")
    <3>1. (how = "copy") \in BOOLEAN
      OBVIOUS
    <3> QED BY <3>1
  <2>2. /\ KindFits /\ Tidy(cl, tag) /\ BoxFits(cl, tag, b) /\ TagFits(tag[b]) /\ TagFits(tag[o])
        /\ b \in AllBoxes /\ o \in AllBoxes /\ tag \in TagFns
    BY StartFacts
  <2>3. alt \in Alternatives /\ Names(alt) /\ alt \in {"first", "second"}
    BY <2>1, <2>2, AlternativeFacts DEF TagFits, Alternatives
  <2>4. Ready(cl, tag, b, alt, from) /\ from \notin Locals
    BY <1>2, <2>1, <2>2, <2>3, HandReady
  <2>5. how = "move" => ~Throws("first", how) /\ ~Throws("second", how)
    BY <2>2 DEF NothrowMoves, Throws, TypeOf
  <2>6. Throws(alt, how) => may
    BY <2>1, <2>3, <2>5
  <2>7. Places(body, cl, tag, <<>>, b, alt, from, how)
    <3>1. CASE tag[b] = Gone
      <4>1. Bare(cl, b)
        BY <2>2, <3>1, BareFits DEF Names
      <4>2. PICK c : c = CellOf(b, alt)
        OBVIOUS
      <4>3. CASE how = "copy"
        <5>1. PICK mid : mid = OfObject(alt, OrNoBox(b, <<Make(c, from, how)>>))
          OBVIOUS
        <5>2. mid = OfObject(alt, OrNoBox(b, <<Make(CellOf(b, alt), from, "copy")>>))
          BY <4>2, <4>3, <5>1
        <5>3. body = EitherCopyConstruct(b, o)
          BY <3>1, <4>3 DEF Exists
        <5>4. body = Around(SetTag(b, Empty), mid, SetTag(b, alt))
          BY <2>1, <5>2, <5>3, EitherCopyIs
        <5>5. Places(Around(SetTag(b, Empty), mid, SetTag(b, alt)), cl, tag, <<>>, b, alt, from, how)
          BY ONLY <2>2, <2>4, <3>1, <4>1, <4>2, <5>1, EitherCopyConstructPlaces
        <5> QED BY <5>4, <5>5
      <4>4. CASE how = "move"
        <5>1. PICK mid : mid = OfObject(alt, <<Make(c, from, how)>>)
          OBVIOUS
        <5>2. mid = OfObject(alt, <<Make(CellOf(b, alt), from, "move")>>)
          BY <4>2, <4>4, <5>1
        <5>3. body = EitherMoveConstruct(b, o)
          BY <3>1, <4>4 DEF Exists
        <5>4. body = Around(SetTag(b, Empty), mid, SetTag(b, alt))
          BY <2>1, <5>2, <5>3, EitherCopyIs
        <5>5. ~Throws(alt, how)
          BY <2>3, <2>5, <4>4
        <5>6. Places(Around(SetTag(b, Empty), mid, SetTag(b, alt)), cl, tag, <<>>, b, alt, from, how)
          BY ONLY <2>2, <2>4, <3>1, <4>1, <4>2, <5>1, <5>5, EitherMoveConstructPlaces
        <5> QED BY <5>4, <5>6
      <4> QED BY <4>3, <4>4
    <3>2. CASE tag[b] # Gone
      <4>1. tag[b] \in {"first", "second"}
        BY <2>2, <3>2 DEF TagFits, Alternatives
      <4>2. body = EitherAssign(b, o, how)
        BY <3>2 DEF Exists
      <4>3. CASE alt = "first"
        <5>1. from = First(o) /\ body = EmplaceFirst(b, from, how)
          BY <1>2, <2>1, <4>2, <4>3 DEF EitherAssign, CellOf
        <5>2. T # Void => CanStrongReplace(T) \/ NothrowOf(T, how)
          BY <3>2, <2>5 DEF StrongFirst, Throws, TypeOf, NothrowMoves
        <5>3. Ready(cl, tag, b, "first", from)
          BY <2>4, <4>3
        <5>4. Places(EmplaceFirst(b, from, how), cl, tag, <<>>, b, "first", from, how)
          BY <2>2, <4>1, <5>2, <5>3, EmplaceFirstPlaces
        <5> QED BY <4>3, <5>1, <5>4
      <4>4. CASE alt = "second"
        <5>1. from = Second(o) /\ body = EmplaceSecond(b, from, how)
          BY <1>2, <2>1, <4>2, <4>4 DEF EitherAssign, CellOf
        <5>2. CanStrongReplace(U) \/ NothrowOf(U, how)
          BY <2>2, BoxAssumption DEF KindFits, CanStrongReplace, CanStrongConstruct
        <5>3. Ready(cl, tag, b, "second", from) /\ from # Tmp
          BY <2>4, <4>4, LocalCells
        <5>4. Places(EmplaceSecond(b, from, how), cl, tag, <<>>, b, "second", from, how)
          BY <2>2, <4>1, <5>2, <5>3, EmplaceSecondPlaces
        <5> QED BY <4>4, <5>1, <5>4
      <4> QED BY <2>3, <4>3, <4>4
    <3> QED BY <3>1, <3>2
  <2>8. Does(body, cl, tag, <<>>, may, t2, W)
    BY <1>2, <2>1, <2>2, <2>3, <2>6, <2>7, HandDoes
  <2>9. t2 = HandTags(tag, b, o) /\ W = HandValues(ValuesOf(cl, tag), b, o, how)
    BY <2>1 DEF HandTags, HandValues
  <2>10. /\ how = "copy" \/ (how = "move" /\ kind # "erased")
         /\ may => how = "copy"
    BY <2>1
  <2>11. Starts(cl) /\ tag[o] # Gone /\ IsCall(op, how, b, o)
    OBVIOUS
  <2> QED BY ONLY b \in Boxes, o \in Boxes, <1>2, <2>8, <2>9, <2>10, <2>11, HandSafely
<1> QED BY <1>1, <1>2

(* A type whose moves do not throw can be replaced safely. *)
LEMMA InplaceMovesFreely ==
  ASSUME kind = "inplace", NothrowMoves
  PROVE  NothrowOf(T, "move") /\ CanStrongReplace(T) /\ ~Throws("first", "move")
BY DEF NothrowMoves, NothrowOf, CanStrongReplace, Throws, TypeOf

(* Every copy and move of inplace_t ends as one may. *)
LEMMA InplaceGiveSafely ==
  ASSUME kind = "inplace", NEW cl, NEW b \in Boxes, NEW o \in Boxes, NEW op, NEW how, NEW body,
         Starts(cl), tag[o] # Gone, IsCall(op, how, b, o),
         (how = "copy" /\ CanStrongReplace(T)) \/ (how = "move" /\ NothrowMoves),
         body = CASE b = o -> <<>>
                  [] b # o /\ Exists(b) -> InplaceAssign(b, Holds(b), o, Holds(o), how)
                  [] b # o /\ ~Exists(b) -> InplaceCreateFrom(b, o, Holds(o), how)
  PROVE  Safely(body, cl, op)
<1>1. CASE b = o
  <2>1. body = <<>>
    BY <1>1
  <2> QED BY <1>1, <2>1, SelfSafely
<1>2. CASE b # o
  <2>1. PICK may, t2, W, hasB, hasO :
          /\ t2 = HandTags(tag, b, o) /\ W = HandValues(ValuesOf(cl, tag), b, o, how)
          /\ may \in BOOLEAN /\ (may <=> how = "copy") /\ hasB = Holds(b) /\ hasO = Holds(o)
    <3>1. (how = "copy") \in BOOLEAN
      OBVIOUS
    <3> QED BY <3>1
  <2>2. /\ hasB \in BOOLEAN /\ hasO \in BOOLEAN
        /\ hasB <=> Names(tag[b])
        /\ hasO <=> Names(tag[o])
    BY <2>1 DEF Holds, Names
  <2>3. KindFits /\ Tidy(cl, tag) /\ b \in AllBoxes /\ o \in AllBoxes
    BY StartFacts
  <2>4. CanStrongReplace(T) /\ (how = "copy" \/ ~Throws("first", how)) /\ (Throws("first", how) => may)
    BY <2>1, InplaceMovesFreely
  <2>5. Does(body, cl, tag, <<>>, may, t2, W)
    <3>1. CASE tag[b] # Gone
      <4>1. body = InplaceAssign(b, hasB, o, hasO, how)
        BY <1>2, <2>1, <3>1 DEF Exists
      <4>2. Does(InplaceAssign(b, hasB, o, hasO, how), cl, tag, <<>>, may, t2, W)
        <5>1. /\ kind = "inplace" /\ tag[o] # Gone /\ t2 = HandTags(tag, b, o)
              /\ W = HandValues(ValuesOf(cl, tag), b, o, how)
          BY <2>1
        <5> QED BY ONLY <1>2, <2>2, <2>3, <2>4, <3>1, <5>1, InplaceAssignDoes
      <4> QED BY <4>1, <4>2
    <3>2. CASE tag[b] = Gone
      <4>1. body = InplaceCreateFrom(b, o, hasO, how)
        BY <1>2, <2>1, <3>2 DEF Exists
      <4>2. Does(InplaceCreateFrom(b, o, hasO, how), cl, tag, <<>>, may, t2, W)
        <5>1. /\ kind = "inplace" /\ tag[o] # Gone /\ t2 = HandTags(tag, b, o)
              /\ W = HandValues(ValuesOf(cl, tag), b, o, how)
          BY <2>1
        <5> QED BY ONLY <2>2, <2>3, <2>4, <3>2, <5>1, InplaceCreateFromDoes
      <4> QED BY <4>1, <4>2
    <3> QED BY <3>1, <3>2
  <2>6. /\ how = "copy" \/ (how = "move" /\ kind # "erased")
        /\ may => how = "copy"
        /\ t2 = HandTags(tag, b, o)
        /\ W = HandValues(ValuesOf(cl, tag), b, o, how)
    BY <2>1
  <2>7. Starts(cl) /\ tag[o] # Gone /\ IsCall(op, how, b, o)
    OBVIOUS
  <2> QED BY ONLY b \in Boxes, o \in Boxes, <1>2, <2>5, <2>6, <2>7, HandSafely
<1> QED BY <1>1, <1>2

(* Every copy of a wrapper ends as one may. *)
LEMMA ErasedCopySafely ==
  ASSUME kind = "erased", NEW cl, NEW b \in Boxes, NEW o \in Boxes, NEW op, NEW body,
         Starts(cl), tag[o] # Gone, IsCall(op, "copy", b, o),
         body = CASE b = o -> <<>>
                  [] b # o /\ Exists(b) -> ErasedCopyAssign(b, o)
                  [] b # o /\ ~Exists(b) -> ErasedCopyConstruct(b, o)
  PROVE  Safely(body, cl, op)
<1>1. CASE b = o
  <2>1. body = <<>>
    BY <1>1
  <2> QED BY <1>1, <2>1, SelfSafely
<1>2. CASE b # o
  <2>1. PICK may, how, t2, W :
          /\ t2 = HandTags(tag, b, o) /\ W = HandValues(ValuesOf(cl, tag), b, o, "copy") /\ may = TRUE
          /\ how = "copy"
    OBVIOUS
  <2>2. /\ KindFits /\ Tidy(cl, tag) /\ b \in AllBoxes /\ o \in AllBoxes /\ b # Temp
        /\ o # Temp /\ tag[Temp] = Gone
    BY StartFacts
  <2>3. /\ kind = "erased" /\ tag[o] # Gone /\ (Names(tag[o]) /\ Throws(tag[o], "copy") => may)
        /\ t2 = HandTags(tag, b, o) /\ W = HandValues(ValuesOf(cl, tag), b, o, "copy")
    BY <2>1
  <2>4. Does(body, cl, tag, <<>>, may, t2, W)
    <3>1. CASE tag[b] # Gone
      <4>1. body = ErasedCopyAssign(b, o)
        BY <1>2, <3>1 DEF Exists
      <4>2. Does(ErasedCopyAssign(b, o), cl, tag, <<>>, may, t2, W)
        BY ONLY <1>2, <2>2, <2>3, <3>1, ErasedCopyAssignDoes
      <4> QED BY <4>1, <4>2
    <3>2. CASE tag[b] = Gone
      <4>1. body = ErasedCopyConstruct(b, o)
        BY <1>2, <3>2 DEF Exists
      <4>2. Does(ErasedCopyConstruct(b, o), cl, tag, <<>>, may, t2, W)
        BY ONLY <2>2, <2>3, <3>2, ErasedCopyConstructDoes
      <4> QED BY <4>1, <4>2
    <3> QED BY <3>1, <3>2
  <2>5. /\ how = "copy" \/ (how = "move" /\ kind # "erased")
        /\ may => how = "copy"
        /\ t2 = HandTags(tag, b, o)
        /\ W = HandValues(ValuesOf(cl, tag), b, o, how)
        /\ Starts(cl) /\ tag[o] # Gone /\ IsCall(op, how, b, o)
    BY <2>1
  <2> QED BY ONLY b \in Boxes, o \in Boxes, <1>2, <2>4, <2>5, HandSafely
<1> QED BY <1>1, <1>2

(* Every move of a wrapper ends as one may. *)
LEMMA ErasedMoveSafely ==
  ASSUME kind = "erased", NEW cl, NEW b \in Boxes, NEW o \in Boxes, NEW op, NEW body,
         Starts(cl), tag[o] # Gone, IsCall(op, "move", b, o),
         body = IF Exists(b) THEN ErasedMoveAssign(b, o) ELSE ErasedMoveConstruct(b, o)
  PROVE  Safely(body, cl, op)
<1>1. CASE b = o
  <2>1. body = <<>>
    BY <1>1 DEF Exists, ErasedMoveAssign
  <2> QED BY <1>1, <2>1, SelfSafely
<1>2. CASE b # o
  <2>1. PICK free, t2, W, V :
          /\ V = ValuesOf(cl, tag) /\ t2 = GivenTags(tag, b, o) /\ W = GivenValues(V, b, o)
          /\ free = FALSE
    OBVIOUS
  <2>2. /\ KindFits /\ Tidy(cl, tag) /\ b \in AllBoxes /\ o \in AllBoxes /\ b # Temp /\ o # Temp
        /\ tag[Temp] = Gone /\ tag \in TagFns
        /\ V = [x \in AllBoxes |-> V[x]] /\ ContentsOf(cl, tag) = ContentsBy(tag, V)
    BY <2>1, StartFacts
  <2>3. /\ kind = "erased" /\ tag[o] # Gone /\ free = FALSE
        /\ t2 = GivenTags(tag, b, o) /\ W = GivenValues(ValuesOf(cl, tag), b, o)
    BY <2>1
  <2>4. /\ tag[b] = Gone => Does(ErasedMoveConstruct(b, o), cl, tag, <<>>, free, t2, W)
        /\ tag[b] # Gone => Does(ErasedMoveAssign(b, o), cl, tag, <<>>, free, t2, W)
    BY ONLY <1>2, <2>2, <2>3, ErasedMoveBoxDoes
  <2>5. Does(body, cl, tag, <<>>, free, t2, W)
    BY <2>4 DEF Exists
  <2>6. ContentsBy(t2, W) = EffectOf(op, ContentsBy(tag, V))
    <3>1. op.erasing
      BY DEF IsCall
    <3>2. ContentsBy(GivenTags(tag, b, o), GivenValues(V, b, o)) = Moving(op, ContentsBy(tag, V), b, o)
      BY <1>2, <2>2, <3>1, GiveContents
    <3>3. EffectOf(op, ContentsBy(tag, V)) = Moving(op, ContentsBy(tag, V), b, o)
      BY <1>2, EffectIs DEF IsCall
    <3> QED BY <2>1, <3>2, <3>3
  <2>7. t2[Temp] = Gone
    BY <2>1, <2>2, TempApart DEF TagFns, GivenTags
  <2>8. /\ ContentsBy(t2, W) = EffectOf(op, ContentsOf(cl, tag)) /\ (free => MayEndInThrow(op))
        /\ Starts(cl)
    BY <2>1, <2>2, <2>6
  <2> QED BY ONLY <2>5, <2>7, <2>8, DoesSafely
<1> QED BY <1>1, <1>2

-----------------------------------------------------------------------------
(* swap *)

(* A body that swaps two boxes is what a swap may do. *)
LEMMA SwapSafely ==
  ASSUME NEW cl, NEW b \in Boxes, NEW o \in Boxes, NEW op, NEW body, NEW free, NEW t2, NEW W,
         Starts(cl), b # o, IsCall(op, "swap", b, o), free = FALSE,
         t2 = Swapping(tag, b, o), W = Swapping(ValuesOf(cl, tag), b, o),
         Does(body, cl, tag, <<>>, free, t2, W)
  PROVE  Safely(body, cl, op)
<1>1. PICK V : V = ValuesOf(cl, tag)
  OBVIOUS
<1>2. /\ tag \in TagFns /\ b # Temp /\ o # Temp /\ tag[Temp] = Gone
      /\ V = [x \in AllBoxes |-> V[x]] /\ ContentsOf(cl, tag) = ContentsBy(tag, V)
  BY <1>1, StartFacts
<1>3. ContentsBy(t2, W) = EffectOf(op, ContentsBy(tag, V))
  <2>1. ContentsBy(Swapping(tag, b, o), Swapping(V, b, o)) = Swapping(ContentsBy(tag, V), b, o)
    BY <1>2, SwapContents
  <2>2. EffectOf(op, ContentsBy(tag, V)) = Swapping(ContentsBy(tag, V), b, o)
    BY EffectIs DEF IsCall
  <2> QED BY <1>1, <2>1, <2>2
<1>4. t2[Temp] = Gone
  BY <1>2, TempApart DEF TagFns, Swapping
<1>5. /\ ContentsBy(t2, W) = EffectOf(op, ContentsOf(cl, tag)) /\ (free => MayEndInThrow(op))
      /\ Does(body, cl, tag, <<>>, free, t2, W) /\ Starts(cl)
  BY <1>2, <1>3
<1> QED BY ONLY <1>4, <1>5, DoesSafely

(* Every swap ends as one may. *)
LEMMA AnySwapSafely ==
  ASSUME NEW cl, NEW b \in Boxes, NEW o \in Boxes, NEW op, Starts(cl), IsCall(op, "swap", b, o),
         tag[b] # Gone, tag[o] # Gone
  PROVE  /\ kind = "either" /\ (T # Void => CanStrongConstruct(T)) => Safely(EitherSwap(b, o), cl, op)
         /\ b = o => Safely(<<>>, cl, op)
         /\ kind = "inplace" /\ NothrowMoves /\ b # o =>
              Safely(InplaceSwap(b, o), cl, op) /\ Safely(InplaceSwapSizes(b, o), cl, op)
         /\ kind = "erased" /\ b # o => Safely(ErasedSwap(b, tag[b], o, tag[o]), cl, op)
<1>1. CASE b = o
  <2>1. Safely(<<>>, cl, op)
    BY <1>1, SelfSafely
  <2>2. EitherSwap(b, o) = <<>>
    BY <1>1 DEF EitherSwap
  <2> QED BY <1>1, <2>1, <2>2
<1>2. CASE b # o
  <2>1. PICK free, t2, W, tx, ty :
          /\ t2 = [tag EXCEPT ![b] = tag[o], ![o] = tag[b]]
          /\ W = [ValuesOf(cl, tag) EXCEPT ![b] = ValuesOf(cl, tag)[o], ![o] = ValuesOf(cl, tag)[b]]
          /\ free = FALSE /\ tx = tag[b] /\ ty = tag[o]
    OBVIOUS
  <2>2. /\ KindFits /\ Tidy(cl, tag) /\ b \in AllBoxes /\ o \in AllBoxes /\ b # Temp /\ o # Temp
        /\ tag[Temp] = Gone
    BY StartFacts
  <2>3. /\ t2 = Swapping(tag, b, o) /\ W = Swapping(ValuesOf(cl, tag), b, o) /\ free = FALSE
        /\ Starts(cl) /\ IsCall(op, "swap", b, o)
    BY <2>1 DEF Swapping
  <2>4. ASSUME NEW body, Does(body, cl, tag, <<>>, free, t2, W)
        PROVE  Safely(body, cl, op)
    BY ONLY b \in Boxes, o \in Boxes, <1>2, <2>3, <2>4, SwapSafely
  <2>5. tag[b] # Gone /\ tag[o] # Gone
    OBVIOUS
  <2>6. ASSUME kind = "either", T # Void => CanStrongConstruct(T)
        PROVE  Safely(EitherSwap(b, o), cl, op)
    <3>1. Does(EitherSwap(b, o), cl, tag, <<>>, free, t2, W)
      BY ONLY <1>2, <2>1, <2>2, <2>5, <2>6, EitherSwapDoes
    <3> QED BY <2>4, <3>1
  <2>7. ASSUME kind = "inplace", NothrowMoves
        PROVE  Safely(InplaceSwap(b, o), cl, op) /\ Safely(InplaceSwapSizes(b, o), cl, op)
    <3>1. NothrowOf(T, "move")
      BY <2>7, InplaceMovesFreely
    <3>2. Does(InplaceSwap(b, o), cl, tag, <<>>, free, t2, W)
      BY ONLY <1>2, <2>1, <2>2, <2>5, <2>7, <3>1, InplaceSwapDoes
    <3>3. Does(InplaceSwapSizes(b, o), cl, tag, <<>>, free, t2, W)
      BY ONLY <1>2, <2>1, <2>2, <2>5, <2>7, <3>1, InplaceSwapSizesDoes
    <3> QED BY <2>4, <3>2, <3>3
  <2>8. ASSUME kind = "erased"
        PROVE  Safely(ErasedSwap(b, tag[b], o, tag[o]), cl, op)
    <3>1. tx # Gone /\ ty # Gone
      BY <2>1, <2>5
    <3>2. Does(ErasedSwap(b, tx, o, ty), cl, tag, <<>>, free, t2, W)
      BY ONLY <1>2, <2>1, <2>2, <2>8, <3>1, ErasedSwapDoes
    <3> QED BY <2>1, <2>4, <3>2
  <2> QED BY <1>2, <2>6, <2>7, <2>8
<1> QED BY <1>1, <1>2

-----------------------------------------------------------------------------
(* create, clear, steal and destroy: the box ends empty or gone *)

(* A body that empties a box or takes it away is what a clear or destroy may do. *)
LEMMA NoneSafely ==
  ASSUME NEW cl, NEW b \in Boxes, NEW op, NEW body, NEW free, NEW t, NEW t2, NEW W, Starts(cl),
         IsCall(op, op.name, b, b), t = Empty \/ t = Gone, free = FALSE,
         op.name \in (IF t = Empty THEN {"create", "clear"} ELSE {"destroy"}),
         t2 = [tag EXCEPT ![b] = t], W = [ValuesOf(cl, tag) EXCEPT ![b] = Raw],
         Does(body, cl, tag, <<>>, free, t2, W)
  PROVE  Safely(body, cl, op)
<1>1. PICK V : V = ValuesOf(cl, tag)
  OBVIOUS
<1>2. /\ tag \in TagFns /\ b # Temp /\ tag[Temp] = Gone
      /\ V = [x \in AllBoxes |-> V[x]] /\ ContentsOf(cl, tag) = ContentsBy(tag, V)
  BY <1>1, StartFacts
<1>3. ContentsBy(t2, W) = EffectOf(op, ContentsBy(tag, V))
  <2>1. t2 = With(tag, b, t) /\ W = With(V, b, Raw) /\ (t = Empty \/ t = Gone)
    BY <1>1 DEF With
  <2>2. ContentsBy(t2, W) = With(ContentsBy(tag, V), b, t)
    BY ONLY b \in Boxes, <1>2, <2>1, NoneContents
  <2>3. EffectOf(op, ContentsBy(tag, V)) = With(ContentsBy(tag, V), b, t)
    <3>1. CASE t = Empty
      BY <3>1, EffectIs DEF IsCall
    <3>2. CASE t = Gone
      <4>1. op.name = "destroy"
        BY <3>2, CellAssumption
      <4> QED BY <3>2, <4>1, EffectIs DEF IsCall
    <3> QED BY <3>1, <3>2
  <2> QED BY <2>2, <2>3
<1>4. t2[Temp] = Gone
  BY <1>2 DEF TagFns
<1>5. /\ ContentsBy(t2, W) = EffectOf(op, ContentsOf(cl, tag)) /\ (free => MayEndInThrow(op))
      /\ Does(body, cl, tag, <<>>, free, t2, W) /\ Starts(cl)
  BY <1>2, <1>3
<1> QED BY ONLY <1>4, <1>5, DoesSafely

(* Every steal ends as one may, with its loss for the types whose move may throw. *)
LEMMA StealSafely ==
  ASSUME kind = "inplace", NEW cl, NEW b \in Boxes, NEW op, Starts(cl), IsCall(op, "steal", b, b),
         Holds(b), ~LiveIn(cl, Args), op.weak <=> ~NothrowOf(T, "move")
  PROVE  Safely(InplaceSteal(b), cl, op)
<1>1. PICK V, W, t1, bf, P, none, th :
        /\ V = ValuesOf(cl, tag) /\ W = [V EXCEPT ![b] = Raw] /\ none = Empty
        /\ t1 = [tag EXCEPT ![b] = none] /\ bf = ContentsBy(tag, V) /\ P = Outcomes(op, bf) /\ th = FALSE
  OBVIOUS
<1>2. /\ KindFits /\ Tidy(cl, tag) /\ b \in AllBoxes /\ b # Temp /\ tag[Temp] = Gone /\ tag \in TagFns
      /\ V = [x \in AllBoxes |-> V[x]] /\ ContentsOf(cl, tag) = ContentsBy(tag, V)
  BY <1>1, StartFacts
<1>3. t1[Temp] = Gone /\ Names(tag[b]) /\ kind # "either"
  BY <1>1, <1>2 DEF TagFns, Holds, Names
<1>4. Throws("first", "move") <=> op.weak
  BY <1>2, BoxAssumption DEF Throws, TypeOf, KindFits
<1>5. ASSUME NEW c2, Vacant(c2, cl, b)
      PROVE  <<c2, t1, th>> \in P /\ (op.weak => <<c2, t1, TRUE>> \in P)
  <2>1. Tidy(c2, t1) /\ ValuesOf(c2, t1) = W
    <3>1. W = [ValuesOf(cl, tag) EXCEPT ![b] = Raw] /\ (none = Gone \/ (none = Empty /\ kind # "either"))
      BY <1>1, <1>3
    <3>2. t1 = [tag EXCEPT ![b] = none]
      BY <1>1
    <3> QED BY ONLY <1>2, <1>5, <3>1, <3>2, EmptyTidy
  <2>2. ContentsBy(t1, W) = With(ContentsBy(tag, V), b, none)
    <3>1. t1 = With(tag, b, none) /\ W = With(V, b, Raw) /\ (none = Empty \/ none = Gone)
      BY <1>1 DEF With
    <3> QED BY ONLY b \in Boxes, <1>2, <3>1, NoneContents
  <2>3. ContentsOf(c2, t1) = With(bf, b, Empty)
    BY <1>1, <2>1, <2>2 DEF ContentsOf
  <2>4. EffectOf(op, bf) = With(bf, b, Empty)
    BY EffectIs DEF IsCall
  <2>5. [bf EXCEPT ![op.box] = Empty] = With(bf, b, Empty)
    BY DEF IsCall, With
  <2>6. Ended(c2, t1, th, op, bf)
    BY <1>1, <1>3, <2>1, <2>3, <2>4 DEF Ended
  <2>7. op.weak => Ended(c2, t1, TRUE, op, bf)
    BY <1>3, <2>1, <2>3, <2>5 DEF Ended, MayEndInThrow
  <2> QED BY <1>1, <2>6, <2>7, InOutcomes
<1>6. Throws("first", "move") => Unwinds(cl, tag, <<>>, P)
  <2>1. SUFFICES ASSUME op.weak
                 PROVE  Unwinds(cl, tag, <<>>, P)
    BY <1>4
  <2>2. MayEndInThrow(op) /\ P = Outcomes(op, ContentsOf(cl, tag))
    BY <1>1, <1>2, <2>1 DEF MayEndInThrow
  <2> QED BY <2>2, UnwindsKept
<1>7. t1 = [tag EXCEPT ![b] = Empty]
  BY <1>1
<1>8. \A c2 : Vacant(c2, cl, b) => <<c2, t1, th>> \in P
  BY <1>5
<1>9. \A c2 : Throws("first", "move") /\ Vacant(c2, cl, b) => <<c2, t1, TRUE>> \in P
  BY <1>4, <1>5
<1>10. Fine(cl, tag, InplaceSteal(b), <<>>, th, P)
  BY <1>1, <1>2, <1>3, <1>6, <1>7, <1>8, <1>9, InplaceStealFine
<1> QED BY <1>1, <1>2, <1>10 DEF Safely

(* Every creation, clear and destruction ends as one may. *)
LEMMA AnyNoneSafely ==
  ASSUME NEW cl, NEW b \in Boxes, NEW op, Starts(cl), IsCall(op, op.name, b, b)
  PROVE  /\ op.name = "create" /\ kind # "either" /\ tag[b] = Gone => Safely(<<SetTag(b, Empty)>>, cl, op)
         /\ op.name = "clear" /\ kind = "inplace" /\ tag[b] # Gone =>
              Safely(InplaceDestroy(b, Holds(b)), cl, op)
         /\ op.name = "clear" /\ kind = "erased" /\ tag[b] # Gone => Safely(ErasedClear(b), cl, op)
         /\ op.name = "destroy" => Safely(DropHeld(b) \o <<SetTag(b, Gone)>>, cl, op)
<1>1. PICK V : V = ValuesOf(cl, tag)
  OBVIOUS
<1>2. /\ KindFits /\ Tidy(cl, tag) /\ b \in AllBoxes /\ b # Temp /\ tag \in TagFns
      /\ V = [x \in AllBoxes |-> V[x]]
  BY <1>1, StartFacts
<1>3. PICK free, t1, t2, W, hasB, none, gone :
        /\ free = FALSE /\ none = Empty /\ gone = Gone
        /\ t1 = [tag EXCEPT ![b] = none] /\ t2 = [tag EXCEPT ![b] = gone]
        /\ W = [ValuesOf(cl, tag) EXCEPT ![b] = Raw] /\ hasB = Holds(b)
  OBVIOUS
<1>4. hasB \in BOOLEAN /\ (hasB <=> Names(tag[b]))
  BY <1>3 DEF Holds, Names
<1>5. ASSUME NEW body, Does(body, cl, tag, <<>>, free, t1, W), op.name \in {"create", "clear"}
      PROVE  Safely(body, cl, op)
  <2>1. /\ none = Empty \/ none = Gone
        /\ op.name \in (IF none = Empty THEN {"create", "clear"} ELSE {"destroy"})
    BY <1>3, <1>5
  <2> QED BY <1>3, <1>5, <2>1, NoneSafely
<1>6. ASSUME op.name = "create", kind # "either", tag[b] = Gone
      PROVE  Safely(<<SetTag(b, Empty)>>, cl, op)
  <2>1. t1 = [tag EXCEPT ![b] = Empty]
    BY <1>3
  <2>2. Does(<<SetTag(b, Empty)>>, cl, tag, <<>>, free, t1, ValuesOf(cl, tag))
    BY ONLY <1>2, <1>6, <2>1, NewEmptyDoes
  <2>3. V[b] = Raw
    BY <1>1, <1>2, <1>6 DEF ValuesOf, ValueIn, Names
  <2>4. W = ValuesOf(cl, tag)
    BY <1>1, <1>2, <1>3, <2>3
  <2> QED BY <1>5, <1>6, <2>2, <2>4
<1>7. ASSUME op.name = "clear", kind # "either", tag[b] # Gone
      PROVE  Safely(InplaceDestroy(b, hasB), cl, op)
  <2>1. t1 = [tag EXCEPT ![b] = Empty] /\ W = [ValuesOf(cl, tag) EXCEPT ![b] = Raw]
    BY <1>3
  <2>2. Does(InplaceDestroy(b, hasB), cl, tag, <<>>, free, t1, W)
    BY ONLY <1>2, <1>4, <1>7, <2>1, EmptyDoes
  <2> QED BY <1>5, <1>7, <2>2
<1>8. ErasedClear(b) = InplaceDestroy(b, hasB)
  BY <1>3, ErasedClearIs
<1>9. ASSUME op.name = "destroy"
      PROVE  Safely(DropHeld(b) \o <<SetTag(b, Gone)>>, cl, op)
  <2>1. PICK drop : drop = DropBy(b, tag[b])
    OBVIOUS
  <2>2. DropHeld(b) = drop
    BY <2>1 DEF DropHeld, DropBy, OfObject, Held, Holds, Names
  <2>3. gone = Gone \/ (gone = Empty /\ kind # "either")
    BY <1>3
  <2>4. Does(drop \o <<SetTag(b, gone)>>, cl, tag, <<>>, free, t2, W)
    BY ONLY <1>2, <1>3, <2>1, <2>3, DestroyDoes
  <2>5. PICK body : body = drop \o <<SetTag(b, gone)>>
    OBVIOUS
  <2>6. /\ gone = Empty \/ gone = Gone
        /\ op.name \in (IF gone = Empty THEN {"create", "clear"} ELSE {"destroy"})
        /\ Does(body, cl, tag, <<>>, free, t2, W)
    BY <1>3, <1>9, <2>4, <2>5, CellAssumption
  <2>7. Safely(body, cl, op)
    BY <1>3, <2>6, NoneSafely
  <2> QED BY <1>3, <2>2, <2>5, <2>7
<1> QED BY <1>3, <1>6, <1>7, <1>8, <1>9

-----------------------------------------------------------------------------
(* The calls of the program *)

CallNames == {"put", "copy", "move", "swap", "create", "clear", "steal", "destroy"}

CallOps ==
  [name : CallNames, box : Boxes, other : Boxes, alt : Types \cup {"first", "second", Empty},
   arg : Vals \cup {Raw}, erasing : BOOLEAN, weak : BOOLEAN]

(* What a call has left: the operation op, about to begin with body on the cells cl. *)
Begun(cl, op, body) ==
  /\ op # Idle /\ Starts(cl) /\ ContentsOf(cl, tag) = ContentsOf(cell, tag)
  /\ Safely(body, cl, op)

(* The argument of a call is in no box. *)
LEMMA ArgsTidy ==
  ASSUME NEW args \in Objects \cup {Raw}, NEW cl, Starts(cell), cl = [cell EXCEPT ![Args] = args]
  PROVE  Starts(cl) /\ cl[Args] = args /\ ContentsOf(cl, tag) = ContentsOf(cell, tag)
<1>1. Tidy(cell, tag) /\ KindFits /\ tag[Temp] = Gone /\ cell \in CellFns /\ tag \in TagFns
  BY StartFacts
<1>2. cl \in CellFns /\ cl[Args] = args /\ \A c \in Cells \ {Args} : cl[c] = cell[c]
  BY <1>1, LocalCells DEF CellFns
<1>3. Clear(cl, {})
  BY <1>1, <1>2, LocalCells DEF Clear, Tidy, LiveIn
<1>4. \A x \in AllBoxes \ {} : SameBox(cl, tag, cell, tag, x)
  BY <1>2, BoxCells DEF SameBox
<1>5. PICK W, S : W = ValuesOf(cell, tag) /\ S = {}
  OBVIOUS
<1>6. W = [x \in AllBoxes |-> W[x]] /\ \A x \in AllBoxes \ S : W[x] = ValueIn(cell, tag, x)
  BY <1>5 DEF ValuesOf
<1>7. \A x \in AllBoxes \cap S : FALSE
  BY <1>5
<1>8. \A x \in AllBoxes \ S : SameBox(cl, tag, cell, tag, x)
  BY <1>4, <1>5
<1>9. Tidy(cl, tag) /\ ValuesOf(cl, tag) = W
  BY ONLY <1>1, <1>2, <1>3, <1>6, <1>7, <1>8, TidyAfter
<1> QED BY <1>1, <1>2, <1>5, <1>9 DEF Starts, ContentsOf

(* A call has its argument, changes no box and makes one of its bodies. *)
LEMMA BeginLeaves ==
  ASSUME NEW op \in CallOps, NEW bodies, NEW args \in Objects \cup {Raw}, NEW cl, NEW body,
         Starts(cell), Begin(op, bodies, args), cl = cell', body = todo'
  PROVE  /\ Starts(cl) /\ cl[Args] = args /\ ContentsOf(cl, tag) = ContentsOf(cell, tag)
         /\ body \in bodies /\ call' = op /\ op # Idle
<1>1. cl = [cell EXCEPT ![Args] = args] /\ body \in bodies /\ call' = op
  BY DEF Begin
<1>2. op # Idle
  BY CallAssumption DEF CallOps, CallNames
<1> QED BY <1>1, <1>2, ArgsTidy

(* An operation is a call with its name and its boxes. *)
LEMMA OpIs ==
  ASSUME NEW name \in CallNames, NEW b \in Boxes, NEW o \in Boxes, NEW op, op = Op(name, b, o)
  PROVE  op \in CallOps /\ IsCall(op, name, b, o)
<1>1. (kind = "erased") \in BOOLEAN /\ (kind = "inplace" /\ WeakIn(name, T)) \in BOOLEAN
  OBVIOUS
<1> QED BY <1>1 DEF Op, CallOps, IsCall

(* A put begins an operation that ends as it may. *)
LEMMA PutBegins ==
  ASSUME NEW cl, NEW op, NEW body, Starts(cell), CallPut, cl = cell', op = call', body = todo'
  PROVE  Begun(cl, op, body)
<1>1. PICK b \in Boxes, alt \in Alternatives, how \in Fields, w \in Vals :
        /\ CanPut(b, alt, how)
        /\ LET void == TypeOf(alt) = Void
               new == [Op("put", b, b) EXCEPT !.alt = alt, !.arg = IF void THEN Raw ELSE w]
               args == IF void THEN Raw ELSE [ty |-> TypeOf(alt), val |-> w]
           IN CASE kind = "either" -> Begin(new, EitherPut(b, alt, Args, how), args)
                [] kind = "inplace" -> Begin(new, {InplacePut(b, Args, how)}, args)
                [] kind = "erased" -> Begin(new, {ErasedPut(b, alt, Args, how)}, args)
  BY DEF CallPut
<1>2. PICK v : v = IF TypeOf(alt) = Void THEN Raw ELSE w
  OBVIOUS
<1>3. PICK args : args = IF TypeOf(alt) = Void THEN Raw ELSE [ty |-> TypeOf(alt), val |-> w]
  OBVIOUS
<1>4. PICK new : new = [Op("put", b, b) EXCEPT !.alt = alt, !.arg = v]
  OBVIOUS
<1>5. /\ kind = "either" => Begin(new, EitherPut(b, alt, Args, how), args)
      /\ kind = "inplace" => Begin(new, {InplacePut(b, Args, how)}, args)
      /\ kind = "erased" => Begin(new, {ErasedPut(b, alt, Args, how)}, args)
  BY <1>1, <1>2, <1>3, <1>4
<1>6. KindFits
  BY StartFacts
<1>7. TypeOf(alt) \in Types \cup {Void} /\ alt \in Types \cup {"first", "second", Empty}
  BY <1>6, AlternativeFacts DEF Alternatives, KindFits
<1>8. args \in Objects \cup {Raw} /\ v = ValOf(args)
  <2>1. CASE TypeOf(alt) = Void
    BY <1>2, <1>3, <2>1, CellAssumption DEF ValOf, Objects
  <2>2. CASE TypeOf(alt) # Void
    BY <1>2, <1>3, <1>7, <2>2 DEF ValOf, Objects
  <2> QED BY <2>1, <2>2
<1>9. new \in CallOps /\ IsPut(new, b, alt, v) /\ (new.weak <=> kind = "inplace" /\ ~CanStrongReplace(T))
  <2>1. Op("put", b, b) \in CallOps
    <3>1. PICK name : name = "put"
      OBVIOUS
    <3>2. name \in CallNames
      BY <3>1 DEF CallNames
    <3>3. Op(name, b, b) \in CallOps
      BY <3>2, OpIs
    <3> QED BY <3>1, <3>3
  <2>2. v \in Vals \cup {Raw}
    BY <1>2
  <2>3. WeakIn("put", T) <=> ~CanStrongReplace(T)
    BY DEF WeakIn
  <2> QED BY <1>4, <1>7, <2>1, <2>2, <2>3 DEF Op, CallOps, IsPut
<1>10. \E bodies :
         /\ Begin(new, bodies, args)
         /\ kind = "either" => bodies = EitherPut(b, alt, Args, how)
         /\ kind = "inplace" => bodies = {InplacePut(b, Args, how)}
         /\ kind = "erased" => bodies = {ErasedPut(b, alt, Args, how)}
  <2>1. CASE kind = "either"
    BY <1>5, <2>1
  <2>2. CASE kind = "inplace"
    BY <1>5, <2>2
  <2>3. CASE kind = "erased"
    BY <1>5, <2>3
  <2> QED BY <1>6, <2>1, <2>2, <2>3 DEF KindFits
<1>11. PICK bodies :
         /\ Begin(new, bodies, args)
         /\ kind = "either" => bodies = EitherPut(b, alt, Args, how)
         /\ kind = "inplace" => bodies = {InplacePut(b, Args, how)}
         /\ kind = "erased" => bodies = {ErasedPut(b, alt, Args, how)}
  BY <1>10
<1>12. /\ Starts(cl) /\ cl[Args] = args /\ ContentsOf(cl, tag) = ContentsOf(cell, tag)
       /\ body \in bodies /\ op = new /\ op # Idle
  BY <1>8, <1>9, <1>11, BeginLeaves
<1>13. Handed(cl, alt)
  <2>1. CASE TypeOf(alt) = Void
    BY <1>3, <1>12, <2>1 DEF Handed, LiveIn
  <2>2. CASE TypeOf(alt) # Void
    <3>1. args \in Objects /\ args.ty = TypeOf(alt)
      BY <1>3, <1>7, <2>2 DEF Objects
    <3>2. args \notin {Raw, Null}
      BY <3>1, CellAssumption DEF Objects
    <3> QED BY <1>12, <2>2, <3>1, <3>2 DEF Handed, LiveIn
  <2> QED BY <2>1, <2>2
<1>14. Safely(body, cl, op)
  <2>1. /\ IsPut(op, b, alt, v) /\ v = ValOf(cl[Args])
        /\ (op.weak <=> kind = "inplace" /\ ~CanStrongReplace(T))
    BY <1>8, <1>9, <1>12
  <2>2. CASE kind = "either"
    BY <1>1, <1>11, <1>12, <1>13, <2>1, <2>2, EitherPutSafely
  <2>3. CASE kind = "inplace"
    BY <1>11, <1>12, <1>13, <2>1, <2>3, InplacePutSafely
  <2>4. CASE kind = "erased"
    BY <1>11, <1>12, <1>13, <2>1, <2>4, ErasedPutSafely
  <2> QED BY <1>6, <2>2, <2>3, <2>4 DEF KindFits
<1> QED BY <1>12, <1>14 DEF Begun

(* A call without an argument that may begin with one body *)
LEMMA PlainBegins ==
  ASSUME NEW cl, NEW op, NEW body, NEW name \in CallNames, NEW b \in Boxes, NEW o \in Boxes, NEW bodies,
         Starts(cell), Begin(Op(name, b, o), bodies, Raw), cl = cell', op = call', body = todo'
  PROVE  /\ Starts(cl) /\ IsCall(op, name, b, o) /\ body \in bodies
         /\ ~LiveIn(cl, Args) /\ op = Op(name, b, o)
         /\ Safely(body, cl, op) => Begun(cl, op, body)
<1>1. PICK new, args : new = Op(name, b, o) /\ args = Raw
  OBVIOUS
<1>2. new \in CallOps /\ IsCall(new, name, b, o)
  BY <1>1, OpIs
<1>3. Begin(new, bodies, args) /\ args \in Objects \cup {Raw}
  BY <1>1
<1>4. /\ Starts(cl) /\ ContentsOf(cl, tag) = ContentsOf(cell, tag) /\ cl[Args] = args
      /\ body \in bodies /\ op = new /\ op # Idle
  BY <1>2, <1>3, BeginLeaves
<1> QED BY <1>1, <1>2, <1>4 DEF Begun, LiveIn

(* The bodies of a copy and of a move *)
EitherGive(b, o, how) ==
  IF Exists(b) THEN EitherAssign(b, o, how)
  ELSE IF how = "copy" THEN EitherCopyConstruct(b, o) ELSE EitherMoveConstruct(b, o)
InplaceGive(b, o, how) ==
  CASE b = o -> <<>>
    [] b # o /\ Exists(b) -> InplaceAssign(b, Holds(b), o, Holds(o), how)
    [] b # o /\ ~Exists(b) -> InplaceCreateFrom(b, o, Holds(o), how)
ErasedCopy(b, o) ==
  CASE b = o -> <<>>
    [] b # o /\ Exists(b) -> ErasedCopyAssign(b, o)
    [] b # o /\ ~Exists(b) -> ErasedCopyConstruct(b, o)

(* A copy does. *)
LEMMA CopyBegins ==
  ASSUME NEW cl, NEW op, NEW body, Starts(cell), CallCopy, cl = cell', op = call', body = todo'
  PROVE  Begun(cl, op, body)
<1>1. PICK b \in Boxes, o \in Boxes :
        /\ Exists(o)
        /\ CASE kind = "either" ->
                  /\ Exists(b) => StrongFirst
                  /\ Begin(Op("copy", b, o), {IF Exists(b) THEN EitherAssign(b, o, "copy")
                                              ELSE EitherCopyConstruct(b, o)}, Raw)
             [] kind = "inplace" ->
                  /\ CanStrongReplace(T)
                  /\ Begin(Op("copy", b, o),
                           {CASE b = o -> <<>>
                              [] b # o /\ Exists(b) -> InplaceAssign(b, Holds(b), o, Holds(o), "copy")
                              [] b # o /\ ~Exists(b) -> InplaceCreateFrom(b, o, Holds(o), "copy")}, Raw)
             [] kind = "erased" ->
                  Begin(Op("copy", b, o),
                        {CASE b = o -> <<>>
                           [] b # o /\ Exists(b) -> ErasedCopyAssign(b, o)
                           [] b # o /\ ~Exists(b) -> ErasedCopyConstruct(b, o)}, Raw)
  BY DEF CallCopy
<1>2. KindFits /\ tag[o] # Gone
  BY <1>1, StartFacts DEF Exists
<1>3. PICK how : how = "copy"
  OBVIOUS
<1>4. PICK name : name = "copy"
  OBVIOUS
<1>5. name \in CallNames /\ name = how
  BY <1>3, <1>4 DEF CallNames
<1>6. CASE kind = "either"
  <2>1. /\ Begin(Op("copy", b, o), {IF Exists(b) THEN EitherAssign(b, o, "copy")
                                    ELSE EitherCopyConstruct(b, o)}, Raw)
        /\ Exists(b) => StrongFirst
    BY <1>1, <1>6
  <2>2. Begin(Op("copy", b, o), {EitherGive(b, o, "copy")}, Raw)
    BY <2>1 DEF EitherGive
  <2>3. PICK bodies : bodies = {EitherGive(b, o, "copy")}
    OBVIOUS
  <2>4. Begin(Op(name, b, o), bodies, Raw)
    BY <1>4, <2>2, <2>3, Zenon
  <2>5. /\ Starts(cl) /\ IsCall(op, name, b, o) /\ body \in bodies
        /\ Safely(body, cl, op) => Begun(cl, op, body)
    BY <1>5, <2>4, PlainBegins
  <2>6. IsCall(op, how, b, o) /\ how = "copy" /\ (tag[b] # Gone => StrongFirst)
    BY <1>3, <1>5, <2>1, <2>5 DEF Exists
  <2>7. body = EitherGive(b, o, how)
    BY <1>3, <2>3, <2>5
  <2>8. Safely(body, cl, op)
    BY <1>2, <1>6, <2>5, <2>6, <2>7, EitherGiveSafely DEF EitherGive
  <2> QED BY <2>5, <2>8
<1>7. CASE kind = "inplace"
  <2>1. /\ Begin(Op("copy", b, o),
                 {CASE b = o -> <<>>
                    [] b # o /\ Exists(b) -> InplaceAssign(b, Holds(b), o, Holds(o), "copy")
                    [] b # o /\ ~Exists(b) -> InplaceCreateFrom(b, o, Holds(o), "copy")}, Raw)
        /\ CanStrongReplace(T)
    BY <1>1, <1>7
  <2>2. Begin(Op("copy", b, o), {InplaceGive(b, o, "copy")}, Raw)
    BY <2>1 DEF InplaceGive
  <2>3. PICK bodies : bodies = {InplaceGive(b, o, "copy")}
    OBVIOUS
  <2>4. Begin(Op(name, b, o), bodies, Raw)
    BY <1>4, <2>2, <2>3, Zenon
  <2>5. /\ Starts(cl) /\ IsCall(op, name, b, o) /\ body \in bodies
        /\ Safely(body, cl, op) => Begun(cl, op, body)
    BY <1>5, <2>4, PlainBegins
  <2>6. IsCall(op, how, b, o) /\ how = "copy" /\ CanStrongReplace(T)
    BY <1>3, <1>5, <2>1, <2>5
  <2>7. body = InplaceGive(b, o, how)
    BY <1>3, <2>3, <2>5
  <2>8. Safely(body, cl, op)
    BY <1>2, <1>7, <2>5, <2>6, <2>7, InplaceGiveSafely DEF InplaceGive
  <2> QED BY <2>5, <2>8
<1>8. CASE kind = "erased"
  <2>1. Begin(Op("copy", b, o),
              {CASE b = o -> <<>>
                 [] b # o /\ Exists(b) -> ErasedCopyAssign(b, o)
                 [] b # o /\ ~Exists(b) -> ErasedCopyConstruct(b, o)}, Raw)
    BY <1>1, <1>8
  <2>2. Begin(Op("copy", b, o), {ErasedCopy(b, o)}, Raw)
    BY <2>1 DEF ErasedCopy
  <2>3. PICK bodies : bodies = {ErasedCopy(b, o)}
    OBVIOUS
  <2>4. Begin(Op(name, b, o), bodies, Raw)
    BY <1>4, <2>2, <2>3, Zenon
  <2>5. /\ Starts(cl) /\ IsCall(op, name, b, o) /\ body \in bodies
        /\ Safely(body, cl, op) => Begun(cl, op, body)
    BY <1>5, <2>4, PlainBegins
  <2>6. IsCall(op, "copy", b, o)
    BY <1>3, <1>5, <2>5
  <2>7. body = ErasedCopy(b, o)
    BY <2>3, <2>5
  <2>8. Safely(body, cl, op)
    BY <1>2, <1>8, <2>5, <2>6, <2>7, ErasedCopySafely DEF ErasedCopy
  <2> QED BY <2>5, <2>8
<1> QED BY <1>2, <1>6, <1>7, <1>8 DEF KindFits

(* A move does. *)
LEMMA MoveBegins ==
  ASSUME NEW cl, NEW op, NEW body, Starts(cell), CallMove, cl = cell', op = call', body = todo'
  PROVE  Begun(cl, op, body)
<1>1. PICK b \in Boxes, o \in Boxes :
        /\ Exists(o) /\ NothrowMoves
        /\ Begin(Op("move", b, o),
                 {CASE kind = "either" -> IF Exists(b) THEN EitherAssign(b, o, "move")
                                          ELSE EitherMoveConstruct(b, o)
                    [] kind = "inplace" /\ b = o -> <<>>
                    [] kind = "inplace" /\ b # o ->
                         IF Exists(b) THEN InplaceAssign(b, Holds(b), o, Holds(o), "move")
                         ELSE InplaceCreateFrom(b, o, Holds(o), "move")
                    [] kind = "erased" -> IF Exists(b) THEN ErasedMoveAssign(b, o)
                                          ELSE ErasedMoveConstruct(b, o)}, Raw)
  BY DEF CallMove
<1>2. KindFits /\ tag[o] # Gone
  BY <1>1, StartFacts DEF Exists
<1>3. PICK how : how = "move"
  OBVIOUS
<1>4. PICK name : name = "move"
  OBVIOUS
<1>5. PICK bodies :
        bodies = {CASE kind = "either" -> IF Exists(b) THEN EitherAssign(b, o, "move")
                                             ELSE EitherMoveConstruct(b, o)
                       [] kind = "inplace" /\ b = o -> <<>>
                       [] kind = "inplace" /\ b # o ->
                            IF Exists(b) THEN InplaceAssign(b, Holds(b), o, Holds(o), "move")
                            ELSE InplaceCreateFrom(b, o, Holds(o), "move")
                       [] kind = "erased" -> IF Exists(b) THEN ErasedMoveAssign(b, o)
                                             ELSE ErasedMoveConstruct(b, o)}
  OBVIOUS
<1>6. Begin(Op(name, b, o), bodies, Raw)
  BY <1>1, <1>5, <1>4, Zenon
<1>7. name \in CallNames /\ name = how
  BY <1>3, <1>4 DEF CallNames
<1>8. /\ Starts(cl) /\ IsCall(op, name, b, o) /\ body \in bodies
      /\ Safely(body, cl, op) => Begun(cl, op, body)
  BY <1>6, <1>7, PlainBegins
<1>9. IsCall(op, how, b, o) /\ how = "move" /\ NothrowMoves /\ IsCall(op, "move", b, o)
  BY <1>1, <1>7, <1>8, <1>3
<1>10. CASE kind = "either"
  <2>1. body = IF Exists(b) THEN EitherAssign(b, o, "move") ELSE EitherMoveConstruct(b, o)
    BY <1>5, <1>8, <1>10
  <2>2. body = IF Exists(b) THEN EitherAssign(b, o, how)
               ELSE IF how = "copy" THEN EitherCopyConstruct(b, o) ELSE EitherMoveConstruct(b, o)
    BY <1>3, <2>1
  <2>3. Safely(body, cl, op)
    BY <1>2, <1>8, <1>9, <1>10, <2>2, EitherGiveSafely
  <2> QED BY <1>8, <2>3
<1>11. CASE kind = "inplace"
  <2>1. body = CASE b = o -> <<>>
                 [] b # o /\ Exists(b) -> InplaceAssign(b, Holds(b), o, Holds(o), "move")
                 [] b # o /\ ~Exists(b) -> InplaceCreateFrom(b, o, Holds(o), "move")
    BY <1>5, <1>8, <1>11
  <2>2. body = CASE b = o -> <<>>
                 [] b # o /\ Exists(b) -> InplaceAssign(b, Holds(b), o, Holds(o), how)
                 [] b # o /\ ~Exists(b) -> InplaceCreateFrom(b, o, Holds(o), how)
    BY <1>3, <2>1
  <2>3. Safely(body, cl, op)
    BY <1>2, <1>8, <1>9, <1>11, <2>2, InplaceGiveSafely
  <2> QED BY <1>8, <2>3
<1>12. CASE kind = "erased"
  <2>1. body = IF Exists(b) THEN ErasedMoveAssign(b, o) ELSE ErasedMoveConstruct(b, o)
    BY <1>5, <1>8, <1>12
  <2>2. Safely(body, cl, op)
    BY <1>2, <1>8, <1>9, <1>12, <2>1, ErasedMoveSafely
  <2> QED BY <1>8, <2>2
<1> QED BY <1>2, <1>10, <1>11, <1>12 DEF KindFits

(* A swap does. *)
LEMMA SwapBegins ==
  ASSUME NEW cl, NEW op, NEW body, Starts(cell), CallSwap, cl = cell', op = call', body = todo'
  PROVE  Begun(cl, op, body)
<1>1. PICK b \in Boxes, o \in Boxes :
        /\ Exists(b) /\ Exists(o)
        /\ CASE kind = "either" ->
                  /\ T # Void => CanStrongConstruct(T)
                  /\ Begin(Op("swap", b, o), {EitherSwap(b, o)}, Raw)
             [] kind = "inplace" ->
                  /\ NothrowMoves
                  /\ Begin(Op("swap", b, o),
                           IF b = o THEN {<<>>} ELSE {InplaceSwap(b, o), InplaceSwapSizes(b, o)}, Raw)
             [] kind = "erased" ->
                  Begin(Op("swap", b, o),
                        {IF b = o THEN <<>> ELSE ErasedSwap(b, tag[b], o, tag[o])}, Raw)
  BY DEF CallSwap
<1>2. KindFits /\ tag[b] # Gone /\ tag[o] # Gone
  BY <1>1, StartFacts DEF Exists
<1>3. PICK name : name = "swap"
  OBVIOUS
<1>4. name \in CallNames
  BY <1>3 DEF CallNames
<1>5. PICK bodies :
        bodies = CASE kind = "either" -> {EitherSwap(b, o)}
                   [] kind = "inplace" ->
                        IF b = o THEN {<<>>} ELSE {InplaceSwap(b, o), InplaceSwapSizes(b, o)}
                   [] kind = "erased" -> {IF b = o THEN <<>> ELSE ErasedSwap(b, tag[b], o, tag[o])}
  OBVIOUS
<1>6. /\ Begin(Op("swap", b, o), bodies, Raw)
      /\ kind = "either" => (T # Void => CanStrongConstruct(T))
      /\ kind = "inplace" => NothrowMoves
  <2>1. CASE kind = "either"
    <3>1. bodies = {EitherSwap(b, o)}
      BY <1>5, <2>1
    <3>2. Begin(Op("swap", b, o), {EitherSwap(b, o)}, Raw) /\ (T # Void => CanStrongConstruct(T))
      BY <1>1, <2>1
    <3> QED BY <2>1, <3>1, <3>2
  <2>2. CASE kind = "inplace"
    <3>1. bodies = IF b = o THEN {<<>>} ELSE {InplaceSwap(b, o), InplaceSwapSizes(b, o)}
      BY <1>5, <2>2
    <3>2. /\ Begin(Op("swap", b, o),
                   IF b = o THEN {<<>>} ELSE {InplaceSwap(b, o), InplaceSwapSizes(b, o)}, Raw)
          /\ NothrowMoves
      BY <1>1, <2>2
    <3> QED BY <2>2, <3>1, <3>2
  <2>3. CASE kind = "erased"
    <3>1. bodies = {IF b = o THEN <<>> ELSE ErasedSwap(b, tag[b], o, tag[o])}
      BY <1>5, <2>3
    <3>2. Begin(Op("swap", b, o), {IF b = o THEN <<>> ELSE ErasedSwap(b, tag[b], o, tag[o])}, Raw)
      BY <1>1, <2>3
    <3> QED BY <2>3, <3>1, <3>2
  <2> QED BY <1>2, <2>1, <2>2, <2>3 DEF KindFits
<1>7. Begin(Op(name, b, o), bodies, Raw)
  BY <1>3, <1>6, Zenon
<1>8. /\ Starts(cl) /\ IsCall(op, name, b, o) /\ body \in bodies
      /\ Safely(body, cl, op) => Begun(cl, op, body)
  BY <1>7, <1>4, PlainBegins
<1>9. IsCall(op, "swap", b, o)
  BY <1>3, <1>8
<1>10. /\ kind = "either" /\ (T # Void => CanStrongConstruct(T)) => Safely(EitherSwap(b, o), cl, op)
       /\ b = o => Safely(<<>>, cl, op)
       /\ kind = "inplace" /\ NothrowMoves /\ b # o =>
            Safely(InplaceSwap(b, o), cl, op) /\ Safely(InplaceSwapSizes(b, o), cl, op)
       /\ kind = "erased" /\ b # o => Safely(ErasedSwap(b, tag[b], o, tag[o]), cl, op)
  BY <1>2, <1>8, <1>9, AnySwapSafely
<1>11. Safely(body, cl, op)
  <2>1. CASE kind = "either"
    <3>1. body = EitherSwap(b, o)
      BY <1>5, <1>8, <2>1
    <3> QED BY <1>6, <1>10, <2>1, <3>1
  <2>2. CASE kind = "inplace"
    <3>1. /\ b = o => body = <<>>
          /\ b # o => body = InplaceSwap(b, o) \/ body = InplaceSwapSizes(b, o)
      BY <1>5, <1>8, <2>2
    <3> QED BY <1>6, <1>10, <2>2, <3>1
  <2>3. CASE kind = "erased"
    <3>1. /\ b = o => body = <<>>
          /\ b # o => body = ErasedSwap(b, tag[b], o, tag[o])
      BY <1>5, <1>8, <2>3
    <3> QED BY <1>10, <2>3, <3>1
  <2> QED BY <1>2, <2>1, <2>2, <2>3 DEF KindFits
<1> QED BY <1>8, <1>11

(* A creation, a clear, a steal and a destruction do. *)
LEMMA ClearBegins ==
  ASSUME NEW cl, NEW op, NEW body, Starts(cell), CallClear \/ CallDestroy,
         cl = cell', op = call', body = todo'
  PROVE  Begun(cl, op, body)
<1>1. KindFits
  BY StartFacts
<1>2. PICK b \in Boxes :
        \/ /\ kind # "either" /\ tag[b] = Gone
           /\ Begin(Op("create", b, b), {<<SetTag(b, Empty)>>}, Raw)
        \/ /\ kind # "either" /\ tag[b] # Gone
           /\ Begin(Op("clear", b, b), {IF kind = "erased" THEN ErasedClear(b)
                                        ELSE InplaceDestroy(b, Holds(b))}, Raw)
        \/ /\ kind = "inplace" /\ Holds(b)
           /\ Begin(Op("steal", b, b), {InplaceSteal(b)}, Raw)
        \/ /\ tag[b] # Gone
           /\ Begin(Op("destroy", b, b), {DropHeld(b) \o <<SetTag(b, Gone)>>}, Raw)
  BY DEF CallClear, CallDestroy, Exists
<1>3. ASSUME NEW name \in CallNames, NEW bodies, Begin(Op(name, b, b), bodies, Raw)
      PROVE  /\ Starts(cl) /\ IsCall(op, op.name, b, b) /\ op.name = name /\ body \in bodies
             /\ ~LiveIn(cl, Args) /\ op = Op(name, b, b)
             /\ Safely(body, cl, op) => Begun(cl, op, body)
  <2>1. /\ Starts(cl) /\ IsCall(op, name, b, b) /\ body \in bodies
        /\ ~LiveIn(cl, Args) /\ op = Op(name, b, b)
        /\ Safely(body, cl, op) => Begun(cl, op, body)
    BY <1>3, PlainBegins
  <2> QED BY <2>1 DEF IsCall
<1>4. ASSUME Starts(cl), IsCall(op, op.name, b, b)
      PROVE  /\ op.name = "create" /\ kind # "either" /\ tag[b] = Gone => Safely(<<SetTag(b, Empty)>>, cl, op)
             /\ op.name = "clear" /\ kind = "inplace" /\ tag[b] # Gone =>
                  Safely(InplaceDestroy(b, Holds(b)), cl, op)
             /\ op.name = "clear" /\ kind = "erased" /\ tag[b] # Gone => Safely(ErasedClear(b), cl, op)
             /\ op.name = "destroy" => Safely(DropHeld(b) \o <<SetTag(b, Gone)>>, cl, op)
  BY <1>4, AnyNoneSafely
<1>5. CASE /\ kind # "either" /\ tag[b] = Gone
           /\ Begin(Op("create", b, b), {<<SetTag(b, Empty)>>}, Raw)
  <2>1. PICK name : name = "create"
    OBVIOUS
  <2>2. name \in CallNames
    BY <2>1 DEF CallNames
  <2>3. PICK bodies : bodies = {<<SetTag(b, Empty)>>}
    OBVIOUS
  <2>4. Begin(Op(name, b, b), bodies, Raw)
    BY <1>5, <2>1, <2>3, Zenon
  <2>5. /\ Starts(cl) /\ IsCall(op, op.name, b, b) /\ op.name = name /\ body \in bodies
        /\ Safely(body, cl, op) => Begun(cl, op, body)
    BY <1>3, <2>4, <2>2
  <2> QED BY <1>4, <1>5, <2>1, <2>3, <2>5
<1>6. CASE /\ kind # "either" /\ tag[b] # Gone
           /\ Begin(Op("clear", b, b), {IF kind = "erased" THEN ErasedClear(b)
                                        ELSE InplaceDestroy(b, Holds(b))}, Raw)
  <2>1. PICK name : name = "clear"
    OBVIOUS
  <2>2. name \in CallNames
    BY <2>1 DEF CallNames
  <2>3. PICK bodies : bodies = {IF kind = "erased" THEN ErasedClear(b) ELSE InplaceDestroy(b, Holds(b))}
    OBVIOUS
  <2>4. Begin(Op(name, b, b), bodies, Raw)
    BY <1>6, <2>1, <2>3, Zenon
  <2>5. /\ Starts(cl) /\ IsCall(op, op.name, b, b) /\ op.name = name /\ body \in bodies
        /\ Safely(body, cl, op) => Begun(cl, op, body)
    BY <1>3, <2>4, <2>2
  <2>6. CASE kind = "erased"
    BY <1>4, <1>6, <2>1, <2>3, <2>5, <2>6
  <2>7. CASE kind = "inplace"
    BY <1>4, <1>6, <2>1, <2>3, <2>5, <2>7
  <2> QED BY <1>1, <1>6, <2>6, <2>7 DEF KindFits
<1>7. CASE /\ kind = "inplace" /\ Holds(b)
           /\ Begin(Op("steal", b, b), {InplaceSteal(b)}, Raw)
  <2>1. PICK name : name = "steal"
    OBVIOUS
  <2>2. name \in CallNames
    BY <2>1 DEF CallNames
  <2>3. PICK bodies : bodies = {InplaceSteal(b)}
    OBVIOUS
  <2>4. Begin(Op(name, b, b), bodies, Raw)
    BY <1>7, <2>1, <2>3, Zenon
  <2>5. /\ Starts(cl) /\ IsCall(op, op.name, b, b) /\ op.name = name /\ body \in bodies
        /\ ~LiveIn(cl, Args) /\ op = Op(name, b, b)
        /\ Safely(body, cl, op) => Begun(cl, op, body)
    BY <1>3, <2>4, <2>2
  <2>6. IsCall(op, "steal", b, b)
    BY <2>1, <2>5
  <2>7. op.weak <=> ~NothrowOf(T, "move")
    <3>1. WeakIn(name, T) <=> ~NothrowOf(T, "move")
      BY <2>1 DEF WeakIn
    <3>2. PICK w : w = (kind = "inplace" /\ WeakIn(name, T))
      OBVIOUS
    <3>3. op.weak = w
      BY ONLY <2>5, <3>2 DEF Op
    <3> QED BY <1>7, <3>1, <3>2, <3>3
  <2>8. Safely(InplaceSteal(b), cl, op)
    BY <1>7, <2>5, <2>6, <2>7, StealSafely
  <2> QED BY <2>3, <2>5, <2>8
<1>8. CASE /\ tag[b] # Gone
           /\ Begin(Op("destroy", b, b), {DropHeld(b) \o <<SetTag(b, Gone)>>}, Raw)
  <2>1. PICK name : name = "destroy"
    OBVIOUS
  <2>2. name \in CallNames
    BY <2>1 DEF CallNames
  <2>3. PICK bodies : bodies = {DropHeld(b) \o <<SetTag(b, Gone)>>}
    OBVIOUS
  <2>4. Begin(Op(name, b, b), bodies, Raw)
    BY <1>8, <2>1, <2>3, Zenon
  <2>5. /\ Starts(cl) /\ IsCall(op, op.name, b, b) /\ op.name = name /\ body \in bodies
        /\ Safely(body, cl, op) => Begun(cl, op, body)
    BY <1>3, <2>4, <2>2
  <2> QED BY <1>4, <1>8, <2>1, <2>3, <2>5
<1> QED BY <1>2, <1>5, <1>6, <1>7, <1>8

-----------------------------------------------------------------------------
(* The inductive invariant: between calls nothing is left to do and the boxes are tidy;
   during one, what is left of it is fine. *)
Resting == todo = <<>> /\ undo = <<>> /\ Starts(cell) /\ cell[Args] = Raw

Inv ==
  /\ KindFits
  /\ call = Idle => Resting
  /\ call # Idle => Fine(cell, tag, todo, undo, threw, Outcomes(call, before))

(* Every call of the program begins an operation that ends as it may. *)
LEMMA AllBegin ==
  ASSUME NEW cl, NEW op, NEW body, Starts(cell),
         CallPut \/ CallCopy \/ CallMove \/ CallSwap \/ CallClear \/ CallDestroy,
         cl = cell', op = call', body = todo'
  PROVE  Begun(cl, op, body)
BY PutBegins, CopyBegins, MoveBegins, SwapBegins, ClearBegins

(* The kind and the types do not change, and nor does what tidy means. *)
LEMMA SameKind ==
  ASSUME UNCHANGED <<kind, T, U>>
  PROVE  /\ KindFits' <=> KindFits
         /\ \A cl, tg : Tidy(cl, tg)' <=> Tidy(cl, tg)
<1>1. kind' = kind /\ T' = T /\ U' = U
  OBVIOUS
<1>2. KindFits' <=> KindFits
  BY <1>1 DEF KindFits
<1>3. Alternatives' = Alternatives
  BY <1>1 DEF Alternatives
<1>4. \A t : TagFits(t)' <=> TagFits(t)
  BY <1>1, <1>3 DEF TagFits
<1>5. \A t : TypeOf(t)' = TypeOf(t)
  BY <1>1 DEF TypeOf
<1>6. \A b, t, c : Keeps(b, t, c)' <=> Keeps(b, t, c)
  BY <1>5 DEF Keeps
<1>7. \A cl, tg, b : BoxFits(cl, tg, b)' <=> BoxFits(cl, tg, b)
  BY <1>5, <1>6 DEF BoxFits
<1>8. \A cl, tg : Tidy(cl, tg)' <=> Tidy(cl, tg)
  BY <1>4, <1>7 DEF Tidy
<1> QED BY <1>2, <1>8

(* The outcomes of an operation do not change while it runs. *)
LEMMA SameOutcomes ==
  ASSUME UNCHANGED <<kind, T, U>>, NEW op, NEW bf, NEW P, NEW Q, P = Outcomes(op, bf), op = call',
         bf = before',
         Q = Outcomes(call, before)'
  PROVE  P = Q
<1>1. \A cl, tg : Tidy(cl, tg)' <=> Tidy(cl, tg)
  BY SameKind
<1>2. \A cl, tg, th : Ended(cl, tg, th, call, before)' <=> Ended(cl, tg, th, op, bf)
  BY <1>1 DEF Ended
<1> QED BY <1>2 DEF Outcomes

(* No box and no call is where a behaviour begins. *)
LEMMA InitResting ==
  Init => Inv
<1> SUFFICES ASSUME Init
             PROVE  Inv
  OBVIOUS
<1>1. KindFits
  BY DEF Init, KindFits
<1>2. /\ cell = [c \in Cells |-> Raw] /\ tag = [b \in AllBoxes |-> Gone] /\ call = Idle
      /\ todo = <<>> /\ undo = <<>>
  BY DEF Init, CellInit
<1>3. cell \in CellFns /\ tag \in TagFns
  BY <1>2 DEF CellFns, TagFns, Tags
<1>4. \A c \in Cells : ~LiveIn(cell, c)
  BY <1>2 DEF LiveIn
<1>5. Clear(cell, {}) /\ cell[Args] = Raw
  BY <1>2, <1>4, LocalCells DEF Clear
<1>6. ASSUME NEW b \in AllBoxes
      PROVE  TagFits(tag[b]) /\ BoxFits(cell, tag, b)
  <2>1. tag[b] = Gone /\ ~LiveIn(cell, First(b)) /\ ~LiveIn(cell, Second(b))
    BY <1>2, <1>4, BoxCells
  <2> QED BY <2>1 DEF TagFits, BoxFits, Keeps, Names
<1>7. Starts(cell)
  BY <1>1, <1>2, <1>3, <1>5, <1>6, TempApart DEF Starts, Tidy
<1> QED BY <1>1, <1>2, <1>5, <1>7 DEF Inv, Resting

(* One call of an operation *)
LEMMA StepIs ==
  ASSUME CellStep, NEW do, do = Head(todo)
  PROVE  /\ todo # <<>> /\ UNCHANGED call
         /\ \/ /\ cell' = CellThen(cell, do) /\ tag' = TagThen(tag, do) /\ todo' = Tail(todo)
               /\ undo' = UndoThen(undo, do) /\ threw' = threw
            \/ /\ MayThrow(cell, do) /\ cell' = cell /\ tag' = tag /\ todo' = Unwound(undo, cell)
               /\ undo' = <<>> /\ threw' = TRUE
<1>1. CASE Construct
  BY <1>1 DEF Construct, Now, Proceed, Transferred, CellThen, TagThen, UndoThen
<1>2. CASE ConstructThrows
  <2>1. \A c : DropIfLive(c) = DropLive(cell, c)
    BY DEF DropIfLive, DropLive, Live, LiveIn
  <2> QED BY <1>2, <2>1 DEF ConstructThrows, Now, MayThrow, Unwound
<1>3. CASE Assign
  BY <1>3 DEF Assign, Now, Proceed, Transferred, CellThen, TagThen, UndoThen
<1>4. CASE Exchange
  BY <1>4 DEF Exchange, Now, Proceed, CellThen, TagThen, UndoThen
<1>5. CASE PassOn
  BY <1>5 DEF PassOn, Now, Proceed, CellThen, TagThen, UndoThen
<1>6. CASE Destruct
  BY <1>6 DEF Destruct, Now, Proceed, CellThen, TagThen, UndoThen
<1>7. CASE Retag
  BY <1>7 DEF Retag, Now, Proceed, CellThen, TagThen, UndoThen
<1>8. CASE EnterTry
  BY <1>8 DEF EnterTry, Now, Proceed, CellThen, TagThen, UndoThen
<1> QED BY <1>1, <1>2, <1>3, <1>4, <1>5, <1>6, <1>7, <1>8 DEF CellStep

(* A container is of one of the three kinds. *)
LEMMA KindIsOne ==
  ASSUME KindFits
  PROVE  kind = "either" \/ kind = "inplace" \/ kind = "erased"
BY DEF KindFits

(* Every call of the program begins an operation. *)
LEMMA AllLeave ==
  ASSUME KindFits, CallPut \/ CallCopy \/ CallMove \/ CallSwap \/ CallClear \/ CallDestroy
  PROVE  \E op, bodies, args : Begin(op, bodies, args)
<1>1. CASE CallPut
  <2>1. PICK b \in Boxes, alt \in Alternatives, how \in Fields, w \in Vals :
          /\ CanPut(b, alt, how)
          /\ LET void == TypeOf(alt) = Void
                 new == [Op("put", b, b) EXCEPT !.alt = alt, !.arg = IF void THEN Raw ELSE w]
                 args == IF void THEN Raw ELSE [ty |-> TypeOf(alt), val |-> w]
             IN CASE kind = "either" -> Begin(new, EitherPut(b, alt, Args, how), args)
                  [] kind = "inplace" -> Begin(new, {InplacePut(b, Args, how)}, args)
                  [] kind = "erased" -> Begin(new, {ErasedPut(b, alt, Args, how)}, args)
    BY <1>1 DEF CallPut
  <2>2. PICK args : args = IF TypeOf(alt) = Void THEN Raw ELSE [ty |-> TypeOf(alt), val |-> w]
    OBVIOUS
  <2>3. PICK new : new = [Op("put", b, b) EXCEPT !.alt = alt, !.arg = IF TypeOf(alt) = Void THEN Raw ELSE w]
    OBVIOUS
  <2>4. /\ kind = "either" => Begin(new, EitherPut(b, alt, Args, how), args)
        /\ kind = "inplace" => Begin(new, {InplacePut(b, Args, how)}, args)
        /\ kind = "erased" => Begin(new, {ErasedPut(b, alt, Args, how)}, args)
    BY <2>1, <2>2, <2>3
  <2> QED BY <2>4, KindIsOne
<1>2. CASE CallCopy
  BY <1>2, KindIsOne DEF CallCopy
<1>3. CASE CallMove
  BY <1>3 DEF CallMove
<1>4. CASE CallSwap
  BY <1>4, KindIsOne DEF CallSwap
<1>5. CASE CallClear \/ CallDestroy
  BY <1>5 DEF CallClear, CallDestroy
<1> QED BY <1>1, <1>2, <1>3, <1>4, <1>5

(* The end of an operation, thrown or not *)
LEMMA ReturnEnds ==
  ASSUME Inv, Return, NEW cl, NEW tg, NEW op, NEW bf, cl = cell', tg = tag', op = call, bf = before
  PROVE  /\ Ended(cl, tg, threw, op, bf) /\ undo = <<>> /\ tg = tag
         /\ cl[Args] = Raw /\ Starts(cl)
<1>1. /\ call # Idle /\ todo = <<>> /\ cl = [cell EXCEPT ![Args] = Raw] /\ tg = tag
      /\ Fine(cell, tag, todo, undo, threw, Outcomes(op, bf)) /\ KindFits
  BY DEF Return, Inv
<1>2. Fine(cell, tag, <<>>, undo, threw, Outcomes(op, bf))
  BY <1>1
<1>3. undo = <<>> /\ <<cell, tag, threw>> \in Outcomes(op, bf)
  BY <1>2, FineAtEnd
<1>4. Ended(cell, tag, threw, op, bf)
  BY <1>3, InOutcomes
<1>5. Starts(cell)
  BY <1>1, <1>4 DEF Ended, Starts
<1>6. PICK args : args = Raw
  OBVIOUS
<1>7. args \in Objects \cup {Raw} /\ cl = [cell EXCEPT ![Args] = args]
  BY <1>1, <1>6
<1>8. Starts(cl) /\ cl[Args] = args /\ ContentsOf(cl, tag) = ContentsOf(cell, tag)
  BY <1>5, <1>7, ArgsTidy
<1>9. Ended(cl, tg, threw, op, bf)
  BY <1>1, <1>4, <1>8 DEF Ended, Starts
<1> QED BY <1>1, <1>3, <1>6, <1>8, <1>9

(* Every step keeps the invariant: a call begins a fine operation, its calls keep it
   fine, and it returns from an outcome. *)
LEMMA InvStep ==
  Inv /\ [Next]_vars => Inv'
<1> SUFFICES ASSUME Inv, [Next]_vars
             PROVE  Inv'
  OBVIOUS
<1>1. UNCHANGED <<kind, T, U>>
  <2>1. CASE CallPut \/ CallCopy \/ CallMove \/ CallSwap \/ CallClear \/ CallDestroy
    <3>1. PICK op, bodies, args : Begin(op, bodies, args)
      BY <2>1, AllLeave DEF Inv
    <3> QED BY <3>1 DEF Begin
  <2>2. CASE CellStep /\ UNCHANGED <<kind, T, U, before>>
    BY <2>2
  <2>3. CASE Return \/ UNCHANGED vars
    BY <2>3 DEF Return, vars
  <2> QED BY <2>1, <2>2, <2>3 DEF Next
<1>2. KindFits' /\ KindFits
  BY <1>1, SameKind DEF Inv
<1>3. PICK op, bf, P, Q : /\ op = call' /\ bf = before' /\ P = Outcomes(op, bf)
                          /\ Q = Outcomes(call, before)'
  OBVIOUS
<1>4. P = Q
  BY <1>1, <1>3, SameOutcomes
<1>5. PICK cl, tg, td, un, th : cl = cell' /\ tg = tag' /\ td = todo' /\ un = undo' /\ th = threw'
  OBVIOUS
<1>6. ASSUME Fine(cl, tg, td, un, th, P), op # Idle
      PROVE  Inv'
  <2>1. PICK R : <<cl, tg, td, un, th>> \in R /\ Closed(R, P)
    BY <1>6 DEF Fine
  <2>2. <<cell', tag', todo', undo', threw'>> \in R
    BY <1>5, <2>1
  <2>3. Closed(R, Q)
    BY <1>4, <2>1
  <2>4. Closed(R, Outcomes(call, before)')
    BY <1>3, <2>3
  <2>5. Fine(cell, tag, todo, undo, threw, Outcomes(call, before))'
    BY <2>2, <2>4 DEF Fine
  <2> QED BY <1>2, <1>3, <1>6, <2>5 DEF Inv
<1>7. CASE CallPut \/ CallCopy \/ CallMove \/ CallSwap \/ CallClear \/ CallDestroy
  <2>1. call = Idle /\ tag' = tag /\ undo' = undo /\ threw' = FALSE /\ before' = Contents
    <3>1. PICK new, bodies, args : Begin(new, bodies, args)
      BY <1>7, AllLeave DEF Inv
    <3> QED BY <3>1 DEF Begin
  <2>2. Resting
    BY <2>1 DEF Inv
  <2>3. Begun(cl, op, td)
    BY <1>3, <1>5, <1>7, <2>2, AllBegin DEF Resting
  <2>4. Contents = ContentsOf(cell, tag)
    BY <2>2, ContentsAre DEF Resting, Starts
  <2>5. Fine(cl, tag, td, <<>>, FALSE, Outcomes(op, ContentsOf(cl, tag))) /\ op # Idle
    BY <2>3 DEF Begun, Safely
  <2>6. ContentsOf(cl, tag) = bf
    BY <1>3, <2>1, <2>3, <2>4 DEF Begun
  <2>7. tg = tag /\ un = <<>> /\ th = FALSE
    BY <1>5, <2>1, <2>2 DEF Resting
  <2> QED BY <1>3, <1>6, <2>5, <2>6, <2>7
<1>8. CASE CellStep /\ UNCHANGED <<kind, T, U, before>>
  <2>1. PICK do : do = Head(todo)
    OBVIOUS
  <2>2. /\ todo # <<>> /\ call' = call
        /\ \/ /\ cell' = CellThen(cell, do) /\ tag' = TagThen(tag, do) /\ todo' = Tail(todo)
              /\ undo' = UndoThen(undo, do) /\ threw' = threw
           \/ /\ MayThrow(cell, do) /\ cell' = cell /\ tag' = tag /\ todo' = Unwound(undo, cell)
              /\ undo' = <<>> /\ threw' = TRUE
    BY <1>8, <2>1, StepIs
  <2>3. call # Idle
    BY <2>2 DEF Inv, Resting
  <2>4. op = call /\ bf = before
    BY <1>3, <1>8, <2>2
  <2>5. Fine(cell, tag, todo, undo, threw, P)
    BY <1>3, <2>3, <2>4 DEF Inv
  <2>6. /\ Fine(CellThen(cell, do), TagThen(tag, do), Tail(todo), UndoThen(undo, do), threw, P)
        /\ MayThrow(cell, do) => Fine(cell, tag, Unwound(undo, cell), <<>>, TRUE, P)
    BY <2>1, <2>2, <2>5, FineGoesOn
  <2>7. Fine(cl, tg, td, un, th, P)
    BY <1>5, <2>2, <2>6
  <2> QED BY <1>6, <2>3, <2>4, <2>7
<1>9. CASE Return
  <2>1. PICK o, b0 : o = call /\ b0 = before
    OBVIOUS
  <2>2. undo = <<>> /\ tg = tag /\ cl[Args] = Raw /\ Starts(cl)
    BY <1>5, <1>9, <2>1, ReturnEnds
  <2>3. todo' = <<>> /\ undo' = <<>> /\ call' = Idle
    BY <1>9, <2>2 DEF Return
  <2>4. Tidy(cl, tg) /\ tg[Temp] = Gone
    BY <2>2 DEF Starts
  <2>5. Tidy(cl, tg)'
    BY <1>1, <2>4, SameKind
  <2>6. Tidy(cell, tag)'
    BY <1>5, <2>5 DEF Tidy, BoxFits
  <2>7. tag'[Temp] = Gone /\ cell'[Args] = Raw
    BY <1>5, <2>2, <2>4
  <2> QED BY <1>2, <2>3, <2>6, <2>7 DEF Inv, Resting, Starts
<1>10. CASE UNCHANGED vars
  <2>1. /\ cell' = cell /\ tag' = tag /\ call' = call /\ todo' = todo /\ undo' = undo /\ threw' = threw
        /\ before' = before
    BY <1>10 DEF vars, cellVars
  <2>2. CASE call = Idle
    <3>1. Resting
      BY <2>2 DEF Inv
    <3>2. Tidy(cl, tg)
      BY <1>5, <2>1, <3>1 DEF Resting, Starts
    <3>3. Tidy(cl, tg)'
      BY <1>1, <3>2, SameKind
    <3>4. Tidy(cell, tag)'
      BY <1>5, <3>3 DEF Tidy, BoxFits
    <3> QED BY <1>2, <2>1, <2>2, <3>1, <3>4 DEF Inv, Resting, Starts
  <2>3. CASE call # Idle
    <3>1. op = call /\ bf = before /\ Fine(cell, tag, todo, undo, threw, P)
      BY <1>3, <2>1, <2>3 DEF Inv
    <3>2. Fine(cl, tg, td, un, th, P)
      BY <1>5, <2>1, <3>1
    <3> QED BY <1>6, <2>3, <3>1, <3>2
  <2> QED BY <2>2, <2>3
<1> QED BY <1>7, <1>8, <1>9, <1>10 DEF Next

(* Inv holds in every state of ObjectBoxes. *)
THEOREM InvHolds == Spec => []Inv
<1>1. Init => Inv
  BY InitResting
<1>2. Inv /\ [Next]_vars => Inv'
  BY InvStep
<1> QED BY <1>1, <1>2, PTL DEF Spec

(* No call of a constructor, an assignment or a destructor is made for storage in the
   wrong state, whatever throws. *)
THEOREM UsedRightly == Spec => []CellsUsedRightly
<1>1. Inv => CellsUsedRightly
  <2> SUFFICES ASSUME Inv
               PROVE  CellsUsedRightly
    OBVIOUS
  <2>1. CASE call = Idle
    BY <2>1 DEF Inv, Resting, CellsUsedRightly, Now
  <2>2. CASE call # Idle
    <3>1. CASE todo = <<>>
      BY <3>1 DEF CellsUsedRightly, Now
    <3>2. CASE todo # <<>>
      <4>1. PICK do, P : do = Head(todo) /\ P = Outcomes(call, before)
        OBVIOUS
      <4>2. Fine(cell, tag, todo, undo, threw, P)
        BY <2>2, <4>1 DEF Inv
      <4>3. Allowed(cell, do)
        BY <3>2, <4>1, <4>2, FineGoesOn
      <4> QED BY <4>1, <4>3 DEF Allowed, CellsUsedRightly, Now, Live, LiveIn
    <3> QED BY <3>1, <3>2
  <2> QED BY <2>1, <2>2
<1> QED BY <1>1, InvHolds, PTL

(* Between calls the objects are those that the tags name, and of the types they say. *)
THEOREM NoLeakNoLie == Spec => []NothingLeaksNorLies
<1>1. Inv => NothingLeaksNorLies
  <2> SUFFICES ASSUME Inv, call = Idle
               PROVE  /\ \A c \in Locals \cup {Args} : ~Live(c)
                      /\ tag[Temp] = Gone
                      /\ \A b \in AllBoxes, c \in {"first", "second"} :
                           LET here == <<b, c>>
                               named == Holds(b) /\ Held(b) = here /\ TypeOf(tag[b]) # Void
                           IN /\ Live(here) <=> named
                              /\ named => cell[here].ty = TypeOf(tag[b])
    BY DEF NothingLeaksNorLies
  <2>1. Tidy(cell, tag) /\ tag[Temp] = Gone /\ cell[Args] = Raw
    BY DEF Inv, Resting, Starts
  <2>2. \A c \in Locals \cup {Args} : ~Live(c)
    BY <2>1 DEF Tidy, Clear, Live, LiveIn
  <2>3. ASSUME NEW b \in AllBoxes, NEW c \in {"first", "second"}, NEW here, here = <<b, c>>
        PROVE  /\ Live(here) <=> (Holds(b) /\ Held(b) = here /\ TypeOf(tag[b]) # Void)
               /\ (Holds(b) /\ Held(b) = here /\ TypeOf(tag[b]) # Void) => cell[here].ty = TypeOf(tag[b])
    <3>1. here \in {First(b), Second(b)}
      BY <2>3 DEF First, Second
    <3>2. /\ LiveIn(cell, here) <=> Keeps(b, tag[b], here)
          /\ Keeps(b, tag[b], here) => cell[here].ty = TypeOf(tag[b])
      BY <2>1, <3>1 DEF Tidy, BoxFits
    <3>3. Keeps(b, tag[b], here) <=> (Holds(b) /\ Held(b) = here /\ TypeOf(tag[b]) # Void)
      BY DEF Keeps, Names, Holds, Held
    <3> QED BY <3>2, <3>3 DEF Live, LiveIn
  <2> QED BY <2>1, <2>2, <2>3
<1> QED BY <1>1, InvHolds, PTL

-----------------------------------------------------------------------------
(* The containers implement ValueBoxes. *)

ContentNow == IF call = Idle THEN Contents ELSE before
ThrewNow == call = Idle /\ threw

(* What the boxes hold after a step. *)
LEMMA ContentAfter ==
  ASSUME NEW cl, NEW tg, Starts(cl), tg = tag, cl = cell', tg = tag'
  PROVE  Contents' = ContentsOf(cl, tg)
<1>1. ASSUME NEW b \in Boxes
      PROVE  Content(b)' = ContentBy(tg[b], ValuesOf(cl, tg)[b])
  <2>1. b \in AllBoxes /\ cl \in CellFns
    BY <1>1, StartFacts
  <2>2. PICK c, t : c = CellOf(b, t) /\ t = tg[b]
    OBVIOUS
  <2>3. c \in Cells
    BY <2>1, <2>2, BoxCells DEF CellOf
  <2>4. LiveIn(cl, c) <=> cl[c] \in Objects
    BY <2>1, <2>3, LiveIsObject
  <2>5. ValOf(cl[c]) = IF LiveIn(cl, c) THEN cl[c].val ELSE Raw
    BY <2>4 DEF ValOf
  <2>6. Held(b)' = c /\ tag'[b] = t
    BY <2>2 DEF Held, CellOf, First, Second
  <2>7. Live(Held(b))' <=> LiveIn(cl, c)
    BY <2>6 DEF Live, LiveIn
  <2>8. Content(b)' = IF Names(t) THEN Pair(t, ValOf(cl[c])) ELSE t
    BY <2>5, <2>6, <2>7 DEF Content, Holds, Names, Pair
  <2>9. Names(t) => ValuesOf(cl, tg)[b] = ValOf(cl[c])
    BY <2>1, <2>2 DEF ValuesOf, ValueIn
  <2> QED BY <2>2, <2>8, <2>9 DEF ContentBy
<1> QED BY <1>1 DEF Contents, ContentsOf, ContentsBy

(* The abstract containers start empty. *)
LEMMA ValuesInit ==
  ASSUME Init
  PROVE  Values!Init
<1>1. /\ cell = [c \in Cells |-> Raw] /\ tag = [b \in AllBoxes |-> Gone] /\ call = Idle
      /\ threw = FALSE
  BY DEF Init, CellInit
<1>2. Contents = [b \in Boxes |-> Gone]
  BY <1>1, TempApart DEF Contents, Content, Holds
<1> QED BY <1>1, <1>2 DEF Values!Init

(* The abstract effect is the one the operations are shown to have. *)
LEMMA ValuesEffect ==
  ASSUME call # Idle
  PROVE  Values!Effect = EffectOf(call, before)
<1>1. (IF call = Idle THEN Contents ELSE before) = before
  OBVIOUS
<1>2. \A c : Values!Leftover(c) = LeftoverOf(call, c)
  BY DEF Values!Leftover, LeftoverOf
<1> QED BY <1>1, <1>2 DEF Values!Effect, EffectOf

(* Every step is a call, a return or a throw of the abstract containers, or none. *)
LEMMA ValuesStep ==
  ASSUME Inv, [Next]_vars
  PROVE  [Values!Call \/ Values!Return \/ Values!Throw]_<<ContentNow, call, ThrewNow>>
<1>1. CASE CallPut \/ CallCopy \/ CallMove \/ CallSwap \/ CallClear \/ CallDestroy
  <2>1. call = Idle /\ threw' = FALSE /\ before' = Contents
    <3>1. PICK new, bodies, args : Begin(new, bodies, args)
      BY <1>1, AllLeave DEF Inv
    <3> QED BY <3>1 DEF Begin
  <2>2. PICK cl, op, body : cl = cell' /\ op = call' /\ body = todo'
    OBVIOUS
  <2>3. Begun(cl, op, body)
    BY <1>1, <2>1, <2>2, AllBegin DEF Inv, Resting
  <2>4. call' # Idle
    BY <2>2, <2>3 DEF Begun
  <2>5. Values!Call
    BY <2>1, <2>4 DEF Values!Call
  <2> QED BY <2>5
<1>2. CASE CellStep /\ UNCHANGED <<kind, T, U, before>>
  <2>1. PICK do : do = Head(todo)
    OBVIOUS
  <2>2. todo # <<>> /\ call' = call
    BY <1>2, <2>1, StepIs
  <2>3. call # Idle
    BY <2>2 DEF Inv, Resting
  <2> QED BY <1>2, <2>2, <2>3 DEF ContentNow, ThrewNow
<1>3. CASE Return
  <2>1. PICK cl, tg, op, bf : cl = cell' /\ tg = tag' /\ op = call /\ bf = before
    OBVIOUS
  <2>2. Ended(cl, tg, threw, op, bf) /\ tg = tag /\ Starts(cl)
    BY <1>3, <2>1, ReturnEnds
  <2>3. call # Idle /\ call' = Idle /\ threw' = threw
    BY <1>3 DEF Return
  <2>4. Contents' = ContentsOf(cl, tg)
    BY <2>1, <2>2, ContentAfter
  <2>5. CASE ~threw
    <3>1. ContentsOf(cl, tg) = EffectOf(op, bf)
      BY <2>2, <2>5 DEF Ended
    <3>2. Contents' = Values!Effect
      BY <2>1, <2>3, <2>4, <3>1, ValuesEffect
    <3>3. Values!Return
      BY <2>3, <2>5, <3>2 DEF Values!Return
    <3> QED BY <3>3
  <2>6. CASE threw
    <3>1. /\ MayEndInThrow(op)
          /\ \/ ContentsOf(cl, tg) = bf
             \/ op.weak /\ ContentsOf(cl, tg) = [bf EXCEPT ![op.box] = Empty]
      BY <2>2, <2>6 DEF Ended
    <3>2. /\ call.name \in {"put", "copy"} \/ call.weak
          /\ Contents' = before \/ (call.weak /\ Contents' = [before EXCEPT ![call.box] = Empty])
      BY <2>1, <2>4, <3>1 DEF MayEndInThrow
    <3>3. Values!Throw
      BY <2>2, <2>3, <2>6, <3>2 DEF Values!Throw, Ended
    <3> QED BY <3>3
  <2> QED BY <2>2, <2>5, <2>6 DEF Ended
<1>4. CASE UNCHANGED vars
  <2>1. cell' = cell /\ tag' = tag /\ call' = call /\ threw' = threw /\ before' = before
    BY <1>4 DEF vars, cellVars
  <2>2. Contents' = Contents
    BY <2>1 DEF Contents, Content, Holds, Held, CellOf, First, Second, Live
  <2> QED BY <2>1, <2>2 DEF ContentNow, ThrewNow
<1> QED BY <1>1, <1>2, <1>3, <1>4 DEF Next

(* Every operation has the whole of its effect, or throws and has none, except that an
   emplace of inplace_t for a type nothing can replace safely and a steal of a type whose
   move may throw can end in a throw with their box empty (WeakIn). *)
THEOREM OperationsAreWhole == Spec => ImplementsValues
<1>1. Init => Values!Init
  BY ValuesInit
<1>2. Inv /\ [Next]_vars => [Values!Call \/ Values!Return \/ Values!Throw]_<<ContentNow, call, ThrewNow>>
  BY ValuesStep
<1> QED BY <1>1, <1>2, InvHolds, PTL DEF Spec, ImplementsValues, Values!Spec, ContentNow, ThrewNow
=============================================================================
