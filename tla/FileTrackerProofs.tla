--------------------------- MODULE FileTrackerProofs ---------------------------
(***************************************************************************)
(* The order of the tracker's server operations: operations on one path    *)
(* never run side by side, and none is forgotten.  Then what the tracker   *)
(* compares with: another client's version is never replaced unseen.       *)
(***************************************************************************)
EXTENDS FileTracker, FiniteSetTheorems, SequenceTheorems, TLAPS

(***************************************************************************)
(* Who has the turn of an operation.  A call on the agenda names a ticket: *)
(* one of Holders decides about the upload of that ticket, a leave ends    *)
(* its turn.                                                               *)
(***************************************************************************)
Holders == {"checkServer", "enqueue", "ask", "finish"}
Names(c) == c.do \in Holders \cup {"leave"}

Away == {"sent", "running", "checked", "stat", "ended"}

IsSeq(s) == s \in Seq(Range(s))

IsEntry(e) ==
  /\ e = [ticket |-> e.ticket, paths |-> e.paths, op |-> e.op, phase |-> e.phase]
  /\ e.ticket \in Nat /\ e.phase \in Phases
  /\ "kind" \in DOMAIN e.op
  /\ e.op.kind = "upload" => "watch" \in DOMAIN e.op /\ "path" \in DOMAIN e.op

\* The order is a sequence of operations with ascending tickets.  What has started has nothing in its
\* way, what waits has.
OrderOK(o) ==
  /\ IsSeq(o)
  /\ \A i \in DOMAIN o : IsEntry(o[i])
  /\ \A i, j \in DOMAIN o : i < j => o[i].ticket < o[j].ticket
  /\ \A i, j \in DOMAIN o : i < j /\ Started(o[j]) => ~PathsOverlap(o[i].paths, o[j].paths)
  /\ \A j \in DOMAIN o : o[j].phase = "waiting" =>
       \E i \in DOMAIN o : i < j /\ PathsOverlap(o[i].paths, o[j].paths)

\* An operation the tracker decides about is named by a call or waits for the user's answer; but for
\* those in X, in the middle of a step.
Held(a, o, cs, X) ==
  \A k \in DOMAIN o : o[k].ticket \notin X =>
    /\ o[k].phase = "starting" => \E i \in DOMAIN a : a[i].do = "checkServer" /\ a[i].ticket = o[k].ticket
    /\ o[k].phase = "here" => \/ \E i \in DOMAIN a : Names(a[i]) /\ a[i].ticket = o[k].ticket
                              \/ \E i \in DOMAIN cs : cs[i] = o[k].ticket
    /\ o[k].phase \in {"dropped", "ending"} => \E i \in DOMAIN a : a[i].do = "leave" /\ a[i].ticket = o[k].ticket

\* The operation has its turn, and is one the call may name.
HasTurn(o, t, do) ==
  \E k \in DOMAIN o : /\ o[k].ticket = t /\ o[k].phase \in {"starting", "here"}
                      /\ do \in Holders => o[k].op.kind = "upload"

\* Nobody has the turn of the operation.
Free(t, a, cs) ==
  /\ \A i \in DOMAIN a : Names(a[i]) => a[i].ticket # t
  /\ \A i \in DOMAIN cs : cs[i] # t

\* While the tracker works, each turn is in one hand.
Turns(a, o, cs) ==
  /\ \A i \in DOMAIN a : Names(a[i]) => HasTurn(o, a[i].ticket, a[i].do)
  /\ \A i, j \in DOMAIN a : i # j /\ Names(a[i]) /\ Names(a[j]) => a[i].ticket # a[j].ticket
  /\ \A i \in DOMAIN cs :
       \E k \in DOMAIN o : o[k].ticket = cs[i] /\ o[k].phase = "here" /\ o[k].op.kind = "upload"
  /\ \A i, j \in DOMAIN cs : i # j => cs[i] # cs[j]
  /\ \A i \in DOMAIN a, j \in DOMAIN cs : Names(a[i]) => a[i].ticket # cs[j]
  /\ \A k \in DOMAIN o : o[k].phase \notin {"dropped", "ending"}

\* After the connection was lost: operations leave, none starts.
Drains(a, o, cs, p) ==
  /\ \A i \in DOMAIN a : a[i].do = "leave"
  /\ cs = <<>> /\ p = <<>>
  /\ \A k \in DOMAIN o : o[k].phase \notin {"waiting", "starting"}

\* The upload of watch w that started at s.
IsUploadOf(e, w, s) == e.op.kind = "upload" /\ e.op.watch = w /\ e.op.path = s

\* Each upload on its way that something may be put off for is in the order, and its turn does not end
\* before the record is taken.
Recorded(a, o, p, w) ==
  \A s \in DOMAIN p : \E k \in DOMAIN o :
    /\ IsUploadOf(o[k], w, s)
    /\ \A i \in DOMAIN a : a[i].do = "leave" => a[i].ticket # o[k].ticket

Works(a, o, cs, p, w, X) ==
  /\ OrderOK(o) /\ IsSeq(a) /\ IsSeq(cs)
  /\ Held(a, o, cs, X) /\ Turns(a, o, cs) /\ Recorded(a, o, p, w)

Ebbs(a, o, cs, p) == OrderOK(o) /\ IsSeq(a) /\ Held(a, o, cs, {}) /\ Drains(a, o, cs, p)

TurnInv ==
  \/ Works(agenda, order, conflicts, pending, entry.watch, {})
  \/ Ebbs(agenda, order, conflicts, pending)
--------------------------------------------------------------------------------
(***************************************************************************)
(* Sequences.                                                              *)
(***************************************************************************)
LEMMA SeqIn ==
  ASSUME NEW S, NEW s \in Seq(S)
  PROVE  IsSeq(s)
<1>1. PICK n \in Nat : s \in [1..n -> S]
      BY SeqDef
<1>2. s \in [1..n -> Range(s)]
      BY <1>1 DEF Range
<1>3. QED
      BY <1>2, SeqDef DEF IsSeq

LEMMA SeqDomain ==
  ASSUME NEW s, IsSeq(s)
  PROVE  Len(s) \in Nat /\ DOMAIN s = 1..Len(s) /\ (s = <<>> <=> DOMAIN s = {})
BY DEF IsSeq

LEMMA NoSeq == IsSeq(<<>>) /\ DOMAIN <<>> = {} /\ \A s : IsSeq(s) => s \o <<>> = s /\ <<>> \o s = s
<1>1. <<>> \in Seq({}) /\ DOMAIN <<>> = {}
      OBVIOUS
<1>2. IsSeq(<<>>)
      BY <1>1, SeqIn
<1>3. ASSUME NEW s, IsSeq(s) PROVE s \o <<>> = s /\ <<>> \o s = s
      BY <1>3, ConcatEmptySeq DEF IsSeq
<1>4. QED
      BY <1>1, <1>2, <1>3

LEMMA OneSeq ==
  ASSUME NEW e
  PROVE  IsSeq(<<e>>) /\ DOMAIN <<e>> = {1} /\ <<e>>[1] = e
<1>1. <<e>> \in Seq({e}) /\ DOMAIN <<e>> = {1} /\ <<e>>[1] = e
      OBVIOUS
<1>2. QED
      BY <1>1, SeqIn

LEMMA ConcatSeq ==
  ASSUME NEW q, NEW r, IsSeq(q), IsSeq(r)
  PROVE  /\ IsSeq(q \o r)
         /\ \A i \in DOMAIN (q \o r) :
              \/ i \in DOMAIN q /\ (q \o r)[i] = q[i]
              \/ i - Len(q) \in DOMAIN r /\ (q \o r)[i] = r[i - Len(q)] /\ i \notin DOMAIN q
         /\ \A i \in DOMAIN q : i \in DOMAIN (q \o r) /\ (q \o r)[i] = q[i]
         /\ \A i \in DOMAIN r : /\ i + Len(q) \in DOMAIN (q \o r) /\ (q \o r)[i + Len(q)] = r[i]
                                /\ i + Len(q) \notin DOMAIN q
<1> DEFINE S == Range(q) \cup Range(r)
<1>1. q \in Seq(S) /\ r \in Seq(S)
      <2>1. q \in Seq(Range(q)) /\ r \in Seq(Range(r))
            BY DEF IsSeq
      <2>2. QED
            BY <2>1
<1> HIDE DEF S
<1>2. q \o r \in Seq(S)
      BY <1>1
<1>3. IsSeq(q \o r)
      BY <1>2, SeqIn
<1>4. QED
      BY <1>1, <1>3

LEMMA TailSeq ==
  ASSUME NEW s, IsSeq(s), s # <<>>
  PROVE  /\ IsSeq(Tail(s)) /\ 1 \in DOMAIN s /\ Head(s) = s[1]
         /\ \A i \in DOMAIN Tail(s) : i + 1 \in DOMAIN s /\ Tail(s)[i] = s[i + 1] /\ i + 1 # 1
         /\ \A i \in DOMAIN s : i # 1 => i - 1 \in DOMAIN Tail(s) /\ Tail(s)[i - 1] = s[i]
<1>1. s \in Seq(Range(s))
      BY DEF IsSeq
<1>2. Tail(s) \in Seq(Range(s))
      BY <1>1
<1>3. IsSeq(Tail(s))
      BY <1>2, SeqIn
<1>4. QED
      BY <1>1, <1>3

LEMMA RemoveAtSeq ==
  ASSUME NEW q, IsSeq(q), NEW n \in DOMAIN q
  PROVE  /\ IsSeq(RemoveAt(q, n))
         /\ \A i \in DOMAIN RemoveAt(q, n) :
              IF i < n THEN i \in DOMAIN q /\ RemoveAt(q, n)[i] = q[i]
              ELSE i + 1 \in DOMAIN q /\ RemoveAt(q, n)[i] = q[i + 1]
         /\ \A i \in DOMAIN q : /\ i < n => i \in DOMAIN RemoveAt(q, n) /\ RemoveAt(q, n)[i] = q[i]
                                /\ i > n => i - 1 \in DOMAIN RemoveAt(q, n) /\ RemoveAt(q, n)[i - 1] = q[i]
<1> DEFINE S == Range(q)
           a == SubSeq(q, 1, n - 1)
           b == SubSeq(q, n + 1, Len(q))
           r == a \o b
<1>0. q \in Seq(S)
      BY DEF IsSeq
<1> HIDE DEF S
<1>00. n \in Nat /\ 1 <= n /\ n <= Len(q) /\ Len(q) \in Nat /\ DOMAIN q = 1..Len(q)
      BY <1>0
<1>1. a \in Seq(S) /\ Len(a) = n - 1 /\ DOMAIN a = 1..(n - 1) /\ \A i \in 1..(n - 1) : a[i] = q[i]
      BY <1>0, <1>00
<1>2. /\ b \in Seq(S) /\ Len(b) = Len(q) - n /\ DOMAIN b = 1..(Len(q) - n)
      /\ \A i \in 1..(Len(q) - n) : b[i] = q[n + i]
      BY <1>0, <1>00
<1>3. RemoveAt(q, n) = r
      BY DEF RemoveAt
<1> HIDE DEF a, b
<1>4. r \in Seq(S) /\ Len(r) = Len(q) - 1 /\ DOMAIN r = 1..(Len(q) - 1)
      <2>1. r \in Seq(S) /\ Len(r) = Len(a) + Len(b)
            BY <1>1, <1>2, ConcatProperties
      <2>2. Len(r) = Len(q) - 1 /\ DOMAIN r = 1..Len(r)
            BY <2>1, <1>00, <1>1, <1>2, LenProperties
      <2>3. QED
            BY <2>1, <2>2
<1>5. \A i \in 1..(n - 1) : r[i] = q[i]
      BY <1>00, <1>1, <1>2
<1>6. \A i \in n..(Len(q) - 1) : r[i] = q[i + 1]
      <2>1. SUFFICES ASSUME NEW i \in n..(Len(q) - 1) PROVE r[i] = q[i + 1]
            OBVIOUS
      <2>2. i - (n - 1) \in 1..(Len(q) - n) /\ n + (i - (n - 1)) = i + 1
            BY <1>00
      <2>3. r[i] = b[i - (n - 1)]
            BY <1>00, <1>1, <1>2, <2>2
      <2>4. QED
            BY <1>2, <2>2, <2>3
<1>7. IsSeq(r)
      BY <1>4, SeqIn
<1> HIDE DEF r
<1>8. QED
      BY <1>00, <1>3, <1>4, <1>5, <1>6, <1>7

LEMMA AppendSeq ==
  ASSUME NEW q, IsSeq(q), NEW e
  PROVE  /\ IsSeq(Append(q, e)) /\ DOMAIN Append(q, e) = DOMAIN q \cup {Len(q) + 1} /\ Len(q) + 1 \notin DOMAIN q
         /\ Append(q, e)[Len(q) + 1] = e /\ \A i \in DOMAIN q : Append(q, e)[i] = q[i]
         /\ Len(Append(q, e)) = Len(q) + 1
<1> DEFINE S == Range(q) \cup {e}
<1>1. q \in Seq(S) /\ e \in S
      <2>1. q \in Seq(Range(q))
            BY DEF IsSeq
      <2>2. QED
            BY <2>1
<1> HIDE DEF S
<1>2. Append(q, e) \in Seq(S)
      BY <1>1
<1>3. IsSeq(Append(q, e))
      BY <1>2, SeqIn
<1>4. QED
      BY <1>1, <1>3

\* A function on the places of a sequence is a sequence.
LEMMA MapSeq ==
  ASSUME NEW q, IsSeq(q), NEW f, DOMAIN f = DOMAIN q, f = [i \in DOMAIN q |-> f[i]]
  PROVE  IsSeq(f)
<1>1. Len(q) \in Nat /\ DOMAIN q = 1..Len(q)
      BY SeqDomain
<1>2. f \in [1..Len(q) -> Range(f)]
      BY <1>1 DEF Range
<1>3. f \in Seq(Range(f))
      BY <1>1, <1>2
<1>4. QED
      BY <1>3 DEF IsSeq

LEMMA AscendingSeq ==
  ASSUME NEW S, IsFiniteSet(S), NEW s \in Ascending(S)
  PROVE  /\ IsSeq(s) /\ s = [i \in DOMAIN s |-> s[i]]
         /\ \A i \in DOMAIN s : s[i] \in S
         /\ \A x \in S : \E i \in DOMAIN s : s[i] = x
         /\ \A i, j \in DOMAIN s : i < j => s[i] < s[j]
<1>1. Cardinality(S) \in Nat
      BY FS_CardinalityType
<1>2. s \in [1..Cardinality(S) -> S] /\ Range(s) = S /\ \A i, j \in DOMAIN s : i < j => s[i] < s[j]
      BY DEF Ascending
<1>3. s \in Seq(S)
      BY <1>1, <1>2
<1>4. IsSeq(s)
      BY <1>3, SeqIn
<1>5. QED
      BY <1>2, <1>4 DEF Range
--------------------------------------------------------------------------------
(***************************************************************************)
(* The agenda: a call is taken off it, others are put on it.               *)
(***************************************************************************)
LEMMA PopWorks ==
  ASSUME NEW a, NEW o, NEW cs, NEW p, NEW w, NEW X, Works(a, o, cs, p, w, X), a # <<>>
  PROVE  /\ Works(Tail(a), o, cs, p, w, IF Names(a[1]) THEN X \cup {a[1].ticket} ELSE X)
         /\ Names(a[1]) => Free(a[1].ticket, Tail(a), cs)
         /\ Head(a) = a[1] /\ 1 \in DOMAIN a
<1> DEFINE b == Tail(a)
           Y == IF Names(a[1]) THEN X \cup {a[1].ticket} ELSE X
<1>0. OrderOK(o) /\ IsSeq(a) /\ IsSeq(cs) /\ Held(a, o, cs, X) /\ Turns(a, o, cs) /\ Recorded(a, o, p, w)
      BY DEF Works
<1>1. /\ IsSeq(b) /\ 1 \in DOMAIN a /\ Head(a) = a[1]
      /\ \A i \in DOMAIN b : i + 1 \in DOMAIN a /\ b[i] = a[i + 1] /\ i + 1 # 1
      /\ \A i \in DOMAIN a : i # 1 => i - 1 \in DOMAIN b /\ b[i - 1] = a[i]
      BY <1>0, TailSeq
<1>2. DOMAIN a \subseteq Nat /\ DOMAIN b \subseteq Nat
      BY <1>0, <1>1, SeqDomain
<1> HIDE DEF b
<1>3. Held(b, o, cs, Y)
      <2>1. \A i \in DOMAIN a : Names(a[i]) /\ a[i].ticket \notin Y => \E j \in DOMAIN b : b[j] = a[i]
            BY <1>1
      <2>2. X \subseteq Y
            OBVIOUS
      <2>3. \A i \in DOMAIN a : a[i].do \in {"checkServer", "leave"} => Names(a[i])
            BY DEF Names, Holders
      <2> HIDE DEF Y
      <2>4. QED
            BY <1>0, <2>1, <2>2, <2>3 DEF Held
<1>4. \A i \in DOMAIN b, j \in DOMAIN b : i # j => i + 1 # j + 1
      BY <1>2
<1>5. Turns(b, o, cs)
      BY <1>0, <1>1, <1>4 DEF Turns
<1>6. Recorded(b, o, p, w)
      BY <1>0, <1>1 DEF Recorded
<1>7. Names(a[1]) => Free(a[1].ticket, b, cs)
      BY <1>0, <1>1 DEF Turns, Free
<1> HIDE DEF Y
<1>8. Works(b, o, cs, p, w, Y)
      BY <1>0, <1>1, <1>3, <1>5, <1>6 DEF Works
<1>9. QED
      BY <1>1, <1>7, <1>8 DEF b, Y

\* Calls of which none names an operation, or one does.
Quiet(c) == IsSeq(c) /\ \A i \in DOMAIN c : ~Names(c[i])
One(c, n) ==
  /\ IsSeq(c) /\ Names(n)
  /\ \E k \in DOMAIN c : c[k] = n /\ \A i \in DOMAIN c : i # k => ~Names(c[i])

LEMMA QuietCalls ==
  /\ Quiet(<<>>)
  /\ \A n : ~Names(n) => Quiet(<<n>>)
  /\ \A n : Names(n) => One(<<n>>, n)
<1>1. Quiet(<<>>)
      BY NoSeq DEF Quiet
<1>2. ASSUME NEW n PROVE (~Names(n) => Quiet(<<n>>)) /\ (Names(n) => One(<<n>>, n))
      <2> DEFINE e == <<n>>
      <2>1. IsSeq(e) /\ DOMAIN e = {1} /\ e[1] = n
            BY OneSeq
      <2> HIDE DEF e
      <2>2. (~Names(n) => Quiet(e)) /\ (Names(n) => One(e, n))
            BY <2>1 DEF Quiet, One
      <2>3. QED
            BY <2>2 DEF e
<1>3. QED
      BY <1>1, <1>2

LEMMA QuietConcat ==
  ASSUME NEW q, NEW r
  PROVE  /\ Quiet(q) /\ Quiet(r) => Quiet(q \o r)
         /\ \A n : Quiet(q) /\ One(r, n) => One(q \o r, n)
         /\ \A n : One(q, n) /\ Quiet(r) => One(q \o r, n)
<1> DEFINE c == q \o r
<1>1. SUFFICES ASSUME IsSeq(q), IsSeq(r)
               PROVE  /\ Quiet(q) /\ Quiet(r) => Quiet(c)
                      /\ \A n : Quiet(q) /\ One(r, n) => One(c, n)
                      /\ \A n : One(q, n) /\ Quiet(r) => One(c, n)
      BY DEF Quiet, One
<1>2. /\ IsSeq(c)
      /\ \A i \in DOMAIN c : \/ i \in DOMAIN q /\ c[i] = q[i]
                             \/ i - Len(q) \in DOMAIN r /\ c[i] = r[i - Len(q)] /\ i \notin DOMAIN q
      /\ \A i \in DOMAIN q : i \in DOMAIN c /\ c[i] = q[i]
      /\ \A i \in DOMAIN r : i + Len(q) \in DOMAIN c /\ c[i + Len(q)] = r[i] /\ i + Len(q) \notin DOMAIN q
      BY <1>1, ConcatSeq
<1>3. DOMAIN c \subseteq Nat /\ DOMAIN r \subseteq Nat /\ Len(q) \in Nat
      BY <1>1, <1>2, SeqDomain
<1> HIDE DEF c
<1>4. Quiet(q) /\ Quiet(r) => Quiet(c)
      BY <1>2 DEF Quiet
<1>5. ASSUME NEW n, Quiet(q), One(r, n) PROVE One(c, n)
      <2>1. PICK k \in DOMAIN r : r[k] = n /\ \A i \in DOMAIN r : i # k => ~Names(r[i])
            BY <1>5 DEF One
      <2>2. k + Len(q) \in DOMAIN c /\ c[k + Len(q)] = n
            BY <1>2, <2>1
      <2>3. ASSUME NEW i \in DOMAIN c, i # k + Len(q) PROVE ~Names(c[i])
            <3>1. CASE i \in DOMAIN q
                  BY <3>1, <1>2, <1>5 DEF Quiet
            <3>2. CASE i - Len(q) \in DOMAIN r /\ c[i] = r[i - Len(q)]
                  <4>1. i - Len(q) # k
                        BY <1>3, <2>1, <2>3
                  <4>2. QED
                        BY <3>2, <4>1, <2>1
            <3>3. QED
                  BY <3>1, <3>2, <1>2
      <2>4. QED
            BY <1>2, <1>5, <2>2, <2>3 DEF One
<1>6. ASSUME NEW n, One(q, n), Quiet(r) PROVE One(c, n)
      <2>1. PICK k \in DOMAIN q : q[k] = n /\ \A i \in DOMAIN q : i # k => ~Names(q[i])
            BY <1>6 DEF One
      <2>2. k \in DOMAIN c /\ c[k] = n
            BY <1>2, <2>1
      <2>3. ASSUME NEW i \in DOMAIN c, i # k PROVE ~Names(c[i])
            BY <1>2, <1>6, <2>1, <2>3 DEF Quiet
      <2>4. QED
            BY <1>2, <1>6, <2>2, <2>3 DEF One
<1>7. QED
      BY <1>4, <1>5, <1>6

LEMMA PushQuiet ==
  ASSUME NEW a, NEW o, NEW cs, NEW p, NEW w, NEW X, Works(a, o, cs, p, w, X), NEW c, Quiet(c)
  PROVE  /\ Works(c \o a, o, cs, p, w, X)
         /\ \A t : Free(t, a, cs) => Free(t, c \o a, cs)
<1> DEFINE b == c \o a
<1>0. /\ OrderOK(o) /\ IsSeq(a) /\ IsSeq(cs) /\ Held(a, o, cs, X) /\ Turns(a, o, cs) /\ Recorded(a, o, p, w)
      /\ IsSeq(c) /\ \A i \in DOMAIN c : ~Names(c[i])
      BY DEF Works, Quiet
<1>1. /\ IsSeq(b)
      /\ \A i \in DOMAIN b : Names(b[i]) => i - Len(c) \in DOMAIN a /\ b[i] = a[i - Len(c)]
      /\ \A i \in DOMAIN a : i + Len(c) \in DOMAIN b /\ b[i + Len(c)] = a[i]
      <2>1. /\ IsSeq(b)
            /\ \A i \in DOMAIN b : \/ i \in DOMAIN c /\ b[i] = c[i]
                                   \/ i - Len(c) \in DOMAIN a /\ b[i] = a[i - Len(c)] /\ i \notin DOMAIN c
            /\ \A i \in DOMAIN a : i + Len(c) \in DOMAIN b /\ b[i + Len(c)] = a[i]
            BY <1>0, ConcatSeq
      <2> HIDE DEF b
      <2>2. QED
            BY <2>1, <1>0
<1>2. DOMAIN a \subseteq Nat /\ DOMAIN b \subseteq Nat /\ Len(c) \in Nat
      BY <1>0, <1>1, SeqDomain
<1> HIDE DEF b
<1>3. \A i, j \in DOMAIN b : i # j => i - Len(c) # j - Len(c)
      BY <1>2
<1>4. Held(b, o, cs, X)
      <2>1. \A i \in DOMAIN a : \E j \in DOMAIN b : b[j] = a[i]
            BY <1>1
      <2>2. QED
            BY <2>1, <1>0 DEF Held
<1>5. Turns(b, o, cs)
      BY <1>0, <1>1, <1>3 DEF Turns
<1>6. Recorded(b, o, p, w)
      <2>1. \A i \in DOMAIN b : b[i].do = "leave" => \E j \in DOMAIN a : b[i] = a[j]
            BY <1>1 DEF Names
      <2>2. QED
            BY <2>1, <1>0 DEF Recorded
<1>7. \A t : Free(t, a, cs) => Free(t, b, cs)
      BY <1>1 DEF Free
<1>8. QED
      BY <1>0, <1>1, <1>4, <1>5, <1>6, <1>7 DEF Works, b

\* A call that names an operation which is in its turn and in no other hand.
LEMMA PushOne ==
  ASSUME NEW a, NEW o, NEW cs, NEW p, NEW w, NEW X, Works(a, o, cs, p, w, X),
         NEW c, NEW n, One(c, n), Free(n.ticket, a, cs), HasTurn(o, n.ticket, n.do),
         \A k \in DOMAIN o : /\ o[k].ticket = n.ticket /\ o[k].phase = "starting" => n.do = "checkServer"
                             /\ o[k].ticket = n.ticket /\ n.do = "leave" => \A s \in DOMAIN p : ~IsUploadOf(o[k], w, s)
  PROVE  Works(c \o a, o, cs, p, w, X \ {n.ticket})
<1> DEFINE b == c \o a
<1>0. OrderOK(o) /\ IsSeq(a) /\ IsSeq(cs) /\ Held(a, o, cs, X) /\ Turns(a, o, cs) /\ Recorded(a, o, p, w)
      BY DEF Works
<1>1. PICK m \in DOMAIN c : c[m] = n /\ \A i \in DOMAIN c : i # m => ~Names(c[i])
      BY DEF One
<1>2. IsSeq(c) /\ Names(n)
      BY DEF One
<1>3. /\ IsSeq(b) /\ m \in DOMAIN b /\ b[m] = n
      /\ \A i \in DOMAIN b : Names(b[i]) /\ i # m => i - Len(c) \in DOMAIN a /\ b[i] = a[i - Len(c)]
      /\ \A i \in DOMAIN a : i + Len(c) \in DOMAIN b /\ b[i + Len(c)] = a[i]
      <2>1. /\ IsSeq(b)
            /\ \A i \in DOMAIN b : \/ i \in DOMAIN c /\ b[i] = c[i]
                                   \/ i - Len(c) \in DOMAIN a /\ b[i] = a[i - Len(c)] /\ i \notin DOMAIN c
            /\ \A i \in DOMAIN c : i \in DOMAIN b /\ b[i] = c[i]
            /\ \A i \in DOMAIN a : i + Len(c) \in DOMAIN b /\ b[i + Len(c)] = a[i] /\ i + Len(c) \notin DOMAIN c
            <3>1. IsSeq(a) /\ IsSeq(c)
                  BY <1>0, <1>2
            <3>2. QED
                  BY <3>1, ConcatSeq
      <2> HIDE DEF b
      <2>2. QED
            BY <2>1, <1>1
<1>4. DOMAIN a \subseteq Nat /\ DOMAIN b \subseteq Nat /\ Len(c) \in Nat
      BY <1>0, <1>2, <1>3, SeqDomain
<1> HIDE DEF b
<1>5. \A i, j \in DOMAIN b : i # j => i - Len(c) # j - Len(c)
      BY <1>4
<1>6. Held(b, o, cs, X \ {n.ticket})
      <2>1. \A i \in DOMAIN a : \E j \in DOMAIN b : b[j] = a[i]
            BY <1>3
      <2>2. ASSUME NEW k \in DOMAIN o, o[k].ticket = n.ticket
            PROVE  /\ o[k].phase = "starting" => b[m].do = "checkServer" /\ b[m].ticket = o[k].ticket
                   /\ Names(b[m]) /\ b[m].ticket = o[k].ticket
                   /\ o[k].phase \notin {"dropped", "ending"}
            BY <2>2, <1>0, <1>2, <1>3 DEF Turns
      <2>3. QED
            BY <2>1, <2>2, <1>0, <1>3 DEF Held
<1>7. Turns(b, o, cs)
      <2>1. \A i \in DOMAIN b : Names(b[i]) => HasTurn(o, b[i].ticket, b[i].do)
            BY <1>0, <1>3 DEF Turns
      <2>2. \A i, j \in DOMAIN b : i # j /\ Names(b[i]) /\ Names(b[j]) => b[i].ticket # b[j].ticket
            <3>1. \A i \in DOMAIN b : i # m /\ Names(b[i]) => b[i].ticket # n.ticket
                  BY <1>3 DEF Free
            <3>2. \A i, j \in DOMAIN b : i # j /\ i # m /\ j # m /\ Names(b[i]) /\ Names(b[j]) => b[i].ticket # b[j].ticket
                  BY <1>0, <1>3, <1>5 DEF Turns
            <3>3. QED
                  BY <1>3, <3>1, <3>2
      <2>3. \A i \in DOMAIN b, j \in DOMAIN cs : Names(b[i]) => b[i].ticket # cs[j]
            BY <1>0, <1>3 DEF Turns, Free
      <2>4. QED
            BY <1>0, <2>1, <2>2, <2>3 DEF Turns
<1>8. Recorded(b, o, p, w)
      <2>1. \A i \in DOMAIN b : b[i].do = "leave" => i = m \/ \E j \in DOMAIN a : b[i] = a[j]
            BY <1>3 DEF Names
      <2>2. ASSUME NEW s \in DOMAIN p
            PROVE  \E k \in DOMAIN o : /\ IsUploadOf(o[k], w, s)
                                       /\ \A i \in DOMAIN b : b[i].do = "leave" => b[i].ticket # o[k].ticket
            <3>1. PICK k \in DOMAIN o : /\ IsUploadOf(o[k], w, s)
                                        /\ \A i \in DOMAIN a : a[i].do = "leave" => a[i].ticket # o[k].ticket
                  BY <1>0 DEF Recorded
            <3>2. n.do = "leave" => o[k].ticket # n.ticket
                  BY <3>1
            <3>3. QED
                  BY <3>1, <3>2, <2>1, <1>3
      <2>3. QED
            BY <2>2 DEF Recorded
<1>9. QED
      BY <1>0, <1>3, <1>6, <1>7, <1>8 DEF Works, b
--------------------------------------------------------------------------------
(***************************************************************************)
(* The order: operations go on, enter and leave.                           *)
(***************************************************************************)
LEMMA PhasesOfTurns ==
  /\ Away \subseteq Phases /\ "here" \in Phases
  /\ \A e : e.phase \in Phases => (Started(e) <=> e.phase \in Away \cup {"starting", "here"})
BY DEF Away, Phases, Started, Unstarted

\* Operations went on, those with a ticket in T into the hands of the tracker or out of them.
Moves(o, o2, T) ==
  /\ IsSeq(o2) /\ DOMAIN o2 = DOMAIN o
  /\ \A k \in DOMAIN o :
       /\ IsEntry(o2[k]) /\ o2[k].ticket = o[k].ticket /\ o2[k].paths = o[k].paths
       /\ o2[k].op.kind = o[k].op.kind
       /\ o[k].op.kind = "upload" => o2[k].op.watch = o[k].op.watch /\ o2[k].op.path = o[k].op.path
       /\ \/ o2[k].phase = o[k].phase
          \/ o[k].phase \in Away /\ o2[k].phase \in Away
          \/ o[k].ticket \in T /\ Started(o[k]) /\ o2[k].phase \in Away \cup {"here"}

LEMMA MovesOrder ==
  ASSUME NEW o, NEW o2, NEW T, OrderOK(o), Moves(o, o2, T)
  PROVE  /\ OrderOK(o2)
         /\ \A k \in DOMAIN o : Started(o2[k]) <=> Started(o[k])
<1>1. \A k \in DOMAIN o : /\ Started(o2[k]) <=> Started(o[k])
                          /\ o2[k].phase = "waiting" <=> o[k].phase = "waiting"
      BY PhasesOfTurns DEF OrderOK, Moves, IsEntry, Away, Started, Unstarted
<1>2. QED
      BY <1>1 DEF OrderOK, Moves

LEMMA MovesWorks ==
  ASSUME NEW a, NEW o, NEW cs, NEW p, NEW w, NEW X, Works(a, o, cs, p, w, X),
         NEW o2, NEW T, Moves(o, o2, T), \A t \in T : Free(t, a, cs)
  PROVE  Works(a, o2, cs, p, w, X \cup T)
<1>0. OrderOK(o) /\ IsSeq(a) /\ IsSeq(cs) /\ Held(a, o, cs, X) /\ Turns(a, o, cs) /\ Recorded(a, o, p, w)
      BY DEF Works
<1>1. OrderOK(o2)
      BY <1>0, MovesOrder
<1>2. /\ DOMAIN o2 = DOMAIN o
      /\ \A k \in DOMAIN o : /\ o2[k].ticket = o[k].ticket /\ o2[k].op.kind = o[k].op.kind
                             /\ \A s : IsUploadOf(o[k], w, s) => IsUploadOf(o2[k], w, s)
      BY DEF Moves, IsUploadOf
<1>3. \A k \in DOMAIN o : \/ o2[k].phase = o[k].phase
                          \/ o[k].phase \in Away /\ o2[k].phase \in Away
                          \/ o[k].ticket \in T /\ o2[k].phase \in Away \cup {"here"}
      BY DEF Moves
<1>4. Held(a, o2, cs, X \cup T)
      BY <1>0, <1>2, <1>3 DEF Held, Away
<1>5. \A t, do : HasTurn(o, t, do) /\ t \notin T => HasTurn(o2, t, do)
      BY <1>2, <1>3 DEF HasTurn, Away
<1>6. Turns(a, o2, cs)
      <2>1. \A i \in DOMAIN a : Names(a[i]) => a[i].ticket \notin T
            BY DEF Free
      <2>2. \A i \in DOMAIN cs : cs[i] \notin T
            BY DEF Free
      <2>3. \A i \in DOMAIN a : Names(a[i]) => HasTurn(o2, a[i].ticket, a[i].do)
            BY <1>0, <1>5, <2>1 DEF Turns
      <2>4. \A i \in DOMAIN cs :
              \E k \in DOMAIN o2 : o2[k].ticket = cs[i] /\ o2[k].phase = "here" /\ o2[k].op.kind = "upload"
            BY <1>0, <1>2, <1>3, <2>2 DEF Turns, Away
      <2>5. \A k \in DOMAIN o2 : o2[k].phase \notin {"dropped", "ending"}
            BY <1>0, <1>2, <1>3 DEF Turns, Away
      <2>6. QED
            BY <1>0, <2>3, <2>4, <2>5 DEF Turns
<1>7. Recorded(a, o2, p, w)
      BY <1>0, <1>2 DEF Recorded
<1>8. QED
      BY <1>0, <1>1, <1>4, <1>6, <1>7 DEF Works

LEMMA MovesEbbs ==
  ASSUME NEW a, NEW o, NEW cs, NEW p, Ebbs(a, o, cs, p), NEW o2, Moves(o, o2, {})
  PROVE  Ebbs(a, o2, cs, p)
<1>0. OrderOK(o) /\ IsSeq(a) /\ Held(a, o, cs, {}) /\ Drains(a, o, cs, p)
      BY DEF Ebbs
<1>1. OrderOK(o2)
      BY <1>0, MovesOrder
<1>2. /\ DOMAIN o2 = DOMAIN o
      /\ \A k \in DOMAIN o : /\ o2[k].ticket = o[k].ticket
                             /\ \/ o2[k].phase = o[k].phase
                                \/ o[k].phase \in Away /\ o2[k].phase \in Away
      BY DEF Moves
<1>3. Held(a, o2, cs, {})
      BY <1>0, <1>2 DEF Held, Away
<1>4. Drains(a, o2, cs, p)
      BY <1>0, <1>2 DEF Drains, Away
<1>5. QED
      BY <1>0, <1>1, <1>3, <1>4 DEF Ebbs

\* SetOp gives one operation another phase and some fields.
LEMMA OverFields ==
  ASSUME NEW f, NEW g
  PROVE  /\ DOMAIN Over(f, g) = DOMAIN f \cup DOMAIN g
         /\ \A x \in DOMAIN f : Over(f, g)[x] = f[x]
         /\ \A x \in DOMAIN g : x \notin DOMAIN f => Over(f, g)[x] = g[x]
BY DEF Over

Reserved == {"kind", "watch", "path"}

LEMMA EntryUpdate ==
  ASSUME NEW e, IsEntry(e), NEW ph \in Phases, NEW fields, DOMAIN fields \cap Reserved = {},
         NEW e2, e2 = Updated(e, ph, fields)
  PROVE  /\ IsEntry(e2) /\ e2.ticket = e.ticket /\ e2.paths = e.paths /\ e2.phase = ph
         /\ e2.op = Over(fields, e.op) /\ e2.op.kind = e.op.kind
         /\ e.op.kind = "upload" => e2.op.watch = e.op.watch /\ e2.op.path = e.op.path
<1>1. e = [ticket |-> e.ticket, paths |-> e.paths, op |-> e.op, phase |-> e.phase]
      BY DEF IsEntry
<1>2. e2 = [ticket |-> e.ticket, paths |-> e.paths, op |-> Over(fields, e.op), phase |-> ph]
      BY <1>1 DEF Updated
<1>3. e2.op = Over(fields, e.op) /\ e2.phase = ph /\ e2.ticket = e.ticket /\ e2.paths = e.paths
      BY <1>2
<1>4. ASSUME NEW x \in DOMAIN e.op, x \in Reserved PROVE x \in DOMAIN e2.op /\ e2.op[x] = e.op[x]
      <2> DEFINE g == Over(fields, e.op)
      <2>1. DOMAIN g = DOMAIN fields \cup DOMAIN e.op /\ (x \notin DOMAIN fields => g[x] = e.op[x])
            BY DEF Over
      <2>2. e2.op = g
            BY <1>3
      <2> HIDE DEF g
      <2>3. x \notin DOMAIN fields
            BY <1>4
      <2>4. QED
            BY <2>1, <2>2, <2>3
<1>5. e2.op.kind = e.op.kind /\ "kind" \in DOMAIN e2.op
      BY <1>4 DEF IsEntry, Reserved
<1>6. e.op.kind = "upload" => /\ e2.op.watch = e.op.watch /\ e2.op.path = e.op.path
                              /\ "watch" \in DOMAIN e2.op /\ "path" \in DOMAIN e2.op
      BY <1>4 DEF IsEntry, Reserved
<1>7. IsEntry(e2)
      BY <1>2, <1>3, <1>5, <1>6 DEF IsEntry
<1>8. QED
      BY <1>3, <1>5, <1>6, <1>7

LEMMA PlaceFound ==
  ASSUME NEW o, OrderOK(o), NEW k \in DOMAIN o
  PROVE  PlaceOf(o, o[k].ticket) = k /\ HasTicket(o, o[k].ticket)
<1>1. \A i \in DOMAIN o : o[i].ticket = o[k].ticket => i = k
      <2>1. SUFFICES ASSUME NEW i \in DOMAIN o, i # k PROVE o[i].ticket # o[k].ticket
            OBVIOUS
      <2>2. i \in Nat /\ k \in Nat /\ o[i].ticket \in Nat /\ o[k].ticket \in Nat
            BY SeqDomain DEF OrderOK, IsEntry
      <2>3. i < k \/ k < i
            BY <2>1, <2>2
      <2>4. o[i].ticket < o[k].ticket \/ o[k].ticket < o[i].ticket
            BY <2>3 DEF OrderOK
      <2>5. QED
            BY <2>2, <2>4
<1>2. QED
      BY <1>1 DEF PlaceOf, HasTicket

LEMMA SetOpMoves ==
  ASSUME NEW k \in DOMAIN order, OrderOK(order), NEW t, order[k].ticket = t,
         NEW ph \in Away \cup {"here"}, NEW fields, DOMAIN fields \cap Reserved = {}, Started(order[k])
  PROVE  /\ Moves(order, SetOp(t, ph, fields), {t})
         /\ order[k].phase \in Away /\ ph \in Away => Moves(order, SetOp(t, ph, fields), {})
         /\ SetOp(t, ph, fields)[k].phase = ph /\ SetOp(t, ph, fields)[k].op = Over(fields, order[k].op)
         /\ \A i \in DOMAIN order : i # k => SetOp(t, ph, fields)[i] = order[i]
         /\ DOMAIN SetOp(t, ph, fields) = DOMAIN order
<1> DEFINE o2 == SetOp(t, ph, fields)
           e2 == Updated(order[k], ph, fields)
<1>1. o2 = [order EXCEPT ![k] = e2]
      <2>1. PlaceOf(order, t) = k
            BY PlaceFound
      <2>2. QED
            BY <2>1 DEF SetOp, Updated
<1>2. IsSeq(order) /\ \A i \in DOMAIN order : IsEntry(order[i])
      BY DEF OrderOK
<1>3. /\ IsEntry(e2) /\ e2.ticket = order[k].ticket /\ e2.paths = order[k].paths /\ e2.phase = ph
      /\ e2.op = Over(fields, order[k].op) /\ e2.op.kind = order[k].op.kind
      /\ order[k].op.kind = "upload" => e2.op.watch = order[k].op.watch /\ e2.op.path = order[k].op.path
      <2>1. ph \in Phases
            BY PhasesOfTurns
      <2>2. IsEntry(order[k])
            BY <1>2
      <2>3. QED
            BY <2>1, <2>2, EntryUpdate
<1> HIDE DEF e2
<1>4. DOMAIN o2 = DOMAIN order /\ o2[k] = e2 /\ \A i \in DOMAIN order : i # k => o2[i] = order[i]
      BY <1>1
<1>5. IsSeq(o2)
      <2>1. order = [i \in DOMAIN order |-> order[i]]
            BY <1>2, SeqDomain DEF IsSeq
      <2>2. o2 = [i \in DOMAIN order |-> o2[i]]
            BY <1>1, <2>1
      <2> HIDE DEF o2
      <2>3. QED
            BY <1>2, <1>4, <2>2, MapSeq
<1> HIDE DEF o2
<1>6. Moves(order, o2, {t})
      BY <1>2, <1>3, <1>4, <1>5 DEF Moves
<1>7. order[k].phase \in Away /\ ph \in Away => Moves(order, o2, {})
      BY <1>2, <1>3, <1>4, <1>5 DEF Moves
<1>8. QED
      BY <1>3, <1>4, <1>6, <1>7 DEF o2

\* An operation enters at the end.
IsOp(op) == "kind" \in DOMAIN op /\ (op.kind = "upload" => "watch" \in DOMAIN op /\ "path" \in DOMAIN op)

LEMMA NextIsAbove ==
  ASSUME NEW o, OrderOK(o)
  PROVE  NextTicket(o) \in Nat /\ \A k \in DOMAIN o : o[k].ticket < NextTicket(o)
<1>1. IsSeq(o) /\ \A k \in DOMAIN o : o[k].ticket \in Nat
      BY DEF OrderOK, IsEntry
<1>2. Len(o) \in Nat /\ DOMAIN o = 1..Len(o)
      BY <1>1, SeqDomain
<1>3. CASE o = <<>>
      BY <1>3, <1>1, SeqDomain DEF NextTicket
<1>4. CASE o # <<>>
      <2>1. Len(o) \in DOMAIN o
            BY <1>1, <1>2, <1>4, SeqDomain
      <2>2. NextTicket(o) = o[Len(o)].ticket + 1
            BY <1>4 DEF NextTicket, Last
      <2>3. \A k \in DOMAIN o : k # Len(o) => k < Len(o)
            BY <1>2
      <2>4. \A k \in DOMAIN o : k # Len(o) => o[k].ticket < o[Len(o)].ticket
            BY <2>1, <2>3 DEF OrderOK
      <2>5. QED
            BY <1>1, <2>1, <2>2, <2>4
<1>5. QED
      BY <1>3, <1>4

LEMMA EnterOrder ==
  ASSUME NEW o, OrderOK(o), NEW paths, NEW op, IsOp(op), NEW o2, o2 = Entering(o, paths, op)
  PROVE  \E m \in Nat :
           /\ OrderOK(o2) /\ DOMAIN o2 = DOMAIN o \cup {m} /\ m \notin DOMAIN o
           /\ \A k \in DOMAIN o : o2[k] = o[k]
           /\ o2[m].ticket = NextTicket(o) /\ o2[m].op = op
           /\ o2[m].phase \in {"waiting", "starting", "sent"}
           /\ o2[m].phase = "starting" => op.kind = "upload"
           /\ Last(o2) = o2[m]
<1> DEFINE ph == IF Waits(o, paths) THEN "waiting" ELSE Turn("waiting", op)
           e == [ticket |-> NextTicket(o), paths |-> paths, op |-> op, phase |-> ph]
           m == Len(o) + 1
<1>1. ph \in {"waiting", "starting", "sent"} /\ (ph = "starting" => op.kind = "upload") /\ (ph = "waiting" <=> Waits(o, paths))
      BY DEF Turn
<1>2. o2 = Append(o, e)
      BY DEF Entering
<1> HIDE DEF ph
<1>3. e.ticket = NextTicket(o) /\ e.paths = paths /\ e.op = op /\ e.phase = ph
      OBVIOUS
<1>4. IsEntry(e)
      BY <1>1, NextIsAbove DEF IsEntry, IsOp, Phases
<1> HIDE DEF e
<1>5. IsSeq(o) /\ Len(o) \in Nat /\ DOMAIN o = 1..Len(o)
      BY SeqDomain DEF OrderOK
<1>6. /\ IsSeq(o2) /\ DOMAIN o2 = DOMAIN o \cup {m} /\ m \notin DOMAIN o
      /\ o2[m] = e /\ \A i \in DOMAIN o : o2[i] = o[i]
      /\ Last(o2) = o2[m]
      BY <1>2, <1>5, AppendSeq DEF Last
<1>7. \A i \in DOMAIN o : i < m /\ ~(m < i)
      BY <1>5
<1>8. m \in Nat /\ ~(m < m)
      BY <1>5
<1> HIDE DEF m
<1>9. \A i \in DOMAIN o2 : IsEntry(o2[i])
      BY <1>4, <1>6 DEF OrderOK
<1>10. \A i, j \in DOMAIN o2 : i < j => o2[i].ticket < o2[j].ticket
      BY <1>3, <1>6, <1>7, <1>8, NextIsAbove DEF OrderOK
<1>11. ASSUME NEW i \in DOMAIN o2, NEW j \in DOMAIN o2, i < j, Started(o2[j])
       PROVE  ~PathsOverlap(o2[i].paths, o2[j].paths)
      <2>1. CASE j = m
            <3>1. i \in DOMAIN o /\ o2[i] = o[i]
                  BY <1>6, <1>8, <1>11, <2>1
            <3>2. ~Waits(o, paths)
                  BY <1>1, <1>3, <1>6, <1>11, <2>1 DEF Started, Unstarted
            <3>3. QED
                  BY <1>3, <1>6, <2>1, <3>1, <3>2 DEF Waits
      <2>2. CASE j # m
            BY <1>6, <1>7, <1>11, <2>2 DEF OrderOK
      <2>3. QED
            BY <2>1, <2>2
<1>12. ASSUME NEW j \in DOMAIN o2, o2[j].phase = "waiting"
       PROVE  \E i \in DOMAIN o2 : i < j /\ PathsOverlap(o2[i].paths, o2[j].paths)
      <2>1. CASE j = m
            <3>1. Waits(o, paths)
                  BY <1>1, <1>3, <1>6, <1>12, <2>1
            <3>2. QED
                  BY <1>3, <1>6, <1>7, <2>1, <3>1 DEF Waits
      <2>2. CASE j # m
            BY <1>6, <1>12, <2>2 DEF OrderOK
      <2>3. QED
            BY <2>1, <2>2
<1>13. OrderOK(o2)
      BY <1>6, <1>9, <1>10, <1>11, <1>12 DEF OrderOK
<1>14. QED
      BY <1>1, <1>3, <1>6, <1>8, <1>13

LEMMA EnterWorks ==
  ASSUME NEW a, NEW o, NEW cs, NEW p, NEW w, NEW X, Works(a, o, cs, p, w, X),
         NEW paths, NEW op, IsOp(op), NEW o2, o2 = Entering(o, paths, op)
  PROVE  /\ Works(a, o2, cs, p, w, X \cup {NextTicket(o)})
         /\ Last(o2).phase # "starting" => Works(a, o2, cs, p, w, X)
         /\ Free(NextTicket(o), a, cs)
<1>0. OrderOK(o) /\ IsSeq(a) /\ IsSeq(cs) /\ Held(a, o, cs, X) /\ Turns(a, o, cs) /\ Recorded(a, o, p, w)
      BY DEF Works
<1>1. PICK m \in Nat :
        /\ OrderOK(o2) /\ DOMAIN o2 = DOMAIN o \cup {m} /\ m \notin DOMAIN o
        /\ \A k \in DOMAIN o : o2[k] = o[k]
        /\ o2[m].ticket = NextTicket(o) /\ o2[m].op = op
        /\ o2[m].phase \in {"waiting", "starting", "sent"}
        /\ o2[m].phase = "starting" => op.kind = "upload"
        /\ Last(o2) = o2[m]
      BY <1>0, EnterOrder
<1>2. \A k \in DOMAIN o : o[k].ticket # NextTicket(o)
      BY <1>0, NextIsAbove DEF OrderOK, IsEntry
<1>3. Held(a, o2, cs, X \cup {NextTicket(o)}) /\ (Last(o2).phase # "starting" => Held(a, o2, cs, X))
      BY <1>0, <1>1 DEF Held
<1>4. \A t, do : HasTurn(o, t, do) => HasTurn(o2, t, do)
      BY <1>1 DEF HasTurn
<1>5. Turns(a, o2, cs)
      BY <1>0, <1>1, <1>4 DEF Turns
<1>6. Recorded(a, o2, p, w)
      BY <1>0, <1>1 DEF Recorded
<1>7. Free(NextTicket(o), a, cs)
      <2>1. \A i \in DOMAIN a : Names(a[i]) => a[i].ticket # NextTicket(o)
            BY <1>0, <1>2 DEF Turns, HasTurn
      <2>2. \A i \in DOMAIN cs : cs[i] # NextTicket(o)
            BY <1>0, <1>2 DEF Turns
      <2>3. QED
            BY <2>1, <2>2 DEF Free
<1>8. QED
      BY <1>0, <1>1, <1>3, <1>5, <1>6, <1>7 DEF Works

\* An operation leaves.  Each place of what is left was a place in the order before.
LEMMA OverlapSymmetric ==
  \A S, T : PathsOverlap(S, T) <=> PathsOverlap(T, S)
BY DEF PathsOverlap, Overlap

Sources(o, n, left, src) ==
  /\ DOMAIN src = DOMAIN left
  /\ \A j \in DOMAIN left : src[j] \in DOMAIN o /\ src[j] # n /\ left[j] = o[src[j]]
  /\ \A i \in DOMAIN o : i # n => \E j \in DOMAIN left : src[j] = i
  /\ \A i, j \in DOMAIN left : i < j <=> src[i] < src[j]

LEMMA RestSources ==
  ASSUME NEW o, IsSeq(o), NEW n \in DOMAIN o
  PROVE  IsSeq(RemoveAt(o, n)) /\ \E src : Sources(o, n, RemoveAt(o, n), src)
<1> DEFINE left == RemoveAt(o, n)
           src == [j \in DOMAIN left |-> IF j < n THEN j ELSE j + 1]
<1>1. /\ IsSeq(left)
      /\ \A i \in DOMAIN left : IF i < n THEN i \in DOMAIN o /\ left[i] = o[i]
                                ELSE i + 1 \in DOMAIN o /\ left[i] = o[i + 1]
      /\ \A i \in DOMAIN o : /\ i < n => i \in DOMAIN left /\ left[i] = o[i]
                             /\ i > n => i - 1 \in DOMAIN left /\ left[i - 1] = o[i]
      BY RemoveAtSeq
<1> HIDE DEF left
<1>2. DOMAIN left \subseteq Nat /\ DOMAIN o \subseteq Nat /\ n \in Nat
      BY <1>1, SeqDomain
<1>3. \A j \in DOMAIN left : src[j] \in DOMAIN o /\ src[j] # n /\ left[j] = o[src[j]]
      BY <1>1, <1>2
<1>4. ASSUME NEW i \in DOMAIN o, i # n PROVE \E j \in DOMAIN left : src[j] = i
      <2>1. CASE i < n
            BY <2>1, <1>1
      <2>2. CASE i > n
            <3>1. i - 1 \in DOMAIN left /\ ~(i - 1 < n)
                  BY <2>2, <1>1, <1>2
            <3>2. src[i - 1] = i
                  BY <3>1, <1>2
            <3>3. QED
                  BY <3>1, <3>2
      <2>3. QED
            BY <2>1, <2>2, <1>2, <1>4
<1>5. \A i, j \in DOMAIN left : i < j <=> src[i] < src[j]
      BY <1>2
<1>6. DOMAIN src = DOMAIN left
      OBVIOUS
<1> HIDE DEF src
<1>7. Sources(o, n, left, src)
      BY <1>3, <1>4, <1>5, <1>6 DEF Sources
<1>8. QED
      BY <1>1, <1>7 DEF left

\* What the places of the order are once the one at n left and those in S got their turn.
Left(o, n, o2, S, src) ==
  /\ DOMAIN src = DOMAIN o2
  /\ \A j \in DOMAIN o2 : /\ src[j] \in DOMAIN o /\ src[j] # n
                          /\ o2[j].ticket = o[src[j]].ticket
                          /\ o2[j].op = o[src[j]].op
                          /\ IF j \in S THEN /\ o[src[j]].phase \in Unstarted
                                            /\ o2[j].phase = Turn(o[src[j]].phase, o[src[j]].op)
                             ELSE o2[j].phase = o[src[j]].phase
  /\ \A i \in DOMAIN o : i # n => \E j \in DOMAIN o2 : src[j] = i
  /\ \A i, j \in DOMAIN o2 : i < j <=> src[i] < src[j]

LEMMA LeaveOrderOK ==
  ASSUME NEW o, OrderOK(o), NEW n \in DOMAIN o, NEW t, o[n].ticket = t, NEW o2, o2 = LeaveOrder(o, t)
  PROVE  /\ OrderOK(o2)
         /\ StartsAfter(o, t) \subseteq DOMAIN o2
         /\ \E src : Left(o, n, o2, StartsAfter(o, t), src)
<1> DEFINE r == RestOf(o, t)
           S == StartsAfter(o, t)
<1>1. IsSeq(o) /\ \A i \in DOMAIN o : IsEntry(o[i])
      BY DEF OrderOK
<1>2. PlaceOf(o, t) = n
      BY PlaceFound
<1>3. IsSeq(r) /\ \E src : Sources(o, n, r, src)
      BY <1>1, <1>2, RestSources DEF RestOf
<1>4. PICK src : Sources(o, n, r, src)
      BY <1>3
<1>5. S = {i \in DOMAIN r : MayStart(r, i, o[n].paths)}
      BY <1>2 DEF StartsAfter
<1>6. o2 = [i \in DOMAIN r |-> IF i \in S THEN [r[i] EXCEPT !.phase = Turn(@, r[i].op)] ELSE r[i]]
      BY DEF LeaveOrder
<1> HIDE DEF r, S
<1>7. /\ DOMAIN src = DOMAIN r
      /\ \A j \in DOMAIN r : src[j] \in DOMAIN o /\ src[j] # n /\ r[j] = o[src[j]]
      /\ \A i \in DOMAIN o : i # n => \E j \in DOMAIN r : src[j] = i
      /\ \A i, j \in DOMAIN r : i < j <=> src[i] < src[j]
      BY <1>4 DEF Sources
<1>8. DOMAIN o2 = DOMAIN r /\ IsSeq(o2)
      <2>1. DOMAIN o2 = DOMAIN r /\ o2 = [i \in DOMAIN r |-> o2[i]]
            BY <1>6
      <2>2. QED
            BY <2>1, <1>3, MapSeq
<1>9. ASSUME NEW j \in DOMAIN r
      PROVE  /\ IsEntry(o2[j]) /\ o2[j].ticket = r[j].ticket /\ o2[j].paths = r[j].paths /\ o2[j].op = r[j].op
             /\ IF j \in S THEN o2[j].phase = Turn(r[j].phase, r[j].op) ELSE o2[j].phase = r[j].phase
      <2>1. IsEntry(r[j])
            BY <1>1, <1>7
      <2>2. CASE j \in S
            <3>1. o2[j] = [r[j] EXCEPT !.phase = Turn(r[j].phase, r[j].op)]
                  BY <1>6, <2>2
            <3>2. Turn(r[j].phase, r[j].op) \in Phases
                  BY DEF Turn, Phases
            <3>3. r[j] = [ticket |-> r[j].ticket, paths |-> r[j].paths, op |-> r[j].op, phase |-> r[j].phase]
                  BY <2>1 DEF IsEntry
            <3>4. o2[j] = [ticket |-> r[j].ticket, paths |-> r[j].paths, op |-> r[j].op,
                           phase |-> Turn(r[j].phase, r[j].op)]
                  BY <3>1, <3>3
            <3>5. /\ o2[j].ticket = r[j].ticket /\ o2[j].paths = r[j].paths /\ o2[j].op = r[j].op
                  /\ o2[j].phase = Turn(r[j].phase, r[j].op)
                  BY <3>4
            <3>6. IsEntry(o2[j])
                  BY <2>1, <3>2, <3>4, <3>5 DEF IsEntry
            <3>7. QED
                  BY <2>2, <3>5, <3>6
      <2>3. CASE j \notin S
            BY <1>6, <2>1, <2>3
      <2>4. QED
            BY <2>2, <2>3
<1>10. \A ph, op : Turn(ph, op) # "waiting"
       BY DEF Turn
<1>11. \A i, j \in DOMAIN o2 : i < j => o2[i].ticket < o2[j].ticket
       BY <1>7, <1>8, <1>9 DEF OrderOK
<1>12. ASSUME NEW i \in DOMAIN o2, NEW j \in DOMAIN o2, i < j, Started(o2[j])
       PROVE  ~PathsOverlap(o2[i].paths, o2[j].paths)
       <2>1. CASE j \in S
             <3>1. MayStart(r, j, o[n].paths)
                   BY <1>5, <2>1
             <3>2. i \in 1..(j - 1)
                   BY <1>3, <1>8, <1>12, SeqDomain
             <3>3. ~PathsOverlap(r[i].paths, r[j].paths)
                   BY <3>1, <3>2 DEF MayStart
             <3>4. QED
                   BY <1>8, <1>9, <3>3
       <2>2. CASE j \notin S
             <3>1. Started(o[src[j]]) /\ src[i] < src[j]
                   BY <1>7, <1>8, <1>9, <1>12, <2>2 DEF Started
             <3>2. ~PathsOverlap(o[src[i]].paths, o[src[j]].paths)
                   BY <1>7, <1>8, <3>1 DEF OrderOK
             <3>3. QED
                   BY <1>7, <1>8, <1>9, <3>2
       <2>3. QED
             BY <2>1, <2>2
<1>13. ASSUME NEW j \in DOMAIN o2, o2[j].phase = "waiting"
       PROVE  \E i \in DOMAIN o2 : i < j /\ PathsOverlap(o2[i].paths, o2[j].paths)
       <2>1. j \notin S /\ r[j].phase = "waiting"
             BY <1>8, <1>9, <1>10, <1>13
       <2>2. PICK k \in DOMAIN o : k < src[j] /\ PathsOverlap(o[k].paths, o[src[j]].paths)
             BY <1>7, <1>8, <2>1 DEF OrderOK
       <2>3. \E i \in DOMAIN r : i < j /\ PathsOverlap(r[i].paths, r[j].paths)
             <3>1. CASE k # n
                   BY <1>7, <1>8, <2>2, <3>1
             <3>2. CASE k = n
                   <4>1. ~MayStart(r, j, o[n].paths)
                         BY <1>5, <1>8, <2>1
                   <4>2. PathsOverlap(r[j].paths, o[n].paths)
                         BY <1>7, <1>8, <2>2, <3>2, OverlapSymmetric
                   <4>3. PICK i \in 1..(j - 1) : PathsOverlap(r[i].paths, r[j].paths)
                         BY <2>1, <4>1, <4>2 DEF MayStart, Unstarted
                   <4>4. i \in DOMAIN r /\ i < j
                         BY <1>3, <1>8, SeqDomain
                   <4>5. QED
                         BY <4>3, <4>4
             <3>3. QED
                   BY <3>1, <3>2
       <2>4. QED
             BY <1>8, <1>9, <2>3
<1>14. OrderOK(o2)
       BY <1>8, <1>9, <1>11, <1>12, <1>13 DEF OrderOK
<1>15. S \subseteq DOMAIN o2
       BY <1>5, <1>8
<1>16. \A j \in S : o[src[j]].phase \in Unstarted
       BY <1>5, <1>7 DEF MayStart
<1>17. \A j \in DOMAIN o2 : IF j \in S THEN /\ o[src[j]].phase \in Unstarted
                                            /\ o2[j].phase = Turn(o[src[j]].phase, o[src[j]].op)
                            ELSE o2[j].phase = o[src[j]].phase
       BY <1>7, <1>8, <1>9, <1>16
<1>18. Left(o, n, o2, S, src)
       BY <1>7, <1>8, <1>9, <1>17 DEF Left
<1>19. QED
       BY <1>14, <1>15, <1>18 DEF S

\* What is in its turn and in no other hand is checked, one call for each.
LEMMA PushChecks ==
  ASSUME NEW a, NEW o, NEW cs, NEW p, NEW w, NEW X, Works(a, o, cs, p, w, X),
         NEW c, IsSeq(c), \A i \in DOMAIN c : c[i].do = "checkServer" /\ c[i].ticket \in X,
         \A i, j \in DOMAIN c : i # j => c[i].ticket # c[j].ticket,
         \A t \in X : /\ Free(t, a, cs) /\ HasTurn(o, t, "checkServer")
                      /\ \E i \in DOMAIN c : c[i].ticket = t
  PROVE  Works(c \o a, o, cs, p, w, {})
<1> DEFINE b == c \o a
<1>0. OrderOK(o) /\ IsSeq(a) /\ IsSeq(cs) /\ Held(a, o, cs, X) /\ Turns(a, o, cs) /\ Recorded(a, o, p, w)
      BY DEF Works
<1>1. /\ IsSeq(b)
      /\ \A i \in DOMAIN b : \/ i \in DOMAIN c /\ b[i] = c[i]
                             \/ i - Len(c) \in DOMAIN a /\ b[i] = a[i - Len(c)] /\ i \notin DOMAIN c
      /\ \A i \in DOMAIN c : i \in DOMAIN b /\ b[i] = c[i]
      /\ \A i \in DOMAIN a : i + Len(c) \in DOMAIN b /\ b[i + Len(c)] = a[i] /\ i + Len(c) \notin DOMAIN c
      BY <1>0, ConcatSeq
<1>2. DOMAIN a \subseteq Nat /\ DOMAIN b \subseteq Nat /\ Len(c) \in Nat
      BY <1>0, <1>1, SeqDomain
<1> HIDE DEF b
<1>3. \A i, j \in DOMAIN b : i # j => i - Len(c) # j - Len(c)
      BY <1>2
<1>4. \A i \in DOMAIN c : Names(c[i])
      BY DEF Names, Holders
<1>5. Held(b, o, cs, {})
      <2>1. \A i \in DOMAIN a : \E j \in DOMAIN b : b[j] = a[i]
            BY <1>1
      <2>2. ASSUME NEW k \in DOMAIN o, o[k].ticket \in X
            PROVE  /\ \E i \in DOMAIN b : b[i].do = "checkServer" /\ Names(b[i]) /\ b[i].ticket = o[k].ticket
                   /\ o[k].phase \notin {"dropped", "ending"}
            <3>1. PICK i \in DOMAIN c : c[i].ticket = o[k].ticket
                  BY <2>2
            <3>2. QED
                  BY <3>1, <1>0, <1>1, <1>4 DEF Turns
      <2>3. QED
            BY <2>1, <2>2, <1>0 DEF Held
<1>6. Turns(b, o, cs)
      <2>1. \A i \in DOMAIN b : Names(b[i]) => HasTurn(o, b[i].ticket, b[i].do)
            BY <1>0, <1>1 DEF Turns
      <2>2. ASSUME NEW i \in DOMAIN b, NEW j \in DOMAIN b, i # j, Names(b[i]), Names(b[j])
            PROVE  b[i].ticket # b[j].ticket
            <3>1. \A x \in DOMAIN c, y \in DOMAIN a : Names(a[y]) => c[x].ticket # a[y].ticket
                  BY DEF Free
            <3>2. CASE i \in DOMAIN c /\ j \in DOMAIN c
                  BY <1>1, <2>2, <3>2
            <3>3. CASE i \in DOMAIN c /\ j \notin DOMAIN c
                  BY <1>1, <2>2, <3>1, <3>3
            <3>4. CASE i \notin DOMAIN c /\ j \in DOMAIN c
                  BY <1>1, <2>2, <3>1, <3>4
            <3>5. CASE i \notin DOMAIN c /\ j \notin DOMAIN c
                  BY <1>0, <1>1, <1>3, <2>2, <3>5 DEF Turns
            <3>6. QED
                  BY <3>2, <3>3, <3>4, <3>5
      <2>3. \A i \in DOMAIN b, j \in DOMAIN cs : Names(b[i]) => b[i].ticket # cs[j]
            BY <1>0, <1>1 DEF Turns, Free
      <2>4. QED
            BY <1>0, <2>1, <2>2, <2>3 DEF Turns
<1>7. Recorded(b, o, p, w)
      <2>1. \A i \in DOMAIN b : b[i].do = "leave" => \E j \in DOMAIN a : b[i] = a[j]
            BY <1>1
      <2>2. QED
            BY <2>1, <1>0 DEF Recorded
<1>8. QED
      BY <1>0, <1>1, <1>5, <1>6, <1>7 DEF Works, b

TicketsAt(o, places) == {o[i].ticket : i \in places}

LEMMA LeaveWorks ==
  ASSUME NEW a, NEW o, NEW cs, NEW p, NEW w, Works(a, o, cs, p, w, {}), a # <<>>, a[1].do = "leave",
         NEW o2, o2 = LeaveOrder(o, a[1].ticket),
         NEW X, X = TicketsAt(o2, Called(o, a[1].ticket))
  PROVE  /\ HasTicket(o, a[1].ticket)
         /\ Works(Tail(a), o2, cs, p, w, X)
         /\ \A t \in X : Free(t, Tail(a), cs) /\ HasTurn(o2, t, "checkServer")
         /\ \A i \in Called(o, a[1].ticket) : o2[i].phase = "starting"
<1> DEFINE b == Tail(a)
           t == a[1].ticket
           S == StartsAfter(o, t)
           C == Called(o, t)
<1>0. /\ OrderOK(o) /\ IsSeq(a) /\ IsSeq(cs) /\ Held(a, o, cs, {}) /\ Turns(a, o, cs) /\ Recorded(a, o, p, w)
      /\ Names(a[1])
      BY DEF Works, Names
<1>1. Works(b, o, cs, p, w, {t}) /\ Free(t, b, cs) /\ 1 \in DOMAIN a
      <2>1. {} \cup {t} = {t}
            OBVIOUS
      <2>2. QED
            BY <1>0, <2>1, PopWorks
<1>2. PICK n \in DOMAIN o : o[n].ticket = t
      BY <1>0, <1>1 DEF Turns, HasTurn
<1>3. HasTicket(o, t)
      BY <1>2 DEF HasTicket
<1>4. IsSeq(b) /\ Held(b, o, cs, {t}) /\ Turns(b, o, cs)
      BY <1>1 DEF Works
<1>5. \A i \in DOMAIN b : b[i] \in {a[k] : k \in DOMAIN a}
      BY <1>0, TailSeq
<1>6. C = {i \in S : o2[i].phase # "sent"}
      BY DEF Called
<1> HIDE DEF b, t, S, C
<1>7. OrderOK(o2) /\ S \subseteq DOMAIN o2
      BY <1>0, <1>2, LeaveOrderOK DEF S, t
<1>8. PICK src : Left(o, n, o2, S, src)
      BY <1>0, <1>2, LeaveOrderOK DEF S, t
<1>9. /\ \A j \in DOMAIN o2 :
           /\ src[j] \in DOMAIN o /\ src[j] # n
           /\ o2[j].ticket = o[src[j]].ticket /\ o2[j].op = o[src[j]].op
           /\ IF j \in S THEN /\ o[src[j]].phase \in Unstarted
                             /\ o2[j].phase = Turn(o[src[j]].phase, o[src[j]].op)
              ELSE o2[j].phase = o[src[j]].phase
      /\ \A i \in DOMAIN o : i # n => \E j \in DOMAIN o2 : src[j] = i
      BY <1>8 DEF Left
<1>10. \A k \in DOMAIN o : o[k].phase \notin {"dropped", "ending"}
       BY <1>4 DEF Turns
<1>11. ASSUME NEW j \in DOMAIN o2
       PROVE  \/ j \notin S /\ o2[j].phase = o[src[j]].phase
              \/ j \in C /\ o[src[j]].phase = "waiting" /\ o2[j].phase = "starting" /\ o2[j].op.kind = "upload"
              \/ j \in S /\ o[src[j]].phase = "waiting" /\ o2[j].phase = "sent"
       BY <1>6, <1>9, <1>10 DEF Turn, Unstarted
<1>12. \A i, j \in DOMAIN o2 : o2[i].ticket = o2[j].ticket => i = j
       BY <1>7, PlaceFound
<1>13. \A i, j \in DOMAIN o : o[i].ticket = o[j].ticket => i = j
       BY <1>0, PlaceFound
<1>14. X = {o2[i].ticket : i \in C}
       BY DEF C, t, TicketsAt
<1>15. Held(b, o2, cs, X)
       <2>1. \A j \in DOMAIN o2 : o2[j].ticket \notin X => o2[j].phase = o[src[j]].phase \/ o2[j].phase = "sent"
             BY <1>11, <1>14
       <2>2. \A j \in DOMAIN o2 : o2[j].ticket = o[src[j]].ticket /\ o2[j].ticket # t
             BY <1>2, <1>9, <1>13
       <2>3. \A j \in DOMAIN o2 : src[j] \in DOMAIN o
             BY <1>9
       <2>4. QED
             BY <1>4, <2>1, <2>2, <2>3 DEF Held
<1>16. \A x, do : HasTurn(o, x, do) /\ x # t => HasTurn(o2, x, do)
       <2>1. SUFFICES ASSUME NEW x, NEW do, HasTurn(o, x, do), x # t PROVE HasTurn(o2, x, do)
             OBVIOUS
       <2>2. PICK k \in DOMAIN o : /\ o[k].ticket = x /\ o[k].phase \in {"starting", "here"}
                                   /\ do \in Holders => o[k].op.kind = "upload"
             BY <2>1 DEF HasTurn
       <2>3. PICK j \in DOMAIN o2 : src[j] = k
             BY <1>2, <1>9, <2>1, <2>2
       <2>4. QED
             BY <1>9, <1>11, <2>2, <2>3 DEF HasTurn
<1>17. Turns(b, o2, cs)
       <2>1. \A i \in DOMAIN b : Names(b[i]) => HasTurn(o2, b[i].ticket, b[i].do)
             BY <1>1, <1>4, <1>16 DEF Turns, Free
       <2>2. ASSUME NEW i \in DOMAIN cs
             PROVE  \E k \in DOMAIN o2 : o2[k].ticket = cs[i] /\ o2[k].phase = "here" /\ o2[k].op.kind = "upload"
             <3>1. PICK k \in DOMAIN o : o[k].ticket = cs[i] /\ o[k].phase = "here" /\ o[k].op.kind = "upload"
                   BY <1>4 DEF Turns
             <3>2. cs[i] # t
                   BY <1>1 DEF Free
             <3>3. PICK j \in DOMAIN o2 : src[j] = k
                   BY <1>2, <1>9, <3>1, <3>2
             <3>4. QED
                   BY <1>9, <1>11, <3>1, <3>3
       <2>3. \A j \in DOMAIN o2 : o2[j].phase \notin {"dropped", "ending"}
             BY <1>9, <1>10, <1>11
       <2>4. QED
             BY <1>4, <2>1, <2>2, <2>3 DEF Turns
<1>18. Recorded(b, o2, p, w)
       <2>1. SUFFICES ASSUME NEW s \in DOMAIN p
                      PROVE  \E k \in DOMAIN o2 :
                               /\ IsUploadOf(o2[k], w, s)
                               /\ \A i \in DOMAIN b : b[i].do = "leave" => b[i].ticket # o2[k].ticket
             BY DEF Recorded
       <2>2. PICK k \in DOMAIN o : /\ IsUploadOf(o[k], w, s)
                                   /\ \A i \in DOMAIN a : a[i].do = "leave" => a[i].ticket # o[k].ticket
             BY <1>0 DEF Recorded
       <2>3. k # n
             BY <1>1, <1>2, <2>2 DEF t
       <2>4. PICK j \in DOMAIN o2 : src[j] = k
             BY <1>9, <2>3
       <2>5. IsUploadOf(o2[j], w, s) /\ o2[j].ticket = o[k].ticket
             BY <1>9, <2>2, <2>4 DEF IsUploadOf
       <2>6. QED
             BY <1>5, <2>2, <2>5
<1>19. Works(b, o2, cs, p, w, X)
       BY <1>0, <1>4, <1>7, <1>15, <1>17, <1>18 DEF Works
<1>20. ASSUME NEW j \in C
       PROVE  /\ o2[j].phase = "starting" /\ HasTurn(o2, o2[j].ticket, "checkServer")
              /\ Free(o2[j].ticket, b, cs)
       <2>1. j \in DOMAIN o2 /\ j \in S /\ o2[j].phase # "sent"
             BY <1>6, <1>7
       <2>2. o[src[j]].phase = "waiting" /\ o2[j].phase = "starting" /\ o2[j].op.kind = "upload"
             BY <2>1, <1>11
       <2>3. HasTurn(o2, o2[j].ticket, "checkServer")
             BY <2>1, <2>2 DEF HasTurn
       <2>4. \A do : ~HasTurn(o, o2[j].ticket, do)
             BY <1>9, <1>13, <2>1, <2>2 DEF HasTurn
       <2>5. \A i \in DOMAIN cs : cs[i] # o2[j].ticket
             BY <1>4, <1>9, <1>13, <2>1, <2>2 DEF Turns
       <2>6. Free(o2[j].ticket, b, cs)
             BY <1>4, <2>4, <2>5 DEF Turns, Free
       <2>7. QED
             BY <2>2, <2>3, <2>6
<1>21. QED
       BY <1>3, <1>14, <1>19, <1>20 DEF b, t, C

LEMMA LeaveEbbs ==
  ASSUME NEW a, NEW o, NEW cs, NEW p, Ebbs(a, o, cs, p), a # <<>>
  PROVE  /\ ~HasTicket(o, a[1].ticket) => Ebbs(Tail(a), o, cs, p)
         /\ HasTicket(o, a[1].ticket) =>
              /\ OrderOK(LeaveOrder(o, a[1].ticket))
              /\ \A i \in Called(o, a[1].ticket) : LeaveOrder(o, a[1].ticket)[i].phase = "ending"
              /\ \A c : IsSeq(c) /\ (\A i \in DOMAIN c : c[i].do = "leave")
                          => Ebbs(c \o Tail(a), LeaveOrder(o, a[1].ticket), cs, p)
<1> DEFINE b == Tail(a)
           t == a[1].ticket
           o2 == LeaveOrder(o, t)
           S == StartsAfter(o, t)
           C == Called(o, t)
<1>0. OrderOK(o) /\ IsSeq(a) /\ Held(a, o, cs, {}) /\ Drains(a, o, cs, p)
      BY DEF Ebbs
<1>1. /\ IsSeq(b)
      /\ \A i \in DOMAIN b : \E k \in DOMAIN a : b[i] = a[k]
      /\ \A i \in DOMAIN a : a[i].ticket # t => \E k \in DOMAIN b : b[k] = a[i]
      BY <1>0, TailSeq
<1>2. C = {i \in S : o2[i].phase # "sent"}
      BY DEF Called
<1>3. S = StartsAfter(o, t) /\ o2 = LeaveOrder(o, t)
      OBVIOUS
<1> HIDE DEF b, t, o2, S, C
<1>4. ASSUME ~HasTicket(o, t) PROVE Ebbs(b, o, cs, p)
      <2>1. \A k \in DOMAIN o : o[k].ticket # t
            BY <1>4 DEF HasTicket
      <2>2. Held(b, o, cs, {})
            BY <2>1, <1>0, <1>1 DEF Held
      <2>3. Drains(b, o, cs, p)
            BY <1>0, <1>1 DEF Drains
      <2>4. QED
            BY <1>0, <1>1, <2>2, <2>3 DEF Ebbs
<1>5. ASSUME HasTicket(o, t)
      PROVE  /\ OrderOK(o2)
             /\ \A i \in C : o2[i].phase = "ending"
             /\ \A c : IsSeq(c) /\ (\A i \in DOMAIN c : c[i].do = "leave") => Ebbs(c \o b, o2, cs, p)
      <2>1. PICK n \in DOMAIN o : o[n].ticket = t
            BY <1>5 DEF HasTicket
      <2>2. OrderOK(o2) /\ S \subseteq DOMAIN o2 /\ \E src : Left(o, n, o2, S, src)
            BY <1>0, <1>3, <2>1, LeaveOrderOK
      <2>3. PICK src : Left(o, n, o2, S, src)
            BY <2>2
      <2>4. \A j \in DOMAIN o2 :
              /\ src[j] \in DOMAIN o /\ src[j] # n /\ o2[j].ticket = o[src[j]].ticket
              /\ IF j \in S THEN /\ o[src[j]].phase \in Unstarted
                                /\ o2[j].phase = Turn(o[src[j]].phase, o[src[j]].op)
                 ELSE o2[j].phase = o[src[j]].phase
            BY <2>3 DEF Left
      <2>5. /\ \A k \in DOMAIN o : o[k].phase \notin {"waiting", "starting"}
            /\ \A i \in DOMAIN a : a[i].do = "leave"
            /\ cs = <<>> /\ p = <<>>
            BY <1>0 DEF Drains
      <2>6. ASSUME NEW j \in DOMAIN o2
            PROVE  \/ j \notin S /\ o2[j].phase = o[src[j]].phase
                   \/ j \in S /\ o[src[j]].phase = "dropped" /\ o2[j].phase = "ending"
            BY <2>4, <2>5 DEF Turn, Unstarted
      <2>7. \A i \in C : o2[i].phase = "ending"
            BY <1>2, <2>2, <2>6
      <2>8. \A i, j \in DOMAIN o : o[i].ticket = o[j].ticket => i = j
            BY <1>0, PlaceFound
      <2>9. \A j \in DOMAIN o2 : o2[j].ticket # t
            BY <2>1, <2>4, <2>8
      <2>10. ASSUME NEW c, IsSeq(c), \A i \in DOMAIN c : c[i].do = "leave" PROVE Ebbs(c \o b, o2, cs, p)
             <3> DEFINE d == c \o b
             <3>1. /\ IsSeq(d)
                   /\ \A i \in DOMAIN d : (\E k \in DOMAIN c : d[i] = c[k]) \/ \E k \in DOMAIN b : d[i] = b[k]
                   /\ \A i \in DOMAIN b : \E k \in DOMAIN d : d[k] = b[i]
                   <4>1. /\ IsSeq(d)
                         /\ \A i \in DOMAIN d : \/ i \in DOMAIN c /\ d[i] = c[i]
                                                \/ i - Len(c) \in DOMAIN b /\ d[i] = b[i - Len(c)] /\ i \notin DOMAIN c
                         /\ \A i \in DOMAIN b : /\ i + Len(c) \in DOMAIN d /\ d[i + Len(c)] = b[i]
                                                /\ i + Len(c) \notin DOMAIN c
                         BY <1>1, <2>10, ConcatSeq
                   <4> HIDE DEF d
                   <4>2. QED
                         BY <4>1
             <3> HIDE DEF d
             <3>2. \A i \in DOMAIN a : a[i].ticket # t => \E k \in DOMAIN d : d[k] = a[i]
                   BY <1>1, <3>1
             <3>3. ASSUME NEW j \in DOMAIN o2
                   PROVE  /\ o2[j].phase # "starting"
                          /\ o2[j].phase = "here" => \E i \in DOMAIN d : Names(d[i]) /\ d[i].ticket = o2[j].ticket
                          /\ o2[j].phase \in {"dropped", "ending"} =>
                               \E i \in DOMAIN d : d[i].do = "leave" /\ d[i].ticket = o2[j].ticket
                   <4>1. o2[j].phase # "starting"
                         BY <2>4, <2>5, <2>6
                   <4>2. o[src[j]] = o[src[j]] /\ src[j] \in DOMAIN o /\ o2[j].ticket = o[src[j]].ticket /\ o2[j].ticket # t
                         BY <2>4, <2>9
                   <4>3. ASSUME o2[j].phase = "here"
                         PROVE  \E i \in DOMAIN d : Names(d[i]) /\ d[i].ticket = o2[j].ticket
                         <5>1. o[src[j]].phase = "here"
                               BY <2>6, <4>3
                         <5>2. DOMAIN cs = {}
                               BY <2>5, NoSeq
                         <5>3. \E i \in DOMAIN a : Names(a[i]) /\ a[i].ticket = o2[j].ticket
                               BY <1>0, <4>2, <5>1, <5>2 DEF Held
                         <5>4. QED
                               BY <3>2, <4>2, <5>3
                   <4>4. ASSUME o2[j].phase \in {"dropped", "ending"}
                         PROVE  \E i \in DOMAIN d : d[i].do = "leave" /\ d[i].ticket = o2[j].ticket
                         <5>1. o[src[j]].phase \in {"dropped", "ending"}
                               BY <2>6, <4>4
                         <5>2. \E i \in DOMAIN a : a[i].do = "leave" /\ a[i].ticket = o2[j].ticket
                               BY <1>0, <4>2, <5>1 DEF Held
                         <5>3. QED
                               BY <3>2, <4>2, <5>2
                   <4>5. QED
                         BY <4>1, <4>3, <4>4
             <3>4. Held(d, o2, cs, {})
                   BY <3>3 DEF Held
             <3>5. Drains(d, o2, cs, p)
                   <4>1. \A i \in DOMAIN d : d[i].do = "leave"
                         BY <1>1, <2>5, <2>10, <3>1
                   <4>2. \A j \in DOMAIN o2 : o2[j].phase \notin {"waiting", "starting"}
                         BY <2>4, <2>5, <2>6
                   <4>3. QED
                         BY <2>5, <4>1, <4>2 DEF Drains
             <3>6. QED
                   BY <2>2, <3>1, <3>4, <3>5 DEF Ebbs, d
      <2>11. QED
             BY <2>2, <2>7, <2>10
<1>6. QED
      BY <1>4, <1>5 DEF b, t, o2, C

\* Idle, the tracker works on: nothing is left to be dropped.
LEMMA IdleWorks ==
  ASSUME NEW o, NEW cs, NEW p, NEW w, Ebbs(<<>>, o, cs, p)
  PROVE  Works(<<>>, o, cs, p, w, {})
<1>1. DOMAIN <<>> = {} /\ IsSeq(<<>>)
      BY NoSeq
<1>2. OrderOK(o) /\ Held(<<>>, o, cs, {}) /\ Drains(<<>>, o, cs, p)
      BY DEF Ebbs
<1>3. IsSeq(cs) /\ DOMAIN cs = {} /\ DOMAIN p = {}
      BY <1>1, <1>2 DEF Drains
<1>4. \A k \in DOMAIN o : o[k].phase \notin {"dropped", "ending"}
      BY <1>1, <1>2 DEF Held
<1>5. Turns(<<>>, o, cs)
      BY <1>1, <1>3, <1>4 DEF Turns
<1>6. Recorded(<<>>, o, p, w)
      BY <1>3 DEF Recorded
<1>7. QED
      BY <1>1, <1>2, <1>3, <1>5, <1>6 DEF Works

LEMMA LeaveStep ==
  ASSUME TurnInv, OnLeave
  PROVE  TurnInv'
<1> DEFINE t == Call.ticket
           after == LeaveOrder(order, t)
           C == Called(order, t)
<1>1. /\ agenda # <<>> /\ Call.do = "leave"
      /\ conflicts' = conflicts /\ pending' = pending /\ entry' = entry
      /\ \/ /\ HasTicket(order, t) /\ order' = after
            /\ \E turns \in Ascending(C) : agenda' = [i \in DOMAIN turns |-> NextCall(after[turns[i]])] \o Tail(agenda)
         \/ ~HasTicket(order, t) /\ order' = order /\ agenda' = <<>> \o Tail(agenda)
      BY DEF OnLeave, Calls, Then, tracker
<1>2. IsSeq(agenda) /\ OrderOK(order) /\ IsSeq(conflicts)
      BY NoSeq DEF TurnInv, Works, Ebbs, Drains
<1>3. Call = agenda[1] /\ t = agenda[1].ticket
      BY <1>1, <1>2, TailSeq DEF Call
<1>4. IsSeq(Tail(agenda)) /\ <<>> \o Tail(agenda) = Tail(agenda)
      BY <1>1, <1>2, TailSeq, NoSeq
<1> HIDE DEF t, after, C
<1>5. ASSUME HasTicket(order, t), order' = after, NEW turns \in Ascending(C),
             agenda' = [i \in DOMAIN turns |-> NextCall(after[turns[i]])] \o Tail(agenda)
      PROVE  TurnInv'
      <2> DEFINE c == [i \in DOMAIN turns |-> NextCall(after[turns[i]])]
      <2>1. OrderOK(after) /\ C \subseteq DOMAIN after
            <3>1. PICK n \in DOMAIN order : order[n].ticket = t
                  BY <1>5 DEF HasTicket
            <3>2. OrderOK(after) /\ StartsAfter(order, t) \subseteq DOMAIN after
                  BY <1>2, <3>1, LeaveOrderOK DEF after
            <3>3. QED
                  BY <3>2 DEF C, Called
      <2>2. IsFiniteSet(C)
            <3>1. Len(after) \in Nat /\ DOMAIN after = 1..Len(after)
                  BY <2>1, SeqDomain DEF OrderOK
            <3>2. IsFiniteSet(DOMAIN after)
                  BY <3>1, FS_Interval
            <3>3. QED
                  BY <2>1, <3>2, FS_Subset
      <2>3. /\ IsSeq(turns) /\ \A i \in DOMAIN turns : turns[i] \in C
            /\ \A x \in C : \E i \in DOMAIN turns : turns[i] = x
            /\ \A i, j \in DOMAIN turns : i < j => turns[i] < turns[j]
            BY <1>5, <2>2, AscendingSeq
      <2>4. DOMAIN c = DOMAIN turns /\ \A i \in DOMAIN turns : c[i] = NextCall(after[turns[i]])
            OBVIOUS
      <2>5. IsSeq(c)
            <3>1. c = [i \in DOMAIN turns |-> c[i]]
                  OBVIOUS
            <3> HIDE DEF c
            <3>2. QED
                  BY <2>3, <2>4, <3>1, MapSeq
      <2>6. agenda' = c \o Tail(agenda)
            BY <1>5
      <2> HIDE DEF c
      <2>7. CASE Works(agenda, order, conflicts, pending, entry.watch, {})
            <3> DEFINE X == TicketsAt(after, C)
            <3>1. /\ Works(Tail(agenda), after, conflicts, pending, entry.watch, X)
                  /\ \A x \in X : Free(x, Tail(agenda), conflicts) /\ HasTurn(after, x, "checkServer")
                  /\ \A i \in C : after[i].phase = "starting"
                  <4>1. agenda[1].do = "leave" /\ after = LeaveOrder(order, agenda[1].ticket) /\ C = Called(order, agenda[1].ticket)
                        BY <1>1, <1>3 DEF after, C
                  <4>2. X = TicketsAt(after, Called(order, agenda[1].ticket))
                        BY <4>1
                  <4> HIDE DEF X
                  <4>3. /\ Works(Tail(agenda), after, conflicts, pending, entry.watch, X)
                        /\ \A x \in X : Free(x, Tail(agenda), conflicts) /\ HasTurn(after, x, "checkServer")
                        /\ \A i \in Called(order, agenda[1].ticket) : after[i].phase = "starting"
                        BY <1>1, <2>7, <4>1, <4>2, LeaveWorks
                  <4>4. QED
                        BY <4>1, <4>3
            <3>2. \A i \in DOMAIN c : c[i].do = "checkServer" /\ c[i].ticket = after[turns[i]].ticket
                  BY <2>3, <2>4, <3>1 DEF NextCall, CheckServer
            <3>3. \A i, j \in DOMAIN c : i # j => turns[i] # turns[j]
                  <4>1. DOMAIN turns \subseteq Nat /\ DOMAIN after \subseteq Nat
                        BY <2>1, <2>3, SeqDomain DEF OrderOK
                  <4>2. \A i \in DOMAIN turns : turns[i] \in Nat
                        BY <2>1, <2>3, <4>1
                  <4>3. QED
                        BY <2>3, <2>4, <4>1, <4>2
            <3>4. \A i, j \in DOMAIN after : after[i].ticket = after[j].ticket => i = j
                  BY <2>1, PlaceFound
            <3>5. \A i, j \in DOMAIN c : i # j => c[i].ticket # c[j].ticket
                  BY <2>1, <2>3, <2>4, <3>2, <3>3, <3>4
            <3>6. \A i \in DOMAIN c : c[i].ticket \in X
                  BY <2>3, <2>4, <3>2 DEF TicketsAt
            <3>7. \A x \in X : \E i \in DOMAIN c : c[i].ticket = x
                  BY <2>3, <2>4, <3>2 DEF TicketsAt
            <3> HIDE DEF X
            <3>8. Works(c \o Tail(agenda), after, conflicts, pending, entry.watch, {})
                  BY <2>5, <3>1, <3>2, <3>5, <3>6, <3>7, PushChecks
            <3>9. QED
                  BY <1>1, <1>5, <2>6, <3>8 DEF TurnInv
      <2>8. CASE Ebbs(agenda, order, conflicts, pending)
            <3>1. /\ \A i \in C : after[i].phase = "ending"
                  /\ \A d : IsSeq(d) /\ (\A i \in DOMAIN d : d[i].do = "leave")
                              => Ebbs(d \o Tail(agenda), after, conflicts, pending)
                  BY <1>1, <1>3, <1>5, <2>8, LeaveEbbs DEF after, C
            <3>2. \A i \in DOMAIN c : c[i].do = "leave"
                  BY <2>3, <2>4, <3>1 DEF NextCall, Leave
            <3>3. Ebbs(c \o Tail(agenda), after, conflicts, pending)
                  BY <2>5, <3>1, <3>2
            <3>4. QED
                  BY <1>1, <1>5, <2>6, <3>3 DEF TurnInv
      <2>9. QED
            BY <2>7, <2>8 DEF TurnInv
<1>6. ASSUME ~HasTicket(order, t), order' = order, agenda' = <<>> \o Tail(agenda)
      PROVE  TurnInv'
      <2>1. ~Works(agenda, order, conflicts, pending, entry.watch, {})
            BY <1>1, <1>3, <1>6, LeaveWorks
      <2>2. Ebbs(agenda, order, conflicts, pending)
            BY <2>1 DEF TurnInv
      <2>3. Ebbs(Tail(agenda), order, conflicts, pending)
            BY <1>1, <1>3, <1>6, <2>2, LeaveEbbs
      <2>4. QED
            BY <1>1, <1>4, <1>6, <2>3 DEF TurnInv
<1>7. QED
      BY <1>1, <1>5, <1>6
--------------------------------------------------------------------------------
(***************************************************************************)
(* The questions and the pending uploads.                                  *)
(***************************************************************************)
LEMMA AskWorks ==
  ASSUME NEW a, NEW o, NEW cs, NEW p, NEW w, NEW t, Works(a, o, cs, p, w, {t}), Free(t, a, cs),
         \E k \in DOMAIN o : o[k].ticket = t /\ o[k].phase = "here" /\ o[k].op.kind = "upload"
  PROVE  Works(a, o, Append(cs, t), p, w, {})
<1> DEFINE d == Append(cs, t)
<1>0. OrderOK(o) /\ IsSeq(a) /\ IsSeq(cs) /\ Held(a, o, cs, {t}) /\ Turns(a, o, cs) /\ Recorded(a, o, p, w)
      BY DEF Works
<1>1. PICK m : /\ IsSeq(d) /\ DOMAIN d = DOMAIN cs \cup {m} /\ m \notin DOMAIN cs
               /\ d[m] = t /\ \A i \in DOMAIN cs : d[i] = cs[i]
      BY <1>0, AppendSeq
<1> HIDE DEF d
<1>2. ASSUME NEW k \in DOMAIN o
      PROVE  /\ o[k].phase = "starting" => \E i \in DOMAIN a : a[i].do = "checkServer" /\ a[i].ticket = o[k].ticket
             /\ o[k].phase = "here" => \/ \E i \in DOMAIN a : Names(a[i]) /\ a[i].ticket = o[k].ticket
                                       \/ \E i \in DOMAIN d : d[i] = o[k].ticket
             /\ o[k].phase \in {"dropped", "ending"} => \E i \in DOMAIN a : a[i].do = "leave" /\ a[i].ticket = o[k].ticket
      <2>1. CASE o[k].ticket = t
            <3>1. o[k].phase = "here"
                  <4>1. \A i, j \in DOMAIN o : o[i].ticket = o[j].ticket => i = j
                        BY <1>0, PlaceFound
                  <4>2. QED
                        BY <2>1, <4>1
            <3>2. QED
                  BY <1>1, <2>1, <3>1
      <2>2. CASE o[k].ticket # t
            BY <1>0, <1>1, <2>2 DEF Held
      <2>3. QED
            BY <2>1, <2>2
<1>3. Held(a, o, d, {})
      BY <1>2 DEF Held
<1>4. Turns(a, o, d)
      BY <1>0, <1>1 DEF Turns, Free
<1>5. QED
      BY <1>0, <1>1, <1>3, <1>4 DEF Works, d

LEMMA AnswerWorks ==
  ASSUME NEW a, NEW o, NEW cs, NEW p, NEW w, NEW X, Works(a, o, cs, p, w, X), NEW n \in DOMAIN cs
  PROVE  /\ Works(a, o, RemoveAt(cs, n), p, w, X \cup {cs[n]})
         /\ Free(cs[n], a, RemoveAt(cs, n))
         /\ \E k \in DOMAIN o : o[k].ticket = cs[n] /\ o[k].phase = "here" /\ o[k].op.kind = "upload"
<1> DEFINE d == RemoveAt(cs, n)
<1>0. OrderOK(o) /\ IsSeq(a) /\ IsSeq(cs) /\ Held(a, o, cs, X) /\ Turns(a, o, cs) /\ Recorded(a, o, p, w)
      BY DEF Works
<1>1. IsSeq(d) /\ \E src : Sources(cs, n, d, src)
      BY <1>0, RestSources
<1>2. PICK src : Sources(cs, n, d, src)
      BY <1>1
<1>3. /\ \A j \in DOMAIN d : src[j] \in DOMAIN cs /\ src[j] # n /\ d[j] = cs[src[j]]
      /\ \A i \in DOMAIN cs : i # n => \E j \in DOMAIN d : src[j] = i
      /\ \A i, j \in DOMAIN d : i < j <=> src[i] < src[j]
      BY <1>2 DEF Sources
<1>4. DOMAIN d \subseteq Nat /\ DOMAIN cs \subseteq Nat
      BY <1>0, <1>1, SeqDomain
<1> HIDE DEF d
<1>5. \A i, j \in DOMAIN d : i # j => src[i] # src[j]
      BY <1>3, <1>4
<1>6. Held(a, o, d, X \cup {cs[n]})
      <2>1. \A i \in DOMAIN cs : cs[i] # cs[n] => \E j \in DOMAIN d : d[j] = cs[i]
            BY <1>3
      <2>2. QED
            BY <1>0, <2>1 DEF Held
<1>7. Turns(a, o, d)
      BY <1>0, <1>3, <1>5 DEF Turns
<1>8. Free(cs[n], a, d)
      BY <1>0, <1>3 DEF Turns, Free
<1>9. \E k \in DOMAIN o : o[k].ticket = cs[n] /\ o[k].phase = "here" /\ o[k].op.kind = "upload"
      BY <1>0 DEF Turns
<1>10. QED
      BY <1>0, <1>1, <1>6, <1>7, <1>8, <1>9 DEF Works, d

\* Records are taken, or one is put down for an upload that is in the order.
LEMMA PendingWorks ==
  ASSUME NEW a, NEW o, NEW cs, NEW p, NEW w, NEW X, Works(a, o, cs, p, w, X), NEW p2, NEW v,
         v = w \/ DOMAIN p2 = {},
         \A s \in DOMAIN p2 :
           \/ s \in DOMAIN p
           \/ \E k \in DOMAIN o : /\ IsUploadOf(o[k], w, s)
                                  /\ \A i \in DOMAIN a : a[i].do = "leave" => a[i].ticket # o[k].ticket
  PROVE  Works(a, o, cs, p2, v, X)
<1>1. Recorded(a, o, p, w)
      BY DEF Works
<1>2. Recorded(a, o, p2, v)
      BY <1>1 DEF Recorded
<1>3. QED
      BY <1>2 DEF Works

LEMMA StartPendingDomain ==
  ASSUME NEW p, NEW change
  PROVE  DOMAIN StartPending(p, change) = IF Covers(p, change.path) THEN DOMAIN p ELSE DOMAIN p \cup {change.path}
BY DEF StartPending, Covers, Over, OneValue

LEMMA PendingDomains ==
  ASSUME NEW p
  PROVE  /\ \A start, fields : DOMAIN AtStart(p, start, fields) = DOMAIN p
         /\ \A from, to : DOMAIN MoveWhenDone(p, from, to) = DOMAIN p
         /\ \A from, to, follow : DOMAIN MoveBelow(p, from, to, follow) = DOMAIN p
         /\ \A path : DOMAIN KeepsPartial(p, path) = DOMAIN p
         /\ \A path : DOMAIN RemoveRemoteWhenDone(p, path) = DOMAIN p
         /\ \A start : DOMAIN ChangesHandled(p, start) = DOMAIN p
         /\ \A start, dst, dir : DOMAIN Sent(p, start, dst, dir) = DOMAIN p
         /\ \A change : DOMAIN StartPending(p, change) =
              IF Covers(p, change.path) THEN DOMAIN p ELSE DOMAIN p \cup {change.path}
         /\ \A paths : DOMAIN Without(p, paths) = DOMAIN p \ paths
<1>1. \A start, fields : DOMAIN AtStart(p, start, fields) = DOMAIN p
      BY DEF AtStart
<1>2. \A from, to : DOMAIN MoveWhenDone(p, from, to) = DOMAIN p
      BY DEF MoveWhenDone
<1>3. \A from, to, follow : DOMAIN MoveBelow(p, from, to, follow) = DOMAIN p
      BY DEF MoveBelow
<1>4. \A path : DOMAIN KeepsPartial(p, path) = DOMAIN p
      BY <1>1 DEF KeepsPartial
<1>5. \A path : DOMAIN RemoveRemoteWhenDone(p, path) = DOMAIN p
      BY <1>1 DEF RemoveRemoteWhenDone
<1>6. /\ \A start : DOMAIN ChangesHandled(p, start) = DOMAIN p
      /\ \A start, dst, dir : DOMAIN Sent(p, start, dst, dir) = DOMAIN p
      BY <1>1 DEF ChangesHandled, Sent
<1>7. ASSUME NEW change
      PROVE  DOMAIN StartPending(p, change) = IF Covers(p, change.path) THEN DOMAIN p ELSE DOMAIN p \cup {change.path}
      BY StartPendingDomain
<1>8. \A paths : DOMAIN Without(p, paths) = DOMAIN p \ paths
      BY DEF Without, Restrict
<1>9. QED
      BY <1>1, <1>2, <1>3, <1>4, <1>5, <1>6, <1>7, <1>8
--------------------------------------------------------------------------------
(***************************************************************************)
(* The steps.                                                              *)
(***************************************************************************)
LEMMA CallsNaming ==
  /\ \A t : /\ Names(CheckServer(t)) /\ CheckServer(t).ticket = t /\ CheckServer(t).do = "checkServer"
            /\ Names(Ask(t)) /\ Ask(t).ticket = t /\ Ask(t).do = "ask"
            /\ Names(Leave(t)) /\ Leave(t).ticket = t /\ Leave(t).do = "leave"
  /\ \A t, x, y : Names(Enqueue(t, x, y)) /\ Enqueue(t, x, y).ticket = t /\ Enqueue(t, x, y).do = "enqueue"
  /\ \A t, x : Names(Finish(t, x)) /\ Finish(t, x).ticket = t /\ Finish(t, x).do = "finish"
BY DEF Names, Holders, CheckServer, Ask, Leave, Enqueue, Finish

LEMMA CallsNotNaming ==
  /\ \A x, y : ~Names(ContentChanges(x, y)) /\ ~Names(RemoveRemote(x, y)) /\ ~Names(UploadLacking(x, y))
  /\ \A x, y, z : ~Names(ContentChanged(x, y, z))
  /\ \A x : ~Names(Deletions(x)) /\ ~Names(Deleted(x)) /\ ~Names(RemoveKnown(x)) /\ ~Names(Discard(x))
            /\ ~Names(LookAt(x))
  /\ \A p, x, y, z, v : ~Names(QueueUpload(p, x, y, z, v))
BY DEF Names, Holders, ContentChanges, ContentChanged, Deletions, Deleted, RemoveKnown, Discard, LookAt,
       RemoveRemote, UploadLacking, QueueUpload

LEMMA QuietLists ==
  /\ \A x : Quiet(ForEach(Deletions, x)) /\ Quiet(ForEach(RemoveKnown, x)) /\ Quiet(DiscardIf(x))
  /\ \A x : Quiet(BelowChanges(x))
  /\ \A x, y : Quiet(RemoveKnownTree(x, y)) /\ Quiet(MovedAwayTo(x, y))
<1>1. \A x : Quiet(ForEach(Deletions, x)) /\ Quiet(ForEach(RemoveKnown, x)) /\ Quiet(DiscardIf(x))
      BY QuietCalls, CallsNotNaming DEF ForEach, DiscardIf
<1>2. \A x : Quiet(BelowChanges(x))
      BY QuietCalls, CallsNotNaming DEF BelowChanges, ForEach
<1>3. \A x, y : Quiet(RemoveKnownTree(x, y)) /\ Quiet(MovedAwayTo(x, y))
      BY <1>1 DEF RemoveKnownTree, MovedAwayTo
<1>4. QED
      BY <1>1, <1>2, <1>3

LEMMA Working ==
  ASSUME Works(agenda', order', conflicts', pending', entry'.watch, {})
  PROVE  TurnInv'
BY DEF TurnInv

LEMMA IdleStart ==
  ASSUME TurnInv, Idle
  PROVE  Works(<<>>, order, conflicts, pending, entry.watch, {})
BY IdleWorks DEF TurnInv, Idle

LEMMA CallStart ==
  ASSUME TurnInv, NEW name, Calls(name), name # "leave"
  PROVE  /\ Works(Tail(agenda), order, conflicts, pending, entry.watch, IF name \in Holders THEN {Call.ticket} ELSE {})
         /\ name \in Holders =>
              /\ Free(Call.ticket, Tail(agenda), conflicts)
              /\ \E k \in DOMAIN order :
                   /\ order[k].ticket = Call.ticket /\ order[k].op.kind = "upload"
                   /\ order[k].phase \in {"starting", "here"}
                   /\ order[k].phase = "starting" => name = "checkServer"
<1>1. agenda # <<>> /\ Call.do = name
      BY DEF Calls
<1>2. IsSeq(agenda)
      BY DEF TurnInv, Works, Ebbs
<1>3. 1 \in DOMAIN agenda /\ Call = agenda[1]
      BY <1>1, <1>2, TailSeq DEF Call
<1>4. Works(agenda, order, conflicts, pending, entry.watch, {})
      BY <1>1, <1>3 DEF TurnInv, Ebbs, Drains
<1>5. Names(agenda[1]) <=> name \in Holders
      BY <1>1, <1>3 DEF Names
<1>6. ASSUME name \in Holders
      PROVE  \E k \in DOMAIN order :
               /\ order[k].ticket = Call.ticket /\ order[k].op.kind = "upload"
               /\ order[k].phase \in {"starting", "here"}
               /\ order[k].phase = "starting" => name = "checkServer"
      <2>1. PICK k \in DOMAIN order : /\ order[k].ticket = Call.ticket /\ order[k].phase \in {"starting", "here"}
                                      /\ order[k].op.kind = "upload"
            BY <1>1, <1>3, <1>4, <1>5, <1>6 DEF Works, Turns, HasTurn
      <2>2. ASSUME order[k].phase = "starting" PROVE name = "checkServer"
            <3>1. PICK i \in DOMAIN agenda : agenda[i].do = "checkServer" /\ agenda[i].ticket = Call.ticket
                  BY <1>4, <2>1, <2>2 DEF Works, Held
            <3>2. Names(agenda[i])
                  BY <3>1 DEF Names, Holders
            <3>3. i = 1
                  BY <1>3, <1>4, <1>5, <1>6, <3>1, <3>2 DEF Works, Turns
            <3>4. QED
                  BY <1>1, <1>3, <3>1, <3>3
      <2>3. QED
            BY <2>1, <2>2
<1>7. /\ Works(Tail(agenda), order, conflicts, pending, entry.watch,
               IF Names(agenda[1]) THEN {} \cup {agenda[1].ticket} ELSE {})
      /\ Names(agenda[1]) => Free(agenda[1].ticket, Tail(agenda), conflicts)
      BY <1>1, <1>4, PopWorks
<1>8. {} \cup {Call.ticket} = {Call.ticket}
      OBVIOUS
<1>9. QED
      BY <1>3, <1>5, <1>6, <1>7, <1>8

LEMMA CancelledMoves ==
  ASSUME NEW o, OrderOK(o), NEW dst, NEW partial
  PROVE  Moves(o, Cancelled(o, dst, partial), {}) /\ OrderOK(Cancelled(o, dst, partial))
<1> DEFINE o2 == Cancelled(o, dst, partial)
<1>1. IsSeq(o) /\ \A i \in DOMAIN o : IsEntry(o[i])
      BY DEF OrderOK
<1>2. o2 = [i \in DOMAIN o |->
              IF o[i].op.kind # "upload" \/ o[i].op.dst # dst THEN o[i]
              ELSE IF o[i].phase = "sent" THEN Updated(o[i], "ended", [result |-> "canceled"])
              ELSE IF o[i].phase = "running" /\ o[i].op.alone
              THEN Updated(o[i], "running", [cancel |-> partial])
              ELSE o[i]]
      BY DEF Cancelled
<1> HIDE DEF o2
<1>3. DOMAIN o2 = DOMAIN o /\ IsSeq(o2)
      <2>1. DOMAIN o2 = DOMAIN o /\ o2 = [i \in DOMAIN o |-> o2[i]]
            BY <1>2
      <2>2. QED
            BY <1>1, <2>1, MapSeq
<1>4. ASSUME NEW i \in DOMAIN o
      PROVE  \/ o2[i] = o[i]
             \/ o[i].phase = "sent" /\ o2[i] = Updated(o[i], "ended", [result |-> "canceled"])
             \/ o[i].phase = "running" /\ o2[i] = Updated(o[i], "running", [cancel |-> partial])
      BY <1>2
<1>5. DOMAIN [result |-> "canceled"] \cap Reserved = {} /\ DOMAIN [cancel |-> partial] \cap Reserved = {}
      BY DEF Reserved
<1>6. "ended" \in Phases /\ "running" \in Phases
      BY DEF Phases
<1>7. ASSUME NEW i \in DOMAIN o
      PROVE  /\ IsEntry(o2[i]) /\ o2[i].ticket = o[i].ticket /\ o2[i].paths = o[i].paths
             /\ o2[i].op.kind = o[i].op.kind
             /\ o[i].op.kind = "upload" => o2[i].op.watch = o[i].op.watch /\ o2[i].op.path = o[i].op.path
             /\ \/ o2[i].phase = o[i].phase
                \/ o[i].phase \in Away /\ o2[i].phase \in Away
      <2>1. CASE o2[i] = o[i]
            BY <1>1, <2>1
      <2>2. CASE o[i].phase = "sent" /\ o2[i] = Updated(o[i], "ended", [result |-> "canceled"])
            <3>1. o[i].phase \in Away /\ "ended" \in Away
                  BY <2>2 DEF Away
            <3>2. QED
                  BY <1>1, <1>5, <1>6, <2>2, <3>1, EntryUpdate
      <2>3. CASE o[i].phase = "running" /\ o2[i] = Updated(o[i], "running", [cancel |-> partial])
            <3>1. o[i].phase \in Away /\ "running" \in Away
                  BY <2>3 DEF Away
            <3>2. QED
                  BY <1>1, <1>5, <1>6, <2>3, <3>1, EntryUpdate
      <2>4. QED
            BY <1>4, <2>1, <2>2, <2>3
<1>8. Moves(o, o2, {})
      BY <1>3, <1>7 DEF Moves
<1>9. OrderOK(o2)
      BY <1>8, MovesOrder
<1>10. QED
      BY <1>8, <1>9 DEF o2

\* Edits, other clients, and what the user does that calls nothing.
LEMMA StillSteps ==
  ASSUME TurnInv,
         \/ Edits
         \/ \E o \in Toggles : SetOption(o)
         \/ \E p \in failures : DismissFailure(p)
  PROVE  TurnInv'
<1>1. UNCHANGED <<entry, pending, conflicts, order, agenda>>
      BY DEF Edits, WriteFile, MakeDirectory, DeleteEntry, MoveOut, MoveEntry, LoseChanges, ForeignWrites, ForeignDeletes,
             Edit, SetOption, DismissFailure, tracker
<1>2. QED
      BY <1>1 DEF TurnInv

\* A handler that calls nothing that names an operation.
LEMMA QuietStep ==
  ASSUME NEW a, Works(a, order', conflicts, pending, entry.watch, {}), NEW c, Quiet(c), agenda' = c \o a,
         conflicts' = conflicts,
         \/ entry'.watch = entry.watch /\ DOMAIN pending' \subseteq DOMAIN pending
         \/ DOMAIN pending' = {}
  PROVE  TurnInv'
<1>1. Works(agenda', order', conflicts, pending, entry.watch, {})
      BY PushQuiet
<1>2. Works(agenda', order', conflicts, pending', entry'.watch, {})
      BY <1>1, PendingWorks
<1>3. QED
      BY <1>2, Working

LEMMA UserSteps ==
  ASSUME TurnInv,
         UploadAndWatch \/ \E p \in failures : RetryFailure(p)
  PROVE  TurnInv'
<1>1. ASSUME UploadAndWatch PROVE TurnInv'
      <2>1. Works(<<>>, order, conflicts, pending, entry.watch, {})
            BY <1>1, IdleStart DEF UploadAndWatch
      <2>2. PICK c : Quiet(c) /\ agenda' = c
            BY <1>1, QuietCalls, CallsNotNaming DEF UploadAndWatch
      <2>3. agenda' = c \o <<>>
            BY <2>2, NoSeq DEF Quiet
      <2>4. order' = order /\ conflicts' = conflicts /\ DOMAIN pending' = {}
            BY <1>1, NoSeq DEF UploadAndWatch
      <2>5. QED
            BY <2>1, <2>2, <2>3, <2>4, QuietStep
<1>2. ASSUME NEW p \in failures, RetryFailure(p) PROVE TurnInv'
      <2>1. Works(<<>>, order, conflicts, pending, entry.watch, {})
            BY <1>2, IdleStart DEF RetryFailure
      <2>2. PICK c : Quiet(c) /\ agenda' = c
            BY <1>2, QuietCalls, CallsNotNaming DEF RetryFailure
      <2>3. agenda' = c \o <<>>
            BY <2>2, NoSeq DEF Quiet
      <2>4. order' = order /\ conflicts' = conflicts /\ pending' = pending /\ entry' = entry
            BY <1>2 DEF RetryFailure
      <2>5. QED
            BY <2>1, <2>2, <2>3, <2>4, QuietStep
<1>3. QED
      BY <1>1, <1>2

\* The calls that decide about no operation.
LEMMA QuietCallSteps ==
  ASSUME OnContentChanged \/ OnLookAt \/ OnRemoveKnown \/ OnUploadLacking
  PROVE  \E c : Quiet(c) /\ agenda' = c \o Tail(agenda)
<1> DEFINE b == Tail(agenda)
<1>1. ASSUME OnContentChanged PROVE \E c : Quiet(c) /\ agenda' = c \o b
      <2> DEFINE change == Head(Call.changes)
                 further(changes) == ContentChanges(changes, Call.check)
      <2> DEFINE q == IF Watching /\ "auto" \in options
                      THEN <<QueueUpload(change.path, change.dir, RemotePathOf(change.path), Call.check, Nowhere)>>
                      ELSE <<>>
                 r == ForEach(further, Tail(Call.changes))
      <2>1. Quiet(q)
            BY QuietCalls, CallsNotNaming, QuietLists
      <2>2. Quiet(r)
            BY QuietCalls, CallsNotNaming, QuietLists DEF ForEach
      <2>3. agenda' = (q \o r) \o b
            BY <1>1 DEF OnContentChanged, Then, ForEach
      <2> HIDE DEF q, r
      <2>4. QED
            BY <2>1, <2>2, <2>3, QuietConcat
<1>2. ASSUME OnLookAt PROVE \E c : Quiet(c) /\ agenda' = c \o b
      BY <1>2, QuietCalls, CallsNotNaming DEF OnLookAt, Then
<1>3. ASSUME OnRemoveKnown PROVE \E c : Quiet(c) /\ agenda' = c \o b
      <2> DEFINE q == LET p == Head(Call.paths)
                      IN IF Has(known, p) THEN <<RemoveRemote(p, RemotePathOf(p))>> ELSE <<>>
                 r == ForEach(RemoveKnown, Tail(Call.paths))
      <2>1. Quiet(q)
            BY QuietCalls, CallsNotNaming, QuietLists
      <2>2. Quiet(r)
            BY QuietCalls, CallsNotNaming, QuietLists
      <2>3. agenda' = (q \o r) \o b
            BY <1>3 DEF OnRemoveKnown, Then
      <2> HIDE DEF q, r
      <2>4. QED
            BY <2>1, <2>2, <2>3, QuietConcat
<1>4. ASSUME OnUploadLacking PROVE \E c : Quiet(c) /\ agenda' = c \o b
      <2>1. CASE Call.walked = <<>>
            BY <1>4, <2>1, QuietCalls DEF OnUploadLacking, Then
      <2>2. CASE Call.walked # <<>>
            <3> DEFINE state == Head(Call.walked)
                       lacks == /\ \A d \in Call.newDirs : ~IsWithin(state.path, d)
                                /\ ~(state.dir /\ state.path \in known.dirs)
                       newDirs == IF lacks /\ state.dir THEN Call.newDirs \cup {state.path} ELSE Call.newDirs
                       q == IF lacks
                            THEN <<QueueUpload(state.path, state.dir, RemotePathOf(state.path), FALSE, Nowhere)>>
                            ELSE <<>>
                       r == <<UploadLacking(Tail(Call.walked), newDirs)>>
            <3>1. Then(IF Call.walked = <<>> THEN <<>> ELSE q \o r)
                  BY <1>4 DEF OnUploadLacking
            <3> HIDE DEF lacks, newDirs
            <3>2. Quiet(q) /\ Quiet(r)
                  BY QuietCalls, CallsNotNaming
            <3> HIDE DEF q, r
            <3>3. Quiet(q \o r)
                  BY <3>2, QuietConcat
            <3>4. agenda' = (q \o r) \o b
                  BY <2>2, <3>1 DEF Then
            <3>5. QED
                  BY <3>3, <3>4
      <2>3. QED
            BY <2>1, <2>2
<1>5. QED
      BY <1>1, <1>2, <1>3, <1>4

LEMMA CallSteps ==
  ASSUME TurnInv,
         OnContentChanged \/ OnLookAt \/ OnRemoveKnown \/ OnUploadLacking
  PROVE  TurnInv'
<1> DEFINE b == Tail(agenda)
<1>1. PICK name \in {"contentChanged", "lookAt", "removeKnown", "uploadLacking"} : Calls(name)
      BY DEF OnContentChanged, OnLookAt, OnRemoveKnown, OnUploadLacking
<1>2. Works(b, order, conflicts, pending, entry.watch, {})
      BY <1>1, CallStart DEF Holders
<1>3. UNCHANGED <<entry, pending, conflicts, order>>
      BY DEF OnContentChanged, OnLookAt, OnRemoveKnown, OnUploadLacking, tracker
<1>4. \E c : Quiet(c) /\ agenda' = c \o b
      BY QuietCallSteps
<1>5. QED
      BY <1>2, <1>3, <1>4, QuietStep

\* An operation that is no upload enters.
LEMMA EnterOther ==
  ASSUME NEW a, NEW o, NEW cs, NEW p, NEW w, NEW X, Works(a, o, cs, p, w, X),
         NEW paths, NEW op, IsOp(op), op.kind # "upload"
  PROVE  Works(a, Entering(o, paths, op), cs, p, w, X)
<1> SUFFICES ASSUME NEW o2, o2 = Entering(o, paths, op)
             PROVE  Works(a, o2, cs, p, w, X)
    OBVIOUS
<1>1. OrderOK(o)
      BY DEF Works
<1>2. PICK m \in Nat :
        /\ OrderOK(o2) /\ DOMAIN o2 = DOMAIN o \cup {m} /\ m \notin DOMAIN o
        /\ \A k \in DOMAIN o : o2[k] = o[k]
        /\ o2[m].ticket = NextTicket(o) /\ o2[m].op = op
        /\ o2[m].phase \in {"waiting", "starting", "sent"}
        /\ o2[m].phase = "starting" => op.kind = "upload"
        /\ Last(o2) = o2[m]
      BY <1>1, EnterOrder
<1>3. QED
      BY <1>2, EnterWorks

LEMMA CancelWorks ==
  ASSUME NEW a, NEW o, NEW cs, NEW p, NEW w, NEW X, Works(a, o, cs, p, w, X), NEW dst, NEW partial
  PROVE  Works(a, Cancelled(o, dst, partial), cs, p, w, X)
<1>1. Moves(o, Cancelled(o, dst, partial), {})
      BY CancelledMoves DEF Works
<1>2. X \cup {} = X
      OBVIOUS
<1>3. Works(a, Cancelled(o, dst, partial), cs, p, w, X \cup {})
      BY <1>1, MovesWorks
<1>4. QED
      BY <1>2, <1>3

LEMMA DeletedCalls ==
  ASSUME OnDeleted
  PROVE  \E c : Quiet(c) /\ agenda' = c \o Tail(agenda)
<1> DEFINE p == Head(Call.paths)
           further == ForEach(Deletions, Tail(Call.paths))
<1>1. Quiet(further)
      BY QuietLists
<1>2. \/ agenda' = further \o Tail(agenda)
      \/ agenda' = (<<RemoveRemote(p, RemotePathOf(p))>> \o further) \o Tail(agenda)
      BY DEF OnDeleted, Then
<1> HIDE DEF further
<1>3. Quiet(<<RemoveRemote(p, RemotePathOf(p))>> \o further)
      BY <1>1, QuietCalls, CallsNotNaming, QuietConcat
<1>4. QED
      BY <1>1, <1>2, <1>3

LEMMA DeletedStep ==
  ASSUME TurnInv, OnDeleted
  PROVE  TurnInv'
<1> DEFINE b == Tail(agenda)
           p == Head(Call.paths)
<1>1. Works(b, order, conflicts, pending, entry.watch, {})
      <2>1. Calls("deleted")
            BY DEF OnDeleted
      <2>2. QED
            BY <2>1, CallStart DEF Holders
<1>2. entry' = entry /\ conflicts' = conflicts
      BY DEF OnDeleted
<1>3. \/ order' = order
      \/ \E dst : order' = Cancelled(order, dst, "discarded")
      BY DEF OnDeleted
<1>4. DOMAIN pending' \subseteq DOMAIN pending
      <2>1. \/ pending' = pending
            \/ pending' = RemoveRemoteWhenDone(pending, p)
            \/ Covers(pending, p) /\ pending' = StartPending(pending, [path |-> p, dir |-> FALSE])
            BY DEF OnDeleted
      <2>2. DOMAIN RemoveRemoteWhenDone(pending, p) = DOMAIN pending
            BY PendingDomains
      <2>3. Covers(pending, p) => DOMAIN StartPending(pending, [path |-> p, dir |-> FALSE]) = DOMAIN pending
            BY PendingDomains
      <2>4. QED
            BY <2>1, <2>2, <2>3
<1>5. \E c : Quiet(c) /\ agenda' = c \o b
      BY DeletedCalls
<1>6. Works(b, order', conflicts, pending, entry.watch, {})
      BY <1>1, <1>3, CancelWorks
<1>7. QED
      BY <1>2, <1>4, <1>5, <1>6, QuietStep

LEMMA RemoveSteps ==
  ASSUME TurnInv, OnRemoveRemote \/ OnDiscardPartial
  PROVE  TurnInv'
<1> DEFINE b == Tail(agenda)
<1>1. Works(b, order, conflicts, pending, entry.watch, {})
      <2>1. PICK name \in {"removeRemote", "discardPartial"} : Calls(name)
            BY DEF OnRemoveRemote, OnDiscardPartial
      <2>2. QED
            BY <2>1, CallStart DEF Holders
<1>2. entry' = entry /\ conflicts' = conflicts /\ pending' = pending
      BY DEF OnRemoveRemote, OnDiscardPartial, tracker
<1>3. PICK op : op.kind # "upload" /\ IsOp(op) /\ order' = Entering(order, {Call.dst}, op)
      <2>1. ASSUME OnRemoveRemote
            PROVE  \E op : op.kind # "upload" /\ IsOp(op) /\ order' = Entering(order, {Call.dst}, op)
            <3> DEFINE op == [kind |-> "remove", watch |-> entry.watch, path |-> Call.path, dst |-> Call.dst]
            <3>1. order' = Entering(order, {Call.dst}, op)
                  BY <2>1 DEF OnRemoveRemote, InOrder
            <3>2. op.kind # "upload" /\ IsOp(op)
                  BY DEF IsOp
            <3> HIDE DEF op
            <3>3. QED
                  BY <3>1, <3>2
      <2>2. ASSUME OnDiscardPartial
            PROVE  \E op : op.kind # "upload" /\ IsOp(op) /\ order' = Entering(order, {Call.dst}, op)
            <3> DEFINE op == [kind |-> "discard", dst |-> Call.dst]
            <3>1. order' = Entering(order, {Call.dst}, op)
                  BY <2>2 DEF OnDiscardPartial, InOrder
            <3>2. op.kind # "upload" /\ IsOp(op)
                  BY DEF IsOp
            <3> HIDE DEF op
            <3>3. QED
                  BY <3>1, <3>2
      <2>3. QED
            BY <2>1, <2>2
<1>4. \E c : Quiet(c) /\ agenda' = c \o b
      BY QuietCalls, CallsNotNaming DEF OnRemoveRemote, OnDiscardPartial, Then
<1>5. Works(b, order', conflicts, pending, entry.watch, {})
      BY <1>1, <1>3, EnterOther
<1>6. QED
      BY <1>2, <1>4, <1>5, QuietStep

LEMMA QueueUploadStep ==
  ASSUME TurnInv, OnQueueUpload
  PROVE  TurnInv'
<1> DEFINE b == Tail(agenda)
           c == Call
           change == [path |-> c.path, dir |-> c.dir]
           paths == {c.dst} \cup ({c.cont} \ {Nowhere})
           op == UploadOf(c)
           o2 == Entering(order, paths, op)
           t == NextTicket(order)
<1>1. Works(b, order, conflicts, pending, entry.watch, {})
      <2>1. Calls("queueUpload")
            BY DEF OnQueueUpload
      <2>2. QED
            BY <2>1, CallStart DEF Holders
<1>2. entry' = entry /\ conflicts' = conflicts
      BY DEF OnQueueUpload
<1>3. \/ /\ order' = order /\ DOMAIN pending' \subseteq DOMAIN pending
         /\ \E q : Quiet(q) /\ agenda' = q \o b
      \/ /\ order' = o2 /\ ~Covers(pending, c.path) /\ pending' = StartPending(pending, change)
         /\ agenda' = (IF Last(o2).phase = "starting" THEN <<CheckServer(Last(o2).ticket)>> ELSE <<>>) \o b
      <2>1. \/ order' = order /\ pending' = pending /\ Then(DiscardIf(c.cont))
            \/ order' = order /\ pending' = pending /\ \E walked : Then(<<UploadLacking(walked, {})>>)
            \/ /\ order' = order /\ Covers(pending, c.path) /\ pending' = StartPending(pending, change)
               /\ Then(DiscardIf(c.cont))
            \/ /\ order' = o2 /\ Starts(pending, c.path) /\ pending' = StartPending(pending, change)
               /\ Then(IF Last(o2).phase = "starting" THEN <<CheckServer(Last(o2).ticket)>> ELSE <<>>)
            BY DEF OnQueueUpload
      <2> HIDE DEF o2
      <2>2. Covers(pending, c.path) => DOMAIN StartPending(pending, change) = DOMAIN pending
            BY PendingDomains
      <2>3. \A walked : Quiet(<<UploadLacking(walked, {})>>)
            BY QuietCalls, CallsNotNaming
      <2>4. Quiet(DiscardIf(c.cont))
            BY QuietLists
      <2>5. QED
            BY <2>1, <2>2, <2>3, <2>4 DEF Then, Starts
<1>4. CASE /\ order' = order /\ DOMAIN pending' \subseteq DOMAIN pending
           /\ \E q : Quiet(q) /\ agenda' = q \o b
      BY <1>1, <1>2, <1>4, QuietStep
<1>5. CASE /\ order' = o2 /\ ~Covers(pending, c.path) /\ pending' = StartPending(pending, change)
           /\ agenda' = (IF Last(o2).phase = "starting" THEN <<CheckServer(Last(o2).ticket)>> ELSE <<>>) \o b
      <2>1. IsOp(op) /\ op.kind = "upload" /\ op.watch = entry.watch /\ op.path = c.path
            BY DEF UploadOf, IsOp
      <2>2. o2 = Entering(order, paths, op)
            OBVIOUS
      <2> HIDE DEF op, o2, paths, c, t, b
      <2>3. OrderOK(order)
            BY <1>1 DEF Works
      <2>4. PICK m \in Nat :
              /\ OrderOK(o2) /\ DOMAIN o2 = DOMAIN order \cup {m} /\ m \notin DOMAIN order
              /\ \A k \in DOMAIN order : o2[k] = order[k]
              /\ o2[m].ticket = t /\ o2[m].op = op
              /\ o2[m].phase \in {"waiting", "starting", "sent"}
              /\ o2[m].phase = "starting" => op.kind = "upload"
              /\ Last(o2) = o2[m]
            BY <2>1, <2>2, <2>3, EnterOrder DEF t
      <2>5. /\ Works(b, o2, conflicts, pending, entry.watch, {} \cup {t})
            /\ Last(o2).phase # "starting" => Works(b, o2, conflicts, pending, entry.watch, {})
            /\ Free(t, b, conflicts)
            BY <1>1, <2>1, <2>2, EnterWorks DEF t
      <2>6. DOMAIN pending' = DOMAIN pending \cup {c.path}
            <3>1. change.path = c.path /\ pending' = StartPending(pending, change)
                  BY <1>5
            <3> HIDE DEF change
            <3>2. DOMAIN pending' = IF Covers(pending, change.path) THEN DOMAIN pending ELSE DOMAIN pending \cup {change.path}
                  BY <3>1, PendingDomains
            <3>3. QED
                  BY <1>5, <3>1, <3>2
      <2>7. /\ IsUploadOf(o2[m], entry.watch, c.path)
            /\ \A i \in DOMAIN b : b[i].do = "leave" => b[i].ticket # o2[m].ticket
            BY <2>1, <2>4, <2>5 DEF IsUploadOf, Free, Names
      <2>8. \A s \in DOMAIN pending' :
              \/ s \in DOMAIN pending
              \/ \E k \in DOMAIN o2 : /\ IsUploadOf(o2[k], entry.watch, s)
                                      /\ \A i \in DOMAIN b : b[i].do = "leave" => b[i].ticket # o2[k].ticket
            BY <2>4, <2>6, <2>7
      <2>9. \A X : Works(b, o2, conflicts, pending, entry.watch, X) => Works(b, o2, conflicts, pending', entry.watch, X)
            BY <2>8, PendingWorks
      <2>10. {} \cup {t} = {t} /\ {t} \ {t} = {}
             OBVIOUS
      <2>11. CASE Last(o2).phase = "starting"
             <3> DEFINE n == CheckServer(t)
                        d == <<n>>
             <3>1. agenda' = d \o b
                   BY <1>5, <2>4, <2>11
             <3>2. n.ticket = t /\ n.do = "checkServer" /\ One(d, n)
                   BY CallsNaming, QuietCalls
             <3>3. HasTurn(o2, t, "checkServer")
                   BY <2>1, <2>4, <2>11 DEF HasTurn
             <3>4. Works(b, o2, conflicts, pending', entry.watch, {t})
                   BY <2>5, <2>9, <2>10
             <3> HIDE DEF n, d
             <3>5. Works(d \o b, o2, conflicts, pending', entry.watch, {t} \ {n.ticket})
                   BY <2>5, <3>2, <3>3, <3>4, PushOne
             <3>6. QED
                   BY <1>2, <1>5, <2>10, <3>1, <3>2, <3>5, Working
      <2>12. CASE Last(o2).phase # "starting"
             <3>1. agenda' = b
                   <4>1. IsSeq(b)
                         BY <1>1 DEF Works
                   <4>2. agenda' = <<>> \o b
                         BY <1>5, <2>12
                   <4>3. QED
                         BY <4>1, <4>2, NoSeq
             <3>2. Works(b, o2, conflicts, pending', entry.watch, {})
                   BY <2>5, <2>9, <2>12
             <3>3. QED
                   BY <1>2, <1>5, <3>1, <3>2, Working
      <2>13. QED
             BY <2>11, <2>12
<1>6. QED
      BY <1>3, <1>4, <1>5

\* The operation of t has its turn and is named by one call that goes on with it.
LEMMA TurnStep ==
  ASSUME NEW b, NEW t, Works(b, order', conflicts', pending, entry.watch, {t}), Free(t, b, conflicts'),
         NEW k \in DOMAIN order', order'[k].ticket = t, order'[k].phase = "here",
         NEW d, NEW n, One(d, n), n.ticket = t, n.do \in Holders => order'[k].op.kind = "upload",
         agenda' = d \o b, entry'.watch = entry.watch,
         \A s \in DOMAIN pending' :
           \/ s \in DOMAIN pending /\ (n.do = "leave" => ~IsUploadOf(order'[k], entry.watch, s))
           \/ n.do # "leave" /\ IsUploadOf(order'[k], entry.watch, s)
  PROVE  TurnInv'
<1>1. OrderOK(order')
      BY DEF Works
<1>2. \A i \in DOMAIN order' : order'[i].ticket = t => i = k
      BY <1>1, PlaceFound
<1>3. Works(b, order', conflicts', pending', entry.watch, {t})
      <2>1. ASSUME NEW s \in DOMAIN pending', IsUploadOf(order'[k], entry.watch, s)
            PROVE  /\ IsUploadOf(order'[k], entry.watch, s)
                   /\ \A i \in DOMAIN b : b[i].do = "leave" => b[i].ticket # order'[k].ticket
            BY <2>1 DEF Free, Names
      <2>2. \A s \in DOMAIN pending' :
              \/ s \in DOMAIN pending
              \/ \E j \in DOMAIN order' : /\ IsUploadOf(order'[j], entry.watch, s)
                                          /\ \A i \in DOMAIN b : b[i].do = "leave" => b[i].ticket # order'[j].ticket
            BY <2>1
      <2>3. QED
            BY <2>2, PendingWorks
<1>4. HasTurn(order', n.ticket, n.do)
      BY DEF HasTurn
<1>5. \A j \in DOMAIN order' :
        /\ order'[j].ticket = n.ticket /\ order'[j].phase = "starting" => n.do = "checkServer"
        /\ order'[j].ticket = n.ticket /\ n.do = "leave" => \A s \in DOMAIN pending' : ~IsUploadOf(order'[j], entry.watch, s)
      BY <1>2
<1>6. Works(d \o b, order', conflicts', pending', entry.watch, {t} \ {n.ticket})
      BY <1>3, <1>4, <1>5, PushOne
<1>7. {t} \ {n.ticket} = {}
      OBVIOUS
<1>8. QED
      BY <1>6, <1>7, Working

LEMMA HereMoves ==
  ASSUME NEW k \in DOMAIN order, OrderOK(order), NEW t, order[k].ticket = t, Started(order[k]),
         NEW fields, DOMAIN fields \cap Reserved = {}, NEW o2, o2 = SetOp(t, "here", fields)
  PROVE  Moves(order, o2, {t}) /\ o2[k].phase = "here" /\ DOMAIN o2 = DOMAIN order
<1>1. "here" \in Away \cup {"here"}
      OBVIOUS
<1>2. Moves(order, SetOp(t, "here", fields), {t}) /\ SetOp(t, "here", fields)[k].phase = "here"
      BY <1>1, SetOpMoves
<1>3. QED
      BY <1>2 DEF Moves

\* The same after the operation was taken into the tracker's hands.
LEMMA HereStep ==
  ASSUME NEW b, NEW t, NEW X, Works(b, order, conflicts', pending, entry.watch, X), X \subseteq {t}, Free(t, b, conflicts'),
         NEW k \in DOMAIN order, order[k].ticket = t, Started(order[k]),
         NEW fields, DOMAIN fields \cap Reserved = {}, order' = SetOp(t, "here", fields),
         NEW d, NEW n, One(d, n), n.ticket = t, n.do \in Holders => order[k].op.kind = "upload",
         agenda' = d \o b, entry'.watch = entry.watch,
         \A s \in DOMAIN pending' :
           \/ s \in DOMAIN pending /\ (n.do = "leave" => ~IsUploadOf(order[k], entry.watch, s))
           \/ n.do # "leave" /\ IsUploadOf(order[k], entry.watch, s)
  PROVE  TurnInv'
<1>1. OrderOK(order)
      BY DEF Works
<1>2. Moves(order, order', {t}) /\ order'[k].phase = "here" /\ DOMAIN order' = DOMAIN order
      BY <1>1, HereMoves
<1>3. Moves(order, order', {t}) /\ order'[k].phase = "here" /\ k \in DOMAIN order'
      BY <1>2
<1>4. Works(b, order', conflicts', pending, entry.watch, X \cup {t})
      BY <1>3, MovesWorks
<1>5. X \cup {t} = {t}
      OBVIOUS
<1>6. /\ order'[k].ticket = t /\ order'[k].op.kind = order[k].op.kind
      /\ order[k].op.kind = "upload" => order'[k].op.watch = order[k].op.watch /\ order'[k].op.path = order[k].op.path
      BY <1>3 DEF Moves
<1>7. \A s : IsUploadOf(order'[k], entry.watch, s) <=> IsUploadOf(order[k], entry.watch, s)
      BY <1>6 DEF IsUploadOf
<1>8. QED
      BY <1>3, <1>4, <1>5, <1>6, <1>7, TurnStep

LEMMA PairCalls ==
  ASSUME NEW m, NEW n, Names(m), ~Names(n)
  PROVE  One(<<m, n>>, m)
<1> DEFINE c == <<m, n>>
<1>1. c \in Seq({m, n}) /\ DOMAIN c = 1..2 /\ c[1] = m /\ c[2] = n
      OBVIOUS
<1>2. IsSeq(c)
      BY <1>1, SeqIn
<1>3. 1 \in 1..2 /\ \A i \in 1..2 : i # 1 => i = 2
      OBVIOUS
<1> HIDE DEF c
<1>4. One(c, m)
      BY <1>1, <1>2, <1>3 DEF One
<1>5. QED
      BY <1>4 DEF c

LEMMA OpAt ==
  ASSUME OrderOK(order), NEW k \in DOMAIN order, NEW t, order[k].ticket = t
  PROVE  Op(t) = order[k].op /\ At(t) = order[k]
BY PlaceFound DEF Op, At

LEMMA NoConflictCalls ==
  ASSUME NEW t, NoConflict(t) # <<>>
  PROVE  One(NoConflict(t), Finish(t, "notUploaded"))
BY PairCalls, QuietCalls, CallsNaming, CallsNotNaming DEF NoConflict

LEMMA CheckServerStep ==
  ASSUME TurnInv, OnCheckServer
  PROVE  TurnInv'
<1> DEFINE b == Tail(agenda)
           t == Call.ticket
           u == Op(t)
<1>1. Calls("checkServer") /\ entry' = entry /\ conflicts' = conflicts
      BY DEF OnCheckServer
<1>2. PICK k \in DOMAIN order :
        /\ order[k].ticket = t /\ order[k].op.kind = "upload"
        /\ order[k].phase \in {"starting", "here"}
        /\ order[k].phase = "starting" => "checkServer" = "checkServer"
      BY <1>1, CallStart DEF Holders
<1>3. Works(b, order, conflicts, pending, entry.watch, {t}) /\ Free(t, b, conflicts)
      BY <1>1, CallStart DEF Holders
<1>4. OrderOK(order)
      BY <1>3 DEF Works
<1>5. u = order[k].op
      BY <1>2, <1>4, OpAt
<1>6. order' = SetOp(t, "here", <<>>) /\ DOMAIN <<>> \cap Reserved = {}
      BY NoSeq DEF OnCheckServer
<1>7. PICK d, n : One(d, n) /\ n.ticket = t /\ n.do \in Holders /\ n.do # "leave" /\ agenda' = d \o b
      <2> DEFINE here == IsWatched(u) /\ ~MovedAway(pending, u.path)
                 gone == here /\ IsGoneLocally(u.path)
                 other == here /\ ~gone /\ (IsDirectoryLocally(u.path) # u.dir
                                              \/ HasOtherKindInTheWay(u.path, IsDirectoryLocally(u.path)))
                 compares == IsWatched(u) /\ "check" \in options /\ u.check
                 changed == server[u.dst] # Gone /\ ~Has(known, u.path)
                 d == IF gone THEN <<Finish(t, "notUploaded"), Deleted(u.path)>>
                      ELSE IF other THEN <<Finish(t, "notUploaded")>>
                      ELSE IF ~compares THEN <<Enqueue(t, FALSE, Gone)>>
                      ELSE IF ~u.dir THEN <<Enqueue(t, TRUE, FileState(known, u.path))>>
                      ELSE IF changed THEN <<Ask(t)>>
                      ELSE <<Enqueue(t, FALSE, Gone)>>
      <2>1. Then(d) \/ Then(<<Ask(t)>>)
            BY DEF OnCheckServer
      <2> HIDE DEF here, gone, other, compares, changed
      <2> HIDE DEF t, u
      <2>2. /\ One(<<Finish(t, "notUploaded"), Deleted(u.path)>>, Finish(t, "notUploaded"))
            /\ One(<<Finish(t, "notUploaded")>>, Finish(t, "notUploaded"))
            /\ \A x, y : One(<<Enqueue(t, x, y)>>, Enqueue(t, x, y))
            /\ One(<<Ask(t)>>, Ask(t))
            <3>1. /\ Names(Finish(t, "notUploaded")) /\ Names(Ask(t)) /\ \A x, y : Names(Enqueue(t, x, y))
                  /\ ~Names(Deleted(u.path))
                  BY CallsNaming, CallsNotNaming
            <3>2. One(<<Finish(t, "notUploaded"), Deleted(u.path)>>, Finish(t, "notUploaded"))
                  BY <3>1, PairCalls
            <3>3. QED
                  BY <3>1, <3>2, QuietCalls
      <2>3. /\ \A x : Finish(t, x).ticket = t /\ Finish(t, x).do = "finish"
            /\ \A x, y : Enqueue(t, x, y).ticket = t /\ Enqueue(t, x, y).do = "enqueue"
            /\ Ask(t).ticket = t /\ Ask(t).do = "ask"
            BY CallsNaming
      <2>4. \E n : One(d, n) /\ n.ticket = t /\ n.do \in Holders /\ n.do # "leave"
            BY <2>2, <2>3 DEF Holders
      <2> HIDE DEF d
      <2>5. CASE Then(d)
            BY <2>4, <2>5 DEF Then
      <2>6. CASE Then(<<Ask(t)>>)
            BY <2>2, <2>3, <2>6 DEF Then, Holders
      <2>7. QED
            BY <2>1, <2>5, <2>6
<1>8. \A s \in DOMAIN pending' : s \in DOMAIN pending \/ IsUploadOf(order[k], entry.watch, s)
      <2> DEFINE change == [path |-> u.path, dir |-> IsDirectoryLocally(u.path)]
      <2>1. pending' = pending \/ (IsWatched(u) /\ pending' = StartPending(pending, change))
            BY DEF OnCheckServer
      <2>2. IsWatched(u) => IsUploadOf(order[k], entry.watch, u.path)
            BY <1>2, <1>5 DEF IsWatched, IsUploadOf
      <2>3. change.path = u.path
            OBVIOUS
      <2> HIDE DEF change, u
      <2>4. DOMAIN StartPending(pending, change) \subseteq DOMAIN pending \cup {u.path}
            BY <2>3, StartPendingDomain
      <2>5. QED
            BY <2>1, <2>2, <2>4
<1>9. Started(order[k])
      BY <1>2 DEF Started, Unstarted
<1> HIDE DEF b, t, u
<1>10. \A s \in DOMAIN pending' :
         \/ s \in DOMAIN pending /\ (n.do = "leave" => ~IsUploadOf(order[k], entry.watch, s))
         \/ n.do # "leave" /\ IsUploadOf(order[k], entry.watch, s)
       BY <1>7, <1>8
<1>11. QED
       BY <1>1, <1>2, <1>3, <1>6, <1>7, <1>9, <1>10, HereStep

LEMMA AskStep ==
  ASSUME TurnInv, OnAsk
  PROVE  TurnInv'
<1> DEFINE b == Tail(agenda)
           t == Call.ticket
<1>1. Calls("ask") /\ entry' = entry /\ pending' = pending
      BY DEF OnAsk
<1>2. PICK k \in DOMAIN order :
        /\ order[k].ticket = t /\ order[k].op.kind = "upload"
        /\ order[k].phase \in {"starting", "here"}
        /\ order[k].phase = "starting" => "ask" = "checkServer"
      BY <1>1, CallStart DEF Holders
<1>3. Works(b, order, conflicts, pending, entry.watch, {t}) /\ Free(t, b, conflicts)
      BY <1>1, CallStart DEF Holders
<1>4. OrderOK(order) /\ IsSeq(b)
      BY <1>3 DEF Works
<1>5. order' = SetOp(t, "here", <<>>) /\ DOMAIN <<>> \cap Reserved = {}
      BY NoSeq DEF OnAsk
<1>6. Started(order[k])
      BY <1>2 DEF Started, Unstarted
<1>7. /\ agenda' = NoConflict(t) \o b
      /\ conflicts' = IF NoConflict(t) = <<>> THEN Append(conflicts, t) ELSE conflicts
      BY DEF OnAsk, Then
<1> HIDE DEF b, t
<1>8. CASE NoConflict(t) = <<>>
      <2>1. Moves(order, order', {t}) /\ order'[k].phase = "here" /\ DOMAIN order' = DOMAIN order
            BY <1>2, <1>4, <1>5, <1>6, HereMoves
      <2>2. Works(b, order', conflicts, pending, entry.watch, {t} \cup {t})
            BY <1>3, <2>1, MovesWorks
      <2>3. {t} \cup {t} = {t}
            OBVIOUS
      <2>4. order'[k].ticket = t /\ order'[k].op.kind = "upload"
            BY <1>2, <2>1 DEF Moves
      <2>5. Works(b, order', Append(conflicts, t), pending, entry.watch, {})
            BY <1>3, <2>1, <2>2, <2>3, <2>4, AskWorks
      <2>6. agenda' = b
            BY <1>4, <1>7, <1>8, NoSeq
      <2>7. QED
            BY <1>1, <1>7, <1>8, <2>5, <2>6, Working
<1>9. CASE NoConflict(t) # <<>>
      <2> DEFINE n == Finish(t, "notUploaded")
      <2>1. One(NoConflict(t), n) /\ n.ticket = t /\ n.do = "finish"
            BY <1>9, NoConflictCalls, CallsNaming
      <2> HIDE DEF n
      <2>2. conflicts' = conflicts
            BY <1>7, <1>9
      <2>3. QED
            BY <1>1, <1>2, <1>3, <1>5, <1>6, <1>7, <2>1, <2>2, HereStep
<1>10. QED
       BY <1>8, <1>9

LEMMA EnqueueStep ==
  ASSUME TurnInv, OnEnqueue
  PROVE  TurnInv'
<1> DEFINE b == Tail(agenda)
           t == Call.ticket
           u == Op(t)
           goes == IsWatched(u) /\ ~MovedAway(pending, u.path)
           fields == [compares |-> Call.compares, expected |-> Call.expected, create |-> u.path # entry.local]
<1>1. Calls("enqueue") /\ entry' = entry /\ conflicts' = conflicts
      BY DEF OnEnqueue
<1>2. PICK k \in DOMAIN order :
        /\ order[k].ticket = t /\ order[k].op.kind = "upload"
        /\ order[k].phase \in {"starting", "here"}
        /\ order[k].phase = "starting" => "enqueue" = "checkServer"
      BY <1>1, CallStart DEF Holders
<1>3. Works(b, order, conflicts, pending, entry.watch, {t}) /\ Free(t, b, conflicts)
      BY <1>1, CallStart DEF Holders
<1>4. OrderOK(order) /\ IsSeq(b)
      BY <1>3 DEF Works
<1>5. Started(order[k])
      BY <1>2 DEF Started, Unstarted
<1>6. /\ order' = IF goes THEN SetOp(t, "sent", fields) ELSE order
      /\ Then(IF goes THEN <<>> ELSE <<Finish(t, "notUploaded")>>)
      /\ pending' = IF goes THEN Sent(ChangesHandled(pending, u.path), u.path, u.dst, u.dir) ELSE pending
      BY DEF OnEnqueue
<1>7. DOMAIN fields \cap Reserved = {}
      BY DEF Reserved
<1> HIDE DEF goes, fields, u, t
<1>8. DOMAIN pending' = DOMAIN pending
      BY <1>6, PendingDomains
<1>9. agenda' = (IF goes THEN <<>> ELSE <<Finish(t, "notUploaded")>>) \o b
      BY <1>6 DEF Then
<1> HIDE DEF b
<1>10. CASE goes
       <2>1. agenda' = b
             BY <1>4, <1>9, <1>10, NoSeq
       <2>2. "sent" \in Away \cup {"here"}
             BY DEF Away
       <2>3. order' = SetOp(t, "sent", fields)
             BY <1>6, <1>10
       <2>4. Moves(order, order', {t}) /\ order'[k].phase = "sent"
             BY <1>2, <1>4, <1>5, <1>7, <2>2, <2>3, SetOpMoves
       <2>5. Works(b, order', conflicts, pending, entry.watch, {t} \cup {t})
             BY <1>3, <2>4, MovesWorks
       <2>6. {t} \cup {t} = {t}
             OBVIOUS
       <2>7. Works(b, order', conflicts, pending, entry.watch, {t})
             BY <2>5, <2>6
       <2>8. OrderOK(order') /\ Held(b, order', conflicts, {t})
             BY <2>7 DEF Works
       <2>9. k \in DOMAIN order' /\ order'[k].ticket = t
             BY <1>2, <2>4 DEF Moves
       <2>10. \A i \in DOMAIN order' : order'[i].ticket = t => i = k
              BY <2>8, <2>9, PlaceFound
       <2>11. Held(b, order', conflicts, {})
              BY <2>4, <2>8, <2>10 DEF Held
       <2>12. Works(b, order', conflicts, pending, entry.watch, {})
              BY <2>7, <2>11 DEF Works
       <2>13. Works(b, order', conflicts, pending', entry.watch, {})
              BY <1>8, <2>12, PendingWorks
       <2>14. QED
              BY <1>1, <2>1, <2>13, Working
<1>11. CASE ~goes
       <2> DEFINE n == Finish(t, "notUploaded")
       <2>1. agenda' = <<n>> \o b
             BY <1>9, <1>11
       <2>2. One(<<n>>, n) /\ n.ticket = t /\ n.do = "finish"
             BY QuietCalls, CallsNaming
       <2> HIDE DEF n
       <2>3. order' = order /\ order[k].phase = "here"
             BY <1>2, <1>6, <1>11
       <2>4. QED
             BY <1>1, <1>2, <1>3, <1>8, <2>1, <2>2, <2>3, TurnStep
<1>12. QED
       BY <1>10, <1>11

\* The user answers.
LEMMA AnswerStart ==
  ASSUME TurnInv, NEW t, Idle, Contains(conflicts, t), conflicts' = RemoveAt(conflicts, Asked(t))
  PROVE  /\ Works(<<>>, order, conflicts', pending, entry.watch, {t}) /\ Free(t, <<>>, conflicts')
         /\ \E k \in DOMAIN order : order[k].ticket = t /\ order[k].phase = "here" /\ order[k].op.kind = "upload"
<1>1. Works(<<>>, order, conflicts, pending, entry.watch, {})
      BY IdleStart
<1>2. IsSeq(conflicts)
      BY <1>1 DEF Works
<1>3. \E i \in DOMAIN conflicts : conflicts[i] = t
      BY <1>2, SeqDomain DEF Contains
<1>4. Asked(t) \in DOMAIN conflicts /\ conflicts[Asked(t)] = t
      BY <1>3 DEF Asked
<1>5. {} \cup {t} = {t}
      OBVIOUS
<1>6. /\ Works(<<>>, order, RemoveAt(conflicts, Asked(t)), pending, entry.watch, {} \cup {conflicts[Asked(t)]})
      /\ Free(conflicts[Asked(t)], <<>>, RemoveAt(conflicts, Asked(t)))
      /\ \E k \in DOMAIN order : /\ order[k].ticket = conflicts[Asked(t)] /\ order[k].phase = "here"
                                 /\ order[k].op.kind = "upload"
      BY <1>1, <1>4, AnswerWorks
<1>7. QED
      BY <1>4, <1>5, <1>6

LEMMA AnswerSteps ==
  ASSUME TurnInv, NEW t, AnswerReplace(t) \/ AnswerKeep(t)
  PROVE  TurnInv'
<1>1. Idle /\ Contains(conflicts, t) /\ conflicts' = RemoveAt(conflicts, Asked(t)) /\ entry' = entry
      BY DEF AnswerReplace, AnswerKeep
<1>2. Works(<<>>, order, conflicts', pending, entry.watch, {t}) /\ Free(t, <<>>, conflicts')
      BY <1>1, AnswerStart
<1>3. PICK k \in DOMAIN order : order[k].ticket = t /\ order[k].phase = "here" /\ order[k].op.kind = "upload"
      BY <1>1, AnswerStart
<1>4. Started(order[k])
      BY <1>3 DEF Started, Unstarted
<1>5. ASSUME AnswerReplace(t), NoConflict(t) = <<>> PROVE TurnInv'
      <2> DEFINE n == CheckServer(t)
                 d == <<n>>
                 fields == [check |-> FALSE]
      <2>1. order' = SetOp(t, "here", fields) /\ agenda' = d /\ pending' = pending
            BY <1>5 DEF AnswerReplace
      <2>2. One(d, n) /\ n.ticket = t /\ n.do = "checkServer"
            BY QuietCalls, CallsNaming
      <2>3. DOMAIN fields \cap Reserved = {}
            BY DEF Reserved
      <2> HIDE DEF n, d, fields
      <2>4. agenda' = d \o <<>>
            BY <2>1, <2>2, NoSeq DEF One
      <2>5. {t} \subseteq {t}
            OBVIOUS
      <2>6. QED
            BY <1>1, <1>2, <1>3, <1>4, <2>1, <2>2, <2>3, <2>4, <2>5, HereStep
<1>6. ASSUME AnswerReplace(t), NoConflict(t) # <<>> PROVE TurnInv'
      <2> DEFINE n == Finish(t, "notUploaded")
      <2>1. order' = order /\ agenda' = NoConflict(t) /\ pending' = pending
            BY <1>6 DEF AnswerReplace
      <2>2. One(NoConflict(t), n) /\ n.ticket = t /\ n.do = "finish"
            BY <1>6, NoConflictCalls, CallsNaming
      <2> HIDE DEF n
      <2>3. agenda' = NoConflict(t) \o <<>>
            BY <2>1, <2>2, NoSeq DEF One
      <2>4. QED
            BY <1>1, <1>2, <1>3, <2>1, <2>2, <2>3, TurnStep
<1>7. ASSUME AnswerKeep(t) PROVE TurnInv'
      <2> DEFINE n == Finish(t, "declined")
                 d == <<n>>
      <2>1. order' = order /\ agenda' = d
            BY <1>7 DEF AnswerKeep
      <2>2. One(d, n) /\ n.ticket = t /\ n.do = "finish"
            BY QuietCalls, CallsNaming
      <2> HIDE DEF n, d
      <2>3. agenda' = d \o <<>>
            BY <2>1, <2>2, NoSeq DEF One
      <2>4. DOMAIN pending' = DOMAIN pending
            BY <1>7, PendingDomains DEF AnswerKeep
      <2>5. QED
            BY <1>1, <1>2, <1>3, <2>1, <2>2, <2>3, <2>4, TurnStep
<1>8. QED
      BY <1>5, <1>6, <1>7

\* An operation ended: it is in the tracker's hands again.
LEMMA EndedStart ==
  ASSUME TurnInv, NEW t, Idle, NEW kind, IsAt(t, "ended", kind)
  PROVE  /\ Works(<<>>, order, conflicts, pending, entry.watch, {}) /\ Free(t, <<>>, conflicts)
         /\ \E k \in DOMAIN order : order[k].ticket = t /\ Started(order[k]) /\ order[k].op.kind = kind
<1>1. Works(<<>>, order, conflicts, pending, entry.watch, {})
      BY IdleStart
<1>2. OrderOK(order) /\ Turns(<<>>, order, conflicts) /\ DOMAIN <<>> = {}
      BY <1>1, NoSeq DEF Works
<1>3. PICK k \in DOMAIN order : order[k].ticket = t /\ order[k].phase = "ended" /\ order[k].op.kind = kind
      BY DEF IsAt
<1>4. \A i \in DOMAIN order : order[i].ticket = t => i = k
      BY <1>2, <1>3, PlaceFound
<1>5. \A i \in DOMAIN conflicts : conflicts[i] # t
      BY <1>2, <1>3, <1>4 DEF Turns
<1>6. Started(order[k])
      BY <1>3 DEF Started, Unstarted
<1>7. QED
      BY <1>1, <1>2, <1>3, <1>5, <1>6 DEF Free

LEMMA UploadEndedStep ==
  ASSUME TurnInv, NEW t, OnUploadEnded(t)
  PROVE  TurnInv'
<1>1. Idle /\ IsAt(t, "ended", "upload") /\ entry' = entry /\ conflicts' = conflicts /\ pending' = pending
      BY DEF OnUploadEnded
<1>2. Works(<<>>, order, conflicts, pending, entry.watch, {}) /\ Free(t, <<>>, conflicts)
      BY <1>1, EndedStart
<1>3. PICK k \in DOMAIN order : order[k].ticket = t /\ Started(order[k]) /\ order[k].op.kind = "upload"
      BY <1>1, EndedStart
<1>4. order' = SetOp(t, "here", <<>>) /\ DOMAIN <<>> \cap Reserved = {}
      BY NoSeq DEF OnUploadEnded
<1>5. \E d, n : One(d, n) /\ n.ticket = t /\ n.do # "leave" /\ agenda' = d
      <2>1. \/ agenda' = <<IF "check" \in options THEN Ask(t) ELSE Enqueue(t, FALSE, Gone)>>
            \/ \E q : Quiet(q) /\ agenda' = q \o <<Finish(t, "notUploaded")>>
            \/ \E q : Quiet(q) /\ agenda' = q \o <<Finish(t, "uploaded")>>
            <3> DEFINE u == Op(t)
            <3>1. \/ agenda' = <<IF "check" \in options THEN Ask(t) ELSE Enqueue(t, FALSE, Gone)>>
                  \/ agenda' = (IF ~IsWatched(u) /\ ~u.dir THEN <<Discard(u.dst)>> ELSE <<>>)
                                 \o <<Finish(t, "notUploaded")>>
                  \/ \E states : agenda' = (IF u.dir THEN MovedAwayTo(states, u.path) ELSE <<>>)
                                             \o <<Finish(t, "uploaded")>>
                  BY DEF OnUploadEnded
            <3>2. Quiet(IF ~IsWatched(u) /\ ~u.dir THEN <<Discard(u.dst)>> ELSE <<>>)
                  BY QuietCalls, CallsNotNaming
            <3>3. \A states : Quiet(IF u.dir THEN MovedAwayTo(states, u.path) ELSE <<>>)
                  BY QuietCalls, QuietLists
            <3>4. QED
                  BY <3>1, <3>2, <3>3
      <2>2. /\ One(<<Finish(t, "notUploaded")>>, Finish(t, "notUploaded"))
            /\ One(<<Finish(t, "uploaded")>>, Finish(t, "uploaded"))
            /\ One(<<Enqueue(t, FALSE, Gone)>>, Enqueue(t, FALSE, Gone))
            /\ One(<<Ask(t)>>, Ask(t))
            BY QuietCalls, CallsNaming
      <2>3. /\ \A x : Finish(t, x).ticket = t /\ Finish(t, x).do = "finish"
            /\ \A x, y : Enqueue(t, x, y).ticket = t /\ Enqueue(t, x, y).do = "enqueue"
            /\ Ask(t).ticket = t /\ Ask(t).do = "ask"
            BY CallsNaming
      <2>4. \A q : Quiet(q) => /\ One(q \o <<Finish(t, "notUploaded")>>, Finish(t, "notUploaded"))
                               /\ One(q \o <<Finish(t, "uploaded")>>, Finish(t, "uploaded"))
            BY <2>2, QuietConcat
      <2>5. CASE agenda' = <<IF "check" \in options THEN Ask(t) ELSE Enqueue(t, FALSE, Gone)>>
            BY <2>2, <2>3, <2>5
      <2>6. CASE \E q : Quiet(q) /\ agenda' = q \o <<Finish(t, "notUploaded")>>
            BY <2>3, <2>4, <2>6
      <2>7. CASE \E q : Quiet(q) /\ agenda' = q \o <<Finish(t, "uploaded")>>
            BY <2>3, <2>4, <2>7
      <2>8. QED
            BY <2>1, <2>5, <2>6, <2>7
<1>6. PICK d, n : One(d, n) /\ n.ticket = t /\ n.do # "leave" /\ agenda' = d
      BY <1>5
<1>7. agenda' = d \o <<>> /\ {} \subseteq {t}
      BY <1>6, NoSeq DEF One
<1>8. QED
      BY <1>1, <1>2, <1>3, <1>4, <1>6, <1>7, HereStep

LEMMA OthersEndedStep ==
  ASSUME TurnInv, NEW t, OnRenameEnded(t) \/ OnOtherEnded(t)
  PROVE  TurnInv'
<1>1. PICK kind \in {"rename", "remove", "discard"} : Idle /\ IsAt(t, "ended", kind)
      BY DEF OnRenameEnded, OnOtherEnded
<1>2. entry' = entry /\ conflicts' = conflicts /\ pending' = pending
      BY DEF OnRenameEnded, OnOtherEnded, tracker
<1>3. Works(<<>>, order, conflicts, pending, entry.watch, {}) /\ Free(t, <<>>, conflicts)
      BY <1>1, EndedStart
<1>4. PICK k \in DOMAIN order : order[k].ticket = t /\ Started(order[k]) /\ order[k].op.kind = kind
      BY <1>1, EndedStart
<1>5. order' = SetOp(t, "here", <<>>) /\ DOMAIN <<>> \cap Reserved = {}
      BY NoSeq DEF OnRenameEnded, OnOtherEnded
<1> DEFINE n == Leave(t)
<1>6. \E d : One(d, n) /\ agenda' = d
      <2>1. \/ agenda' = <<n>>
            \/ \E q : Quiet(q) /\ agenda' = q \o <<n>>
            BY QuietCalls, CallsNotNaming DEF OnRenameEnded, OnOtherEnded
      <2>2. One(<<n>>, n)
            BY QuietCalls, CallsNaming
      <2>3. QED
            BY <2>1, <2>2, QuietConcat
<1>7. PICK d : One(d, n) /\ agenda' = d
      BY <1>6
<1>8. n.ticket = t /\ n.do = "leave" /\ ~(n.do \in Holders)
      BY CallsNaming DEF Holders
<1> HIDE DEF n
<1>9. agenda' = d \o <<>> /\ {} \subseteq {t}
      BY <1>7, NoSeq DEF One
<1>10. \A s : ~IsUploadOf(order[k], entry.watch, s)
       BY <1>1, <1>4 DEF IsUploadOf
<1>11. QED
       BY <1>2, <1>3, <1>4, <1>5, <1>7, <1>8, <1>9, <1>10, HereStep

\* finishUpload() ends with the call that leaves the order, after calls that name no operation; a move
\* may enter.
LEMMA FinishMovedCalls ==
  ASSUME NEW t, NEW outcome, NEW fin, NEW serverPath, NEW serverDst, NEW partial,
         FinishMoved(t, outcome, fin, serverPath, serverDst, partial)
  PROVE  /\ \E q : Quiet(q) /\ agenda' = (q \o <<Leave(t)>>) \o Tail(agenda)
         /\ \/ order' = order
            \/ \E paths, op : IsOp(op) /\ op.kind # "upload" /\ order' = Entering(order, paths, op)
<1> DEFINE u == Op(t)
           to == fin.movedTo
           inPlace == serverPath = to
           renames == /\ ~inPlace
                      /\ outcome = "uploaded" \/ Has(known, serverPath)
                      /\ "move" \in options
           again == outcome = "notUploaded" \/ fin.again
           renamed == inPlace \/ renames
           continued == IF again /\ ~fin.again THEN partial ELSE Nowhere
           check == outcome = "declined" \/ (~renamed /\ outcome # "uploaded")
           p == IF continued = Nowhere THEN DiscardIf(partial) ELSE <<>>
           q == IF again THEN <<QueueUpload(to, u.dir, RemotePathOf(to), check, continued)>> ELSE BelowChanges(fin)
           op == [kind |-> "rename", watch |-> entry.watch, from |-> serverDst, to |-> RemotePathOf(to), path |-> to]
           paths == {serverDst, RemotePathOf(to)}
<1>1. /\ order' = IF renames THEN Entering(order, paths, op) ELSE order
      /\ Then(p \o q \o <<Leave(t)>>)
      BY DEF FinishMoved
<1>2. IsOp(op) /\ op.kind # "upload"
      BY DEF IsOp
<1> HIDE DEF op, paths, renames, again, renamed, continued, check, inPlace
<1>3. Quiet(p) /\ Quiet(q)
      BY QuietCalls, CallsNotNaming, QuietLists
<1> HIDE DEF p, q
<1>4. Quiet(p \o q)
      BY <1>3, QuietConcat
<1>5. agenda' = ((p \o q) \o <<Leave(t)>>) \o Tail(agenda)
      BY <1>1 DEF Then
<1>6. \/ order' = order
      \/ \E ps, x : IsOp(x) /\ x.kind # "upload" /\ order' = Entering(order, ps, x)
      BY <1>1, <1>2
<1>7. QED
      BY <1>4, <1>5, <1>6

LEMMA FollowUpCalls ==
  ASSUME NEW t, NEW outcome, FollowUp(t, outcome)
  PROVE  /\ pending' = Without(pending, {Op(t).path})
         /\ \E q : Quiet(q) /\ agenda' = (q \o <<Leave(t)>>) \o Tail(agenda)
         /\ \/ order' = order
            \/ \E paths, op : IsOp(op) /\ op.kind # "upload" /\ order' = Entering(order, paths, op)
<1> DEFINE u == Op(t)
           fin == Finished(pending, u.path)
           serverPath == IF fin.copyAt # Nowhere THEN fin.copyAt ELSE u.path
           serverDst == IF fin.copyAt # Nowhere THEN RemotePathOf(serverPath) ELSE u.dst
           partial == KeptPartialOf(u, outcome, fin)
           nowAt == IF fin.movedTo # Nowhere THEN fin.movedTo ELSE u.path
           backUnsent == outcome # "uploaded" /\ ~IsGoneLocally(nowAt)
           goes == fin.gone /\ ~IsThereAgain(serverPath) /\ ~backUnsent
           again == fin.again \/ fin.gone
           c1 == DiscardIf(partial)
           c2 == IF Has(known, serverPath) THEN RemoveKnownTree(known, serverPath)
                 ELSE IF outcome = "uploaded" THEN <<RemoveRemote(serverPath, serverDst)>> ELSE <<>>
           d1 == IF again /\ HasOtherKindInTheWay(serverPath, fin.dir) THEN RemoveKnownTree(known, serverPath) ELSE <<>>
           d2 == IF again THEN <<QueueUpload(u.path, fin.dir, u.dst, u.check, Nowhere)>> ELSE <<>>
           d3 == DiscardIf(partial)
           d4 == BelowChanges(fin)
<1>1. /\ pending' = Without(pending, {Op(t).path})
      /\ \/ Then(c1 \o c2 \o <<Leave(t)>>) /\ order' = order
         \/ FinishMoved(t, outcome, [fin EXCEPT !.again = again], serverPath, serverDst, partial)
         \/ Then(d1 \o d2 \o d3 \o d4 \o <<Leave(t)>>) /\ order' = order
      BY DEF FollowUp
<1> HIDE DEF fin, serverPath, serverDst, partial, nowAt, backUnsent, goes, again
<1>2. Quiet(c1) /\ Quiet(c2) /\ Quiet(d1) /\ Quiet(d2) /\ Quiet(d3) /\ Quiet(d4)
      BY QuietCalls, CallsNotNaming, QuietLists
<1> HIDE DEF c1, c2, d1, d2, d3, d4
<1>3. ASSUME Then(c1 \o c2 \o <<Leave(t)>>)
      PROVE  \E q : Quiet(q) /\ agenda' = (q \o <<Leave(t)>>) \o Tail(agenda)
      <2>1. Quiet(c1 \o c2)
            BY <1>2, QuietConcat
      <2>2. agenda' = ((c1 \o c2) \o <<Leave(t)>>) \o Tail(agenda)
            BY <1>3 DEF Then
      <2>3. QED
            BY <2>1, <2>2
<1>4. ASSUME Then(d1 \o d2 \o d3 \o d4 \o <<Leave(t)>>)
      PROVE  \E q : Quiet(q) /\ agenda' = (q \o <<Leave(t)>>) \o Tail(agenda)
      <2>1. Quiet(d1 \o d2)
            BY <1>2, QuietConcat
      <2>2. Quiet((d1 \o d2) \o d3)
            BY <1>2, <2>1, QuietConcat
      <2>3. Quiet(((d1 \o d2) \o d3) \o d4)
            BY <1>2, <2>2, QuietConcat
      <2>4. agenda' = ((((d1 \o d2) \o d3) \o d4) \o <<Leave(t)>>) \o Tail(agenda)
            BY <1>4 DEF Then
      <2>5. QED
            BY <2>3, <2>4
<1>5. ASSUME FinishMoved(t, outcome, [fin EXCEPT !.again = again], serverPath, serverDst, partial)
      PROVE  /\ \E q : Quiet(q) /\ agenda' = (q \o <<Leave(t)>>) \o Tail(agenda)
             /\ \/ order' = order
                \/ \E paths, op : IsOp(op) /\ op.kind # "upload" /\ order' = Entering(order, paths, op)
      BY <1>5, FinishMovedCalls
<1>6. QED
      BY <1>1, <1>3, <1>4, <1>5

LEMMA FinishStep ==
  ASSUME TurnInv, OnFinish
  PROVE  TurnInv'
<1> DEFINE b == Tail(agenda)
           t == Call.ticket
           n == Leave(t)
<1>1. Calls("finish") /\ entry' = entry /\ conflicts' = conflicts
      BY DEF OnFinish
<1>2. PICK k \in DOMAIN order :
        /\ order[k].ticket = t /\ order[k].op.kind = "upload"
        /\ order[k].phase \in {"starting", "here"}
        /\ order[k].phase = "starting" => "finish" = "checkServer"
      BY <1>1, CallStart DEF Holders
<1>3. Works(b, order, conflicts, pending, entry.watch, {t}) /\ Free(t, b, conflicts)
      BY <1>1, CallStart DEF Holders
<1>4. OrderOK(order) /\ IsSeq(b)
      BY <1>3 DEF Works
<1>5. Op(t) = order[k].op
      BY <1>2, <1>4, OpAt
<1>6. One(<<n>>, n) /\ n.ticket = t /\ n.do = "leave" /\ ~(n.do \in Holders)
      BY QuietCalls, CallsNaming DEF Holders
<1>7. \/ \E outcome : IsWatched(Op(t)) /\ FollowUp(t, outcome)
      \/ ~IsWatched(Op(t)) /\ agenda' = <<n>> \o b /\ pending' = pending /\ order' = order
      BY DEF OnFinish, Then
<1> HIDE DEF n, t
<1>8. \E d : One(d, n) /\ agenda' = d \o b
      <2>1. \A outcome : FollowUp(t, outcome) => \E q : Quiet(q) /\ agenda' = (q \o <<n>>) \o b
            BY FollowUpCalls DEF n
      <2>2. \A q : Quiet(q) => One(q \o <<n>>, n)
            BY <1>6, QuietConcat
      <2> HIDE DEF b
      <2>3. QED
            BY <1>6, <1>7, <2>1, <2>2
<1>9. \/ order' = order
      \/ \E paths, op : IsOp(op) /\ op.kind # "upload" /\ order' = Entering(order, paths, op)
      BY <1>7, FollowUpCalls
<1>10. Works(b, order', conflicts, pending, entry.watch, {t}) /\ k \in DOMAIN order' /\ order'[k] = order[k]
       <2>1. CASE order' = order
             BY <1>3, <2>1
       <2>2. ASSUME NEW paths, NEW op, IsOp(op), op.kind # "upload", order' = Entering(order, paths, op)
             PROVE  Works(b, order', conflicts, pending, entry.watch, {t}) /\ k \in DOMAIN order' /\ order'[k] = order[k]
             <3>1. PICK m \in Nat :
                     /\ OrderOK(order') /\ DOMAIN order' = DOMAIN order \cup {m} /\ m \notin DOMAIN order
                     /\ \A j \in DOMAIN order : order'[j] = order[j]
                     /\ order'[m].ticket = NextTicket(order) /\ order'[m].op = op
                     /\ order'[m].phase \in {"waiting", "starting", "sent"}
                     /\ order'[m].phase = "starting" => op.kind = "upload"
                     /\ Last(order') = order'[m]
                   BY <1>4, <2>2, EnterOrder
             <3>2. Works(b, Entering(order, paths, op), conflicts, pending, entry.watch, {t})
                   BY <1>3, <2>2, EnterOther
             <3>3. QED
                   BY <1>2, <2>2, <3>1, <3>2
       <2>3. QED
             BY <1>9, <2>1, <2>2
<1>11. ASSUME NEW s \in DOMAIN pending' PROVE s \in DOMAIN pending /\ ~IsUploadOf(order'[k], entry.watch, s)
       <2>1. CASE ~IsWatched(Op(t)) /\ pending' = pending
             <3>1. order[k].op.watch # entry.watch
                   BY <1>5, <2>1 DEF IsWatched
             <3>2. QED
                   BY <1>10, <1>11, <2>1, <3>1 DEF IsUploadOf
       <2>2. CASE \E outcome : FollowUp(t, outcome)
             <3>1. pending' = Without(pending, {Op(t).path})
                   BY <2>2, FollowUpCalls
             <3>2. DOMAIN pending' = DOMAIN pending \ {Op(t).path}
                   <4>1. DOMAIN Without(pending, {Op(t).path}) = DOMAIN pending \ {Op(t).path}
                         BY DEF Without, Restrict
                   <4>2. QED
                         BY <3>1, <4>1
             <3>3. s # order[k].op.path /\ s \in DOMAIN pending
                   BY <1>5, <1>11, <3>2
             <3>4. QED
                   BY <1>10, <3>3 DEF IsUploadOf
       <2>3. QED
             BY <1>7, <2>1, <2>2
<1>12. order'[k].ticket = t /\ order'[k].phase = "here"
       BY <1>2, <1>10
<1>13. PICK d : One(d, n) /\ agenda' = d \o b
       BY <1>8
<1>14. QED
       BY <1>1, <1>3, <1>6, <1>10, <1>11, <1>12, <1>13, TurnStep

\* The watch ends: what the user was asked is declined, one call each.  What waited is dropped if the
\* connection was lost.
LEMMA StopStep ==
  ASSUME TurnInv, Stop
  PROVE  TurnInv'
<1> DEFINE c == [i \in DOMAIN conflicts |-> Leave(conflicts[i])]
<1>1. Works(<<>>, order, conflicts, pending, entry.watch, {})
      BY IdleStart DEF Stop
<1>2. OrderOK(order) /\ IsSeq(conflicts) /\ Held(<<>>, order, conflicts, {}) /\ Turns(<<>>, order, conflicts)
      BY <1>1 DEF Works
<1>3. agenda' = c \o <<>> /\ order' = order /\ conflicts' = <<>> /\ pending' = <<>>
      BY DEF Stop, EndWatch
<1>4. DOMAIN c = DOMAIN conflicts /\ \A i \in DOMAIN c : c[i] = Leave(conflicts[i])
      OBVIOUS
<1>5. IsSeq(c)
      <2>1. c = [i \in DOMAIN conflicts |-> c[i]]
            OBVIOUS
      <2> HIDE DEF c
      <2>2. QED
            BY <1>2, <1>4, <2>1, MapSeq
<1> HIDE DEF c
<1>6. agenda' = c
      BY <1>3, <1>5, NoSeq
<1>7. \A i \in DOMAIN c : c[i].do = "leave" /\ c[i].ticket = conflicts[i] /\ Names(c[i])
      BY <1>4, CallsNaming
<1>8. DOMAIN <<>> = {} /\ IsSeq(<<>>)
      BY NoSeq
<1>9. Held(c, order, <<>>, {})
      BY <1>2, <1>4, <1>7, <1>8 DEF Held
<1>10. Turns(c, order, <<>>)
       <2>1. \A i \in DOMAIN c : HasTurn(order, c[i].ticket, c[i].do)
             BY <1>2, <1>4, <1>7 DEF Turns, HasTurn, Holders
       <2>2. \A i, j \in DOMAIN c : i # j => c[i].ticket # c[j].ticket
             BY <1>2, <1>4, <1>7 DEF Turns
       <2>3. QED
             BY <1>2, <1>8, <2>1, <2>2 DEF Turns
<1>11. Recorded(c, order, <<>>, entry'.watch)
       BY <1>8 DEF Recorded
<1>12. QED
       BY <1>2, <1>3, <1>5, <1>6, <1>8, <1>9, <1>10, <1>11, Working DEF Works

LEMMA ConnectionLostStep ==
  ASSUME TurnInv, ConnectionLost
  PROVE  TurnInv'
<1> DEFINE c == [i \in DOMAIN conflicts |-> Leave(conflicts[i])]
           o2 == [i \in DOMAIN order |->
                    IF order[i].phase = "waiting" THEN [order[i] EXCEPT !.phase = "dropped"] ELSE order[i]]
<1>1. Works(<<>>, order, conflicts, pending, entry.watch, {})
      BY IdleStart DEF ConnectionLost
<1>2. OrderOK(order) /\ IsSeq(conflicts) /\ Held(<<>>, order, conflicts, {}) /\ Turns(<<>>, order, conflicts)
      BY <1>1 DEF Works
<1>3. order' = o2 /\ conflicts' = <<>> /\ pending' = <<>>
      BY DEF ConnectionLost, EndWatch
<1>4. PICK waiting \in Ascending(WaitingPlaces) :
        agenda' = c \o [i \in DOMAIN waiting |-> Leave(order[waiting[i]].ticket)]
      BY DEF ConnectionLost, EndWatch
<1> DEFINE d == [i \in DOMAIN waiting |-> Leave(order[waiting[i]].ticket)]
<1>5. DOMAIN c = DOMAIN conflicts /\ \A i \in DOMAIN c : c[i] = Leave(conflicts[i])
      OBVIOUS
<1>6. IsSeq(c)
      <2>1. c = [i \in DOMAIN conflicts |-> c[i]]
            OBVIOUS
      <2> HIDE DEF c
      <2>2. QED
            BY <1>2, <1>5, <2>1, MapSeq
<1>7. Len(order) \in Nat /\ DOMAIN order = 1..Len(order) /\ IsSeq(order) /\ \A i \in DOMAIN order : IsEntry(order[i])
      BY <1>2, SeqDomain DEF OrderOK
<1>8. /\ IsSeq(waiting) /\ \A i \in DOMAIN waiting : waiting[i] \in WaitingPlaces
      /\ \A x \in WaitingPlaces : \E i \in DOMAIN waiting : waiting[i] = x
      <2>1. IsFiniteSet(DOMAIN order)
            BY <1>7, FS_Interval
      <2>2. IsFiniteSet(WaitingPlaces)
            BY <2>1, FS_Subset DEF WaitingPlaces
      <2>3. QED
            BY <1>4, <2>2, AscendingSeq
<1>9. DOMAIN d = DOMAIN waiting /\ \A i \in DOMAIN d : d[i] = Leave(order[waiting[i]].ticket)
      OBVIOUS
<1>10. IsSeq(d)
      <2>1. d = [i \in DOMAIN waiting |-> d[i]]
            OBVIOUS
      <2> HIDE DEF d
      <2>2. QED
            BY <1>8, <1>9, <2>1, MapSeq
<1>11. agenda' = c \o d
       BY <1>4
<1> HIDE DEF c, d
<1>12. /\ IsSeq(agenda')
       /\ \A i \in DOMAIN agenda' : \/ i \in DOMAIN c /\ agenda'[i] = c[i]
                                    \/ i - Len(c) \in DOMAIN d /\ agenda'[i] = d[i - Len(c)] /\ i \notin DOMAIN c
       /\ \A i \in DOMAIN c : i \in DOMAIN agenda' /\ agenda'[i] = c[i]
       /\ \A i \in DOMAIN d : /\ i + Len(c) \in DOMAIN agenda' /\ agenda'[i + Len(c)] = d[i]
                              /\ i + Len(c) \notin DOMAIN c
       BY <1>6, <1>10, <1>11, ConcatSeq
<1>13. \A i \in DOMAIN agenda' : agenda'[i].do = "leave"
       BY <1>5, <1>9, <1>12, CallsNaming
<1>14. \A i \in DOMAIN conflicts : \E j \in DOMAIN agenda' : agenda'[j].do = "leave" /\ agenda'[j].ticket = conflicts[i]
       BY <1>5, <1>12, CallsNaming
<1>15. \A k \in WaitingPlaces :
         \E j \in DOMAIN agenda' : agenda'[j].do = "leave" /\ agenda'[j].ticket = order[k].ticket
       BY <1>8, <1>9, <1>12, CallsNaming
<1>16. DOMAIN o2 = DOMAIN order /\ IsSeq(o2)
       <2>1. DOMAIN o2 = DOMAIN order /\ o2 = [i \in DOMAIN order |-> o2[i]]
             OBVIOUS
       <2> HIDE DEF o2
       <2>2. QED
             BY <1>7, <2>1, MapSeq
<1>17. ASSUME NEW i \in DOMAIN order
       PROVE  /\ IsEntry(o2[i]) /\ o2[i].ticket = order[i].ticket /\ o2[i].paths = order[i].paths
              /\ o2[i].phase = IF i \in WaitingPlaces THEN "dropped" ELSE order[i].phase
              /\ i \in WaitingPlaces <=> order[i].phase = "waiting"
       <2>1. order[i] = [ticket |-> order[i].ticket, paths |-> order[i].paths, op |-> order[i].op,
                         phase |-> order[i].phase]
             BY <1>7 DEF IsEntry
       <2>2. i \in WaitingPlaces <=> order[i].phase = "waiting"
             BY DEF WaitingPlaces
       <2>3. CASE order[i].phase # "waiting"
             <3>1. o2[i] = order[i]
                   BY <2>3
             <3> HIDE DEF o2
             <3>2. QED
                   BY <1>7, <2>2, <2>3, <3>1
       <2>4. CASE order[i].phase = "waiting"
             <3>1. o2[i] = [ticket |-> order[i].ticket, paths |-> order[i].paths, op |-> order[i].op, phase |-> "dropped"]
                   BY <2>1, <2>4
             <3> HIDE DEF o2
             <3>2. /\ o2[i].ticket = order[i].ticket /\ o2[i].paths = order[i].paths /\ o2[i].op = order[i].op
                   /\ o2[i].phase = "dropped"
                   BY <3>1
             <3>3. IsEntry(o2[i])
                   <4>1. IsEntry(order[i]) /\ "dropped" \in Phases
                         BY <1>7 DEF Phases
                   <4>2. QED
                         BY <3>1, <3>2, <4>1 DEF IsEntry
             <3>4. QED
                   BY <2>2, <2>4, <3>2, <3>3
       <2>5. QED
             BY <2>3, <2>4
<1> HIDE DEF o2
<1>18. \A i \in DOMAIN order : Started(o2[i]) => Started(order[i])
       BY <1>17 DEF Started, Unstarted
<1>19. OrderOK(o2)
       <2>1. \A i \in DOMAIN o2 : IsEntry(o2[i]) /\ o2[i].phase # "waiting"
             BY <1>16, <1>17
       <2>2. QED
             BY <1>2, <1>16, <1>17, <1>18, <2>1 DEF OrderOK
<1>20. DOMAIN <<>> = {}
       BY NoSeq
<1>21. \A k \in DOMAIN order : /\ order[k].phase \notin {"dropped", "ending", "starting"}
                               /\ order[k].phase = "here" => \E i \in DOMAIN conflicts : conflicts[i] = order[k].ticket
       BY <1>2, <1>20 DEF Held
<1>22. Held(agenda', o2, <<>>, {})
       <2>1. ASSUME NEW k \in DOMAIN o2
             PROVE  /\ o2[k].phase # "starting"
                    /\ o2[k].phase \in {"here", "dropped", "ending"} =>
                         \E i \in DOMAIN agenda' : agenda'[i].do = "leave" /\ agenda'[i].ticket = o2[k].ticket
             <3>1. k \in DOMAIN order
                   BY <1>16
             <3>2. CASE k \in WaitingPlaces
                   BY <1>15, <1>17, <3>1, <3>2
             <3>3. CASE k \notin WaitingPlaces
                   <4>1. o2[k].phase = order[k].phase /\ o2[k].ticket = order[k].ticket
                         BY <1>17, <3>1, <3>3
                   <4>2. QED
                         BY <1>14, <1>21, <3>1, <4>1
             <3>4. QED
                   BY <3>2, <3>3
       <2>2. QED
             BY <2>1 DEF Held, Names
<1>23. Drains(agenda', o2, <<>>, <<>>)
       BY <1>13, <1>16, <1>17, <1>21 DEF Drains
<1>24. QED
       BY <1>3, <1>12, <1>19, <1>22, <1>23 DEF TurnInv, Ebbs

\* The item was moved: a stopped upload of it may be cancelled, a rename may follow.
LEMMA ItemMoved ==
  ASSUME Works(<<>>, order, conflicts, pending, entry.watch, {}), NEW to, OnItemMoved(to)
  PROVE  /\ Works(<<>>, order', conflicts, pending, entry.watch, {})
         /\ agenda' = <<>> /\ entry'.watch = entry.watch /\ DOMAIN pending' = DOMAIN pending
<1>1. agenda' = <<>> /\ entry'.watch = entry.watch
      BY DEF OnItemMoved
<1>2. DOMAIN pending' = DOMAIN pending
      <2>1. PICK stopped, from, back :
              /\ stopped = pending \/ \E q : stopped = KeepsPartial(pending, q)
              /\ pending' = MoveBelow(MoveWhenDone(stopped, from, to), from, back, TRUE)
            BY DEF OnItemMoved
      <2>2. DOMAIN stopped = DOMAIN pending
            BY <2>1, PendingDomains
      <2> DEFINE moved == MoveWhenDone(stopped, from, to)
      <2>3. DOMAIN moved = DOMAIN stopped
            BY PendingDomains
      <2>4. pending' = MoveBelow(moved, from, back, TRUE)
            BY <2>1
      <2> HIDE DEF moved
      <2>5. DOMAIN MoveBelow(moved, from, back, TRUE) = DOMAIN moved
            BY DEF MoveBelow
      <2>6. QED
            BY <2>2, <2>3, <2>4, <2>5
<1>3. PICK cancelled :
        /\ cancelled = order \/ \E dst : cancelled = Cancelled(order, dst, "kept")
        /\ \/ order' = cancelled
           \/ \E paths, from, dst :
                order' = Entering(cancelled, paths,
                                  [kind |-> "rename", watch |-> entry.watch, from |-> from, to |-> dst, path |-> to])
      BY DEF OnItemMoved
<1>4. Works(<<>>, cancelled, conflicts, pending, entry.watch, {})
      BY <1>3, CancelWorks
<1>5. ASSUME NEW from, NEW dst
      PROVE  LET op == [kind |-> "rename", watch |-> entry.watch, from |-> from, to |-> dst, path |-> to]
             IN IsOp(op) /\ op.kind # "upload"
      BY DEF IsOp
<1>6. Works(<<>>, order', conflicts, pending, entry.watch, {})
      BY <1>3, <1>4, <1>5, EnterOther
<1>7. QED
      BY <1>1, <1>2, <1>6

\* An entry below the item was moved, and its server copy follows.
LEMMA Renamed ==
  ASSUME Works(<<>>, order, conflicts, pending, entry.watch, {}), NEW from, NEW to, OnRenamed(from, to)
  PROVE  /\ Works(<<>>, order', conflicts, pending, entry.watch, {})
         /\ agenda' = <<>> /\ DOMAIN pending' = DOMAIN pending
<1>1. agenda' = <<>>
      BY DEF OnRenamed
<1>2. DOMAIN pending' = DOMAIN pending
      <2>1. \/ \E stopped : /\ stopped = pending \/ \E q : stopped = KeepsPartial(pending, q)
                            /\ pending' = MoveWhenDone(stopped, from, to)
            \/ \E follow : pending' = MoveBelow(pending, from, to, follow)
            BY DEF OnRenamed
      <2>2. CASE \E stopped : /\ stopped = pending \/ \E q : stopped = KeepsPartial(pending, q)
                              /\ pending' = MoveWhenDone(stopped, from, to)
            <3>1. PICK stopped : /\ stopped = pending \/ \E q : stopped = KeepsPartial(pending, q)
                                 /\ pending' = MoveWhenDone(stopped, from, to)
                  BY <2>2
            <3>2. DOMAIN stopped = DOMAIN pending
                  BY <3>1, PendingDomains
            <3>3. DOMAIN MoveWhenDone(stopped, from, to) = DOMAIN stopped
                  BY PendingDomains
            <3>4. QED
                  BY <3>1, <3>2, <3>3
      <2>3. CASE \E follow : pending' = MoveBelow(pending, from, to, follow)
            BY <2>3, PendingDomains
      <2>4. QED
            BY <2>1, <2>2, <2>3
<1>3. \/ order' = order
      \/ \E dst : order' = Cancelled(order, dst, "kept")
      \/ \E paths, source, dst :
           order' = Entering(order, paths,
                             [kind |-> "rename", watch |-> entry.watch, from |-> source, to |-> dst, path |-> to])
      BY DEF OnRenamed
<1>4. ASSUME NEW source, NEW dst
      PROVE  LET op == [kind |-> "rename", watch |-> entry.watch, from |-> source, to |-> dst, path |-> to]
             IN IsOp(op) /\ op.kind # "upload"
      BY DEF IsOp
<1>5. Works(<<>>, order', conflicts, pending, entry.watch, {})
      BY <1>3, <1>4, CancelWorks, EnterOther
<1>6. QED
      BY <1>1, <1>2, <1>5

\* The calls of a report.
LEMMA MissedCalls ==
  ASSUME NEW directory, OnMissed(directory)
  PROVE  Quiet(agenda')
<1> DEFINE scope == IF IsWithin(entry.local, directory) THEN entry.local ELSE directory
           gone == {p \in Paths(known) : IsBelow(p, scope) /\ IsGoneLocally(p)}
           topmost == SetToSortSeq({p \in gone : \A q \in gone : ~IsBelow(p, q)}, SortsBefore)
<1>1. agenda' = IF ~IsWithin(scope, entry.local) \/ IsGoneLocally(scope)
                THEN IF IsBelow(scope, entry.local) THEN <<Deleted(scope)>> ELSE <<>>
                ELSE ForEach(Deletions, topmost) \o <<LookAt(scope)>>
      BY DEF OnMissed
<1> HIDE DEF scope, topmost
<1>2. Quiet(<<Deleted(scope)>>) /\ Quiet(<<>>) /\ Quiet(<<LookAt(scope)>>) /\ Quiet(ForEach(Deletions, topmost))
      BY QuietCalls, CallsNotNaming, QuietLists
<1>3. Quiet(ForEach(Deletions, topmost) \o <<LookAt(scope)>>)
      BY <1>2, QuietConcat
<1>4. QED
      BY <1>1, <1>2, <1>3

LEMMA ReplacedCalls ==
  ASSUME NEW from, NEW to, NEW dir, OnReplaced(from, to, dir)
  PROVE  Quiet(agenda')
<1>1. PICK q : /\ q = <<>> \/ \E x, y : q = <<RemoveRemote(x, y)>>
               /\ agenda' = q \o <<ContentChanged(to, dir, TRUE)>>
      BY DEF OnReplaced
<1>2. Quiet(q) /\ Quiet(<<ContentChanged(to, dir, TRUE)>>)
      BY <1>1, QuietCalls, CallsNotNaming
<1>3. QED
      BY <1>1, <1>2, QuietConcat

\* The strand takes the next report of the watch.
LEMMA ChangeStep ==
  ASSUME TurnInv, OnChange
  PROVE  TurnInv'
<1>1. Works(<<>>, order, conflicts, pending, entry.watch, {}) /\ conflicts' = conflicts
      BY IdleStart DEF OnChange
<1> DEFINE e == Head(events)
<1>2. \/ OnMissed(e.path) /\ UNCHANGED <<entry, pending, order>>
      \/ OnItemMoved(e.path)
      \/ OnRenamed(e.old, e.path) /\ UNCHANGED entry
      \/ OnReplaced(e.old, e.path, e.dir) /\ UNCHANGED entry
      \/ /\ agenda' = <<IF e.action = "deleted" THEN Deleted(e.path) ELSE ContentChanged(e.path, e.dir, TRUE)>>
         /\ UNCHANGED <<entry, pending, order>>
      BY DEF OnChange
<1> HIDE DEF e
<1>3. ASSUME NEW c, Quiet(c), agenda' = c, Works(<<>>, order', conflicts, pending, entry.watch, {}),
             entry'.watch = entry.watch, DOMAIN pending' = DOMAIN pending
      PROVE  TurnInv'
      <2>1. agenda' = c \o <<>>
            BY <1>3, NoSeq DEF Quiet
      <2>2. QED
            BY <1>1, <1>3, <2>1, QuietStep
<1>4. CASE OnMissed(e.path) /\ UNCHANGED <<entry, pending, order>>
      BY <1>1, <1>3, <1>4, MissedCalls
<1>5. CASE OnItemMoved(e.path)
      BY <1>1, <1>3, <1>5, ItemMoved, QuietCalls
<1>6. CASE OnRenamed(e.old, e.path) /\ UNCHANGED entry
      BY <1>1, <1>3, <1>6, Renamed, QuietCalls
<1>7. CASE OnReplaced(e.old, e.path, e.dir) /\ UNCHANGED entry
      <2>1. pending' = pending \/ pending' = RemoveRemoteWhenDone(pending, e.old)
            BY <1>7 DEF OnReplaced
      <2>2. DOMAIN pending' = DOMAIN pending
            BY <2>1, PendingDomains
      <2>3. order' = order \/ \E dst : order' = Cancelled(order, dst, "discarded")
            BY <1>7 DEF OnReplaced
      <2>4. Works(<<>>, order', conflicts, pending, entry.watch, {})
            BY <1>1, <2>3, CancelWorks
      <2>5. QED
            BY <1>3, <1>7, <2>2, <2>4, ReplacedCalls
<1>8. CASE /\ agenda' = <<IF e.action = "deleted" THEN Deleted(e.path) ELSE ContentChanged(e.path, e.dir, TRUE)>>
           /\ UNCHANGED <<entry, pending, order>>
      <2>1. Quiet(agenda')
            BY <1>8, QuietCalls, CallsNotNaming
      <2>2. QED
            BY <1>1, <1>3, <1>8, <2>1
<1>9. QED
      BY <1>2, <1>4, <1>5, <1>6, <1>7, <1>8
--------------------------------------------------------------------------------
\* An operation on its way goes on or ends; the server's side is nothing the turns depend on.
LEMMA AwayStep ==
  ASSUME TurnInv, NEW t, NEW from \in Away, NEW kind, IsAt(t, from, kind), NEW ph \in Away, NEW fields,
         DOMAIN fields \cap Reserved = {}, Remotely(t, ph, fields)
  PROVE  TurnInv'
<1>1. OrderOK(order)
      BY DEF TurnInv, Works, Ebbs
<1>2. PICK k \in DOMAIN order : order[k].ticket = t /\ order[k].phase = from
      BY DEF IsAt
<1>3. order[k].phase \in Away /\ Started(order[k])
      BY <1>2 DEF Away, Started, Unstarted
<1>4. ph \in Away \cup {"here"}
      OBVIOUS
<1>5. Moves(order, SetOp(t, ph, fields), {})
      BY <1>1, <1>2, <1>3, <1>4, SetOpMoves
<1>6. order' = SetOp(t, ph, fields) /\ UNCHANGED <<agenda, conflicts, pending, entry>>
      BY DEF Remotely, tracker
<1>7. Moves(order, order', {})
      BY <1>5, <1>6
<1>8. CASE Works(agenda, order, conflicts, pending, entry.watch, {})
      <2>1. Works(agenda, order', conflicts, pending, entry.watch, {} \cup {})
            BY <1>7, <1>8, MovesWorks
      <2>2. {} \cup {} = {}
            OBVIOUS
      <2>3. QED
            BY <1>6, <2>1, <2>2, Working
<1>9. CASE Ebbs(agenda, order, conflicts, pending)
      <2>1. Ebbs(agenda, order', conflicts, pending)
            BY <1>7, <1>9, MovesEbbs
      <2>2. QED
            BY <1>6, <2>1 DEF TurnInv
<1>10. QED
       BY <1>8, <1>9 DEF TurnInv

LEMMA EndStep ==
  ASSUME TurnInv, NEW t, NEW from \in Away, NEW kind, IsAt(t, from, kind), NEW result, NEW fields,
         DOMAIN fields \cap Reserved = {}, Ends(t, result, fields)
  PROVE  TurnInv'
<1> DEFINE f == Over([result |-> result], fields)
<1>1. DOMAIN f \cap Reserved = {}
      <2>1. DOMAIN f = {"result"} \cup DOMAIN fields
            BY DEF Over
      <2>2. QED
            BY <2>1 DEF Reserved
<1>2. Remotely(t, "ended", f) /\ "ended" \in Away
      BY DEF Ends, Away
<1> HIDE DEF f
<1>3. QED
      BY <1>1, <1>2, AwayStep

LEMMA OperationSteps ==
  ASSUME TurnInv, Operations \/ \E t \in Tickets : UploadFails(t)
  PROVE  TurnInv'
<1>1. PICK t \in Tickets :
        \/ UploadStarts(t) \/ UploadChecks(t) \/ UploadReplaces(t) \/ UploadTold(t) \/ UploadCanceled(t)
        \/ UploadFails(t)
        \/ DirectoryUploadStarts(t) \/ DirectoryUploadEnds(t) \/ \E p \in Places : DirectoryUploadSends(t, p)
        \/ RemoteRenames(t) \/ RemoteRemoves(t) \/ RemoteDiscards(t)
      BY DEF Operations
<1>2. DOMAIN <<>> \cap Reserved = {}
      BY NoSeq
<1>3. {"sent", "running", "checked", "stat"} \subseteq Away /\ "ended" \in Away
      BY DEF Away
<1>4. ASSUME NEW from \in {"sent", "running", "checked", "stat"}, NEW kind, IsAt(t, from, kind),
             \/ \E result : Ends(t, result, <<>>)
             \/ \E result, state : Ends(t, result, [state |-> state])
             \/ \E ph \in Away : \E fields : Remotely(t, ph, fields) /\ DOMAIN fields \cap Reserved = {}
      PROVE  TurnInv'
      <2>1. \A state : DOMAIN [state |-> state] \cap Reserved = {}
            BY DEF Reserved
      <2>2. from \in Away
            BY <1>3
      <2>3. QED
            BY <1>2, <1>4, <2>1, <2>2, AwayStep, EndStep
<1>5. CASE UploadStarts(t)
      <2>1. ASSUME NEW alone, NEW r, NEW c,
                   Remotely(t, "running", [read |-> r, asDir |-> FALSE, alone |-> alone, cancel |-> "no", failed |-> {},
                                           continued |-> c])
            PROVE  \E ph \in Away : \E fields : Remotely(t, ph, fields) /\ DOMAIN fields \cap Reserved = {}
            <3> DEFINE f == [read |-> r, asDir |-> FALSE, alone |-> alone, cancel |-> "no", failed |-> {},
                             continued |-> c]
            <3>1. DOMAIN f \cap Reserved = {}
                  BY DEF Reserved
            <3> HIDE DEF f
            <3>2. Remotely(t, "running", f)
                  BY <2>1 DEF f
            <3>3. QED
                  BY <1>3, <3>1, <3>2
      <2>2. IsAt(t, "sent", "upload")
            BY <1>5 DEF UploadStarts
      <2>3. \/ \E result : Ends(t, result, <<>>)
            \/ \E alone, r, c :
                 Remotely(t, "running", [read |-> r, asDir |-> FALSE, alone |-> alone, cancel |-> "no", failed |-> {},
                                         continued |-> c])
            BY <1>5 DEF UploadStarts
      <2>4. QED
            BY <1>4, <2>1, <2>2, <2>3
<1>6. CASE UploadChecks(t)
      <2>1. IsAt(t, "running", "upload")
            BY <1>6 DEF UploadChecks
      <2>2. \/ \E result : Ends(t, result, <<>>)
            \/ \E x : Remotely(t, "checked", [seen |-> x])
            BY <1>6 DEF UploadChecks
      <2>3. \A x : DOMAIN [seen |-> x] \cap Reserved = {}
            BY DEF Reserved
      <2>4. QED
            BY <1>3, <1>4, <2>1, <2>2, <2>3
<1>7. CASE UploadReplaces(t)
      <2>1. IsAt(t, "checked", "upload")
            BY <1>7 DEF UploadReplaces
      <2>2. \/ \E result : Ends(t, result, <<>>)
            \/ \E x : Remotely(t, "stat", [sent |-> x])
            BY <1>7 DEF UploadReplaces
      <2>3. \A x : DOMAIN [sent |-> x] \cap Reserved = {}
            BY DEF Reserved
      <2>4. QED
            BY <1>3, <1>4, <2>1, <2>2, <2>3
<1>8. CASE UploadTold(t)
      <2>1. IsAt(t, "stat", "upload") /\ \E state : Ends(t, "completed", [state |-> state])
            BY <1>8 DEF UploadTold
      <2>2. QED
            BY <1>4, <2>1
<1>9. CASE UploadCanceled(t) \/ UploadFails(t)
      <2>1. IsAt(t, "running", "upload") /\ \E result : Ends(t, result, <<>>)
            BY <1>9 DEF UploadCanceled, UploadFails
      <2>2. QED
            BY <1>4, <2>1
<1>10. CASE DirectoryUploadStarts(t)
      <2>1. ASSUME NEW todo, NEW failed, NEW made,
                   Remotely(t, "running", [todo |-> todo, failed |-> failed, made |-> made, sent |-> <<>>,
                                           asDir |-> TRUE, cancel |-> "no", alone |-> FALSE])
            PROVE  \E ph \in Away : \E fields : Remotely(t, ph, fields) /\ DOMAIN fields \cap Reserved = {}
            <3> DEFINE f == [todo |-> todo, failed |-> failed, made |-> made, sent |-> <<>>,
                             asDir |-> TRUE, cancel |-> "no", alone |-> FALSE]
            <3>1. DOMAIN f \cap Reserved = {}
                  BY DEF Reserved
            <3> HIDE DEF f
            <3>2. Remotely(t, "running", f)
                  BY <2>1 DEF f
            <3>3. QED
                  BY <1>3, <3>1, <3>2
      <2>2. IsAt(t, "sent", "upload")
            BY <1>10 DEF DirectoryUploadStarts
      <2>3. \/ \E result : Ends(t, result, <<>>)
            \/ \E todo, failed, made :
                 Remotely(t, "running", [todo |-> todo, failed |-> failed, made |-> made, sent |-> <<>>,
                                         asDir |-> TRUE, cancel |-> "no", alone |-> FALSE])
            BY <1>10 DEF DirectoryUploadStarts
      <2>4. QED
            BY <1>4, <2>1, <2>2, <2>3
<1>11. CASE DirectoryUploadEnds(t)
      <2>1. IsAt(t, "running", "upload") /\ \E state : Ends(t, "completed", [state |-> state])
            BY <1>11 DEF DirectoryUploadEnds
      <2>2. QED
            BY <1>4, <2>1
<1>12. CASE \E p \in Places : DirectoryUploadSends(t, p)
      <2>1. IsAt(t, "running", "upload")
            BY <1>12 DEF DirectoryUploadSends
      <2>2. \/ \E x, y : Remotely(t, "running", [todo |-> x, sent |-> y])
            \/ \E x, y : Remotely(t, "running", [todo |-> x, failed |-> y])
            BY <1>12 DEF DirectoryUploadSends
      <2>3. \A x, y : /\ DOMAIN [todo |-> x, sent |-> y] \cap Reserved = {}
                      /\ DOMAIN [todo |-> x, failed |-> y] \cap Reserved = {}
            BY DEF Reserved
      <2>4. QED
            BY <1>3, <1>4, <2>1, <2>2, <2>3
<1>13. CASE RemoteRenames(t) \/ RemoteRemoves(t) \/ RemoteDiscards(t)
      <2>1. (\E kind : IsAt(t, "sent", kind)) /\ \E result : Ends(t, result, <<>>)
            BY <1>13 DEF RemoteRenames, RemoteRemoves, RemoteDiscards
      <2>2. QED
            BY <1>4, <2>1
<1>14. QED
       BY <1>1, <1>5, <1>6, <1>7, <1>8, <1>9, <1>10, <1>11, <1>12, <1>13
--------------------------------------------------------------------------------
(***************************************************************************)
(* The invariant and what it says of the order.                            *)
(***************************************************************************)
LEMMA InitTurns == Init => TurnInv
<1> SUFFICES ASSUME Init PROVE TurnInv
    OBVIOUS
<1>1. order = <<>> /\ agenda = <<>> /\ conflicts = <<>> /\ pending = <<>>
      BY DEF Init
<1>2. IsSeq(<<>>) /\ DOMAIN <<>> = {}
      BY NoSeq
<1>3. OrderOK(<<>>)
      BY <1>2 DEF OrderOK
<1>4. Held(<<>>, <<>>, <<>>, {}) /\ Turns(<<>>, <<>>, <<>>) /\ \A w : Recorded(<<>>, <<>>, <<>>, w)
      BY <1>2 DEF Held, Turns, Recorded
<1>5. QED
      BY <1>1, <1>2, <1>3, <1>4 DEF TurnInv, Works

LEMMA NextTurns == TurnInv /\ [Next]_vars => TurnInv'
<1> SUFFICES ASSUME TurnInv, [Next]_vars PROVE TurnInv'
    OBVIOUS
<1>1. CASE Edits
      BY <1>1, StillSteps
<1>2. CASE Users
      BY <1>2, StillSteps, UserSteps, StopStep DEF Users
<1>3. CASE Answers
      BY <1>3, AnswerSteps DEF Answers
<1>4. CASE Handlers
      BY <1>4, ChangeStep, CallSteps, DeletedStep, RemoveSteps, QueueUploadStep, CheckServerStep, AskStep, EnqueueStep,
         FinishStep, LeaveStep, UploadEndedStep, OthersEndedStep DEF Handlers
<1>5. CASE Operations \/ \E t \in Tickets : UploadFails(t)
      BY <1>5, OperationSteps
<1>6. CASE ConnectionLost
      BY <1>6, ConnectionLostStep
<1>7. CASE UNCHANGED vars
      BY <1>7 DEF vars, tracker, TurnInv
<1>8. QED
      BY <1>1, <1>2, <1>3, <1>4, <1>5, <1>6, <1>7 DEF Next

LEMMA AlwaysTurns == Spec => []TurnInv
BY InitTurns, NextTurns, PTL DEF Spec

\* Operations of the tracker that touch one path, or one path and a directory above it, are never on their way at
\* once, whatever changes, moves, fails, is cancelled, answered or stopped (inOrder, ServerOperationOrder::enter and
\* leave, leaveOrder): the operation queue runs what it is given side by side.
THEOREM TrackerNeverSideBySide == Spec => []NeverSideBySide
<1>1. TurnInv => NeverSideBySide
      <2> SUFFICES ASSUME TurnInv PROVE NeverSideBySide
          OBVIOUS
      <2>1. OrderOK(order)
            BY DEF TurnInv, Works, Ebbs
      <2>2. QED
            BY <2>1 DEF OrderOK, NeverSideBySide
<1>2. QED
      BY <1>1, AlwaysTurns, PTL

\* When the tracker is at rest between two reports, everything in the server order is accounted for: it waits for
\* something before it, for the user's answer or for the operation queue, and what is put off until an upload ended has
\* that upload (leaveOrder, checkServerThenUpload, askServerChanged, finishUpload, PendingUploads).
THEOREM TrackerNothingStuck == Spec => []NothingStuck
<1>1. TurnInv => NothingStuck
      <2> SUFFICES ASSUME TurnInv, Idle
                   PROVE  /\ \A i \in DOMAIN order :
                               CASE order[i].phase = "waiting" ->
                                      \E j \in 1..(i - 1) : PathsOverlap(order[j].paths, order[i].paths)
                                 [] order[i].phase = "here" -> Contains(conflicts, order[i].ticket)
                                 [] OTHER -> order[i].phase \in {"sent", "running", "checked", "stat", "ended"}
                          /\ \A start \in DOMAIN pending :
                               \E i \in DOMAIN order : /\ order[i].op.kind = "upload" /\ IsWatched(order[i].op)
                                                       /\ order[i].op.path = start
          BY DEF NothingStuck
      <2>1. /\ OrderOK(order) /\ IsSeq(conflicts) /\ Held(<<>>, order, conflicts, {}) /\ Turns(<<>>, order, conflicts)
            /\ Recorded(<<>>, order, pending, entry.watch)
            BY IdleStart DEF Works
      <2>2. /\ DOMAIN <<>> = {} /\ DOMAIN conflicts = 1..Len(conflicts)
            /\ DOMAIN order = 1..Len(order) /\ Len(order) \in Nat
            BY <2>1, NoSeq, SeqDomain DEF OrderOK
      <2>3. ASSUME NEW i \in DOMAIN order, order[i].phase = "waiting"
            PROVE  \E j \in 1..(i - 1) : PathsOverlap(order[j].paths, order[i].paths)
            <3>1. PICK j \in DOMAIN order : j < i /\ PathsOverlap(order[j].paths, order[i].paths)
                  BY <2>1, <2>3 DEF OrderOK
            <3>2. j \in 1..(i - 1)
                  BY <2>2, <3>1
            <3>3. QED
                  BY <3>1, <3>2
      <2>4. ASSUME NEW i \in DOMAIN order, order[i].phase = "here" PROVE Contains(conflicts, order[i].ticket)
            <3>1. PICK n \in DOMAIN conflicts : conflicts[n] = order[i].ticket
                  BY <2>1, <2>2, <2>4 DEF Held
            <3>2. QED
                  BY <2>2, <3>1 DEF Contains
      <2>5. ASSUME NEW i \in DOMAIN order, order[i].phase # "waiting", order[i].phase # "here"
            PROVE  order[i].phase \in {"sent", "running", "checked", "stat", "ended"}
            <3>1. order[i].phase \in Phases
                  BY <2>1 DEF OrderOK, IsEntry
            <3>2. order[i].phase \notin {"dropped", "starting", "ending"}
                  BY <2>1, <2>2 DEF Held
            <3>3. QED
                  BY <2>5, <3>1, <3>2 DEF Phases
      <2>6. \A start \in DOMAIN pending :
              \E i \in DOMAIN order : /\ order[i].op.kind = "upload" /\ IsWatched(order[i].op)
                                      /\ order[i].op.path = start
            BY <2>1 DEF Recorded, IsUploadOf, IsWatched
      <2>7. QED
            BY <2>3, <2>4, <2>5, <2>6
<1>2. QED
      BY <1>1, AlwaysTurns, PTL
--------------------------------------------------------------------------------
(***************************************************************************)
(* What the tracker compares with.  Own are the versions that no other     *)
(* client wrote, but for those it was told of: the tracker knows, expects  *)
(* and sends no other.                                                     *)
(***************************************************************************)
Own == (0..clock) \ (foreign \ told)

Values(f, S) == \A x \in DOMAIN f : f[x] \in S

KnownIn(k, S) == "files" \in DOMAIN k /\ Values(k.files, S)

CallsIn(a, S) == \A i \in DOMAIN a : a[i].do = "enqueue" => a[i].expected \in S

\* What an upload on its way carries, by its phase.
ExpectsIn(op, S) == {"compares", "expected"} \subseteq DOMAIN op /\ op.expected \in S
ReadsIn(op, S) == "read" \in DOMAIN op /\ op.read \in S
SendsIn(op, S) == "sent" \in DOMAIN op /\ Values(op.sent, S)
SeesIn(op, S) == "seen" \in DOMAIN op /\ (op.compares => op.seen \in S)
RunsIn(op, S) == "asDir" \in DOMAIN op /\ IF op.asDir THEN SendsIn(op, S) ELSE ReadsIn(op, S)
EndsIn(op, S) ==
  "result" \in DOMAIN op /\ (op.result = "completed" => SendsIn(op, S) /\ "state" \in DOMAIN op /\ op.state \in S)

UploadIn(ph, op, S) ==
  /\ ph \in {"sent", "running", "checked"} => ExpectsIn(op, S)
  /\ ph = "running" => RunsIn(op, S)
  /\ ph = "checked" => ReadsIn(op, S) /\ SeesIn(op, S)
  /\ ph = "stat" => SendsIn(op, S)
  /\ ph = "ended" => EndsIn(op, S)

EntryIn(e, S) == e.op.kind = "upload" => UploadIn(e.phase, e.op, S)
OrderIn(o, S) == \A i \in DOMAIN o : EntryIn(o[i], S)

OwnInv ==
  /\ clock \in Nat /\ Dir <= clock /\ foreign \subseteq (Dir + 1)..clock
  /\ disk \in [Places -> Own] /\ server \in [Places -> 0..clock]
  /\ KnownIn(known, Own) /\ OrderIn(order, Own) /\ CallsIn(agenda, Own)

\* What is in a set stays in a larger one.
LEMMA StaysIn ==
  ASSUME NEW S, NEW T, S \subseteq T
  PROVE  /\ \A f : Values(f, S) => Values(f, T)
         /\ \A k : KnownIn(k, S) => KnownIn(k, T)
         /\ \A a : CallsIn(a, S) => CallsIn(a, T)
         /\ \A e : EntryIn(e, S) => EntryIn(e, T)
         /\ \A o : OrderIn(o, S) => OrderIn(o, T)
<1>1. \A f : Values(f, S) => Values(f, T)
      BY DEF Values
<1>2. \A k : KnownIn(k, S) => KnownIn(k, T)
      BY <1>1 DEF KnownIn
<1>3. \A a : CallsIn(a, S) => CallsIn(a, T)
      BY DEF CallsIn
<1>4. \A op : /\ ExpectsIn(op, S) => ExpectsIn(op, T)
              /\ ReadsIn(op, S) => ReadsIn(op, T)
              /\ SendsIn(op, S) => SendsIn(op, T)
              /\ SeesIn(op, S) => SeesIn(op, T)
      BY <1>1 DEF ExpectsIn, ReadsIn, SendsIn, SeesIn
<1>5. \A op : RunsIn(op, S) => RunsIn(op, T)
      BY <1>4 DEF RunsIn
<1>6. \A op : EndsIn(op, S) => EndsIn(op, T)
      BY <1>4 DEF EndsIn
<1>7. \A ph, op : UploadIn(ph, op, S) => UploadIn(ph, op, T)
      BY <1>4, <1>5, <1>6 DEF UploadIn
<1>8. \A e : EntryIn(e, S) => EntryIn(e, T)
      BY <1>7 DEF EntryIn
<1>9. \A o : OrderIn(o, S) => OrderIn(o, T)
      BY <1>8 DEF OrderIn
<1>10. QED
       BY <1>1, <1>2, <1>3, <1>8, <1>9

\* Functions with values in a set: put over each other, restricted, moved.
LEMMA NoValues == \A S : Values(<<>>, S)
BY NoSeq DEF Values

LEMMA OverValues ==
  ASSUME NEW S, NEW f, NEW g, Values(f, S), Values(g, S)
  PROVE  Values(Over(f, g), S)
<1> DEFINE h == Over(f, g)
<1>1. /\ DOMAIN h = DOMAIN f \cup DOMAIN g
      /\ \A x \in DOMAIN f : h[x] = f[x]
      /\ \A x \in DOMAIN g : x \notin DOMAIN f => h[x] = g[x]
      BY OverFields
<1> HIDE DEF h
<1>2. Values(h, S)
      BY <1>1 DEF Values
<1>3. QED
      BY <1>2 DEF h

LEMMA OneValueIn ==
  ASSUME NEW S, NEW v \in S, NEW x
  PROVE  Values(OneValue(x, v), S)
BY DEF Values, OneValue

LEMMA PartValues ==
  ASSUME NEW S, NEW f, Values(f, S)
  PROVE  /\ \A D : D \subseteq DOMAIN f => Values(Restrict(f, D), S)
         /\ \A paths : Values(Without(f, paths), S)
<1>1. ASSUME NEW D, D \subseteq DOMAIN f PROVE Values(Restrict(f, D), S)
      BY <1>1 DEF Values, Restrict
<1>2. ASSUME NEW paths PROVE Values(Without(f, paths), S)
      <2>1. DOMAIN f \ paths \subseteq DOMAIN f
            OBVIOUS
      <2>2. QED
            BY <1>1, <2>1 DEF Without
<1>3. QED
      BY <1>1, <1>2

LEMMA MoveInValues ==
  ASSUME NEW S, NEW f, Values(f, S), NEW from, NEW to
  PROVE  Values(MoveIn(f, from, to), S)
<1> DEFINE moving == {p \in DOMAIN f : IsWithin(p, from)}
           g == [q \in {MovedPath(p, from, to) : p \in moving} |-> f[CHOOSE p \in moving : MovedPath(p, from, to) = q]]
<1>1. MoveIn(f, from, to) = Over(g, Without(f, moving))
      BY DEF MoveIn
<1>2. Values(g, S)
      <2>1. SUFFICES ASSUME NEW p \in moving
                     PROVE  f[CHOOSE r \in moving : MovedPath(r, from, to) = MovedPath(p, from, to)] \in S
            BY DEF Values
      <2>2. (CHOOSE r \in moving : MovedPath(r, from, to) = MovedPath(p, from, to)) \in moving
            OBVIOUS
      <2>3. moving \subseteq DOMAIN f
            OBVIOUS
      <2> HIDE DEF moving
      <2>4. QED
            BY <2>2, <2>3 DEF Values
<1> HIDE DEF g, moving
<1>3. Values(Without(f, moving), S)
      BY PartValues
<1>4. QED
      BY <1>1, <1>2, <1>3, OverValues

\* What the tracker knows: remembered, forgotten and moved.
LEMMA KnownChanges ==
  ASSUME NEW S, NEW k, KnownIn(k, S)
  PROVE  /\ KnownIn(NothingKnown, S)
         /\ \A path, v : v \in S => KnownIn(RememberFile(k, path, v), S)
         /\ \A kept : KnownIn([k EXCEPT !.kept = kept], S)
         /\ \A from, to : KnownIn(MoveKnown(k, from, to), S)
         /\ \A paths : KnownIn(ForgetAll(k, paths), S)
         /\ \A path : KnownIn(Forget(k, path), S)
         /\ \A sent : KnownIn(RememberSentFiles(k, sent), S)
<1>1. "files" \in DOMAIN k /\ Values(k.files, S)
      BY DEF KnownIn
<1>2. KnownIn(NothingKnown, S)
      BY NoValues DEF KnownIn, NothingKnown
<1>3. ASSUME NEW path, NEW v \in S PROVE KnownIn(RememberFile(k, path, v), S)
      <2> DEFINE f == Over(OneValue(path, v), k.files)
                 k2 == RememberFile(k, path, v)
      <2>1. Values(f, S)
            BY <1>1, OneValueIn, OverValues
      <2>2. DOMAIN k2 = DOMAIN k /\ k2.files = f
            BY <1>1 DEF RememberFile
      <2> HIDE DEF f, k2
      <2>3. QED
            BY <1>1, <2>1, <2>2 DEF KnownIn, k2
<1>4. ASSUME NEW kept PROVE KnownIn([k EXCEPT !.kept = kept], S)
      BY <1>1 DEF KnownIn
<1>5. ASSUME NEW from, NEW to PROVE KnownIn(MoveKnown(k, from, to), S)
      BY <1>1, MoveInValues DEF KnownIn, MoveKnown
<1>6. ASSUME NEW paths PROVE KnownIn(ForgetAll(k, paths), S)
      BY <1>1, PartValues DEF KnownIn, ForgetAll
<1>7. ASSUME NEW path PROVE KnownIn(Forget(k, path), S)
      BY <1>6 DEF Forget
<1>8. ASSUME NEW sent PROVE KnownIn(RememberSentFiles(k, sent), S)
      BY <1>1 DEF KnownIn, RememberSentFiles
<1>9. QED
      BY <1>2, <1>3, <1>4, <1>5, <1>6, <1>7, <1>8

LEMMA KnownStates ==
  ASSUME NEW S, NEW k, KnownIn(k, S), disk \in [Places -> S], NEW below
  PROVE  KnownIn(RememberStates(k, below), S)
<1> DEFINE there == {p \in Places : IsWithin(p, below) /\ disk[p] # Gone}
           files == {p \in there : IsFile(disk[p])}
           now == [p \in files |-> disk[p]]
           k2 == RememberStates(k, below)
<1>1. Values(now, S)
      BY DEF Values
<1>2. "files" \in DOMAIN k2 /\ k2.files = Over(now, k.files)
      BY DEF RememberStates, KnownIn
<1> HIDE DEF now, k2
<1>3. Values(Over(now, k.files), S)
      BY <1>1, OverValues DEF KnownIn
<1>4. QED
      BY <1>2, <1>3 DEF KnownIn, k2

LEMMA KnownUploaded ==
  ASSUME NEW S, KnownIn(known, S), disk \in [Places -> S], NEW directory, NEW failed
  PROVE  KnownIn(RememberUploadedStates(directory, failed), S)
<1> DEFINE states == RememberStates(known, directory)
           out == {p \in failed : IsBelow(p, directory) /\ p \notin known.dirs}
           kept == Restrict(known.files, DOMAIN known.files \cap out)
           forgotten == ForgetAll(states, out \ DOMAIN kept)
           k2 == RememberUploadedStates(directory, failed)
<1>1. KnownIn(forgotten, S)
      BY KnownStates, KnownChanges
<1>2. Values(kept, S)
      BY PartValues DEF KnownIn
<1>3. k2 = [forgotten EXCEPT !.files = Over(kept, @), !.sent = Without(@, DOMAIN kept)]
      BY DEF RememberUploadedStates
<1> HIDE DEF forgotten, kept, k2
<1>4. "files" \in DOMAIN k2 /\ k2.files = Over(kept, forgotten.files)
      BY <1>1, <1>3 DEF KnownIn
<1>5. Values(Over(kept, forgotten.files), S)
      BY <1>1, <1>2, OverValues DEF KnownIn
<1>6. QED
      BY <1>4, <1>5 DEF KnownIn, k2

LEMMA KnownSentButGone ==
  ASSUME NEW S, NEW k, KnownIn(k, S), NEW u, Values(u.sent, S)
  PROVE  KnownIn(RememberSentButGone(k, u), S)
<1> DEFINE files == {p \in DOMAIN u.sent \ DOMAIN k.files : IsGoneLocally(p)}
           sent == [p \in files |-> u.sent[p]]
           k2 == RememberSentButGone(k, u)
<1>1. Values(sent, S)
      BY DEF Values
<1>2. "files" \in DOMAIN k2 /\ k2.files = Over(sent, k.files)
      BY DEF RememberSentButGone, KnownIn
<1> HIDE DEF sent, k2
<1>3. Values(Over(sent, k.files), S)
      BY <1>1, OverValues DEF KnownIn
<1>4. QED
      BY <1>2, <1>3 DEF KnownIn, k2

LEMMA KnownUpload ==
  ASSUME NEW S, KnownIn(known, S), disk \in [Places -> S], NEW u, Values(u.sent, S), u.state \in S
  PROVE  KnownIn(KnownAfter(u), S)
<1>1. KnownIn(RememberSentButGone(RememberUploadedStates(u.path, u.failed), u), S)
      BY KnownUploaded, KnownSentButGone
<1>2. KnownIn(RememberFile(known, u.path, u.state), S)
      BY KnownChanges
<1>3. QED
      BY <1>1, <1>2 DEF KnownAfter

LEMMA StateIsKnown ==
  ASSUME NEW S, Gone \in S, NEW k, KnownIn(k, S), NEW path
  PROVE  FileState(k, path) \in S
BY DEF FileState, KnownIn, Values

\* The order: an operation enters, is cancelled, goes on or leaves.
LEMMA EnterIn ==
  ASSUME NEW S, NEW o, OrderOK(o), OrderIn(o, S), NEW paths, NEW op
  PROVE  OrderIn(Entering(o, paths, op), S)
<1> DEFINE ph == IF Waits(o, paths) THEN "waiting" ELSE Turn("waiting", op)
           e == [ticket |-> NextTicket(o), paths |-> paths, op |-> op, phase |-> ph]
           o2 == Append(o, e)
<1>1. o2 = Entering(o, paths, op)
      BY DEF Entering
<1>2. EntryIn(e, S)
      <2>1. op.kind = "upload" => ph \in {"waiting", "starting"}
            BY DEF Turn
      <2>2. e.phase = ph /\ e.op = op
            OBVIOUS
      <2> HIDE DEF ph, e
      <2>3. QED
            BY <2>1, <2>2 DEF EntryIn, UploadIn
<1> HIDE DEF ph, e
<1>3. PICK m : DOMAIN o2 = DOMAIN o \cup {m} /\ o2[m] = e /\ \A i \in DOMAIN o : o2[i] = o[i]
      <2>1. IsSeq(o)
            BY DEF OrderOK
      <2>2. QED
            BY <2>1, AppendSeq
<1> HIDE DEF o2
<1>4. OrderIn(o2, S)
      BY <1>2, <1>3 DEF OrderIn
<1>5. QED
      BY <1>1, <1>4

LEMMA CancelIn ==
  ASSUME NEW S, NEW o, OrderOK(o), OrderIn(o, S), NEW dst, NEW partial
  PROVE  OrderIn(Cancelled(o, dst, partial), S)
<1> DEFINE o2 == Cancelled(o, dst, partial)
<1>1. DOMAIN o2 = DOMAIN o
      BY DEF Cancelled
<1>2. ASSUME NEW i \in DOMAIN o
      PROVE  \/ o2[i] = o[i]
             \/ o[i].phase = "sent" /\ o2[i] = Updated(o[i], "ended", [result |-> "canceled"])
             \/ o[i].phase = "running" /\ o2[i] = Updated(o[i], "running", [cancel |-> partial])
      BY DEF Cancelled
<1> HIDE DEF o2
<1>3. ASSUME NEW i \in DOMAIN o PROVE EntryIn(o2[i], S)
      <2> DEFINE e == o[i]
                 e2 == o2[i]
      <2>1. IsEntry(e) /\ EntryIn(e, S)
            BY DEF OrderOK, OrderIn
      <2>2. "ended" \in Phases /\ "running" \in Phases
            BY DEF Phases
      <2>3. CASE e2 = e
            BY <2>1, <2>3
      <2>4. CASE e2 = Updated(e, "ended", [result |-> "canceled"])
            <3> DEFINE f == [result |-> "canceled"]
            <3>1. DOMAIN f \cap Reserved = {} /\ "result" \in DOMAIN f /\ f["result"] = "canceled"
                  BY DEF Reserved
            <3> HIDE DEF f, e, e2
            <3>2. e2 = Updated(e, "ended", f)
                  BY <2>4 DEF f
            <3>3. e2.phase = "ended" /\ e2.op = Over(f, e.op)
                  BY <2>1, <2>2, <3>1, <3>2, EntryUpdate
            <3>4. "result" \in DOMAIN Over(f, e.op) /\ Over(f, e.op)["result"] = "canceled"
                  <4> DEFINE g == Over(f, e.op)
                  <4>1. DOMAIN g = DOMAIN f \cup DOMAIN e.op /\ \A x \in DOMAIN f : g[x] = f[x]
                        BY OverFields
                  <4> HIDE DEF g
                  <4>2. "result" \in DOMAIN g /\ g["result"] = "canceled"
                        BY <3>1, <4>1
                  <4>3. QED
                        BY <4>2 DEF g
            <3>5. EndsIn(e2.op, S)
                  BY <3>3, <3>4 DEF EndsIn
            <3>6. EntryIn(e2, S)
                  BY <3>3, <3>5 DEF EntryIn, UploadIn
            <3>7. QED
                  BY <3>6 DEF e2
      <2>5. CASE e.phase = "running" /\ e2 = Updated(e, "running", [cancel |-> partial])
            <3> DEFINE f == [cancel |-> partial]
            <3>1. DOMAIN f \cap Reserved = {} /\ DOMAIN f = {"cancel"}
                  BY DEF Reserved
            <3> HIDE DEF f, e, e2
            <3>2. e2 = Updated(e, "running", f)
                  BY <2>5 DEF f
            <3>3. e2.phase = "running" /\ e2.op = Over(f, e.op) /\ e2.op.kind = e.op.kind
                  BY <2>1, <2>2, <3>1, <3>2, EntryUpdate
            <3>4. \A x \in DOMAIN e.op : x # "cancel" => x \in DOMAIN e2.op /\ e2.op[x] = e.op[x]
                  <4> DEFINE g == Over(f, e.op)
                  <4>1. /\ DOMAIN g = DOMAIN f \cup DOMAIN e.op
                        /\ \A x \in DOMAIN e.op : x \notin DOMAIN f => g[x] = e.op[x]
                        BY OverFields
                  <4>2. e2.op = g
                        BY <3>3
                  <4> HIDE DEF g
                  <4>3. QED
                        BY <3>1, <4>1, <4>2
            <3>5. e.op.kind = "upload" => ExpectsIn(e.op, S) /\ RunsIn(e.op, S)
                  BY <2>1, <2>5 DEF EntryIn, UploadIn
            <3>6. ExpectsIn(e.op, S) => ExpectsIn(e2.op, S)
                  BY <3>4 DEF ExpectsIn
            <3>7. RunsIn(e.op, S) => RunsIn(e2.op, S)
                  BY <3>4 DEF RunsIn, SendsIn, ReadsIn
            <3>8. EntryIn(e2, S)
                  BY <3>3, <3>5, <3>6, <3>7 DEF EntryIn, UploadIn
            <3>9. QED
                  BY <3>8 DEF e2
      <2>6. QED
            BY <1>2, <2>3, <2>4, <2>5
<1>4. QED
      BY <1>1, <1>3 DEF OrderIn, o2

LEMMA LeaveIn ==
  ASSUME NEW S, NEW o, OrderOK(o), OrderIn(o, S), NEW t, HasTicket(o, t)
  PROVE  OrderIn(LeaveOrder(o, t), S)
<1> DEFINE o2 == LeaveOrder(o, t)
<1>1. PICK n \in DOMAIN o : o[n].ticket = t
      BY DEF HasTicket
<1>2. PICK src : Left(o, n, o2, StartsAfter(o, t), src)
      BY <1>1, LeaveOrderOK
<1> HIDE DEF o2
<1>3. ASSUME NEW j \in DOMAIN o2 PROVE EntryIn(o2[j], S)
      <2>1. /\ src[j] \in DOMAIN o /\ o2[j].op = o[src[j]].op
            /\ \/ o2[j].phase = Turn(o[src[j]].phase, o[src[j]].op)
               \/ o2[j].phase = o[src[j]].phase
            BY <1>2 DEF Left
      <2>2. EntryIn(o[src[j]], S)
            BY <2>1 DEF OrderIn
      <2>3. o[src[j]].op.kind = "upload" => Turn(o[src[j]].phase, o[src[j]].op) \in {"ending", "starting"}
            BY DEF Turn
      <2>4. QED
            BY <2>1, <2>2, <2>3 DEF EntryIn, UploadIn
<1>4. QED
      BY <1>3 DEF OrderIn, o2

LEMMA SetIn ==
  ASSUME NEW S, OrderOK(order), OrderIn(order, S), NEW k \in DOMAIN order, NEW t, order[k].ticket = t,
         NEW ph \in Phases, NEW fields, DOMAIN fields \cap Reserved = {},
         order[k].op.kind = "upload" => UploadIn(ph, Over(fields, order[k].op), S)
  PROVE  OrderIn(SetOp(t, ph, fields), S)
<1> DEFINE o2 == SetOp(t, ph, fields)
           e == order[k]
           e2 == Updated(e, ph, fields)
<1>1. o2 = [order EXCEPT ![k] = e2]
      <2>1. PlaceOf(order, t) = k
            BY PlaceFound
      <2>2. QED
            BY <2>1 DEF SetOp, Updated
<1>2. EntryIn(e2, S)
      <2>1. IsEntry(e)
            BY DEF OrderOK
      <2>2. e2.phase = ph /\ e2.op = Over(fields, e.op) /\ e2.op.kind = e.op.kind
            BY <2>1, EntryUpdate
      <2> HIDE DEF e2
      <2>3. QED
            BY <2>2 DEF EntryIn
<1> HIDE DEF e2
<1>3. DOMAIN o2 = DOMAIN order /\ o2[k] = e2 /\ \A i \in DOMAIN order : i # k => o2[i] = order[i]
      BY <1>1
<1> HIDE DEF o2
<1>4. OrderIn(o2, S)
      BY <1>2, <1>3 DEF OrderIn
<1>5. QED
      BY <1>4 DEF o2

LEMMA HereIn ==
  ASSUME NEW S, OrderOK(order), OrderIn(order, S), NEW k \in DOMAIN order, NEW fields,
         DOMAIN fields \cap Reserved = {}
  PROVE  OrderIn(SetOp(order[k].ticket, "here", fields), S)
<1>1. "here" \in Phases /\ UploadIn("here", Over(fields, order[k].op), S)
      BY DEF Phases, UploadIn
<1>2. QED
      BY <1>1, SetIn

\* The calls of the agenda.
LEMMA CallLists ==
  ASSUME NEW S
  PROVE  /\ \A c : Quiet(c) => IsSeq(c) /\ CallsIn(c, S)
         /\ \A n : n.do # "enqueue" \/ n.expected \in S => IsSeq(<<n>>) /\ CallsIn(<<n>>, S)
         /\ \A q, r : IsSeq(q) /\ IsSeq(r) /\ CallsIn(q, S) /\ CallsIn(r, S)
                        => IsSeq(q \o r) /\ CallsIn(q \o r, S)
         /\ \A a : IsSeq(a) /\ a # <<>> /\ CallsIn(a, S) => IsSeq(Tail(a)) /\ CallsIn(Tail(a), S)
<1>1. \A c : Quiet(c) => IsSeq(c) /\ CallsIn(c, S)
      BY DEF Quiet, CallsIn, Names, Holders
<1>2. ASSUME NEW n, n.do # "enqueue" \/ n.expected \in S PROVE IsSeq(<<n>>) /\ CallsIn(<<n>>, S)
      <2> DEFINE c == <<n>>
      <2>1. IsSeq(c) /\ DOMAIN c = {1} /\ c[1] = n
            BY OneSeq
      <2> HIDE DEF c
      <2>2. CallsIn(c, S)
            BY <1>2, <2>1 DEF CallsIn
      <2>3. QED
            BY <2>1, <2>2 DEF c
<1>3. ASSUME NEW q, NEW r, IsSeq(q), IsSeq(r), CallsIn(q, S), CallsIn(r, S)
      PROVE  IsSeq(q \o r) /\ CallsIn(q \o r, S)
      <2> DEFINE c == q \o r
      <2>1. /\ IsSeq(c)
            /\ \A i \in DOMAIN c :
                 \/ i \in DOMAIN q /\ c[i] = q[i]
                 \/ i - Len(q) \in DOMAIN r /\ c[i] = r[i - Len(q)] /\ i \notin DOMAIN q
            BY <1>3, ConcatSeq
      <2> HIDE DEF c
      <2>2. CallsIn(c, S)
            BY <1>3, <2>1 DEF CallsIn
      <2>3. QED
            BY <2>1, <2>2 DEF c
<1>4. ASSUME NEW a, IsSeq(a), a # <<>>, CallsIn(a, S) PROVE IsSeq(Tail(a)) /\ CallsIn(Tail(a), S)
      <2> DEFINE b == Tail(a)
      <2>1. IsSeq(b) /\ \A i \in DOMAIN b : i + 1 \in DOMAIN a /\ b[i] = a[i + 1]
            BY <1>4, TailSeq
      <2> HIDE DEF b
      <2>2. CallsIn(b, S)
            BY <1>4, <2>1 DEF CallsIn
      <2>3. QED
            BY <2>1, <2>2 DEF b
<1>5. QED
      BY <1>1, <1>2, <1>3, <1>4

LEMMA NowInOrder == TurnInv => OrderOK(order) /\ IsSeq(agenda) /\ IsSeq(conflicts)
BY NoSeq DEF TurnInv, Works, Ebbs, Drains

\* A handler: neither the disk nor the server changes.
LEMMA HandlerOwn ==
  ASSUME TurnInv, OwnInv, UNCHANGED <<disk, server, clock, foreign, told>>,
         known' = known \/ KnownIn(known', Own),
         order' = order \/ OrderIn(order', Own),
         \/ agenda' = agenda
         \/ Quiet(agenda')
         \/ CallsIn(agenda', Own)
         \/ agenda # <<>> /\ \E c : Quiet(c) /\ agenda' = c \o Tail(agenda)
         \/ agenda # <<>> /\ \E c : IsSeq(c) /\ CallsIn(c, Own) /\ agenda' = c \o Tail(agenda)
  PROVE  OwnInv'
<1>1. CallsIn(agenda, Own) /\ IsSeq(agenda)
      BY NowInOrder DEF OwnInv
<1>2. CallsIn(agenda', Own)
      BY <1>1, CallLists
<1>3. Own' = Own
      BY DEF Own
<1>4. QED
      BY <1>2, <1>3 DEF OwnInv

LEMMA UserOwn ==
  ASSUME TurnInv, OwnInv, Users
  PROVE  OwnInv'
<1>1. CASE UploadAndWatch
      <2>1. known' = NothingKnown /\ order' = order /\ UNCHANGED <<disk, server, clock, foreign, told>>
            BY <1>1 DEF UploadAndWatch
      <2>2. Quiet(agenda')
            BY <1>1, QuietCalls, CallsNotNaming DEF UploadAndWatch
      <2>3. KnownIn(known', Own)
            BY <2>1, KnownChanges DEF OwnInv
      <2>4. QED
            BY <2>1, <2>2, <2>3, HandlerOwn
<1>2. CASE Stop
      <2> DEFINE c == [i \in DOMAIN conflicts |-> Leave(conflicts[i])]
      <2>1. agenda' = c \o <<>> /\ known' = NothingKnown /\ order' = order /\ UNCHANGED <<disk, server, clock, foreign, told>>
            BY <1>2 DEF Stop, EndWatch
      <2>2. IsSeq(c) /\ CallsIn(c, Own)
            <3>1. DOMAIN c = DOMAIN conflicts /\ c = [i \in DOMAIN conflicts |-> c[i]] /\ IsSeq(conflicts)
                  BY NowInOrder
            <3>2. CallsIn(c, Own)
                  BY DEF CallsIn, Leave
            <3> HIDE DEF c
            <3>3. QED
                  BY <3>1, <3>2, MapSeq
      <2> HIDE DEF c
      <2>3. CallsIn(agenda', Own)
            BY <2>1, <2>2, NoSeq
      <2>4. KnownIn(known', Own)
            BY <2>1, KnownChanges DEF OwnInv
      <2>5. QED
            BY <2>1, <2>3, <2>4, HandlerOwn
<1>3. ASSUME NEW p \in failures, RetryFailure(p) PROVE OwnInv'
      <2>1. Quiet(agenda')
            BY <1>3, QuietCalls, CallsNotNaming DEF RetryFailure
      <2>2. UNCHANGED <<disk, server, clock, foreign, told, known, order>>
            BY <1>3 DEF RetryFailure, histories
      <2>3. QED
            BY <2>1, <2>2, HandlerOwn
<1>4. CASE (\E o \in Toggles : SetOption(o)) \/ (\E p \in failures : DismissFailure(p))
      <2>1. UNCHANGED <<disk, server, clock, foreign, told, known, order, agenda>>
            BY <1>4 DEF SetOption, DismissFailure
      <2>2. QED
            BY <2>1, HandlerOwn
<1>5. QED
      BY <1>1, <1>2, <1>3, <1>4 DEF Users

LEMMA AnswerOwn ==
  ASSUME TurnInv, OwnInv, NEW t, AnswerReplace(t) \/ AnswerKeep(t)
  PROVE  OwnInv'
<1>1. UNCHANGED <<disk, server, clock, foreign, told, known>>
      BY DEF AnswerReplace, AnswerKeep, histories
<1>2. order' = order \/ order' = SetOp(t, "here", [check |-> FALSE])
      BY DEF AnswerReplace, AnswerKeep
<1>3. OrderIn(order', Own)
      <2> DEFINE f == [check |-> FALSE]
      <2>1. PICK k \in DOMAIN order : order[k].ticket = t
            BY AnswerStart DEF AnswerReplace, AnswerKeep
      <2>2. DOMAIN f \cap Reserved = {}
            BY DEF Reserved
      <2> HIDE DEF f
      <2>3. OrderIn(SetOp(t, "here", f), Own)
            BY <2>1, <2>2, NowInOrder, HereIn DEF OwnInv
      <2>4. QED
            BY <1>2, <2>3 DEF OwnInv, f
<1>4. CallsIn(agenda', Own)
      <2>1. \/ agenda' = NoConflict(t) /\ NoConflict(t) # <<>>
            \/ agenda' = <<CheckServer(t)>>
            \/ agenda' = <<Finish(t, "declined")>>
            BY DEF AnswerReplace, AnswerKeep
      <2>2. /\ Finish(t, "declined").do # "enqueue" /\ CheckServer(t).do # "enqueue"
            BY CallsNaming
      <2>3. NoConflict(t) # <<>> => CallsIn(NoConflict(t), Own)
            BY NoConflictCalls, CallsNaming DEF One, CallsIn, Names, Holders
      <2>4. QED
            BY <2>1, <2>2, <2>3, CallLists
<1>5. QED
      BY <1>1, <1>3, <1>4, HandlerOwn

LEMMA QuietOwn ==
  ASSUME TurnInv, OwnInv,
         OnContentChanged \/ OnLookAt \/ OnRemoveKnown \/ OnUploadLacking
  PROVE  OwnInv'
<1>1. UNCHANGED <<disk, server, clock, foreign, told, known, order>> /\ agenda # <<>>
      BY DEF OnContentChanged, OnLookAt, OnRemoveKnown, OnUploadLacking, tracker, histories, Calls
<1>2. \E c : Quiet(c) /\ agenda' = c \o Tail(agenda)
      BY QuietCallSteps
<1>3. QED
      BY <1>1, <1>2, HandlerOwn

\* Nothing and a directory are no other client's version.
LEMMA PlainOwn == OwnInv => Gone \in Own /\ Dir \in Own
BY DEF OwnInv, Own, Gone, Dir

LEMMA DeletedOwn ==
  ASSUME TurnInv, OwnInv, OnDeleted
  PROVE  OwnInv'
<1>1. UNCHANGED <<disk, server, clock, foreign, told>> /\ agenda # <<>>
      BY DEF OnDeleted, histories, Calls
<1>2. known' = known \/ \E kept : known' = [known EXCEPT !.kept = kept]
      BY DEF OnDeleted
<1>3. known' = known \/ KnownIn(known', Own)
      <2>1. \A kept : KnownIn([known EXCEPT !.kept = kept], Own)
            BY KnownChanges DEF OwnInv
      <2>2. QED
            BY <1>2, <2>1
<1>4. order' = order \/ \E dst : order' = Cancelled(order, dst, "discarded")
      BY DEF OnDeleted
<1>5. OrderIn(order', Own)
      BY <1>4, NowInOrder, CancelIn DEF OwnInv
<1>6. \E c : Quiet(c) /\ agenda' = c \o Tail(agenda)
      BY DeletedCalls
<1>7. QED
      BY <1>1, <1>3, <1>5, <1>6, HandlerOwn

LEMMA RemoveOwn ==
  ASSUME TurnInv, OwnInv, OnRemoveRemote \/ OnDiscardPartial
  PROVE  OwnInv'
<1>1. UNCHANGED <<disk, server, clock, foreign, told>> /\ agenda # <<>>
      BY DEF OnRemoveRemote, OnDiscardPartial, tracker, histories, Calls
<1>2. known' = known \/ \E path : known' = Forget(known, path)
      BY DEF OnRemoveRemote, OnDiscardPartial, tracker
<1>3. known' = known \/ KnownIn(known', Own)
      BY <1>2, KnownChanges DEF OwnInv
<1>4. \E paths, op : order' = Entering(order, paths, op)
      BY DEF OnRemoveRemote, OnDiscardPartial, InOrder
<1>5. OrderIn(order', Own)
      BY <1>4, NowInOrder, EnterIn DEF OwnInv
<1>6. \E c : Quiet(c) /\ agenda' = c \o Tail(agenda)
      BY QuietCalls, CallsNotNaming DEF OnRemoveRemote, OnDiscardPartial, Then
<1>7. QED
      BY <1>1, <1>3, <1>5, <1>6, HandlerOwn

LEMMA QueueUploadOwn ==
  ASSUME TurnInv, OwnInv, OnQueueUpload
  PROVE  OwnInv'
<1>1. UNCHANGED <<disk, server, clock, foreign, told, known>> /\ agenda # <<>>
      BY DEF OnQueueUpload, Calls
<1>2. order' = order \/ \E paths, op : order' = Entering(order, paths, op)
      BY DEF OnQueueUpload
<1>3. OrderIn(order', Own)
      BY <1>2, NowInOrder, EnterIn DEF OwnInv
<1>4. PICK c : /\ \/ c = <<>> \/ c = DiscardIf(Call.cont) \/ \E walked : c = <<UploadLacking(walked, {})>>
                  \/ \E t : c = <<CheckServer(t)>>
               /\ agenda' = c \o Tail(agenda)
      BY DEF OnQueueUpload, Then
<1>5. IsSeq(c) /\ CallsIn(c, Own)
      <2>1. Quiet(<<>>) /\ Quiet(DiscardIf(Call.cont)) /\ \A walked : Quiet(<<UploadLacking(walked, {})>>)
            BY QuietCalls, QuietLists, CallsNotNaming
      <2>2. \A t : CheckServer(t).do # "enqueue"
            BY CallsNaming
      <2>3. CASE Quiet(c)
            BY <2>3, CallLists
      <2>4. CASE \E t : c = <<CheckServer(t)>>
            BY <2>2, <2>4, CallLists
      <2>5. QED
            BY <1>4, <2>1, <2>3, <2>4
<1>6. QED
      BY <1>1, <1>3, <1>4, <1>5, HandlerOwn

\* A call about the upload of a ticket finds it in the order.
LEMMA HolderStart ==
  ASSUME TurnInv, OwnInv, NEW name \in Holders, Calls(name)
  PROVE  /\ OrderOK(order) /\ OrderIn(SetOp(Call.ticket, "here", <<>>), Own)
         /\ \E k \in DOMAIN order : order[k].ticket = Call.ticket /\ order[k].op.kind = "upload"
<1>1. name # "leave"
      BY DEF Holders
<1>2. PICK k \in DOMAIN order : order[k].ticket = Call.ticket /\ order[k].op.kind = "upload"
      BY <1>1, CallStart
<1>3. DOMAIN <<>> \cap Reserved = {}
      BY NoSeq
<1>4. OrderIn(SetOp(order[k].ticket, "here", <<>>), Own)
      BY <1>3, NowInOrder, HereIn DEF OwnInv
<1>5. QED
      BY <1>2, <1>4, NowInOrder

LEMMA CheckServerOwn ==
  ASSUME TurnInv, OwnInv, OnCheckServer
  PROVE  OwnInv'
<1>1. UNCHANGED <<disk, server, clock, foreign, told, known>> /\ agenda # <<>> /\ Calls("checkServer")
      BY DEF OnCheckServer, Calls, histories
<1>2. OrderIn(order', Own)
      <2>1. order' = SetOp(Call.ticket, "here", <<>>)
            BY DEF OnCheckServer
      <2>2. QED
            BY <1>1, <2>1, HolderStart DEF Holders
<1>3. PICK c : /\ \/ \E t, path : c = <<Finish(t, "notUploaded"), Deleted(path)>>
                  \/ \E t : c = <<Finish(t, "notUploaded")>> \/ c = <<Enqueue(t, FALSE, Gone)>> \/ c = <<Ask(t)>>
                  \/ \E t, path : c = <<Enqueue(t, TRUE, FileState(known, path))>>
               /\ agenda' = c \o Tail(agenda)
      BY DEF OnCheckServer, Then
<1>4. IsSeq(c) /\ CallsIn(c, Own)
      <2>1. CASE \E t, path : c = <<Finish(t, "notUploaded"), Deleted(path)>>
            <3>1. PICK t, path : c = <<Finish(t, "notUploaded"), Deleted(path)>>
                  BY <2>1
            <3>2. One(c, Finish(t, "notUploaded")) /\ Finish(t, "notUploaded").do = "finish"
                  BY <3>1, PairCalls, CallsNaming, CallsNotNaming
            <3>3. QED
                  BY <3>2 DEF One, CallsIn, Names, Holders
      <2>2. CASE \E t : c = <<Finish(t, "notUploaded")>> \/ c = <<Enqueue(t, FALSE, Gone)>> \/ c = <<Ask(t)>>
            <3>1. PICK t : c = <<Finish(t, "notUploaded")>> \/ c = <<Enqueue(t, FALSE, Gone)>> \/ c = <<Ask(t)>>
                  BY <2>2
            <3>2. /\ Finish(t, "notUploaded").do # "enqueue" /\ Ask(t).do # "enqueue"
                  /\ Enqueue(t, FALSE, Gone).expected \in Own
                  BY CallsNaming, PlainOwn DEF Enqueue
            <3>3. QED
                  BY <3>1, <3>2, CallLists
      <2>3. CASE \E t, path : c = <<Enqueue(t, TRUE, FileState(known, path))>>
            <3>1. PICK t, path : c = <<Enqueue(t, TRUE, FileState(known, path))>>
                  BY <2>3
            <3>2. FileState(known, path) \in Own
                  BY PlainOwn, StateIsKnown DEF OwnInv
            <3>3. Enqueue(t, TRUE, FileState(known, path)).expected \in Own
                  BY <3>2 DEF Enqueue
            <3>4. QED
                  BY <3>1, <3>3, CallLists
      <2>4. QED
            BY <1>3, <2>1, <2>2, <2>3
<1>5. QED
      BY <1>1, <1>2, <1>3, <1>4, HandlerOwn

\* The call that ends an upload whose question need not be asked.
LEMMA NoConflictOwn ==
  ASSUME NEW t, NEW S
  PROVE  IsSeq(NoConflict(t)) /\ CallsIn(NoConflict(t), S)
<1>1. CASE NoConflict(t) = <<>>
      BY <1>1, CallLists, QuietCalls
<1>2. CASE NoConflict(t) # <<>>
      BY <1>2, NoConflictCalls, CallsNaming DEF One, CallsIn, Names, Holders
<1>3. QED
      BY <1>1, <1>2

LEMMA AskOwn ==
  ASSUME TurnInv, OwnInv, OnAsk
  PROVE  OwnInv'
<1>1. UNCHANGED <<disk, server, clock, foreign, told, known>> /\ agenda # <<>> /\ Calls("ask")
      BY DEF OnAsk, Calls, histories
<1>2. order' = SetOp(Call.ticket, "here", <<>>) /\ agenda' = NoConflict(Call.ticket) \o Tail(agenda)
      BY DEF OnAsk, Then
<1>3. OrderIn(order', Own)
      BY <1>1, <1>2, HolderStart DEF Holders
<1>4. QED
      BY <1>1, <1>2, <1>3, NoConflictOwn, HandlerOwn

LEMMA EnqueueOwn ==
  ASSUME TurnInv, OwnInv, OnEnqueue
  PROVE  OwnInv'
<1> DEFINE t == Call.ticket
           fields == [compares |-> Call.compares, expected |-> Call.expected, create |-> Op(t).path # entry.local]
<1>1. UNCHANGED <<disk, server, clock, foreign, told, known>> /\ agenda # <<>> /\ Calls("enqueue")
      BY DEF OnEnqueue, Calls, histories
<1>2. order' = order \/ order' = SetOp(t, "sent", fields)
      BY DEF OnEnqueue
<1>3. agenda' = <<>> \o Tail(agenda) \/ agenda' = <<Finish(t, "notUploaded")>> \o Tail(agenda)
      BY DEF OnEnqueue, Then
<1>4. Call.expected \in Own
      <2>1. 1 \in DOMAIN agenda /\ Call = agenda[1]
            BY <1>1, NowInOrder, TailSeq DEF Call
      <2>2. QED
            BY <1>1, <2>1 DEF OwnInv, CallsIn, Calls
<1>5. PICK k \in DOMAIN order : order[k].ticket = t /\ order[k].op.kind = "upload"
      BY <1>1, HolderStart DEF Holders
<1>6. /\ DOMAIN fields \cap Reserved = {} /\ {"compares", "expected"} \subseteq DOMAIN fields
      /\ fields.expected = Call.expected
      BY DEF Reserved
<1> HIDE DEF fields, t
<1>7. ExpectsIn(Over(fields, order[k].op), Own)
      <2> DEFINE g == Over(fields, order[k].op)
      <2>1. DOMAIN g = DOMAIN fields \cup DOMAIN order[k].op /\ \A x \in DOMAIN fields : g[x] = fields[x]
            BY OverFields
      <2> HIDE DEF g
      <2>2. ExpectsIn(g, Own)
            BY <1>4, <1>6, <2>1 DEF ExpectsIn
      <2>3. QED
            BY <2>2 DEF g
<1>8. "sent" \in Phases /\ UploadIn("sent", Over(fields, order[k].op), Own)
      BY <1>7 DEF Phases, UploadIn
<1>9. OrderIn(SetOp(t, "sent", fields), Own)
      BY <1>5, <1>6, <1>8, NowInOrder, SetIn DEF OwnInv
<1>10. OrderIn(order', Own)
       BY <1>2, <1>9 DEF OwnInv
<1>11. \E c : IsSeq(c) /\ CallsIn(c, Own) /\ agenda' = c \o Tail(agenda)
       <2>1. Finish(t, "notUploaded").do # "enqueue"
             BY CallsNaming
       <2>2. IsSeq(<<Finish(t, "notUploaded")>>) /\ CallsIn(<<Finish(t, "notUploaded")>>, Own)
             BY <2>1, CallLists
       <2>3. IsSeq(<<>>) /\ CallsIn(<<>>, Own)
             BY CallLists, QuietCalls
       <2>4. QED
             BY <1>3, <2>2, <2>3
<1>12. QED
       BY <1>1, <1>10, <1>11, HandlerOwn

LEMMA LeaveOwn ==
  ASSUME TurnInv, OwnInv, OnLeave
  PROVE  OwnInv'
<1> DEFINE t == Call.ticket
           after == LeaveOrder(order, t)
           C == Called(order, t)
<1>1. UNCHANGED <<disk, server, clock, foreign, told, known>> /\ agenda # <<>>
      BY DEF OnLeave, Calls, tracker, histories
<1>2. \/ /\ HasTicket(order, t) /\ order' = after
         /\ \E turns \in Ascending(C) : agenda' = [i \in DOMAIN turns |-> NextCall(after[turns[i]])] \o Tail(agenda)
      \/ order' = order /\ agenda' = <<>> \o Tail(agenda)
      BY DEF OnLeave, Then
<1> HIDE DEF t, after, C
<1>3. CASE order' = order /\ agenda' = <<>> \o Tail(agenda)
      BY <1>1, <1>3, QuietCalls, HandlerOwn
<1>4. ASSUME HasTicket(order, t), order' = after, NEW turns \in Ascending(C),
             agenda' = [i \in DOMAIN turns |-> NextCall(after[turns[i]])] \o Tail(agenda)
      PROVE  OwnInv'
      <2> DEFINE c == [i \in DOMAIN turns |-> NextCall(after[turns[i]])]
      <2>1. OrderIn(order', Own)
            BY <1>4, NowInOrder, LeaveIn DEF OwnInv, after
      <2>2. IsFiniteSet(C)
            <3>1. PICK n \in DOMAIN order : order[n].ticket = t
                  BY <1>4 DEF HasTicket
            <3>2. OrderOK(after) /\ StartsAfter(order, t) \subseteq DOMAIN after
                  BY <3>1, NowInOrder, LeaveOrderOK DEF after
            <3>3. Len(after) \in Nat /\ DOMAIN after = 1..Len(after)
                  BY <3>2, SeqDomain DEF OrderOK
            <3>4. IsFiniteSet(DOMAIN after)
                  BY <3>3, FS_Interval
            <3>5. C \subseteq DOMAIN after
                  BY <3>2 DEF C, Called
            <3>6. QED
                  BY <3>4, <3>5, FS_Subset
      <2>3. IsSeq(turns)
            BY <1>4, <2>2, AscendingSeq
      <2>4. \A e : NextCall(e).do # "enqueue"
            BY CallsNaming DEF NextCall
      <2>5. DOMAIN c = DOMAIN turns /\ c = [i \in DOMAIN turns |-> c[i]] /\ CallsIn(c, Own)
            BY <2>4 DEF CallsIn
      <2>6. agenda' = c \o Tail(agenda)
            BY <1>4
      <2> HIDE DEF c
      <2>7. IsSeq(c)
            BY <2>3, <2>5, MapSeq
      <2>8. QED
            BY <1>1, <2>1, <2>5, <2>6, <2>7, HandlerOwn
<1>5. QED
      BY <1>2, <1>3, <1>4

\* What is known once an upload is finished: a move may follow it.
LEMMA FinishKnown ==
  ASSUME NEW S, KnownIn(known, S), disk \in [Places -> S], NEW t, NEW outcome, FollowUp(t, outcome)
  PROVE  KnownIn(known', S)
<1> DEFINE u == Op(t)
<1>1. \/ known' = known
      \/ \E fin, serverPath, serverDst, partial : FinishMoved(t, outcome, fin, serverPath, serverDst, partial)
      BY DEF FollowUp
<1>2. ASSUME NEW fin, NEW serverPath, NEW serverDst, NEW partial,
             FinishMoved(t, outcome, fin, serverPath, serverDst, partial)
      PROVE  KnownIn(known', S)
      <2>1. PICK moved : /\ moved = known \/ moved = MoveKnown(known, serverPath, fin.movedTo)
                         /\ \/ known' = moved
                            \/ known' = RememberStates(Forget(moved, u.path), fin.movedTo)
            BY <1>2 DEF FinishMoved
      <2>2. KnownIn(moved, S)
            BY <2>1, KnownChanges
      <2>3. KnownIn(Forget(moved, u.path), S)
            BY <2>2, KnownChanges
      <2>4. KnownIn(RememberStates(Forget(moved, u.path), fin.movedTo), S)
            BY <2>3, KnownStates
      <2>5. QED
            BY <2>1, <2>2, <2>4
<1>3. QED
      BY <1>1, <1>2

LEMMA FinishOwn ==
  ASSUME TurnInv, OwnInv, OnFinish
  PROVE  OwnInv'
<1> DEFINE t == Call.ticket
           n == Leave(t)
<1>1. UNCHANGED <<disk, server, clock, foreign, told>> /\ agenda # <<>>
      BY DEF OnFinish, Calls
<1>2. \/ \E outcome : FollowUp(t, outcome)
      \/ agenda' = <<n>> \o Tail(agenda) /\ UNCHANGED <<known, order>>
      BY DEF OnFinish, Then
<1>3. n.do # "enqueue"
      BY CallsNaming
<1> HIDE DEF t
<1>4. known' = known \/ KnownIn(known', Own)
      BY <1>2, FinishKnown DEF OwnInv
<1>5. order' = order \/ \E paths, op : order' = Entering(order, paths, op)
      BY <1>2, FollowUpCalls
<1>6. OrderIn(order', Own)
      BY <1>5, NowInOrder, EnterIn DEF OwnInv
<1>7. \/ agenda' = <<n>> \o Tail(agenda)
      \/ \E q : Quiet(q) /\ agenda' = (q \o <<n>>) \o Tail(agenda)
      BY <1>2, FollowUpCalls
<1> HIDE DEF n
<1>8. IsSeq(<<n>>) /\ CallsIn(<<n>>, Own)
      BY <1>3, CallLists
<1>9. \A q : Quiet(q) => IsSeq(q \o <<n>>) /\ CallsIn(q \o <<n>>, Own)
      BY <1>8, CallLists
<1>10. \E c : IsSeq(c) /\ CallsIn(c, Own) /\ agenda' = c \o Tail(agenda)
       BY <1>7, <1>8, <1>9
<1>11. QED
       BY <1>1, <1>4, <1>6, <1>10, HandlerOwn

\* What ended is taken back into the tracker's hands.
LEMMA EndedOwn ==
  ASSUME TurnInv, OwnInv, NEW t, NEW kind, IsAt(t, "ended", kind)
  PROVE  /\ OrderIn(SetOp(t, "here", <<>>), Own)
         /\ kind = "upload" => EndsIn(Op(t), Own)
<1>1. PICK k \in DOMAIN order : order[k].ticket = t /\ order[k].phase = "ended" /\ order[k].op.kind = kind
      BY DEF IsAt
<1>2. DOMAIN <<>> \cap Reserved = {}
      BY NoSeq
<1>3. OrderIn(SetOp(order[k].ticket, "here", <<>>), Own)
      BY <1>2, NowInOrder, HereIn DEF OwnInv
<1>4. Op(t) = order[k].op
      BY <1>1, NowInOrder, OpAt
<1>5. kind = "upload" => EndsIn(order[k].op, Own)
      BY <1>1 DEF OwnInv, OrderIn, EntryIn, UploadIn
<1>6. QED
      BY <1>1, <1>3, <1>4, <1>5

LEMMA UploadEndedOwn ==
  ASSUME TurnInv, OwnInv, NEW t, OnUploadEnded(t)
  PROVE  OwnInv'
<1> DEFINE u == Op(t)
<1>1. UNCHANGED <<disk, server, clock, foreign, told>>
      BY DEF OnUploadEnded
<1>2. OrderIn(order', Own) /\ EndsIn(u, Own)
      <2>1. IsAt(t, "ended", "upload") /\ order' = SetOp(t, "here", <<>>)
            BY DEF OnUploadEnded
      <2>2. QED
            BY <2>1, EndedOwn
<1>3. \/ known' = known
      \/ u.result = "completed" /\ known' = RememberSentFiles(KnownAfter(u), u.sent)
      BY DEF OnUploadEnded
<1>4. \/ agenda' = <<IF "check" \in options THEN Ask(t) ELSE Enqueue(t, FALSE, Gone)>>
      \/ \E q, x : Quiet(q) /\ agenda' = q \o <<Finish(t, x)>>
      <2>1. \/ agenda' = <<IF "check" \in options THEN Ask(t) ELSE Enqueue(t, FALSE, Gone)>>
            \/ agenda' = (IF ~IsWatched(u) /\ ~u.dir THEN <<Discard(u.dst)>> ELSE <<>>)
                           \o <<Finish(t, "notUploaded")>>
            \/ \E states : agenda' = (IF u.dir THEN MovedAwayTo(states, u.path) ELSE <<>>)
                                       \o <<Finish(t, "uploaded")>>
            BY DEF OnUploadEnded
      <2>2. Quiet(IF ~IsWatched(u) /\ ~u.dir THEN <<Discard(u.dst)>> ELSE <<>>)
            BY QuietCalls, CallsNotNaming
      <2>3. \A states : Quiet(IF u.dir THEN MovedAwayTo(states, u.path) ELSE <<>>)
            BY QuietCalls, QuietLists
      <2>4. QED
            BY <2>1, <2>2, <2>3
<1> HIDE DEF u
<1>5. known' = known \/ KnownIn(known', Own)
      <2>1. CASE u.result = "completed" /\ known' = RememberSentFiles(KnownAfter(u), u.sent)
            <3>1. Values(u.sent, Own) /\ u.state \in Own
                  BY <1>2, <2>1 DEF EndsIn, SendsIn
            <3>2. KnownIn(KnownAfter(u), Own)
                  BY <3>1, KnownUpload DEF OwnInv
            <3>3. QED
                  BY <2>1, <3>2, KnownChanges
      <2>2. QED
            BY <1>3, <2>1
<1>6. CallsIn(agenda', Own)
      <2>1. CASE agenda' = <<IF "check" \in options THEN Ask(t) ELSE Enqueue(t, FALSE, Gone)>>
            <3>1. Ask(t).do # "enqueue" /\ Enqueue(t, FALSE, Gone).expected \in Own
                  BY CallsNaming, PlainOwn DEF Enqueue
            <3>2. QED
                  BY <2>1, <3>1, CallLists
      <2>2. ASSUME NEW q, NEW x, Quiet(q), agenda' = q \o <<Finish(t, x)>> PROVE CallsIn(agenda', Own)
            <3>1. Finish(t, x).do # "enqueue"
                  BY CallsNaming
            <3>2. IsSeq(<<Finish(t, x)>>) /\ CallsIn(<<Finish(t, x)>>, Own)
                  BY <3>1, CallLists
            <3>3. QED
                  BY <2>2, <3>2, CallLists
      <2>3. QED
            BY <1>4, <2>1, <2>2
<1>7. QED
      BY <1>1, <1>2, <1>5, <1>6, HandlerOwn

LEMMA OthersEndedOwn ==
  ASSUME TurnInv, OwnInv, NEW t, OnRenameEnded(t) \/ OnOtherEnded(t)
  PROVE  OwnInv'
<1>1. UNCHANGED <<disk, server, clock, foreign, told>>
      BY DEF OnRenameEnded, OnOtherEnded, histories
<1>2. OrderIn(order', Own)
      <2>1. (\E kind : IsAt(t, "ended", kind)) /\ order' = SetOp(t, "here", <<>>)
            BY DEF OnRenameEnded, OnOtherEnded
      <2>2. QED
            BY <2>1, EndedOwn
<1>3. known' = known \/ known' = Forget(known, Op(t).path)
      BY DEF OnRenameEnded, OnOtherEnded, tracker
<1>4. known' = known \/ KnownIn(known', Own)
      BY <1>3, KnownChanges DEF OwnInv
<1>5. \/ agenda' = <<Leave(t)>>
      \/ \E q : Quiet(q) /\ agenda' = q \o <<Leave(t)>>
      BY QuietCalls, CallsNotNaming DEF OnRenameEnded, OnOtherEnded
<1>6. IsSeq(<<Leave(t)>>) /\ CallsIn(<<Leave(t)>>, Own)
      <2>1. Leave(t).do # "enqueue"
            BY CallsNaming
      <2>2. QED
            BY <2>1, CallLists
<1>7. CallsIn(agenda', Own)
      BY <1>5, <1>6, CallLists
<1>8. QED
      BY <1>1, <1>2, <1>4, <1>7, HandlerOwn

LEMMA ChangeOwn ==
  ASSUME TurnInv, OwnInv, OnChange
  PROVE  OwnInv'
<1> DEFINE e == Head(events)
<1>1. UNCHANGED <<disk, server, clock, foreign, told>>
      BY DEF OnChange
<1>2. \/ OnMissed(e.path) /\ UNCHANGED <<known, order>>
      \/ OnItemMoved(e.path)
      \/ OnRenamed(e.old, e.path)
      \/ OnReplaced(e.old, e.path, e.dir)
      \/ /\ agenda' = <<IF e.action = "deleted" THEN Deleted(e.path) ELSE ContentChanged(e.path, e.dir, TRUE)>>
         /\ UNCHANGED <<known, order>>
      BY DEF OnChange
<1> HIDE DEF e
<1>3. known' = known \/ \E from, to : known' = MoveKnown(known, from, to)
      BY <1>2 DEF OnItemMoved, OnRenamed, OnReplaced
<1>4. known' = known \/ KnownIn(known', Own)
      BY <1>3, KnownChanges DEF OwnInv
<1>5. PICK cancelled :
        /\ cancelled = order \/ \E dst, partial : cancelled = Cancelled(order, dst, partial)
        /\ order' = cancelled \/ \E paths, op : order' = Entering(cancelled, paths, op)
      <2>1. CASE OnItemMoved(e.path)
            BY <2>1 DEF OnItemMoved
      <2>2. CASE OnRenamed(e.old, e.path)
            BY <2>2 DEF OnRenamed
      <2>3. CASE OnReplaced(e.old, e.path, e.dir)
            BY <2>3 DEF OnReplaced
      <2>4. QED
            BY <1>2, <2>1, <2>2, <2>3
<1>6. OrderOK(cancelled) /\ OrderIn(cancelled, Own)
      BY <1>5, NowInOrder, CancelledMoves, CancelIn DEF OwnInv
<1>7. OrderIn(order', Own)
      BY <1>5, <1>6, EnterIn
<1>8. Quiet(agenda')
      <2>1. OnItemMoved(e.path) \/ OnRenamed(e.old, e.path) => agenda' = <<>>
            BY DEF OnItemMoved, OnRenamed
      <2>2. QED
            BY <1>2, <2>1, MissedCalls, ReplacedCalls, QuietCalls, CallsNotNaming
<1>9. QED
      BY <1>1, <1>4, <1>7, <1>8, HandlerOwn

LEMMA ConnectionLostOwn ==
  ASSUME TurnInv, OwnInv, ConnectionLost
  PROVE  OwnInv'
<1> DEFINE c == [i \in DOMAIN conflicts |-> Leave(conflicts[i])]
           o2 == [i \in DOMAIN order |->
                    IF order[i].phase = "waiting" THEN [order[i] EXCEPT !.phase = "dropped"] ELSE order[i]]
<1>1. UNCHANGED <<disk, server, clock, foreign, told>> /\ known' = NothingKnown /\ order' = o2
      BY DEF ConnectionLost, EndWatch
<1>2. KnownIn(known', Own)
      BY <1>1, KnownChanges DEF OwnInv
<1>3. OrderIn(o2, Own)
      <2>1. DOMAIN o2 = DOMAIN order
            OBVIOUS
      <2>2. ASSUME NEW i \in DOMAIN order PROVE EntryIn(o2[i], Own)
            <3>1. EntryIn(order[i], Own) /\ IsEntry(order[i])
                  BY NowInOrder DEF OwnInv, OrderIn, OrderOK
            <3>2. CASE order[i].phase # "waiting"
                  BY <3>1, <3>2
            <3>3. CASE order[i].phase = "waiting"
                  <4>1. o2[i] = [order[i] EXCEPT !.phase = "dropped"]
                        BY <3>3
                  <4> HIDE DEF o2
                  <4>2. o2[i].phase = "dropped"
                        BY <3>1, <4>1 DEF IsEntry
                  <4>3. QED
                        BY <4>2 DEF EntryIn, UploadIn
            <3>4. QED
                  BY <3>2, <3>3
      <2> HIDE DEF o2
      <2>3. QED
            BY <2>1, <2>2 DEF OrderIn
<1>4. PICK waiting \in Ascending(WaitingPlaces) :
        agenda' = c \o [i \in DOMAIN waiting |-> Leave(order[waiting[i]].ticket)]
      BY DEF ConnectionLost, EndWatch
<1> DEFINE d == [i \in DOMAIN waiting |-> Leave(order[waiting[i]].ticket)]
<1>5. \A t : Leave(t).do # "enqueue"
      BY CallsNaming
<1>6. IsSeq(c) /\ CallsIn(c, Own)
      <2>1. DOMAIN c = DOMAIN conflicts /\ c = [i \in DOMAIN conflicts |-> c[i]] /\ IsSeq(conflicts)
            BY NowInOrder
      <2>2. CallsIn(c, Own)
            BY <1>5 DEF CallsIn
      <2> HIDE DEF c
      <2>3. QED
            BY <2>1, <2>2, MapSeq
<1>7. IsSeq(d) /\ CallsIn(d, Own)
      <2>1. IsFiniteSet(WaitingPlaces)
            <3>1. Len(order) \in Nat /\ DOMAIN order = 1..Len(order)
                  BY NowInOrder, SeqDomain DEF OrderOK
            <3>2. IsFiniteSet(DOMAIN order)
                  BY <3>1, FS_Interval
            <3>3. QED
                  BY <3>2, FS_Subset DEF WaitingPlaces
      <2>2. IsSeq(waiting)
            BY <2>1, AscendingSeq
      <2>3. DOMAIN d = DOMAIN waiting /\ d = [i \in DOMAIN waiting |-> d[i]]
            OBVIOUS
      <2>4. CallsIn(d, Own)
            BY <1>5 DEF CallsIn
      <2> HIDE DEF d
      <2>5. QED
            BY <2>2, <2>3, <2>4, MapSeq
<1> HIDE DEF c, d, o2
<1>8. agenda' = c \o d
      BY <1>4 DEF d
<1>9. CallsIn(agenda', Own)
      BY <1>6, <1>7, <1>8, CallLists
<1>10. QED
       BY <1>1, <1>2, <1>3, <1>9, HandlerOwn

\* Edits and other clients: a new version is the tracker's to know unless another client wrote it.
LEMMA GrowOwn ==
  ASSUME OwnInv, Own \subseteq Own', UNCHANGED <<known, order, agenda>>,
         clock' \in Nat /\ Dir <= clock' /\ foreign' \subseteq (Dir + 1)..clock',
         disk' \in [Places -> Own'], server' \in [Places -> 0..clock']
  PROVE  OwnInv'
<1>1. KnownIn(known, Own') /\ OrderIn(order, Own') /\ CallsIn(agenda, Own')
      BY StaysIn DEF OwnInv
<1>2. QED
      BY <1>1 DEF OwnInv

LEMMA MovedTree ==
  ASSUME NEW S, Gone \in S, NEW content \in [Places -> S], NEW from, NEW to
  PROVE  TreeMoved(content, from, to) \in [Places -> S]
BY DEF TreeMoved

LEMMA WritesOwn ==
  ASSUME OwnInv, NEW p \in Places, WriteFile(p) \/ ForeignWrites(p)
  PROVE  OwnInv'
<1>1. clock' = clock + 1 /\ UNCHANGED <<known, order, agenda, told>>
      BY DEF WriteFile, ForeignWrites, Edit, tracker
<1>2. \/ disk' = [disk EXCEPT ![p] = clock'] /\ UNCHANGED <<server, foreign>>
      \/ server' = [server EXCEPT ![p] = clock'] /\ foreign' = foreign \cup {clock'} /\ UNCHANGED disk
      BY DEF WriteFile, ForeignWrites, Edit
<1>3. /\ clock \in Nat /\ Dir <= clock /\ foreign \subseteq (Dir + 1)..clock /\ Dir = 1
      /\ disk \in [Places -> Own] /\ server \in [Places -> 0..clock]
      BY DEF OwnInv, Dir
<1>4. Own' = (0..clock') \ (foreign' \ told)
      BY <1>1 DEF Own
<1>5. clock' \in Nat /\ Dir <= clock' /\ foreign' \subseteq (Dir + 1)..clock'
      <2>1. clock' \in Nat /\ Dir <= clock' /\ (Dir + 1)..clock \subseteq (Dir + 1)..clock'
            /\ clock' \in (Dir + 1)..clock'
            BY <1>1, <1>3
      <2>2. foreign' = foreign \/ foreign' = foreign \cup {clock'}
            BY <1>2
      <2>3. foreign \subseteq (Dir + 1)..clock
            BY <1>3
      <2>4. QED
            BY <2>1, <2>2, <2>3
<1>6. Own \subseteq Own'
      BY <1>1, <1>2, <1>3, <1>4 DEF Own
<1>7. server' \in [Places -> 0..clock']
      <2>1. 0..clock \subseteq 0..clock' /\ clock' \in 0..clock'
            BY <1>1, <1>3
      <2>2. server \in [Places -> 0..clock']
            BY <1>3, <2>1
      <2>3. QED
            BY <1>2, <2>1, <2>2
<1>8. disk' \in [Places -> Own']
      <2>1. disk \in [Places -> Own']
            BY <1>3, <1>6
      <2>2. foreign' = foreign => clock' \in Own'
            BY <1>1, <1>3, <1>4
      <2>3. QED
            BY <1>2, <2>1, <2>2
<1>9. QED
      BY <1>1, <1>5, <1>6, <1>7, <1>8, GrowOwn

LEMMA EditOwn ==
  ASSUME TurnInv, OwnInv, Edits
  PROVE  OwnInv'
<1>1. ASSUME UNCHANGED <<clock, foreign, told, known, order, agenda>>,
             disk' \in [Places -> Own], server' \in [Places -> 0..clock]
      PROVE  OwnInv'
      <2>1. Own' = Own
            BY <1>1 DEF Own
      <2>2. QED
            BY <1>1, <2>1, GrowOwn DEF OwnInv
<1>2. disk \in [Places -> Own] /\ server \in [Places -> 0..clock] /\ Gone \in Own /\ Dir \in Own /\ Gone \in 0..clock
      BY PlainOwn DEF OwnInv, Own
<1>3. CASE \E p \in Places : WriteFile(p) \/ ForeignWrites(p)
      BY <1>3, WritesOwn
<1>4. ASSUME NEW p \in Places, MakeDirectory(p) \/ DeleteEntry(p) \/ MoveOut(p) PROVE OwnInv'
      <2>1. UNCHANGED <<clock, foreign, told, known, order, agenda, server>>
            BY <1>4 DEF MakeDirectory, DeleteEntry, MoveOut, Edit, tracker
      <2>2. \/ \E v \in {Dir, Gone} : disk' = [disk EXCEPT ![p] = v]
            \/ disk' = [q \in Places |-> IF IsWithin(q, p) THEN Gone ELSE disk[q]]
            BY <1>4 DEF MakeDirectory, DeleteEntry, MoveOut, Edit
      <2>3. disk' \in [Places -> Own]
            BY <1>2, <2>2
      <2>4. QED
            BY <1>1, <1>2, <2>1, <2>3
<1>5. ASSUME NEW p \in Places, NEW q \in Places, MoveEntry(p, q) PROVE OwnInv'
      <2>1. UNCHANGED <<clock, foreign, told, known, order, agenda, server>> /\ disk' = TreeMoved(disk, p, q)
            BY <1>5 DEF MoveEntry, Edit, tracker
      <2>2. disk' \in [Places -> Own]
            BY <1>2, <2>1, MovedTree
      <2>3. QED
            BY <1>1, <1>2, <2>1, <2>2
<1>6. CASE LoseChanges
      BY <1>1, <1>2, <1>6 DEF LoseChanges, tracker, histories
<1>7. ASSUME NEW p \in Places, ForeignDeletes(p) PROVE OwnInv'
      <2>1. UNCHANGED <<clock, foreign, told, known, order, agenda, disk>> /\ server' = [server EXCEPT ![p] = Gone]
            BY <1>7 DEF ForeignDeletes, tracker
      <2>2. QED
            BY <1>1, <1>2, <2>1
<1>8. QED
      BY <1>3, <1>4, <1>5, <1>6, <1>7 DEF Edits

\* An operation on its way goes on or ends: what it carries is the tracker's own.
LEMMA OverKeeps ==
  ASSUME NEW f, NEW op, NEW g, g = Over(f, op)
  PROVE  /\ \A x \in DOMAIN f : x \in DOMAIN g /\ g[x] = f[x]
         /\ \A x \in DOMAIN op : x \notin DOMAIN f => x \in DOMAIN g /\ g[x] = op[x]
<1> DEFINE h == Over(f, op)
<1>1. /\ DOMAIN h = DOMAIN f \cup DOMAIN op
      /\ \A x \in DOMAIN f : h[x] = f[x]
      /\ \A x \in DOMAIN op : x \notin DOMAIN f => h[x] = op[x]
      BY OverFields
<1>2. g = h
      OBVIOUS
<1> HIDE DEF h
<1>3. QED
      BY <1>1, <1>2

LEMMA UploadAt ==
  ASSUME TurnInv, OwnInv, NEW t, NEW from, IsAt(t, from, "upload")
  PROVE  UploadIn(from, Op(t), Own)
<1>1. PICK k \in DOMAIN order : order[k].ticket = t /\ order[k].phase = from /\ order[k].op.kind = "upload"
      BY DEF IsAt
<1>2. Op(t) = order[k].op
      BY <1>1, NowInOrder, OpAt
<1>3. QED
      BY <1>1, <1>2 DEF OwnInv, OrderIn, EntryIn

LEMMA RemotelyOwn ==
  ASSUME TurnInv, OwnInv, NEW t, NEW from, NEW kind, IsAt(t, from, kind), NEW ph \in Phases, NEW fields,
         DOMAIN fields \cap Reserved = {}, Remotely(t, ph, fields),
         foreign' = foreign, told \subseteq told', server' \in [Places -> 0..clock],
         kind = "upload" => UploadIn(ph, Over(fields, Op(t)), Own')
  PROVE  OwnInv'
<1>1. order' = SetOp(t, ph, fields) /\ UNCHANGED <<disk, clock, known, agenda>>
      BY DEF Remotely, tracker
<1>2. Own \subseteq Own'
      BY <1>1 DEF Own
<1>3. KnownIn(known, Own') /\ OrderIn(order, Own') /\ CallsIn(agenda, Own')
      BY <1>2, StaysIn DEF OwnInv
<1>4. PICK k \in DOMAIN order : order[k].ticket = t /\ order[k].op.kind = kind
      BY DEF IsAt
<1>5. Op(t) = order[k].op
      BY <1>4, NowInOrder, OpAt
<1>6. OrderIn(SetOp(t, ph, fields), Own')
      BY <1>3, <1>4, <1>5, NowInOrder, SetIn
<1>7. disk' \in [Places -> Own']
      BY <1>1, <1>2 DEF OwnInv
<1>8. QED
      BY <1>1, <1>3, <1>6, <1>7 DEF OwnInv

LEMMA EndsOwn ==
  ASSUME TurnInv, OwnInv, NEW t, NEW from, NEW kind, IsAt(t, from, kind), NEW result,
         kind = "upload" => result # "completed", Ends(t, result, <<>>),
         UNCHANGED <<foreign, told>>, server' \in [Places -> 0..clock]
  PROVE  OwnInv'
<1> DEFINE f == Over([result |-> result], <<>>)
           g == Over(f, Op(t))
<1>1. DOMAIN f = {"result"} /\ f["result"] = result
      BY NoSeq DEF Over
<1>2. Remotely(t, "ended", f) /\ "ended" \in Phases
      BY DEF Ends, Phases
<1>3. DOMAIN f \cap Reserved = {}
      BY <1>1 DEF Reserved
<1> HIDE DEF f
<1>4. \A x \in DOMAIN f : x \in DOMAIN g /\ g[x] = f[x]
      BY OverKeeps
<1>5. kind = "upload" => UploadIn("ended", g, Own')
      <2> HIDE DEF g
      <2>1. QED
            BY <1>1, <1>4 DEF UploadIn, EndsIn
<1>6. QED
      BY <1>2, <1>3, <1>5, RemotelyOwn

LEMMA UploadStartsOwn ==
  ASSUME TurnInv, OwnInv, NEW t, UploadStarts(t)
  PROVE  OwnInv'
<1> DEFINE u == Op(t)
<1>1. IsAt(t, "sent", "upload") /\ UNCHANGED <<foreign, told>> /\ disk \in [Places -> Own]
      BY DEF UploadStarts, OwnInv
<1>2. server' = server \/ \E dirs : server' = WithDirectories(dirs)
      BY DEF UploadStarts
<1>3. server' \in [Places -> 0..clock]
      BY <1>2 DEF OwnInv, WithDirectories, Dir
<1>4. ExpectsIn(u, Own)
      BY <1>1, UploadAt DEF UploadIn
<1>5. ASSUME NEW alone, NEW c, u.path \in Places,
             Remotely(t, "running", [read |-> disk[u.path], asDir |-> FALSE, alone |-> alone, cancel |-> "no",
                                     failed |-> {}, continued |-> c])
      PROVE  OwnInv'
      <2> DEFINE f == [read |-> disk[u.path], asDir |-> FALSE, alone |-> alone, cancel |-> "no", failed |-> {},
                       continued |-> c]
                 g == Over(f, u)
      <2>1. DOMAIN f \cap Reserved = {} /\ {"compares", "expected"} \cap DOMAIN f = {}
            BY DEF Reserved
      <2>2. {"read", "asDir"} \subseteq DOMAIN f /\ f["read"] \in Own /\ f["asDir"] = FALSE
            BY <1>1, <1>5
      <2>3. Remotely(t, "running", f) /\ "running" \in Phases
            BY <1>5 DEF Phases
      <2> HIDE DEF f, u
      <2>4. /\ \A x \in DOMAIN f : x \in DOMAIN g /\ g[x] = f[x]
            /\ \A x \in DOMAIN u : x \notin DOMAIN f => x \in DOMAIN g /\ g[x] = u[x]
            BY OverKeeps
      <2> HIDE DEF g
      <2>5. ExpectsIn(g, Own)
            BY <1>4, <2>1, <2>4 DEF ExpectsIn
      <2>6. RunsIn(g, Own)
            BY <2>2, <2>4 DEF RunsIn, ReadsIn
      <2>7. Own' = Own
            BY <1>1, <2>3 DEF Own, Remotely
      <2>8. UploadIn("running", g, Own')
            BY <2>5, <2>6, <2>7 DEF UploadIn
      <2>9. QED
            BY <1>1, <1>3, <2>1, <2>3, <2>8, RemotelyOwn DEF g, u
<1>6. \/ \E result \in {"canceled", "changed", "failed"} : Ends(t, result, <<>>)
      \/ /\ u.path \in Places
         /\ \E alone, c : Remotely(t, "running", [read |-> disk[u.path], asDir |-> FALSE, alone |-> alone, cancel |-> "no",
                                                  failed |-> {}, continued |-> c])
      BY DEF UploadStarts, IsGoneLocally
<1>7. ASSUME NEW result \in {"canceled", "changed", "failed"}, Ends(t, result, <<>>) PROVE OwnInv'
      BY <1>1, <1>3, <1>7, EndsOwn
<1>8. QED
      BY <1>5, <1>6, <1>7

LEMMA UploadChecksOwn ==
  ASSUME TurnInv, OwnInv, NEW t, UploadChecks(t)
  PROVE  OwnInv'
<1> DEFINE u == Op(t)
           f == [seen |-> server[u.dst]]
           g == Over(f, u)
<1>1. IsAt(t, "running", "upload") /\ UNCHANGED <<foreign, told, server>> /\ server \in [Places -> 0..clock] /\ ~u.asDir
      BY DEF UploadChecks, histories, OwnInv
<1>2. ExpectsIn(u, Own) /\ ReadsIn(u, Own)
      BY <1>1, UploadAt DEF UploadIn, RunsIn
<1>3. CASE Ends(t, "changed", <<>>)
      BY <1>1, <1>3, EndsOwn
<1>4. CASE AsExpected(u) /\ Remotely(t, "checked", f)
      <2>1. DOMAIN f \cap Reserved = {} /\ DOMAIN f = {"seen"} /\ f["seen"] = server[u.dst]
            BY DEF Reserved
      <2>2. ~u.compares \/ server[u.dst] = u.expected
            BY <1>4 DEF AsExpected
      <2>3. Remotely(t, "checked", f) /\ "checked" \in Phases
            BY <1>4 DEF Phases
      <2> HIDE DEF f, u
      <2>4. /\ \A x \in DOMAIN f : x \in DOMAIN g /\ g[x] = f[x]
            /\ \A x \in DOMAIN u : x \notin DOMAIN f => x \in DOMAIN g /\ g[x] = u[x]
            BY OverKeeps
      <2> HIDE DEF g
      <2>5. ExpectsIn(g, Own) /\ ReadsIn(g, Own)
            BY <1>2, <2>1, <2>4 DEF ExpectsIn, ReadsIn
      <2>6. g.compares = u.compares /\ g.seen = server[u.dst] /\ "seen" \in DOMAIN g
            BY <1>2, <2>1, <2>4 DEF ExpectsIn
      <2>7. SeesIn(g, Own)
            BY <1>2, <2>2, <2>6 DEF SeesIn, ExpectsIn
      <2>8. Own' = Own
            BY <1>1, <2>3 DEF Own, Remotely
      <2>9. UploadIn("checked", g, Own')
            BY <2>5, <2>7, <2>8 DEF UploadIn
      <2>10. QED
             BY <1>1, <2>1, <2>3, <2>9, RemotelyOwn DEF g, u
<1>5. QED
      BY <1>3, <1>4 DEF UploadChecks

LEMMA UploadReplacesOwn ==
  ASSUME TurnInv, OwnInv, NEW t, UploadReplaces(t)
  PROVE  OwnInv'
<1> DEFINE u == Op(t)
           state == IF disk[u.path] = u.read /\ ~u.continued THEN OneValue(u.path, u.read) ELSE <<>>
           f == [sent |-> state]
           g == Over(f, u)
<1>1. IsAt(t, "checked", "upload") /\ UNCHANGED <<foreign, told>> /\ server \in [Places -> 0..clock]
      BY DEF UploadReplaces, histories, OwnInv
<1>2. u.read \in Own
      BY <1>1, UploadAt DEF UploadIn, ReadsIn
<1>3. CASE Ends(t, "failed", <<>>) /\ server' = server
      BY <1>1, <1>3, EndsOwn
<1>4. CASE server' = [server EXCEPT ![u.dst] = u.read] /\ Remotely(t, "stat", f)
      <2>1. server' \in [Places -> 0..clock]
            BY <1>1, <1>2, <1>4 DEF Own
      <2>2. Values(state, Own)
            BY <1>2, OneValueIn, NoValues
      <2> HIDE DEF state
      <2>3. DOMAIN f \cap Reserved = {} /\ DOMAIN f = {"sent"} /\ f["sent"] = state
            BY DEF Reserved
      <2>4. Remotely(t, "stat", f) /\ "stat" \in Phases
            BY <1>4 DEF Phases
      <2> HIDE DEF f, u
      <2>5. \A x \in DOMAIN f : x \in DOMAIN g /\ g[x] = f[x]
            BY OverKeeps
      <2> HIDE DEF g
      <2>6. SendsIn(g, Own)
            BY <2>2, <2>3, <2>5 DEF SendsIn
      <2>7. Own' = Own
            BY <1>1, <2>4 DEF Own, Remotely
      <2>8. UploadIn("stat", g, Own')
            BY <2>6, <2>7 DEF UploadIn
      <2>9. QED
            BY <1>1, <2>1, <2>3, <2>4, <2>8, RemotelyOwn DEF g, u
<1>5. QED
      BY <1>3, <1>4 DEF UploadReplaces

\* A completed upload is told what the server has, be it another client's.
LEMMA CompletedOwn ==
  ASSUME TurnInv, OwnInv, NEW t, NEW from, IsAt(t, from, "upload"), SendsIn(Op(t), Own),
         NEW state \in Own', Ends(t, "completed", [state |-> state]),
         foreign' = foreign, told \subseteq told', server' = server
  PROVE  OwnInv'
<1> DEFINE u == Op(t)
           f == Over([result |-> "completed"], [state |-> state])
           g == Over(f, u)
<1>1. DOMAIN f = {"result", "state"} /\ f["result"] = "completed" /\ f["state"] = state
      BY DEF Over
<1>2. Remotely(t, "ended", f) /\ "ended" \in Phases
      BY DEF Ends, Phases
<1>3. DOMAIN f \cap Reserved = {}
      BY <1>1 DEF Reserved
<1> HIDE DEF f, u
<1>4. /\ \A x \in DOMAIN f : x \in DOMAIN g /\ g[x] = f[x]
      /\ \A x \in DOMAIN u : x \notin DOMAIN f => x \in DOMAIN g /\ g[x] = u[x]
      BY OverKeeps
<1> HIDE DEF g
<1>5. SendsIn(g, Own')
      <2>1. Own \subseteq Own'
            BY <1>2 DEF Own, Remotely
      <2>2. SendsIn(u, Own')
            BY <2>1, StaysIn DEF SendsIn, u
      <2>3. QED
            BY <1>1, <1>4, <2>2 DEF SendsIn
<1>6. UploadIn("ended", g, Own')
      BY <1>1, <1>4, <1>5 DEF UploadIn, EndsIn
<1>7. server' \in [Places -> 0..clock]
      BY DEF OwnInv
<1>8. QED
      BY <1>2, <1>3, <1>6, <1>7, RemotelyOwn DEF g, u

LEMMA CompletesOwn ==
  ASSUME TurnInv, OwnInv, NEW t, UploadTold(t) \/ DirectoryUploadEnds(t)
  PROVE  OwnInv'
<1>1. CASE UploadTold(t)
      <2> DEFINE state == OnServer(Op(t).dst)
      <2>1. /\ IsAt(t, "stat", "upload") /\ UNCHANGED <<server, foreign, clock>>
            /\ \/ Ends(t, "completed", [state |-> state]) /\ told' = told \cup ({state} \cap foreign)
               \/ Ends(t, "completed", [state |-> Gone]) /\ told' = told
            BY <1>1 DEF UploadTold, Ends, Remotely
      <2>2. SendsIn(Op(t), Own)
            BY <2>1, UploadAt DEF UploadIn
      <2>3. state \in 0..clock
            BY DEF OwnInv, OnServer, Gone
      <2> HIDE DEF state
      <2>4. Own' = (0..clock) \ (foreign \ told')
            BY <2>1 DEF Own
      <2>5. CASE Ends(t, "completed", [state |-> state]) /\ told' = told \cup ({state} \cap foreign)
            <3>1. state \in Own'
                  BY <2>3, <2>4, <2>5
            <3>2. QED
                  BY <2>1, <2>2, <2>5, <3>1, CompletedOwn
      <2>6. CASE Ends(t, "completed", [state |-> Gone]) /\ told' = told
            <3>1. Gone \in Own'
                  BY <2>1, <2>6, PlainOwn DEF Own
            <3>2. QED
                  BY <2>1, <2>2, <2>6, <3>1, CompletedOwn
      <2>7. QED
            BY <2>1, <2>5, <2>6
<1>2. CASE DirectoryUploadEnds(t)
      <2>1. /\ IsAt(t, "running", "upload") /\ Ends(t, "completed", [state |-> Gone]) /\ Op(t).asDir
            /\ UNCHANGED <<server, foreign, told, clock>>
            BY <1>2 DEF DirectoryUploadEnds, Ends, Remotely, histories
      <2>2. SendsIn(Op(t), Own)
            BY <2>1, UploadAt DEF UploadIn, RunsIn
      <2>3. Gone \in Own'
            BY <2>1, PlainOwn DEF Own
      <2>4. QED
            BY <2>1, <2>2, <2>3, CompletedOwn
<1>3. QED
      BY <1>1, <1>2

LEMMA DirectoryStartsOwn ==
  ASSUME TurnInv, OwnInv, NEW t, DirectoryUploadStarts(t)
  PROVE  OwnInv'
<1> DEFINE u == Op(t)
<1>1. IsAt(t, "sent", "upload") /\ UNCHANGED <<foreign, told>>
      BY DEF DirectoryUploadStarts, histories
<1>2. server' = server \/ \E dirs : server' = WithDirectories(dirs)
      BY DEF DirectoryUploadStarts
<1>3. server' \in [Places -> 0..clock]
      BY <1>2 DEF OwnInv, WithDirectories, Dir
<1>4. ExpectsIn(u, Own)
      BY <1>1, UploadAt DEF UploadIn
<1>5. ASSUME NEW todo, NEW failed, NEW made,
             Remotely(t, "running", [todo |-> todo, failed |-> failed, made |-> made, sent |-> <<>>, asDir |-> TRUE,
                                     cancel |-> "no", alone |-> FALSE])
      PROVE  OwnInv'
      <2> DEFINE f == [todo |-> todo, failed |-> failed, made |-> made, sent |-> <<>>, asDir |-> TRUE,
                       cancel |-> "no", alone |-> FALSE]
                 g == Over(f, u)
      <2>1. DOMAIN f \cap Reserved = {} /\ {"compares", "expected"} \cap DOMAIN f = {}
            BY DEF Reserved
      <2>2. {"sent", "asDir"} \subseteq DOMAIN f /\ f["sent"] = <<>> /\ f["asDir"] = TRUE
            OBVIOUS
      <2>3. Remotely(t, "running", f) /\ "running" \in Phases
            BY <1>5 DEF Phases
      <2> HIDE DEF f, u
      <2>4. /\ \A x \in DOMAIN f : x \in DOMAIN g /\ g[x] = f[x]
            /\ \A x \in DOMAIN u : x \notin DOMAIN f => x \in DOMAIN g /\ g[x] = u[x]
            BY OverKeeps
      <2> HIDE DEF g
      <2>5. ExpectsIn(g, Own)
            BY <1>4, <2>1, <2>4 DEF ExpectsIn
      <2>6. RunsIn(g, Own)
            BY <2>2, <2>4, NoValues DEF RunsIn, SendsIn
      <2>7. Own' = Own
            BY <1>1, <2>3 DEF Own, Remotely
      <2>8. UploadIn("running", g, Own')
            BY <2>5, <2>6, <2>7 DEF UploadIn
      <2>9. QED
            BY <1>1, <1>3, <2>1, <2>3, <2>8, RemotelyOwn DEF g, u
<1>6. \/ Ends(t, "failed", <<>>)
      \/ \E todo, failed, made :
           Remotely(t, "running", [todo |-> todo, failed |-> failed, made |-> made, sent |-> <<>>, asDir |-> TRUE,
                                   cancel |-> "no", alone |-> FALSE])
      BY DEF DirectoryUploadStarts
<1>7. CASE Ends(t, "failed", <<>>)
      BY <1>1, <1>3, <1>7, EndsOwn
<1>8. QED
      BY <1>5, <1>6, <1>7

LEMMA DirectorySendsOwn ==
  ASSUME TurnInv, OwnInv, NEW t, NEW p \in Places, DirectoryUploadSends(t, p)
  PROVE  OwnInv'
<1> DEFINE u == Op(t)
<1>1. /\ IsAt(t, "running", "upload") /\ UNCHANGED <<foreign, told>> /\ server \in [Places -> 0..clock] /\ u.asDir
      /\ disk[p] \in Own
      BY DEF DirectoryUploadSends, histories, OwnInv
<1>2. server' = server \/ \E at : server' = [server EXCEPT ![at] = disk[p]]
      BY DEF DirectoryUploadSends
<1>3. server' \in [Places -> 0..clock]
      BY <1>1, <1>2 DEF Own
<1>4. ExpectsIn(u, Own) /\ "asDir" \in DOMAIN u /\ SendsIn(u, Own)
      BY <1>1, UploadAt DEF UploadIn, RunsIn
<1>5. PICK f : /\ \/ \E todo : f = [todo |-> todo, sent |-> Over(OneValue(p, disk[p]), u.sent)]
                  \/ \E todo, failed : f = [todo |-> todo, failed |-> failed]
               /\ Remotely(t, "running", f)
      BY DEF DirectoryUploadSends
<1>6. DOMAIN f \cap Reserved = {} /\ {"compares", "expected", "asDir"} \cap DOMAIN f = {}
      BY <1>5 DEF Reserved
<1>7. \/ "sent" \in DOMAIN f /\ f["sent"] = Over(OneValue(p, disk[p]), u.sent)
      \/ "sent" \notin DOMAIN f
      BY <1>5
<1>8. Values(Over(OneValue(p, disk[p]), u.sent), Own)
      BY <1>1, <1>4, OneValueIn, OverValues DEF SendsIn
<1> DEFINE g == Over(f, u)
<1> HIDE DEF u
<1>9. /\ \A x \in DOMAIN f : x \in DOMAIN g /\ g[x] = f[x]
      /\ \A x \in DOMAIN u : x \notin DOMAIN f => x \in DOMAIN g /\ g[x] = u[x]
      BY OverKeeps
<1> HIDE DEF g
<1>10. ExpectsIn(g, Own)
       BY <1>4, <1>6, <1>9 DEF ExpectsIn
<1>11. "sent" \in DOMAIN g /\ Values(g["sent"], Own)
       BY <1>4, <1>7, <1>8, <1>9 DEF SendsIn
<1>12. RunsIn(g, Own)
       BY <1>1, <1>4, <1>6, <1>9, <1>11 DEF RunsIn, SendsIn
<1>13. Own' = Own
       BY <1>1, <1>5 DEF Own, Remotely
<1>14. UploadIn("running", g, Own') /\ "running" \in Phases
       BY <1>10, <1>12, <1>13 DEF UploadIn, Phases
<1>15. QED
       BY <1>1, <1>3, <1>5, <1>6, <1>14, RemotelyOwn DEF g, u

LEMMA OtherEndsOwn ==
  ASSUME TurnInv, OwnInv, NEW t,
         UploadCanceled(t) \/ UploadFails(t) \/ RemoteRenames(t) \/ RemoteRemoves(t) \/ RemoteDiscards(t)
  PROVE  OwnInv'
<1>1. UNCHANGED <<foreign, told>> /\ server \in [Places -> 0..clock] /\ Gone \in 0..clock
      BY DEF UploadCanceled, UploadFails, RemoteRenames, RemoteRemoves, RemoteDiscards, histories, OwnInv, Gone
<1>2. PICK kind, from, result : /\ IsAt(t, from, kind) /\ Ends(t, result, <<>>)
                                /\ kind = "upload" => result # "completed"
      BY DEF UploadCanceled, UploadFails, RemoteRenames, RemoteRemoves, RemoteDiscards
<1>3. \/ server' = server
      \/ \E a, b : server' = TreeMoved(server, a, b)
      \/ \E at : server' = [server EXCEPT ![at] = Gone]
      BY DEF UploadCanceled, UploadFails, RemoteRenames, RemoteRemoves, RemoteDiscards
<1>4. server' \in [Places -> 0..clock]
      <2>1. \A a, b : TreeMoved(server, a, b) \in [Places -> 0..clock]
            BY <1>1, MovedTree
      <2>2. QED
            BY <1>1, <1>3, <2>1
<1>5. QED
      BY <1>1, <1>2, <1>4, EndsOwn

LEMMA OperationOwn ==
  ASSUME TurnInv, OwnInv, Operations \/ \E t \in Tickets : UploadFails(t)
  PROVE  OwnInv'
BY UploadStartsOwn, UploadChecksOwn, UploadReplacesOwn, CompletesOwn, DirectoryStartsOwn, DirectorySendsOwn,
   OtherEndsOwn DEF Operations

LEMMA InitOwn == Init => OwnInv
<1> SUFFICES ASSUME Init PROVE OwnInv
    OBVIOUS
<1>1. /\ disk = Disk0 /\ server = [p \in Places |-> Gone] /\ foreign = {} /\ told = {}
      /\ known = NothingKnown /\ order = <<>> /\ agenda = <<>>
      /\ clock = CHOOSE n \in {Disk0[p] : p \in Places} : \A p \in Places : Disk0[p] <= n
      BY DEF Init
<1>2. clock \in {Disk0[p] : p \in Places} /\ \A p \in Places : Disk0[p] <= clock
      <2>1. \E n \in {Disk0[p] : p \in Places} : \A p \in Places : Disk0[p] <= n
            BY DiskAtFirst
      <2>2. QED
            BY <1>1, <2>1
<1>3. clock \in Nat /\ Dir <= clock
      <2>1. Item \in Places /\ Disk0[Item] \in Nat /\ Disk0[Item] # 0
            BY PlacesClosed, DiskAtFirst DEF Gone
      <2>2. clock \in Nat /\ Disk0[Item] <= clock
            BY <1>2, <2>1, DiskAtFirst
      <2>3. QED
            BY <2>1, <2>2 DEF Dir
<1>4. Own = 0..clock
      BY <1>1 DEF Own
<1>5. disk \in [Places -> Own] /\ server \in [Places -> 0..clock]
      <2>1. \A p \in Places : Disk0[p] \in 0..clock
            BY <1>2, <1>3, DiskAtFirst
      <2>2. Disk0 \in [Places -> 0..clock]
            BY <2>1, DiskAtFirst
      <2>3. 0 \in 0..clock
            BY <1>3
      <2>4. QED
            BY <1>1, <1>4, <2>2, <2>3 DEF Gone
<1>6. KnownIn(known, Own)
      BY <1>1, NoValues DEF KnownIn, NothingKnown
<1>7. OrderIn(order, Own) /\ CallsIn(agenda, Own)
      BY <1>1, NoSeq DEF OrderIn, CallsIn
<1>8. QED
      BY <1>1, <1>3, <1>5, <1>6, <1>7 DEF OwnInv

LEMMA NextOwn == TurnInv /\ OwnInv /\ [Next]_vars => OwnInv'
<1> SUFFICES ASSUME TurnInv, OwnInv, [Next]_vars PROVE OwnInv'
    OBVIOUS
<1>1. CASE Edits
      BY <1>1, EditOwn
<1>2. CASE Users
      BY <1>2, UserOwn
<1>3. CASE Answers
      BY <1>3, AnswerOwn DEF Answers
<1>4. CASE Handlers
      BY <1>4, ChangeOwn, QuietOwn, DeletedOwn, RemoveOwn, QueueUploadOwn, CheckServerOwn, AskOwn, EnqueueOwn,
         FinishOwn, LeaveOwn, UploadEndedOwn, OthersEndedOwn DEF Handlers
<1>5. CASE Operations \/ \E t \in Tickets : UploadFails(t)
      BY <1>5, OperationOwn
<1>6. CASE ConnectionLost
      BY <1>6, ConnectionLostOwn
<1>7. CASE UNCHANGED vars
      BY <1>7 DEF vars, tracker, histories, OwnInv, Own
<1>8. QED
      BY <1>1, <1>2, <1>3, <1>4, <1>5, <1>6, <1>7 DEF Next

LEMMA AlwaysOwn == Spec => []OwnInv
BY InitOwn, NextOwn, AlwaysTurns, PTL DEF Spec

\* An upload that compares with the server, and finds there what its last check saw, never replaces a version that
\* another client wrote and the tracker was not told of, whatever the tracker knew, moved, forgot or was told before
\* (checkServerThenUpload, onUploadEnded, requireUnchangedRemote, DestinationStates).
THEOREM TrackerForeignVersionsStay == Spec => ForeignVersionsStay
<1>1. ASSUME TurnInv, OwnInv, NEW t, UploadReplaces(t), Op(t).compares, server[Op(t).dst] = Op(t).seen
      PROVE  server[Op(t).dst] \notin foreign \ told
      <2>1. IsAt(t, "checked", "upload")
            BY <1>1 DEF UploadReplaces
      <2>2. SeesIn(Op(t), Own)
            BY <1>1, <2>1, UploadAt DEF UploadIn
      <2>3. Op(t).seen \in Own
            BY <1>1, <2>2 DEF SeesIn
      <2>4. QED
            BY <1>1, <2>3 DEF Own
<1>2. TurnInv /\ OwnInv /\ [Next]_vars =>
        [\A t \in Tickets :
           /\ Op(t).kind = "upload" /\ UploadReplaces(t) /\ server' # server
           /\ Op(t).compares /\ server[Op(t).dst] = Op(t).seen
           => server[Op(t).dst] \notin foreign \ told]_vars
      BY <1>1
<1>3. QED
      BY <1>2, AlwaysTurns, AlwaysOwn, PTL DEF Spec, ForeignVersionsStay
================================================================================
