------------------------ MODULE OperationQueueProofs ------------------------
(***************************************************************************)
(* Cards: every operation the frontend was told of is in one place and     *)
(* ends once, whatever its owner does while it is told of progress and     *)
(* ends, and what must survive the session is backed up or kept.           *)
(***************************************************************************)
EXTENDS OperationQueue, TLAPS, FiniteSetTheorems

Has(q, o) == \E i \in DOMAIN q : q[i] = o
Unique(q) == \A i, j \in DOMAIN q : q[i] = q[j] => i = j

\* An end of o that the handler has still to tell.
EndOf(a, o) == \E i \in DOMAIN a : a[i].step \in Ends /\ a[i].op = o

\* Steps that only ever are the next one: what an owner asked for is done
\* before anything else, and an ended operation is taken out first.
FrontSteps == {"take", "addForOwner", "cancel"}
Steady(a) == \A i \in DOMAIN a : a[i].step \notin FrontSteps

AgendaInv(a) ==
    /\ a \in Seq(Steps)
    /\ \A i, j \in DOMAIN a : a[i].step \in Ends /\ a[j].step \in Ends /\ a[i].op = a[j].op => i = j
    /\ \A i \in DOMAIN a : a[i].step \in FrontSteps => i = 1

\* An operation is queued once.
QueuesInv ==
    /\ priorityOperations \in Seq(Ops) /\ Unique(priorityOperations)
    /\ operations \in Seq(Ops) /\ Unique(operations)
    /\ \A o \in Ops : ~(Has(priorityOperations, o) /\ Has(operations, o))

\* What the next step is about: an operation at its index, with its end to follow, or a new one.
FrontInv ==
    \A i \in DOMAIN agenda :
        /\ agenda[i].step = "take" =>
              /\ agenda[i].queue \in {"priority", "regular"}
              /\ agenda[i].index \in DOMAIN Elements(agenda[i].queue)
              /\ Elements(agenda[i].queue)[agenda[i].index] = agenda[i].op
              /\ EndOf(agenda, agenda[i].op)
        /\ agenda[i].step = "addForOwner" =>
              agenda[i].op \in Owned /\ phase[agenda[i].op] = "new"

InQueue(o) == Has(priorityOperations, o) \/ Has(operations, o)
TakenNext(a, o) == \E i \in DOMAIN a : a[i].step = "take" /\ a[i].op = o

\* The frontend has a card of exactly the operations that are queued or about to end; one that is both is taken next.
CardsInv ==
    /\ open \in [Ops -> {0, 1}]
    /\ \A o \in Ops :
          /\ open[o] = 1 <=> InQueue(o) \/ EndOf(agenda, o)
          /\ InQueue(o) /\ EndOf(agenda, o) => TakenNext(agenda, o)
          /\ phase[o] = "new" => open[o] = 0

\* Backups live with cards; the registries hold operations without one.
HomeInv ==
    /\ stash \subseteq Ops /\ registry \subseteq Ops
    /\ kept \in [Ops -> {"no", "bulk", "single", "cannot"}]
    /\ phase \in [Ops -> {"new", "scan", "run"}]
    /\ \A o \in Ops :
          /\ o \in registry => open[o] = 0 /\ kept[o] = "no" /\ phase[o] # "new"
          /\ kept[o] # "no" => open[o] = 0 /\ phase[o] # "new"
          /\ kept[o] = "single" => Kind[o] = "transfer"
          /\ o \in stash => open[o] = 1
          /\ open[o] = 1 /\ Resumable(o) /\ o \notin Owned => o \in stash

CardInv == AgendaInv(agenda) /\ QueuesInv /\ FrontInv /\ CardsInv /\ HomeInv
-----------------------------------------------------------------------------
(***************************************************************************)
(* Sequences.                                                              *)
(***************************************************************************)
LEMMA EmptyElements ==
    ASSUME NEW S
    PROVE  << >> \in Seq(S) /\ Unique(<< >>) /\ (\A o : ~Has(<< >>, o)) /\ DOMAIN << >> = {}
<1> DEFINE e == << >>
<1>1. e \in Seq(S) /\ DOMAIN e = {}
      OBVIOUS
<1> HIDE DEF e
<1>2. Unique(e) /\ \A o : ~Has(e, o)
      BY <1>1 DEF Unique, Has
<1>3. QED
      BY <1>1, <1>2 DEF e

LEMMA OneElement ==
    ASSUME NEW S, NEW e \in S
    PROVE  << e >> \in Seq(S) /\ Unique(<< e >>) /\ (\A o : Has(<< e >>, o) <=> o = e)
BY DEF Unique, Has

LEMMA ConcatElements ==
    ASSUME NEW S, NEW q \in Seq(S), NEW r \in Seq(S)
    PROVE  /\ q \o r \in Seq(S)
           /\ \A i \in DOMAIN (q \o r) : IF i \in DOMAIN q THEN (q \o r)[i] = q[i]
                                         ELSE i - Len(q) \in DOMAIN r /\ (q \o r)[i] = r[i - Len(q)]
           /\ \A i \in DOMAIN q : i \in DOMAIN (q \o r) /\ (q \o r)[i] = q[i]
           /\ \A i \in DOMAIN r : /\ i + Len(q) \in DOMAIN (q \o r) /\ (q \o r)[i + Len(q)] = r[i]
                                  /\ i + Len(q) \notin DOMAIN q
OBVIOUS

LEMMA ConcatUnique ==
    ASSUME NEW S, NEW q \in Seq(S), NEW r \in Seq(S)
    PROVE  /\ q \o r \in Seq(S)
           /\ \A o : Has(q \o r, o) <=> Has(q, o) \/ Has(r, o)
           /\ Unique(q) /\ Unique(r) /\ (\A o \in S : ~(Has(q, o) /\ Has(r, o))) => Unique(q \o r)
<1> DEFINE c == q \o r
<1>1. /\ c \in Seq(S)
      /\ \A i \in DOMAIN c : IF i \in DOMAIN q THEN c[i] = q[i]
                             ELSE i - Len(q) \in DOMAIN r /\ c[i] = r[i - Len(q)]
      /\ \A i \in DOMAIN q : i \in DOMAIN c /\ c[i] = q[i]
      /\ \A i \in DOMAIN r : i + Len(q) \in DOMAIN c /\ c[i + Len(q)] = r[i]
      BY ConcatElements
<1>2. /\ DOMAIN c = 1..Len(c) /\ Len(q) \in Nat /\ Len(c) \in Nat
      /\ \A i \in DOMAIN q : q[i] \in S
      BY <1>1
<1> HIDE DEF c
<1>3. \A o : Has(c, o) <=> Has(q, o) \/ Has(r, o)
      BY <1>1 DEF Has
<1>4. ASSUME Unique(q), Unique(r), \A o \in S : ~(Has(q, o) /\ Has(r, o)) PROVE Unique(c)
      <2> SUFFICES ASSUME NEW i \in DOMAIN c, NEW j \in DOMAIN c, c[i] = c[j] PROVE i = j
          BY DEF Unique
      <2>1. CASE i \in DOMAIN q /\ j \in DOMAIN q
            BY <1>1, <1>4, <2>1 DEF Unique
      <2>2. CASE i \notin DOMAIN q /\ j \notin DOMAIN q
            <3>1. i - Len(q) = j - Len(q)
                  BY <1>1, <1>4, <2>2 DEF Unique
            <3>2. QED
                  BY <1>2, <3>1
      <2>3. CASE (i \in DOMAIN q /\ j \notin DOMAIN q) \/ (i \notin DOMAIN q /\ j \in DOMAIN q)
            BY <1>1, <1>2, <1>4, <2>3 DEF Has
      <2>4. QED
            BY <2>1, <2>2, <2>3
<1>5. QED
      BY <1>1, <1>3, <1>4 DEF c

LEMMA RemoveAtElements ==
    ASSUME NEW S, NEW q \in Seq(S), NEW n \in DOMAIN q
    PROVE  /\ RemoveAt(q, n) \in Seq(S)
           /\ \A i \in DOMAIN RemoveAt(q, n) :
                 IF i < n THEN i \in DOMAIN q /\ RemoveAt(q, n)[i] = q[i]
                 ELSE i + 1 \in DOMAIN q /\ RemoveAt(q, n)[i] = q[i + 1]
           /\ \A i \in DOMAIN q : i # n => \E j \in DOMAIN RemoveAt(q, n) : RemoveAt(q, n)[j] = q[i]
<1> DEFINE a == SubSeq(q, 1, n - 1)
           b == SubSeq(q, n + 1, Len(q))
<1>0. n \in Nat /\ 1 <= n /\ n <= Len(q) /\ Len(q) \in Nat /\ DOMAIN q = 1..Len(q)
      OBVIOUS
<1>1. /\ a \in Seq(S) /\ Len(a) = n - 1 /\ DOMAIN a = 1..(n - 1) /\ \A i \in 1..(n - 1) : a[i] = q[i]
      OBVIOUS
<1>2. /\ b \in Seq(S) /\ Len(b) = Len(q) - n /\ DOMAIN b = 1..(Len(q) - n)
      /\ \A i \in 1..(Len(q) - n) : b[i] = q[n + i]
      OBVIOUS
<1> DEFINE r == a \o b
<1>3. RemoveAt(q, n) = r
      BY DEF RemoveAt
<1> HIDE DEF a, b
<1>4. /\ r \in Seq(S) /\ DOMAIN r = 1..(Len(q) - 1)
      /\ \A i \in 1..(n - 1) : r[i] = q[i]
      /\ \A i \in 1..(Len(q) - n) : r[n - 1 + i] = q[n + i]
      <2>0. a \in Seq(S) /\ b \in Seq(S)
            BY <1>1, <1>2
      <2>1. /\ r \in Seq(S) /\ \A i \in DOMAIN a : r[i] = a[i]
            /\ \A i \in DOMAIN b : r[i + Len(a)] = b[i]
            BY <2>0, ConcatElements
      <2>2. Len(r) = Len(a) + Len(b) /\ DOMAIN r = 1..Len(r)
            BY <2>0
      <2> HIDE DEF r
      <2>3. \A i \in 1..(Len(q) - n) : i + Len(a) = n - 1 + i
            BY <1>0, <1>1
      <2>4. DOMAIN r = 1..(Len(q) - 1)
            BY <1>0, <1>1, <1>2, <2>2
      <2>5. QED
            BY <1>1, <1>2, <2>1, <2>3, <2>4
<1> HIDE DEF r
<1>5. \A i \in DOMAIN r : IF i < n THEN i \in DOMAIN q /\ r[i] = q[i]
                          ELSE i + 1 \in DOMAIN q /\ r[i] = q[i + 1]
      <2>1. TAKE i \in DOMAIN r
      <2>2. CASE i < n
            BY <1>0, <1>4, <2>2
      <2>3. CASE ~(i < n)
            <3>1. i - n + 1 \in 1..(Len(q) - n) /\ n - 1 + (i - n + 1) = i /\ n + (i - n + 1) = i + 1
                  BY <1>0, <1>4, <2>3
            <3>2. PICK k \in 1..(Len(q) - n) : k = i - n + 1 /\ n - 1 + k = i /\ n + k = i + 1
                  BY <3>1
            <3>3. r[i] = q[i + 1]
                  BY <1>4, <3>2
            <3>4. i + 1 \in DOMAIN q
                  BY <1>0, <1>4, <2>3
            <3>5. QED
                  BY <2>3, <3>3, <3>4
      <2>4. QED
            BY <2>2, <2>3
<1>6. \A i \in DOMAIN q : i # n => \E j \in DOMAIN r : r[j] = q[i]
      <2> SUFFICES ASSUME NEW i \in DOMAIN q, i # n PROVE \E j \in DOMAIN r : r[j] = q[i]
          OBVIOUS
      <2>1. CASE i < n
            <3>1. i \in 1..(n - 1) /\ i \in DOMAIN r
                  BY <1>0, <1>4, <2>1
            <3>2. QED
                  BY <1>4, <3>1
      <2>2. CASE i > n
            <3>0. i \in Nat /\ i <= Len(q)
                  BY <1>0
            <3>1. /\ i - n \in 1..(Len(q) - n) /\ n + (i - n) = i
                  /\ n - 1 + (i - n) \in 1..(Len(q) - 1)
                  BY <1>0, <2>2, <3>0
            <3>2. QED
                  BY <1>4, <3>1
      <2>3. QED
            BY <1>0, <2>1, <2>2
<1>7. QED
      BY <1>3, <1>4, <1>5, <1>6

LEMMA RemoveAtUnique ==
    ASSUME NEW S, NEW q \in Seq(S), Unique(q), NEW n \in DOMAIN q
    PROVE  /\ RemoveAt(q, n) \in Seq(S) /\ Unique(RemoveAt(q, n))
           /\ \A o : Has(RemoveAt(q, n), o) <=> Has(q, o) /\ o # q[n]
<1> DEFINE r == RemoveAt(q, n)
<1>1. /\ r \in Seq(S)
      /\ \A i \in DOMAIN r : IF i < n THEN i \in DOMAIN q /\ r[i] = q[i]
                             ELSE i + 1 \in DOMAIN q /\ r[i] = q[i + 1]
      /\ \A i \in DOMAIN q : i # n => \E j \in DOMAIN r : r[j] = q[i]
      BY RemoveAtElements
<1>2. DOMAIN r = 1..Len(r) /\ Len(r) \in Nat /\ n \in Nat
      BY <1>1
<1> HIDE DEF r
<1>3. Unique(r)
      BY <1>1, <1>2 DEF Unique
<1>4. \A o : Has(r, o) => Has(q, o) /\ o # q[n]
      <2>1. \A i \in DOMAIN r : \E j \in DOMAIN q : r[i] = q[j] /\ j # n
            BY <1>1, <1>2
      <2>2. QED
            BY <2>1 DEF Has, Unique
<1>5. \A o : Has(q, o) /\ o # q[n] => Has(r, o)
      BY <1>1 DEF Has
<1>6. QED
      BY <1>1, <1>3, <1>4, <1>5 DEF r

LEMMA RemoveFirstUnique ==
    ASSUME NEW S, NEW q \in Seq(S), Unique(q), NEW e
    PROVE  /\ RemoveFirst(q, e) \in Seq(S) /\ Unique(RemoveFirst(q, e))
           /\ \A o : Has(RemoveFirst(q, e), o) <=> Has(q, o) /\ o # e
           /\ Has(q, e) => Len(RemoveFirst(q, e)) = Len(q) - 1
<1>1. DOMAIN q = 1..Len(q)
      OBVIOUS
<1>2. CASE ~Has(q, e)
      <2>1. RemoveFirst(q, e) = q
            BY <1>1, <1>2 DEF RemoveFirst, Has
      <2>2. QED
            BY <1>2, <2>1 DEF Has
<1>3. CASE Has(q, e)
      <2>1. PICK n \in DOMAIN q : q[n] = e
            BY <1>3 DEF Has
      <2> DEFINE I == {i \in 1..Len(q) : q[i] = e}
      <2>2. I = {n} /\ n \in Nat
            BY <1>1, <2>1 DEF Unique
      <2>3. RemoveFirst(q, e) = RemoveAt(q, IF I # {} THEN Min(I) ELSE 0)
            BY <1>1, <2>1 DEF RemoveFirst, SelectInSeq
      <2> HIDE DEF I
      <2>4. Min(I) = n
            BY <2>2 DEF Min
      <2>5. RemoveFirst(q, e) = RemoveAt(q, n)
            BY <2>2, <2>3, <2>4
      <2>6. Len(RemoveAt(q, n)) = Len(q) - 1
            BY <1>1, <2>1 DEF RemoveAt
      <2>7. QED
            BY <2>1, <2>5, <2>6, RemoveAtUnique
<1>4. QED
      BY <1>2, <1>3

LEMMA InsertUnique ==
    ASSUME NEW S, NEW q \in Seq(S), Unique(q), NEW e \in S, ~Has(q, e), NEW n \in 1..(Len(q) + 1)
    PROVE  /\ InsertAt(q, n, e) \in Seq(S) /\ Unique(InsertAt(q, n, e))
           /\ \A o : Has(InsertAt(q, n, e), o) <=> Has(q, o) \/ o = e
<1> DEFINE a == SubSeq(q, 1, n - 1)
           b == SubSeq(q, n, Len(q))
<1>1. /\ Len(q) \in Nat /\ n \in Nat
      /\ a \in Seq(S) /\ DOMAIN a = 1..(n - 1) /\ \A i \in 1..(n - 1) : a[i] = q[i] /\ i \in DOMAIN q
      OBVIOUS
<1>2. /\ b \in Seq(S) /\ DOMAIN b = 1..(Len(q) - n + 1)
      /\ \A i \in 1..(Len(q) - n + 1) : b[i] = q[n - 1 + i] /\ n - 1 + i \in DOMAIN q
      OBVIOUS
<1>3. InsertAt(q, n, e) = (a \o << e >>) \o b
      BY DEF InsertAt
<1> HIDE DEF a, b
<1>4. Unique(a) /\ Unique(b) /\ (\A o : ~(Has(a, o) /\ Has(b, o)))
      <2>1. Unique(a)
            BY <1>1 DEF Unique
      <2>2. Unique(b)
            <3> SUFFICES ASSUME NEW i \in DOMAIN b, NEW j \in DOMAIN b, b[i] = b[j] PROVE i = j
                BY DEF Unique
            <3>1. n - 1 + i = n - 1 + j
                  BY <1>2 DEF Unique
            <3>2. QED
                  BY <1>1, <1>2, <3>1
      <2>3. \A i \in DOMAIN a, j \in DOMAIN b : a[i] # b[j]
            <3> SUFFICES ASSUME NEW i \in DOMAIN a, NEW j \in DOMAIN b, a[i] = b[j] PROVE FALSE
                OBVIOUS
            <3>1. i = n - 1 + j
                  BY <1>1, <1>2 DEF Unique
            <3>2. QED
                  BY <1>1, <1>2, <3>1
      <2>4. QED
            BY <2>1, <2>2, <2>3 DEF Has
<1>5. \A o : Has(q, o) <=> Has(a, o) \/ Has(b, o)
      <2>1. \A o : Has(a, o) \/ Has(b, o) => Has(q, o)
            BY <1>1, <1>2 DEF Has
      <2>2. ASSUME NEW i \in DOMAIN q PROVE Has(a, q[i]) \/ Has(b, q[i])
            <3>1. CASE i < n
                  BY <1>1, <3>1 DEF Has
            <3>2. CASE i >= n
                  <4>1. i - n + 1 \in DOMAIN b /\ n - 1 + (i - n + 1) = i
                        BY <1>1, <1>2, <3>2
                  <4>2. b[i - n + 1] = q[i]
                        BY <1>2, <4>1
                  <4>3. QED
                        BY <4>1, <4>2 DEF Has
            <3>3. QED
                  BY <1>1, <3>1, <3>2
      <2>3. QED
            BY <2>1, <2>2 DEF Has
<1>6. << e >> \in Seq(S) /\ Unique(<< e >>) /\ \A o : Has(<< e >>, o) <=> o = e
      BY OneElement
<1> DEFINE d == << e >>
<1>d. d \in Seq(S) /\ Unique(d) /\ (\A o : Has(d, o) <=> o = e) /\ InsertAt(q, n, e) = (a \o d) \o b
      BY <1>3, <1>6
<1> HIDE DEF d
<1> DEFINE c == a \o d
<1>7. c \in Seq(S) /\ Unique(c) /\ \A o : Has(c, o) <=> Has(a, o) \/ o = e
      <2>1. \A o \in S : ~(Has(a, o) /\ Has(d, o))
            BY <1>5, <1>d
      <2>2. QED
            BY <1>1, <1>4, <1>d, <2>1, ConcatUnique
<1> HIDE DEF c
<1>8. c \o b \in Seq(S) /\ Unique(c \o b) /\ \A o : Has(c \o b, o) <=> Has(c, o) \/ Has(b, o)
      BY <1>2, <1>4, <1>5, <1>7, ConcatUnique
<1>9. InsertAt(q, n, e) = c \o b
      BY <1>d DEF c
<1>10. QED
      BY <1>5, <1>7, <1>8, <1>9
-----------------------------------------------------------------------------
(***************************************************************************)
(* The agenda.                                                             *)
(***************************************************************************)
\* The front steps of b are those of a, at the same place.
FrontOf(b, a) == \A i \in DOMAIN b : b[i].step \in FrontSteps => i \in DOMAIN a /\ b[i] = a[i]

LEMMA SteadyFront == ASSUME NEW a, NEW b, FrontOf(b, a), Steady(a) PROVE Steady(b)
BY DEF FrontOf, Steady

LEMMA StepType == ASSUME NEW name \in StepNames, NEW o \in Ops
                  PROVE  Step(name, o) \in Steps /\ Step(name, o).step = name /\ Step(name, o).op = o
BY DEF Step, Steps

LEMMA WakeType == WakeStep \in Steps /\ WakeStep.step = "wake"
<1>1. (CHOOSE o \in Ops : TRUE) \in Ops
      BY KindAssumption
<1>2. "wake" \in StepNames
      BY DEF StepNames
<1>3. QED
      BY <1>1, <1>2, StepType DEF WakeStep

LEMMA AgendaNone == AgendaInv(<< >>) /\ Steady(<< >>) /\ \A o : ~EndOf(<< >>, o)
<1> DEFINE e == << >>
<1>1. e \in Seq(Steps) /\ DOMAIN e = {}
      BY EmptyElements
<1> HIDE DEF e
<1>2. AgendaInv(e) /\ Steady(e) /\ \A o : ~EndOf(e, o)
      BY <1>1 DEF AgendaInv, Steady, EndOf
<1>3. QED
      BY <1>2 DEF e

LEMMA AgendaOne ==
    ASSUME NEW s \in Steps
    PROVE  /\ AgendaInv(<< s >>) /\ (s.step \notin FrontSteps => Steady(<< s >>))
           /\ \A o : EndOf(<< s >>, o) <=> s.step \in Ends /\ s.op = o
<1> DEFINE e == << s >>
<1>1. e \in Seq(Steps) /\ DOMAIN e = {1} /\ e[1] = s
      OBVIOUS
<1> HIDE DEF e
<1>2. /\ AgendaInv(e) /\ (s.step \notin FrontSteps => Steady(e))
      /\ \A o : EndOf(e, o) <=> s.step \in Ends /\ s.op = o
      BY <1>1 DEF AgendaInv, Steady, EndOf
<1>3. QED
      BY <1>2 DEF e

LEMMA AgendaConcat ==
    ASSUME NEW p, AgendaInv(p), NEW a, AgendaInv(a), Steady(a),
           \A o \in Ops : ~(EndOf(p, o) /\ EndOf(a, o))
    PROVE  /\ AgendaInv(p \o a) /\ FrontOf(p \o a, p)
           /\ \A o : EndOf(p \o a, o) <=> EndOf(p, o) \/ EndOf(a, o)
           /\ \A i \in DOMAIN p : i \in DOMAIN (p \o a) /\ (p \o a)[i] = p[i]
<1> DEFINE c == p \o a
<1>1. p \in Seq(Steps) /\ a \in Seq(Steps)
      BY DEF AgendaInv
<1>2. /\ c \in Seq(Steps)
      /\ \A i \in DOMAIN c : IF i \in DOMAIN p THEN c[i] = p[i]
                             ELSE i - Len(p) \in DOMAIN a /\ c[i] = a[i - Len(p)]
      /\ \A i \in DOMAIN p : i \in DOMAIN c /\ c[i] = p[i]
      /\ \A i \in DOMAIN a : i + Len(p) \in DOMAIN c /\ c[i + Len(p)] = a[i]
      BY <1>1, ConcatElements
<1>3. DOMAIN c \subseteq Nat /\ Len(p) \in Nat
      BY <1>1, <1>2
<1> HIDE DEF c
<1>4. FrontOf(c, p)
      BY <1>2 DEF FrontOf, Steady
<1>5. \A o : EndOf(c, o) <=> EndOf(p, o) \/ EndOf(a, o)
      BY <1>2 DEF EndOf
<1>6. \A i \in DOMAIN c : c[i].step \in FrontSteps => i = 1
      BY <1>2, <1>4 DEF FrontOf, AgendaInv
<1>7. ASSUME NEW i \in DOMAIN c, NEW j \in DOMAIN c, c[i].step \in Ends, c[j].step \in Ends,
             c[i].op = c[j].op
      PROVE  i = j
      <2>1. CASE i \in DOMAIN p /\ j \in DOMAIN p
            BY <1>2, <1>7, <2>1 DEF AgendaInv
      <2>2. CASE i \notin DOMAIN p /\ j \notin DOMAIN p
            <3>1. i - Len(p) = j - Len(p)
                  BY <1>2, <1>7, <2>2 DEF AgendaInv
            <3>2. QED
                  BY <1>3, <3>1
      <2>3. CASE (i \in DOMAIN p /\ j \notin DOMAIN p) \/ (i \notin DOMAIN p /\ j \in DOMAIN p)
            <3>1. EndOf(p, c[i].op) /\ EndOf(a, c[i].op)
                  BY <1>2, <1>7, <2>3 DEF EndOf
            <3>2. c[i].op \in Ops
                  <4>1. c[i] \in Steps
                        BY <1>2
                  <4>2. QED
                        BY <4>1 DEF Steps
            <3>3. QED
                  BY <3>1, <3>2
      <2>4. QED
            BY <2>1, <2>2, <2>3
<1>8. AgendaInv(c)
      BY <1>2, <1>6, <1>7 DEF AgendaInv
<1>9. QED
      BY <1>2, <1>4, <1>5, <1>8 DEF c

LEMMA AgendaTail ==
    ASSUME NEW a, AgendaInv(a), a # << >>
    PROVE  /\ AgendaInv(Tail(a)) /\ Steady(Tail(a))
           /\ \A o : EndOf(Tail(a), o) <=> EndOf(a, o) /\ ~(Head(a).step \in Ends /\ Head(a).op = o)
           /\ Head(a) \in Steps /\ Head(a) = a[1] /\ 1 \in DOMAIN a
<1> DEFINE t == Tail(a)
<1>1. a \in Seq(Steps) /\ Len(a) \in Nat \ {0} /\ DOMAIN a = 1..Len(a)
      BY DEF AgendaInv
<1>2. /\ t \in Seq(Steps) /\ DOMAIN t = 1..(Len(a) - 1)
      /\ \A i \in DOMAIN t : t[i] = a[i + 1] /\ i + 1 \in DOMAIN a /\ i + 1 # 1
      BY <1>1
<1>3. Head(a) = a[1] /\ 1 \in DOMAIN a /\ a[1] \in Steps
      BY <1>1
<1> HIDE DEF t
<1>4. Steady(t)
      BY <1>2 DEF AgendaInv, Steady
<1>5. AgendaInv(t)
      <2>1. ASSUME NEW i \in DOMAIN t, NEW j \in DOMAIN t, t[i].step \in Ends, t[j].step \in Ends,
                   t[i].op = t[j].op
            PROVE  i = j
            <3>1. i + 1 = j + 1
                  BY <1>2, <2>1 DEF AgendaInv
            <3>2. QED
                  BY <1>1, <1>2, <3>1
      <2>2. QED
            BY <1>2, <1>4, <2>1 DEF AgendaInv, Steady
<1>6. ASSUME NEW o PROVE EndOf(t, o) => EndOf(a, o) /\ ~(a[1].step \in Ends /\ a[1].op = o)
      BY <1>2, <1>3 DEF EndOf, AgendaInv
<1>7. ASSUME NEW o, EndOf(a, o), ~(a[1].step \in Ends /\ a[1].op = o) PROVE EndOf(t, o)
      <2>1. PICK i \in DOMAIN a : a[i].step \in Ends /\ a[i].op = o
            BY <1>7 DEF EndOf
      <2>2. i - 1 \in DOMAIN t /\ (i - 1) + 1 = i
            BY <1>1, <1>2, <1>7, <2>1
      <2>3. QED
            BY <1>2, <2>1, <2>2 DEF EndOf
<1>8. QED
      BY <1>3, <1>4, <1>5, <1>6, <1>7 DEF t

\* A handler's steps, the wake on its return, and what the handler below has to do.
LEMMA ThenFacts ==
    ASSUME NEW p, AgendaInv(p), Steady(p), NEW r, AgendaInv(r), Steady(r),
           \A o \in Ops : ~(EndOf(p, o) /\ EndOf(r, o)), Then(p, r)
    PROVE  /\ AgendaInv(agenda') /\ Steady(agenda')
           /\ \A o : EndOf(agenda', o) <=> EndOf(p, o) \/ EndOf(r, o)
<1> DEFINE w == << WakeStep >>
<1>1. AgendaInv(w) /\ Steady(w) /\ \A o : ~EndOf(w, o)
      BY WakeType, AgendaOne DEF Ends, FrontSteps
<1>2. agenda' = (p \o w) \o r
      BY DEF Then
<1> HIDE DEF w
<1> DEFINE c == p \o w
<1>3. /\ AgendaInv(c) /\ FrontOf(c, p)
      /\ \A o : EndOf(c, o) <=> EndOf(p, o) \/ EndOf(w, o)
      BY <1>1, AgendaConcat
<1>4. agenda' = c \o r
      BY <1>2
<1> HIDE DEF c
<1>5. Steady(c) /\ \A o \in Ops : ~(EndOf(c, o) /\ EndOf(r, o))
      BY <1>1, <1>3, SteadyFront
<1>6. /\ AgendaInv(c \o r) /\ FrontOf(c \o r, c)
      /\ \A o : EndOf(c \o r, o) <=> EndOf(c, o) \/ EndOf(r, o)
      BY <1>3, <1>5, AgendaConcat
<1>7. Steady(c \o r)
      BY <1>5, <1>6, SteadyFront
<1>8. QED
      BY <1>1, <1>3, <1>4, <1>6, <1>7

\* Nothing is taken or added next.
LEMMA SteadyAgenda ==
    ASSUME NEW a, Steady(a)
    PROVE  \A o : ~TakenNext(a, o)
BY DEF Steady, FrontSteps, TakenNext

LEMMA SteadyNow == Steady(agenda) => FrontInv
BY DEF Steady, FrontSteps, FrontInv

LEMMA SteadyThen == Steady(agenda') => FrontInv'
BY DEF Steady, FrontSteps, FrontInv
-----------------------------------------------------------------------------
(***************************************************************************)
(* What steps do to cards.                                                 *)
(***************************************************************************)
LEMMA QueuedIs == ASSUME QueuesInv, NEW o PROVE Queued(o) <=> InQueue(o)
<1>1. /\ DOMAIN priorityOperations = 1..Len(priorityOperations)
      /\ DOMAIN operations = 1..Len(operations)
      BY DEF QueuesInv
<1>2. QED
      BY <1>1 DEF Queued, Contains, InQueue, Has

\* Operations in R leave their queue with their end to follow, and whatever else happens does not concern cards.
LEMMA CardsLeave ==
    ASSUME CardInv, NEW R, AgendaInv(agenda'), FrontInv', QueuesInv',
           \A o \in Ops : ~TakenNext(agenda, o),
           \A o \in Ops : InQueue(o)' <=> InQueue(o) /\ o \notin R,
           \A o \in Ops : EndOf(agenda', o) <=> EndOf(agenda, o) \/ (o \in R /\ InQueue(o)),
           UNCHANGED <<open, stash>>,
           registry' \subseteq registry,
           kept' = kept \/ \E o \in Ops : kept' = [kept EXCEPT ![o] = "no"],
           phase' \in [Ops -> {"new", "scan", "run"}],
           \A o \in Ops : phase'[o] = "new" <=> phase[o] = "new"
    PROVE  CardInv'
<1>1. CardsInv'
      <2>1. \A o \in Ops : /\ open'[o] = 1 <=> InQueue(o)' \/ EndOf(agenda', o)
                           /\ InQueue(o)' /\ EndOf(agenda', o) => TakenNext(agenda', o)
                           /\ phase'[o] = "new" => open'[o] = 0
            BY DEF CardInv, CardsInv
      <2>2. QED
            BY <2>1 DEF CardInv, CardsInv
<1>2. kept' \in [Ops -> {"no", "bulk", "single", "cannot"}]
      /\ \A o \in Ops : kept'[o] # "no" => kept'[o] = kept[o]
      BY DEF CardInv, HomeInv
<1>3. HomeInv'
      BY <1>2 DEF CardInv, HomeInv, Resumable
<1>4. QED
      BY <1>1, <1>3 DEF CardInv

\* A step after which the agenda is the same.
LEMMA CardsSame ==
    ASSUME CardInv, UNCHANGED <<agenda, priorityOperations, operations, phase, open, stash>>,
           registry' \subseteq registry,
           kept' = kept \/ \E o \in Ops : kept' = [kept EXCEPT ![o] = "no"]
    PROVE  CardInv'
<1>1. AgendaInv(agenda') /\ FrontInv' /\ QueuesInv' /\ CardsInv'
      BY DEF CardInv, AgendaInv, FrontInv, QueuesInv, CardsInv, Elements, InQueue
<1>2. kept' \in [Ops -> {"no", "bulk", "single", "cannot"}]
      /\ \A o \in Ops : kept'[o] # "no" => kept'[o] = kept[o]
      BY DEF CardInv, HomeInv
<1>3. HomeInv'
      BY <1>2 DEF CardInv, HomeInv, Resumable
<1>4. QED
      BY <1>1, <1>3 DEF CardInv

\* Operations without a card are queued.
LEMMA QueueUpFacts ==
    ASSUME CardInv, NEW os \in Seq(Ops), Unique(os), NEW mode \in {"priority", "regular"},
           NEW scanning, NEW backups, QueueUp(os, mode, scanning, backups),
           \A o \in Ops : Has(os, o) => open[o] = 0
    PROVE  /\ QueuesInv'
           /\ \A o \in Ops : InQueue(o)' <=> InQueue(o) \/ Has(os, o)
           /\ open' = [o \in Ops |-> IF Has(os, o) THEN 1 ELSE open[o]]
           /\ phase' \in [Ops -> {"new", "scan", "run"}]
           /\ \A o \in Ops : IF Has(os, o) THEN phase'[o] # "new" ELSE phase'[o] = phase[o]
           /\ stash' = stash \cup backups
<1>1. \A o \in Ops : Has(os, o) => ~Has(priorityOperations, o) /\ ~Has(operations, o)
      BY DEF CardInv, CardsInv, InQueue
<1>2. /\ priorityOperations \in Seq(Ops) /\ Unique(priorityOperations)
      /\ operations \in Seq(Ops) /\ Unique(operations)
      /\ \A o \in Ops : ~(Has(priorityOperations, o) /\ Has(operations, o))
      BY DEF CardInv, QueuesInv
<1>3. /\ priorityOperations \o << >> = priorityOperations /\ operations \o << >> = operations
      BY <1>2
<1>4. QueuesInv' /\ \A o \in Ops : InQueue(o)' <=> InQueue(o) \/ Has(os, o)
      <2>1. CASE mode = "priority"
            <3>1. priorityOperations' = priorityOperations \o os /\ operations' = operations
                  BY <1>3, <2>1 DEF QueueUp, If
            <3>2. /\ priorityOperations' \in Seq(Ops) /\ Unique(priorityOperations')
                  /\ \A o : Has(priorityOperations', o) <=> Has(priorityOperations, o) \/ Has(os, o)
                  BY <1>1, <1>2, <3>1, ConcatUnique
            <3>3. \A o : Has(operations', o) <=> Has(operations, o)
                  BY <3>1 DEF Has
            <3>4. operations' \in Seq(Ops) /\ Unique(operations')
                  BY <1>2, <3>1 DEF Unique
            <3>5. QED
                  BY <1>1, <1>2, <3>2, <3>3, <3>4 DEF QueuesInv, InQueue
      <2>2. CASE mode = "regular"
            <3>1. operations' = operations \o os /\ priorityOperations' = priorityOperations
                  BY <1>3, <2>2 DEF QueueUp, If
            <3>2. /\ operations' \in Seq(Ops) /\ Unique(operations')
                  /\ \A o : Has(operations', o) <=> Has(operations, o) \/ Has(os, o)
                  BY <1>1, <1>2, <3>1, ConcatUnique
            <3>3. \A o : Has(priorityOperations', o) <=> Has(priorityOperations, o)
                  BY <3>1 DEF Has
            <3>4. priorityOperations' \in Seq(Ops) /\ Unique(priorityOperations')
                  BY <1>2, <3>1 DEF Unique
            <3>5. QED
                  BY <1>1, <1>2, <3>2, <3>3, <3>4 DEF QueuesInv, InQueue
      <2>3. QED
            BY <2>1, <2>2
<1>5. \A o \in Ops : Cardinality({i \in DOMAIN os : os[i] = o}) = IF Has(os, o) THEN 1 ELSE 0
      <2> SUFFICES ASSUME NEW o \in Ops
                   PROVE  Cardinality({i \in DOMAIN os : os[i] = o}) = IF Has(os, o) THEN 1 ELSE 0
          OBVIOUS
      <2> DEFINE I == {i \in DOMAIN os : os[i] = o}
      <2>1. CASE Has(os, o)
            <3>1. \E i : I = {i}
                  BY <2>1 DEF Has, Unique
            <3>2. QED
                  BY <2>1, <3>1, FS_Singleton
      <2>2. CASE ~Has(os, o)
            <3>1. I = {}
                  BY <2>2 DEF Has
            <3>2. QED
                  BY <2>2, <3>1, FS_EmptySet
      <2>3. QED
            BY <2>1, <2>2
<1>6. open' = [o \in Ops |-> IF Has(os, o) THEN 1 ELSE open[o]]
      <2>1. \A o \in Ops : open[o] \in {0, 1}
            BY DEF CardInv, CardsInv
      <2>2. open' = [o \in Ops |-> open[o] + Cardinality({i \in DOMAIN os : os[i] = o})]
            BY DEF QueueUp
      <2>3. \A o \in Ops : open[o] + Cardinality({i \in DOMAIN os : os[i] = o}) = IF Has(os, o) THEN 1 ELSE open[o]
            BY <1>5, <2>1
      <2>4. QED
            BY <2>2, <2>3
<1>7. \A o : o \in ToSet(os) <=> Has(os, o)
      BY DEF ToSet, Has
<1>8. /\ phase' \in [Ops -> {"new", "scan", "run"}]
      /\ \A o \in Ops : IF Has(os, o) THEN phase'[o] # "new" ELSE phase'[o] = phase[o]
      BY <1>7 DEF QueueUp, CardInv, HomeInv
<1>9. stash' = stash \cup backups
      BY DEF QueueUp
<1>10. QED
      BY <1>4, <1>6, <1>8, <1>9

\* Some operations of D are queued, with a backup for each that needs one.
Joined(D) ==
    \E os \in Seq(Ops), mode \in {"priority", "regular"}, scanning \in SUBSET Ops, backups \in SUBSET Ops :
        /\ QueueUp(os, mode, scanning, backups)
        /\ Unique(os)
        /\ \A o \in Ops : Has(os, o) => o \in D /\ (Resumable(o) /\ o \notin Owned => o \in backups)
        /\ \A o \in backups : Has(os, o)

LEMMA CardsJoin ==
    ASSUME CardInv, NEW D, Joined(D), AgendaInv(agenda'), Steady(agenda'),
           \A o \in Ops : ~TakenNext(agenda, o),
           \A o \in Ops : EndOf(agenda', o) <=> EndOf(agenda, o),
           registry' \subseteq registry,
           kept' = kept \/ \E o \in Ops : kept' = [kept EXCEPT ![o] = "no"],
           \A o \in Ops : o \in D => open[o] = 0 /\ kept'[o] = "no" /\ o \notin registry'
    PROVE  CardInv'
<1>1. PICK os \in Seq(Ops), mode \in {"priority", "regular"}, scanning \in SUBSET Ops, backups \in SUBSET Ops :
          /\ QueueUp(os, mode, scanning, backups)
          /\ Unique(os)
          /\ \A o \in Ops : Has(os, o) => o \in D /\ (Resumable(o) /\ o \notin Owned => o \in backups)
          /\ \A o \in backups : Has(os, o)
      BY DEF Joined
<1>2. \A o \in Ops : Has(os, o) => open[o] = 0
      BY <1>1
<1>3. /\ QueuesInv'
      /\ \A o \in Ops : InQueue(o)' <=> InQueue(o) \/ Has(os, o)
      /\ open' = [o \in Ops |-> IF Has(os, o) THEN 1 ELSE open[o]]
      /\ phase' \in [Ops -> {"new", "scan", "run"}]
      /\ \A o \in Ops : IF Has(os, o) THEN phase'[o] # "new" ELSE phase'[o] = phase[o]
      /\ stash' = stash \cup backups
      BY <1>1, <1>2, QueueUpFacts
<1>4. FrontInv' /\ \A o \in Ops : ~TakenNext(agenda', o)
      BY SteadyThen, SteadyAgenda
<1>5. open' \in [Ops -> {0, 1}] /\ \A o \in Ops : open'[o] = IF Has(os, o) THEN 1 ELSE open[o]
      BY <1>3 DEF CardInv, CardsInv
<1>6. CardsInv'
      <2>1. ASSUME NEW o \in Ops
            PROVE  /\ open'[o] = 1 <=> InQueue(o)' \/ EndOf(agenda', o)
                   /\ ~(InQueue(o)' /\ EndOf(agenda', o))
                   /\ phase'[o] = "new" => open'[o] = 0
            BY <1>2, <1>3, <1>5 DEF CardInv, CardsInv
      <2>2. QED
            BY <1>5, <2>1 DEF CardsInv
<1>7. /\ kept' \in [Ops -> {"no", "bulk", "single", "cannot"}]
      /\ \A o \in Ops : kept'[o] # "no" => kept'[o] = kept[o]
      BY DEF CardInv, HomeInv
<1>8. HomeInv'
      <2>1. stash' \subseteq Ops /\ registry' \subseteq Ops
            BY <1>1, <1>3 DEF CardInv, HomeInv
      <2>2. ASSUME NEW o \in Ops
            PROVE  /\ o \in registry' => open'[o] = 0 /\ kept'[o] = "no" /\ phase'[o] # "new"
                   /\ kept'[o] # "no" => open'[o] = 0 /\ phase'[o] # "new"
                   /\ kept'[o] = "single" => Kind[o] = "transfer"
                   /\ o \in stash' => open'[o] = 1
                   /\ open'[o] = 1 /\ Resumable(o) /\ o \notin Owned => o \in stash'
            BY <1>1, <1>3, <1>5, <1>7 DEF CardInv, HomeInv
      <2>3. QED
            BY <1>3, <1>7, <2>1, <2>2 DEF HomeInv, Resumable
<1>9. QED
      BY <1>3, <1>4, <1>6, <1>8 DEF CardInv

\* Nothing is queued, whatever else the request did.
LEMMA CardsNothing ==
    ASSUME CardInv, QueueNothing, AgendaInv(agenda'), Steady(agenda'),
           \A o \in Ops : ~TakenNext(agenda, o),
           \A o \in Ops : EndOf(agenda', o) <=> EndOf(agenda, o),
           registry' \subseteq registry,
           kept' = kept \/ \E o \in Ops : kept' = [kept EXCEPT ![o] = "no"]
    PROVE  CardInv'
<1>1. QueuesInv' /\ \A o \in Ops : InQueue(o)' <=> InQueue(o)
      BY DEF QueueNothing, CardInv, QueuesInv, InQueue
<1>2. FrontInv'
      BY SteadyThen
<1>3. phase' \in [Ops -> {"new", "scan", "run"}] /\ \A o \in Ops : phase'[o] = "new" <=> phase[o] = "new"
      BY DEF QueueNothing, CardInv, HomeInv
<1>4. UNCHANGED <<open, stash>>
      BY DEF QueueNothing
<1> DEFINE R == {}
<1>5. /\ \A o \in Ops : InQueue(o)' <=> InQueue(o) /\ o \notin R
      /\ \A o \in Ops : EndOf(agenda', o) <=> EndOf(agenda, o) \/ (o \in R /\ InQueue(o))
      BY <1>1
<1> HIDE DEF R
<1>6. QED
      BY <1>1, <1>2, <1>3, <1>4, <1>5, CardsLeave

LEMMA SetToSeqUnique ==
    ASSUME NEW D \in SUBSET Ops
    PROVE  /\ SetToSeq(D) \in Seq(Ops) /\ Unique(SetToSeq(D))
           /\ \A o : Has(SetToSeq(D), o) => o \in D
<1>1. IsFiniteSet(D)
      BY KindAssumption, FS_Subset
<1>2. Cardinality(D) \in Nat /\ ExistsBijection(1..Cardinality(D), D)
      BY <1>1, FS_CardinalityType
<1>3. \E f \in [1..Cardinality(D) -> D] : IsInjective(f)
      BY <1>2 DEF ExistsBijection, Bijection, Injection
<1> DEFINE s == SetToSeq(D)
<1>4. s \in [1..Cardinality(D) -> D] /\ IsInjective(s)
      BY <1>3 DEF SetToSeq
<1> HIDE DEF s
<1>5. s \in Seq(Ops)
      <2>1. s \in [1..Cardinality(D) -> Ops]
            BY <1>4
      <2>2. QED
            BY <1>2, <2>1
<1>6. Unique(s) /\ \A o : Has(s, o) => o \in D
      BY <1>4 DEF Unique, Has, IsInjective
<1>7. QED
      BY <1>5, <1>6 DEF s

\* One operation is queued.
LEMMA OneJoins ==
    ASSUME NEW o \in Ops, NEW mode \in {"priority", "regular"}, NEW scanning \in SUBSET Ops,
           NEW backups \in SUBSET {o}, QueueUp(<<o>>, mode, scanning, backups),
           Resumable(o) /\ o \notin Owned => o \in backups, NEW D, o \in D
    PROVE  Joined(D)
<1> DEFINE os == <<o>>
<1>1. os \in Seq(Ops) /\ Unique(os) /\ \A p : Has(os, p) <=> p = o
      BY OneElement
<1>2. QueueUp(os, mode, scanning, backups)
      OBVIOUS
<1> HIDE DEF os
<1>3. /\ \A p \in Ops : Has(os, p) => p \in D /\ (Resumable(p) /\ p \notin Owned => p \in backups)
      /\ \A p \in backups : Has(os, p)
      BY <1>1
<1>4. QED
      BY <1>1, <1>2, <1>3 DEF Joined

\* A request of several roots is queued.
LEMMA ManyJoin ==
    ASSUME NEW os \in Seq(Ops), Unique(os), NEW mode \in {"priority", "regular"}, NEW scanning \in SUBSET Ops,
           NEW backups \in SUBSET Ops, QueueUp(os, mode, scanning, backups),
           \A o : o \in backups <=> Has(os, o), NEW D, \A o \in Ops : Has(os, o) => o \in D
    PROVE  Joined(D)
BY DEF Joined

LEMMA SplitJoins ==
    ASSUME NEW o \in Ops, NEW mode \in {"priority", "regular"}, NEW N \in SUBSET Ops, o \notin N,
           SplitBulkRequest(o, SetToSeq(N), mode), NEW D, o \in D, N \subseteq D
    PROVE  Joined(D)
<1> DEFINE s == SetToSeq(N)
<1>1. s \in Seq(Ops) /\ Unique(s) /\ \A p : Has(s, p) => p \in N
      BY SetToSeqUnique
<1>2. \/ QueueUp(Append(s, o), mode, ToSet(s), {o} \cup ToSet(s))
      \/ QueueUp(s, mode, ToSet(s), ToSet(s))
      BY DEF SplitBulkRequest
<1> HIDE DEF s
<1>3. \A p : p \in ToSet(s) <=> Has(s, p)
      BY DEF ToSet, Has
<1>4. ToSet(s) \in SUBSET Ops
      BY <1>1, <1>3
<1>5. CASE QueueUp(s, mode, ToSet(s), ToSet(s))
      BY <1>1, <1>3, <1>4, <1>5, ManyJoin
<1>6. CASE QueueUp(Append(s, o), mode, ToSet(s), {o} \cup ToSet(s))
      <2> DEFINE e == <<o>>
      <2>1. e \in Seq(Ops) /\ Unique(e) /\ \A p : Has(e, p) <=> p = o
            BY OneElement
      <2>2. Append(s, o) = s \o e
            BY <1>1
      <2> HIDE DEF e
      <2> DEFINE a == s \o e
      <2>3. a \in Seq(Ops) /\ Unique(a) /\ \A p : Has(a, p) <=> Has(s, p) \/ p = o
            BY <1>1, <2>1, ConcatUnique
      <2>4. QueueUp(a, mode, ToSet(s), {o} \cup ToSet(s))
            BY <1>6, <2>2
      <2> HIDE DEF a
      <2> DEFINE B == {o} \cup ToSet(s)
      <2>5. B \in SUBSET Ops /\ \A p : p \in B <=> Has(a, p)
            BY <1>3, <1>4, <2>3
      <2>6. QueueUp(a, mode, ToSet(s), B)
            BY <2>4
      <2> HIDE DEF B
      <2>7. \A p \in Ops : Has(a, p) => p \in D
            BY <1>1, <2>3
      <2>8. QED
            BY <1>4, <2>3, <2>5, <2>6, <2>7, ManyJoin
<1>7. QED
      BY <1>2, <1>5, <1>6

NewOps == {o \in Ops : phase[o] = "new"}

LEMMA AddJoins ==
    ASSUME NEW o \in Ops, NEW mode \in {"priority", "regular"}, Add(o, mode)
    PROVE  QueueNothing \/ Joined(NewOps)
<1>1. o \in NewOps
      BY DEF Add, NewOps
<1> DEFINE T == {p \in {o} : Kind[p] = "tree"}
<1>2. T \in SUBSET {o} /\ T \in SUBSET Ops /\ (o \in T <=> Kind[o] = "tree")
      OBVIOUS
<1> HIDE DEF T
<1>3. CASE AddDownloadOperation(o, mode) \/ AddUploadOperation(o, mode)
      <2>1. Kind[o] \in {"transfer", "tree"} /\ (QueueUp(<<o>>, mode, T, T) \/ QueueNothing)
            BY <1>3 DEF AddDownloadOperation, AddUploadOperation, T
      <2>2. Resumable(o) /\ o \notin Owned => o \in T
            BY <1>2, <2>1 DEF Resumable
      <2>3. QED
            BY <1>1, <1>2, <2>1, <2>2, OneJoins
<1>4. ASSUME NEW scanning \in SUBSET {o}, QueueUp(<<o>>, mode, scanning, {}), ~Resumable(o)
      PROVE  Joined(NewOps)
      <2>1. scanning \in SUBSET Ops /\ {} \in SUBSET {o}
            OBVIOUS
      <2>2. QED
            BY <1>1, <1>4, <2>1, OneJoins
<1>5. CASE AddArchiveDownloadOperation(o, mode) \/ AddArchiveUploadOperation(o, mode)
      BY <1>4, <1>5 DEF AddArchiveDownloadOperation, AddArchiveUploadOperation, Resumable
<1>6. CASE AddDeleteOperation(o, mode)
      BY <1>4, <1>6 DEF AddDeleteOperation, Resumable
<1>7. CASE AddRenameOperation(o, mode)
      <2>1. {} \in SUBSET {o}
            OBVIOUS
      <2>2. QED
            BY <1>4, <1>7, <2>1 DEF AddRenameOperation, Resumable
<1>8. CASE AddBulkDeleteOperation(o, mode)
      <2>1. QueueNothing \/ \E scanning \in SUBSET {o} : QueueUp(<<o>>, mode, scanning, {o})
            BY <1>8 DEF AddBulkDeleteOperation
      <2>2. SUBSET {o} \subseteq SUBSET Ops /\ {o} \in SUBSET {o} /\ o \in {o}
            OBVIOUS
      <2>3. QED
            BY <1>1, <2>1, <2>2, OneJoins
<1>9. ASSUME NEW N \in SUBSET {p \in Ops : Kind[p] = "tree" /\ phase[p] = "new"},
             AddBulkDownloadOperation(o, SetToSeq(N), mode) \/ AddBulkUploadOperation(o, SetToSeq(N), mode)
      PROVE  Joined(NewOps)
      <2>1. Kind[o] = "list" /\ SplitBulkRequest(o, SetToSeq(N), mode)
            BY <1>9 DEF AddBulkDownloadOperation, AddBulkUploadOperation
      <2>2. N \in SUBSET Ops /\ o \notin N /\ N \subseteq NewOps
            BY <2>1 DEF NewOps
      <2>3. QED
            BY <1>1, <2>1, <2>2, SplitJoins
<1>10. QED
      BY <1>3, <1>5, <1>6, <1>7, <1>8, <1>9 DEF Add
-----------------------------------------------------------------------------
(***************************************************************************)
(* The calls: additions, cancels and moves.                                *)
(***************************************************************************)
\* What every call finds: no operation is taken next, and what the handler below has to do is steady.
Below(rest) ==
    /\ AgendaInv(rest) /\ Steady(rest)
    /\ \A o : EndOf(rest, o) <=> EndOf(agenda, o)
    /\ \A o : ~TakenNext(agenda, o)

LEMMA BelowIdle == ASSUME agenda = <<>> PROVE Below(<<>>)
BY AgendaNone, SteadyAgenda DEF Below

LEMMA BelowStep ==
    ASSUME CardInv, agenda # <<>>, Head(agenda).step \notin Ends \cup {"take"}
    PROVE  Below(Tail(agenda))
<1>1. /\ AgendaInv(Tail(agenda)) /\ Steady(Tail(agenda))
      /\ \A o : EndOf(Tail(agenda), o) <=> EndOf(agenda, o)
      /\ Head(agenda) = agenda[1]
      BY AgendaTail DEF CardInv
<1>2. \A o : ~TakenNext(agenda, o)
      BY <1>1 DEF CardInv, AgendaInv, TakenNext, FrontSteps
<1>3. QED
      BY <1>1, <1>2 DEF Below

LEMMA ThenNothing ==
    ASSUME NEW rest, Below(rest), Then(<<>>, rest)
    PROVE  /\ AgendaInv(agenda') /\ Steady(agenda')
           /\ \A o \in Ops : ~TakenNext(agenda, o)
           /\ \A o \in Ops : EndOf(agenda', o) <=> EndOf(agenda, o)
<1> DEFINE e == << >>
<1>1. AgendaInv(e) /\ Steady(e) /\ \A o : ~EndOf(e, o)
      BY AgendaNone
<1>2. Then(e, rest)
      OBVIOUS
<1> HIDE DEF e
<1>3. AgendaInv(rest) /\ Steady(rest) /\ \A o : EndOf(rest, o) <=> EndOf(agenda, o)
      BY DEF Below
<1>4. /\ AgendaInv(agenda') /\ Steady(agenda')
      /\ \A o : EndOf(agenda', o) <=> EndOf(e, o) \/ EndOf(rest, o)
      BY <1>1, <1>2, <1>3, ThenFacts
<1>5. QED
      BY <1>1, <1>3, <1>4 DEF Below

\* Operations in R leave their queue, and steps with their ends are done before the rest.
LEMMA LeavesThen ==
    ASSUME CardInv, NEW R, NEW p, AgendaInv(p), Steady(p), NEW rest, Below(rest), Then(p, rest),
           \A o \in Ops : EndOf(p, o) <=> o \in R /\ InQueue(o),
           QueuesInv', \A o \in Ops : InQueue(o)' <=> InQueue(o) /\ o \notin R,
           UNCHANGED <<phase, open, stash, registry, kept>>
    PROVE  CardInv'
<1>1. \A o \in Ops : InQueue(o) => ~EndOf(agenda, o)
      BY DEF Below, CardInv, CardsInv
<1>2. AgendaInv(rest) /\ Steady(rest) /\ \A o \in Ops : ~(EndOf(p, o) /\ EndOf(rest, o))
      BY <1>1 DEF Below
<1>3. /\ AgendaInv(agenda') /\ Steady(agenda')
      /\ \A o : EndOf(agenda', o) <=> EndOf(p, o) \/ EndOf(rest, o)
      BY <1>2, ThenFacts
<1>4. FrontInv'
      BY <1>3, SteadyThen
<1>5. /\ \A o \in Ops : ~TakenNext(agenda, o)
      /\ \A o \in Ops : EndOf(agenda', o) <=> EndOf(agenda, o) \/ (o \in R /\ InQueue(o))
      BY <1>3 DEF Below
<1>6. /\ phase' \in [Ops -> {"new", "scan", "run"}] /\ registry' \subseteq registry
      /\ \A o \in Ops : phase'[o] = "new" <=> phase[o] = "new"
      BY DEF CardInv, HomeInv
<1>7. QED
      BY <1>3, <1>4, <1>5, <1>6, CardsLeave

LEMMA IfAgenda ==
    ASSUME NEW c \in BOOLEAN, NEW name \in StepNames \ FrontSteps, NEW o \in Ops
    PROVE  /\ AgendaInv(If(c, <<Step(name, o)>>)) /\ Steady(If(c, <<Step(name, o)>>))
           /\ \A p : EndOf(If(c, <<Step(name, o)>>), p) <=> c /\ name \in Ends /\ p = o
<1>1. CASE c
      <2>1. If(c, <<Step(name, o)>>) = <<Step(name, o)>>
            BY <1>1 DEF If
      <2>2. Step(name, o) \in Steps /\ Step(name, o).step = name /\ Step(name, o).op = o
            BY StepType
      <2>3. /\ AgendaInv(<<Step(name, o)>>) /\ Steady(<<Step(name, o)>>)
            /\ \A p : EndOf(<<Step(name, o)>>, p) <=> name \in Ends /\ o = p
            BY <2>2, AgendaOne
      <2>4. QED
            BY <1>1, <2>1, <2>3
<1>2. CASE ~c
      <2>1. If(c, <<Step(name, o)>>) = << >>
            BY <1>2 DEF If
      <2>2. QED
            BY <1>2, <2>1, AgendaNone
<1>3. QED
      BY <1>1, <1>2

LEMMA CancelStepsFacts ==
    ASSUME QueuesInv, NEW o \in Ops
    PROVE  /\ AgendaInv(CancelSteps(o)) /\ Steady(CancelSteps(o))
           /\ \A p : EndOf(CancelSteps(o), p) <=> p = o /\ InQueue(o)
<1> DEFINE f == If(o \in Scans, <<Step("failScan", o)>>)
           c == If(Queued(o), <<Step("cancelledByUser", o)>>)
<1>1. AgendaInv(f) /\ Steady(f) /\ \A p : ~EndOf(f, p)
      <2>1. (o \in Scans) \in BOOLEAN /\ "failScan" \in StepNames \ FrontSteps /\ "failScan" \notin Ends
            BY DEF StepNames, FrontSteps, Ends
      <2>2. QED
            BY <2>1, IfAgenda
<1>2. AgendaInv(c) /\ Steady(c) /\ \A p : EndOf(c, p) <=> p = o /\ InQueue(o)
      <2>1. Queued(o) \in BOOLEAN /\ "cancelledByUser" \in StepNames \ FrontSteps /\ "cancelledByUser" \in Ends
            BY DEF StepNames, FrontSteps, Ends, Queued
      <2>2. /\ AgendaInv(c) /\ Steady(c)
            /\ \A p : EndOf(c, p) <=> Queued(o) /\ "cancelledByUser" \in Ends /\ p = o
            BY <2>1, IfAgenda
      <2>3. QED
            BY <2>1, <2>2, QueuedIs
<1>3. CancelSteps(o) = f \o c
      BY DEF CancelSteps
<1> HIDE DEF f, c
<1>4. /\ AgendaInv(f \o c) /\ FrontOf(f \o c, f)
      /\ \A p : EndOf(f \o c, p) <=> EndOf(f, p) \/ EndOf(c, p)
      BY <1>1, <1>2, AgendaConcat
<1>5. Steady(f \o c)
      BY <1>1, <1>4, SteadyFront
<1>6. QED
      BY <1>1, <1>2, <1>3, <1>4, <1>5

\* takeOperation, and erase_if on both queues.
LEMMA TakeOperationFacts ==
    ASSUME QueuesInv, NEW o \in Ops,
           \/ TakeOperation(o)
           \/ /\ priorityOperations' = RemoveFirst(priorityOperations, o)
              /\ operations' = RemoveFirst(operations, o)
    PROVE  QueuesInv' /\ \A p \in Ops : InQueue(p)' <=> InQueue(p) /\ p # o
<1>1. /\ priorityOperations \in Seq(Ops) /\ Unique(priorityOperations)
      /\ operations \in Seq(Ops) /\ Unique(operations)
      /\ \A p \in Ops : ~(Has(priorityOperations, p) /\ Has(operations, p))
      BY DEF QueuesInv
<1> DEFINE P == RemoveFirst(priorityOperations, o)
           R == RemoveFirst(operations, o)
<1>2. P \in Seq(Ops) /\ Unique(P) /\ \A p : Has(P, p) <=> Has(priorityOperations, p) /\ p # o
      BY <1>1, RemoveFirstUnique
<1>3. R \in Seq(Ops) /\ Unique(R) /\ \A p : Has(R, p) <=> Has(operations, p) /\ p # o
      BY <1>1, RemoveFirstUnique
<1>4. Contains(operations, o) <=> Has(operations, o)
      <2>1. DOMAIN operations = 1..Len(operations)
            BY <1>1
      <2>2. QED
            BY <2>1 DEF Contains, Has
<1>5. /\ priorityOperations' \in {priorityOperations, P} /\ operations' \in {operations, R}
      /\ Has(priorityOperations, o) => priorityOperations' = P
      /\ Has(operations, o) => operations' = R
      BY <1>1, <1>4 DEF TakeOperation
<1> HIDE DEF P, R
<1>6. /\ priorityOperations' \in Seq(Ops) /\ Unique(priorityOperations')
      /\ \A p \in Ops : Has(priorityOperations', p) <=> Has(priorityOperations, p) /\ p # o
      BY <1>1, <1>2, <1>5
<1>7. /\ operations' \in Seq(Ops) /\ Unique(operations')
      /\ \A p \in Ops : Has(operations', p) <=> Has(operations, p) /\ p # o
      BY <1>1, <1>3, <1>5
<1>8. QED
      BY <1>1, <1>6, <1>7 DEF QueuesInv, InQueue

\* One operation leaves its queue; p holds its end.
LEMMA OneLeaves ==
    ASSUME CardInv, NEW o \in Ops, NEW p, AgendaInv(p), Steady(p), NEW rest, Below(rest), Then(p, rest),
           \A q : EndOf(p, q) <=> q = o /\ InQueue(o),
           \/ TakeOperation(o)
           \/ /\ priorityOperations' = RemoveFirst(priorityOperations, o)
              /\ operations' = RemoveFirst(operations, o),
           UNCHANGED <<phase, open, stash, registry, kept>>
    PROVE  CardInv'
<1>1. QueuesInv' /\ \A q \in Ops : InQueue(q)' <=> InQueue(q) /\ q # o
      BY TakeOperationFacts DEF CardInv
<1> DEFINE R == {o}
<1>2. /\ \A q \in Ops : InQueue(q)' <=> InQueue(q) /\ q \notin R
      /\ \A q \in Ops : EndOf(p, q) <=> q \in R /\ InQueue(q)
      BY <1>1
<1> HIDE DEF R
<1>3. QED
      BY <1>1, <1>2, LeavesThen

LEMMA CancelCards ==
    ASSUME CardInv, NEW o \in Ops, NEW rest, Below(rest), Cancel(o, rest)
    PROVE  CardInv'
<1> DEFINE p == CancelSteps(o)
<1>1. AgendaInv(p) /\ Steady(p) /\ \A q : EndOf(p, q) <=> q = o /\ InQueue(o)
      BY CancelStepsFacts DEF CardInv
<1>2. Then(p, rest) /\ TakeOperation(o) /\ UNCHANGED <<phase, open, stash, registry, kept>>
      BY DEF Cancel, ownerVars
<1> HIDE DEF p
<1>3. QED
      BY <1>1, <1>2, OneLeaves

LEMMA EndIfQueued ==
    ASSUME QueuesInv, NEW o \in Ops
    PROVE  /\ AgendaInv(If(Queued(o), <<Step("complete", o)>>)) /\ Steady(If(Queued(o), <<Step("complete", o)>>))
           /\ \A q : EndOf(If(Queued(o), <<Step("complete", o)>>), q) <=> q = o /\ InQueue(o)
<1> DEFINE c == If(Queued(o), <<Step("complete", o)>>)
<1>1. Queued(o) \in BOOLEAN /\ "complete" \in StepNames \ FrontSteps /\ "complete" \in Ends
      BY DEF StepNames, FrontSteps, Ends, Queued
<1>2. /\ AgendaInv(c) /\ Steady(c)
      /\ \A q : EndOf(c, q) <=> Queued(o) /\ "complete" \in Ends /\ q = o
      BY <1>1, IfAgenda
<1>3. QED
      BY <1>1, <1>2, QueuedIs

LEMMA CancelUploadCards ==
    ASSUME CardInv, NEW o \in Ops, agenda = <<>>, CancelUpload(o)
    PROVE  CardInv'
<1> DEFINE p == If(Queued(o), <<Step("complete", o)>>)
           r == << >>
<1>1. AgendaInv(p) /\ Steady(p) /\ \A q : EndOf(p, q) <=> q = o /\ InQueue(o)
      BY EndIfQueued DEF CardInv
<1>2. Then(p, r) /\ TakeOperation(o) /\ UNCHANGED <<phase, open, stash, registry, kept>> /\ Below(r)
      BY BelowIdle DEF CancelUpload, ownerVars
<1> HIDE DEF p, r
<1>3. QED
      BY <1>1, <1>2, OneLeaves

LEMMA CancelsSiblingScanCards ==
    ASSUME CardInv, Head(posted).op \in Ops, CancelsSiblingScan
    PROVE  CardInv'
<1> DEFINE o == Head(posted).op
           p == If(Queued(o), <<Step("complete", o)>>)
           r == << >>
<1>1. o \in Ops
      OBVIOUS
<1>2. /\ agenda = r
      /\ priorityOperations' = RemoveFirst(priorityOperations, o)
      /\ operations' = RemoveFirst(operations, o)
      /\ Then(p, r)
      /\ UNCHANGED <<phase, open, stash, registry, kept>>
      BY DEF CancelsSiblingScan, ownerVars
<1>3. Below(r)
      BY <1>2, BelowIdle
<1> HIDE DEF o
<1>4. AgendaInv(p) /\ Steady(p) /\ \A q : EndOf(p, q) <=> q = o /\ InQueue(o)
      BY <1>1, EndIfQueued DEF CardInv
<1> HIDE DEF p, r
<1>5. QED
      BY <1>1, <1>2, <1>3, <1>4, OneLeaves

LEMMA CancelAllStepsFacts ==
    ASSUME QueuesInv
    PROVE  /\ AgendaInv(CancelAllSteps) /\ Steady(CancelAllSteps)
           /\ \A o \in Ops : EndOf(CancelAllSteps, o) <=> InQueue(o)
<1> DEFINE q == priorityOperations \o operations
           c == CancelAllSteps
<1>1. priorityOperations \in Seq(Ops) /\ operations \in Seq(Ops)
      BY DEF QueuesInv
<1>2. /\ q \in Seq(Ops)
      /\ \A o : Has(q, o) <=> Has(priorityOperations, o) \/ Has(operations, o)
      /\ Unique(q)
      BY <1>1, ConcatUnique DEF QueuesInv
<1>3. c = [i \in DOMAIN q |-> Step("cancelledByUser", q[i])]
      BY DEF CancelAllSteps
<1> HIDE DEF q, c
<1>4. DOMAIN q = 1..Len(q) /\ Len(q) \in Nat /\ \A i \in DOMAIN q : q[i] \in Ops
      BY <1>2
<1>5. "cancelledByUser" \in StepNames /\ "cancelledByUser" \in Ends /\ "cancelledByUser" \notin FrontSteps
      BY DEF StepNames, Ends, FrontSteps
<1>6. \A i \in DOMAIN q : Step("cancelledByUser", q[i]) \in Steps
                          /\ Step("cancelledByUser", q[i]).step = "cancelledByUser"
                          /\ Step("cancelledByUser", q[i]).op = q[i]
      BY <1>4, <1>5, StepType
<1>7. DOMAIN c = DOMAIN q /\ \A i \in DOMAIN c : c[i] \in Steps /\ c[i].step = "cancelledByUser" /\ c[i].op = q[i]
      BY <1>3, <1>6
<1>8. c \in Seq(Steps)
      <2>1. c \in [1..Len(q) -> Steps]
            BY <1>3, <1>4, <1>6
      <2>2. QED
            BY <1>4, <2>1
<1>9. AgendaInv(c) /\ Steady(c)
      BY <1>2, <1>5, <1>7, <1>8 DEF AgendaInv, Steady, Unique
<1>10. \A o \in Ops : EndOf(c, o) <=> Has(q, o)
      BY <1>5, <1>7 DEF EndOf, Has
<1>11. QED
      BY <1>2, <1>9, <1>10 DEF c, InQueue

LEMMA CancelAllCards ==
    ASSUME CardInv, agenda = <<>>, CancelAll(<<>>)
    PROVE  CardInv'
<1> DEFINE p == CancelAllSteps
           r == << >>
           R == Ops
<1>1. /\ AgendaInv(p) /\ Steady(p)
      /\ \A o \in Ops : EndOf(p, o) <=> InQueue(o)
      BY CancelAllStepsFacts DEF CardInv
<1>2. /\ Then(p, r) /\ Below(r)
      /\ UNCHANGED <<phase, open, stash, registry, kept>>
      BY BelowIdle DEF CancelAll, ownerVars
<1>3. QueuesInv' /\ \A o \in Ops : ~InQueue(o)'
      <2>1. priorityOperations' = r /\ operations' = r
            BY DEF CancelAll
      <2>2. r \in Seq(Ops) /\ Unique(r) /\ \A o : ~Has(r, o)
            BY EmptyElements
      <2> HIDE DEF r
      <2>3. QED
            BY <2>1, <2>2 DEF QueuesInv, InQueue
<1> HIDE DEF p, r
<1>4. /\ \A o \in Ops : EndOf(p, o) <=> o \in R /\ InQueue(o)
      /\ \A o \in Ops : InQueue(o)' <=> InQueue(o) /\ o \notin R
      BY <1>1, <1>3
<1> HIDE DEF R
<1>5. QED
      BY <1>1, <1>2, <1>3, <1>4, LeavesThen

LEMMA MoveQueues ==
    ASSUME CardInv, NEW o \in Ops, NEW newIndex \in 1..Cardinality(Ops), MoveOperation(o, newIndex)
    PROVE  QueuesInv' /\ \A p \in Ops : InQueue(p)' <=> InQueue(p)
<1>1. /\ priorityOperations \in Seq(Ops) /\ Unique(priorityOperations)
      /\ operations \in Seq(Ops) /\ Unique(operations)
      /\ \A p \in Ops : ~(Has(priorityOperations, p) /\ Has(operations, p))
      BY DEF CardInv, QueuesInv
<1>2. operations' \in Seq(Ops) /\ Unique(operations') /\ \A p \in Ops : Has(operations', p) <=> Has(operations, p)
      <2>1. CASE paused /\ ~Contains(priorityOperations, o) /\ Contains(operations, o)
            <3> DEFINE others == RemoveFirst(operations, o)
                       n == IF newIndex > Len(operations) THEN Len(operations) ELSE newIndex
            <3>1. operations' = InsertAt(others, n, o)
                  BY <2>1 DEF MoveOperation
            <3>2. Has(operations, o)
                  <4>1. DOMAIN operations = 1..Len(operations)
                        BY <1>1
                  <4>2. QED
                        BY <2>1, <4>1 DEF Contains, Has
            <3>3. /\ others \in Seq(Ops) /\ Unique(others)
                  /\ \A p : Has(others, p) <=> Has(operations, p) /\ p # o
                  /\ Len(others) = Len(operations) - 1
                  BY <1>1, <3>2, RemoveFirstUnique
            <3> HIDE DEF others
            <3>4. n \in 1..(Len(others) + 1)
                  <4>1. Len(operations) \in Nat /\ Len(others) \in Nat /\ newIndex \in Nat /\ newIndex >= 1
                        BY <1>1, <3>3
                  <4>2. QED
                        BY <3>3, <4>1
            <3>5. ~Has(others, o)
                  BY <3>3
            <3> HIDE DEF n
            <3>6. /\ InsertAt(others, n, o) \in Seq(Ops) /\ Unique(InsertAt(others, n, o))
                  /\ \A p : Has(InsertAt(others, n, o), p) <=> Has(others, p) \/ p = o
                  BY <3>3, <3>4, <3>5, InsertUnique
            <3>7. QED
                  BY <3>1, <3>2, <3>3, <3>6
      <2>2. CASE ~(paused /\ ~Contains(priorityOperations, o) /\ Contains(operations, o))
            BY <1>1, <2>2 DEF MoveOperation
      <2>3. QED
            BY <2>1, <2>2
<1>3. QueuesInv' /\ \A p \in Ops : InQueue(p)' <=> InQueue(p)
      <2>1. priorityOperations' = priorityOperations
            BY DEF MoveOperation
      <2>2. QED
            BY <1>1, <1>2, <2>1 DEF QueuesInv, InQueue
<1>4. QED
      BY <1>3

LEMMA MoveCards ==
    ASSUME CardInv, NEW o \in Ops, NEW newIndex \in 1..Cardinality(Ops), agenda = <<>>, MoveOperation(o, newIndex)
    PROVE  CardInv'
<1>1. QueuesInv' /\ \A q \in Ops : InQueue(q)' <=> InQueue(q)
      BY MoveQueues
<1>2. Then(<<>>, <<>>) /\ UNCHANGED <<phase, open, stash, registry, kept>>
      BY DEF MoveOperation, ownerVars
<1> DEFINE p == << >>
           R == {}
<1>3. AgendaInv(p) /\ Steady(p) /\ Below(p) /\ Then(p, p) /\ \A q : ~EndOf(p, q)
      BY <1>2, AgendaNone, BelowIdle
<1> HIDE DEF p
<1>4. /\ \A q \in Ops : EndOf(p, q) <=> q \in R /\ InQueue(q)
      /\ \A q \in Ops : InQueue(q)' <=> InQueue(q) /\ q \notin R
      BY <1>1, <1>3
<1> HIDE DEF R
<1>5. QED
      BY <1>1, <1>2, <1>3, <1>4, LeavesThen

\* New operations are queued, or none.
LEMMA NewCards ==
    ASSUME CardInv, NEW rest, Below(rest), Then(<<>>, rest), UNCHANGED <<registry, kept>>,
           QueueNothing \/ Joined(NewOps)
    PROVE  CardInv'
<1>1. /\ AgendaInv(agenda') /\ Steady(agenda')
      /\ \A o \in Ops : ~TakenNext(agenda, o)
      /\ \A o \in Ops : EndOf(agenda', o) <=> EndOf(agenda, o)
      BY ThenNothing
<1>2. registry' \subseteq registry /\ kept' = kept
      OBVIOUS
<1>3. CASE QueueNothing
      BY <1>1, <1>2, <1>3, CardsNothing
<1>4. CASE Joined(NewOps)
      <2>1. \A o \in Ops : o \in NewOps => open[o] = 0 /\ kept'[o] = "no" /\ o \notin registry'
            BY DEF NewOps, CardInv, CardsInv, HomeInv
      <2> DEFINE D == NewOps
      <2>2. Joined(D) /\ \A o \in Ops : o \in D => open[o] = 0 /\ kept'[o] = "no" /\ o \notin registry'
            BY <1>4, <2>1
      <2> HIDE DEF D
      <2>3. QED
            BY <1>1, <1>2, <2>2, CardsJoin
<1>5. QED
      BY <1>3, <1>4

LEMMA AddForOwnerCards ==
    ASSUME CardInv, NEW o \in Owned, phase[o] = "new", AddForOwner(o), NEW rest, Below(rest), Then(<<>>, rest)
    PROVE  CardInv'
<1>1. UNCHANGED <<registry, kept>>
      BY DEF AddForOwner
<1>2. o \in NewOps
      BY OwnedAssumption DEF NewOps
<1>3. CASE QueueUp(<<o>>, "priority", {}, {})
      <2>1. {} \in SUBSET Ops /\ {} \in SUBSET {o} /\ "priority" \in {"priority", "regular"} /\ o \in Ops
            BY <1>2 DEF NewOps
      <2>2. Joined(NewOps)
            BY <1>2, <1>3, <2>1, OneJoins
      <2>3. QED
            BY <1>1, <2>2, NewCards
<1>4. CASE QueueNothing
      BY <1>1, <1>4, NewCards
<1>5. QED
      BY <1>3, <1>4 DEF AddForOwner

LEMMA AddSyncScanCards ==
    ASSUME CardInv, agenda = <<>>, NEW o \in Scans, AddSyncScanOperation(o, Sibling[o]), Then(<<>>, <<>>)
    PROVE  CardInv'
<1> DEFINE l == Sibling[o]
           a == << o >>
           b == << l >>
           os == a \o b
           B == {}
<1>1. o \in Ops /\ l \in Ops /\ l # o /\ Kind[o] = "scan" /\ Kind[l] = "scan" /\ phase[o] = "new" /\ phase[l] = "new"
      BY SiblingAssumption DEF Scans, AddSyncScanOperation
<1>2. QueueUp(<<o, l>>, "priority", {o, l}, B) /\ UNCHANGED <<registry, kept>>
      BY DEF AddSyncScanOperation
<1>3. <<o, l>> = os
      OBVIOUS
<1> HIDE DEF l
<1>4. a \in Seq(Ops) /\ Unique(a) /\ (\A p : Has(a, p) <=> p = o)
      BY <1>1, OneElement
<1>5. b \in Seq(Ops) /\ Unique(b) /\ (\A p : Has(b, p) <=> p = l)
      BY <1>1, OneElement
<1> HIDE DEF a, b
<1>6. os \in Seq(Ops) /\ Unique(os) /\ \A p : Has(os, p) <=> p = o \/ p = l
      BY <1>1, <1>4, <1>5, ConcatUnique
<1>7. QueueUp(os, "priority", {o, l}, B)
      BY <1>2, <1>3
<1> HIDE DEF os
<1>8. /\ \A p \in Ops : Has(os, p) => p \in NewOps /\ (Resumable(p) /\ p \notin Owned => p \in B)
      /\ \A p \in B : Has(os, p)
      BY <1>1, <1>6 DEF NewOps, Resumable
<1>9. B \in SUBSET Ops /\ {o, l} \in SUBSET Ops /\ "priority" \in {"priority", "regular"}
      BY <1>1
<1>10. Joined(NewOps)
      BY <1>6, <1>7, <1>8, <1>9 DEF Joined
<1>11. Below(<<>>)
      BY BelowIdle
<1>12. QED
      BY <1>2, <1>10, <1>11, NewCards

LEMMA OneOpens ==
    ASSUME NEW o \in Ops, NEW mode, NEW scanning, NEW backups, QueueUp(<<o>>, mode, scanning, backups), open[o] = 0
    PROVE  open'[o] = 1
<1> DEFINE I == {i \in DOMAIN <<o>> : <<o>>[i] = o}
<1>1. I = {1}
      OBVIOUS
<1>2. Cardinality(I) = 1
      BY <1>1, FS_Singleton
<1>3. open'[o] = open[o] + Cardinality(I)
      BY DEF QueueUp
<1> HIDE DEF I
<1>4. QED
      BY <1>2, <1>3

LEMMA AdoptJoins ==
    ASSUME NEW o \in Ops, open[o] = 0, AdoptBulkResume(o)
    PROVE  QueueNothing \/ (Joined({o}) /\ open'[o] = 1)
<1>1. ASSUME NEW mode \in {"priority", "regular"}, NEW scanning \in SUBSET {p \in {o} : Kind[p] # "list"},
             QueueUp(<<o>>, mode, scanning, {o})
      PROVE  Joined({o}) /\ open'[o] = 1
      <2>1. scanning \in SUBSET Ops /\ {o} \in SUBSET {o} /\ o \in {o}
            OBVIOUS
      <2>2. QED
            BY <1>1, <2>1, OneJoins, OneOpens
<1>2. QED
      BY <1>1 DEF AdoptBulkResume

\* An operation from a registry is queued.
LEMMA BackCards ==
    ASSUME CardInv, agenda = <<>>, NEW o \in Ops, Joined({o}), Then(<<>>, <<>>), open[o] = 0,
           registry' \subseteq registry, o \notin registry',
           kept' = kept \/ kept' = [kept EXCEPT ![o] = "no"], kept'[o] = "no"
    PROVE  CardInv'
<1> DEFINE D == {o}
<1>1. Joined(D) /\ \A p \in Ops : p \in D => open[p] = 0 /\ kept'[p] = "no" /\ p \notin registry'
      OBVIOUS
<1> HIDE DEF D
<1>2. /\ AgendaInv(agenda') /\ Steady(agenda')
      /\ \A p \in Ops : ~TakenNext(agenda, p)
      /\ \A p \in Ops : EndOf(agenda', p) <=> EndOf(agenda, p)
      BY BelowIdle, ThenNothing
<1>3. QED
      BY <1>1, <1>2, CardsJoin

LEMMA IdleNothing ==
    ASSUME CardInv, agenda = <<>>, QueueNothing, Then(<<>>, <<>>), registry' \subseteq registry, kept' = kept
    PROVE  CardInv'
<1>1. /\ AgendaInv(agenda') /\ Steady(agenda')
      /\ \A p \in Ops : ~TakenNext(agenda, p)
      /\ \A p \in Ops : EndOf(agenda', p) <=> EndOf(agenda, p)
      BY BelowIdle, ThenNothing
<1>2. QED
      BY <1>1, CardsNothing

LEMMA AdoptBulkResumesCards ==
    ASSUME CardInv, agenda = <<>>, NEW o \in Ops, AdoptBulkResumes(o)
    PROVE  CardInv'
<1>1. open[o] = 0 /\ kept[o] = "no"
      BY DEF AdoptBulkResumes, CardInv, HomeInv
<1>2. registry' \subseteq registry /\ o \notin registry' /\ kept' = kept /\ Then(<<>>, <<>>)
      BY DEF AdoptBulkResumes
<1>3. QueueNothing \/ Joined({o})
      BY <1>1, AdoptJoins DEF AdoptBulkResumes
<1>4. QED
      BY <1>1, <1>2, <1>3, BackCards, IdleNothing

LEMMA ContinueKeptJoins ==
    ASSUME CardInv, NEW o \in Ops, open[o] = 0, ContinueKept(o)
    PROVE  QueueNothing \/ (Joined({o}) /\ open'[o] = 1)
<1>1. CASE kept[o] = "bulk" /\ AdoptBulkResume(o)
      BY <1>1, AdoptJoins
<1>2. CASE kept[o] = "single" /\ QueueUp(<<o>>, "regular", {}, {})
      <2>1. Kind[o] = "transfer"
            BY <1>2 DEF CardInv, HomeInv
      <2>2. /\ {} \in SUBSET Ops /\ {} \in SUBSET {o} /\ "regular" \in {"priority", "regular"} /\ o \in {o}
            /\ ~Resumable(o)
            BY <2>1 DEF Resumable
      <2>3. QED
            BY <1>2, <2>2, OneJoins, OneOpens
<1>3. QED
      BY <1>1, <1>2 DEF ContinueKept

LEMMA ContinueKeptCards ==
    ASSUME CardInv, agenda = <<>>, NEW o \in Ops, ContinueKept(o)
    PROVE  CardInv'
<1>1. open[o] = 0 /\ o \notin registry /\ kept \in [Ops -> {"no", "bulk", "single", "cannot"}]
      BY DEF ContinueKept, CardInv, HomeInv
<1>2. QueueNothing \/ (Joined({o}) /\ open'[o] = 1)
      BY <1>1, ContinueKeptJoins
<1>3. /\ registry' = registry /\ Then(<<>>, <<>>)
      /\ kept' = IF open'[o] > open[o] THEN [kept EXCEPT ![o] = "no"] ELSE kept
      BY DEF ContinueKept, KeptAfterContinuing
<1>4. CASE QueueNothing
      <2>1. ~(open'[o] > open[o])
            BY <1>1, <1>4 DEF QueueNothing
      <2>2. QED
            BY <1>3, <1>4, <2>1, IdleNothing
<1>5. CASE Joined({o}) /\ open'[o] = 1
      <2>1. kept' = [kept EXCEPT ![o] = "no"]
            BY <1>1, <1>3, <1>5
      <2>2. kept'[o] = "no" /\ registry' \subseteq registry /\ o \notin registry'
            BY <1>1, <1>3, <2>1
      <2>3. QED
            BY <1>1, <1>3, <1>5, <2>1, <2>2, BackCards
<1>6. QED
      BY <1>2, <1>4, <1>5

\* A request of another thread.
LEMMA RequestCards ==
    ASSUME CardInv, NEW o \in Ops, Request(o)
    PROVE  CardInv'
<1>0. agenda = <<>> /\ Below(<<>>)
      BY BelowIdle DEF Request
<1>1. ASSUME NEW mode \in {"priority", "regular"}, Add(o, mode), Then(<<>>, <<>>) PROVE CardInv'
      <2>1. QueueNothing \/ Joined(NewOps)
            BY <1>1, AddJoins
      <2>2. UNCHANGED <<registry, kept>>
            BY <1>1 DEF Add
      <2>3. QED
            BY <1>0, <1>1, <2>1, <2>2, NewCards
<1>2. ASSUME o \in Owned, phase[o] = "new", AddForOwner(o), Then(<<>>, <<>>) PROVE CardInv'
      BY <1>0, <1>2, AddForOwnerCards
<1>3. ASSUME o \in Scans, AddSyncScanOperation(o, Sibling[o]), Then(<<>>, <<>>) PROVE CardInv'
      BY <1>0, <1>3, AddSyncScanCards
<1>4. ASSUME CloseSyncSession(o) PROVE CardInv'
      <2>1. /\ UNCHANGED <<agenda, priorityOperations, operations, phase, open, stash>>
            /\ registry' \subseteq registry /\ kept' = kept
            BY <1>4 DEF CloseSyncSession, queueVars, ownerVars
      <2>2. QED
            BY <2>1, CardsSame
<1>5. ASSUME Cancel(o, <<>>) PROVE CardInv'
      BY <1>0, <1>5, CancelCards
<1>6. ASSUME CancelAll(<<>>) PROVE CardInv'
      BY <1>0, <1>6, CancelAllCards
<1>7. ASSUME CancelUpload(o) PROVE CardInv'
      BY <1>0, <1>7, CancelUploadCards
<1>8. ASSUME NEW newIndex \in 1..Cardinality(Ops), MoveOperation(o, newIndex) PROVE CardInv'
      BY <1>0, <1>8, MoveCards
<1>9. ASSUME NEW pause \in BOOLEAN, Pause(pause) PROVE CardInv'
      <2>1. QueueNothing /\ Then(<<>>, <<>>) /\ registry' \subseteq registry /\ kept' = kept
            BY <1>9 DEF Pause, QueueNothing, queueVars, ownerVars
      <2>2. QED
            BY <1>0, <2>1, IdleNothing
<1>10. ASSUME ContinueKept(o) PROVE CardInv'
      BY <1>0, <1>10, ContinueKeptCards
<1>11. ASSUME DiscardKept(o) PROVE CardInv'
      <2>1. /\ UNCHANGED <<agenda, priorityOperations, operations, phase, open, stash>>
            /\ registry' \subseteq registry /\ kept' = [kept EXCEPT ![o] = "no"]
            BY <1>11 DEF DiscardKept, queueVars, ownerVars
      <2>2. QED
            BY <2>1, CardsSame
<1>12. ASSUME AdoptBulkResumes(o) PROVE CardInv'
      BY <1>0, <1>12, AdoptBulkResumesCards
<1>13. QED
      BY <1>1, <1>2, <1>3, <1>4, <1>5, <1>6, <1>7, <1>8, <1>9, <1>10, <1>11, <1>12 DEF Request
-----------------------------------------------------------------------------
(***************************************************************************)
(* The steps of the running handler.                                       *)
(***************************************************************************)
\* A step of the handler that concerns no card and calls no owner.
LEMMA StepDone ==
    ASSUME CardInv, agenda # <<>>, Head(agenda).step \notin Ends \cup {"take"}, agenda' = Tail(agenda),
           UNCHANGED <<priorityOperations, operations, phase, open, stash, registry, kept>>
    PROVE  CardInv'
<1>1. Below(Tail(agenda))
      BY BelowStep
<1>2. /\ AgendaInv(agenda') /\ Steady(agenda')
      /\ \A o \in Ops : ~TakenNext(agenda, o)
      /\ \A o \in Ops : EndOf(agenda', o) <=> EndOf(agenda, o)
      BY <1>1 DEF Below
<1>3. QueueNothing /\ registry' \subseteq registry /\ kept' = kept
      BY DEF QueueNothing
<1>4. QED
      BY <1>2, <1>3, CardsNothing

LEMMA OwnerAddsCards == ASSUME CardInv, OwnerAdds PROVE CardInv'
<1>1. agenda # <<>> /\ Head(agenda).step = "addForOwner" /\ AddForOwner(Op) /\ Then(<<>>, Tail(agenda))
      BY DEF OwnerAdds, Doing
<1>2. Below(Tail(agenda))
      BY <1>1, BelowStep DEF Ends
<1>3. Op \in Owned /\ phase[Op] = "new"
      <2>1. Head(agenda) = agenda[1] /\ 1 \in DOMAIN agenda
            BY <1>1, AgendaTail DEF CardInv
      <2>2. QED
            BY <1>1, <2>1 DEF CardInv, FrontInv, Op
<1>4. QED
      BY <1>1, <1>2, <1>3, AddForOwnerCards

LEMMA OwnerCancelsCards == ASSUME CardInv, OwnerCancels PROVE CardInv'
<1>1. agenda # <<>> /\ Head(agenda).step = "cancel" /\ Cancel(Op, Tail(agenda))
      BY DEF OwnerCancels, Doing
<1>2. Below(Tail(agenda))
      BY <1>1, BelowStep DEF Ends
<1>3. Op \in Ops
      <2>1. Head(agenda) \in Steps
            BY <1>1, AgendaTail DEF CardInv
      <2>2. QED
            BY <2>1 DEF Op, Steps
<1>4. QED
      BY <1>1, <1>2, <1>3, CancelCards

LEMMA ReactionFacts ==
    ASSUME QueuesInv, NEW r \in Reaction \cup {<<>>}
    PROVE  /\ AgendaInv(r) /\ (\A o : ~EndOf(r, o))
           /\ \A i \in DOMAIN r : /\ r[i].step # "take"
                                  /\ r[i].step = "addForOwner" => r[i].op \in Owned /\ phase[r[i].op] = "new"
<1>1. CASE r = << >>
      <2>1. AgendaInv(<< >>) /\ \A o : ~EndOf(<< >>, o)
            BY AgendaNone
      <2>2. DOMAIN << >> = {}
            BY EmptyElements
      <2>3. QED
            BY <1>1, <2>1, <2>2
<1>2. ASSUME NEW name \in {"addForOwner", "cancel"}, NEW o \in Ops, r = <<Step(name, o)>>,
             name = "addForOwner" => o \in Owned /\ phase[o] = "new"
      PROVE  /\ AgendaInv(r) /\ (\A q : ~EndOf(r, q))
             /\ \A i \in DOMAIN r : /\ r[i].step # "take"
                                    /\ r[i].step = "addForOwner" => r[i].op \in Owned /\ phase[r[i].op] = "new"
      <2> DEFINE s == Step(name, o)
      <2>1. s \in Steps /\ s.step = name /\ s.op = o
            BY StepType DEF StepNames
      <2>2. r = << s >>
            BY <1>2
      <2> HIDE DEF s
      <2>3. AgendaInv(r) /\ \A q : ~EndOf(r, q)
            BY <2>1, <2>2, AgendaOne DEF Ends
      <2>4. DOMAIN r = {1} /\ r[1] = s
            BY <2>2
      <2>5. QED
            BY <1>2, <2>1, <2>3, <2>4
<1>3. \/ r = << >>
      \/ \E o \in {p \in Owned : phase[p] = "new" /\ "add" \in Reactions} : r = <<Step("addForOwner", o)>>
      \/ \E o \in {p \in Ops : Queued(p) /\ "cancel" \in Reactions} : r = <<Step("cancel", o)>>
      BY DEF Reaction
<1>4. CASE \E o \in {p \in Owned : phase[p] = "new" /\ "add" \in Reactions} : r = <<Step("addForOwner", o)>>
      <2>1. PICK o \in {p \in Owned : phase[p] = "new" /\ "add" \in Reactions} : r = <<Step("addForOwner", o)>>
            BY <1>4
      <2>2. o \in Ops /\ o \in Owned /\ phase[o] = "new"
            BY OwnedAssumption
      <2>3. QED
            BY <1>2, <2>1, <2>2
<1>5. CASE \E o \in {p \in Ops : Queued(p) /\ "cancel" \in Reactions} : r = <<Step("cancel", o)>>
      BY <1>2, <1>5
<1>6. QED
      BY <1>1, <1>3, <1>4, <1>5

\* The owner reacts; then the handler goes on.
LEMMA ReactionThen ==
    ASSUME QueuesInv, AgendaInv(agenda), agenda # <<>>, NEW r \in Reaction \cup {<<>>},
           agenda' = r \o Tail(agenda), UNCHANGED phase
    PROVE  /\ AgendaInv(agenda') /\ FrontInv' /\ (\A o : ~TakenNext(agenda', o))
           /\ \A o : EndOf(agenda', o) <=> EndOf(agenda, o) /\ ~(Head(agenda).step \in Ends /\ Op = o)
<1> DEFINE t == Tail(agenda)
<1>1. /\ AgendaInv(t) /\ Steady(t)
      /\ \A o : EndOf(t, o) <=> EndOf(agenda, o) /\ ~(Head(agenda).step \in Ends /\ Op = o)
      BY AgendaTail DEF Op
<1>2. /\ AgendaInv(r) /\ (\A o : ~EndOf(r, o))
      /\ \A i \in DOMAIN r : /\ r[i].step # "take"
                             /\ r[i].step = "addForOwner" => r[i].op \in Owned /\ phase[r[i].op] = "new"
      BY ReactionFacts
<1>3. agenda' = r \o t
      OBVIOUS
<1> HIDE DEF t
<1>4. AgendaInv(agenda') /\ FrontOf(agenda', r) /\ \A o : EndOf(agenda', o) <=> EndOf(r, o) \/ EndOf(t, o)
      <2>1. /\ AgendaInv(r) /\ AgendaInv(t) /\ Steady(t)
            /\ \A o \in Ops : ~(EndOf(r, o) /\ EndOf(t, o))
            BY <1>1, <1>2
      <2>2. AgendaInv(r \o t) /\ FrontOf(r \o t, r) /\ \A o : EndOf(r \o t, o) <=> EndOf(r, o) \/ EndOf(t, o)
            BY <2>1, AgendaConcat
      <2>3. QED
            BY <1>3, <2>2
<1>5. \A i \in DOMAIN agenda' :
          /\ agenda'[i].step # "take"
          /\ agenda'[i].step = "addForOwner" => agenda'[i].op \in Owned /\ phase[agenda'[i].op] = "new"
      BY <1>2, <1>4 DEF FrontOf, FrontSteps
<1>6. FrontInv' /\ \A o : ~TakenNext(agenda', o)
      BY <1>5 DEF FrontInv, TakenNext
<1>7. QED
      BY <1>1, <1>2, <1>4, <1>6

LEMMA DeliversProgressCards == ASSUME CardInv, DeliversProgress PROVE CardInv'
<1>1. agenda # <<>> /\ Head(agenda).step = "progress"
      BY DEF DeliversProgress, Doing
<1>2. UNCHANGED <<priorityOperations, operations, phase, open, stash, registry, kept>>
      BY DEF DeliversProgress, queueVars, ownerVars
<1>3. PICK r \in Reaction \cup {<<>>} : agenda' = r \o Tail(agenda)
      BY DEF DeliversProgress
<1>4. /\ AgendaInv(agenda') /\ FrontInv' /\ (\A o : ~TakenNext(agenda', o))
      /\ \A o : EndOf(agenda', o) <=> EndOf(agenda, o)
      BY <1>1, <1>2, <1>3, ReactionThen DEF CardInv, Ends
<1>5. \A o : ~TakenNext(agenda, o)
      BY <1>1, BelowStep DEF Ends, Below
<1>6. QueuesInv' /\ \A o \in Ops : InQueue(o)' <=> InQueue(o)
      BY <1>2 DEF CardInv, QueuesInv, InQueue
<1>7. /\ phase' \in [Ops -> {"new", "scan", "run"}] /\ registry' \subseteq registry /\ kept' = kept
      /\ \A o \in Ops : phase'[o] = "new" <=> phase[o] = "new"
      BY <1>2 DEF CardInv, HomeInv
<1> DEFINE R == {}
<1>8. /\ \A o \in Ops : InQueue(o)' <=> InQueue(o) /\ o \notin R
      /\ \A o \in Ops : EndOf(agenda', o) <=> EndOf(agenda, o) \/ (o \in R /\ InQueue(o))
      BY <1>4, <1>6
<1> HIDE DEF R
<1>9. QED
      BY <1>2, <1>4, <1>5, <1>6, <1>7, <1>8, CardsLeave

LEMMA CompleteOperationCards == ASSUME CardInv, CompleteOperation PROVE CardInv'
<1>1. agenda # <<>> /\ Head(agenda).step \in Ends
      BY DEF CompleteOperation, Doing, Ends
<1>2. Head(agenda) = agenda[1] /\ 1 \in DOMAIN agenda /\ Op = agenda[1].op /\ Op \in Ops
      <2>1. Head(agenda) = agenda[1] /\ 1 \in DOMAIN agenda /\ Head(agenda) \in Steps
            BY <1>1, AgendaTail DEF CardInv
      <2>2. QED
            BY <2>1 DEF Op, Steps
<1> DEFINE o == Op
<1>3. EndOf(agenda, o)
      BY <1>1, <1>2 DEF EndOf
<1>4. ~TakenNext(agenda, o)
      <2>1. \A i \in DOMAIN agenda : agenda[i].step = "take" => i = 1
            BY DEF CardInv, AgendaInv, FrontSteps
      <2>2. QED
            BY <1>1, <1>2, <2>1 DEF TakenNext, Ends
<1>5. open[o] = 1 /\ ~InQueue(o)
      BY <1>2, <1>3, <1>4 DEF CardInv, CardsInv
<1>6. /\ stash' = stash \ {o} /\ open' = [open EXCEPT ![o] = @ - 1] /\ registry' = registry
      /\ UNCHANGED <<priorityOperations, operations, phase>>
      /\ kept' = kept \/ (Transfers(o) /\ kept' = [kept EXCEPT ![o] = Continuation(o)])
      BY DEF CompleteOperation, BackupsAfterEnd, Doing
<1>7. PICK r \in Reaction \cup {<<>>} : agenda' = r \o Tail(agenda)
      BY DEF CompleteOperation
<1>8. /\ AgendaInv(agenda') /\ FrontInv'
      /\ \A p : EndOf(agenda', p) <=> EndOf(agenda, p) /\ o # p
      BY <1>1, <1>6, <1>7, ReactionThen DEF CardInv
<1>9. QueuesInv' /\ \A p \in Ops : InQueue(p)' <=> InQueue(p)
      BY <1>6 DEF CardInv, QueuesInv, InQueue
<1> HIDE DEF o
<1>10. open' \in [Ops -> {0, 1}] /\ open'[o] = 0 /\ \A p \in Ops : p # o => open'[p] = open[p]
      BY <1>2, <1>5, <1>6 DEF CardInv, CardsInv, o
<1>11. o \in Ops
      BY <1>2 DEF o
<1>12. CardsInv'
      <2>1. ASSUME NEW p \in Ops
            PROVE  /\ open'[p] = 1 <=> InQueue(p)' \/ EndOf(agenda', p)
                   /\ ~(InQueue(p)' /\ EndOf(agenda', p))
                   /\ phase'[p] = "new" => open'[p] = 0
            <3>1. CASE p = o
                  BY <1>5, <1>8, <1>9, <1>10, <3>1
            <3>2. CASE p # o
                  <4>1. ~TakenNext(agenda, p)
                        <5>1. \A i \in DOMAIN agenda : agenda[i].step = "take" => i = 1
                              BY DEF CardInv, AgendaInv, FrontSteps
                        <5>2. QED
                              BY <1>1, <1>2, <5>1 DEF TakenNext, Ends
                  <4>2. QED
                        BY <1>6, <1>8, <1>9, <1>10, <3>2, <4>1 DEF CardInv, CardsInv
            <3>3. QED
                  BY <3>1, <3>2
      <2>2. QED
            BY <1>10, <2>1 DEF CardsInv
<1>13. HomeInv'
      <2>1. o \notin registry /\ kept[o] = "no" /\ phase[o] # "new"
            BY <1>5, <1>11 DEF CardInv, CardsInv, HomeInv
      <2>2. Continuation(o) \in {"no", "bulk", "single", "cannot"} /\ (Continuation(o) = "single" => Kind[o] = "transfer")
            BY DEF Continuation
      <2>3. /\ kept' \in [Ops -> {"no", "bulk", "single", "cannot"}]
            /\ \A p \in Ops : p # o => kept'[p] = kept[p]
            /\ kept'[o] \in {"no", Continuation(o)}
            BY <1>6, <1>11, <2>1, <2>2 DEF CardInv, HomeInv
      <2>4. /\ stash' \subseteq Ops /\ registry' \subseteq Ops /\ phase' \in [Ops -> {"new", "scan", "run"}]
            BY <1>6 DEF CardInv, HomeInv
      <2>5. ASSUME NEW p \in Ops
            PROVE  /\ p \in registry' => open'[p] = 0 /\ kept'[p] = "no" /\ phase'[p] # "new"
                   /\ kept'[p] # "no" => open'[p] = 0 /\ phase'[p] # "new"
                   /\ kept'[p] = "single" => Kind[p] = "transfer"
                   /\ p \in stash' => open'[p] = 1
                   /\ open'[p] = 1 /\ Resumable(p) /\ p \notin Owned => p \in stash'
            <3>1. CASE p = o
                  BY <1>6, <1>10, <2>1, <2>2, <2>3, <3>1
            <3>2. CASE p # o
                  BY <1>6, <1>10, <2>3, <3>2 DEF CardInv, HomeInv
            <3>3. QED
                  BY <3>1, <3>2
      <2>6. QED
            BY <2>3, <2>4, <2>5 DEF HomeInv, Resumable
<1>14. QED
      BY <1>8, <1>9, <1>12, <1>13 DEF CardInv

LEMMA TakesCards == ASSUME CardInv, Takes PROVE CardInv'
<1>1. agenda # <<>> /\ Head(agenda).step = "take" /\ agenda' = Tail(agenda)
      BY DEF Takes, Doing
<1>2. /\ AgendaInv(agenda') /\ Steady(agenda')
      /\ \A o : EndOf(agenda', o) <=> EndOf(agenda, o)
      /\ Head(agenda) \in Steps /\ Head(agenda) = agenda[1] /\ 1 \in DOMAIN agenda
      BY <1>1, AgendaTail DEF CardInv, Ends
<1> DEFINE o == Op
           n == Head(agenda).index
<1>3. /\ Head(agenda).queue \in {"priority", "regular"}
      /\ n \in DOMAIN Elements(Head(agenda).queue)
      /\ Elements(Head(agenda).queue)[n] = o
      /\ EndOf(agenda, o)
      BY <1>1, <1>2 DEF CardInv, FrontInv, Op
<1>4. /\ UNCHANGED <<phase, open, stash, registry, kept>>
      /\ IF Head(agenda).queue = "priority"
         THEN priorityOperations' = RemoveAt(priorityOperations, n) /\ UNCHANGED operations
         ELSE operations' = RemoveAt(operations, n) /\ UNCHANGED priorityOperations
      BY DEF Takes, ownerVars
<1>5. /\ priorityOperations \in Seq(Ops) /\ Unique(priorityOperations)
      /\ operations \in Seq(Ops) /\ Unique(operations)
      /\ \A p \in Ops : ~(Has(priorityOperations, p) /\ Has(operations, p))
      BY DEF CardInv, QueuesInv
<1> HIDE DEF o, n
<1>6. QueuesInv' /\ \A p \in Ops : InQueue(p)' <=> InQueue(p) /\ p # o
      <2>1. CASE Head(agenda).queue = "priority"
            <3>1. /\ priorityOperations' = RemoveAt(priorityOperations, n) /\ operations' = operations
                  /\ n \in DOMAIN priorityOperations /\ priorityOperations[n] = o
                  BY <1>3, <1>4, <2>1 DEF Elements
            <3>2. /\ priorityOperations' \in Seq(Ops) /\ Unique(priorityOperations')
                  /\ \A p : Has(priorityOperations', p) <=> Has(priorityOperations, p) /\ p # o
                  BY <1>5, <3>1, RemoveAtUnique
            <3>3. Has(priorityOperations, o) /\ o \in Ops
                  BY <1>5, <3>1 DEF Has
            <3>4. /\ operations' \in Seq(Ops) /\ Unique(operations')
                  /\ \A p : Has(operations', p) <=> Has(operations, p)
                  BY <1>5, <3>1
            <3>5. QED
                  BY <1>5, <3>2, <3>3, <3>4 DEF QueuesInv, InQueue
      <2>2. CASE Head(agenda).queue = "regular"
            <3>1. /\ operations' = RemoveAt(operations, n) /\ priorityOperations' = priorityOperations
                  /\ n \in DOMAIN operations /\ operations[n] = o
                  BY <1>3, <1>4, <2>2 DEF Elements
            <3>2. /\ operations' \in Seq(Ops) /\ Unique(operations')
                  /\ \A p : Has(operations', p) <=> Has(operations, p) /\ p # o
                  BY <1>5, <3>1, RemoveAtUnique
            <3>3. Has(operations, o) /\ o \in Ops
                  BY <1>5, <3>1 DEF Has
            <3>4. /\ priorityOperations' \in Seq(Ops) /\ Unique(priorityOperations')
                  /\ \A p : Has(priorityOperations', p) <=> Has(priorityOperations, p)
                  BY <1>5, <3>1
            <3>5. QED
                  BY <1>5, <3>2, <3>3, <3>4 DEF QueuesInv, InQueue
      <2>3. QED
            BY <1>3, <2>1, <2>2
<1>7. \A p : TakenNext(agenda, p) => p = o
      <2>1. \A i \in DOMAIN agenda : agenda[i].step = "take" => i = 1
            BY DEF CardInv, AgendaInv, FrontSteps
      <2>2. QED
            BY <1>2, <2>1 DEF TakenNext, o, Op
<1>8. FrontInv'
      BY <1>2, SteadyThen
<1>9. CardsInv'
      <2>1. ASSUME NEW p \in Ops
            PROVE  /\ open'[p] = 1 <=> InQueue(p)' \/ EndOf(agenda', p)
                   /\ ~(InQueue(p)' /\ EndOf(agenda', p))
                   /\ phase'[p] = "new" => open'[p] = 0
            BY <1>2, <1>3, <1>4, <1>6, <1>7 DEF CardInv, CardsInv
      <2>2. open' \in [Ops -> {0, 1}]
            BY <1>4 DEF CardInv, CardsInv
      <2>3. QED
            BY <2>1, <2>2 DEF CardsInv
<1>10. HomeInv'
      BY <1>4 DEF CardInv, HomeInv
<1>11. QED
      BY <1>2, <1>6, <1>8, <1>9, <1>10 DEF CardInv

LEMMA HandlerStepCards == ASSUME CardInv, HandlerStep PROVE CardInv'
<1>1. CASE FailSyncScan \/ DeliverSyncScan \/ Wakes
      <2>1. /\ agenda # <<>> /\ Head(agenda).step \notin Ends \cup {"take"} /\ agenda' = Tail(agenda)
            /\ UNCHANGED <<priorityOperations, operations, phase, open, stash, registry, kept>>
            BY <1>1 DEF FailSyncScan, DeliverSyncScan, Wakes, Doing, Ends, queueVars, ownerVars
      <2>2. QED
            BY <2>1, StepDone
<1>2. QED
      BY <1>1, TakesCards, DeliversProgressCards, CompleteOperationCards, OwnerAddsCards, OwnerCancelsCards
         DEF HandlerStep
-----------------------------------------------------------------------------
(***************************************************************************)
(* A cycle of work.                                                        *)
(***************************************************************************)
LEMMA EligibleIndices ==
    ASSUME NEW queue \in Seq(Ops), NEW d
    PROVE  CollectEligibleOperations(queue, d) \in SUBSET DOMAIN queue
BY DEF CollectEligibleOperations

LEMMA EligibleFinite ==
    ASSUME NEW queue \in Seq(Ops), NEW eligible \in SUBSET DOMAIN queue
    PROVE  IsFiniteSet(eligible) /\ Cardinality(eligible) \in Nat
<1>1. Len(queue) \in Int /\ DOMAIN queue = 1..Len(queue)
      OBVIOUS
<1>2. IsFiniteSet(1..Len(queue))
      BY <1>1, FS_Interval
<1>3. IsFiniteSet(eligible)
      BY <1>1, <1>2, FS_Subset
<1>4. QED
      BY <1>3, FS_CardinalityType

LEMMA OrderIndices ==
    ASSUME NEW queue \in Seq(Ops), NEW eligible \in SUBSET DOMAIN queue, NEW order \in RunOrders(queue, eligible)
    PROVE  \E k \in Nat : order \in [1..k -> DOMAIN queue]
<1>1. CASE \E i \in eligible : order = <<i>>
      <2>1. PICK i \in eligible : order = <<i>>
            BY <1>1
      <2>2. order \in [1..1 -> DOMAIN queue]
            BY <2>1
      <2>3. QED
            BY <2>2
<1>2. CASE order \in SetToSeqs(eligible)
      <2>1. order \in [1..Cardinality(eligible) -> eligible] /\ Cardinality(eligible) \in Nat
            BY <1>2, EligibleFinite DEF SetToSeqs
      <2>2. order \in [1..Cardinality(eligible) -> DOMAIN queue]
            BY <2>1
      <2>3. QED
            BY <2>1, <2>2
<1>3. QED
      BY <1>1, <1>2 DEF RunOrders

LEMMA ReportingIndices ==
    ASSUME NEW n \in Nat, NEW s \in Ascending(1..n)
    PROVE  \E k \in Nat : s \in [1..k -> 1..n]
<1>1. PICK R \in SUBSET (1..n) : s \in SetToSeqs(R)
      BY DEF Ascending
<1>2. IsFiniteSet(1..n)
      BY FS_Interval
<1>3. IsFiniteSet(R)
      BY <1>2, FS_Subset
<1>4. Cardinality(R) \in Nat
      BY <1>3, FS_CardinalityType
<1>5. s \in [1..Cardinality(R) -> R]
      BY <1>1 DEF SetToSeqs
<1>6. QED
      BY <1>4, <1>5

LEMMA ProgressAgenda ==
    ASSUME NEW k \in Nat, NEW f \in [1..k -> Ops], NEW p, p = [i \in 1..k |-> Step("progress", f[i])]
    PROVE  AgendaInv(p) /\ Steady(p) /\ \A o : ~EndOf(p, o)
<1>1. \A i \in 1..k : Step("progress", f[i]) \in Steps /\ Step("progress", f[i]).step = "progress"
      <2>1. "progress" \in StepNames
            BY DEF StepNames
      <2>2. QED
            BY <2>1, StepType
<1>2. p \in [1..k -> Steps] /\ \A i \in 1..k : p[i].step = "progress"
      BY <1>1
<1>3. p \in Seq(Steps) /\ DOMAIN p = 1..k
      BY <1>2
<1>4. QED
      BY <1>2, <1>3 DEF AgendaInv, Steady, EndOf, Ends, FrontSteps

\* What follows a batch that an operation ended.
LEMMA AfterEndFacts ==
    ASSUME NEW o \in Ops, NEW index \in Nat, NEW name \in {"priority", "regular"}, NEW ended,
           NEW p, AgendaInv(p), Steady(p), \A q : ~EndOf(p, q),
           NEW a, a = AfterEnd(index, name, o, ended, p)
    PROVE  /\ AgendaInv(a)
           /\ \A q : EndOf(a, q) <=> q = o
           /\ 1 \in DOMAIN a /\ a[1] = TakeStep(index, name, o)
<1> DEFINE T == TakeStep(index, name, o)
           t == << T >>
           S == If(o \in Scans, <<Step(IF ended = "failed" THEN "failScan" ELSE "deliverScan", o)>>)
           c == << Step("complete", o) >>
           w == << WakeStep >>
           e == <<Step("complete", o), WakeStep>>
<1>1. T \in Steps /\ T.step = "take" /\ T.op = o
      BY DEF TakeStep, Steps, StepNames
<1>2. AgendaInv(t) /\ (\A q : ~EndOf(t, q)) /\ 1 \in DOMAIN t /\ t[1] = T
      <2>1. 1 \in DOMAIN t /\ t[1] = T
            OBVIOUS
      <2> HIDE DEF T
      <2>2. AgendaInv(t) /\ \A q : ~EndOf(t, q)
            BY <1>1, AgendaOne DEF Ends
      <2>3. QED
            BY <2>1, <2>2
<1>3. AgendaInv(S) /\ Steady(S) /\ \A q : ~EndOf(S, q)
      <2> DEFINE nm == IF ended = "failed" THEN "failScan" ELSE "deliverScan"
      <2>1. (o \in Scans) \in BOOLEAN /\ nm \in StepNames \ FrontSteps /\ nm \notin Ends
            BY DEF StepNames, FrontSteps, Ends
      <2> HIDE DEF nm
      <2>2. AgendaInv(If(o \in Scans, <<Step(nm, o)>>)) /\ Steady(If(o \in Scans, <<Step(nm, o)>>))
            /\ \A q : ~EndOf(If(o \in Scans, <<Step(nm, o)>>), q)
            BY <2>1, IfAgenda
      <2>3. QED
            BY <2>2 DEF nm
<1>4. AgendaInv(c) /\ Steady(c) /\ \A q : EndOf(c, q) <=> q = o
      <2>1. Step("complete", o) \in Steps /\ Step("complete", o).step = "complete" /\ Step("complete", o).op = o
            BY StepType DEF StepNames
      <2>2. QED
            BY <2>1, AgendaOne DEF Ends, FrontSteps
<1>5. AgendaInv(w) /\ Steady(w) /\ \A q : ~EndOf(w, q)
      BY WakeType, AgendaOne DEF Ends, FrontSteps
<1>6. e = c \o w
      OBVIOUS
<1>7. a = ((t \o p) \o S) \o e
      BY DEF AfterEnd
<1> HIDE DEF t, T, S, c, w, e
<1>8. AgendaInv(e) /\ Steady(e) /\ \A q : EndOf(e, q) <=> q = o
      <2>1. /\ AgendaInv(c \o w) /\ FrontOf(c \o w, c)
            /\ \A q : EndOf(c \o w, q) <=> EndOf(c, q) \/ EndOf(w, q)
            BY <1>4, <1>5, AgendaConcat
      <2>2. QED
            BY <1>4, <1>5, <1>6, <2>1, SteadyFront
<1> DEFINE x == t \o p
<1>9. AgendaInv(x) /\ (\A q : ~EndOf(x, q)) /\ 1 \in DOMAIN x /\ x[1] = T
      <2>1. /\ AgendaInv(t \o p)
            /\ \A q : EndOf(t \o p, q) <=> EndOf(t, q) \/ EndOf(p, q)
            /\ \A i \in DOMAIN t : i \in DOMAIN (t \o p) /\ (t \o p)[i] = t[i]
            BY <1>2, AgendaConcat
      <2>2. QED
            BY <1>2, <2>1
<1> HIDE DEF x
<1> DEFINE y == x \o S
<1>10. AgendaInv(y) /\ (\A q : ~EndOf(y, q)) /\ 1 \in DOMAIN y /\ y[1] = T
      <2>1. /\ AgendaInv(x \o S)
            /\ \A q : EndOf(x \o S, q) <=> EndOf(x, q) \/ EndOf(S, q)
            /\ \A i \in DOMAIN x : i \in DOMAIN (x \o S) /\ (x \o S)[i] = x[i]
            BY <1>3, <1>9, AgendaConcat
      <2>2. QED
            BY <1>3, <1>9, <2>1
<1>11. a = y \o e
      BY <1>7 DEF x
<1> HIDE DEF y
<1>12. /\ AgendaInv(y \o e)
       /\ \A q : EndOf(y \o e, q) <=> EndOf(y, q) \/ EndOf(e, q)
       /\ \A i \in DOMAIN y : i \in DOMAIN (y \o e) /\ (y \o e)[i] = y[i]
      BY <1>8, <1>10, AgendaConcat
<1>13. QED
      BY <1>8, <1>10, <1>11, <1>12 DEF T

\* A cycle that no operation ended.
LEMMA CycleGoesOn ==
    ASSUME CardInv, agenda = <<>>, UNCHANGED <<priorityOperations, operations, open, stash, registry, kept>>,
           phase' \in [Ops -> {"new", "scan", "run"}], \A o \in Ops : phase'[o] = "new" <=> phase[o] = "new",
           AgendaInv(agenda'), Steady(agenda'), \A o : ~EndOf(agenda', o)
    PROVE  CardInv'
<1>1. Below(<<>>)
      BY BelowIdle
<1>2. \A o \in Ops : ~TakenNext(agenda, o) /\ ~EndOf(agenda, o)
      BY <1>1, AgendaNone DEF Below
<1>3. QueuesInv' /\ FrontInv' /\ \A o \in Ops : InQueue(o)' <=> InQueue(o)
      BY SteadyThen DEF CardInv, QueuesInv, InQueue
<1> DEFINE R == {}
<1>4. /\ \A o \in Ops : InQueue(o)' <=> InQueue(o) /\ o \notin R
      /\ \A o \in Ops : EndOf(agenda', o) <=> EndOf(agenda, o) \/ (o \in R /\ InQueue(o))
      BY <1>2, <1>3
<1> HIDE DEF R
<1>5. registry' \subseteq registry /\ kept' = kept /\ UNCHANGED <<open, stash>>
      OBVIOUS
<1>6. QED
      BY <1>2, <1>3, <1>4, <1>5, CardsLeave

\* A cycle that the operation at index n ended.
LEMMA CycleEnds ==
    ASSUME CardInv, agenda = <<>>, UNCHANGED <<priorityOperations, operations, open, stash, registry, kept>>,
           phase' \in [Ops -> {"new", "scan", "run"}], \A o \in Ops : phase'[o] = "new" <=> phase[o] = "new",
           NEW name \in {"priority", "regular"}, NEW n \in DOMAIN Elements(name), NEW l, l = Elements(name)[n],
           AgendaInv(agenda'), \A o : EndOf(agenda', o) <=> o = l,
           1 \in DOMAIN agenda', agenda'[1] = TakeStep(n, name, l)
    PROVE  CardInv'
<1>1. ~EndOf(agenda, l) /\ \A o : ~EndOf(agenda, o)
      BY AgendaNone
<1>2. agenda'[1].step = "take" /\ agenda'[1].queue = name /\ agenda'[1].index = n /\ agenda'[1].op = l
      BY DEF TakeStep
<1>3. Elements(name)' = Elements(name)
      BY DEF Elements
<1>4. FrontInv'
      <2>1. ASSUME NEW i \in DOMAIN agenda', agenda'[i].step \in {"take", "addForOwner"} PROVE i = 1
            BY <2>1 DEF AgendaInv, FrontSteps
      <2>2. EndOf(agenda', l)
            OBVIOUS
      <2>3. (name = "priority" => n \in DOMAIN priorityOperations' /\ priorityOperations'[n] = l)
            /\ (name = "regular" => n \in DOMAIN operations' /\ operations'[n] = l)
            BY DEF Elements
      <2>4. QED
            BY <1>2, <2>1, <2>2, <2>3 DEF FrontInv, Elements
<1>5. QueuesInv' /\ \A o \in Ops : InQueue(o)' <=> InQueue(o)
      BY DEF CardInv, QueuesInv, InQueue
<1>6. InQueue(l)
      BY DEF InQueue, Has, Elements
<1>7. TakenNext(agenda', l)
      BY <1>2 DEF TakenNext
<1>8. CardsInv'
      <2>1. ASSUME NEW o \in Ops
            PROVE  /\ open'[o] = 1 <=> InQueue(o)' \/ EndOf(agenda', o)
                   /\ InQueue(o)' /\ EndOf(agenda', o) => TakenNext(agenda', o)
                   /\ phase'[o] = "new" => open'[o] = 0
            BY <1>1, <1>5, <1>6, <1>7 DEF CardInv, CardsInv
      <2>2. open' \in [Ops -> {0, 1}]
            BY DEF CardInv, CardsInv
      <2>3. QED
            BY <2>1, <2>2 DEF CardsInv
<1>9. HomeInv'
      BY DEF CardInv, HomeInv
<1>10. QED
      BY <1>4, <1>5, <1>8, <1>9 DEF CardInv

\* A cycle leaves progress and a wake, or what follows the end of the operation at one index of its queue.
LEMMA WorkQueueSteps ==
    ASSUME CardInv, NEW name \in {"priority", "regular"}, WorkQueue(name)
    PROVE  /\ phase' \in [Ops -> {"new", "scan", "run"}]
           /\ \A o \in Ops : phase'[o] = "new" <=> phase[o] = "new"
           /\ \/ AgendaInv(agenda') /\ Steady(agenda') /\ \A o : ~EndOf(agenda', o)
              \/ \E n \in DOMAIN Elements(name), ended \in {"no", "completed", "failed"}, p \in Seq(Steps) :
                    /\ AgendaInv(p) /\ Steady(p) /\ \A o : ~EndOf(p, o)
                    /\ agenda' = AfterEnd(n, name, Elements(name)[n], ended, p)
<1> DEFINE queue == Elements(name)
<1>1. queue \in Seq(Ops)
      BY DEF Elements, CardInv, QueuesInv
<1>2. PICK d \in Demands(queue) :
           \E order \in RunOrders(queue, CollectEligibleOperations(queue, d)) :
           \E count \in DOMAIN order, ended \in {"no", "completed", "failed"} : WorkBatch(name, order, count, ended)
      BY DEF WorkQueue
<1>a. PICK order \in RunOrders(queue, CollectEligibleOperations(queue, d)) :
           \E count \in DOMAIN order, ended \in {"no", "completed", "failed"} : WorkBatch(name, order, count, ended)
      BY <1>2
<1>b. PICK count \in DOMAIN order, ended \in {"no", "completed", "failed"} : WorkBatch(name, order, count, ended)
      BY <1>a
<1> DEFINE last == queue[order[count]]
           worked == {queue[order[i]] : i \in 1 .. count}
           going == IF ended = "no" THEN worked ELSE worked \ {last}
<1>3. PICK waiting \in SUBSET {o \in going : UsesStrand(o)},
           scanned \in SUBSET {o \in going : phase[o] = "scan" /\ o \notin Scans},
           reporting \in Ascending(1 .. count) :
        LET progress == [i \in DOMAIN reporting |-> Step("progress", queue[order[reporting[i]]])] IN
           /\ inFlight' = (inFlight \ worked) \cup waiting
           /\ phase' = [o \in Ops |-> IF o \in scanned THEN "run" ELSE phase[o]]
           /\ agenda' = IF ended = "no"
                        THEN progress \o If(going # waiting, <<WakeStep>>)
                        ELSE AfterEnd(order[count], name, last, ended, progress)
      BY <1>b DEF WorkBatch
<1> DEFINE progress == [i \in DOMAIN reporting |-> Step("progress", queue[order[reporting[i]]])]
           c == (going # waiting)
<1>4. /\ phase' = [o \in Ops |-> IF o \in scanned THEN "run" ELSE phase[o]]
      /\ \A o \in scanned : phase[o] = "scan"
      /\ agenda' = IF ended = "no" THEN progress \o If(c, <<WakeStep>>)
                   ELSE AfterEnd(order[count], name, last, ended, progress)
      /\ c \in BOOLEAN
      BY <1>3
<1> HIDE DEF c
<1>5. /\ phase' \in [Ops -> {"new", "scan", "run"}]
      /\ \A o \in Ops : phase'[o] = "new" <=> phase[o] = "new"
      BY <1>4 DEF CardInv, HomeInv
<1> HIDE DEF queue
<1>6. PICK k \in Nat : order \in [1..k -> DOMAIN queue]
      BY <1>1, EligibleIndices, OrderIndices
<1>7. count \in 1..k /\ count \in Nat /\ 1..count \subseteq 1..k
      BY <1>6
<1>8. PICK m \in Nat : reporting \in [1..m -> 1..count]
      BY <1>7, ReportingIndices
<1> DEFINE f == [i \in 1..m |-> queue[order[reporting[i]]]]
<1>9. \A i \in DOMAIN queue : queue[i] \in Ops /\ i \in Nat
      BY <1>1
<1>10. f \in [1..m -> Ops]
      BY <1>6, <1>7, <1>8, <1>9
<1>11. progress = [i \in 1..m |-> Step("progress", f[i])]
      BY <1>8
<1>12. order[count] \in DOMAIN queue /\ order[count] \in Nat /\ last \in Ops
      BY <1>6, <1>7, <1>9
<1> HIDE DEF f, progress
<1>13. AgendaInv(progress) /\ Steady(progress) /\ \A o : ~EndOf(progress, o)
      BY <1>10, <1>11, ProgressAgenda
<1>14. CASE ended = "no"
      <2> DEFINE w == If(c, <<WakeStep>>)
      <2>1. AgendaInv(w) /\ Steady(w) /\ \A o : ~EndOf(w, o)
            <3>1. CASE c
                  <4>1. w = <<WakeStep>>
                        BY <3>1 DEF If
                  <4>2. QED
                        BY <4>1, WakeType, AgendaOne DEF Ends, FrontSteps
            <3>2. CASE ~c
                  <4>1. w = << >>
                        BY <3>2 DEF If
                  <4>2. QED
                        BY <4>1, AgendaNone
            <3>3. QED
                  BY <3>1, <3>2
      <2>2. agenda' = progress \o w
            BY <1>4, <1>14
      <2> HIDE DEF w
      <2>3. /\ AgendaInv(progress \o w) /\ FrontOf(progress \o w, progress)
            /\ \A o : EndOf(progress \o w, o) <=> EndOf(progress, o) \/ EndOf(w, o)
            BY <1>13, <2>1, AgendaConcat
      <2>4. AgendaInv(agenda') /\ Steady(agenda') /\ \A o : ~EndOf(agenda', o)
            BY <1>13, <2>1, <2>2, <2>3, SteadyFront
      <2>5. QED
            BY <1>5, <2>4
<1>15. CASE ended # "no"
      <2> DEFINE n == order[count]
      <2>1. agenda' = AfterEnd(n, name, last, ended, progress) /\ progress \in Seq(Steps)
            BY <1>4, <1>13, <1>15 DEF AgendaInv
      <2>2. n \in DOMAIN Elements(name) /\ last = Elements(name)[n]
            BY <1>12 DEF queue
      <2> HIDE DEF n, last
      <2>3. QED
            BY <1>5, <1>13, <2>1, <2>2
<1>16. QED
      BY <1>14, <1>15

LEMMA WorkQueueCards ==
    ASSUME CardInv, agenda = <<>>, UNCHANGED <<priorityOperations, operations, open, stash, registry, kept>>,
           NEW name \in {"priority", "regular"}, WorkQueue(name)
    PROVE  CardInv'
<1>1. /\ phase' \in [Ops -> {"new", "scan", "run"}]
      /\ \A o \in Ops : phase'[o] = "new" <=> phase[o] = "new"
      BY WorkQueueSteps
<1>2. CASE AgendaInv(agenda') /\ Steady(agenda') /\ \A o : ~EndOf(agenda', o)
      BY <1>1, <1>2, CycleGoesOn
<1>3. ASSUME NEW n \in DOMAIN Elements(name), NEW ended, NEW p, AgendaInv(p), Steady(p), \A o : ~EndOf(p, o),
             agenda' = AfterEnd(n, name, Elements(name)[n], ended, p)
      PROVE  CardInv'
      <2> DEFINE l == Elements(name)[n]
      <2>1. n \in Nat /\ l \in Ops
            BY DEF Elements, CardInv, QueuesInv
      <2>2. agenda' = AfterEnd(n, name, l, ended, p) /\ l = Elements(name)[n]
            BY <1>3
      <2> HIDE DEF l
      <2>3. /\ AgendaInv(agenda')
            /\ \A q : EndOf(agenda', q) <=> q = l
            /\ 1 \in DOMAIN agenda' /\ agenda'[1] = TakeStep(n, name, l)
            BY <1>3, <2>1, <2>2, AfterEndFacts
      <2>4. QED
            BY <1>1, <2>2, <2>3, CycleEnds
<1>4. QED
      BY <1>2, <1>3, WorkQueueSteps

LEMMA DoOperationQueueWorkCards == ASSUME CardInv, DoOperationQueueWork PROVE CardInv'
<1>1. /\ agenda = <<>> /\ UNCHANGED <<priorityOperations, operations, open, stash, registry, kept>>
      BY DEF DoOperationQueueWork, ownerVars
<1>2. CASE session = "started" /\ CurrentQueue # "none"
      <2>1. CurrentQueue \in {"priority", "regular"} /\ WorkQueue(CurrentQueue)
            BY <1>2 DEF DoOperationQueueWork, CurrentQueue
      <2>2. QED
            BY <1>1, <2>1, WorkQueueCards
<1>3. CASE ~(session = "started" /\ CurrentQueue # "none")
      <2>1. UNCHANGED <<agenda, priorityOperations, operations, phase, open, stash>>
            BY <1>1, <1>3 DEF DoOperationQueueWork
      <2>2. registry' \subseteq registry /\ kept' = kept
            BY <1>1
      <2>3. QED
            BY <2>1, <2>2, CardsSame
<1>4. QED
      BY <1>2, <1>3
-----------------------------------------------------------------------------
(***************************************************************************)
(* The posted handlers and the types of the other variables.               *)
(***************************************************************************)
\* A cycle of work is posted, once, exactly while it is scheduled.
PostedInv(q, s) ==
    /\ q \in Seq(Handlers) /\ s \in BOOLEAN
    /\ \A i, j \in DOMAIN q : q[i] = WorkHandler /\ q[j] = WorkHandler => i = j
    /\ s <=> \E i \in DOMAIN q : q[i] = WorkHandler

RestInv ==
    /\ inFlight \subseteq Ops /\ observers \subseteq Ops /\ callbacks \subseteq Ops /\ late \subseteq Ops
    /\ scanCallbacks \subseteq Scans /\ syncOpen \subseteq Scans
    /\ session \in {"new", "started", "stopping", "stopped"} /\ channel \in {"open", "closed", "dead"}
    /\ wakePosted \in BOOLEAN /\ paused \in BOOLEAN
    /\ told \in [Ops -> {"nothing", "done", "failed"}]

TypeInv == PostedInv(posted, scheduled) /\ RestInv

LEMMA HandlerType ==
    /\ WorkHandler \in Handlers /\ WorkHandler.handler = "work"
    /\ \A o \in Ops : CancelScanHandler(o) \in Handlers /\ CancelScanHandler(o).handler = "cancelScan"
                      /\ CancelScanHandler(o) # WorkHandler
<1>1. (CHOOSE o \in Ops : TRUE) \in Ops
      BY KindAssumption
<1>2. QED
      BY <1>1 DEF WorkHandler, CancelScanHandler, Handlers

LEMMA PostedNone == PostedInv(<<>>, FALSE)
<1> DEFINE e == << >>
<1>1. e \in Seq(Handlers) /\ DOMAIN e = {}
      BY EmptyElements
<1> HIDE DEF e
<1>2. PostedInv(e, FALSE)
      BY <1>1 DEF PostedInv
<1>3. QED
      BY <1>2 DEF e

LEMMA PostedMore ==
    ASSUME NEW q, NEW s, PostedInv(q, s), NEW r, NEW b, PostedInv(r, b), ~(s /\ b)
    PROVE  PostedInv(q \o r, s \/ b)
<1> DEFINE c == q \o r
<1>1. q \in Seq(Handlers) /\ r \in Seq(Handlers) /\ s \in BOOLEAN /\ b \in BOOLEAN
      BY DEF PostedInv
<1>2. /\ c \in Seq(Handlers)
      /\ \A i \in DOMAIN c : IF i \in DOMAIN q THEN c[i] = q[i]
                             ELSE i - Len(q) \in DOMAIN r /\ c[i] = r[i - Len(q)]
      /\ \A i \in DOMAIN q : i \in DOMAIN c /\ c[i] = q[i]
      /\ \A i \in DOMAIN r : i + Len(q) \in DOMAIN c /\ c[i + Len(q)] = r[i]
      BY <1>1, ConcatElements
<1>3. DOMAIN c \subseteq Nat /\ Len(q) \in Nat
      BY <1>1, <1>2
<1> HIDE DEF c
<1>4. (s \/ b) <=> \E i \in DOMAIN c : c[i] = WorkHandler
      BY <1>2 DEF PostedInv
<1>5. ASSUME NEW i \in DOMAIN c, NEW j \in DOMAIN c, c[i] = WorkHandler, c[j] = WorkHandler PROVE i = j
      <2>1. CASE i \in DOMAIN q /\ j \in DOMAIN q
            BY <1>2, <1>5, <2>1 DEF PostedInv
      <2>2. CASE i \notin DOMAIN q /\ j \notin DOMAIN q
            <3>1. i - Len(q) = j - Len(q)
                  BY <1>2, <1>5, <2>2 DEF PostedInv
            <3>2. QED
                  BY <1>3, <3>1
      <2>3. CASE (i \in DOMAIN q /\ j \notin DOMAIN q) \/ (i \notin DOMAIN q /\ j \in DOMAIN q)
            BY <1>2, <1>5, <2>3 DEF PostedInv
      <2>4. QED
            BY <2>1, <2>2, <2>3
<1>6. QED
      BY <1>1, <1>2, <1>4, <1>5 DEF PostedInv, c

LEMMA PostedTail ==
    ASSUME NEW q, NEW s, PostedInv(q, s), q # <<>>
    PROVE  PostedInv(Tail(q), IF Head(q) = WorkHandler THEN FALSE ELSE s) /\ Head(q) \in Handlers
<1> DEFINE t == Tail(q)
<1>1. q \in Seq(Handlers) /\ Len(q) \in Nat \ {0} /\ DOMAIN q = 1..Len(q)
      BY DEF PostedInv
<1>2. /\ t \in Seq(Handlers) /\ DOMAIN t = 1..(Len(q) - 1)
      /\ \A i \in DOMAIN t : t[i] = q[i + 1] /\ i + 1 \in DOMAIN q /\ i + 1 # 1
      BY <1>1
<1>3. Head(q) = q[1] /\ 1 \in DOMAIN q /\ q[1] \in Handlers
      BY <1>1
<1> HIDE DEF t
<1>4. ASSUME NEW i \in DOMAIN t, NEW j \in DOMAIN t, t[i] = WorkHandler, t[j] = WorkHandler PROVE i = j
      <2>1. i + 1 = j + 1
            BY <1>2, <1>4 DEF PostedInv
      <2>2. QED
            BY <1>1, <1>2, <2>1
<1>5. CASE Head(q) = WorkHandler
      <2>1. \A i \in DOMAIN t : t[i] # WorkHandler
            BY <1>2, <1>3, <1>5 DEF PostedInv
      <2>2. QED
            BY <1>2, <1>3, <1>5, <2>1 DEF PostedInv, t
<1>6. CASE Head(q) # WorkHandler
      <2>1. ASSUME NEW i \in DOMAIN q, q[i] = WorkHandler PROVE \E j \in DOMAIN t : t[j] = WorkHandler
            <3>1. i # 1
                  BY <1>3, <1>6, <2>1
            <3>2. i - 1 \in DOMAIN t /\ (i - 1) + 1 = i
                  BY <1>1, <1>2, <3>1
            <3>3. QED
                  BY <1>2, <2>1, <3>2
      <2>2. s <=> \E i \in DOMAIN t : t[i] = WorkHandler
            BY <1>2, <2>1 DEF PostedInv
      <2>3. s \in BOOLEAN
            BY DEF PostedInv
      <2>4. QED
            BY <1>2, <1>3, <1>4, <1>6, <2>2, <2>3 DEF PostedInv, t
<1>7. QED
      BY <1>5, <1>6

LEMMA ScheduleType ==
    ASSUME PostedInv(posted, scheduled), ScheduleOperationQueueWork
    PROVE  PostedInv(posted', scheduled')
<1>1. CASE scheduled
      BY <1>1 DEF ScheduleOperationQueueWork, PostedInv
<1>2. CASE ~scheduled
      <2> DEFINE w == << WorkHandler >>
      <2>1. w \in Seq(Handlers) /\ DOMAIN w = {1} /\ w[1] = WorkHandler
            BY HandlerType
      <2>2. posted' = posted \o w /\ scheduled' = TRUE /\ scheduled = FALSE
            BY <1>2 DEF ScheduleOperationQueueWork, PostedInv
      <2> HIDE DEF w
      <2>3. PostedInv(w, TRUE)
            BY <2>1 DEF PostedInv
      <2>4. PostedInv(posted, FALSE)
            BY <2>2
      <2>5. PostedInv(posted \o w, FALSE \/ TRUE)
            BY <2>3, <2>4, PostedMore
      <2>6. QED
            BY <2>2, <2>5
<1>3. QED
      BY <1>1, <1>2

LEMMA SetToSeqType ==
    ASSUME NEW D, IsFiniteSet(D)
    PROVE  SetToSeq(D) \in Seq(D) /\ \A o : Has(SetToSeq(D), o) => o \in D
<1>1. Cardinality(D) \in Nat /\ ExistsBijection(1..Cardinality(D), D)
      BY FS_CardinalityType
<1>2. \E f \in [1..Cardinality(D) -> D] : IsInjective(f)
      BY <1>1 DEF ExistsBijection, Bijection, Injection
<1> DEFINE s == SetToSeq(D)
<1>3. s \in [1..Cardinality(D) -> D]
      BY <1>2 DEF SetToSeq
<1> HIDE DEF s
<1>4. s \in Seq(D) /\ \A o : Has(s, o) => o \in D
      BY <1>1, <1>3 DEF Has
<1>5. QED
      BY <1>4 DEF s

\* The posted cancels of the siblings of failed scans.
CancelsOf(H) == {CancelScanHandler(Sibling[o]) : o \in H}

LEMMA CancelHandlers ==
    ASSUME NEW H \in SUBSET Scans
    PROVE  /\ SetToSeq(CancelsOf(H)) \in Seq(Handlers)
           /\ \A i \in DOMAIN SetToSeq(CancelsOf(H)) :
                 \E o \in H : SetToSeq(CancelsOf(H))[i] = CancelScanHandler(Sibling[o])
<1> DEFINE C == CancelsOf(H)
<1>1. IsFiniteSet(H)
      <2>1. H \in SUBSET Ops
            BY DEF Scans
      <2>2. QED
            BY <2>1, KindAssumption, FS_Subset
<1> DEFINE f == [o \in H |-> CancelScanHandler(Sibling[o])]
<1>2. f \in Surjection(H, C)
      BY DEF Surjection, CancelsOf
<1>3. IsFiniteSet(C)
      BY <1>1, <1>2, FS_Surjection
<1> DEFINE s == SetToSeq(C)
<1>4. s \in Seq(C) /\ \A h : Has(s, h) => h \in C
      BY <1>3, SetToSeqType
<1>5. C \subseteq Handlers
      <2>1. \A o \in H : Sibling[o] \in Ops
            BY SiblingAssumption DEF Scans
      <2>2. QED
            BY <2>1, HandlerType DEF CancelsOf
<1> HIDE DEF s
<1>6. s \in Seq(Handlers)
      BY <1>4, <1>5
<1>7. \A i \in DOMAIN s : s[i] \in C
      BY <1>4 DEF Has
<1>8. QED
      BY <1>6, <1>7 DEF s, CancelsOf

LEMMA FailCallbacksType ==
    ASSUME TypeInv, NEW F \in SUBSET Scans, FailCallbacks(F)
    PROVE  PostedInv(posted', scheduled) /\ told' \in [Ops -> {"nothing", "done", "failed"}]
<1> DEFINE H == F \cap syncOpen
           r == SetToSeq(CancelsOf(H))
<1>1. posted' = posted \o r
      BY DEF FailCallbacks, CancelsOf
<1>2. H \in SUBSET Scans
      OBVIOUS
<1>3. /\ r \in Seq(Handlers)
      /\ \A i \in DOMAIN r : \E o \in H : r[i] = CancelScanHandler(Sibling[o])
      BY <1>2, CancelHandlers
<1>4. \A i \in DOMAIN r : r[i] # WorkHandler
      <2>1. \A o \in H : Sibling[o] \in Ops
            BY SiblingAssumption DEF Scans
      <2>2. QED
            BY <1>3, <2>1, HandlerType
<1> HIDE DEF r
<1>5. PostedInv(r, FALSE)
      BY <1>3, <1>4 DEF PostedInv
<1> DEFINE b == FALSE
<1>6. PostedInv(posted, scheduled) /\ PostedInv(r, b) /\ ~(scheduled /\ b) /\ scheduled \in BOOLEAN
      BY <1>5 DEF TypeInv, PostedInv
<1> HIDE DEF b
<1>7. PostedInv(posted \o r, scheduled \/ b)
      BY <1>6, PostedMore
<1>a. (scheduled \/ b) = scheduled
      BY <1>6 DEF b
<1>8. PostedInv(posted', scheduled)
      BY <1>1, <1>7, <1>a
<1>9. told' \in [Ops -> {"nothing", "done", "failed"}]
      BY DEF FailCallbacks, TypeInv, RestInv
<1>10. QED
      BY <1>8, <1>9

LEMMA RequestTypes == ASSUME TypeInv, NEW o \in Ops, Request(o) PROVE TypeInv'
<1>0. /\ UNCHANGED <<session, channel, scheduled, wakePosted, late>>
      /\ PostedInv(posted, scheduled) /\ RestInv
      BY DEF Request, TypeInv
<1>1. ASSUME UNCHANGED <<paused, posted, inFlight, observers, callbacks, told>>,
             scanCallbacks' \subseteq Scans, syncOpen' \subseteq Scans
      PROVE  TypeInv'
      BY <1>0, <1>1 DEF TypeInv, RestInv
<1>2. ASSUME UNCHANGED <<paused, posted>>, NEW mode, Add(o, mode) PROVE TypeInv'
      BY <1>0, <1>1, <1>2 DEF Add, syncVars, RestInv
<1>3. ASSUME UNCHANGED <<paused, posted>>, o \in Owned, AddForOwner(o) PROVE TypeInv'
      <2>1. observers' \subseteq Ops /\ callbacks' \subseteq Ops /\ UNCHANGED <<inFlight, scanCallbacks, syncOpen, told>>
            BY <1>0, <1>3 DEF AddForOwner, syncVars, RestInv
      <2>2. QED
            BY <1>0, <1>3, <2>1 DEF TypeInv, RestInv
<1>4. ASSUME UNCHANGED <<paused, posted>>, o \in Scans, AddSyncScanOperation(o, Sibling[o]) PROVE TypeInv'
      <2>1. Sibling[o] \in Scans
            BY <1>4, SiblingAssumption
      <2>2. QED
            BY <1>0, <1>1, <1>4, <2>1 DEF AddSyncScanOperation, RestInv
<1>5. ASSUME UNCHANGED paused, CloseSyncSession(o) PROVE TypeInv'
      BY <1>0, <1>1, <1>5 DEF CloseSyncSession, queueVars, ownerVars, RestInv
<1>6. ASSUME UNCHANGED paused, \/ Cancel(o, <<>>) \/ CancelUpload(o)
                               \/ ContinueKept(o) \/ DiscardKept(o) \/ AdoptBulkResumes(o)
                               \/ \E newIndex \in 1..Cardinality(Ops) : MoveOperation(o, newIndex)
      PROVE  TypeInv'
      BY <1>0, <1>1, <1>6
         DEF Cancel, CancelUpload, ContinueKept, DiscardKept, AdoptBulkResumes, MoveOperation,
             queueVars, ownerVars, syncVars, RestInv
<1>7. ASSUME UNCHANGED paused, CancelAll(<<>>) PROVE TypeInv'
      <2>1. /\ FailCallbacks(scanCallbacks) /\ scanCallbacks' = {}
            /\ UNCHANGED <<inFlight, observers, callbacks, syncOpen>>
            BY <1>7 DEF CancelAll, ownerVars
      <2>2. PostedInv(posted', scheduled) /\ told' \in [Ops -> {"nothing", "done", "failed"}]
            BY <1>0, <2>1, FailCallbacksType DEF RestInv
      <2>3. QED
            BY <1>0, <1>7, <2>1, <2>2 DEF TypeInv, RestInv
<1>8. ASSUME NEW pause \in BOOLEAN, Pause(pause) PROVE TypeInv'
      BY <1>0, <1>8 DEF Pause, queueVars, ownerVars, syncVars, TypeInv, RestInv
<1>9. QED
      BY <1>2, <1>3, <1>4, <1>5, <1>6, <1>7, <1>8 DEF Request

LEMMA HandlerStepTypes == ASSUME TypeInv, CardInv, HandlerStep PROVE TypeInv'
<1>0. /\ UNCHANGED <<session, channel, wakePosted, paused>>
      /\ PostedInv(posted, scheduled) /\ RestInv
      BY DEF HandlerStep, sessionVars, TypeInv
<1>1. agenda # <<>> /\ Op \in Ops
      <2>1. agenda # <<>>
            BY DEF HandlerStep, Takes, DeliversProgress, FailSyncScan, DeliverSyncScan, CompleteOperation, OwnerAdds,
                   OwnerCancels, Wakes, Doing
      <2>2. Head(agenda) \in Steps
            BY <2>1, AgendaTail DEF CardInv
      <2>3. QED
            BY <2>1, <2>2 DEF Op, Steps
<1>2. CASE Takes \/ OwnerCancels
      BY <1>0, <1>2 DEF Takes, OwnerCancels, Cancel, ownerVars, syncVars, TypeInv, RestInv
<1>3. CASE DeliversProgress
      <2>1. late' \subseteq Ops
            BY <1>0, <1>1, <1>3 DEF DeliversProgress, RestInv
      <2>2. QED
            BY <1>0, <1>3, <2>1 DEF DeliversProgress, queueVars, ownerVars, syncVars, TypeInv, RestInv
<1>4. CASE FailSyncScan
      <2>1. /\ FailCallbacks({Op} \cap scanCallbacks)
            /\ scanCallbacks' \subseteq scanCallbacks
            /\ UNCHANGED <<inFlight, observers, callbacks, syncOpen, scheduled, late>>
            BY <1>4 DEF FailSyncScan, queueVars, ownerVars
      <2>2. {Op} \cap scanCallbacks \in SUBSET Scans
            BY <1>0 DEF RestInv
      <2>3. PostedInv(posted', scheduled) /\ told' \in [Ops -> {"nothing", "done", "failed"}]
            BY <2>1, <2>2, FailCallbacksType
      <2>4. QED
            BY <1>0, <2>1, <2>3 DEF TypeInv, RestInv
<1>5. CASE DeliverSyncScan
      <2>1. told' \in [Ops -> {"nothing", "done", "failed"}] /\ scanCallbacks' \subseteq scanCallbacks
            BY <1>0, <1>1, <1>5 DEF DeliverSyncScan, RestInv
      <2>2. QED
            BY <1>0, <1>5, <2>1 DEF DeliverSyncScan, queueVars, ownerVars, TypeInv, RestInv
<1>6. CASE CompleteOperation
      <2>1. inFlight' \subseteq inFlight /\ observers' \subseteq observers /\ callbacks' \subseteq callbacks
            BY <1>6 DEF CompleteOperation
      <2>2. QED
            BY <1>0, <1>6, <2>1 DEF CompleteOperation, syncVars, TypeInv, RestInv
<1>7. CASE OwnerAdds
      <2>1. observers' \subseteq Ops /\ callbacks' \subseteq Ops /\ UNCHANGED <<inFlight, scanCallbacks, syncOpen, told>>
            BY <1>0, <1>1, <1>7 DEF OwnerAdds, AddForOwner, syncVars, RestInv
      <2>2. QED
            BY <1>0, <1>7, <2>1 DEF OwnerAdds, TypeInv, RestInv
<1>8. CASE Wakes
      <2>1. PostedInv(posted', scheduled')
            BY <1>0, <1>8, ScheduleType DEF Wakes
      <2>2. QED
            BY <1>0, <1>8, <2>1 DEF Wakes, queueVars, ownerVars, syncVars, TypeInv, RestInv
<1>9. QED
      BY <1>2, <1>3, <1>4, <1>5, <1>6, <1>7, <1>8 DEF HandlerStep

LEMMA WorkTypes == ASSUME TypeInv, CardInv, DoOperationQueueWork PROVE TypeInv'
<1>1. posted # <<>> /\ Head(posted) = WorkHandler /\ posted' = Tail(posted) /\ scheduled' = FALSE
      BY DEF DoOperationQueueWork
<1>2. PostedInv(posted', scheduled')
      <2>1. PostedInv(Tail(posted), IF Head(posted) = WorkHandler THEN FALSE ELSE scheduled)
            BY <1>1, PostedTail DEF TypeInv
      <2>2. QED
            BY <1>1, <2>1
<1>3. inFlight' \subseteq Ops
      <2>1. CASE session = "started" /\ CurrentQueue # "none"
            <3> DEFINE queue == Elements(CurrentQueue)
            <3>1. queue \in Seq(Ops)
                  BY DEF Elements, CardInv, QueuesInv
            <3>2. PICK d \in Demands(queue) :
                       \E order \in RunOrders(queue, CollectEligibleOperations(queue, d)) :
                       \E count \in DOMAIN order, ended \in {"no", "completed", "failed"} :
                          WorkBatch(CurrentQueue, order, count, ended)
                  BY <2>1 DEF DoOperationQueueWork, WorkQueue
            <3>3. PICK order \in RunOrders(queue, CollectEligibleOperations(queue, d)),
                       ended \in {"no", "completed", "failed"} :
                       \E count \in DOMAIN order : WorkBatch(CurrentQueue, order, count, ended)
                  BY <3>2
            <3>4. PICK count \in DOMAIN order : WorkBatch(CurrentQueue, order, count, ended)
                  BY <3>3
            <3> DEFINE worked == {queue[order[i]] : i \in 1..count}
            <3>5. \E waiting \in SUBSET worked : inFlight' = (inFlight \ worked) \cup waiting
                  BY <3>4 DEF WorkBatch
            <3> HIDE DEF queue
            <3>6. PICK k \in Nat : order \in [1..k -> DOMAIN queue]
                  BY <3>1, EligibleIndices, OrderIndices
            <3>7. worked \subseteq Ops
                  BY <3>1, <3>6
            <3>8. QED
                  BY <3>5, <3>7 DEF TypeInv, RestInv
      <2>2. CASE ~(session = "started" /\ CurrentQueue # "none")
            BY <2>2 DEF DoOperationQueueWork, TypeInv, RestInv
      <2>3. QED
            BY <2>1, <2>2
<1>4. QED
      BY <1>2, <1>3 DEF DoOperationQueueWork, ownerVars, syncVars, sessionVars, TypeInv, RestInv

LEMMA CancelsSiblingScanTypes == ASSUME TypeInv, CancelsSiblingScan PROVE TypeInv' /\ Head(posted).op \in Ops
<1>1. posted # <<>> /\ Head(posted).handler = "cancelScan" /\ posted' = Tail(posted) /\ scheduled' = scheduled
      BY DEF CancelsSiblingScan
<1>2. Head(posted) # WorkHandler
      BY <1>1, HandlerType
<1>3. PostedInv(Tail(posted), scheduled) /\ Head(posted) \in Handlers
      BY <1>1, <1>2, PostedTail DEF TypeInv
<1>4. Head(posted).op \in Ops
      BY <1>3 DEF Handlers
<1>5. QED
      BY <1>1, <1>3, <1>4 DEF CancelsSiblingScan, ownerVars, syncVars, sessionVars, TypeInv, RestInv

LEMMA SessionTypes ==
    ASSUME TypeInv, \/ WakeOperationQueue \/ Start \/ StopCalled \/ StopRuns \/ Reconnect \/ ChannelEnds
                    \/ \E o \in Ops : TransferWakes(o) \/ Discards(o)
    PROVE  TypeInv'
<1>1. CASE WakeOperationQueue \/ Start
      <2>1. PostedInv(posted', scheduled')
            BY <1>1, ScheduleType DEF WakeOperationQueue, Start, TypeInv
      <2>2. QED
            BY <1>1, <2>1 DEF WakeOperationQueue, Start, queueVars, ownerVars, syncVars, sessionVars, TypeInv, RestInv
<1>2. CASE StopRuns
      <2>1. PostedInv(posted', scheduled')
            BY <1>2, PostedNone DEF StopRuns
      <2>2. told' \in [Ops -> {"nothing", "done", "failed"}]
            BY <1>2 DEF StopRuns, TypeInv, RestInv
      <2>3. QED
            BY <1>2, <2>1, <2>2 DEF StopRuns, TypeInv, RestInv
<1>3. CASE StopCalled \/ Reconnect \/ ChannelEnds
      BY <1>3 DEF StopCalled, Reconnect, ChannelEnds, queueVars, ownerVars, syncVars, TypeInv, RestInv
<1>4. CASE \E o \in Ops : TransferWakes(o)
      BY <1>4 DEF TransferWakes, ownerVars, syncVars, sessionVars, TypeInv, RestInv
<1>5. CASE \E o \in Ops : Discards(o)
      BY <1>5 DEF Discards, Discard, queueVars, ownerVars, syncVars, sessionVars, TypeInv, RestInv
<1>6. QED
      BY <1>1, <1>2, <1>3, <1>4, <1>5
-----------------------------------------------------------------------------
(***************************************************************************)
(* The inductive invariant and what follows from it.                       *)
(***************************************************************************)
\* The task of stop() backs up what has a card and drops it.
LEMMA StopRunsCards == ASSUME CardInv, StopRuns PROVE CardInv'
<1>1. /\ agenda = <<>> /\ agenda' = agenda /\ registry' = registry \cup stash /\ stash' = {}
      /\ priorityOperations' = <<>> /\ operations' = <<>>
      /\ open' = [o \in Ops |-> 0] /\ UNCHANGED <<phase, kept>>
      BY DEF StopRuns, Dumped
<1>2. AgendaInv(agenda') /\ Steady(agenda') /\ \A o : ~EndOf(agenda', o)
      BY <1>1, AgendaNone
<1>3. FrontInv'
      BY <1>2, SteadyThen
<1>4. QueuesInv' /\ \A o \in Ops : ~InQueue(o)'
      <2> DEFINE r == << >>
      <2>1. priorityOperations' = r /\ operations' = r
            BY <1>1
      <2>2. r \in Seq(Ops) /\ Unique(r) /\ \A o : ~Has(r, o)
            BY EmptyElements
      <2> HIDE DEF r
      <2>3. QED
            BY <2>1, <2>2 DEF QueuesInv, InQueue
<1>5. CardsInv'
      <2>1. open' \in [Ops -> {0, 1}] /\ \A o \in Ops : open'[o] = 0
            BY <1>1
      <2>2. QED
            BY <1>2, <1>4, <2>1 DEF CardsInv
<1>6. HomeInv'
      <2>1. \A o \in Ops : o \in registry' => kept[o] = "no" /\ phase[o] # "new"
            BY <1>1 DEF CardInv, CardsInv, HomeInv
      <2>2. \A o \in Ops : open'[o] = 0
            BY <1>1
      <2>3. QED
            BY <1>1, <2>1, <2>2 DEF CardInv, HomeInv
<1>7. QED
      BY <1>2, <1>3, <1>4, <1>5, <1>6 DEF CardInv

LEMMA SessionCards ==
    ASSUME CardInv, \/ WakeOperationQueue \/ Start \/ StopCalled \/ Reconnect \/ ChannelEnds
                    \/ (\E o \in Ops : TransferWakes(o) \/ Discards(o))
    PROVE  CardInv'
<1>1. /\ UNCHANGED <<agenda, priorityOperations, operations, phase, open, stash>>
      /\ registry' \subseteq registry /\ kept' = kept
      BY DEF WakeOperationQueue, Start, StopCalled, Reconnect, ChannelEnds, TransferWakes, Discards, Discard, queueVars,
             ownerVars
<1>2. QED
      BY <1>1, CardsSame

IInv == CardInv /\ TypeInv

LEMMA InitIInv == Init => IInv
<1> SUFFICES ASSUME Init PROVE IInv
    OBVIOUS
<1> DEFINE r == << >>
<1>1. agenda = r /\ priorityOperations = r /\ operations = r /\ posted = r
      BY DEF Init
<1>2. AgendaInv(r) /\ Steady(r) /\ \A o : ~EndOf(r, o)
      BY AgendaNone
<1>3. r \in Seq(Ops) /\ Unique(r) /\ \A o : ~Has(r, o)
      BY EmptyElements
<1>4. PostedInv(r, FALSE)
      BY PostedNone
<1> HIDE DEF r
<1>5. AgendaInv(agenda) /\ QueuesInv /\ FrontInv
      BY <1>1, <1>2, <1>3, SteadyNow DEF QueuesInv
<1>6. \A o \in Ops : open[o] = 0 /\ kept[o] = "no"
      BY DEF Init
<1>7. CardsInv
      <2>1. open \in [Ops -> {0, 1}]
            BY DEF Init
      <2>2. QED
            BY <1>1, <1>2, <1>3, <1>6, <2>1 DEF CardsInv, InQueue
<1>8. HomeInv
      <2>1. /\ stash = {} /\ registry = {} /\ kept \in [Ops -> {"no", "bulk", "single", "cannot"}]
            /\ phase \in [Ops -> {"new", "scan", "run"}]
            BY DEF Init
      <2>2. QED
            BY <1>6, <2>1 DEF HomeInv
<1>9. PostedInv(posted, scheduled)
      BY <1>1, <1>4 DEF Init
<1>10. RestInv
      BY DEF Init, RestInv
<1>11. QED
      BY <1>5, <1>7, <1>8, <1>9, <1>10 DEF IInv, CardInv, TypeInv

LEMMA NextIInv == IInv /\ [Next]_vars => IInv'
<1> SUFFICES ASSUME IInv, [Next]_vars PROVE IInv'
    OBVIOUS
<1>0. CardInv /\ TypeInv
      BY DEF IInv
<1>1. CASE HandlerStep
      BY <1>0, <1>1, HandlerStepCards, HandlerStepTypes DEF IInv
<1>2. CASE DoOperationQueueWork
      BY <1>0, <1>2, DoOperationQueueWorkCards, WorkTypes DEF IInv
<1>3. CASE CancelsSiblingScan
      BY <1>0, <1>3, CancelsSiblingScanCards, CancelsSiblingScanTypes DEF IInv
<1>4. ASSUME NEW o \in Ops, Request(o) PROVE IInv'
      BY <1>0, <1>4, RequestCards, RequestTypes DEF IInv
<1>5. CASE StopRuns
      BY <1>0, <1>5, StopRunsCards, SessionTypes DEF IInv
<1>6. CASE \/ WakeOperationQueue \/ Start \/ StopCalled \/ Reconnect \/ ChannelEnds
           \/ (\E o \in Ops : TransferWakes(o) \/ Discards(o))
      BY <1>0, <1>6, SessionCards, SessionTypes DEF IInv
<1>7. CASE UNCHANGED vars
      <2>1. /\ UNCHANGED <<agenda, priorityOperations, operations, phase, open, stash>>
            /\ registry' \subseteq registry /\ kept' = kept
            BY <1>7 DEF vars, queueVars, ownerVars
      <2>2. CardInv'
            BY <1>0, <2>1, CardsSame
      <2>3. TypeInv'
            BY <1>0, <1>7 DEF vars, queueVars, ownerVars, syncVars, sessionVars, TypeInv, RestInv
      <2>4. QED
            BY <2>2, <2>3 DEF IInv
<1>8. QED
      BY <1>1, <1>2, <1>3, <1>4, <1>5, <1>6, <1>7 DEF Next, PostedHandler

LEMMA AlwaysIInv == Spec => []IInv
BY InitIInv, NextIInv, PTL DEF Spec

\* A set of positions that holds at most one.
LEMMA AtMostOne ==
    ASSUME NEW I, \A i, j \in I : i = j
    PROVE  Cardinality(I) = IF I = {} THEN 0 ELSE 1
<1>1. CASE I = {}
      BY <1>1, FS_EmptySet
<1>2. CASE I # {}
      <2>1. \E i : I = {i}
            BY <1>2
      <2>2. QED
            BY <1>2, <2>1, FS_Singleton
<1>3. QED
      BY <1>1, <1>2

\* Type correctness: among others, a cycle of work is posted exactly when operationQueueWorkScheduled_ says so.
THEOREM QueueTypeCorrect == Spec => []TypeOK
<1>1. IInv => TypeOK
      <2> SUFFICES ASSUME IInv PROVE TypeOK
          OBVIOUS
      <2> DEFINE I == {i \in DOMAIN posted : posted[i] = WorkHandler}
      <2>1. Cardinality(I) = IF I = {} THEN 0 ELSE 1
            <3>1. \A i, j \in I : i = j
                  BY DEF IInv, TypeInv, PostedInv
            <3> HIDE DEF I
            <3>2. QED
                  BY <3>1, AtMostOne
      <2>2. scheduled \in BOOLEAN /\ (scheduled <=> I # {}) /\ posted \in Seq(Handlers)
            BY DEF IInv, TypeInv, PostedInv
      <2>3. scheduled = (Cardinality(I) = 1) /\ Cardinality(I) <= 1
            <3> HIDE DEF I
            <3>1. QED
                  BY <2>1, <2>2
      <2>4. QED
            BY <2>2, <2>3 DEF IInv, CardInv, TypeInv, AgendaInv, QueuesInv, HomeInv, RestInv, TypeOK
<1>2. QED
      BY <1>1, AlwaysIInv, PTL

\* Whatever owners cancel or queue while they are told of progress and ends, every card has one end to come.
THEOREM CardsEndOnce == Spec => []OneEndPerCard
<1>1. IInv => OneEndPerCard
      <2> SUFFICES ASSUME IInv, NEW o \in Ops PROVE open[o] \in {0, 1} /\ Copies(o) = open[o] + Taking(o)
          BY DEF OneEndPerCard
      <2>0. AgendaInv(agenda) /\ QueuesInv /\ FrontInv /\ CardsInv
            BY DEF IInv, CardInv
      <2> DEFINE A == {i \in DOMAIN priorityOperations : priorityOperations[i] = o}
                 B == {i \in DOMAIN operations : operations[i] = o}
                 E == {i \in DOMAIN agenda : agenda[i].step \in Ends /\ agenda[i].op = o}
                 T == {i \in DOMAIN agenda : agenda[i].step = "take" /\ agenda[i].op = o}
      <2>1. (\A i, j \in A : i = j) /\ (A # {} <=> Has(priorityOperations, o))
            BY <2>0 DEF QueuesInv, Unique, Has
      <2>2. (\A i, j \in B : i = j) /\ (B # {} <=> Has(operations, o))
            BY <2>0 DEF QueuesInv, Unique, Has
      <2>3. (\A i, j \in E : i = j) /\ (E # {} <=> EndOf(agenda, o))
            BY <2>0 DEF AgendaInv, EndOf
      <2>4. (\A i, j \in T : i = j) /\ (T # {} <=> TakenNext(agenda, o))
            BY <2>0 DEF AgendaInv, FrontSteps, TakenNext
      <2>5. TakenNext(agenda, o) => EndOf(agenda, o) /\ InQueue(o)
            <3>1. ASSUME NEW i \in DOMAIN agenda, agenda[i].step = "take", agenda[i].op = o
                  PROVE  EndOf(agenda, o) /\ InQueue(o)
                  BY <2>0, <3>1 DEF FrontInv, Elements, InQueue, Has
            <3>2. QED
                  BY <3>1 DEF TakenNext
      <2>6. /\ Copies(o) = Cardinality(A) + Cardinality(B) + Cardinality(E)
            /\ Taking(o) = Cardinality(T)
            BY DEF Copies, Taking
      <2>7. /\ open[o] \in {0, 1} /\ (open[o] = 1 <=> InQueue(o) \/ EndOf(agenda, o))
            /\ InQueue(o) /\ EndOf(agenda, o) => TakenNext(agenda, o)
            /\ ~(Has(priorityOperations, o) /\ Has(operations, o))
            BY <2>0 DEF CardsInv, QueuesInv
      <2> HIDE DEF A, B, E, T
      <2>8. /\ Cardinality(A) = IF A = {} THEN 0 ELSE 1
            /\ Cardinality(B) = IF B = {} THEN 0 ELSE 1
            /\ Cardinality(E) = IF E = {} THEN 0 ELSE 1
            /\ Cardinality(T) = IF T = {} THEN 0 ELSE 1
            BY <2>1, <2>2, <2>3, <2>4, AtMostOne
      <2>9. QED
            BY <2>1, <2>2, <2>3, <2>4, <2>5, <2>6, <2>7, <2>8 DEF InQueue
<1>2. QED
      BY <1>1, AlwaysIInv, PTL

\* An operation has its card, its backup for a reconnect or its kept files, never two of them.
THEOREM HomeIsOne == Spec => []OneHome
<1>1. IInv => OneHome
      BY DEF IInv, CardInv, HomeInv, OneHome
<1>2. QED
      BY <1>1, AlwaysIInv, PTL

\* dumpBulkResumes before dropAll: every open bulk card of the frontend is in the registry once the session stopped.
THEOREM StopBacksUp == Spec => CardsSurviveStop
<1> DEFINE A == session = "stopping" /\ session' = "stopped" =>
                   \A o \in Ops : open[o] = 1 /\ Resumable(o) /\ o \notin Owned => o \in registry'
<1>1. IInv /\ [Next]_vars => [A]_vars
      <2> SUFFICES ASSUME IInv, Next, session = "stopping", session' = "stopped",
                          NEW o \in Ops, open[o] = 1, Resumable(o), o \notin Owned
                   PROVE  o \in registry'
          BY DEF vars
      <2>1. StopRuns
            BY DEF Next, HandlerStep, PostedHandler, DoOperationQueueWork, CancelsSiblingScan, WakeOperationQueue, Request,
                   TransferWakes, Discards, Start, StopCalled, Reconnect, ChannelEnds, sessionVars
      <2>2. QED
            BY <2>1 DEF StopRuns, Dumped, IInv, CardInv, HomeInv
<1>2. QED
      BY <1>1, AlwaysIInv, PTL DEF Spec, CardsSurviveStop

\* Kept partial files are only forgotten for a transfer that was queued again, or on the user's request.
THEOREM KeptIsKept == Spec => KeptUntilTaken
<1> DEFINE A == \A o \in Ops : kept[o] # "no" /\ kept'[o] = "no" => open'[o] = 1 \/ DiscardKept(o)
<1>1. IInv /\ IInv' /\ [Next]_vars => [A]_vars
      <2> SUFFICES ASSUME IInv, IInv', Next, NEW o \in Ops, kept[o] # "no", kept'[o] = "no"
                   PROVE  open'[o] = 1 \/ DiscardKept(o)
          BY DEF vars
      <2>1. kept' # kept
            OBVIOUS
      <2>2. ~CompleteOperation
            <3> SUFFICES ASSUME CompleteOperation PROVE FALSE
                OBVIOUS
            <3>1. kept' = kept \/ kept' = [kept EXCEPT ![Op] = Continuation(Op)]
                  BY DEF CompleteOperation
            <3>2. Continuation(Op) # "no" /\ kept \in [Ops -> {"no", "bulk", "single", "cannot"}]
                  BY DEF Continuation, IInv, CardInv, HomeInv
            <3>3. QED
                  BY <2>1, <3>1, <3>2
      <2>3. ~HandlerStep
            BY <2>1, <2>2 DEF HandlerStep, Takes, DeliversProgress, FailSyncScan, DeliverSyncScan, OwnerAdds,
                              OwnerCancels, AddForOwner, Cancel, Wakes
      <2>4. PICK p \in Ops : Request(p)
            BY <2>1, <2>3 DEF Next, PostedHandler, DoOperationQueueWork, CancelsSiblingScan, WakeOperationQueue,
                   TransferWakes, Discards, Discard, Start, StopCalled, StopRuns, Reconnect, ChannelEnds
      <2>5. ContinueKept(p) \/ DiscardKept(p)
            BY <2>1, <2>4 DEF Request, Add, AddForOwner, AddSyncScanOperation, CloseSyncSession, Cancel, CancelAll,
                              CancelUpload, MoveOperation, Pause, AdoptBulkResumes
      <2>6. p = o
            BY <2>5 DEF ContinueKept, KeptAfterContinuing, DiscardKept, IInv, CardInv, HomeInv
      <2>7. CASE ContinueKept(o)
            <3>1. open'[o] > open[o]
                  BY <2>1, <2>7 DEF ContinueKept, KeptAfterContinuing
            <3>2. open[o] \in {0, 1} /\ open'[o] \in {0, 1}
                  BY DEF IInv, CardInv, CardsInv
            <3>3. QED
                  BY <3>1, <3>2
      <2>8. QED
            BY <2>5, <2>6, <2>7
<1>2. QED
      BY <1>1, AlwaysIInv, PTL DEF Spec, KeptUntilTaken
=============================================================================
