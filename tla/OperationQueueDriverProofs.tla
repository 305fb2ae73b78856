--------------------- MODULE OperationQueueDriverProofs ---------------------
(***************************************************************************)
(* The driver: work that could go on is never left without a cycle, a wake *)
(* or a transfer that will wake the queue.  And the order of what the      *)
(* frontend hears: no progress after an end.                               *)
(***************************************************************************)
EXTENDS OperationQueueProofs

HasStep(a, names) == \E i \in DOMAIN a : a[i].step \in names

\* Steps after which an operation may have room to work: a wake comes later in the same handler.
NeedsWake == {"take"} \cup Ends
HasWake(a) == HasStep(a, {"wake"})
Woken(a) == \A i \in DOMAIN a : a[i].step \in NeedsWake => \E j \in DOMAIN a : i < j /\ a[j].step = "wake"

\* Nothing will look at the queue unless a transfer wakes it.
Resting == session = "started" /\ ~scheduled /\ ~wakePosted /\ ~HasWake(agenda)
AllInFlight ==
    \A i \in CollectEligibleOperations(Elements(CurrentQueue), [o \in Ops |-> bulkConcurrency]) :
        Elements(CurrentQueue)[i] \in inFlight
DriverInv == Woken(agenda) /\ (Resting /\ CurrentQueue # "none" => AllInFlight)

\* What is still to be told: the progress of cards that are open, and no end before it.
ProgressFirst(a) == \A i, j \in DOMAIN a : a[i].step \in Ends /\ a[j].step = "progress" => j < i
ProgressOpen(a, cards) == \A i \in DOMAIN a : a[i].step = "progress" => cards[a[i].op] = 1
ProgressInv == /\ ~HasStep(agenda, {"cancel"}) /\ ProgressFirst(agenda) /\ ProgressOpen(agenda, open)
               /\ late = {}
-----------------------------------------------------------------------------
(***************************************************************************)
(* Sequences of steps.                                                     *)
(***************************************************************************)
LEMMA HasConcat ==
    ASSUME NEW p \in Seq(Steps), NEW a \in Seq(Steps)
    PROVE  p \o a \in Seq(Steps) /\ \A names : HasStep(p \o a, names) <=> HasStep(p, names) \/ HasStep(a, names)
<1> DEFINE c == p \o a
<1>1. /\ c \in Seq(Steps)
      /\ \A i \in DOMAIN c : IF i \in DOMAIN p THEN c[i] = p[i]
                             ELSE i - Len(p) \in DOMAIN a /\ c[i] = a[i - Len(p)]
      /\ \A i \in DOMAIN p : i \in DOMAIN c /\ c[i] = p[i]
      /\ \A i \in DOMAIN a : i + Len(p) \in DOMAIN c /\ c[i + Len(p)] = a[i]
      BY ConcatElements
<1> HIDE DEF c
<1>2. \A names : HasStep(c, names) <=> HasStep(p, names) \/ HasStep(a, names)
      BY <1>1 DEF HasStep
<1>3. QED
      BY <1>1, <1>2 DEF c

LEMMA HasOne ==
    ASSUME NEW s \in Steps
    PROVE  << s >> \in Seq(Steps) /\ \A names : HasStep(<< s >>, names) <=> s.step \in names
<1> DEFINE e == << s >>
<1>1. e \in Seq(Steps) /\ DOMAIN e = {1} /\ e[1] = s
      OBVIOUS
<1> HIDE DEF e
<1>2. \A names : HasStep(e, names) <=> s.step \in names
      BY <1>1 DEF HasStep
<1>3. QED
      BY <1>1, <1>2 DEF e

LEMMA HasNone == << >> \in Seq(Steps) /\ \A names : ~HasStep(<< >>, names)
<1> DEFINE e == << >>
<1>1. e \in Seq(Steps) /\ DOMAIN e = {}
      BY EmptyElements
<1> HIDE DEF e
<1>2. \A names : ~HasStep(e, names)
      BY <1>1 DEF HasStep
<1>3. QED
      BY <1>1, <1>2 DEF e

LEMMA HasTail ==
    ASSUME NEW a \in Seq(Steps), a # << >>
    PROVE  /\ Tail(a) \in Seq(Steps) /\ Head(a) \in Steps
           /\ \A names : HasStep(a, names) <=> Head(a).step \in names \/ HasStep(Tail(a), names)
           /\ DOMAIN Tail(a) \subseteq Nat
           /\ \A i \in DOMAIN Tail(a) : i + 1 \in DOMAIN a /\ Tail(a)[i] = a[i + 1]
<1> DEFINE t == Tail(a)
<1>1. Len(a) \in Nat \ {0} /\ DOMAIN a = 1..Len(a)
      OBVIOUS
<1>2. /\ t \in Seq(Steps) /\ DOMAIN t = 1..(Len(a) - 1)
      /\ \A i \in DOMAIN t : t[i] = a[i + 1] /\ i + 1 \in DOMAIN a
      BY <1>1
<1>3. Head(a) = a[1] /\ 1 \in DOMAIN a /\ a[1] \in Steps
      BY <1>1
<1> HIDE DEF t
<1>4. ASSUME NEW names PROVE HasStep(a, names) <=> a[1].step \in names \/ HasStep(t, names)
      <2>1. ASSUME NEW i \in DOMAIN a, a[i].step \in names PROVE a[1].step \in names \/ HasStep(t, names)
            <3>1. CASE i = 1
                  BY <2>1, <3>1
            <3>2. CASE i # 1
                  <4>1. i - 1 \in DOMAIN t /\ (i - 1) + 1 = i
                        BY <1>1, <1>2, <3>2
                  <4>2. t[i - 1] = a[i]
                        BY <1>2, <4>1
                  <4>3. QED
                        BY <2>1, <4>1, <4>2 DEF HasStep
            <3>3. QED
                  BY <3>1, <3>2
      <2>2. QED
            BY <1>2, <1>3, <2>1 DEF HasStep
<1>5. QED
      BY <1>1, <1>2, <1>3, <1>4 DEF t

LEMMA WokenConcat ==
    ASSUME NEW p \in Seq(Steps), NEW a \in Seq(Steps), Woken(a), HasWake(a) \/ ~HasStep(p, NeedsWake)
    PROVE  Woken(p \o a)
<1> DEFINE c == p \o a
<1>1. /\ c \in Seq(Steps)
      /\ \A i \in DOMAIN c : IF i \in DOMAIN p THEN c[i] = p[i]
                             ELSE i - Len(p) \in DOMAIN a /\ c[i] = a[i - Len(p)]
      /\ \A i \in DOMAIN a : i + Len(p) \in DOMAIN c /\ c[i + Len(p)] = a[i] /\ i \in Nat /\ i >= 1
      /\ DOMAIN c \subseteq Nat /\ Len(p) \in Nat /\ DOMAIN p = 1..Len(p)
      BY ConcatElements
<1> HIDE DEF c
<1>2. ASSUME NEW i \in DOMAIN c, c[i].step \in NeedsWake PROVE \E j \in DOMAIN c : i < j /\ c[j].step = "wake"
      <2>1. CASE i \in DOMAIN p
            <3>1. PICK j \in DOMAIN a : a[j].step = "wake"
                  BY <1>1, <1>2, <2>1 DEF HasWake, HasStep
            <3>2. i < j + Len(p)
                  BY <1>1, <2>1
            <3>3. QED
                  BY <1>1, <3>1, <3>2
      <2>2. CASE i \notin DOMAIN p
            <3>1. PICK j \in DOMAIN a : i - Len(p) < j /\ a[j].step = "wake"
                  BY <1>1, <1>2, <2>2 DEF Woken
            <3>2. i < j + Len(p)
                  BY <1>1, <3>1
            <3>3. QED
                  BY <1>1, <3>1, <3>2
      <2>3. QED
            BY <2>1, <2>2
<1>3. QED
      BY <1>2 DEF Woken, c

LEMMA WokenTail ==
    ASSUME NEW a \in Seq(Steps), a # << >>, Woken(a)
    PROVE  Woken(Tail(a)) /\ (Head(a).step \in NeedsWake => HasWake(Tail(a)))
<1> DEFINE t == Tail(a)
<1>1. Len(a) \in Nat \ {0} /\ DOMAIN a = 1..Len(a) /\ Head(a) = a[1] /\ 1 \in DOMAIN a
      OBVIOUS
<1>2. DOMAIN t = 1..(Len(a) - 1) /\ \A i \in DOMAIN t : t[i] = a[i + 1] /\ i + 1 \in DOMAIN a /\ i + 1 \in Nat
      BY <1>1
<1> HIDE DEF t
<1>3. ASSUME NEW i \in DOMAIN a, a[i].step \in NeedsWake
      PROVE  \E j \in DOMAIN t : i < j + 1 /\ t[j].step = "wake"
      <2>1. PICK j \in DOMAIN a : i < j /\ a[j].step = "wake"
            BY <1>3 DEF Woken
      <2>2. j - 1 \in DOMAIN t /\ (j - 1) + 1 = j
            BY <1>1, <1>2, <2>1
      <2>3. t[j - 1] = a[j] /\ i < (j - 1) + 1
            BY <1>2, <2>1, <2>2
      <2>4. QED
            BY <2>1, <2>2, <2>3
<1>4. ASSUME NEW i \in DOMAIN t, t[i].step \in NeedsWake PROVE \E j \in DOMAIN t : i < j /\ t[j].step = "wake"
      <2>1. PICK j \in DOMAIN t : i + 1 < j + 1 /\ t[j].step = "wake"
            BY <1>2, <1>3, <1>4
      <2>2. i < j
            BY <1>1, <1>2, <2>1
      <2>3. QED
            BY <2>1, <2>2
<1>5. a[1].step \in NeedsWake => HasWake(t)
      BY <1>1, <1>3 DEF HasWake, HasStep
<1>6. QED
      BY <1>1, <1>4, <1>5 DEF Woken, t

LEMMA WokenNone == Woken(<< >>)
<1> DEFINE e == << >>
<1>1. DOMAIN e = {}
      BY EmptyElements
<1> HIDE DEF e
<1>2. Woken(e)
      BY <1>1 DEF Woken
<1>3. QED
      BY <1>2 DEF e

LEMMA WokenThen ==
    ASSUME NEW p \in Seq(Steps), NEW r \in Seq(Steps), Woken(r), Then(p, r)
    PROVE  Woken(agenda') /\ HasWake(agenda')
<1> DEFINE w == << WakeStep >>
<1>1. w \in Seq(Steps) /\ HasWake(w) /\ ~HasStep(w, NeedsWake)
      BY WakeType, HasOne DEF HasWake, NeedsWake, Ends
<1>2. agenda' = (p \o w) \o r
      BY DEF Then
<1> HIDE DEF w
<1>3. w \o r \in Seq(Steps) /\ Woken(w \o r) /\ HasWake(w \o r)
      BY <1>1, WokenConcat, HasConcat DEF HasWake
<1>4. agenda' = p \o (w \o r)
      BY <1>1, <1>2
<1> DEFINE b == w \o r
<1> HIDE DEF b
<1>5. b \in Seq(Steps) /\ Woken(b) /\ HasWake(b) /\ agenda' = p \o b
      BY <1>3, <1>4 DEF b
<1>6. QED
      BY <1>5, WokenConcat, HasConcat DEF HasWake
-----------------------------------------------------------------------------
(***************************************************************************)
(* A cycle of work: when it posts no other cycle, everything it could      *)
(* advance waits.                                                          *)
(***************************************************************************)
LEMMA Slots ==
    ASSUME NEW queue \in Seq(Ops), NEW d, NEW i \in DOMAIN queue
    PROVE  /\ IsFiniteSet({slot \in (1 .. i - 1) \X (1 .. bulkConcurrency) :
                             slot[2] <= ParallelWorkDoable(queue[slot[1]], d)})
           /\ SlotsBefore(queue, d, i) \in Nat
<1> DEFINE P == (1 .. i - 1) \X (1 .. bulkConcurrency)
           S == {slot \in P : slot[2] <= ParallelWorkDoable(queue[slot[1]], d)}
<1>1. IsFiniteSet(1 .. i - 1) /\ IsFiniteSet(1 .. bulkConcurrency)
      <2>1. i - 1 \in Int /\ bulkConcurrency \in Int /\ 1 \in Int
            BY ParallelismAssumption
      <2>2. QED
            BY <2>1, FS_Interval
<1>2. IsFiniteSet(P)
      BY <1>1, FS_Product
<1>3. S \in SUBSET P
      OBVIOUS
<1>4. IsFiniteSet(S)
      BY <1>2, <1>3, FS_Subset
<1>5. Cardinality(S) \in Nat
      BY <1>4, FS_CardinalityType
<1>6. QED
      BY <1>4, <1>5 DEF SlotsBefore

\* The more slots its bulks ask for, the fewer operations a cycle can advance.
LEMMA EligibleAtMost ==
    ASSUME NEW queue \in Seq(Ops), NEW d \in Demands(queue)
    PROVE  CollectEligibleOperations(queue, [o \in Ops |-> bulkConcurrency]) \subseteq CollectEligibleOperations(queue, d)
<1> DEFINE most == [o \in Ops |-> bulkConcurrency]
<1>1. \A j \in DOMAIN queue : queue[j] \in Ops /\ queue[j] \in ToSet(queue)
      BY DEF ToSet
<1>2. \A j \in DOMAIN queue : ParallelWorkDoable(queue[j], d) \in Nat
                              /\ ParallelWorkDoable(queue[j], d) <= ParallelWorkDoable(queue[j], most)
      <2> SUFFICES ASSUME NEW j \in DOMAIN queue
                   PROVE  /\ ParallelWorkDoable(queue[j], d) \in Nat
                          /\ ParallelWorkDoable(queue[j], d) <= ParallelWorkDoable(queue[j], most)
          OBVIOUS
      <2>1. most[queue[j]] = bulkConcurrency /\ bulkConcurrency \in Nat
            BY <1>1, ParallelismAssumption
      <2>2. Kind[queue[j]] \in {"tree", "list"} => d[queue[j]] \in 1 .. bulkConcurrency
            BY <1>1 DEF Demands
      <2> HIDE DEF most
      <2>3. QED
            BY <2>1, <2>2 DEF ParallelWorkDoable
<1>m. \A j \in DOMAIN queue : ParallelWorkDoable(queue[j], most) \in Nat
      BY <1>1, ParallelismAssumption DEF ParallelWorkDoable
<1> HIDE DEF most
<1>3. ASSUME NEW i \in DOMAIN queue PROVE SlotsBefore(queue, d, i) <= SlotsBefore(queue, most, i)
      <2> DEFINE P == (1 .. i - 1) \X (1 .. bulkConcurrency)
                 S == {slot \in P : slot[2] <= ParallelWorkDoable(queue[slot[1]], d)}
                 T == {slot \in P : slot[2] <= ParallelWorkDoable(queue[slot[1]], most)}
      <2>1. ASSUME NEW slot \in S PROVE slot \in T
            <3>1. slot \in P /\ slot[1] \in DOMAIN queue /\ slot[2] \in Nat
                  BY ParallelismAssumption
            <3>2. slot[2] <= ParallelWorkDoable(queue[slot[1]], d)
                  OBVIOUS
            <3> DEFINE x == ParallelWorkDoable(queue[slot[1]], d)
                       y == ParallelWorkDoable(queue[slot[1]], most)
            <3>3. x \in Nat /\ y \in Nat /\ x <= y /\ slot[2] <= x
                  BY <1>2, <1>m, <3>1, <3>2
            <3> HIDE DEF x, y
            <3>4. slot[2] <= y
                  BY <3>1, <3>3
            <3>5. QED
                  BY <3>1, <3>4 DEF y
      <2>2. S \in SUBSET T
            BY <2>1
      <2>3. IsFiniteSet(T)
            BY Slots
      <2>4. SlotsBefore(queue, d, i) = Cardinality(S) /\ SlotsBefore(queue, most, i) = Cardinality(T)
            BY DEF SlotsBefore
      <2> HIDE DEF S, T
      <2>5. QED
            BY <2>2, <2>3, <2>4, FS_Subset
<1>4. ASSUME NEW i \in DOMAIN queue, SlotsBefore(queue, most, i) < parallelism
      PROVE  SlotsBefore(queue, d, i) < parallelism
      <2>1. SlotsBefore(queue, d, i) \in Nat /\ SlotsBefore(queue, most, i) \in Nat /\ parallelism \in Nat
            BY Slots, ParallelismAssumption
      <2>2. QED
            BY <1>3, <1>4, <2>1
<1>5. CollectEligibleOperations(queue, most) \subseteq CollectEligibleOperations(queue, d)
      BY <1>4 DEF CollectEligibleOperations
<1>6. QED
      BY <1>5 DEF most

\* A batch that is not stopped by an end worked on every eligible operation.
LEMMA OrderWorksOnAll ==
    ASSUME NEW queue \in Seq(Ops), NEW eligible \in SUBSET DOMAIN queue, NEW order \in SetToSeqs(eligible)
    PROVE  /\ Len(order) = Cardinality(eligible) /\ DOMAIN order = 1 .. Len(order)
           /\ \A n \in eligible : \E i \in 1 .. Len(order) : order[i] = n
<1> DEFINE k == Cardinality(eligible)
<1>1. IsFiniteSet(eligible) /\ k \in Nat
      BY EligibleFinite
<1>2. order \in [1..k -> eligible] /\ \A i, j \in 1..k : i # j => order[i] # order[j]
      BY DEF SetToSeqs
<1> HIDE DEF k
<1>3. order \in Injection(1..k, eligible)
      BY <1>2 DEF Injection, IsInjective
<1>4. Cardinality(1..k) = k
      <2>1. k \in Int /\ 1 \in Int
            BY <1>1
      <2>2. Cardinality(1..k) = IF 1 > k THEN 0 ELSE k - 1 + 1
            BY <2>1, FS_Interval
      <2>3. QED
            BY <1>1, <2>2
<1>5. Cardinality(1..k) = Cardinality(eligible)
      BY <1>4 DEF k
<1>6. order \in Surjection(1..k, eligible)
      BY <1>1, <1>3, <1>5, FS_Injection
<1>7. \A n \in eligible : \E i \in 1..k : order[i] = n
      BY <1>6 DEF Surjection
<1>8. order \in Seq(eligible) /\ Len(order) = k /\ DOMAIN order = 1..k
      BY <1>1, <1>2
<1>9. QED
      BY <1>7, <1>8 DEF k

Reports(p) == p \in Seq(Steps) /\ \A i \in DOMAIN p : p[i].step = "progress" /\ InQueue(p[i].op)

LEMMA ReportsHas == ASSUME NEW p, Reports(p), NEW names, "progress" \notin names PROVE ~HasStep(p, names)
BY DEF Reports, HasStep

\* What a cycle leaves to do: the progress of its operations, and a wake unless all of them wait; or an end.
LEMMA CycleSteps ==
    ASSUME CardInv, NEW name \in {"priority", "regular"}, WorkQueue(name)
    PROVE  \E p \in Seq(Steps) :
              /\ Reports(p)
              /\ \/ agenda' = p \o <<WakeStep>>
                 \/ \E n \in Nat, o \in Ops, ended \in {"completed", "failed"} :
                       agenda' = AfterEnd(n, name, o, ended, p)
                 \/ /\ agenda' = p \o << >>
                    /\ phase' = phase
                    /\ \A i \in CollectEligibleOperations(Elements(name), [o \in Ops |-> bulkConcurrency]) :
                          Elements(name)[i] \in inFlight'
<1> DEFINE queue == Elements(name)
<1>1. queue \in Seq(Ops) /\ \A i \in DOMAIN queue : InQueue(queue[i]) /\ queue[i] \in Ops /\ i \in Nat
      BY DEF Elements, CardInv, QueuesInv, InQueue, Has
<1>2. PICK d \in Demands(queue) :
           \E order \in RunOrders(queue, CollectEligibleOperations(queue, d)) :
           \E count \in DOMAIN order, ended \in {"no", "completed", "failed"} : WorkBatch(name, order, count, ended)
      BY DEF WorkQueue
<1>a. PICK order \in RunOrders(queue, CollectEligibleOperations(queue, d)) :
           \E count \in DOMAIN order, ended \in {"no", "completed", "failed"} : WorkBatch(name, order, count, ended)
      BY <1>2
<1>b. PICK count \in DOMAIN order, ended \in {"no", "completed", "failed"} : WorkBatch(name, order, count, ended)
      BY <1>a
<1> DEFINE last == queue[order[count]]
           worked == {queue[order[i]] : i \in 1 .. count}
           going == IF ended = "no" THEN worked ELSE worked \ {last}
<1>c. (ended = "no" => count = Len(order)) /\ \A o \in going : ~MustFail(o)
      BY <1>b DEF WorkBatch
<1>3. PICK waiting \in SUBSET {o \in going : UsesStrand(o)},
           scanned \in SUBSET {o \in going : phase[o] = "scan" /\ o \notin Scans},
           reporting \in Ascending(1 .. count) :
        LET progress == [i \in DOMAIN reporting |-> Step("progress", queue[order[reporting[i]]])] IN
           /\ inFlight' = (inFlight \ worked) \cup waiting
           /\ phase' = [o \in Ops |-> IF o \in scanned THEN "run" ELSE phase[o]]
           /\ agenda' = IF ended = "no"
                        THEN progress \o If(going # waiting, <<WakeStep>>)
                        ELSE AfterEnd(order[count], name, last, ended, progress)
      BY <1>b DEF WorkBatch
<1> DEFINE progress == [i \in DOMAIN reporting |-> Step("progress", queue[order[reporting[i]]])]
<1>4. /\ inFlight' = (inFlight \ worked) \cup waiting
      /\ phase' = [o \in Ops |-> IF o \in scanned THEN "run" ELSE phase[o]]
      /\ agenda' = IF ended = "no"
                   THEN progress \o If(going # waiting, <<WakeStep>>)
                   ELSE AfterEnd(order[count], name, last, ended, progress)
      BY <1>3
<1>e. CollectEligibleOperations(queue, d) \in SUBSET DOMAIN queue
      BY <1>1, EligibleIndices
<1>q. CollectEligibleOperations(queue, [o \in Ops |-> bulkConcurrency]) \subseteq CollectEligibleOperations(queue, d)
      BY <1>1, EligibleAtMost
<1> HIDE DEF queue
<1>6. PICK k \in Nat : order \in [1..k -> DOMAIN queue]
      BY <1>1, <1>e, OrderIndices
<1>7. count \in 1..k /\ count \in Nat /\ 1..count \subseteq 1..k
      BY <1>6
<1>8. PICK m \in Nat : reporting \in [1..m -> 1..count]
      BY <1>7, ReportingIndices
<1>9. Reports(progress)
      <2> DEFINE f == [i \in 1..m |-> queue[order[reporting[i]]]]
      <2>1. f \in [1..m -> Ops] /\ \A i \in 1..m : InQueue(f[i])
            BY <1>1, <1>6, <1>7, <1>8
      <2>2. progress = [i \in 1..m |-> Step("progress", f[i])]
            BY <1>8
      <2> HIDE DEF f, progress
      <2>3. \A i \in 1..m : Step("progress", f[i]) \in Steps /\ Step("progress", f[i]).step = "progress"
                            /\ Step("progress", f[i]).op = f[i]
            <3>1. "progress" \in StepNames
                  BY DEF StepNames
            <3>2. QED
                  BY <2>1, <3>1, StepType
      <2>4. /\ progress \in [1..m -> Steps]
            /\ \A i \in 1..m : progress[i].step = "progress" /\ progress[i].op = f[i]
            BY <2>2, <2>3
      <2>5. progress \in Seq(Steps) /\ DOMAIN progress = 1..m
            BY <2>4
      <2>6. QED
            BY <2>1, <2>4, <2>5 DEF Reports
<1>10. order[count] \in DOMAIN queue /\ order[count] \in Nat /\ last \in Ops
      BY <1>1, <1>6, <1>7
<1>11. progress \in Seq(Steps)
      BY <1>9 DEF Reports
<1>12. CASE ended # "no"
      <2> DEFINE n == order[count]
      <2>1. n \in Nat /\ last \in Ops /\ ended \in {"completed", "failed"}
            /\ agenda' = AfterEnd(n, name, last, ended, progress)
            BY <1>4, <1>10, <1>12
      <2> HIDE DEF n, last, progress
      <2>2. QED
            BY <1>9, <1>11, <2>1
<1>13. CASE ended = "no" /\ going # waiting
      <2>1. agenda' = progress \o <<WakeStep>>
            BY <1>4, <1>13 DEF If
      <2> HIDE DEF progress
      <2>2. QED
            BY <1>9, <1>11, <2>1
<1>14. CASE ended = "no" /\ going = waiting
      <2>1. agenda' = progress \o << >>
            BY <1>4, <1>14 DEF If
      <2>2. going = worked /\ count = Len(order)
            BY <1>c, <1>14
      <2>3. \A o \in worked : UsesStrand(o) /\ ~MustFail(o)
            BY <1>c, <1>14, <2>2
      <2>4. phase' = phase
            <3>1. scanned = {}
                  BY <1>3, <2>2, <2>3 DEF UsesStrand
            <3>2. QED
                  BY <1>4, <3>1 DEF CardInv, HomeInv
      <2>5. channel = "open"
            <3>1. queue[order[count]] \in worked
                  BY <1>7
            <3>2. QED
                  BY <2>3, <3>1 DEF MustFail
      <2>6. order \in SetToSeqs(CollectEligibleOperations(queue, d))
            BY <1>a, <2>5 DEF RunOrders
      <2>7. \A n \in CollectEligibleOperations(queue, d) : \E i \in 1..count : order[i] = n
            BY <1>1, <1>e, <2>2, <2>6, OrderWorksOnAll
      <2>8. \A n \in CollectEligibleOperations(queue, d) : queue[n] \in inFlight'
            BY <1>4, <1>14, <2>2, <2>7
      <2>9. \A i \in CollectEligibleOperations(queue, [o \in Ops |-> bulkConcurrency]) : queue[i] \in inFlight'
            BY <1>q, <2>8
      <2> HIDE DEF progress
      <2>10. QED
            BY <1>9, <1>11, <2>1, <2>4, <2>9 DEF queue
<1>15. QED
      BY <1>12, <1>13, <1>14

LEMMA ConcatThree ==
    ASSUME NEW a \in Seq(Steps), NEW b \in Seq(Steps), NEW c \in Seq(Steps)
    PROVE  (a \o b) \o c = a \o (b \o c)
OBVIOUS

\* The parts of a handler that ends an operation.
Ending(a, p) ==
    \E t \in Seq(Steps), s \in Seq(Steps), e \in Seq(Steps), w \in Seq(Steps) :
       /\ \A names : HasStep(t, names) <=> "take" \in names
       /\ \A names : HasStep(s, names) => \E x \in {"failScan", "deliverScan"} : x \in names
       /\ \A names : HasStep(e, names) <=> "complete" \in names
       /\ w = << WakeStep >>
       /\ a = t \o (p \o (s \o (e \o w)))

LEMMA AfterEndSteps ==
    ASSUME NEW o \in Ops, NEW index \in Nat, NEW name \in {"priority", "regular"}, NEW ended, NEW p, Reports(p)
    PROVE  Ending(AfterEnd(index, name, o, ended, p), p)
<1> DEFINE t == << TakeStep(index, name, o) >>
           S == Step(IF ended = "failed" THEN "failScan" ELSE "deliverScan", o)
           s == If(o \in Scans, << S >>)
           E == Step("complete", o)
           e == << E >>
           w == << WakeStep >>
<1>1. t \in Seq(Steps) /\ \A names : HasStep(t, names) <=> "take" \in names
      <2>1. TakeStep(index, name, o) \in Steps /\ TakeStep(index, name, o).step = "take"
            BY DEF TakeStep, Steps, StepNames
      <2>2. QED
            BY <2>1, HasOne
<1>2. s \in Seq(Steps) /\ \A names : HasStep(s, names) => \E x \in {"failScan", "deliverScan"} : x \in names
      <2>1. S \in Steps /\ S.step \in {"failScan", "deliverScan"}
            BY StepType DEF StepNames
      <2> HIDE DEF S
      <2>2. CASE o \in Scans
            <3>1. s = << S >>
                  BY <2>2 DEF If
            <3>2. QED
                  BY <2>1, <3>1, HasOne
      <2>3. CASE o \notin Scans
            <3>1. s = << >>
                  BY <2>3 DEF If
            <3>2. QED
                  BY <3>1, HasNone
      <2>4. QED
            BY <2>2, <2>3
<1>3. E \in Steps /\ E.step = "complete"
      BY StepType DEF StepNames
<1>4. e \in Seq(Steps) /\ \A names : HasStep(e, names) <=> "complete" \in names
      BY <1>3, HasOne
<1>5. w \in Seq(Steps)
      BY WakeType, HasOne
<1>6. p \in Seq(Steps)
      BY DEF Reports
<1>7. << E, WakeStep >> = e \o w
      BY <1>3, WakeType
<1>8. AfterEnd(index, name, o, ended, p) = ((t \o p) \o s) \o (e \o w)
      BY <1>7 DEF AfterEnd
<1> HIDE DEF t, s, E, e
<1>9. w = << WakeStep >>
      OBVIOUS
<1> HIDE DEF w
<1>10. ((t \o p) \o s) \o (e \o w) = t \o (p \o (s \o (e \o w)))
      <2> DEFINE ew == e \o w
                 tp == t \o p
      <2>1. ew \in Seq(Steps) /\ tp \in Seq(Steps)
            BY <1>1, <1>4, <1>5, <1>6
      <2> HIDE DEF ew
      <2>2. (tp \o s) \o ew = tp \o (s \o ew)
            <3> HIDE DEF tp
            <3>1. QED
                  BY <1>2, <2>1, ConcatThree
      <2> DEFINE b == s \o ew
      <2>3. b \in Seq(Steps)
            BY <1>2, <2>1
      <2> HIDE DEF b
      <2>4. (t \o p) \o b = t \o (p \o b)
            BY <1>1, <1>6, <2>3, ConcatThree
      <2>5. QED
            BY <2>2, <2>4 DEF b, ew
<1>11. AfterEnd(index, name, o, ended, p) = t \o (p \o (s \o (e \o w)))
      BY <1>8, <1>10
<1>12. QED
      BY <1>1, <1>2, <1>4, <1>5, <1>9, <1>11 DEF Ending

LEMMA AfterEndWoken ==
    ASSUME NEW o \in Ops, NEW index \in Nat, NEW name \in {"priority", "regular"}, NEW ended, NEW p, Reports(p),
           agenda' = AfterEnd(index, name, o, ended, p)
    PROVE  Woken(agenda') /\ HasWake(agenda')
<1>0. Ending(agenda', p)
      BY AfterEndSteps
<1>1. PICK t \in Seq(Steps), s \in Seq(Steps), e \in Seq(Steps), w \in Seq(Steps) :
           w = << WakeStep >> /\ agenda' = t \o (p \o (s \o (e \o w)))
      BY <1>0 DEF Ending
<1>2. HasWake(w) /\ Woken(w)
      <2>1. HasWake(<< WakeStep >>) /\ ~HasStep(<< WakeStep >>, NeedsWake)
            BY WakeType, HasOne DEF HasWake, NeedsWake, Ends
      <2>2. QED
            BY <1>1, <2>1 DEF HasWake, HasStep, Woken
<1>3. p \in Seq(Steps)
      BY DEF Reports
<1> DEFINE a == e \o w
           b == s \o a
           c == p \o b
<1>4. a \in Seq(Steps) /\ Woken(a) /\ HasWake(a)
      BY <1>2, WokenConcat, HasConcat DEF HasWake
<1> HIDE DEF a
<1>5. b \in Seq(Steps) /\ Woken(b) /\ HasWake(b)
      BY <1>4, WokenConcat, HasConcat DEF HasWake
<1> HIDE DEF b
<1>6. c \in Seq(Steps) /\ Woken(c) /\ HasWake(c)
      BY <1>3, <1>5, WokenConcat, HasConcat DEF HasWake
<1>7. agenda' = t \o c
      BY <1>1 DEF a, b
<1> HIDE DEF c
<1>8. QED
      BY <1>6, <1>7, WokenConcat, HasConcat DEF HasWake
-----------------------------------------------------------------------------
(***************************************************************************)
(* The driver, step by step.                                               *)
(***************************************************************************)
LEMMA WakeComing == ASSUME Woken(agenda'), HasWake(agenda') PROVE DriverInv'
BY DEF DriverInv, Resting

LEMMA SameQueues ==
    ASSUME UNCHANGED <<priorityOperations, operations, phase, inFlight, paused>>
    PROVE  (CurrentQueue' = CurrentQueue) /\ (AllInFlight => AllInFlight')
BY DEF AllInFlight, CurrentQueue, Elements, CollectEligibleOperations, SlotsBefore, ParallelWorkDoable, IsBarrier

LEMMA DriverSame ==
    ASSUME DriverInv, UNCHANGED <<priorityOperations, operations, phase, inFlight, paused>>,
           Woken(agenda'), Resting' => Resting
    PROVE  DriverInv'
BY SameQueues DEF DriverInv

LEMMA DriverScheduled == ASSUME Woken(agenda'), scheduled' \/ wakePosted' \/ session' # "started" PROVE DriverInv'
BY DEF DriverInv, Resting

LEMMA IdleWoken == ASSUME agenda' = << >> PROVE Woken(agenda')
BY WokenNone

\* A call on top of what the handler still has to do.
LEMMA CallDriver ==
    ASSUME NEW p, AgendaInv(p), NEW rest \in Seq(Steps), Woken(rest), Then(p, rest)
    PROVE  DriverInv'
<1>1. p \in Seq(Steps)
      BY DEF AgendaInv
<1>2. QED
      BY <1>1, WokenThen, WakeComing

LEMMA RequestCall == ASSUME NEW p, AgendaInv(p), Then(p, <<>>) PROVE DriverInv'
<1>1. << >> \in Seq(Steps) /\ Woken(<< >>)
      BY HasNone, WokenNone
<1>2. QED
      BY <1>1, CallDriver

LEMMA RequestDriver == ASSUME IInv, DriverInv, NEW o \in Ops, Request(o) PROVE DriverInv'
<1>0. QueuesInv /\ agenda = <<>> /\ UNCHANGED <<session, scheduled, wakePosted>>
      BY DEF IInv, CardInv, Request
<1>1. CASE Then(<<>>, <<>>)
      BY <1>1, AgendaNone, RequestCall
<1>2. CASE Cancel(o, <<>>)
      <2>1. Then(CancelSteps(o), <<>>)
            BY <1>2 DEF Cancel
      <2>2. AgendaInv(CancelSteps(o))
            BY <1>0, CancelStepsFacts
      <2>3. QED
            BY <2>1, <2>2, RequestCall
<1>3. CASE CancelAll(<<>>)
      <2>1. Then(CancelAllSteps, <<>>)
            BY <1>3 DEF CancelAll
      <2>2. AgendaInv(CancelAllSteps)
            BY <1>0, CancelAllStepsFacts
      <2>3. QED
            BY <2>1, <2>2, RequestCall
<1>4. CASE CancelUpload(o)
      <2>1. Then(If(Queued(o), <<Step("complete", o)>>), <<>>)
            BY <1>4 DEF CancelUpload
      <2>2. AgendaInv(If(Queued(o), <<Step("complete", o)>>))
            BY <1>0, EndIfQueued
      <2>3. QED
            BY <2>1, <2>2, RequestCall
<1>5. CASE UNCHANGED <<queueVars, agenda, paused>>
      <2>1. UNCHANGED <<priorityOperations, operations, phase, inFlight, paused>> /\ agenda' = agenda
            BY <1>5 DEF queueVars
      <2>2. Resting' => Resting
            BY <1>0, <2>1 DEF Resting
      <2>3. Woken(agenda')
            BY <2>1 DEF DriverInv
      <2>4. QED
            BY <2>1, <2>2, <2>3, DriverSame
<1>6. \/ Then(<<>>, <<>>) \/ Cancel(o, <<>>) \/ CancelAll(<<>>) \/ CancelUpload(o)
      \/ UNCHANGED <<queueVars, agenda, paused>>
      BY DEF Request, CloseSyncSession, MoveOperation, Pause, ContinueKept, DiscardKept, AdoptBulkResumes
<1>7. QED
      BY <1>1, <1>2, <1>3, <1>4, <1>5, <1>6

LEMMA StepBelow ==
    ASSUME IInv, DriverInv, agenda # <<>>
    PROVE  /\ Tail(agenda) \in Seq(Steps) /\ Head(agenda) \in Steps /\ Woken(Tail(agenda))
           /\ Head(agenda).step \in NeedsWake => HasWake(Tail(agenda))
           /\ HasWake(Tail(agenda)) => HasWake(agenda)
           /\ Head(agenda).step # "wake" /\ HasWake(agenda) => HasWake(Tail(agenda))
<1>1. agenda \in Seq(Steps) /\ Woken(agenda)
      BY DEF IInv, CardInv, AgendaInv, DriverInv
<1>2. QED
      BY <1>1, HasTail, WokenTail DEF HasWake

LEMMA ReactionDriver ==
    ASSUME IInv, DriverInv, agenda # <<>>, NEW r \in Reaction \cup {<<>>}, agenda' = r \o Tail(agenda)
    PROVE  Woken(agenda') /\ (HasWake(Tail(agenda)) => HasWake(agenda'))
<1>1. /\ AgendaInv(r) /\ (\A o : ~EndOf(r, o))
      /\ \A i \in DOMAIN r : r[i].step # "take"
      BY ReactionFacts DEF IInv, CardInv
<1>2. r \in Seq(Steps) /\ ~HasStep(r, NeedsWake)
      <2>1. \A i \in DOMAIN r : r[i].step \notin NeedsWake
            BY <1>1 DEF EndOf, NeedsWake
      <2>2. QED
            BY <1>1, <2>1 DEF AgendaInv, HasStep
<1>3. Tail(agenda) \in Seq(Steps) /\ Woken(Tail(agenda))
      BY StepBelow
<1>4. QED
      BY <1>2, <1>3, WokenConcat, HasConcat DEF HasWake

LEMMA HandlerStepDriver == ASSUME IInv, DriverInv, HandlerStep PROVE DriverInv'
<1>0. UNCHANGED <<session, paused, wakePosted>>
      BY DEF HandlerStep, sessionVars
<1>1. CASE Takes
      <2>1. agenda # <<>> /\ Head(agenda).step \in NeedsWake /\ agenda' = Tail(agenda)
            BY <1>1 DEF Takes, Doing, NeedsWake
      <2>2. QED
            BY <2>1, StepBelow, WakeComing
<1>2. CASE DeliversProgress
      <2>1. /\ agenda # <<>> /\ Head(agenda).step = "progress"
            /\ \E r \in Reaction \cup {<<>>} : agenda' = r \o Tail(agenda)
            BY <1>2 DEF DeliversProgress, Doing
      <2>2. Woken(agenda') /\ (HasWake(agenda) => HasWake(agenda'))
            BY <2>1, ReactionDriver, StepBelow
      <2>3. UNCHANGED <<priorityOperations, operations, phase, inFlight, paused>> /\ UNCHANGED scheduled
            BY <1>0, <1>2 DEF DeliversProgress, queueVars
      <2>4. Resting' => Resting
            BY <1>0, <2>2, <2>3 DEF Resting
      <2>5. QED
            BY <2>2, <2>3, <2>4, DriverSame
<1>3. CASE FailSyncScan \/ DeliverSyncScan
      <2>1. agenda # <<>> /\ Head(agenda).step # "wake" /\ agenda' = Tail(agenda)
            BY <1>3 DEF FailSyncScan, DeliverSyncScan, Doing
      <2>2. Woken(agenda') /\ (HasWake(agenda) => HasWake(agenda'))
            BY <2>1, StepBelow
      <2>3. UNCHANGED <<priorityOperations, operations, phase, inFlight, paused>> /\ UNCHANGED scheduled
            BY <1>0, <1>3 DEF FailSyncScan, DeliverSyncScan, queueVars
      <2>4. Resting' => Resting
            BY <1>0, <2>2, <2>3 DEF Resting
      <2>5. QED
            BY <2>2, <2>3, <2>4, DriverSame
<1>4. CASE CompleteOperation
      <2>1. /\ agenda # <<>> /\ Head(agenda).step \in NeedsWake
            /\ \E r \in Reaction \cup {<<>>} : agenda' = r \o Tail(agenda)
            BY <1>4 DEF CompleteOperation, Doing, NeedsWake, Ends
      <2>2. Woken(agenda') /\ HasWake(agenda')
            BY <2>1, ReactionDriver, StepBelow
      <2>3. QED
            BY <2>2, WakeComing
<1>5. CASE OwnerAdds
      <2>1. agenda # <<>> /\ Then(<<>>, Tail(agenda))
            BY <1>5 DEF OwnerAdds, Doing
      <2>2. QED
            BY <2>1, AgendaNone, StepBelow, CallDriver
<1>6. CASE OwnerCancels
      <2>1. agenda # <<>> /\ Then(CancelSteps(Op), Tail(agenda)) /\ Op = Head(agenda).op
            BY <1>6 DEF OwnerCancels, Doing, Cancel, Op
      <2>2. Op \in Ops
            BY <2>1, StepBelow DEF Steps
      <2>3. AgendaInv(CancelSteps(Op))
            BY <2>2, CancelStepsFacts DEF IInv, CardInv
      <2>4. QED
            BY <2>1, <2>3, StepBelow, CallDriver
<1>7. CASE Wakes
      <2>1. agenda # <<>> /\ agenda' = Tail(agenda) /\ scheduled'
            BY <1>7 DEF Wakes, Doing, ScheduleOperationQueueWork
      <2>2. QED
            BY <2>1, StepBelow, DriverScheduled
<1>8. QED
      BY <1>1, <1>2, <1>3, <1>4, <1>5, <1>6, <1>7 DEF HandlerStep

LEMMA WorkDriver == ASSUME IInv, DriverInv, DoOperationQueueWork PROVE DriverInv'
<1>1. agenda = <<>> /\ UNCHANGED <<priorityOperations, operations, session, paused>>
      BY DEF DoOperationQueueWork, sessionVars
<1>2. CASE ~(session = "started" /\ CurrentQueue # "none")
      <2>1. agenda' = <<>> /\ UNCHANGED <<priorityOperations, operations, phase, inFlight, paused>>
            BY <1>1, <1>2 DEF DoOperationQueueWork
      <2>2. CurrentQueue' = CurrentQueue
            BY <2>1, SameQueues
      <2>3. ~(session' = "started" /\ CurrentQueue' # "none")
            BY <1>1, <1>2, <2>2
      <2>4. Woken(agenda')
            BY <2>1, IdleWoken
      <2>5. QED
            BY <2>3, <2>4 DEF DriverInv, Resting
<1>3. CASE session = "started" /\ CurrentQueue # "none"
      <2> DEFINE name == CurrentQueue
      <2>1. WorkQueue(name) /\ name \in {"priority", "regular"} /\ CardInv
            BY <1>3 DEF DoOperationQueueWork, CurrentQueue, IInv
      <2>2. name' = name
            BY <1>1 DEF CurrentQueue
      <2> HIDE DEF name
      <2>3. PICK p \in Seq(Steps) :
              /\ Reports(p)
              /\ \/ agenda' = p \o <<WakeStep>>
                 \/ \E n \in Nat, o \in Ops, ended \in {"completed", "failed"} :
                       agenda' = AfterEnd(n, name, o, ended, p)
                 \/ /\ agenda' = p \o << >>
                    /\ phase' = phase
                    /\ \A i \in CollectEligibleOperations(Elements(name), [o \in Ops |-> bulkConcurrency]) :
                          Elements(name)[i] \in inFlight'
            BY <2>1, CycleSteps
      <2>4. CASE agenda' = p \o <<WakeStep>>
            <3>1. agenda' = p \o <<WakeStep>> \o << >>
                  BY <2>4, WakeType
            <3>2. Then(p, << >>)
                  BY <3>1 DEF Then
            <3>3. QED
                  BY <3>2, HasNone, WokenNone, WokenThen, WakeComing
      <2>5. CASE \E n \in Nat, o \in Ops, ended \in {"completed", "failed"} : agenda' = AfterEnd(n, name, o, ended, p)
            BY <2>1, <2>3, <2>5, AfterEndWoken, WakeComing
      <2>6. CASE /\ agenda' = p \o << >>
                 /\ phase' = phase
                 /\ \A i \in CollectEligibleOperations(Elements(name), [o \in Ops |-> bulkConcurrency]) :
                       Elements(name)[i] \in inFlight'
            <3>1. Woken(agenda')
                  <4>1. "progress" \notin NeedsWake
                        BY DEF NeedsWake, Ends
                  <4>2. ~HasStep(p, NeedsWake)
                        BY <2>3, <4>1, ReportsHas
                  <4>3. QED
                        BY <2>6, <4>2, HasNone, WokenNone, WokenConcat
            <3>2. Elements(name)' = Elements(name)
                  BY <1>1, <2>2 DEF Elements
            <3>3. CollectEligibleOperations(Elements(name), [o \in Ops |-> bulkConcurrency])'
                  = CollectEligibleOperations(Elements(name), [o \in Ops |-> bulkConcurrency])
                  BY <2>6, <3>2 DEF CollectEligibleOperations, SlotsBefore, ParallelWorkDoable, IsBarrier
            <3>4. AllInFlight'
                  BY <2>6, <3>2, <3>3 DEF AllInFlight, name
            <3>5. QED
                  BY <3>1, <3>4 DEF DriverInv
      <2>7. QED
            BY <2>3, <2>4, <2>5, <2>6
<1>4. QED
      BY <1>2, <1>3

LEMMA InitDriver == Init => DriverInv
<1> SUFFICES ASSUME Init PROVE DriverInv
    OBVIOUS
<1>1. agenda = << >> /\ session = "new"
      BY DEF Init
<1>2. Woken(agenda)
      BY <1>1, WokenNone
<1>3. QED
      BY <1>1, <1>2 DEF DriverInv, Resting

LEMMA NextDriver == IInv /\ IInv' /\ DriverInv /\ [Next]_vars => DriverInv'
<1> SUFFICES ASSUME IInv, DriverInv, [Next]_vars PROVE DriverInv'
    OBVIOUS
<1>w. Woken(agenda)
      BY DEF DriverInv
<1>1. CASE HandlerStep
      BY <1>1, HandlerStepDriver
<1>2. CASE DoOperationQueueWork
      BY <1>2, WorkDriver
<1>3. CASE CancelsSiblingScan
      <2> DEFINE o == Head(posted).op
      <2>1. Then(If(Queued(o), <<Step("complete", o)>>), <<>>)
            BY <1>3 DEF CancelsSiblingScan
      <2>2. o \in Ops
            BY <1>3, CancelsSiblingScanTypes DEF IInv
      <2> HIDE DEF o
      <2>3. AgendaInv(If(Queued(o), <<Step("complete", o)>>))
            BY <2>2, EndIfQueued DEF IInv, CardInv
      <2>4. QED
            BY <2>1, <2>3, RequestCall
<1>4. CASE WakeOperationQueue \/ Start
      <2>1. scheduled' /\ agenda' = agenda
            BY <1>4 DEF WakeOperationQueue, Start, ScheduleOperationQueueWork
      <2>2. QED
            BY <1>w, <2>1, DriverScheduled
<1>5. ASSUME NEW o \in Ops, Request(o) PROVE DriverInv'
      BY <1>5, RequestDriver
<1>6. ASSUME NEW o \in Ops, TransferWakes(o) PROVE DriverInv'
      <2>1. wakePosted' /\ agenda' = agenda
            BY <1>6 DEF TransferWakes
      <2>2. QED
            BY <1>w, <2>1, DriverScheduled
<1>7. CASE StopCalled \/ StopRuns \/ Reconnect
      <2>1. session' # "started" /\ agenda' = agenda
            BY <1>7 DEF StopCalled, StopRuns, Reconnect
      <2>2. QED
            BY <1>w, <2>1, DriverScheduled
<1>8. CASE ChannelEnds \/ (\E o \in Ops : Discards(o)) \/ UNCHANGED vars
      <2>1. /\ UNCHANGED <<priorityOperations, operations, phase, inFlight, paused>>
            /\ UNCHANGED <<session, scheduled, wakePosted, agenda>>
            BY <1>8 DEF ChannelEnds, Discards, Discard, vars, queueVars, sessionVars
      <2>2. Resting' => Resting
            BY <2>1 DEF Resting
      <2>3. QED
            BY <1>w, <2>1, <2>2, DriverSame
<1>9. QED
      BY <1>1, <1>2, <1>3, <1>4, <1>5, <1>6, <1>7, <1>8 DEF Next, PostedHandler

\* The driver of a session never sleeps on work, for any operations, demands and limits (doOperationQueueWork,
\* wakeOperationQueue, WakeOnReturn): NoStall holds in every reachable state.
THEOREM DriverNeverStalls == Spec => []NoStall
<1>1. DriverInv => NoStall
      <2> SUFFICES ASSUME DriverInv, session = "started", agenda = <<>>, CurrentQueue # "none",
                          ~(scheduled \/ wakePosted)
                   PROVE  \A i \in CollectEligibleOperations(Elements(CurrentQueue), [o \in Ops |-> bulkConcurrency]) :
                             Elements(CurrentQueue)[i] \in inFlight
          BY DEF NoStall
      <2>1. ~HasWake(agenda)
            BY HasNone DEF HasWake
      <2>2. AllInFlight
            BY <2>1 DEF DriverInv, Resting
      <2>3. QED
            BY <2>2 DEF AllInFlight
<1>2. Spec => []DriverInv
      BY InitDriver, NextDriver, AlwaysIInv, PTL DEF Spec
<1>3. QED
      BY <1>1, <1>2, PTL
-----------------------------------------------------------------------------
(***************************************************************************)
(* What the frontend hears, when owners only add.                          *)
(***************************************************************************)
Silent(a) == a \in Seq(Steps) /\ ~HasStep(a, {"progress"}) /\ ~HasStep(a, {"cancel"})

LEMMA SilentNone == Silent(<< >>)
BY HasNone DEF Silent

LEMMA SilentIf ==
    ASSUME NEW c \in BOOLEAN, NEW name \in StepNames \ {"progress", "cancel"}, NEW o \in Ops
    PROVE  Silent(If(c, <<Step(name, o)>>))
<1>1. CASE c
      <2>1. If(c, <<Step(name, o)>>) = <<Step(name, o)>>
            BY <1>1 DEF If
      <2>2. Step(name, o) \in Steps /\ Step(name, o).step = name
            BY StepType
      <2>3. Silent(<<Step(name, o)>>)
            BY <2>2, HasOne DEF Silent
      <2>4. QED
            BY <2>1, <2>3
<1>2. CASE ~c
      <2>1. If(c, <<Step(name, o)>>) = << >>
            BY <1>2 DEF If
      <2>2. QED
            BY <2>1, SilentNone
<1>3. QED
      BY <1>1, <1>2

LEMMA SilentConcat == ASSUME NEW a, Silent(a), NEW b, Silent(b) PROVE Silent(a \o b)
BY HasConcat DEF Silent

LEMMA SilentCancel == ASSUME NEW o \in Ops PROVE Silent(CancelSteps(o))
<1>1. (o \in Scans) \in BOOLEAN /\ Queued(o) \in BOOLEAN
      BY DEF Queued
<1>2. {"failScan", "cancelledByUser"} \subseteq StepNames \ {"progress", "cancel"}
      BY DEF StepNames
<1>3. Silent(If(o \in Scans, <<Step("failScan", o)>>)) /\ Silent(If(Queued(o), <<Step("cancelledByUser", o)>>))
      BY <1>1, <1>2, SilentIf
<1>4. QED
      BY <1>3, SilentConcat DEF CancelSteps

LEMMA SilentCancelAll == ASSUME QueuesInv PROVE Silent(CancelAllSteps)
<1> DEFINE q == priorityOperations \o operations
<1>1. q \in Seq(Ops)
      BY DEF QueuesInv
<1>2. CancelAllSteps = [i \in DOMAIN q |-> Step("cancelledByUser", q[i])]
      BY DEF CancelAllSteps
<1>3. "cancelledByUser" \in StepNames
      BY DEF StepNames
<1> HIDE DEF q
<1>4. DOMAIN q = 1..Len(q) /\ Len(q) \in Nat /\ \A i \in DOMAIN q : q[i] \in Ops
      BY <1>1
<1>5. \A i \in DOMAIN q : Step("cancelledByUser", q[i]) \in Steps
                          /\ Step("cancelledByUser", q[i]).step = "cancelledByUser"
      BY <1>3, <1>4, StepType
<1> DEFINE c == CancelAllSteps
<1>6. c \in [1..Len(q) -> Steps] /\ \A i \in 1..Len(q) : c[i].step = "cancelledByUser"
      BY <1>2, <1>4, <1>5
<1>7. c \in Seq(Steps) /\ DOMAIN c = 1..Len(q)
      BY <1>4, <1>6
<1> HIDE DEF c
<1>8. Silent(c)
      BY <1>6, <1>7 DEF Silent, HasStep
<1>9. QED
      BY <1>8 DEF c

LEMMA SilentProgress == ASSUME Silent(agenda'), late' = late, ProgressInv PROVE ProgressInv'
BY DEF Silent, HasStep, ProgressInv, ProgressFirst, ProgressOpen

LEMMA SilentThen == ASSUME NEW p, Silent(p), Then(p, <<>>) PROVE Silent(agenda')
<1>1. Silent(<< WakeStep >>)
      BY WakeType, HasOne DEF Silent
<1> DEFINE w == << WakeStep >>
           n == << >>
<1>2. Silent(w) /\ Silent(n)
      BY <1>1, SilentNone
<1>3. agenda' = (p \o w) \o n
      BY DEF Then
<1> HIDE DEF w, n
<1>4. Silent(p \o w)
      BY <1>2, SilentConcat
<1> DEFINE c == p \o w
<1>5. Silent(c) /\ agenda' = c \o n
      BY <1>3, <1>4
<1> HIDE DEF c
<1>6. QED
      BY <1>2, <1>5, SilentConcat

LEMMA ProgressConcat ==
    ASSUME NEW p \in Seq(Steps), NEW a \in Seq(Steps), ProgressFirst(p), ProgressFirst(a),
           ~HasStep(p, Ends) \/ ~HasStep(a, {"progress"})
    PROVE  ProgressFirst(p \o a)
<1> DEFINE c == p \o a
<1>1. /\ c \in Seq(Steps)
      /\ \A i \in DOMAIN c : IF i \in DOMAIN p THEN c[i] = p[i]
                             ELSE i - Len(p) \in DOMAIN a /\ c[i] = a[i - Len(p)]
      /\ DOMAIN c \subseteq Nat /\ Len(p) \in Nat /\ DOMAIN p = 1..Len(p) /\ \A i \in DOMAIN c : i >= 1
      /\ \A i \in DOMAIN a : i \in Nat
      BY ConcatElements
<1> HIDE DEF c
<1>2. ASSUME NEW i \in DOMAIN c, NEW j \in DOMAIN c, c[i].step \in Ends, c[j].step = "progress" PROVE j < i
      <2>1. CASE i \in DOMAIN p /\ j \in DOMAIN p
            BY <1>1, <1>2, <2>1 DEF ProgressFirst
      <2>2. CASE i \in DOMAIN p /\ j \notin DOMAIN p
            <3>1. HasStep(p, Ends) /\ HasStep(a, {"progress"})
                  BY <1>1, <1>2, <2>2 DEF HasStep
            <3>2. QED
                  BY <3>1
      <2>3. CASE i \notin DOMAIN p /\ j \in DOMAIN p
            BY <1>1, <2>3
      <2>4. CASE i \notin DOMAIN p /\ j \notin DOMAIN p
            <3>1. j - Len(p) < i - Len(p)
                  BY <1>1, <1>2, <2>4 DEF ProgressFirst
            <3>2. QED
                  BY <1>1, <3>1
      <2>5. QED
            BY <2>1, <2>2, <2>3, <2>4
<1>3. QED
      BY <1>2 DEF ProgressFirst, c

LEMMA OpenConcat ==
    ASSUME NEW p \in Seq(Steps), NEW a \in Seq(Steps), NEW cards, ProgressOpen(p, cards), ProgressOpen(a, cards)
    PROVE  ProgressOpen(p \o a, cards)
<1> DEFINE c == p \o a
<1>1. \A i \in DOMAIN c : IF i \in DOMAIN p THEN c[i] = p[i]
                          ELSE i - Len(p) \in DOMAIN a /\ c[i] = a[i - Len(p)]
      BY ConcatElements
<1> HIDE DEF c
<1>2. ProgressOpen(c, cards)
      BY <1>1 DEF ProgressOpen
<1>3. QED
      BY <1>2 DEF c

LEMMA SilentFirst == ASSUME NEW a, Silent(a), NEW cards PROVE ProgressFirst(a) /\ ProgressOpen(a, cards)
BY DEF Silent, HasStep, ProgressFirst, ProgressOpen

\* The rest of a handler, and what it means for the step it does now.
LEMMA ProgressTail ==
    ASSUME NEW a \in Seq(Steps), a # << >>, ProgressFirst(a), NEW cards, ProgressOpen(a, cards)
    PROVE  /\ ProgressFirst(Tail(a)) /\ ProgressOpen(Tail(a), cards)
           /\ Head(a).step = "progress" => cards[Head(a).op] = 1
           /\ Head(a).step \in Ends => ~HasStep(Tail(a), {"progress"})
<1> DEFINE t == Tail(a)
<1>1. Len(a) \in Nat \ {0} /\ DOMAIN a = 1..Len(a) /\ Head(a) = a[1] /\ 1 \in DOMAIN a
      OBVIOUS
<1>2. DOMAIN t = 1..(Len(a) - 1) /\ \A i \in DOMAIN t : t[i] = a[i + 1] /\ i + 1 \in DOMAIN a /\ i \in Nat /\ ~(i + 1 < 1)
      BY <1>1
<1> HIDE DEF t
<1>3. ProgressOpen(t, cards)
      BY <1>2 DEF ProgressOpen
<1>4. ASSUME NEW i \in DOMAIN t, NEW j \in DOMAIN t, t[i].step \in Ends, t[j].step = "progress" PROVE j < i
      <2>1. j + 1 < i + 1
            BY <1>2, <1>4 DEF ProgressFirst
      <2>2. QED
            BY <1>2, <2>1
<1>5. a[1].step = "progress" => cards[a[1].op] = 1
      BY <1>1 DEF ProgressOpen
<1>6. a[1].step \in Ends => ~HasStep(t, {"progress"})
      BY <1>1, <1>2 DEF ProgressFirst, HasStep
<1>7. QED
      BY <1>1, <1>3, <1>4, <1>5, <1>6 DEF ProgressFirst, t

LEMMA RequestProgress == ASSUME IInv, ProgressInv, NEW o \in Ops, Request(o) PROVE ProgressInv'
<1>0. QueuesInv /\ agenda = <<>> /\ late' = late
      BY DEF IInv, CardInv, Request
<1>1. CASE Then(<<>>, <<>>)
      BY <1>0, <1>1, SilentNone, SilentThen, SilentProgress
<1>2. CASE Cancel(o, <<>>)
      <2>1. Then(CancelSteps(o), <<>>)
            BY <1>2 DEF Cancel
      <2>2. QED
            BY <1>0, <2>1, SilentCancel, SilentThen, SilentProgress
<1>3. CASE CancelAll(<<>>)
      <2>1. Then(CancelAllSteps, <<>>)
            BY <1>3 DEF CancelAll
      <2>2. QED
            BY <1>0, <2>1, SilentCancelAll, SilentThen, SilentProgress
<1>4. CASE CancelUpload(o)
      <2>1. Then(If(Queued(o), <<Step("complete", o)>>), <<>>)
            BY <1>4 DEF CancelUpload
      <2>2. Queued(o) \in BOOLEAN /\ "complete" \in StepNames \ {"progress", "cancel"}
            BY DEF Queued, StepNames
      <2>3. Silent(If(Queued(o), <<Step("complete", o)>>))
            BY <2>2, SilentIf
      <2>4. QED
            BY <1>0, <2>1, <2>3, SilentThen, SilentProgress
<1>5. CASE UNCHANGED agenda
      BY <1>0, <1>5, SilentNone, SilentProgress
<1>6. \/ Then(<<>>, <<>>) \/ Cancel(o, <<>>) \/ CancelAll(<<>>) \/ CancelUpload(o)
      \/ UNCHANGED agenda
      BY DEF Request, CloseSyncSession, MoveOperation, Pause, ContinueKept, DiscardKept, AdoptBulkResumes
<1>7. QED
      BY <1>1, <1>2, <1>3, <1>4, <1>5, <1>6

\* An owner that only adds.
LEMMA AddingReaction ==
    ASSUME "cancel" \notin Reactions, NEW r \in Reaction \cup {<<>>}
    PROVE  Silent(r) /\ ~HasStep(r, Ends)
<1>1. CASE r = << >>
      BY <1>1, SilentNone, HasNone
<1>2. ASSUME NEW o \in Owned, r = <<Step("addForOwner", o)>> PROVE Silent(r) /\ ~HasStep(r, Ends)
      <2>1. o \in Ops /\ "addForOwner" \in StepNames
            BY OwnedAssumption DEF StepNames
      <2>2. Step("addForOwner", o) \in Steps /\ Step("addForOwner", o).step = "addForOwner"
            BY <2>1, StepType
      <2>3. QED
            BY <1>2, <2>2, HasOne DEF Silent, Ends
<1>3. r = << >> \/ \E o \in Owned : r = <<Step("addForOwner", o)>>
      BY DEF Reaction
<1>4. QED
      BY <1>1, <1>2, <1>3

LEMMA ProgressBelow ==
    ASSUME IInv, ProgressInv, agenda # <<>>
    PROVE  /\ agenda \in Seq(Steps) /\ Tail(agenda) \in Seq(Steps) /\ Head(agenda) \in Steps
           /\ ~HasStep(Tail(agenda), {"cancel"}) /\ Head(agenda).step # "cancel"
           /\ ProgressFirst(Tail(agenda)) /\ ProgressOpen(Tail(agenda), open)
           /\ Head(agenda).step = "progress" => open[Head(agenda).op] = 1
           /\ Head(agenda).step \in Ends => ~HasStep(Tail(agenda), {"progress"})
<1>1. /\ agenda \in Seq(Steps) /\ ~HasStep(agenda, {"cancel"})
      /\ ProgressFirst(agenda) /\ ProgressOpen(agenda, open)
      BY DEF IInv, CardInv, AgendaInv, ProgressInv
<1>2. ~HasStep(Tail(agenda), {"cancel"}) /\ Head(agenda).step # "cancel"
      BY <1>1, HasTail
<1>3. QED
      BY <1>1, <1>2, HasTail, ProgressTail

\* Cards that are opened leave the others as they are.
LEMMA AddForOwnerOpens ==
    ASSUME IInv, NEW o \in Owned, phase[o] = "new", AddForOwner(o), NEW a, ProgressOpen(a, open), a \in Seq(Steps)
    PROVE  ProgressOpen(a, open')
<1>1. o \in Ops /\ CardInv /\ open[o] = 0
      BY OwnedAssumption DEF IInv, CardInv, CardsInv
<1>2. CASE QueueUp(<<o>>, "priority", {}, {})
      <2> DEFINE os == <<o>>
      <2>1. os \in Seq(Ops) /\ Unique(os) /\ \A p : Has(os, p) <=> p = o
            BY <1>1, OneElement
      <2>2. QueueUp(os, "priority", {}, {})
            BY <1>2
      <2> HIDE DEF os
      <2>3. \A p \in Ops : Has(os, p) => open[p] = 0
            BY <1>1, <2>1
      <2>4. open' = [p \in Ops |-> IF Has(os, p) THEN 1 ELSE open[p]]
            BY <1>1, <2>1, <2>2, <2>3, QueueUpFacts
      <2>5. ASSUME NEW i \in DOMAIN a, a[i].step = "progress" PROVE open'[a[i].op] = 1
            <3>1. a[i].op \in Ops
                  <4>1. a[i] \in Steps
                        OBVIOUS
                  <4>2. QED
                        BY <4>1 DEF Steps
            <3>2. open[a[i].op] = 1
                  BY <2>5 DEF ProgressOpen
            <3>3. QED
                  BY <2>4, <3>1, <3>2
      <2>6. QED
            BY <2>5 DEF ProgressOpen
<1>3. CASE QueueNothing
      BY <1>3 DEF QueueNothing, ProgressOpen
<1>4. QED
      BY <1>2, <1>3 DEF AddForOwner

LEMMA HandlerStepProgress ==
    ASSUME "cancel" \notin Reactions, IInv, ProgressInv, HandlerStep
    PROVE  ProgressInv'
<1>0. late = {}
      BY DEF ProgressInv
<1>1. CASE Takes \/ FailSyncScan \/ DeliverSyncScan \/ Wakes
      <2>1. agenda # <<>> /\ agenda' = Tail(agenda) /\ UNCHANGED <<open, late>>
            BY <1>1 DEF Takes, FailSyncScan, DeliverSyncScan, Wakes, Doing
      <2>2. QED
            BY <1>0, <2>1, ProgressBelow DEF ProgressInv
<1>2. CASE DeliversProgress
      <2>1. /\ agenda # <<>> /\ Head(agenda).step = "progress" /\ open' = open
            /\ late' = IF open[Head(agenda).op] = 0 THEN late \cup {Op} ELSE late
            /\ \E r \in Reaction \cup {<<>>} : agenda' = r \o Tail(agenda)
            BY <1>2 DEF DeliversProgress, Doing, Op
      <2>2. PICK r \in Reaction \cup {<<>>} : agenda' = r \o Tail(agenda)
            BY <2>1
      <2>3. Silent(r) /\ ~HasStep(r, Ends)
            BY <2>2, AddingReaction
      <2> DEFINE t == Tail(agenda)
      <2>4. /\ t \in Seq(Steps) /\ ~HasStep(t, {"cancel"}) /\ ProgressFirst(t) /\ ProgressOpen(t, open)
            /\ open[Head(agenda).op] = 1 /\ agenda' = r \o t
            BY <2>1, <2>2, ProgressBelow
      <2> HIDE DEF t
      <2>5. r \in Seq(Steps) /\ ~HasStep(r, {"cancel"}) /\ ProgressFirst(r) /\ ProgressOpen(r, open)
            BY <2>3, SilentFirst DEF Silent
      <2>6. ~HasStep(agenda', {"cancel"})
            BY <2>4, <2>5, HasConcat
      <2>7. ProgressFirst(agenda') /\ ProgressOpen(agenda', open)
            BY <2>3, <2>4, <2>5, ProgressConcat, OpenConcat
      <2>8. late' = {}
            BY <1>0, <2>1, <2>4
      <2>9. QED
            BY <2>1, <2>6, <2>7, <2>8 DEF ProgressInv
<1>3. CASE CompleteOperation
      <2>1. /\ agenda # <<>> /\ Head(agenda).step \in Ends /\ late' = late
            /\ \E r \in Reaction \cup {<<>>} : agenda' = r \o Tail(agenda)
            BY <1>3 DEF CompleteOperation, Doing, Ends
      <2>2. PICK r \in Reaction \cup {<<>>} : agenda' = r \o Tail(agenda)
            BY <2>1
      <2>3. Silent(r)
            BY <2>2, AddingReaction
      <2>4. Silent(Tail(agenda))
            BY <2>1, ProgressBelow DEF Silent
      <2>5. Silent(agenda')
            BY <2>2, <2>3, <2>4, SilentConcat
      <2>6. QED
            BY <2>1, <2>5, SilentProgress
<1>4. CASE OwnerAdds
      <2>1. agenda # <<>> /\ Head(agenda).step = "addForOwner" /\ AddForOwner(Op) /\ Then(<<>>, Tail(agenda))
            /\ late' = late /\ Op = Head(agenda).op
            BY <1>4 DEF OwnerAdds, Doing, Op
      <2>2. Op \in Owned /\ phase[Op] = "new"
            <3>1. 1 \in DOMAIN agenda /\ Head(agenda) = agenda[1]
                  BY <2>1, ProgressBelow
            <3>2. QED
                  BY <2>1, <3>1 DEF IInv, CardInv, FrontInv
      <2> DEFINE t == Tail(agenda)
                 w == << WakeStep >>
                 n == << >>
      <2>3. t \in Seq(Steps) /\ ~HasStep(t, {"cancel"}) /\ ProgressFirst(t) /\ ProgressOpen(t, open)
            BY <2>1, ProgressBelow
      <2>4. Silent(w) /\ ~HasStep(w, Ends)
            BY WakeType, HasOne DEF Silent, Ends
      <2>5. agenda' = w \o t
            <3>1. agenda' = (n \o w) \o t
                  BY <2>1 DEF Then
            <3>2. n \o w = w
                  BY WakeType
            <3>3. QED
                  BY <3>1, <3>2
      <2> HIDE DEF t, w, n
      <2>6. ProgressOpen(t, open')
            BY <2>1, <2>2, <2>3, AddForOwnerOpens
      <2>7. w \in Seq(Steps) /\ ~HasStep(w, {"cancel"}) /\ ProgressFirst(w) /\ ProgressOpen(w, open')
            BY <2>4, SilentFirst DEF Silent
      <2>8. ~HasStep(agenda', {"cancel"})
            BY <2>3, <2>5, <2>7, HasConcat
      <2>9. ProgressFirst(agenda') /\ ProgressOpen(agenda', open')
            BY <2>3, <2>4, <2>5, <2>6, <2>7, ProgressConcat, OpenConcat
      <2>10. QED
            BY <1>0, <2>1, <2>8, <2>9 DEF ProgressInv
<1>5. CASE OwnerCancels
      <2>1. agenda # <<>> /\ Head(agenda).step = "cancel"
            BY <1>5 DEF OwnerCancels, Doing
      <2>2. QED
            BY <2>1, ProgressBelow
<1>6. QED
      BY <1>1, <1>2, <1>3, <1>4, <1>5 DEF HandlerStep

\* The progress of a batch is of queued operations, so their cards are open.
LEMMA ReportsOpen ==
    ASSUME IInv, NEW p, Reports(p)
    PROVE  /\ p \in Seq(Steps) /\ ProgressFirst(p) /\ ProgressOpen(p, open)
           /\ ~HasStep(p, Ends) /\ ~HasStep(p, {"cancel"})
<1>1. p \in Seq(Steps) /\ \A i \in DOMAIN p : p[i].step = "progress" /\ InQueue(p[i].op)
      BY DEF Reports
<1>2. ~HasStep(p, Ends) /\ ~HasStep(p, {"cancel"})
      BY ReportsHas DEF Ends
<1>3. ASSUME NEW i \in DOMAIN p PROVE open[p[i].op] = 1
      <2>1. p[i].op \in Ops
            <3>1. p[i] \in Steps
                  BY <1>1
            <3>2. QED
                  BY <3>1 DEF Steps
      <2>2. QED
            BY <1>1, <2>1 DEF IInv, CardInv, CardsInv
<1>4. QED
      BY <1>1, <1>2, <1>3 DEF ProgressFirst, ProgressOpen, HasStep

LEMMA EndingProgress ==
    ASSUME IInv, NEW p, Reports(p), NEW a, Ending(a, p)
    PROVE  ~HasStep(a, {"cancel"}) /\ ProgressFirst(a) /\ ProgressOpen(a, open)
<1>1. PICK t \in Seq(Steps), s \in Seq(Steps), e \in Seq(Steps), w \in Seq(Steps) :
       /\ \A names : HasStep(t, names) <=> "take" \in names
       /\ \A names : HasStep(s, names) => \E x \in {"failScan", "deliverScan"} : x \in names
       /\ \A names : HasStep(e, names) <=> "complete" \in names
       /\ w = << WakeStep >>
       /\ a = t \o (p \o (s \o (e \o w)))
      BY DEF Ending
<1>2. Silent(t) /\ ~HasStep(t, Ends)
      BY <1>1 DEF Silent, Ends
<1>3. Silent(s) /\ Silent(e)
      BY <1>1 DEF Silent
<1>4. Silent(w)
      BY <1>1, WakeType, HasOne DEF Silent
<1> DEFINE b == e \o w
           c == s \o b
           f == p \o c
<1>5. Silent(b)
      BY <1>3, <1>4, SilentConcat
<1>6. Silent(c)
      <2> HIDE DEF b
      <2>1. QED
            BY <1>3, <1>5, SilentConcat
<1>7. a = t \o f
      BY <1>1
<1> HIDE DEF b, c
<1>8. c \in Seq(Steps) /\ ~HasStep(c, {"cancel"}) /\ ProgressFirst(c) /\ ProgressOpen(c, open)
      BY <1>6, SilentFirst DEF Silent
<1>9. f \in Seq(Steps) /\ ~HasStep(f, {"cancel"}) /\ ProgressFirst(f) /\ ProgressOpen(f, open)
      <2>1. /\ p \in Seq(Steps) /\ ProgressFirst(p) /\ ProgressOpen(p, open)
            /\ ~HasStep(p, Ends) /\ ~HasStep(p, {"cancel"})
            BY ReportsOpen
      <2>2. QED
            BY <1>8, <2>1, HasConcat, ProgressConcat, OpenConcat
<1> HIDE DEF f
<1>10. t \in Seq(Steps) /\ ~HasStep(t, {"cancel"}) /\ ProgressFirst(t) /\ ProgressOpen(t, open)
      BY <1>2, SilentFirst DEF Silent
<1>11. QED
      BY <1>2, <1>7, <1>9, <1>10, HasConcat, ProgressConcat, OpenConcat

LEMMA WorkProgress == ASSUME IInv, ProgressInv, DoOperationQueueWork PROVE ProgressInv'
<1>1. agenda = <<>> /\ UNCHANGED <<open, late>>
      BY DEF DoOperationQueueWork
<1>2. CASE ~(session = "started" /\ CurrentQueue # "none")
      <2>1. agenda' = <<>>
            BY <1>1, <1>2 DEF DoOperationQueueWork
      <2>2. QED
            BY <1>1, <2>1, SilentNone, SilentProgress
<1>3. CASE session = "started" /\ CurrentQueue # "none"
      <2> DEFINE name == CurrentQueue
      <2>1. WorkQueue(name) /\ name \in {"priority", "regular"} /\ CardInv
            BY <1>3 DEF DoOperationQueueWork, CurrentQueue, IInv
      <2> HIDE DEF name
      <2>2. PICK p \in Seq(Steps) :
              /\ Reports(p)
              /\ \/ agenda' = p \o <<WakeStep>>
                 \/ \E n \in Nat, o \in Ops, ended \in {"completed", "failed"} :
                       agenda' = AfterEnd(n, name, o, ended, p)
                 \/ agenda' = p \o << >>
            <3>1. PICK p \in Seq(Steps) :
                    /\ Reports(p)
                    /\ \/ agenda' = p \o <<WakeStep>>
                       \/ \E n \in Nat, o \in Ops, ended \in {"completed", "failed"} :
                             agenda' = AfterEnd(n, name, o, ended, p)
                       \/ /\ agenda' = p \o << >>
                          /\ phase' = phase
                          /\ \A i \in CollectEligibleOperations(Elements(name), [o \in Ops |-> bulkConcurrency]) :
                                Elements(name)[i] \in inFlight'
                  BY <2>1, CycleSteps
            <3>2. QED
                  BY <3>1
      <2>3. ~HasStep(agenda', {"cancel"}) /\ ProgressFirst(agenda') /\ ProgressOpen(agenda', open)
            <3>1. CASE \E n \in Nat, o \in Ops, ended \in {"completed", "failed"} :
                          agenda' = AfterEnd(n, name, o, ended, p)
                  <4>1. Ending(agenda', p)
                        BY <2>1, <2>2, <3>1, AfterEndSteps
                  <4>2. QED
                        BY <2>2, <4>1, EndingProgress
            <3>2. ASSUME NEW w, Silent(w), agenda' = p \o w
                  PROVE  ~HasStep(agenda', {"cancel"}) /\ ProgressFirst(agenda') /\ ProgressOpen(agenda', open)
                  <4>1. w \in Seq(Steps) /\ ~HasStep(w, {"cancel"}) /\ ProgressFirst(w) /\ ProgressOpen(w, open)
                        BY <3>2, SilentFirst DEF Silent
                  <4>2. /\ p \in Seq(Steps) /\ ProgressFirst(p) /\ ProgressOpen(p, open)
                        /\ ~HasStep(p, Ends) /\ ~HasStep(p, {"cancel"})
                        BY <2>2, ReportsOpen
                  <4>3. QED
                        BY <3>2, <4>1, <4>2, HasConcat, ProgressConcat, OpenConcat
            <3>3. Silent(<< WakeStep >>) /\ Silent(<< >>)
                  BY SilentNone, WakeType, HasOne DEF Silent
            <3>4. QED
                  BY <2>2, <3>1, <3>2, <3>3
      <2>4. QED
            BY <1>1, <2>3 DEF ProgressInv
<1>4. QED
      BY <1>2, <1>3

LEMMA InitProgress == Init => ProgressInv
<1> SUFFICES ASSUME Init PROVE ProgressInv
    OBVIOUS
<1>1. agenda = << >> /\ late = {}
      BY DEF Init
<1>2. Silent(agenda)
      BY <1>1, SilentNone
<1>3. QED
      BY <1>1, <1>2, SilentFirst DEF ProgressInv, Silent

LEMMA NextProgress ==
    ASSUME "cancel" \notin Reactions
    PROVE  IInv /\ ProgressInv /\ [Next]_vars => ProgressInv'
<1> SUFFICES ASSUME IInv, ProgressInv, [Next]_vars PROVE ProgressInv'
    OBVIOUS
<1>1. CASE HandlerStep
      BY <1>1, HandlerStepProgress
<1>2. CASE DoOperationQueueWork
      BY <1>2, WorkProgress
<1>3. CASE CancelsSiblingScan
      <2> DEFINE o == Head(posted).op
      <2>1. Then(If(Queued(o), <<Step("complete", o)>>), <<>>) /\ late' = late
            BY <1>3 DEF CancelsSiblingScan
      <2>2. o \in Ops
            BY <1>3, CancelsSiblingScanTypes DEF IInv
      <2> HIDE DEF o
      <2>3. Queued(o) \in BOOLEAN /\ "complete" \in StepNames \ {"progress", "cancel"}
            BY DEF Queued, StepNames
      <2>4. Silent(If(Queued(o), <<Step("complete", o)>>))
            BY <2>2, <2>3, SilentIf
      <2>5. QED
            BY <2>1, <2>4, SilentThen, SilentProgress
<1>4. ASSUME NEW o \in Ops, Request(o) PROVE ProgressInv'
      BY <1>4, RequestProgress
<1>5. CASE StopRuns
      <2>1. agenda' = <<>> /\ late' = late
            BY <1>5 DEF StopRuns
      <2>2. QED
            BY <2>1, SilentNone, SilentProgress
<1>6. CASE UNCHANGED <<agenda, open, late>>
      BY <1>6 DEF ProgressInv, HasStep, ProgressFirst, ProgressOpen
<1>7. ASSUME WakeOperationQueue \/ Start \/ StopCalled \/ Reconnect \/ ChannelEnds \/ UNCHANGED vars
      PROVE  UNCHANGED <<agenda, open, late>>
      BY <1>7 DEF WakeOperationQueue, Start, StopCalled, Reconnect, ChannelEnds, vars
<1>8. ASSUME NEW o \in Ops, TransferWakes(o) \/ Discards(o) PROVE UNCHANGED <<agenda, open, late>>
      BY <1>8 DEF TransferWakes, Discards, Discard
<1>9. QED
      BY <1>1, <1>2, <1>3, <1>4, <1>5, <1>6, <1>7, <1>8 DEF Next, PostedHandler

\* When owners only add operations while they are told of progress and ends, as file tracking does, the frontend
\* hears no progress of an operation after its end, whatever is cancelled, stopped or queued meanwhile (HeldProgress,
\* workQueue, completeOperation).
THEOREM ProgressPrecedesEnd == ASSUME "cancel" \notin Reactions PROVE Spec => []NoProgressAfterEnd
<1>1. ProgressInv => NoProgressAfterEnd
      BY DEF ProgressInv, NoProgressAfterEnd
<1>2. IInv /\ ProgressInv /\ [Next]_vars => ProgressInv'
      BY NextProgress
<1>3. QED
      BY <1>1, <1>2, InitProgress, AlwaysIInv, PTL DEF Spec
=============================================================================
