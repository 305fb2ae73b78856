---------------------- MODULE OperationQueueScanProofs ----------------------
(***************************************************************************)
(* The scans of syncs: a sync that waits for a scan gets an answer, and    *)
(* once one side failed the other is never announced as done.              *)
(***************************************************************************)
EXTENDS OperationQueueProofs

\* The handler has still to answer the sync of scan o.
Answer(a, o) == \E i \in DOMAIN a : a[i].step \in {"failScan", "deliverScan"} /\ a[i].op = o

Answered(o) == (InQueue(o) \/ Answer(agenda, o)) /\ (TakenNext(agenda, o) => Answer(agenda, o))

\* A sync waits only for scans that are queued or about to be answered, also once the next step took them out.
WaitInv ==
    \A o \in scanCallbacks : phase[o] # "new" /\ phase[Sibling[o]] # "new" /\ Answered(o)

\* Nobody waits for a scan whose cancel is posted, and no such scan is queued anew.
CancelInv(q) ==
    \A i \in DOMAIN q : q[i].handler = "cancelScan" => q[i].op \notin scanCallbacks /\ phase[q[i].op] # "new"

\* Nobody waits for the sibling of a scan that was reported as failed.
FailedInv ==
    \A o \in Scans : told[o] = "failed" => Sibling[o] \notin scanCallbacks /\ phase[Sibling[o]] # "new"

ScanInv == WaitInv /\ CancelInv(posted) /\ FailedInv
-----------------------------------------------------------------------------
(***************************************************************************)
(* The agenda and the posted handlers.                                     *)
(***************************************************************************)
LEMMA AnswerConcat ==
    ASSUME NEW p \in Seq(Steps), NEW a \in Seq(Steps), NEW o
    PROVE  Answer(p, o) \/ Answer(a, o) => Answer(p \o a, o)
<1> DEFINE c == p \o a
<1>1. /\ \A i \in DOMAIN p : i \in DOMAIN c /\ c[i] = p[i]
      /\ \A i \in DOMAIN a : i + Len(p) \in DOMAIN c /\ c[i + Len(p)] = a[i]
      BY ConcatElements
<1> HIDE DEF c
<1>2. Answer(p, o) \/ Answer(a, o) => Answer(c, o)
      BY <1>1 DEF Answer
<1>3. QED
      BY <1>2 DEF c

LEMMA AnswerTail ==
    ASSUME NEW a \in Seq(Steps), a # <<>>, NEW o, Answer(a, o),
           ~(Head(a).step \in {"failScan", "deliverScan"} /\ Head(a).op = o)
    PROVE  Answer(Tail(a), o)
<1> DEFINE t == Tail(a)
<1>1. Len(a) \in Nat \ {0} /\ DOMAIN a = 1..Len(a) /\ Head(a) = a[1]
      OBVIOUS
<1>2. DOMAIN t = 1..(Len(a) - 1) /\ \A i \in DOMAIN t : t[i] = a[i + 1]
      BY <1>1
<1> HIDE DEF t
<1>3. PICK i \in DOMAIN a : a[i].step \in {"failScan", "deliverScan"} /\ a[i].op = o
      BY DEF Answer
<1>4. i # 1
      BY <1>1, <1>3
<1>5. i - 1 \in DOMAIN t /\ (i - 1) + 1 = i
      BY <1>1, <1>2, <1>4
<1>6. t[i - 1] = a[i]
      BY <1>2, <1>5
<1>7. Answer(t, o)
      BY <1>3, <1>5, <1>6 DEF Answer
<1>8. QED
      BY <1>7 DEF t

LEMMA ThenAnswers ==
    ASSUME NEW p \in Seq(Steps), NEW r \in Seq(Steps), Then(p, r), NEW o
    PROVE  Answer(p, o) \/ Answer(r, o) => Answer(agenda', o)
<1> DEFINE w == << WakeStep >>
           c == p \o w
<1>1. w \in Seq(Steps)
      BY WakeType
<1>2. agenda' = c \o r
      BY DEF Then
<1> HIDE DEF w
<1>3. c \in Seq(Steps) /\ (Answer(p, o) => Answer(c, o))
      BY <1>1, AnswerConcat, ConcatElements
<1> HIDE DEF c
<1>4. Answer(c, o) \/ Answer(r, o) => Answer(c \o r, o)
      BY <1>3, AnswerConcat
<1>5. QED
      BY <1>2, <1>3, <1>4

\* No cancel of a scan is posted.
NoNewCancels ==
    \A i \in DOMAIN posted' : posted'[i].handler = "cancelScan" => \E j \in DOMAIN posted : posted[j] = posted'[i]

LEMMA PostedSame == ASSUME UNCHANGED posted PROVE NoNewCancels
BY DEF NoNewCancels

LEMMA PostedTaken == ASSUME TypeInv, posted # <<>>, posted' = Tail(posted) PROVE NoNewCancels
<1>1. posted \in Seq(Handlers) /\ Len(posted) \in Nat \ {0} /\ DOMAIN posted = 1..Len(posted)
      BY DEF TypeInv, PostedInv
<1>2. DOMAIN posted' = 1..(Len(posted) - 1) /\ \A i \in DOMAIN posted' : posted'[i] = posted[i + 1]
      BY <1>1
<1>3. \A i \in DOMAIN posted' : i + 1 \in DOMAIN posted
      BY <1>1, <1>2
<1>4. QED
      BY <1>2, <1>3 DEF NoNewCancels

LEMMA PostedWork == ASSUME TypeInv, ScheduleOperationQueueWork PROVE NoNewCancels
<1>1. CASE scheduled
      BY <1>1, PostedSame DEF ScheduleOperationQueueWork
<1>2. CASE ~scheduled
      <2> DEFINE w == << WorkHandler >>
                 c == posted \o w
      <2>1. posted \in Seq(Handlers)
            BY DEF TypeInv, PostedInv
      <2>2. w \in Seq(Handlers) /\ \A i \in DOMAIN w : w[i].handler = "work"
            BY HandlerType
      <2>3. posted' = c
            BY <1>2, <2>1 DEF ScheduleOperationQueueWork
      <2> HIDE DEF w
      <2>4. \A i \in DOMAIN c : IF i \in DOMAIN posted THEN c[i] = posted[i]
                                ELSE i - Len(posted) \in DOMAIN w /\ c[i] = w[i - Len(posted)]
            BY <2>1, <2>2, ConcatElements
      <2> HIDE DEF c
      <2>5. QED
            BY <2>2, <2>3, <2>4 DEF NoNewCancels
<1>3. QED
      BY <1>1, <1>2

PhaseKept == \A o \in Ops : phase'[o] = "new" => phase[o] = "new"

\* A step that adds nothing to wait for and fails nothing.
LEMMA ScansKept ==
    ASSUME ScanInv, TypeInv, scanCallbacks' \subseteq scanCallbacks, PhaseKept, NoNewCancels,
           \A o \in Scans : told'[o] = "failed" => told[o] = "failed",
           \A o \in scanCallbacks' : Answered(o)'
    PROVE  ScanInv'
<1>1. \A o \in Scans : o \in Ops /\ Sibling[o] \in Ops
      BY SiblingAssumption DEF Scans
<1>2. scanCallbacks \subseteq Scans /\ \A i \in DOMAIN posted : posted[i].op \in Ops
      <2>1. \A i \in DOMAIN posted : posted[i] \in Handlers
            BY DEF TypeInv, PostedInv
      <2>2. QED
            BY <2>1 DEF TypeInv, RestInv, Handlers
<1>3. WaitInv'
      <2>1. \A o \in scanCallbacks' : phase'[o] # "new" /\ phase'[Sibling[o]] # "new"
            BY <1>1, <1>2 DEF ScanInv, WaitInv, PhaseKept
      <2>2. QED
            BY <2>1 DEF WaitInv
<1>4. CancelInv(posted)'
      BY <1>2 DEF ScanInv, CancelInv, NoNewCancels, PhaseKept
<1>5. FailedInv'
      BY <1>1 DEF ScanInv, FailedInv, PhaseKept
<1>6. QED
      BY <1>3, <1>4, <1>5 DEF ScanInv

\* Scans fail: nobody waits for their siblings any more, whose cancels are posted.
LEMMA ScansFail ==
    ASSUME ScanInv, TypeInv, NEW F \in SUBSET scanCallbacks, FailCallbacks(F),
           scanCallbacks' \subseteq scanCallbacks, \A o \in F \cap syncOpen : Sibling[o] \notin scanCallbacks',
           UNCHANGED phase, \A o \in scanCallbacks' : Answered(o)'
    PROVE  ScanInv'
<1>1. \A o \in Scans : o \in Ops /\ Sibling[o] \in Ops
      BY SiblingAssumption DEF Scans
<1>2. scanCallbacks \subseteq Scans /\ posted \in Seq(Handlers)
      BY DEF TypeInv, PostedInv, RestInv
<1> DEFINE H == F \cap syncOpen
           r == SetToSeq(CancelsOf(H))
           c == posted \o r
<1>3. H \in SUBSET Scans
      BY <1>2
<1>4. r \in Seq(Handlers) /\ \A i \in DOMAIN r : \E o \in H : r[i] = CancelScanHandler(Sibling[o])
      BY <1>3, CancelHandlers
<1>5. posted' = c
      BY DEF FailCallbacks, CancelsOf
<1>6. \A o \in Scans : told'[o] = "failed" => told[o] = "failed" \/ o \in H
      BY <1>1 DEF FailCallbacks
<1>7. \A o \in H : o \in Scans /\ phase'[Sibling[o]] # "new" /\ Sibling[o] \notin scanCallbacks'
      BY <1>2 DEF ScanInv, WaitInv
<1> HIDE DEF H, r
<1>8. WaitInv'
      BY DEF ScanInv, WaitInv
<1>9. FailedInv'
      BY <1>6, <1>7 DEF ScanInv, FailedInv
<1>10. CancelInv(posted)'
      <2>1. \A i \in DOMAIN c : IF i \in DOMAIN posted THEN c[i] = posted[i]
                                ELSE i - Len(posted) \in DOMAIN r /\ c[i] = r[i - Len(posted)]
            BY <1>2, <1>4, ConcatElements
      <2> HIDE DEF c
      <2>2. SUFFICES ASSUME NEW i \in DOMAIN c, c[i].handler = "cancelScan"
                     PROVE  c[i].op \notin scanCallbacks' /\ phase'[c[i].op] # "new"
            BY <1>5 DEF CancelInv
      <2>3. CASE i \in DOMAIN posted
            BY <2>1, <2>2, <2>3 DEF ScanInv, CancelInv
      <2>4. CASE i \notin DOMAIN posted
            <3>1. PICK o \in H : c[i] = CancelScanHandler(Sibling[o])
                  BY <1>4, <2>1, <2>4
            <3>2. c[i].op = Sibling[o]
                  BY <3>1 DEF CancelScanHandler
            <3>3. QED
                  BY <1>7, <3>2
      <2>5. QED
            BY <2>3, <2>4
<1>11. QED
      BY <1>8, <1>9, <1>10 DEF ScanInv
-----------------------------------------------------------------------------
(***************************************************************************)
(* The calls.                                                              *)
(***************************************************************************)
LEMMA ThenSteady ==
    ASSUME NEW p \in Seq(Steps), Steady(p), NEW r \in Seq(Steps), Steady(r), Then(p, r)
    PROVE  Steady(agenda')
<1> DEFINE w == << WakeStep >>
           c == p \o w
           d == c \o r
<1>1. w \in Seq(Steps) /\ Steady(w)
      BY WakeType, AgendaOne DEF FrontSteps
<1>2. agenda' = d
      BY DEF Then
<1> HIDE DEF w
<1>3. c \in Seq(Steps) /\ \A i \in DOMAIN c : IF i \in DOMAIN p THEN c[i] = p[i]
                                              ELSE i - Len(p) \in DOMAIN w /\ c[i] = w[i - Len(p)]
      BY <1>1, ConcatElements
<1> HIDE DEF c
<1>4. \A i \in DOMAIN d : IF i \in DOMAIN c THEN d[i] = c[i] ELSE i - Len(c) \in DOMAIN r /\ d[i] = r[i - Len(c)]
      BY <1>3, ConcatElements
<1> HIDE DEF d
<1>5. Steady(c)
      BY <1>1, <1>3 DEF Steady
<1>6. Steady(d)
      BY <1>4, <1>5 DEF Steady
<1>7. QED
      BY <1>2, <1>6

\* The answers the running handler still has to give are below the call.
AnswersBelow(rest) == \A o : Answer(agenda, o) => Answer(rest, o)

LEMMA AnswersIdle == ASSUME agenda = <<>> PROVE AnswersBelow(<<>>)
BY DEF AnswersBelow

LEMMA AnswersTail ==
    ASSUME CardInv, agenda # <<>>, Head(agenda).step \notin {"failScan", "deliverScan"}
    PROVE  AnswersBelow(Tail(agenda))
BY AnswerTail DEF CardInv, AgendaInv, AnswersBelow

\* What every call keeps: scans stay queued unless the call answers their sync.
LEMMA CallAnswers ==
    ASSUME ScanInv, NEW p \in Seq(Steps), Steady(p), NEW rest, Below(rest), AnswersBelow(rest), Then(p, rest),
           scanCallbacks' \subseteq scanCallbacks,
           \A o \in scanCallbacks' : InQueue(o) => InQueue(o)' \/ Answer(p, o)
    PROVE  \A o \in scanCallbacks' : Answered(o)'
<1>1. rest \in Seq(Steps) /\ Steady(rest)
      BY DEF Below, AgendaInv
<1>2. \A o : ~TakenNext(agenda', o)
      BY <1>1, ThenSteady, SteadyAgenda
<1>3. \A o : Answer(p, o) \/ Answer(rest, o) => Answer(agenda', o)
      BY <1>1, ThenAnswers
<1>4. \A o \in scanCallbacks' : InQueue(o) \/ Answer(agenda, o)
      BY DEF ScanInv, WaitInv, Answered
<1>5. \A o \in scanCallbacks' : InQueue(o)' \/ Answer(agenda', o)
      BY <1>3, <1>4 DEF AnswersBelow
<1>6. QED
      BY <1>2, <1>5 DEF Answered

LEMMA CallKeeps ==
    ASSUME ScanInv, TypeInv, NEW p \in Seq(Steps), Steady(p), NEW rest, Below(rest), AnswersBelow(rest), Then(p, rest),
           UNCHANGED <<scanCallbacks, told, posted>>, PhaseKept,
           \A o \in scanCallbacks : InQueue(o) => InQueue(o)' \/ Answer(p, o)
    PROVE  ScanInv'
<1>1. scanCallbacks' \subseteq scanCallbacks /\ \A o \in scanCallbacks' : InQueue(o) => InQueue(o)' \/ Answer(p, o)
      OBVIOUS
<1>2. \A o \in scanCallbacks' : Answered(o)'
      BY <1>1, CallAnswers
<1>3. NoNewCancels
      BY PostedSame
<1>4. \A o \in Scans : told'[o] = "failed" => told[o] = "failed"
      OBVIOUS
<1>5. QED
      BY <1>1, <1>2, <1>3, <1>4, ScansKept

\* Operations that are queued stay behind those that were.
LEMMA QueueUpKeeps ==
    ASSUME CardInv, NEW os \in Seq(Ops), NEW mode \in {"priority", "regular"}, NEW scanning, NEW backups,
           QueueUp(os, mode, scanning, backups)
    PROVE  (\A o \in Ops : InQueue(o) => InQueue(o)') /\ PhaseKept
<1>1. priorityOperations \in Seq(Ops) /\ operations \in Seq(Ops)
      BY DEF CardInv, QueuesInv
<1>2. PhaseKept
      BY DEF QueueUp, PhaseKept
<1>3. \A q \in Seq(Ops) : q \o << >> = q
      OBVIOUS
<1>4. \A q \in Seq(Ops) : \A o : Has(q, o) => Has(q \o os, o)
      BY ConcatUnique
<1>5. CASE mode = "priority"
      <2>1. priorityOperations' = priorityOperations \o os /\ operations' = operations
            BY <1>1, <1>3, <1>5 DEF QueueUp, If
      <2>2. QED
            BY <1>1, <1>2, <1>4, <2>1 DEF InQueue
<1>6. CASE mode = "regular"
      <2>1. operations' = operations \o os /\ priorityOperations' = priorityOperations
            BY <1>1, <1>3, <1>6 DEF QueueUp, If
      <2>2. QED
            BY <1>1, <1>2, <1>4, <2>1 DEF InQueue
<1>7. QED
      BY <1>5, <1>6

LEMMA JoinKeeps ==
    ASSUME CardInv, NEW D, QueueNothing \/ Joined(D)
    PROVE  (\A o \in Ops : InQueue(o) => InQueue(o)') /\ PhaseKept
<1>1. CASE QueueNothing
      BY <1>1 DEF QueueNothing, InQueue, PhaseKept
<1>2. CASE Joined(D)
      BY <1>2, QueueUpKeeps DEF Joined
<1>3. QED
      BY <1>1, <1>2

LEMMA AddScans ==
    ASSUME CardInv, TypeInv, ScanInv, NEW D, QueueNothing \/ Joined(D), NEW rest, Below(rest), AnswersBelow(rest),
           Then(<<>>, rest), UNCHANGED <<scanCallbacks, told, posted>>
    PROVE  ScanInv'
<1> DEFINE p == << >>
<1>1. p \in Seq(Steps) /\ Steady(p) /\ Then(p, rest)
      BY AgendaNone DEF AgendaInv
<1> HIDE DEF p
<1>2. (\A o \in Ops : InQueue(o) => InQueue(o)') /\ PhaseKept
      BY JoinKeeps
<1>3. \A o \in scanCallbacks : InQueue(o) => InQueue(o)' \/ Answer(p, o)
      BY <1>2 DEF TypeInv, RestInv, Scans
<1>4. QED
      BY <1>1, <1>2, <1>3, CallKeeps

LEMMA CancelScans ==
    ASSUME CardInv, TypeInv, ScanInv, NEW o \in Ops, NEW rest, Below(rest), AnswersBelow(rest), Cancel(o, rest)
    PROVE  ScanInv'
<1> DEFINE p == CancelSteps(o)
<1>1. p \in Seq(Steps) /\ Steady(p)
      BY CancelStepsFacts DEF CardInv, AgendaInv
<1>2. \A q \in Ops : InQueue(q) /\ q # o => InQueue(q)'
      BY TakeOperationFacts DEF Cancel, CardInv
<1>3. o \in Scans => Answer(p, o)
      <2> SUFFICES ASSUME o \in Scans PROVE Answer(p, o)
          OBVIOUS
      <2> DEFINE f == << Step("failScan", o) >>
                 c == If(Queued(o), <<Step("cancelledByUser", o)>>)
      <2>1. p = f \o c
            BY DEF CancelSteps, If
      <2>2. Step("failScan", o) \in Steps /\ Step("failScan", o).step = "failScan" /\ Step("failScan", o).op = o
            BY StepType DEF StepNames
      <2>3. f \in Seq(Steps) /\ Answer(f, o)
            BY <2>2 DEF Answer
      <2>4. c \in Seq(Steps)
            <3>1. Queued(o) \in BOOLEAN /\ "cancelledByUser" \in StepNames \ FrontSteps
                  BY DEF StepNames, FrontSteps, Queued
            <3>2. QED
                  BY <3>1, IfAgenda DEF AgendaInv
      <2> HIDE DEF f, c
      <2>5. QED
            BY <2>1, <2>3, <2>4, AnswerConcat
<1>4. Then(p, rest) /\ UNCHANGED <<scanCallbacks, told, posted>> /\ PhaseKept
      BY DEF Cancel, syncVars, PhaseKept
<1> HIDE DEF p
<1>5. \A q \in scanCallbacks : InQueue(q) => InQueue(q)' \/ Answer(p, q)
      BY <1>2, <1>3 DEF TypeInv, RestInv, Scans
<1>6. QED
      BY <1>1, <1>4, <1>5, CallKeeps

LEMMA CancelUploadScans ==
    ASSUME CardInv, TypeInv, ScanInv, NEW o \in Owned, agenda = <<>>, CancelUpload(o)
    PROVE  ScanInv'
<1> DEFINE p == If(Queued(o), <<Step("complete", o)>>)
           r == << >>
<1>0. o \in Ops /\ o \notin Scans
      BY OwnedAssumption DEF Scans
<1>1. p \in Seq(Steps) /\ Steady(p)
      BY <1>0, EndIfQueued DEF CardInv, AgendaInv
<1>2. \A q \in Ops : InQueue(q) /\ q # o => InQueue(q)'
      BY <1>0, TakeOperationFacts DEF CancelUpload, CardInv
<1>3. Below(r) /\ AnswersBelow(r)
      BY BelowIdle, AnswersIdle
<1>4. Then(p, r) /\ UNCHANGED <<scanCallbacks, told, posted>> /\ PhaseKept
      BY DEF CancelUpload, syncVars, PhaseKept
<1> HIDE DEF p, r
<1>5. \A q \in scanCallbacks : InQueue(q) => InQueue(q)' \/ Answer(p, q)
      BY <1>0, <1>2 DEF TypeInv, RestInv, Scans
<1>6. QED
      BY <1>1, <1>3, <1>4, <1>5, CallKeeps

LEMMA CancelAllScans ==
    ASSUME CardInv, TypeInv, ScanInv, agenda = <<>>, CancelAll(<<>>)
    PROVE  ScanInv'
<1>1. FailCallbacks(scanCallbacks) /\ scanCallbacks' = {} /\ UNCHANGED phase
      BY DEF CancelAll
<1> DEFINE F == scanCallbacks
<1>2. /\ F \in SUBSET scanCallbacks /\ FailCallbacks(F) /\ scanCallbacks' \subseteq scanCallbacks
      /\ \A o \in F \cap syncOpen : Sibling[o] \notin scanCallbacks'
      /\ \A o \in scanCallbacks' : Answered(o)'
      BY <1>1
<1> HIDE DEF F
<1>3. QED
      BY <1>1, <1>2, ScansFail

LEMMA AddSyncScans ==
    ASSUME CardInv, TypeInv, ScanInv, agenda = <<>>, NEW o \in Scans, AddSyncScanOperation(o, Sibling[o]),
           Then(<<>>, <<>>), UNCHANGED posted
    PROVE  ScanInv'
<1> DEFINE l == Sibling[o]
           os == <<o, l>>
           r == << >>
<1>1. o \in Ops /\ l \in Ops /\ phase[o] = "new" /\ phase[l] = "new" /\ Sibling[l] = o /\ l \in Scans
      BY SiblingAssumption DEF Scans, AddSyncScanOperation
<1>2. QueueUp(os, "priority", {o, l}, {}) /\ scanCallbacks' = scanCallbacks \cup {o, l} /\ told' = told
      BY DEF AddSyncScanOperation
<1>3. os \in Seq(Ops) /\ Has(os, o) /\ Has(os, l) /\ ToSet(os) = {o, l}
      <2>1. os \in Seq(Ops) /\ DOMAIN os = {1, 2} /\ os[1] = o /\ os[2] = l
            BY <1>1
      <2> HIDE DEF os
      <2>2. QED
            BY <2>1 DEF Has, ToSet
<1> HIDE DEF os, l
<1>4. (\A p \in Ops : InQueue(p) => InQueue(p)') /\ PhaseKept
      BY <1>2, <1>3, QueueUpKeeps
<1>5. InQueue(o)' /\ InQueue(l)'
      <2>1. priorityOperations' = priorityOperations \o os /\ priorityOperations \in Seq(Ops)
            BY <1>2 DEF QueueUp, If, CardInv, QueuesInv
      <2>2. \A p : Has(priorityOperations', p) <=> Has(priorityOperations, p) \/ Has(os, p)
            BY <1>3, <2>1, ConcatUnique
      <2>3. QED
            BY <1>3, <2>2 DEF InQueue
<1>6. phase'[o] # "new" /\ phase'[l] # "new"
      BY <1>1, <1>2, <1>3 DEF QueueUp
<1>7. \A p : ~Answer(agenda, p) /\ ~TakenNext(agenda', p)
      <2>1. r \in Seq(Steps) /\ Steady(r) /\ DOMAIN r = {} /\ Then(r, r) /\ agenda = r
            BY AgendaNone, EmptyElements DEF AgendaInv
      <2> HIDE DEF r
      <2>2. Steady(agenda')
            BY <2>1, ThenSteady
      <2>3. QED
            BY <2>1, <2>2, SteadyAgenda DEF Answer
<1>8. \A p \in scanCallbacks : p \in Scans /\ p \in Ops /\ Sibling[p] \in Ops /\ InQueue(p)
      BY <1>7, SiblingAssumption DEF ScanInv, WaitInv, Answered, TypeInv, RestInv, Scans
<1>9. WaitInv'
      <2>1. ASSUME NEW p \in scanCallbacks' PROVE phase'[p] # "new" /\ phase'[Sibling[p]] # "new" /\ InQueue(p)'
            <3>1. CASE p \in scanCallbacks
                  BY <1>4, <1>8, <3>1 DEF ScanInv, WaitInv, PhaseKept
            <3>2. CASE p \in {o, l}
                  BY <1>1, <1>5, <1>6, <3>2 DEF l
            <3>3. QED
                  BY <1>2, <3>1, <3>2
      <2>2. QED
            BY <1>7, <2>1 DEF WaitInv, Answered
<1>10. CancelInv(posted)'
      <2>1. \A i \in DOMAIN posted : posted[i].op \in Ops
            <3>1. \A i \in DOMAIN posted : posted[i] \in Handlers
                  BY DEF TypeInv, PostedInv
            <3>2. QED
                  BY <3>1 DEF Handlers
      <2>2. QED
            BY <1>1, <1>2, <1>4, <2>1 DEF ScanInv, CancelInv, PhaseKept
<1>11. FailedInv'
      <2>1. \A p \in Scans : Sibling[p] \in Ops
            BY SiblingAssumption DEF Scans
      <2>2. QED
            BY <1>1, <1>2, <1>4, <2>1 DEF ScanInv, FailedInv, PhaseKept
<1>12. QED
      BY <1>9, <1>10, <1>11 DEF ScanInv

\* A step that touches neither cards nor syncs.
LEMMA QuietScans ==
    ASSUME TypeInv, ScanInv, UNCHANGED <<priorityOperations, operations, phase, agenda, scanCallbacks, told>>, NoNewCancels
    PROVE  ScanInv'
<1>1. \A o \in scanCallbacks' : Answered(o)'
      BY DEF ScanInv, WaitInv, Answered, InQueue
<1>2. PhaseKept /\ scanCallbacks' \subseteq scanCallbacks /\ \A o \in Scans : told'[o] = "failed" => told[o] = "failed"
      BY DEF PhaseKept
<1>3. QED
      BY <1>1, <1>2, ScansKept

LEMMA RequestScans == ASSUME CardInv, TypeInv, ScanInv, NEW o \in Ops, Request(o) PROVE ScanInv'
<1>0. agenda = <<>> /\ Below(<<>>) /\ AnswersBelow(<<>>)
      BY BelowIdle, AnswersIdle DEF Request
<1>a. ASSUME NEW D, QueueNothing \/ Joined(D), Then(<<>>, <<>>), UNCHANGED <<scanCallbacks, told, posted>>
      PROVE  ScanInv'
      BY <1>0, <1>a, AddScans
<1>1. ASSUME NEW mode \in {"priority", "regular"}, Add(o, mode), Then(<<>>, <<>>), UNCHANGED posted PROVE ScanInv'
      <2>1. UNCHANGED <<scanCallbacks, told, posted>>
            BY <1>1 DEF Add, syncVars
      <2>2. QED
            BY <1>1, <1>a, <2>1, AddJoins
<1>2. ASSUME o \in Owned, AddForOwner(o), Then(<<>>, <<>>), UNCHANGED posted PROVE ScanInv'
      <2>1. UNCHANGED <<scanCallbacks, told, posted>>
            BY <1>2 DEF AddForOwner, syncVars
      <2>2. QueueNothing \/ Joined({o})
            <3>1. {} \in SUBSET Ops /\ {} \in SUBSET {o} /\ "priority" \in {"priority", "regular"} /\ o \in {o}
                  OBVIOUS
            <3>2. QueueUp(<<o>>, "priority", {}, {}) => Joined({o})
                  BY <1>2, <3>1, OneJoins
            <3>3. QED
                  BY <1>2, <3>2 DEF AddForOwner
      <2>3. QED
            BY <1>2, <1>a, <2>1, <2>2
<1>3. ASSUME o \in Scans, AddSyncScanOperation(o, Sibling[o]), Then(<<>>, <<>>), UNCHANGED posted PROVE ScanInv'
      BY <1>0, <1>3, AddSyncScans
<1>4. ASSUME CloseSyncSession(o) \/ DiscardKept(o) PROVE ScanInv'
      <2>1. UNCHANGED <<priorityOperations, operations, phase, agenda, scanCallbacks, told>> /\ NoNewCancels
            BY <1>4, PostedSame DEF CloseSyncSession, DiscardKept, queueVars, syncVars
      <2>2. QED
            BY <2>1, QuietScans
<1>5. ASSUME Cancel(o, <<>>) PROVE ScanInv'
      BY <1>0, <1>5, CancelScans
<1>6. ASSUME CancelAll(<<>>) PROVE ScanInv'
      BY <1>0, <1>6, CancelAllScans
<1>7. ASSUME o \in Owned, CancelUpload(o) PROVE ScanInv'
      BY <1>0, <1>7, CancelUploadScans
<1>8. ASSUME NEW newIndex \in 1..Cardinality(Ops), MoveOperation(o, newIndex) PROVE ScanInv'
      <2> DEFINE p == << >>
      <2>1. p \in Seq(Steps) /\ Steady(p) /\ Then(p, p) /\ Below(p) /\ AnswersBelow(p)
            BY <1>0, <1>8, AgendaNone DEF AgendaInv, MoveOperation
      <2> HIDE DEF p
      <2>2. \A q \in Ops : InQueue(q)' <=> InQueue(q)
            BY <1>8, MoveQueues
      <2>3. UNCHANGED <<scanCallbacks, told, posted>> /\ PhaseKept
            BY <1>8 DEF MoveOperation, syncVars, PhaseKept
      <2>4. \A q \in scanCallbacks : InQueue(q) => InQueue(q)' \/ Answer(p, q)
            BY <2>2 DEF TypeInv, RestInv, Scans
      <2>5. QED
            BY <2>1, <2>3, <2>4, CallKeeps
<1>9. ASSUME NEW pause \in BOOLEAN, Pause(pause) PROVE ScanInv'
      <2>1. QueueNothing /\ Then(<<>>, <<>>) /\ UNCHANGED <<scanCallbacks, told, posted>>
            BY <1>9 DEF Pause, QueueNothing, queueVars, ownerVars, syncVars
      <2>2. QED
            BY <1>a, <2>1
<1>10. ASSUME ContinueKept(o) PROVE ScanInv'
      <2>1. open[o] = 0
            BY <1>10 DEF ContinueKept, CardInv, HomeInv
      <2>2. QueueNothing \/ Joined({o})
            BY <1>10, <2>1, ContinueKeptJoins
      <2>3. Then(<<>>, <<>>) /\ UNCHANGED <<scanCallbacks, told, posted>>
            BY <1>10 DEF ContinueKept, syncVars
      <2>4. QED
            BY <1>a, <2>2, <2>3
<1>11. ASSUME AdoptBulkResumes(o) PROVE ScanInv'
      <2>1. open[o] = 0
            BY <1>11 DEF AdoptBulkResumes, CardInv, HomeInv
      <2>2. QueueNothing \/ Joined({o})
            BY <1>11, <2>1, AdoptJoins DEF AdoptBulkResumes
      <2>3. Then(<<>>, <<>>) /\ UNCHANGED <<scanCallbacks, told, posted>>
            BY <1>11 DEF AdoptBulkResumes, syncVars
      <2>4. QED
            BY <1>a, <2>2, <2>3
<1>12. QED
      BY <1>1, <1>2, <1>3, <1>4, <1>5, <1>6, <1>7, <1>8, <1>9, <1>10, <1>11 DEF Request
-----------------------------------------------------------------------------
(***************************************************************************)
(* The steps of the handler, the posted handlers and the session.          *)
(***************************************************************************)
\* The step is done and scans that were waited for are answered, queued, or to be answered below it.
LEMMA TailAnswers ==
    ASSUME CardInv, ScanInv, agenda # <<>>, agenda' = Tail(agenda), scanCallbacks' \subseteq scanCallbacks,
           \A o \in scanCallbacks' : ~(Head(agenda).step \in {"failScan", "deliverScan"} /\ Op = o),
           \A o \in scanCallbacks' : InQueue(o) => InQueue(o)' \/ TakenNext(agenda, o)
    PROVE  \A o \in scanCallbacks' : Answered(o)'
<1>1. agenda \in Seq(Steps) /\ \A o : ~TakenNext(agenda', o)
      BY AgendaTail, SteadyAgenda DEF CardInv, AgendaInv
<1>2. \A o \in scanCallbacks' : Answer(agenda, o) => Answer(agenda', o)
      BY <1>1, AnswerTail DEF Op
<1>3. \A o \in scanCallbacks' : InQueue(o)' \/ Answer(agenda', o)
      BY <1>2 DEF ScanInv, WaitInv, Answered
<1>4. QED
      BY <1>1, <1>3 DEF Answered

\* Owners react; what is to be answered stays.
LEMMA ReactionScans ==
    ASSUME CardInv, TypeInv, ScanInv, agenda # <<>>, Head(agenda).step \notin {"failScan", "deliverScan", "take"},
           NEW r \in Reaction \cup {<<>>}, agenda' = r \o Tail(agenda),
           UNCHANGED <<priorityOperations, operations, phase, scanCallbacks, told, posted>>
    PROVE  ScanInv'
<1>1. QueuesInv /\ AgendaInv(agenda)
      BY DEF CardInv
<1>2. \A o : ~TakenNext(agenda', o)
      BY <1>1, ReactionThen
<1>3. r \in Seq(Steps) /\ Tail(agenda) \in Seq(Steps)
      BY <1>1, ReactionFacts, AgendaTail DEF AgendaInv
<1>4. \A o : Answer(agenda, o) => Answer(agenda', o)
      BY <1>3, AnswersTail, AnswerConcat DEF AnswersBelow
<1>5. \A o \in scanCallbacks' : Answered(o)'
      BY <1>2, <1>4 DEF ScanInv, WaitInv, Answered, InQueue
<1>6. PhaseKept /\ NoNewCancels /\ scanCallbacks' \subseteq scanCallbacks
      /\ \A o \in Scans : told'[o] = "failed" => told[o] = "failed"
      BY PostedSame DEF PhaseKept
<1>7. QED
      BY <1>5, <1>6, ScansKept

LEMMA TakesScans == ASSUME CardInv, TypeInv, ScanInv, Takes PROVE ScanInv'
<1>1. /\ agenda # <<>> /\ Head(agenda).step = "take" /\ agenda' = Tail(agenda)
      /\ UNCHANGED <<phase, scanCallbacks, told, posted>>
      BY DEF Takes, Doing, syncVars
<1>2. \A o \in Ops : InQueue(o) => InQueue(o)' \/ TakenNext(agenda, o)
      <2>1. /\ Head(agenda) = agenda[1] /\ 1 \in DOMAIN agenda
            BY <1>1, AgendaTail DEF CardInv
      <2>2. TakenNext(agenda, Op)
            BY <1>1, <2>1 DEF TakenNext, Op
      <2>3. CardInv'
            BY TakesCards
      <2>4. ASSUME NEW o \in Ops, InQueue(o), ~InQueue(o)' PROVE EndOf(agenda', o)
            BY <2>3, <2>4 DEF CardInv, CardsInv, Takes
      <2>5. \A o : EndOf(agenda', o) => EndOf(agenda, o)
            BY <1>1, AgendaTail DEF CardInv
      <2>6. QED
            BY <2>4, <2>5 DEF CardInv, CardsInv
<1>3. \A o \in scanCallbacks' : Answered(o)'
      <2>1. \A o \in scanCallbacks' : ~(Head(agenda).step \in {"failScan", "deliverScan"} /\ Op = o)
            BY <1>1
      <2>2. scanCallbacks' \subseteq scanCallbacks
            BY <1>1
      <2>3. \A o \in scanCallbacks' : InQueue(o) => InQueue(o)' \/ TakenNext(agenda, o)
            BY <1>2, <2>2 DEF TypeInv, RestInv, Scans
      <2>4. QED
            BY <1>1, <2>1, <2>2, <2>3, TailAnswers
<1>4. PhaseKept /\ NoNewCancels /\ scanCallbacks' \subseteq scanCallbacks
      /\ \A o \in Scans : told'[o] = "failed" => told[o] = "failed"
      BY <1>1, PostedSame DEF PhaseKept
<1>5. QED
      BY <1>3, <1>4, ScansKept

LEMMA FailSyncScanScans == ASSUME CardInv, TypeInv, ScanInv, FailSyncScan PROVE ScanInv'
<1> DEFINE F == {Op} \cap scanCallbacks
<1>1. /\ agenda # <<>> /\ agenda' = Tail(agenda)
      /\ UNCHANGED <<priorityOperations, operations, phase>>
      /\ FailCallbacks(F) /\ scanCallbacks' = (scanCallbacks \ {Op}) \ SiblingsOf(F)
      BY DEF FailSyncScan, Doing, queueVars
<1>2. /\ scanCallbacks' \subseteq scanCallbacks
      /\ \A o \in scanCallbacks' : ~(Head(agenda).step \in {"failScan", "deliverScan"} /\ Op = o)
      /\ \A o \in scanCallbacks' : InQueue(o) => InQueue(o)' \/ TakenNext(agenda, o)
      BY <1>1 DEF InQueue
<1>3. \A o \in scanCallbacks' : Answered(o)'
      BY <1>1, <1>2, TailAnswers
<1>4. F \in SUBSET scanCallbacks /\ \A o \in F \cap syncOpen : Sibling[o] \notin scanCallbacks'
      BY <1>1 DEF SiblingsOf
<1> HIDE DEF F
<1>5. QED
      BY <1>1, <1>2, <1>3, <1>4, ScansFail

LEMMA DeliverSyncScanScans == ASSUME CardInv, TypeInv, ScanInv, DeliverSyncScan PROVE ScanInv'
<1>1. /\ agenda # <<>> /\ agenda' = Tail(agenda)
      /\ UNCHANGED <<priorityOperations, operations, phase, posted>>
      /\ scanCallbacks' = scanCallbacks \ {Op}
      BY DEF DeliverSyncScan, Doing, queueVars
<1>2. /\ scanCallbacks' \subseteq scanCallbacks
      /\ \A o \in scanCallbacks' : ~(Head(agenda).step \in {"failScan", "deliverScan"} /\ Op = o)
      /\ \A o \in scanCallbacks' : InQueue(o) => InQueue(o)' \/ TakenNext(agenda, o)
      BY <1>1 DEF InQueue
<1>3. \A o \in scanCallbacks' : Answered(o)'
      BY <1>1, <1>2, TailAnswers
<1>4. \A o \in Scans : told'[o] = "failed" => told[o] = "failed"
      BY DEF DeliverSyncScan, TypeInv, RestInv, Scans
<1>5. PhaseKept /\ NoNewCancels
      BY <1>1, PostedSame DEF PhaseKept
<1>6. QED
      BY <1>2, <1>3, <1>4, <1>5, ScansKept

LEMMA WakesScans == ASSUME CardInv, TypeInv, ScanInv, Wakes PROVE ScanInv'
<1>1. /\ agenda # <<>> /\ agenda' = Tail(agenda) /\ Head(agenda).step = "wake" /\ ScheduleOperationQueueWork
      /\ UNCHANGED <<priorityOperations, operations, phase, scanCallbacks, told>>
      BY DEF Wakes, Doing, queueVars, syncVars
<1>2. /\ scanCallbacks' \subseteq scanCallbacks
      /\ \A o \in scanCallbacks' : ~(Head(agenda).step \in {"failScan", "deliverScan"} /\ Op = o)
      /\ \A o \in scanCallbacks' : InQueue(o) => InQueue(o)' \/ TakenNext(agenda, o)
      BY <1>1 DEF InQueue
<1>3. \A o \in scanCallbacks' : Answered(o)'
      BY <1>1, <1>2, TailAnswers
<1>4. PhaseKept /\ NoNewCancels /\ \A o \in Scans : told'[o] = "failed" => told[o] = "failed"
      BY <1>1, PostedWork DEF PhaseKept
<1>5. QED
      BY <1>2, <1>3, <1>4, ScansKept

LEMMA OwnerAddsScans == ASSUME CardInv, TypeInv, ScanInv, OwnerAdds PROVE ScanInv'
<1>1. /\ agenda # <<>> /\ Head(agenda).step = "addForOwner" /\ AddForOwner(Op) /\ Then(<<>>, Tail(agenda))
      /\ UNCHANGED <<scanCallbacks, told, posted>>
      BY DEF OwnerAdds, AddForOwner, Doing, syncVars
<1>2. Below(Tail(agenda)) /\ AnswersBelow(Tail(agenda))
      BY <1>1, BelowStep, AnswersTail DEF Ends
<1>3. Op \in Owned /\ Op \in Ops
      <2>1. Head(agenda) = agenda[1] /\ 1 \in DOMAIN agenda
            BY <1>1, AgendaTail DEF CardInv
      <2>2. QED
            BY <1>1, <2>1, OwnedAssumption DEF CardInv, FrontInv, Op
<1>4. QueueNothing \/ Joined({Op})
      <2> DEFINE o == Op
      <2>1. /\ {} \in SUBSET Ops /\ {} \in SUBSET {o} /\ "priority" \in {"priority", "regular"} /\ o \in {o}
            /\ o \in Ops /\ o \in Owned
            BY <1>3
      <2>2. QueueUp(<<o>>, "priority", {}, {}) \/ QueueNothing
            BY <1>1 DEF AddForOwner
      <2> HIDE DEF o
      <2>3. QueueNothing \/ Joined({o})
            BY <2>1, <2>2, OneJoins
      <2>4. QED
            BY <2>3 DEF o
<1>5. QED
      BY <1>1, <1>2, <1>4, AddScans

LEMMA HandlerStepScans == ASSUME CardInv, TypeInv, ScanInv, HandlerStep PROVE ScanInv'
<1>1. CASE DeliversProgress
      <2>1. PICK r \in Reaction \cup {<<>>} : agenda' = r \o Tail(agenda)
            BY <1>1 DEF DeliversProgress
      <2>2. /\ agenda # <<>> /\ Head(agenda).step = "progress"
            /\ UNCHANGED <<priorityOperations, operations, phase, scanCallbacks, told, posted>>
            BY <1>1 DEF DeliversProgress, Doing, queueVars, syncVars
      <2>3. QED
            BY <2>1, <2>2, ReactionScans
<1>2. CASE CompleteOperation
      <2>1. PICK r \in Reaction \cup {<<>>} : agenda' = r \o Tail(agenda)
            BY <1>2 DEF CompleteOperation
      <2>2. /\ agenda # <<>> /\ Head(agenda).step \in {"complete", "cancelledByUser"}
            /\ UNCHANGED <<priorityOperations, operations, phase, scanCallbacks, told, posted>>
            BY <1>2 DEF CompleteOperation, Doing, syncVars
      <2>3. QED
            BY <2>1, <2>2, ReactionScans
<1>3. CASE OwnerCancels
      <2>1. agenda # <<>> /\ Head(agenda).step = "cancel" /\ Cancel(Op, Tail(agenda))
            BY <1>3 DEF OwnerCancels, Doing
      <2>2. Below(Tail(agenda)) /\ AnswersBelow(Tail(agenda))
            BY <2>1, BelowStep, AnswersTail DEF Ends
      <2>3. Op \in Ops
            <3>1. Head(agenda) \in Steps
                  BY <2>1, AgendaTail DEF CardInv
            <3>2. QED
                  BY <3>1 DEF Op, Steps
      <2>4. QED
            BY <2>1, <2>2, <2>3, CancelScans
<1>4. QED
      BY <1>1, <1>2, <1>3, TakesScans, FailSyncScanScans, DeliverSyncScanScans, WakesScans, OwnerAddsScans
         DEF HandlerStep

\* A scan that a cycle ended is answered after it was taken out.
LEMMA AfterEndAnswers ==
    ASSUME NEW o \in Scans, NEW index \in Nat, NEW name \in {"priority", "regular"}, NEW ended, NEW p \in Seq(Steps),
           NEW a, a = AfterEnd(index, name, o, ended, p)
    PROVE  Answer(a, o)
<1> DEFINE T == TakeStep(index, name, o)
           t == << T >>
           nm == IF ended = "failed" THEN "failScan" ELSE "deliverScan"
           S == << Step(nm, o) >>
           e == <<Step("complete", o), WakeStep>>
<1>0. o \in Ops
      BY DEF Scans
<1>1. t \in Seq(Steps)
      BY <1>0 DEF TakeStep, Steps, StepNames
<1>2. nm \in StepNames /\ nm \in {"failScan", "deliverScan"}
      BY DEF StepNames
<1>3. a = ((t \o p) \o S) \o e
      BY DEF AfterEnd, If
<1> HIDE DEF nm
<1>4. S \in Seq(Steps) /\ Answer(S, o)
      <2>1. Step(nm, o) \in Steps /\ Step(nm, o).step = nm /\ Step(nm, o).op = o
            BY <1>0, <1>2, StepType
      <2>2. QED
            BY <1>2, <2>1 DEF Answer
<1>5. e \in Seq(Steps)
      <2>1. Step("complete", o) \in Steps
            BY <1>0, StepType DEF StepNames
      <2>2. QED
            BY <2>1, WakeType
<1> HIDE DEF t, T, S, e
<1> DEFINE x == t \o p
<1>6. x \in Seq(Steps)
      BY <1>1
<1> HIDE DEF x
<1> DEFINE y == x \o S
<1>7. y \in Seq(Steps) /\ Answer(y, o)
      BY <1>4, <1>6, AnswerConcat, ConcatElements
<1> HIDE DEF y
<1>8. Answer(y \o e, o)
      BY <1>5, <1>7, AnswerConcat
<1>9. QED
      BY <1>3, <1>8 DEF x, y

LEMMA WorkScans == ASSUME CardInv, TypeInv, ScanInv, DoOperationQueueWork PROVE ScanInv'
<1>1. /\ agenda = <<>> /\ posted # <<>> /\ posted' = Tail(posted)
      /\ UNCHANGED <<priorityOperations, operations, scanCallbacks, told>>
      BY DEF DoOperationQueueWork, syncVars
<1>2. NoNewCancels
      BY <1>1, PostedTaken
<1>3. CASE ~(session = "started" /\ CurrentQueue # "none")
      <2>1. UNCHANGED <<phase, agenda>>
            BY <1>3 DEF DoOperationQueueWork
      <2>2. QED
            BY <1>1, <1>2, <2>1, QuietScans
<1>4. CASE session = "started" /\ CurrentQueue # "none"
      <2> DEFINE name == CurrentQueue
      <2>1. name \in {"priority", "regular"} /\ WorkQueue(name)
            BY <1>4 DEF DoOperationQueueWork, CurrentQueue
      <2> HIDE DEF name
      <2>2. PhaseKept
            BY <2>1, WorkQueueSteps DEF PhaseKept
      <2>3. \A o \in scanCallbacks : InQueue(o)
            <3>1. \A o : ~Answer(<< >>, o)
                  <4>1. DOMAIN << >> = {}
                        BY EmptyElements
                  <4>2. QED
                        BY <4>1 DEF Answer
            <3>2. QED
                  BY <1>1, <3>1 DEF ScanInv, WaitInv, Answered
      <2>4. \A o \in scanCallbacks : TakenNext(agenda', o) => Answer(agenda', o)
            <3>1. CASE Steady(agenda')
                  BY <3>1, SteadyAgenda
            <3>2. ASSUME NEW n \in DOMAIN Elements(name), NEW ended, NEW p \in Seq(Steps), AgendaInv(p), Steady(p),
                         \A o : ~EndOf(p, o), agenda' = AfterEnd(n, name, Elements(name)[n], ended, p),
                         NEW o \in scanCallbacks, TakenNext(agenda', o)
                  PROVE  Answer(agenda', o)
                  <4> DEFINE l == Elements(name)[n]
                  <4>1. n \in Nat /\ l \in Ops
                        BY <2>1 DEF Elements, CardInv, QueuesInv
                  <4>2. agenda' = AfterEnd(n, name, l, ended, p)
                        BY <3>2
                  <4> HIDE DEF l
                  <4>3. AgendaInv(agenda') /\ 1 \in DOMAIN agenda' /\ agenda'[1] = TakeStep(n, name, l)
                        BY <2>1, <3>2, <4>1, <4>2, AfterEndFacts
                  <4>4. l = o
                        <5>1. \A i \in DOMAIN agenda' : agenda'[i].step = "take" => i = 1
                              BY <4>3 DEF AgendaInv, FrontSteps
                        <5>2. QED
                              BY <3>2, <4>3, <5>1 DEF TakenNext, TakeStep
                  <4>5. l \in Scans
                        BY <4>4 DEF TypeInv, RestInv
                  <4>6. Answer(agenda', l)
                        BY <2>1, <4>1, <4>2, <4>5, AfterEndAnswers
                  <4>7. QED
                        BY <4>4, <4>6
            <3>3. QED
                  BY <2>1, <3>1, <3>2, WorkQueueSteps
      <2>5. \A o \in scanCallbacks' : Answered(o)'
            BY <1>1, <2>3, <2>4 DEF Answered, InQueue
      <2>6. scanCallbacks' \subseteq scanCallbacks /\ \A o \in Scans : told'[o] = "failed" => told[o] = "failed"
            BY <1>1
      <2>7. QED
            BY <1>2, <2>2, <2>5, <2>6, ScansKept
<1>5. QED
      BY <1>3, <1>4

LEMMA CancelsSiblingScanScans == ASSUME CardInv, TypeInv, ScanInv, CancelsSiblingScan PROVE ScanInv'
<1> DEFINE o == Head(posted).op
           p == If(Queued(o), <<Step("complete", o)>>)
           r == << >>
<1>1. o \in Ops
      BY CancelsSiblingScanTypes
<1>2. /\ agenda = r /\ posted # <<>> /\ posted' = Tail(posted) /\ Head(posted).handler = "cancelScan"
      /\ priorityOperations' = RemoveFirst(priorityOperations, o)
      /\ operations' = RemoveFirst(operations, o)
      /\ Then(p, r)
      /\ UNCHANGED <<phase, scanCallbacks, told>>
      BY DEF CancelsSiblingScan, syncVars
<1>3. Below(r) /\ AnswersBelow(r)
      BY <1>2, BelowIdle, AnswersIdle
<1>4. o \notin scanCallbacks
      <2>1. 1 \in DOMAIN posted /\ Head(posted) = posted[1]
            <3>1. posted \in Seq(Handlers)
                  BY DEF TypeInv, PostedInv
            <3>2. QED
                  BY <1>2, <3>1
      <2>2. QED
            BY <1>2, <2>1 DEF ScanInv, CancelInv
<1> HIDE DEF o
<1>5. p \in Seq(Steps) /\ Steady(p)
      BY <1>1, EndIfQueued DEF CardInv, AgendaInv
<1>6. \A q \in Ops : InQueue(q) /\ q # o => InQueue(q)'
      BY <1>1, <1>2, TakeOperationFacts DEF CardInv
<1> HIDE DEF p, r
<1>7. scanCallbacks' \subseteq scanCallbacks /\ \A q \in scanCallbacks' : InQueue(q) => InQueue(q)' \/ Answer(p, q)
      BY <1>2, <1>4, <1>6 DEF TypeInv, RestInv, Scans
<1>8. \A q \in scanCallbacks' : Answered(q)'
      BY <1>2, <1>3, <1>5, <1>7, CallAnswers
<1>9. NoNewCancels /\ PhaseKept /\ \A q \in Scans : told'[q] = "failed" => told[q] = "failed"
      BY <1>2, PostedTaken DEF PhaseKept
<1>10. QED
      BY <1>7, <1>8, <1>9, ScansKept

\* The session ends: every sync that waits hears of it.
LEMMA StopRunsScans == ASSUME CardInv, TypeInv, ScanInv, StopRuns PROVE ScanInv'
<1>1. /\ scanCallbacks' = {} /\ posted' = <<>> /\ UNCHANGED phase
      /\ told' = [o \in Ops |-> IF o \in scanCallbacks \cap syncOpen THEN "failed" ELSE told[o]]
      BY DEF StopRuns
<1>2. WaitInv'
      BY <1>1 DEF WaitInv
<1>3. CancelInv(posted)'
      <2>1. DOMAIN << >> = {}
            BY EmptyElements
      <2>2. DOMAIN posted' = {}
            BY <1>1, <2>1
      <2>3. QED
            BY <2>2 DEF CancelInv
<1>4. FailedInv'
      <2>1. \A o \in Scans : told'[o] = "failed" => told[o] = "failed" \/ o \in scanCallbacks
            BY <1>1 DEF Scans
      <2>2. QED
            BY <1>1, <2>1 DEF ScanInv, FailedInv, WaitInv
<1>5. QED
      BY <1>2, <1>3, <1>4 DEF ScanInv

LEMMA SessionScans ==
    ASSUME TypeInv, ScanInv, \/ WakeOperationQueue \/ Start \/ StopCalled \/ Reconnect \/ ChannelEnds
                             \/ (\E o \in Ops : TransferWakes(o) \/ Discards(o))
    PROVE  ScanInv'
<1>1. UNCHANGED <<priorityOperations, operations, phase, agenda, scanCallbacks, told>>
      BY DEF WakeOperationQueue, Start, StopCalled, Reconnect, ChannelEnds, TransferWakes, Discards, Discard, queueVars,
             syncVars
<1>2. NoNewCancels
      <2>1. CASE WakeOperationQueue \/ Start
            BY <2>1, PostedWork DEF WakeOperationQueue, Start
      <2>2. CASE \/ StopCalled \/ Reconnect \/ ChannelEnds \/ (\E o \in Ops : TransferWakes(o) \/ Discards(o))
            BY <2>2, PostedSame DEF StopCalled, Reconnect, ChannelEnds, TransferWakes, Discards, Discard
      <2>3. QED
            BY <2>1, <2>2
<1>3. QED
      BY <1>1, <1>2, QuietScans
-----------------------------------------------------------------------------
LEMMA InitScans == Init => ScanInv
<1> SUFFICES ASSUME Init PROVE ScanInv
    OBVIOUS
<1>1. scanCallbacks = {} /\ posted = << >> /\ \A o \in Scans : told[o] # "failed"
      BY DEF Init, Scans
<1>2. DOMAIN << >> = {}
      BY EmptyElements
<1>3. DOMAIN posted = {}
      BY <1>1, <1>2
<1>4. QED
      BY <1>1, <1>3 DEF ScanInv, WaitInv, CancelInv, FailedInv

LEMMA NextScans == IInv /\ ScanInv /\ [Next]_vars => ScanInv'
<1> SUFFICES ASSUME IInv, ScanInv, [Next]_vars PROVE ScanInv'
    OBVIOUS
<1>0. CardInv /\ TypeInv
      BY DEF IInv
<1>1. CASE HandlerStep
      BY <1>0, <1>1, HandlerStepScans
<1>2. CASE DoOperationQueueWork
      BY <1>0, <1>2, WorkScans
<1>3. CASE CancelsSiblingScan
      BY <1>0, <1>3, CancelsSiblingScanScans
<1>4. ASSUME NEW o \in Ops, Request(o) PROVE ScanInv'
      BY <1>0, <1>4, RequestScans
<1>5. CASE StopRuns
      BY <1>0, <1>5, StopRunsScans
<1>6. CASE \/ WakeOperationQueue \/ Start \/ StopCalled \/ Reconnect \/ ChannelEnds
           \/ (\E o \in Ops : TransferWakes(o) \/ Discards(o))
      BY <1>0, <1>6, SessionScans
<1>7. CASE UNCHANGED vars
      <2>1. UNCHANGED <<priorityOperations, operations, phase, agenda, scanCallbacks, told>> /\ NoNewCancels
            BY <1>7, PostedSame DEF vars, queueVars, syncVars
      <2>2. QED
            BY <1>0, <2>1, QuietScans
<1>8. QED
      BY <1>1, <1>2, <1>3, <1>4, <1>5, <1>6, <1>7 DEF Next, PostedHandler

LEMMA AlwaysScans == Spec => [](IInv /\ ScanInv)
BY AlwaysIInv, InitScans, NextScans, PTL DEF Spec

\* No path that takes a scan out of its queue (its end, cancel, cancelAll, cancelSiblingScan, whatever owners do in
\* between) leaves a sync waiting without an answer to come.
THEOREM ScansGetAnswers == Spec => []ScansAnswered
<1>1. IInv /\ ScanInv => ScansAnswered
      <2> SUFFICES ASSUME IInv, ScanInv, NEW o \in scanCallbacks PROVE Queued(o) \/ Answer(agenda, o)
          BY DEF ScansAnswered, Answer
      <2>1. InQueue(o) \/ Answer(agenda, o)
            BY DEF ScanInv, WaitInv, Answered
      <2>2. QED
            BY <2>1, QueuedIs DEF IInv, CardInv
<1>2. QED
      BY <1>1, AlwaysScans, PTL

\* Once one side of a sync failed, the other side's scan is never announced as done, although its cancel is only posted.
THEOREM FailureIsFinal == Spec => FailedSyncStaysFailed
<1> DEFINE A == \A o \in Scans : told[Sibling[o]] = "failed" /\ told'[o] = "done" => told[o] = "done"
<1>1. IInv /\ ScanInv /\ [Next]_vars => [A]_vars
      <2> SUFFICES ASSUME IInv, ScanInv, Next, NEW o \in Scans, told[Sibling[o]] = "failed", told'[o] = "done",
                          told[o] # "done"
                   PROVE  FALSE
          BY DEF vars
      <2>1. o \in Ops /\ Sibling[o] \in Scans /\ Sibling[Sibling[o]] = o
            BY SiblingAssumption DEF Scans
      <2>2. o \notin scanCallbacks
            BY <2>1 DEF ScanInv, FailedInv
      <2>3. told \in [Ops -> {"nothing", "done", "failed"}]
            BY DEF IInv, TypeInv, RestInv
      <2>4. ~StopRuns
            BY <2>1 DEF StopRuns
      <2>5. \A F : ~FailCallbacks(F)
            BY <2>1 DEF FailCallbacks
      <2>6. ~DeliverSyncScan
            BY <2>1, <2>2, <2>3 DEF DeliverSyncScan
      <2>7. ~HandlerStep
            BY <2>5, <2>6 DEF HandlerStep, Takes, DeliversProgress, FailSyncScan, CompleteOperation, OwnerAdds,
                              OwnerCancels, AddForOwner, Cancel, Wakes, syncVars
      <2>8. ASSUME NEW p \in Ops, Request(p) PROVE FALSE
            BY <2>5, <2>8 DEF Request, Add, AddForOwner, AddSyncScanOperation, CloseSyncSession, Cancel, CancelAll,
                              CancelUpload, MoveOperation, Pause, AdoptBulkResumes, ContinueKept, DiscardKept, syncVars
      <2>9. QED
            BY <2>4, <2>7, <2>8 DEF Next, PostedHandler, DoOperationQueueWork, CancelsSiblingScan, WakeOperationQueue,
                   TransferWakes, Discards, Discard, Start, StopCalled, Reconnect, ChannelEnds, syncVars
<1>2. QED
      BY <1>1, AlwaysScans, PTL DEF Spec, FailedSyncStaysFailed
=============================================================================
