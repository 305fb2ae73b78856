------------------------------ MODULE TrackerState ------------------------------
(***************************************************************************)
(* The bookkeeping of the file tracker, tracking_state.hpp: what the       *)
(* server is known to have (KnownServerContent), the uploads on their way  *)
(* (PendingUploads) and the order of the server operations                 *)
(* (ServerOperationOrder), each as operators on its value.                 *)
(*                                                                         *)
(* A path is a sequence of names and a name a positive number, so that     *)
(* paths sort as their text does.  Content is a number: nothing, a         *)
(* directory or the version of a file, which stands for its modification   *)
(* time and size.                                                          *)
(***************************************************************************)
EXTENDS Naturals, Sequences, FiniteSets, SequencesExt

Gone == 0
Dir == 1
IsFile(content) == content > Dir

\* The path that is not there, std::nullopt.
Nowhere == <<0>>

IsWithin(path, directory) == IsPrefix(directory, path)
IsBelow(path, directory) == IsStrictPrefix(directory, path)
Overlap(p, q) == IsWithin(p, q) \/ IsWithin(q, p)

\* Where path is once from moved to to; a path outside from stays.
MovedPath(path, from, to) ==
  IF IsWithin(path, from) THEN to \o SubSeq(path, Len(from) + 1, Len(path)) ELSE path

SortsBefore(p, q) ==
  \/ IsStrictPrefix(p, q)
  \/ \E i \in 1..Len(p) : /\ i <= Len(q)
                          /\ p[i] < q[i]
                          /\ \A j \in 1..(i - 1) : p[j] = q[j]

SortsAfter(p, q) == SortsBefore(q, p)

\* A function with the values of f where it has some, of g elsewhere.
Over(f, g) == [x \in DOMAIN f \cup DOMAIN g |-> IF x \in DOMAIN f THEN f[x] ELSE g[x]]
OneValue(x, value) == [y \in {x} |-> value]

\* The sequence of a finite set of numbers in ascending order, as the one member of a set.
Ascending(S) ==
  {s \in [1..Cardinality(S) -> S] : Range(s) = S /\ \A i, j \in DOMAIN s : i < j => s[i] < s[j]}

(***************************************************************************)
(* KnownServerContent: the known files with their states, the known        *)
(* directories, the directories kept though they left locally, and the     *)
(* local states in which files were sent.                                  *)
(***************************************************************************)
NothingKnown == [files |-> <<>>, dirs |-> {}, kept |-> {}, sent |-> <<>>]

Without(f, paths) == Restrict(f, DOMAIN f \ paths)

RememberFile_Once(known, path, state) ==
  IF path \in DOMAIN known.files THEN known
  ELSE [known EXCEPT !.files = Over(OneValue(path, state), @), !.sent = Without(@, {path})]
RememberFile(known, path, state) ==
  [known EXCEPT !.files = Over(OneValue(path, state), @), !.sent = Without(@, {path})]

RememberSent(known, path, state) ==
  IF path \in DOMAIN known.files THEN [known EXCEPT !.sent = Over(OneValue(path, state), @)] ELSE known

SentFrom(known, path) == IF path \in DOMAIN known.sent THEN known.sent[path] ELSE Gone

\* Nothing known is Gone, the expected state of a file nobody sent.
FileState(known, path) == IF path \in DOMAIN known.files THEN known.files[path] ELSE Gone

Paths(known) == DOMAIN known.files \cup known.dirs

HasBelow(known, path) == \E p \in Paths(known) : IsBelow(p, path)

Has(known, path) == path \in Paths(known) \/ HasBelow(known, path)

\* What is at and below the paths is not known any more.
ForgetAll(known, paths) ==
  LET within(S) == {p \in S : \E path \in paths : IsWithin(p, path)}
  IN [files |-> Without(known.files, within(DOMAIN known.files)),
      dirs  |-> known.dirs \ within(known.dirs),
      kept  |-> known.kept \ within(known.kept),
      sent  |-> Without(known.sent, within(DOMAIN known.sent))]

Forget_KeepsSent(known, path) ==
  LET within(S) == {p \in S : IsWithin(p, path)}
  IN [known EXCEPT !.files = Without(@, within(DOMAIN @)), !.dirs = @ \ within(@), !.kept = @ \ within(@)]
Forget(known, path) == ForgetAll(known, {path})

MoveInSet(S, from, to) == {MovedPath(p, from, to) : p \in S}

\* What moves replaces what was there.
MoveIn(f, from, to) ==
  LET moving == {p \in DOMAIN f : IsWithin(p, from)}
  IN Over([q \in {MovedPath(p, from, to) : p \in moving} |->
             f[CHOOSE p \in moving : MovedPath(p, from, to) = q]],
          Without(f, moving))

MoveKnown(known, from, to) ==
  [files |-> MoveIn(known.files, from, to), dirs |-> MoveInSet(known.dirs, from, to),
   kept |-> MoveInSet(known.kept, from, to), sent |-> MoveIn(known.sent, from, to)]

\* The kept directories above path with nothing known below any more, closest first.  The walk up
\* ends at the first directory that still has something.
EmptiedKeptAbove(known, path) ==
  LET above == {SubSeq(path, 1, n) : n \in 1..(Len(path) - 1)}
  IN SetToSortSeq({d \in above \cap known.kept : ~HasBelow(known, d)}, SortsAfter)

HoldsAllBelow(known, copy, original) ==
  LET files == {p \in DOMAIN known.files : IsBelow(p, original)}
      dirs == {p \in known.dirs : IsBelow(p, original)}
  IN /\ files \cup dirs # {}
     /\ \A p \in files : FileState(known, MovedPath(p, original, copy)) = known.files[p]
     /\ \A p \in dirs : MovedPath(p, original, copy) \in known.dirs

DeepestFirst(known, path) == SetToSortSeq({p \in Paths(known) : IsWithin(p, path)}, SortsAfter)

(***************************************************************************)
(* PendingUploads, by the path each upload started with.                   *)
(***************************************************************************)
NewPending(dir) ==
  [dir |-> dir, again |-> FALSE, gone |-> FALSE, below |-> <<>>, movedTo |-> Nowhere,
   copyAt |-> Nowhere, sentTo |-> Nowhere, sentDir |-> FALSE, partialKept |-> FALSE]

CurrentPath(pending, start) ==
  IF pending[start].movedTo # Nowhere THEN pending[start].movedTo ELSE start

StartsAt(pending, path) == {s \in DOMAIN pending : CurrentPath(pending, s) = path}
IsPending(pending, path) == StartsAt(pending, path) # {}

\* The first pending upload, in the order of its map, among those that starts names.
First(starts) == CHOOSE s \in starts : \A other \in starts : s = other \/ SortsBefore(s, other)

DirectoriesAbove(pending, path) ==
  {s \in DOMAIN pending : pending[s].dir /\ IsWithin(path, CurrentPath(pending, s))}

Covers(pending, path) == IsPending(pending, path) \/ DirectoriesAbove(pending, path) # {}

Starts(pending, path) == ~Covers(pending, path)

StartPending_Once(pending, change) ==
  IF Covers(pending, change.path) THEN pending ELSE Over(pending, OneValue(change.path, NewPending(change.dir)))
\* start(): the map keeps the entry of an upload that started at the path and moved away.
StartPending(pending, change) ==
  IF IsPending(pending, change.path)
  THEN [pending EXCEPT ![First(StartsAt(pending, change.path))] =
          [@ EXCEPT !.again = TRUE, !.gone = FALSE, !.dir = change.dir]]
  ELSE IF DirectoriesAbove(pending, change.path) # {}
  THEN [pending EXCEPT ![First(DirectoriesAbove(pending, change.path))].below =
          IF Contains(@, change) THEN @ ELSE Append(@, change)]
  ELSE Over(pending, OneValue(change.path, NewPending(change.dir)))

AtStart(pending, start, fields) ==
  IF start \in DOMAIN pending THEN [pending EXCEPT ![start] = Over(fields, @)] ELSE pending

ChangesHandled(pending, start) == AtStart(pending, start, [again |-> FALSE, below |-> <<>>])

Sent(pending, start, destination, dir) ==
  AtStart(pending, start, [sentTo |-> destination, sentDir |-> dir])

RemoveRemoteWhenDone(pending, path) ==
  IF IsPending(pending, path)
  THEN AtStart(pending, First(StartsAt(pending, path)), [gone |-> TRUE, again |-> FALSE])
  ELSE pending

MoveChanges(changes, from, to) ==
  [i \in DOMAIN changes |-> [path |-> MovedPath(changes[i].path, from, to), dir |-> changes[i].dir]]
MoveRecord(record, from, to) ==
  [record EXCEPT !.movedTo = to, !.below = MoveChanges(@, from, to)]

MoveWhenDone(pending, from, to) ==
  IF IsPending(pending, from)
  THEN [pending EXCEPT ![First(StartsAt(pending, from))] = MoveRecord(@, from, to)]
  ELSE pending

MoveBelow_PathsStay(pending, from, to, serverCopiesFollow) == pending
MoveBelow(pending, from, to, serverCopiesFollow) ==
  LET moved(path) == IF path = from THEN path ELSE MovedPath(path, from, to)
      copy(s) == IF pending[s].copyAt # Nowhere THEN pending[s].copyAt ELSE s
  IN [s \in DOMAIN pending |->
        [pending[s] EXCEPT
           !.movedTo = IF IsBelow(CurrentPath(pending, s), from)
                       THEN moved(CurrentPath(pending, s)) ELSE @,
           !.copyAt = IF serverCopiesFollow /\ IsBelow(copy(s), from) THEN moved(copy(s)) ELSE @,
           !.below = [i \in DOMAIN @ |-> [path |-> moved(@[i].path), dir |-> @[i].dir]]]]

SentFileTo(pending, path) ==
  IF IsPending(pending, path) /\ ~pending[First(StartsAt(pending, path))].sentDir
  THEN pending[First(StartsAt(pending, path))].sentTo
  ELSE Nowhere

KeepsPartial(pending, path) ==
  IF IsPending(pending, path)
  THEN AtStart(pending, First(StartsAt(pending, path)), [partialKept |-> TRUE])
  ELSE pending

MovedAway(pending, start) == start \in DOMAIN pending /\ pending[start].movedTo # Nowhere

Finished(pending, start) == IF start \in DOMAIN pending THEN pending[start] ELSE NewPending(FALSE)

(***************************************************************************)
(* ServerOperationOrder: the operations in the order they were decided,    *)
(* each with its ticket, its remote paths and its phase.  A ticket is the  *)
(* next number above those in use.                                         *)
(***************************************************************************)
PathsOverlap(some, others) == \E p \in some, q \in others : Overlap(p, q)

NextTicket(order) == IF order = <<>> THEN 1 ELSE Last(order).ticket + 1

Waits_SamePath(order, paths) == \E i \in DOMAIN order : order[i].paths \cap paths # {}
Waits(order, paths) == \E i \in DOMAIN order : PathsOverlap(order[i].paths, paths)

HasTicket(order, ticket) == \E i \in DOMAIN order : order[i].ticket = ticket
PlaceOf(order, ticket) == CHOOSE i \in DOMAIN order : order[i].ticket = ticket

\* The operations waiting for a turn, dropped ones included.
Unstarted == {"waiting", "dropped"}

\* The operation waits for nothing any more once one with the paths left is gone.
MayStart_SamePath(order, i, left) ==
  /\ order[i].phase \in Unstarted
  /\ order[i].paths \cap left # {}
  /\ \A j \in 1..(i - 1) : ~PathsOverlap(order[j].paths, order[i].paths)
MayStart_First(order, i, left) ==
  /\ i = 1 /\ order[i].phase \in Unstarted /\ PathsOverlap(order[i].paths, left)
MayStart(order, i, left) ==
  /\ order[i].phase \in Unstarted
  /\ PathsOverlap(order[i].paths, left)
  /\ \A j \in 1..(i - 1) : ~PathsOverlap(order[j].paths, order[i].paths)

\* An operation that gets its turn: one that was dropped leaves instead, an upload is checked first,
\* any other is handed on at once.
Turn(phase, op) ==
  IF phase = "dropped" THEN "ending" ELSE IF op.kind = "upload" THEN "starting" ELSE "sent"

\* What is left of the order once ticket is gone, and the places in it of what may start then.
RestOf(order, ticket) == RemoveAt(order, PlaceOf(order, ticket))
StartsAfter(order, ticket) ==
  {i \in DOMAIN RestOf(order, ticket) :
     MayStart(RestOf(order, ticket), i, order[PlaceOf(order, ticket)].paths)}

\* The order after ticket left it, what starts then with its turn.
LeaveOrder(order, ticket) ==
  [i \in DOMAIN RestOf(order, ticket) |->
     IF i \in StartsAfter(order, ticket)
     THEN [RestOf(order, ticket)[i] EXCEPT !.phase = Turn(@, RestOf(order, ticket)[i].op)]
     ELSE RestOf(order, ticket)[i]]

\* Those of them that are not handed on at once.
Called(order, ticket) == {i \in StartsAfter(order, ticket) : LeaveOrder(order, ticket)[i].phase # "sent"}

================================================================================
