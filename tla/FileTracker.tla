------------------------------- MODULE FileTracker -------------------------------
(***************************************************************************)
(* The file tracker of a session (tracker.cpp): it watches a local item,   *)
(* uploads what changes in it and mirrors its deletions and moves on the   *)
(* server, through the operation queue, which runs operations side by      *)
(* side.                                                                   *)
(*                                                                         *)
(* The tracker runs on the session strand.  A handler is a stack of calls  *)
(* (agenda): each action performs the call on top and pushes the calls it  *)
(* makes, the strand takes the next report only once the stack is empty.   *)
(* Local edits, other clients of the server and the operations on their    *)
(* way go on between any two calls.                                        *)
(*                                                                         *)
(* Left out: symbolic links, the progress meter, the view, Unicode         *)
(* spellings, local paths that cannot be checked, and downloaded copies.   *)
(***************************************************************************)
EXTENDS TrackerState

CONSTANTS Places,      \* the paths of the local item and of the server, closed under prefixes
          Item,        \* the item that is watched
          ItemNames,   \* the paths the item may be renamed to, Item among them
          Disk0,       \* what is on the local disk at first
          Options,     \* the options new watches get
          Toggles,     \* the options the user may switch
          MaxEdits, MaxMoves, MaxForeign, MaxFailures, MaxLosses, MaxChoices, MaxWatches

ASSUME PlacesClosed ==
  /\ \A p \in Places : Len(p) > 1 => Front(p) \in Places
  /\ Item \in ItemNames /\ ItemNames \subseteq Places

\* The item is there, and of the files at first one is the latest.
ASSUME DiskAtFirst ==
  /\ Disk0 \in [Places -> Nat] /\ Disk0[Item] # Gone
  /\ \E latest \in Places : \A p \in Places : Disk0[p] <= Disk0[latest]

VARIABLES
  disk,        \* local content by path
  server,      \* the server's content by path
  partials,    \* the remote paths that have a partial file beside them
  events,      \* the changes the local watch reported and the tracker did not take yet
  clock,       \* the latest version any file got
  entry,       \* the watched item: its watch, 0 without one, its local and remote path
  options,     \* its options
  known,       \* KnownServerContent
  pending,     \* PendingUploads
  failures,    \* the listed failures, by local path
  order,       \* ServerOperationOrder with the operations
  conflicts,   \* the tickets of the uploads waiting for the user's answer, in the order they asked
  agenda,      \* the calls of the running handler
  budget,      \* what is left of each bound
  foreign,     \* history: the versions other clients wrote to the server
  told,        \* history: those of them the tracker was told as the state after an upload of its own
  leftovers,   \* history: the remote paths whose partial file a failed upload or the end of the watch left
  unsent,      \* history: the remote paths whose upload started or ended after a move of its source that was not reported yet
  passedBy,    \* history: the remote paths where a move overtook an upload, see HistoriesFollow
  excused      \* history: the remote paths where something happened that need not be mirrored

tracker == <<entry, options, known, pending, failures, conflicts>>
histories == <<foreign, told, leftovers, unsent, passedBy, excused>>
vars == <<disk, server, partials, events, clock, tracker, order, agenda, budget, histories>>

OptionNames == {"auto", "delete", "move", "check"}
NoEntry == [watch |-> 0, local |-> Nowhere, remote |-> Nowhere]
Watching == entry.watch # 0
Idle == agenda = <<>>

IsGoneLocally(p) == p \notin Places \/ disk[p] = Gone
IsDirectoryLocally(p) == p \in Places /\ disk[p] = Dir
OnServer(p) == IF p \in Places THEN server[p] ELSE Gone
AtAndBelow(p) == {q \in Places : IsWithin(q, p)}
RemotePathOf(p) == MovedPath(p, entry.local, entry.remote)

----------------------------------------------------------------------------------
(* The calls of the agenda and the operations of the order. *)

Call == Head(agenda)
Calls(name) == agenda # <<>> /\ Call.do = name
Then(calls) == agenda' = calls \o Tail(agenda)

ContentChanges(changes, check) == [do |-> "contentChanged", changes |-> changes, check |-> check]
ContentChanged(p, dir, check) == ContentChanges(<<[path |-> p, dir |-> dir]>>, check)
Deletions(paths) == [do |-> "deleted", paths |-> paths]
Deleted(p) == Deletions(<<p>>)
QueueUpload(p, dir, dst, check, cont) ==
  [do |-> "queueUpload", path |-> p, dir |-> dir, dst |-> dst, check |-> check, cont |-> cont]
CheckServer(t) == [do |-> "checkServer", ticket |-> t]
Enqueue(t, compares, expected) ==
  [do |-> "enqueue", ticket |-> t, compares |-> compares, expected |-> expected]
Ask(t) == [do |-> "ask", ticket |-> t]
Finish(t, outcome) == [do |-> "finish", ticket |-> t, outcome |-> outcome]
Leave(t) == [do |-> "leave", ticket |-> t]
RemoveRemote(p, dst) == [do |-> "removeRemote", path |-> p, dst |-> dst]
RemoveKnown(paths) == [do |-> "removeKnown", paths |-> paths]
Discard(dst) == [do |-> "discardPartial", dst |-> dst]
LookAt(p) == [do |-> "lookAt", path |-> p]
UploadLacking(walked, newDirs) == [do |-> "uploadLacking", walked |-> walked, newDirs |-> newDirs]

\* discardPartial() of an optional path.
DiscardIf(dst) == IF dst = Nowhere THEN <<>> ELSE <<Discard(dst)>>

\* A call for each member of a list: it handles the first, then call(_) goes on with the rest.
ForEach(call(_), list) == IF list = <<>> THEN <<>> ELSE <<call(list)>>

RemoveKnownTree(k, p) == ForEach(RemoveKnown, DeepestFirst(k, p))

UploadOf(c) ==
  [kind |-> "upload", watch |-> entry.watch, path |-> c.path, dir |-> c.dir, dst |-> c.dst,
   check |-> c.check, cont |-> c.cont]

\* inOrder(): the operation enters the order.  One that does not wait starts: an upload with the
\* call that checks it, any other is handed on at once.
Entering(o, paths, op) ==
  Append(o, [ticket |-> NextTicket(o), paths |-> paths, op |-> op,
             phase |-> IF Waits(o, paths) THEN "waiting" ELSE Turn("waiting", op)])

InOrder(paths, op) == order' = Entering(order, paths, op)

At(t) == order[PlaceOf(order, t)]
Op(t) == At(t).op
IsAt(t, phase, kind) ==
  \E i \in DOMAIN order : order[i].ticket = t /\ order[i].phase = phase /\ order[i].op.kind = kind
Updated(o, phase, fields) == [o EXCEPT !.phase = phase, !.op = Over(fields, @)]
SetOp(t, phase, fields) == [order EXCEPT ![PlaceOf(order, t)] = Updated(@, phase, fields)]

\* The entry an upload belongs to is still watched.
IsWatched(op) == entry.watch = op.watch

----------------------------------------------------------------------------------
(* The user edits the local item; the watch reports it. *)

Spend(what) == budget[what] > 0 /\ budget' = [budget EXCEPT ![what] = @ - 1]

Report(event) == events' = IF Watching THEN Append(events, event) ELSE events

\* The content once what is at and below from moved to to.
TreeMoved(content, from, to) ==
  [p \in Places |-> IF IsWithin(p, to) /\ MovedPath(p, to, from) \in Places
                    THEN content[MovedPath(p, to, from)]
                    ELSE IF IsWithin(p, from) \/ IsWithin(p, to) THEN Gone ELSE content[p]]

ParentIsThere(content, p) == Len(p) > 1 => content[Front(p)] = Dir

Edit(newDisk, event) ==
  /\ disk' = newDisk
  /\ Report(event)
  /\ UNCHANGED <<server, partials, tracker, order, agenda, foreign, told, leftovers, unsent, passedBy>>

\* The paths whose name on disk belongs to the item, as its watch knows it.
ItemOnDisk == CHOOSE p \in ItemNames : disk[p] # Gone
InItem(p) == \E n \in ItemNames : disk[n] # Gone /\ IsBelow(p, n)

WriteFile(p) ==
  /\ Spend("edits")
  /\ InItem(p) \/ p = ItemOnDisk
  /\ ParentIsThere(disk, p) /\ disk[p] # Dir
  /\ clock' = clock + 1
  /\ UNCHANGED excused
  /\ Edit([disk EXCEPT ![p] = clock'], [action |-> "modified", path |-> p, dir |-> FALSE])

MakeDirectory(p) ==
  /\ Spend("edits")
  /\ InItem(p) /\ ParentIsThere(disk, p) /\ disk[p] = Gone
  /\ \E q \in Places : IsBelow(q, p)
  /\ UNCHANGED <<clock, excused>>
  /\ Edit([disk EXCEPT ![p] = Dir], [action |-> "modified", path |-> p, dir |-> TRUE])

DeleteEntry(p) ==
  /\ Spend("edits")
  /\ InItem(p) /\ disk[p] # Gone
  /\ \A q \in Places : IsBelow(q, p) => disk[q] = Gone
  /\ UNCHANGED <<clock, excused>>
  /\ Edit([disk EXCEPT ![p] = Gone], [action |-> "deleted", path |-> p])

\* A directory moved out of the item with its content, to the trash: one report.
MoveOut(p) ==
  /\ Spend("edits")
  /\ InItem(p) /\ disk[p] = Dir
  /\ \E q \in Places : IsBelow(q, p) /\ disk[q] # Gone
  /\ UNCHANGED clock
  /\ excused' = IF Watching THEN excused \cup AtAndBelow(RemotePathOf(p)) ELSE excused
  /\ Edit([q \in Places |-> IF IsWithin(q, p) THEN Gone ELSE disk[q]],
          [action |-> "deleted", path |-> p])

\* A rename, which replaces a file at the new name.
MoveEntry(p, q) ==
  /\ Spend("moves")
  /\ p # q /\ disk[p] # Gone /\ ~Overlap(p, q)
  /\ \/ InItem(p) /\ InItem(q)
     \/ p \in ItemNames /\ q \in ItemNames /\ Watching
  /\ ParentIsThere(disk, q)
  /\ disk[q] = Gone \/ (IsFile(disk[q]) /\ IsFile(disk[p]))
  /\ \A r \in Places : IsWithin(r, p) /\ disk[r] # Gone => MovedPath(r, p, q) \in Places
  /\ UNCHANGED <<clock, excused>>
  /\ Edit(TreeMoved(disk, p, q),
          [action |-> "moved", old |-> p, path |-> q, dir |-> disk[p] = Dir])

\* The watch lost changes and reports the item's directory instead.  The renames of the item itself
\* come from the watch on the item.
LoseChanges ==
  /\ events # <<>> /\ Watching
  /\ \A i \in DOMAIN events : events[i].path \notin ItemNames
  /\ Spend("losses")
  /\ events' = <<[action |-> "missed", path |-> ItemOnDisk]>>
  /\ UNCHANGED <<disk, server, partials, clock, tracker, order, agenda, histories>>

----------------------------------------------------------------------------------
(* The tracker's calls. *)

\* History: what the server has before the watch, whose deletion it need not notice, and what the
\* operations of an ended watch still touch.
LeftByOthers ==
  {p \in Places : \/ server[p] # Gone
                  \/ \E i \in DOMAIN order : PathsOverlap({p}, order[i].paths)}

\* uploadAndWatch(): the item goes like a change, nothing is compared with the server.
UploadAndWatch ==
  /\ Idle /\ ~Watching
  /\ budget.watches > 0
  /\ budget' = [budget EXCEPT !.watches = @ - 1]
  /\ LET at == ItemOnDisk
     IN /\ entry' = [watch |-> budget.watches, local |-> at, remote |-> at]
        /\ agenda' = <<QueueUpload(at, disk[at] = Dir, at, FALSE, Nowhere)>>
  /\ options' = Options
  /\ known' = NothingKnown /\ pending' = <<>> /\ failures' = {}
  /\ excused' = excused \cup LeftByOthers
  /\ UNCHANGED <<disk, server, partials, events, clock, order, conflicts, foreign, told, leftovers,
                 unsent, passedBy>>

\* A waiting upload that is to continue a partial file.
WaitsToContinue(o) == o.op.kind = "upload" /\ o.phase = "waiting" /\ o.op.cont # Nowhere

\* forget() and retire(): the entry goes, then its problems.  What is on its way goes on.
EndWatch(calls) ==
  /\ entry' = NoEntry /\ known' = NothingKnown /\ pending' = <<>> /\ failures' = {}
  /\ events' = <<>> /\ conflicts' = <<>>
  /\ agenda' = [i \in DOMAIN conflicts |-> Leave(conflicts[i])] \o calls
  /\ leftovers' = leftovers \cup {order[i].op.cont : i \in {j \in DOMAIN order : WaitsToContinue(order[j])}}
  /\ UNCHANGED <<foreign, told, unsent, passedBy, excused>>

Stop ==
  /\ Idle /\ Watching
  /\ EndWatch(<<>>)
  /\ UNCHANGED <<disk, server, partials, clock, options, order, budget>>

WaitingPlaces == {i \in DOMAIN order : order[i].phase = "waiting"}

\* connectionLost(): what waits in the order never starts.
ConnectionLost ==
  /\ Idle /\ Watching
  /\ Spend("failures")
  /\ order' = [i \in DOMAIN order |->
                 IF order[i].phase = "waiting" THEN [order[i] EXCEPT !.phase = "dropped"] ELSE order[i]]
  /\ \E waiting \in Ascending(WaitingPlaces) :
       EndWatch([i \in DOMAIN waiting |-> Leave(order[waiting[i]].ticket)])
  /\ UNCHANGED <<disk, server, partials, clock, options>>

SetOption(o) ==
  /\ Idle /\ Watching /\ o \in Toggles
  /\ Spend("choices")
  /\ options' = (options \ {o}) \cup ({o} \ options)
  /\ excused' = IF o \in options /\ o # "check" THEN Places ELSE excused
  /\ UNCHANGED <<disk, server, partials, events, clock, entry, known, pending, failures, order,
                 conflicts, agenda, foreign, told, leftovers, unsent, passedBy>>

RetryFailure(p) ==
  /\ Idle /\ p \in failures
  /\ Spend("choices")
  /\ failures' = failures \ {p}
  /\ agenda' = IF IsWithin(p, entry.local)
               THEN <<QueueUpload(p, IsDirectoryLocally(p), RemotePathOf(p), TRUE, Nowhere)>> ELSE <<>>
  /\ UNCHANGED <<disk, server, partials, events, clock, entry, options, known, pending, order,
                 conflicts, histories>>

DismissFailure(p) ==
  /\ Idle /\ p \in failures
  /\ failures' = failures \ {p}
  /\ excused' = excused \cup AtAndBelow(RemotePathOf(p))
  /\ UNCHANGED <<disk, server, partials, events, clock, entry, options, known, pending, order,
                 conflicts, agenda, budget, foreign, told, leftovers, unsent, passedBy>>

\* remote->cancelUpload(): a gathered upload ends, one on its way alone is told to.
Cancelled(o, dst, partial) ==
  [i \in DOMAIN o |->
     IF o[i].op.kind # "upload" \/ o[i].op.dst # dst THEN o[i]
     ELSE IF o[i].phase = "sent"
     THEN Updated(o[i], "ended", [result |-> "canceled"])
     ELSE IF o[i].phase = "running" /\ o[i].op.alone
     THEN Updated(o[i], "running", [cancel |-> partial])
     ELSE o[i]]

\* The histories follow a move; what moved after its upload found it gone and before the move was
\* reported is overtaken.
HistoriesFollow(from, to) ==
  LET moved(S) == {MovedPath(p, RemotePathOf(from), RemotePathOf(to)) :
                     p \in {q \in S : IsWithin(q, RemotePathOf(from))}}
  IN /\ excused' = excused \cup moved(excused \cup UNION {AtAndBelow(RemotePathOf(f)) : f \in failures})
     /\ passedBy' = passedBy \cup moved(unsent \cup passedBy)

\* onItemMoved(): the entry follows the item, its server copy when moves are mirrored.
OnItemMoved(to) ==
  LET from == entry.local
      mirrors == "move" \in options
      newRemote == IF mirrors THEN Front(entry.remote) \o <<Last(to)>> ELSE entry.remote
      sentTo == SentFileTo(pending, from)
      stops == mirrors /\ sentTo # Nowhere
      stopped == IF stops THEN KeepsPartial(pending, from) ELSE pending
      renames == mirrors /\ ~IsPending(pending, from) /\ Has(known, from)
      cancelled == IF stops THEN Cancelled(order, sentTo, "kept") ELSE order
  IN /\ pending' = MoveBelow(MoveWhenDone(stopped, from, to), from, to, TRUE)
     /\ known' = IF ~mirrors \/ renames THEN MoveKnown(known, from, to) ELSE known
     /\ order' = IF renames
                 THEN Entering(cancelled, {entry.remote, newRemote},
                               [kind |-> "rename", watch |-> entry.watch, from |-> entry.remote,
                                to |-> newRemote, path |-> to])
                 ELSE cancelled
     /\ entry' = [watch |-> entry.watch, local |-> to, remote |-> newRemote]
     /\ agenda' = <<>>

\* onMoved() to a name the server has nothing at, of something it has.
OnRenamed(from, to) ==
  LET mirrors == "move" \in options
      sentTo == SentFileTo(pending, from)
      stopped == IF sentTo # Nowhere THEN KeepsPartial(pending, from) ELSE pending
      cancelled == IF sentTo # Nowhere THEN Cancelled(order, sentTo, "kept") ELSE order
      deferred == IsPending(pending, from)
  IN /\ pending' = IF deferred THEN MoveWhenDone(stopped, from, to)
                   ELSE MoveBelow(pending, from, to, mirrors)
     /\ known' = IF ~deferred /\ mirrors THEN MoveKnown(known, from, to) ELSE known
     /\ order' = IF ~deferred /\ mirrors
                 THEN Entering(order, {RemotePathOf(from), RemotePathOf(to)},
                               [kind |-> "rename", watch |-> entry.watch, from |-> RemotePathOf(from),
                                to |-> RemotePathOf(to), path |-> to])
                 ELSE cancelled
     /\ agenda' = <<>>

\* onMoved() over something the server has, or of something it lacks.
OnReplaced(from, to, dir) ==
  LET mirrors == "move" \in options
      deferred == mirrors /\ IsPending(pending, from)
      sentTo == SentFileTo(pending, from)
      removes == mirrors /\ ~deferred /\ Has(known, from) /\ ~HasBelow(known, from)
  IN /\ pending' = IF deferred THEN RemoveRemoteWhenDone(pending, from) ELSE pending
     /\ order' = IF deferred /\ sentTo # Nowhere THEN Cancelled(order, sentTo, "discarded") ELSE order
     /\ agenda' = (IF removes THEN <<RemoveRemote(from, RemotePathOf(from))>> ELSE <<>>)
                    \o <<ContentChanged(to, dir, TRUE)>>
     /\ passedBy' = IF mirrors /\ ~deferred /\ ~removes /\ (Has(known, from) \/ Covers(pending, from))
                    THEN passedBy \cup AtAndBelow(RemotePathOf(from)) ELSE passedBy
     /\ UNCHANGED excused
     /\ UNCHANGED known

MeansRename(from, to) ==
  IF "move" \in options
  THEN /\ Has(known, from) \/ IsPending(pending, from)
       /\ ~(Has(known, to) \/ Covers(pending, to))
  ELSE Has(known, from) /\ ~Has(known, to)

OnMissed_LooksOnly(directory) ==
  agenda' = IF IsGoneLocally(directory) THEN <<>> ELSE <<LookAt(directory)>>
\* onMissed(): what left is deleted, then what is there is looked at.
OnMissed(directory) ==
  LET scope == IF IsWithin(entry.local, directory) THEN entry.local ELSE directory
      gone == {p \in Paths(known) : IsBelow(p, scope) /\ IsGoneLocally(p)}
      topmost == SetToSortSeq({p \in gone : \A q \in gone : ~IsBelow(p, q)}, SortsBefore)
  IN agenda' =
       IF ~IsWithin(scope, entry.local) \/ IsGoneLocally(scope)
       THEN IF IsBelow(scope, entry.local) THEN <<Deleted(scope)>> ELSE <<>>
       ELSE ForEach(Deletions, topmost) \o <<LookAt(scope)>>

\* History: the deletions that are missed for good, of what an upload on its way brings.
DeletionsMissed(directory) ==
  {RemotePathOf(p) : p \in {q \in Places : /\ IsWithin(q, directory) /\ IsGoneLocally(q)
                                           /\ Covers(pending, q) /\ ~Has(known, q)}}

\* onChange(): the strand takes the next report of the watch.
OnChange ==
  /\ Idle /\ events # <<>>
  /\ events' = Tail(events)
  /\ LET e == Head(events)
         isMove == e.action = "moved" /\ IsWithin(e.old, entry.local)
     IN \/ /\ e.action = "missed"
           /\ OnMissed(e.path)
           /\ passedBy' = passedBy \cup DeletionsMissed(e.path)
           /\ UNCHANGED <<entry, known, pending, order, excused>>
        \/ /\ e.action = "moved" /\ e.old = entry.local
           /\ OnItemMoved(e.path)
           /\ HistoriesFollow(e.old, e.path)
        \/ /\ e.action = "moved" /\ e.old # entry.local /\ IsWithin(e.path, entry.local) /\ isMove
           /\ \/ MeansRename(e.old, e.path) /\ OnRenamed(e.old, e.path)
                 /\ HistoriesFollow(e.old, e.path)
              \/ ~MeansRename(e.old, e.path) /\ OnReplaced(e.old, e.path, e.dir)
           /\ UNCHANGED entry
        \/ /\ e.action \in {"modified", "deleted"} /\ IsWithin(e.path, entry.local)
           /\ agenda' = <<IF e.action = "deleted" THEN Deleted(e.path)
                          ELSE ContentChanged(e.path, e.dir, TRUE)>>
           /\ UNCHANGED <<entry, known, pending, order, passedBy, excused>>
  /\ UNCHANGED <<disk, server, partials, clock, options, failures, conflicts, budget, foreign, told,
                 leftovers, unsent>>

\* onContentChanged()
OnContentChanged ==
  LET c == Head(Call.changes)
      further(changes) == ContentChanges(changes, Call.check)
  IN /\ Calls("contentChanged")
     /\ Then((IF Watching /\ "auto" \in options
              THEN <<QueueUpload(c.path, c.dir, RemotePathOf(c.path), Call.check, Nowhere)>> ELSE <<>>)
               \o ForEach(further, Tail(Call.changes)))
     /\ UNCHANGED <<disk, server, partials, events, clock, tracker, order, budget, histories>>

\* The end of onMissed(): a file the server has as it is stays.
IsOnTheServerAsItIs(p) ==
  IF p \in DOMAIN known.sent THEN known.sent[p] = disk[p] ELSE FileState(known, p) = disk[p]

OnLookAt ==
  /\ Calls("lookAt")
  /\ Then(IF ~Watching \/ (IsFile(disk[Call.path]) /\ IsOnTheServerAsItIs(Call.path)) THEN <<>>
          ELSE <<ContentChanged(Call.path, IsDirectoryLocally(Call.path), TRUE)>>)
  /\ UNCHANGED <<disk, server, partials, events, clock, tracker, order, budget, histories>>

\* isThereAgain(): known on the server and there locally as the same kind.
IsThereAgain(p) ==
  /\ ~IsGoneLocally(p)
  /\ IF p \in known.dirs THEN disk[p] = Dir ELSE p \in DOMAIN known.files /\ disk[p] # Dir

\* onDeleted(): the server copy goes, never a directory with content.
OnDeleted ==
  LET p == Head(Call.paths)
      further == ForEach(Deletions, Tail(Call.paths))
      applies == Watching /\ "delete" \in options /\ ~IsThereAgain(p)
      stops == IsGoneLocally(p) /\ SentFileTo(pending, p) # Nowhere
  IN /\ Calls("deleted")
     /\ \/ /\ ~applies
           /\ Then(further) /\ UNCHANGED <<pending, known, order>>
        \/ /\ applies /\ IsPending(pending, p)
           /\ pending' = RemoveRemoteWhenDone(pending, p)
           /\ order' = IF stops THEN Cancelled(order, SentFileTo(pending, p), "discarded") ELSE order
           /\ Then(further) /\ UNCHANGED known
        \/ /\ applies /\ ~IsPending(pending, p) /\ ~Has(known, p)
           /\ pending' = IF Covers(pending, p) THEN StartPending(pending, [path |-> p, dir |-> FALSE])
                         ELSE pending
           /\ Then(further) /\ UNCHANGED <<known, order>>
        \/ /\ applies /\ ~IsPending(pending, p) /\ HasBelow(known, p)
           /\ known' = [known EXCEPT !.kept = @ \cup {p}]
           /\ Then(further) /\ UNCHANGED <<pending, order>>
        \/ /\ applies /\ ~IsPending(pending, p) /\ Has(known, p) /\ ~HasBelow(known, p)
           /\ Then(<<RemoveRemote(p, RemotePathOf(p))>> \o further) /\ UNCHANGED <<pending, known, order>>
     /\ UNCHANGED <<disk, server, partials, events, clock, entry, options, failures, conflicts,
                    budget, histories>>

\* removeRemote() and the kept directories above that it emptied.
OnRemoveRemote ==
  LET forgotten == Forget(known, Call.path)
      emptied == EmptiedKeptAbove(forgotten, Call.path)
      further == "delete" \in options /\ emptied # <<>> /\ ~IsDirectoryLocally(emptied[1])
  IN /\ Calls("removeRemote")
     /\ known' = forgotten
     /\ InOrder({Call.dst}, [kind |-> "remove", watch |-> entry.watch, path |-> Call.path, dst |-> Call.dst])
     /\ Then(IF further THEN <<RemoveRemote(emptied[1], RemotePathOf(emptied[1]))>> ELSE <<>>)
     /\ UNCHANGED <<disk, server, partials, events, clock, entry, options, pending, failures,
                    conflicts, budget, histories>>

\* One entry of removeKnownTree().
OnRemoveKnown ==
  /\ Calls("removeKnown")
  /\ LET p == Head(Call.paths)
     IN Then((IF Has(known, p) THEN <<RemoveRemote(p, RemotePathOf(p))>> ELSE <<>>)
               \o ForEach(RemoveKnown, Tail(Call.paths)))
  /\ UNCHANGED <<disk, server, partials, events, clock, tracker, order, budget, histories>>

\* discardPartial(): in the order, so it never meets the partial file of a later upload.
OnDiscardPartial ==
  /\ Calls("discardPartial")
  /\ InOrder({Call.dst}, [kind |-> "discard", dst |-> Call.dst])
  /\ Then(<<>>)
  /\ UNCHANGED <<disk, server, partials, events, clock, tracker, budget, histories>>

\* queueUpload(): a file the server has as it is stays, a known directory goes by what it lacks, a
\* path whose upload is on its way goes after it.
IsSentAsItIs(c) ==
  /\ ~c.dir /\ ~Covers(pending, c.path)
  /\ c.path \in DOMAIN known.sent /\ c.path \in Places
  /\ known.sent[c.path] = disk[c.path]

OnQueueUpload ==
  LET c == Call
      change == [path |-> c.path, dir |-> c.dir]
      below == SetToSortSeq({p \in Places : IsBelow(p, c.path) /\ disk[p] # Gone}, SortsBefore)
      walked == [i \in DOMAIN below |-> [path |-> below[i], dir |-> IsDirectoryLocally(below[i])]]
      paths == {c.dst} \cup ({c.cont} \ {Nowhere})
      entered == Entering(order, paths, UploadOf(c))
  IN /\ Calls("queueUpload")
     /\ \/ /\ IsSentAsItIs(c)
           /\ Then(DiscardIf(c.cont)) /\ UNCHANGED <<pending, order>>
        \/ /\ c.dir /\ ~Covers(pending, c.path) /\ c.path \in known.dirs
           /\ Then(<<UploadLacking(walked, {})>>) /\ UNCHANGED <<pending, order>>
        \/ /\ ~IsSentAsItIs(c) /\ Covers(pending, c.path)
           /\ pending' = StartPending(pending, change)
           /\ Then(DiscardIf(c.cont)) /\ UNCHANGED order
        \/ /\ ~IsSentAsItIs(c) /\ Starts(pending, c.path) /\ ~(c.dir /\ c.path \in known.dirs)
           /\ pending' = StartPending(pending, change)
           /\ order' = entered
           /\ Then(IF Last(entered).phase = "starting" THEN <<CheckServer(Last(entered).ticket)>>
                   ELSE <<>>)
     /\ passedBy' = IF Starts(pending, c.path) /\ MovedAway(pending, c.path)
                    THEN passedBy \cup AtAndBelow(c.dst) \cup AtAndBelow(RemotePathOf(pending[c.path].movedTo))
                    ELSE passedBy
     /\ UNCHANGED <<disk, server, partials, events, clock, entry, options, known, failures,
                    conflicts, budget, foreign, told, leftovers, unsent, excused>>

\* One entry of uploadWhatTheServerLacks(), as it was when the directory was walked.
OnUploadLacking ==
  LET state == Head(Call.walked)
      lacks == /\ \A d \in Call.newDirs : ~IsWithin(state.path, d)
               /\ ~(state.dir /\ state.path \in known.dirs)
      newDirs == IF lacks /\ state.dir THEN Call.newDirs \cup {state.path} ELSE Call.newDirs
  IN /\ Calls("uploadLacking")
     /\ Then(IF Call.walked = <<>> THEN <<>>
             ELSE (IF lacks THEN <<QueueUpload(state.path, state.dir, RemotePathOf(state.path), FALSE, Nowhere)>>
                   ELSE <<>>) \o <<UploadLacking(Tail(Call.walked), newDirs)>>)
     /\ UNCHANGED <<disk, server, partials, events, clock, tracker, order, budget, histories>>

\* The local path has moved and the tracker does not know yet: history.
ReadsAhead(p, dst) ==
  IF \E i \in DOMAIN events : events[i].action = "moved" /\ IsWithin(p, events[i].old)
  THEN unsent \cup AtAndBelow(dst) ELSE unsent

HasOtherKindInTheWay(p, dir) ==
  /\ "delete" \in options
  /\ IF dir THEN p \in DOMAIN known.files ELSE p \in known.dirs

\* checkServerThenUpload(), once the order lets the upload start.  A check of a directory that the
\* server does not answer counts as changed.
OnCheckServer ==
  LET t == Call.ticket
      u == Op(t)
      here == IsWatched(u) /\ ~MovedAway(pending, u.path)
      gone == here /\ IsGoneLocally(u.path)
      other == here /\ ~gone /\ (IsDirectoryLocally(u.path) # u.dir
                                  \/ HasOtherKindInTheWay(u.path, IsDirectoryLocally(u.path)))
      compares == IsWatched(u) /\ "check" \in options /\ u.check
      changed == server[u.dst] # Gone /\ ~Has(known, u.path)
  IN /\ Calls("checkServer")
     /\ order' = SetOp(t, "here", <<>>)
     /\ pending' = IF other
                   THEN StartPending(pending, [path |-> u.path, dir |-> IsDirectoryLocally(u.path)])
                   ELSE pending
     /\ \/ /\ Then(IF gone THEN <<Finish(t, "notUploaded"), Deleted(u.path)>>
                   ELSE IF other THEN <<Finish(t, "notUploaded")>>
                   ELSE IF ~compares THEN <<Enqueue(t, FALSE, Gone)>>
                   ELSE IF ~u.dir THEN <<Enqueue(t, TRUE, FileState(known, u.path))>>
                   ELSE IF changed THEN <<Ask(t)>>
                   ELSE <<Enqueue(t, FALSE, Gone)>>)
           /\ UNCHANGED budget
        \/ /\ ~gone /\ ~other /\ compares /\ u.dir /\ ~changed
           /\ Spend("failures")
           /\ Then(<<Ask(t)>>)
     /\ UNCHANGED <<disk, server, partials, events, clock, entry, options, known, failures,
                    conflicts, histories>>

NoConflict_KeepsTheTurn(t) ==
  IF IsGoneLocally(Op(t).path) THEN <<Deleted(Op(t).path)>> ELSE <<>>
\* conflictStands(), with what it does when the conflict does not.
NoConflict(t) ==
  LET u == Op(t)
  IN IF ~IsWatched(u) \/ MovedAway(pending, u.path) \/ ~IsWithin(u.path, entry.local)
     THEN <<Finish(t, "notUploaded")>>
     ELSE IF IsGoneLocally(u.path) THEN <<Finish(t, "notUploaded"), Deleted(u.path)>>
     ELSE <<>>

\* askServerChanged()
OnAsk ==
  LET t == Call.ticket
  IN /\ Calls("ask")
     /\ order' = SetOp(t, "here", <<>>)
     /\ conflicts' = IF NoConflict(t) = <<>> THEN Append(conflicts, t) ELSE conflicts
     /\ Then(NoConflict(t))
     /\ UNCHANGED <<disk, server, partials, events, clock, entry, options, known, pending, failures,
                    budget, histories>>

\* The place of the question about an upload.
Asked(t) == CHOOSE i \in DOMAIN conflicts : conflicts[i] = t

\* answerConflict(), ReplaceOnServer: the path is checked again, nothing is compared any more.
AnswerReplace(t) ==
  /\ Idle /\ Contains(conflicts, t)
  /\ conflicts' = RemoveAt(conflicts, Asked(t))
  /\ order' = IF NoConflict(t) = <<>> THEN SetOp(t, "here", [check |-> FALSE]) ELSE order
  /\ agenda' = IF NoConflict(t) = <<>> THEN <<CheckServer(t)>> ELSE NoConflict(t)
  /\ UNCHANGED <<disk, server, partials, events, clock, entry, options, known, pending, failures,
                 budget, histories>>

\* answerConflict(), KeepServers: declineUpload().
AnswerKeep(t) ==
  /\ Idle /\ Contains(conflicts, t)
  /\ conflicts' = RemoveAt(conflicts, Asked(t))
  /\ pending' = IF IsWatched(Op(t)) THEN ChangesHandled(pending, Op(t).path) ELSE pending
  /\ agenda' = <<Finish(t, "declined")>>
  /\ excused' = excused \cup AtAndBelow(Op(t).dst)
                   \cup (IF IsWatched(Op(t)) /\ MovedAway(pending, Op(t).path)
                         THEN AtAndBelow(RemotePathOf(pending[Op(t).path].movedTo)) ELSE {})
  /\ UNCHANGED <<disk, server, partials, events, clock, entry, options, known, failures, order,
                 budget, foreign, told, leftovers, unsent, passedBy>>

\* enqueueUpload(): the remote gathers it.
OnEnqueue ==
  LET t == Call.ticket
      u == Op(t)
      goes == IsWatched(u) /\ ~MovedAway(pending, u.path)
  IN /\ Calls("enqueue")
     /\ pending' = IF goes THEN Sent(ChangesHandled(pending, u.path), u.path, u.dst, u.dir) ELSE pending
     /\ order' = IF goes
                 THEN SetOp(t, "sent", [compares |-> Call.compares, expected |-> Call.expected,
                                        create |-> u.path # entry.local])
                 ELSE order
     /\ Then(IF goes THEN <<>> ELSE <<Finish(t, "notUploaded")>>)
     /\ UNCHANGED <<disk, server, partials, events, clock, entry, options, known, failures,
                    conflicts, budget, histories>>

\* rememberStates(): what is there locally now counts as what the server has.
RememberStates(k, below) ==
  LET there == {p \in Places : IsWithin(p, below) /\ disk[p] # Gone}
      files == {p \in there : IsFile(disk[p])}
  IN [k EXCEPT !.files = Over([p \in files |-> disk[p]], @),
               !.dirs = @ \cup (there \ files),
               !.sent = Without(@, files)]

\* rememberUploadedStates(): but for the entries the upload left out, which keep their known state.
RememberUploadedStates(directory, failed) ==
  LET states == RememberStates(known, directory)
      out == {p \in failed : IsBelow(p, directory) /\ p \notin known.dirs}
      kept == Restrict(known.files, DOMAIN known.files \cap out)
      forgotten == ForgetAll(states, out \ DOMAIN kept)
  IN [forgotten EXCEPT !.files = Over(kept, @), !.sent = Without(@, DOMAIN kept)]

\* rememberSentButGone(): what the upload wrote and is gone locally by now.
RememberSentButGone(k, u) ==
  LET files == {p \in DOMAIN u.sent \ DOMAIN k.files : IsGoneLocally(p)}
      above == UNION {{d \in Places : IsWithin(d, u.path) /\ IsBelow(p, d)} : p \in files}
      itself == IF ~Has(k, u.path) /\ files = {} /\ IsGoneLocally(u.path) /\ server[u.dst] # Gone
                THEN {u.path} ELSE {}
  IN [k EXCEPT !.files = Over([p \in files |-> u.sent[p]], @),
               !.dirs = @ \cup above \cup itself,
               !.sent = Without(@, files)]

RememberSentFiles(k, sent) ==
  LET files == DOMAIN sent \cap DOMAIN k.files
  IN [k EXCEPT !.sent = Over([p \in files |-> sent[p]], @)]

\* removeMovedAway(): the kept directories whose content the uploaded one holds.
MovedAwayTo(k, uploaded) ==
  LET moved == {d \in k.kept : /\ ~Overlap(d, uploaded) /\ IsGoneLocally(d)
                               /\ HoldsAllBelow(k, uploaded, d)}
      inTurn == SetToSortSeq(IF "move" \in options THEN moved ELSE {}, SortsBefore)
  IN ForEach(RemoveKnown, FlattenSeq([i \in DOMAIN inTurn |-> DeepestFirst(k, inTurn[i])]))

\* recordFailure() lists a path that is still there.
Lists(p) == ~MovedAway(pending, p) /\ ~IsGoneLocally(p)

\* History: the directories the upload made that are forgotten, as they are gone locally, and those
\* taken for known that appeared after it listed them.
Misremembered(u, states) ==
  LET forgotten == {d \in u.made : IsGoneLocally(d) /\ d \notin Paths(states)}
      invented == states.dirs \ (known.dirs \cup u.made)
  IN {MovedPath(p, u.path, u.dst) : p \in {q \in Places : q \in forgotten \/ \E d \in invented : IsWithin(q, d)}}

\* What the tracker knows of the server once the upload completed.
KnownAfter(u) ==
  IF u.dir THEN RememberSentButGone(RememberUploadedStates(u.path, u.failed), u)
  ELSE IF u.state # Gone THEN RememberFile(known, u.path, u.state) ELSE known

\* onUploadEnded(): what the server has now is what the next check compares with.
OnUploadEnded(t) ==
  LET u == Op(t)
      watched == IsWatched(u)
      leftOut == {p \in u.failed : Lists(p)}
  IN /\ Idle /\ IsAt(t, "ended", "upload")
     /\ order' = SetOp(t, "here", <<>>)
     /\ \/ /\ watched /\ u.result = "changed"
           /\ agenda' = <<IF "check" \in options THEN Ask(t) ELSE Enqueue(t, FALSE, Gone)>>
           /\ UNCHANGED <<known, failures, passedBy>>
        \/ /\ IF watched THEN u.result \in {"failed", "canceled"} ELSE TRUE
           /\ agenda' = (IF ~watched /\ ~u.dir THEN <<Discard(u.dst)>> ELSE <<>>)
                          \o <<Finish(t, "notUploaded")>>
           /\ failures' = IF watched /\ u.result = "failed" /\ Lists(u.path) THEN failures \cup {u.path}
                          ELSE failures
           /\ UNCHANGED <<known, passedBy>>
        \/ /\ watched /\ u.result = "completed"
           /\ \E states \in {KnownAfter(u)} :
                /\ known' = RememberSentFiles(states, u.sent)
                /\ agenda' = (IF u.dir THEN MovedAwayTo(states, u.path) ELSE <<>>) \o <<Finish(t, "uploaded")>>
                /\ passedBy' = IF u.dir /\ u.asDir THEN passedBy \cup Misremembered(u, states) ELSE passedBy
           /\ failures' = IF u.dir THEN {p \in failures : ~IsWithin(p, u.path)} \cup leftOut
                          ELSE failures \ {u.path}
     /\ leftovers' = IF u.cont # Nowhere /\ "read" \notin DOMAIN u THEN leftovers \cup {u.cont} ELSE leftovers
     /\ UNCHANGED <<disk, server, partials, events, clock, entry, options, pending, conflicts, budget,
                    foreign, told, unsent, excused>>

KeptPartialOf_Lost(u, outcome, fin) == Nowhere
\* keptPartialOf(): the partial file that no upload continues yet.
KeptPartialOf(u, outcome, fin) ==
  IF outcome = "uploaded" \/ u.dir THEN Nowhere
  ELSE IF fin.sentTo # Nowhere THEN IF fin.partialKept THEN fin.sentTo ELSE Nowhere
  ELSE u.cont

\* History: after a move something counts as sent that the upload left out or never listed, or does
\* not count although it was: the copy that moved along, of a file that is gone by now.
TakenOnTrust(u, to) ==
  \/ u.failed # {}
  \/ ~u.dir /\ IsGoneLocally(to)
  \/ u.asDir /\ \E d \in Places : IsWithin(d, to) /\ disk[d] = Dir /\ MovedPath(d, to, u.path) \notin u.made

BelowChanges(fin) ==
  LET unchecked(changes) == ContentChanges(changes, FALSE) IN ForEach(unchecked, fin.below)

\* finishMovedUpload(): the server copy follows, and what did not go yet goes to the new path.
FinishMoved(t, outcome, fin, serverPath, serverDst, partial) ==
  LET u == Op(t)
      to == fin.movedTo
      inPlace == serverPath = to
      renames == /\ ~inPlace
                 /\ outcome = "uploaded" \/ Has(known, serverPath)
                 /\ "move" \in options
      renamed == inPlace \/ renames
      moved == IF renames THEN MoveKnown(known, serverPath, to) ELSE known
      again == outcome = "notUploaded" \/ fin.again
      continued == IF again /\ ~fin.again THEN partial ELSE Nowhere
      check == outcome = "declined" \/ (~renamed /\ outcome # "uploaded")
      anew == ~again /\ renamed /\ outcome = "uploaded" /\ (u.dir \/ inPlace)
  IN /\ order' = IF renames
                 THEN Entering(order, {serverDst, RemotePathOf(to)},
                               [kind |-> "rename", watch |-> entry.watch, from |-> serverDst,
                                to |-> RemotePathOf(to), path |-> to])
                 ELSE order
     /\ known' = IF anew THEN RememberStates(Forget(moved, u.path), to) ELSE moved
     /\ passedBy' = IF anew /\ TakenOnTrust(u, to) THEN passedBy \cup AtAndBelow(RemotePathOf(to))
                    ELSE passedBy
     /\ Then((IF continued = Nowhere THEN DiscardIf(partial) ELSE <<>>)
               \o (IF again THEN <<QueueUpload(to, u.dir, RemotePathOf(to), check, continued)>>
                   ELSE BelowChanges(fin))
               \o <<Leave(t)>>)

\* followUpUpload(): what changed while the upload was on its way goes now.
FollowUp(t, outcome) ==
  LET u == Op(t)
      fin == Finished(pending, u.path)
      serverPath == IF fin.copyAt # Nowhere THEN fin.copyAt ELSE u.path
      serverDst == IF fin.copyAt # Nowhere THEN RemotePathOf(serverPath) ELSE u.dst
      partial == KeptPartialOf(u, outcome, fin)
      nowAt == IF fin.movedTo # Nowhere THEN fin.movedTo ELSE u.path
      backUnsent == outcome # "uploaded" /\ ~IsGoneLocally(nowAt)
      goes == fin.gone /\ ~IsThereAgain(serverPath) /\ ~backUnsent
      again == fin.again \/ fin.gone
  IN /\ pending' = Without(pending, {u.path})
     /\ \/ /\ goes
           /\ Then(DiscardIf(partial)
                     \o (IF Has(known, serverPath) THEN RemoveKnownTree(known, serverPath)
                         ELSE IF outcome = "uploaded" THEN <<RemoveRemote(serverPath, serverDst)>>
                         ELSE <<>>)
                     \o <<Leave(t)>>)
           /\ UNCHANGED <<order, known, passedBy>>
        \/ /\ ~goes /\ fin.movedTo # Nowhere
           /\ FinishMoved(t, outcome, [fin EXCEPT !.again = again], serverPath, serverDst, partial)
        \/ /\ ~goes /\ fin.movedTo = Nowhere
           /\ Then((IF again /\ HasOtherKindInTheWay(serverPath, fin.dir)
                    THEN RemoveKnownTree(known, serverPath) ELSE <<>>)
                     \o (IF again THEN <<QueueUpload(u.path, fin.dir, u.dst, u.check, Nowhere)>> ELSE <<>>)
                     \o DiscardIf(partial)
                     \o BelowChanges(fin)
                     \o <<Leave(t)>>)
           /\ UNCHANGED <<order, known, passedBy>>

\* finishUpload()
OnFinish ==
  LET t == Call.ticket
  IN /\ Calls("finish")
     /\ \/ /\ IsWatched(Op(t))
           /\ FollowUp(t, Call.outcome)
        \/ /\ ~IsWatched(Op(t))
           /\ Then(<<Leave(t)>>)
           /\ UNCHANGED <<pending, known, order, passedBy>>
     /\ unsent' = ReadsAhead(Op(t).path, Op(t).dst)
     /\ UNCHANGED <<disk, server, partials, events, clock, entry, options, failures, conflicts,
                    budget, foreign, told, leftovers, excused>>

\* What an operation that gets its turn goes on with.
NextCall(o) == IF o.phase = "ending" THEN Leave(o.ticket) ELSE CheckServer(o.ticket)

\* leaveOrder(): the operations that waited for it start, those dropped leave too.
OnLeave ==
  LET t == Call.ticket
      after == LeaveOrder(order, t)
  IN /\ Calls("leave")
     /\ \/ /\ HasTicket(order, t)
           /\ order' = after
           /\ \E turns \in Ascending(Called(order, t)) : Then([i \in DOMAIN turns |-> NextCall(after[turns[i]])])
        \/ /\ ~HasTicket(order, t)
           /\ Then(<<>>) /\ UNCHANGED order
     /\ UNCHANGED <<disk, server, partials, events, clock, tracker, budget, histories>>

\* renameEndOf(): a rename that failed left the copy where it was, what is at the new path goes.
OnRenameEnded(t) ==
  LET op == Op(t)
      failed == op.result = "failed" /\ IsWatched(op)
      uploads == failed /\ ~IsGoneLocally(op.path)
  IN /\ Idle /\ IsAt(t, "ended", "rename")
     /\ order' = SetOp(t, "here", <<>>)
     /\ known' = IF failed THEN Forget(known, op.path) ELSE known
     /\ agenda' = (IF uploads THEN <<ContentChanged(op.path, IsDirectoryLocally(op.path), TRUE)>> ELSE <<>>)
                    \o <<Leave(t)>>
     /\ UNCHANGED <<disk, server, partials, events, clock, entry, options, pending, failures,
                    conflicts, budget, histories>>

\* leavesOrderWhenEnded(): a remove or a discarded partial file.
OnOtherEnded(t) ==
  /\ Idle /\ (IsAt(t, "ended", "remove") \/ IsAt(t, "ended", "discard"))
  /\ order' = SetOp(t, "here", <<>>)
  /\ agenda' = <<Leave(t)>>
  /\ UNCHANGED <<disk, server, partials, events, clock, tracker, budget, histories>>

----------------------------------------------------------------------------------
(* The operations on their way and the server. *)

Remotely(t, phase, fields) ==
  /\ order' = SetOp(t, phase, fields)
  /\ UNCHANGED <<disk, events, clock, tracker, agenda>>

Ends(t, result, fields) == Remotely(t, "ended", Over([result |-> result], fields))

\* The directories that an upload to p creates, and whether it can.
MissingAbove(p) == {d \in Places : IsBelow(p, d) /\ server[d] = Gone}
CanCreateAbove(p, create) ==
  /\ \A d \in Places : IsBelow(p, d) => ~IsFile(server[d])
  /\ create \/ MissingAbove(p) = {}
WithDirectories(dirs) == [p \in Places |-> IF p \in dirs THEN Dir ELSE server[p]]

\* requireUnchangedRemote(): the destination still is what the upload is to replace.
AsExpected_ByKind(u) == ~u.compares \/ IsFile(server[u.dst]) = IsFile(u.expected)
AsExpected(u) == ~u.compares \/ server[u.dst] = u.expected

\* The batch is sent and the upload starts: it reads the source, or ends as canceled without one.
UploadStarts(t) ==
  LET u == Op(t)
      adopts == u.cont # Nowhere /\ u.dst \notin partials
  IN /\ IsAt(t, "sent", "upload") /\ ~IsDirectoryLocally(u.path)
     /\ \/ /\ IsGoneLocally(u.path)
           /\ Ends(t, "canceled", <<>>)
           /\ UNCHANGED <<server, partials>>
        \/ /\ ~IsGoneLocally(u.path) /\ ~AsExpected(u)
           /\ Ends(t, "changed", <<>>)
           /\ UNCHANGED <<server, partials>>
        \/ /\ ~IsGoneLocally(u.path) /\ AsExpected(u) /\ ~CanCreateAbove(u.dst, u.create)
           /\ Ends(t, "failed", <<>>)
           /\ UNCHANGED <<server, partials>>
        \/ /\ ~IsGoneLocally(u.path) /\ AsExpected(u) /\ CanCreateAbove(u.dst, u.create)
           /\ \E alone \in IF u.create /\ u.cont = Nowhere THEN BOOLEAN ELSE {TRUE} :
                Remotely(t, "running", [read |-> disk[u.path], asDir |-> FALSE, alone |-> alone, cancel |-> "no", failed |-> {},
                                        continued |-> adopts /\ u.cont \in partials])
           /\ server' = WithDirectories(MissingAbove(u.dst))
           /\ partials' = (partials \ (IF adopts THEN {u.cont} ELSE {})) \cup {u.dst}
     /\ unsent' = ReadsAhead(u.path, u.dst)
     /\ UNCHANGED <<budget, foreign, told, leftovers, passedBy, excused>>

\* Every byte is there: the destination is checked again, then the partial file replaces it.  Others
\* may write in between.
UploadChecks(t) ==
  LET u == Op(t)
  IN /\ IsAt(t, "running", "upload") /\ ~u.asDir
     /\ \/ /\ AsExpected(u)
           /\ Remotely(t, "checked", [seen |-> server[u.dst]])
           /\ UNCHANGED partials
        \/ /\ ~AsExpected(u)
           /\ Ends(t, "changed", <<>>)
           /\ partials' = partials \ {u.dst}
     /\ UNCHANGED <<server, budget, histories>>

UploadReplaces(t) ==
  LET u == Op(t)
      state == IF disk[u.path] = u.read /\ ~u.continued THEN OneValue(u.path, u.read) ELSE <<>>
  IN /\ IsAt(t, "checked", "upload")
     /\ partials' = partials \ {u.dst}
     /\ \/ /\ server[u.dst] # Dir
           /\ server' = [server EXCEPT ![u.dst] = u.read]
           /\ Remotely(t, "stat", [sent |-> state])
        \/ /\ server[u.dst] = Dir
           /\ Ends(t, "failed", <<>>)
           /\ UNCHANGED server
     /\ UNCHANGED <<budget, histories>>

\* DestinationStates: the server tells what it has where the upload ended, or is not there to be asked.
UploadTold(t) ==
  /\ IsAt(t, "stat", "upload")
  /\ \/ /\ Ends(t, "completed", [state |-> OnServer(Op(t).dst)])
        /\ told' = told \cup ({OnServer(Op(t).dst)} \cap foreign)
        /\ UNCHANGED <<budget, excused>>
     \/ /\ Spend("failures")
        /\ Ends(t, "completed", [state |-> Gone])
        /\ excused' = excused \cup {Op(t).dst}
        /\ UNCHANGED told
  /\ UNCHANGED <<server, partials, foreign, leftovers, unsent, passedBy>>

\* A stopped upload ends once the cancel reaches it.
UploadCanceled(t) ==
  /\ IsAt(t, "running", "upload") /\ Op(t).cancel # "no"
  /\ partials' = IF Op(t).cancel = "kept" THEN partials ELSE partials \ {Op(t).dst}
  /\ Ends(t, "canceled", <<>>)
  /\ UNCHANGED <<server, budget, histories>>

\* A failed upload leaves its partial file for the next one, that of a directory what it sent, which
\* the tracker never learns.
UploadFails(t) ==
  /\ IsAt(t, "running", "upload")
  /\ Spend("failures")
  /\ Ends(t, "failed", <<>>)
  /\ leftovers' = leftovers \cup ({Op(t).dst} \cap partials)
  /\ excused' = IF Op(t).asDir THEN excused \cup AtAndBelow(Op(t).dst) ELSE excused
  /\ UNCHANGED <<server, partials, foreign, told, unsent, passedBy>>

\* The upload of a directory: its entries are listed and its directories made.
DirectoryUploadStarts(t) ==
  LET u == Op(t)
      there == {p \in Places : IsWithin(p, u.path) /\ disk[p] # Gone}
      at(p) == MovedPath(p, u.path, u.dst)
      dirs == {p \in there : disk[p] = Dir}
      blocked == {p \in there : \E d \in dirs : IsWithin(p, d) /\ IsFile(server[at(d)])}
  IN /\ IsAt(t, "sent", "upload") /\ IsDirectoryLocally(u.path)
     /\ \/ /\ ~CanCreateAbove(u.dst, u.create) \/ IsFile(server[u.dst])
           /\ Ends(t, "failed", <<>>)
           /\ UNCHANGED server
        \/ /\ CanCreateAbove(u.dst, u.create) /\ ~IsFile(server[u.dst])
           /\ Remotely(t, "running", [todo |-> there \ (dirs \cup blocked), failed |-> blocked, made |-> dirs \ blocked,
                                      sent |-> <<>>, asDir |-> TRUE, cancel |-> "no", alone |-> FALSE])
           /\ server' = WithDirectories(MissingAbove(u.dst) \cup {at(d) : d \in dirs \ blocked})
     /\ UNCHANGED <<partials, budget, histories>>

\* One file of the directory goes; one that is gone by now, or whose place is taken, is left out.
DirectoryUploadSends(t, p) ==
  LET u == Op(t)
      at == MovedPath(p, u.path, u.dst)
      goes == IsFile(disk[p]) /\ server[at] # Dir /\ ParentIsThere(server, at)
  IN /\ IsAt(t, "running", "upload") /\ u.asDir /\ p \in u.todo
     /\ \/ /\ goes
           /\ server' = [server EXCEPT ![at] = disk[p]]
           /\ Remotely(t, "running", [todo |-> u.todo \ {p}, sent |-> Over(OneValue(p, disk[p]), u.sent)])
           /\ UNCHANGED budget
        \/ /\ IF goes THEN Spend("failures") ELSE UNCHANGED budget
           /\ Remotely(t, "running", [todo |-> u.todo \ {p}, failed |-> u.failed \cup {p}])
           /\ UNCHANGED server
     /\ UNCHANGED <<partials, histories>>

DirectoryUploadEnds(t) ==
  /\ IsAt(t, "running", "upload") /\ Op(t).asDir /\ Op(t).todo = {}
  /\ Ends(t, "completed", [state |-> Gone])
  /\ UNCHANGED <<server, partials, budget, histories>>

\* A queued rename never replaces what is at its destination.  One whose wait timed out counts as
\* failed and happens all the same, before anything this session does next: its task is ahead of
\* theirs on the processing thread.
RemoteRenames(t) ==
  LET op == Op(t)
      possible == server[op.from] # Gone /\ server[op.to] = Gone /\ ParentIsThere(server, op.to)
      happens == /\ possible
                 /\ server' = TreeMoved(server, op.from, op.to)
                 /\ partials' = {IF IsBelow(p, op.from) THEN MovedPath(p, op.from, op.to) ELSE p : p \in partials}
  IN /\ IsAt(t, "sent", "rename")
     /\ \/ /\ happens
           /\ Ends(t, "completed", <<>>)
           /\ excused' = excused \cup MoveInSet({p \in excused : IsWithin(p, op.from)}, op.from, op.to)
           /\ UNCHANGED budget
        \/ /\ IF possible THEN Spend("failures") ELSE UNCHANGED budget
           /\ Ends(t, "failed", <<>>)
           /\ excused' = excused \cup AtAndBelow(op.from)
           /\ UNCHANGED <<server, partials>>
        \/ /\ happens
           /\ Spend("failures")
           /\ Ends(t, "failed", <<>>)
           /\ excused' = excused \cup AtAndBelow(op.to)
     /\ UNCHANGED <<foreign, told, leftovers, unsent, passedBy>>

\* History: what takes away what is at p waits in the order, its rename or the upload that continues
\* its partial file.
MovesLater(p) ==
  \E i \in DOMAIN order :
    \/ order[i].op.kind = "rename" /\ order[i].op.from = p
    \/ order[i].op.kind = "upload" /\ order[i].op.cont = p

\* A delete is not recursive.
RemoteRemoves(t) ==
  LET op == Op(t)
      possible == /\ server[op.dst] # Gone
                  /\ \A p \in Places : IsBelow(p, op.dst) => server[p] = Gone /\ p \notin partials
  IN /\ IsAt(t, "sent", "remove")
     /\ \/ /\ possible
           /\ server' = [server EXCEPT ![op.dst] = Gone]
           /\ Ends(t, "completed", <<>>)
           /\ UNCHANGED <<budget, excused>>
        \/ /\ IF possible THEN Spend("failures") ELSE UNCHANGED budget
           /\ Ends(t, "failed", <<>>)
           /\ excused' = IF \/ possible
                            \/ \E p \in Places : IsBelow(p, op.dst) /\ (p \in excused \cup leftovers \/ MovesLater(p))
                         THEN excused \cup {op.dst} ELSE excused
           /\ UNCHANGED server
     /\ UNCHANGED <<partials, foreign, told, leftovers, unsent, passedBy>>

\* A discard that is refused, or whose removal fails, leaves the partial file and ends like any other.
RemoteDiscards(t) ==
  /\ IsAt(t, "sent", "discard")
  /\ \/ /\ partials' = partials \ {Op(t).dst}
        /\ UNCHANGED <<budget, leftovers>>
     \/ /\ Op(t).dst \in partials
        /\ Spend("failures")
        /\ leftovers' = leftovers \cup {Op(t).dst}
        /\ UNCHANGED partials
  /\ Ends(t, "completed", <<>>)
  /\ UNCHANGED <<server, foreign, told, unsent, passedBy, excused>>

\* Another client of the server.
ForeignWrites(p) ==
  /\ Spend("foreign")
  /\ ParentIsThere(server, p) /\ server[p] # Dir
  /\ clock' = clock + 1
  /\ server' = [server EXCEPT ![p] = clock']
  /\ foreign' = foreign \cup {clock'}
  /\ excused' = excused \cup {p}
  /\ UNCHANGED <<disk, partials, events, tracker, order, agenda, told, leftovers, unsent, passedBy>>

ForeignDeletes(p) ==
  /\ Spend("foreign")
  /\ IsFile(server[p])
  /\ server' = [server EXCEPT ![p] = Gone]
  /\ excused' = excused \cup {p}
  /\ UNCHANGED <<disk, partials, events, clock, tracker, order, agenda, foreign, told, leftovers, unsent, passedBy>>

----------------------------------------------------------------------------------
Init ==
  /\ disk = Disk0
  /\ server = [p \in Places |-> Gone]
  /\ partials = {} /\ events = <<>>
  /\ clock = CHOOSE n \in {Disk0[p] : p \in Places} : \A p \in Places : Disk0[p] <= n
  /\ entry = NoEntry /\ options = Options
  /\ known = NothingKnown /\ pending = <<>> /\ failures = {}
  /\ order = <<>> /\ conflicts = <<>> /\ agenda = <<>>
  /\ budget = [edits |-> MaxEdits, moves |-> MaxMoves, foreign |-> MaxForeign, failures |-> MaxFailures,
               losses |-> MaxLosses, choices |-> MaxChoices, watches |-> MaxWatches]
  /\ foreign = {} /\ told = {} /\ leftovers = {} /\ unsent = {} /\ passedBy = {} /\ excused = {}

Tickets == {order[i].ticket : i \in DOMAIN order}

Edits ==
  \/ \E p \in Places : WriteFile(p) \/ MakeDirectory(p) \/ DeleteEntry(p) \/ MoveOut(p)
  \/ \E p, q \in Places : MoveEntry(p, q)
  \/ LoseChanges
  \/ \E p \in Places : ForeignWrites(p) \/ ForeignDeletes(p)

Users ==
  \/ UploadAndWatch \/ Stop
  \/ \E o \in Toggles : SetOption(o)
  \/ \E p \in failures : RetryFailure(p) \/ DismissFailure(p)

Answers == \E t \in Tickets : AnswerReplace(t) \/ AnswerKeep(t)

Handlers ==
  \/ OnChange \/ OnContentChanged \/ OnLookAt \/ OnDeleted \/ OnRemoveRemote \/ OnRemoveKnown
  \/ OnDiscardPartial \/ OnQueueUpload \/ OnUploadLacking \/ OnCheckServer \/ OnAsk \/ OnEnqueue
  \/ OnFinish \/ OnLeave
  \/ \E t \in Tickets : OnUploadEnded(t) \/ OnRenameEnded(t) \/ OnOtherEnded(t)

Operations ==
  \E t \in Tickets :
    \/ UploadStarts(t) \/ UploadChecks(t) \/ UploadReplaces(t) \/ UploadTold(t) \/ UploadCanceled(t)
    \/ DirectoryUploadStarts(t) \/ DirectoryUploadEnds(t)
    \/ \E p \in Places : DirectoryUploadSends(t, p)
    \/ RemoteRenames(t) \/ RemoteRemoves(t) \/ RemoteDiscards(t)

Next ==
  \/ Edits \/ Users \/ Answers \/ Handlers \/ Operations \/ ConnectionLost
  \/ \E t \in Tickets : UploadFails(t)

Spec == Init /\ [][Next]_vars

\* The session strand runs what is posted to it, and the operation queue and the server go on with
\* what they were given.  Nobody edits, answers or retries without end.
FairSpec == Spec /\ WF_vars(Handlers \/ Operations)

----------------------------------------------------------------------------------
(* What the tracker owes its user. *)

Phases == {"waiting", "dropped", "starting", "ending", "here", "sent", "running", "checked", "stat", "ended"}

TypeOK ==
  /\ disk \in [Places -> Nat] /\ server \in [Places -> Nat]
  /\ partials \subseteq Places /\ failures \subseteq Places
  /\ clock \in Nat /\ foreign \subseteq Nat /\ told \subseteq foreign
  /\ options \subseteq OptionNames
  /\ Watching => entry.local \in ItemNames /\ entry.remote \in ItemNames
  /\ Paths(known) \subseteq Places /\ known.kept \subseteq Places
  /\ DOMAIN known.sent \subseteq DOMAIN known.files
  /\ DOMAIN pending \subseteq Places
  /\ \A i \in DOMAIN order : order[i].phase \in Phases /\ order[i].paths \subseteq Places
  /\ \A i, j \in DOMAIN order : i < j => order[i].ticket < order[j].ticket

Started(o) == o.phase \notin Unstarted \cup {"ending"}

\* Two operations of the tracker that are on their way at once never touch the same path or one
\* above it, although the operation queue runs them side by side: a delete meets no upload that
\* followed it, and a directory no delete of its content.
NeverSideBySide ==
  \A i, j \in DOMAIN order :
    i < j /\ Started(order[i]) /\ Started(order[j]) => ~PathsOverlap(order[i].paths, order[j].paths)

\* Between two handlers nothing is forgotten: what waits in the server order waits for something
\* before it, what the tracker holds back waits for the user's answer, and each upload on its way has
\* its place in the order, so a change that was put off goes some time.
NothingStuck ==
  Idle =>
    /\ \A i \in DOMAIN order :
         CASE order[i].phase = "waiting" -> \E j \in 1..(i - 1) : PathsOverlap(order[j].paths, order[i].paths)
           [] order[i].phase = "here" -> Contains(conflicts, order[i].ticket)
           [] OTHER -> order[i].phase \in {"sent", "running", "checked", "stat", "ended"}
    /\ \A start \in DOMAIN pending :
         \E i \in DOMAIN order : /\ order[i].op.kind = "upload" /\ IsWatched(order[i].op)
                                 /\ order[i].op.path = start

\* Each upload of the watch that is on its way has a record of its own among the pending uploads, from
\* the change until it ended: what happens to its path meanwhile is kept for it and for no other.
OneRecordEach ==
  Idle =>
    LET uploads == {i \in DOMAIN order : order[i].op.kind = "upload" /\ IsWatched(order[i].op)}
    IN /\ \A i \in uploads : order[i].op.path \in DOMAIN pending
       /\ \A i, j \in uploads : order[i].op.path = order[j].op.path => i = j

Settled == Idle /\ events = <<>> /\ order = <<>>

\* Nothing of the watched item differs from the server once everything settled, whatever changed,
\* moved or left while an upload of it was on its way.  Except at and below a listed failure or a
\* directory that left with its content (known.kept), and where a history says why not: excused, an
\* operation failed, went unanswered or only seemed to fail, the user declined, dismissed or switched
\* mirroring off, others changed the server, or the watch before had it; passedBy, a move, a deletion
\* or the end of an upload overtook another (the divergences of the README, one by one).
Mirrors ==
  Settled /\ Watching =>
    \A p \in Places :
      IsWithin(p, entry.local) =>
        \/ server[RemotePathOf(p)] = disk[p]
        \/ RemotePathOf(p) \in excused \cup passedBy
        \/ \E f \in failures : IsWithin(p, f)
        \/ \E d \in known.kept : IsWithin(p, d)

\* What the tracker believes of the server is so once everything settled: the next check compares
\* with what the server has.  What is gone locally is left to its deletion; the listed failures and the
\* histories are excepted as in Mirrors.
KnowsTheServer ==
  Settled /\ Watching =>
    \A p \in DOMAIN known.files :
      \/ IsGoneLocally(p)
      \/ server[RemotePathOf(p)] = known.files[p]
      \/ RemotePathOf(p) \in excused \cup passedBy
      \/ \E f \in failures : IsWithin(p, f)

\* The disk, what the tracker believes and the server agree once everything settled, through moves of
\* whole trees, lost reports, failed operations, other clients and a second watch, but for the
\* exceptions of Mirrors and KnowsTheServer.  A rename that happened although its wait timed out is one
\* at its new place: that the tracker comes to rest after it is what is asked there.
InStep == Mirrors /\ KnowsTheServer

\* A stopped upload leaves no partial file on the server that nobody continues or removes.  A failed
\* one leaves it for the next attempt.
NoPartialLeft == Settled => partials \subseteq leftovers

\* Whatever happens, the tracker comes to rest: no handler and no upload goes round in circles, and in
\* the end only uploads whose question the user left open are held back, with what waits for them.
ComesToRest ==
  <>[]/\ Idle /\ events = <<>>
      /\ \A i \in DOMAIN order : order[i].phase \in {"here", "waiting"}
      /\ conflicts = <<>> => order = <<>>

\* An upload that compares never replaces what another client wrote before the last check, unless
\* the tracker was told of that version as the state after its own upload.
ForeignVersionsStay ==
  [][\A t \in Tickets :
       /\ Op(t).kind = "upload" /\ UploadReplaces(t) /\ server' # server
       /\ Op(t).compares /\ server[Op(t).dst] = Op(t).seen
       => server[Op(t).dst] \notin foreign \ told]_vars

================================================================================
