-------------------------- MODULE MCOperationQueue --------------------------
(* Instances of OperationQueue for TLC.                                    *)
EXTENDS OperationQueue, TLC
CONSTANTS file, upload, bulk, tree, archive, removals, removal, rename, remoteScan, localScan

KindOf == [o \in Ops |-> CASE o = file -> "transfer" [] o = upload -> "transfer" [] o = bulk -> "list"
                           [] o = tree -> "tree" [] o = archive -> "archive" [] o = removals -> "deletes"
                           [] o = removal -> "delete" [] o = rename -> "rename" [] OTHER -> "scan"]
NoScans == [o \in {} |-> o]
BothScans == (remoteScan :> localScan) @@ (localScan :> remoteScan)
=============================================================================
