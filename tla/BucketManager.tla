---------------------------- MODULE BucketManager ---------------------------
(***************************************************************************)
(* A node that closes ledgers, keeps the buckets in files, publishes       *)
(* checkpoints to an archive, collects unreferenced buckets, and may stop  *)
(* at any moment: BucketManagerImpl, HistoryManagerImpl, the publishing    *)
(* works and the end of LedgerManagerImpl::closeLedger.                    *)
(*                                                                         *)
(* m is lost when the process stops: the bucket list, the buckets known by *)
(* their hash (mSharedBuckets), the references of the publish queue, and   *)
(* the work that publishes.  files is the bucket directory, db what the    *)
(* database has committed.  The value of an entry is the ledger that       *)
(* changed it.                                                             *)
(***************************************************************************)
EXTENDS BucketList, Bags, Checkpoints

CONSTANTS
    Genesis,          \* keys of the first ledger
    Changes,          \* Changes[l]: what ledger l may do, records of keys written and erased
    MaxLedger,        \* bound: the last ledger
    MaxRestarts,      \* bound: times the process stops
    MaxFailures       \* bound: times publishing fails

VARIABLES
    m, files, db, archive,
    chain,            \* chain[l]: the list and the entries after ledger l of a node that
                      \* is never interrupted
    restarts, failures, err

vars == <<m, files, db, archive, chain, restarts, failures, err>>

NoWork == [phase |-> "none"]

\* The function f with the value v for x.
With(f, x, v) == [y \in DOMAIN f \cup {x} |-> IF y = x THEN v ELSE f[y]]

Files(buckets) == buckets \ {Empty}

-----------------------------------------------------------------------------
(* References to buckets *)

queueRefs(queue) ==
    [b \in UNION {allBuckets(queue[l]) : l \in DOMAIN queue} |->
        Cardinality({l \in DOMAIN queue : b \in allBuckets(queue[l])})]

getReferencedBuckets(n, d) == allBuckets(n.list) \cup allBuckets(d.has) \cup BagToSet(n.refs)

\* Buckets that a future or its worker points to.
HeldBy(list) ==
    UNION {getHashes(list[i].next)
              \cup (IF mergeComplete(list[i].next) THEN {Output(list[i].next, i - 1)} ELSE {}) : i \in Level}

InUse(n) ==
    HeldBy(n.list) \cup (IF n.pub = NoWork THEN {} ELSE HeldBy(n.pub.list))

\* What forgetUnreferencedBuckets removes.
Unreferenced(n, d) == n.shared \ (getReferencedBuckets(n, d) \cup InUse(n))

Missing(fs, buckets) == Files(buckets) \ fs

-----------------------------------------------------------------------------
(* HistoryManagerImpl: takeSnapshotAndPublish of the first checkpoint that is queued, *)
(* whose merges are started again.                                                  *)

publishQueuedHistory(n, d) ==
    LET ledger == Min(DOMAIN d.queue)
        list   == d.queue[ledger]
    IN  IF n.pub # NoWork \/ DOMAIN d.queue = {} THEN n
        ELSE [n EXCEPT
                !.pub = [phase |-> "resolve", ledger |-> ledger, list |-> list,
                         original |-> allBuckets(list), toSend |-> {}],
                !.shared = @ \cup Files(UNION {getHashes(list[i].next) : i \in Level})]

isCheckpoint(ledger) == ledger + 1 = nextCheckpointLedger(ledger + 1)

removeBuckets_all(refs, buckets) ==  \* mutant: forgets buckets that are queued twice
    [b \in BagToSet(refs) \ buckets |-> refs[b]]

removeBuckets(refs, buckets) == refs (-) SetToBag(buckets)

differingBuckets(has, other) ==
    LET out(l) == IF isLive(l.next) THEN {l.next.out} ELSE {}
        named(list) == UNION {{list[i].curr, list[i].snap} \cup out(list[i]) : i \in Level}
    IN  Files(named(has) \ named(other))

-----------------------------------------------------------------------------
(* Closing a ledger *)

Batch(ledger, c) == [k \in c.live \cup c.dead |-> IF k \in c.live THEN ledger ELSE DEAD]

storeCurrentLedger(d, ledger, batch, list) ==
    [d EXCEPT !.lcl = ledger, !.entries = applyBucket(@, batch),
              !.has = saveList(resolveAnyReadyFutures(list))]

queueCurrentHistory(d, ledger, list) ==
    IF isCheckpoint(ledger) THEN [d EXCEPT !.queue = With(@, ledger, saveList(list))] ELSE d

\* Memory and database after the batch is added and the checkpoint queued.
Closed(batch, ledger) ==
    LET list == addBatch(m.list, ledger, batch)
        adopted == Files(fresh(batch) \cup {list[i].curr : i \in Level})
    IN  [m  |-> [m EXCEPT !.list = list, !.shared = @ \cup adopted,
                          !.refs = IF isCheckpoint(ledger) THEN @ (+) SetToBag(allBuckets(list))
                                   ELSE @],
         files |-> files \cup adopted,
         db |-> queueCurrentHistory(storeCurrentLedger(db, ledger, batch, list), ledger, list)]

Uninterrupted == chain[db.lcl]

extend(batch, ledger) ==
    With(chain, ledger, [list |-> addBatch(Uninterrupted.list, ledger, batch),
                         entries |-> applyBucket(Uninterrupted.entries, batch)])

\* loadLastKnownLedger: assumeState, cleanupStaleFiles, publishQueuedHistory.
Started(fs, d) ==
    LET needed == allBuckets(d.has) \cup UNION {allBuckets(d.queue[l]) : l \in DOMAIN d.queue}
        n == [list |-> d.has, shared |-> Files(allBuckets(d.has)), refs |-> queueRefs(d.queue),
              pub |-> NoWork, posted |-> FALSE]
    IN  [m |-> publishQueuedHistory(n, d), files |-> fs \cap (getReferencedBuckets(n, d) \cup n.shared),
         err |-> IF Missing(fs, needed) = {} THEN "" ELSE "missing buckets"]

\* The genesis ledger was closed (startNewLedger).
Init ==
    LET batch == Batch(1, [live |-> Genesis, dead |-> {}])
        list == addBatch(NewList, 1, batch)
    IN  /\ db = [lcl |-> 1, entries |-> batch, has |-> saveList(list), queue |-> <<>>]
        /\ m = [list |-> list, shared |-> {batch}, refs |-> EmptyBag, pub |-> NoWork, posted |-> FALSE]
        /\ files = {batch}
        /\ archive = [files |-> {}, states |-> <<>>, wellKnown |-> NewList]
        /\ chain = [l \in {1} |-> [list |-> list, entries |-> batch]]
        /\ restarts = 0 /\ failures = 0 /\ err = ""

-----------------------------------------------------------------------------
(* Actions.  Nothing happens after an error. *)

Running == err = ""

MayChange(c) ==
    /\ Running
    /\ db.lcl < MaxLedger
    /\ c \in Changes[db.lcl + 1]
    /\ c.dead \subseteq DOMAIN db.entries

\* The transaction is committed, then publishing starts, then buckets are collected.
closeLedger(c) ==
    /\ MayChange(c)
    /\ LET ledger == db.lcl + 1
           batch  == Batch(ledger, c)
       IN  /\ \E closed \in {Closed(batch, ledger)} :
                 LET n    == publishQueuedHistory(closed.m, closed.db)
                     gone == Unreferenced(n, closed.db)
                 IN  /\ db' = closed.db
                     /\ m' = [n EXCEPT !.shared = @ \ gone]
                     /\ files' = closed.files \ gone
           /\ chain' = extend(batch, ledger)
    /\ UNCHANGED <<archive, restarts, failures, err>>

\* A worker ends the merge of a level, of the list or of the checkpoint.
MergeDone(i) ==
    /\ Running
    /\ isMerging(m.list[i].next) /\ ~ m.list[i].next.done
    /\ LET out == Files({Output(m.list[i].next, i - 1)}) IN
       /\ m' = [m EXCEPT !.list[i].next.done = TRUE, !.shared = @ \cup out]
       /\ files' = files \cup out
    /\ UNCHANGED <<db, archive, chain, restarts, failures, err>>

SnapshotMergeDone(i) ==
    /\ Running
    /\ m.pub # NoWork
    /\ isMerging(m.pub.list[i].next) /\ ~ m.pub.list[i].next.done
    /\ LET out == Files({Output(m.pub.list[i].next, i - 1)}) IN
       /\ m' = [m EXCEPT !.pub.list[i].next.done = TRUE, !.shared = @ \cup out]
       /\ files' = files \cup out
    /\ UNCHANGED <<db, archive, chain, restarts, failures, err>>

-----------------------------------------------------------------------------
(* PublishWork *)

Publishing(phase) == Running /\ m.pub.phase = phase

\* It waits for the ledger after the checkpoint and for its merges.
ResolveSnapshot ==
    /\ Publishing("resolve")
    /\ LET list == resolveAnyReadyFutures(m.pub.list) IN
       m' = [m EXCEPT !.pub.list = list,
                      !.pub.phase = IF db.lcl > m.pub.ledger /\ futuresAllResolved(list)
                                    THEN "write" ELSE @]
    /\ UNCHANGED <<files, db, archive, chain, restarts, failures, err>>

\* The history files are written, the archive is asked for its state, and what it
\* does not have is to be sent.
GetArchiveState ==
    /\ Publishing("write")
    /\ LET toSend == differingBuckets(m.pub.list, archive.wellKnown) IN
       /\ m' = [m EXCEPT !.pub.phase = "put", !.pub.toSend = toSend, !.shared = @ \cup (toSend \cap files)]
       /\ err' = IF toSend \subseteq files THEN "" ELSE "no bucket to send"
    /\ UNCHANGED <<files, db, archive, chain, restarts, failures>>

PutFiles ==
    /\ Publishing("put")
    /\ m' = [m EXCEPT !.pub.phase = "state"]
    /\ archive' = [archive EXCEPT !.files = @ \cup m.pub.toSend]
    /\ UNCHANGED <<files, db, chain, restarts, failures, err>>

putState(a, where) ==
    [a EXCEPT !.states = IF "seq" \in where THEN With(@, m.pub.ledger, m.pub.list) ELSE @,
              !.wellKnown = IF "wellKnown" \in where THEN m.pub.list ELSE @]

historyPublished_quiet(success) ==  \* mutant: does not look at the queue again
    /\ m' = [m EXCEPT !.pub = NoWork,
                      !.refs = IF success THEN removeBuckets(@, m.pub.original) ELSE @]
    /\ db' = IF success
             THEN [db EXCEPT !.queue = [l \in DOMAIN @ \ {m.pub.ledger} |-> @[l]]]
             ELSE db

historyPublished(success) ==
    /\ m' = [m EXCEPT !.pub = NoWork, !.posted = TRUE,
                      !.refs = IF success THEN removeBuckets(@, m.pub.original) ELSE @]
    /\ db' = IF success
             THEN [db EXCEPT !.queue = [l \in DOMAIN @ \ {m.pub.ledger} |-> @[l]]]
             ELSE db

PutState ==
    /\ Publishing("state")
    /\ archive' = putState(archive, {"seq", "wellKnown"})
    /\ m' = [m EXCEPT !.pub.phase = "done"]
    /\ UNCHANGED <<files, db, chain, restarts, failures, err>>

Published ==
    /\ Publishing("done")
    /\ historyPublished(TRUE)
    /\ UNCHANGED <<files, archive, chain, restarts, failures, err>>

PublishFails_stateFirst(where, giveUp) ==  \* mutant: the state is put before the files
    /\ Publishing("put") /\ failures < MaxFailures /\ where = {"wellKnown"}
    /\ failures' = failures + 1
    /\ archive' = putState(archive, where)
    /\ m' = [m EXCEPT !.pub.phase = "resolve"]
    /\ UNCHANGED <<files, db, chain, restarts, err>>

\* A step fails, and of the state of the archive only `where' is written: the work is
\* tried again from its beginning, or given up.  The files that were sent before the
\* failure are not asked for again; the archive is taken to have none of them.
PublishFails(where, giveUp) ==
    /\ Running
    /\ failures < MaxFailures
    /\ failures' = failures + 1
    /\ \/ (Publishing("write") \/ Publishing("put")) /\ where = {} /\ UNCHANGED archive
       \/ /\ Publishing("state") /\ where # {"seq", "wellKnown"}
          /\ archive' = putState(archive, where)
    /\ IF giveUp THEN historyPublished(FALSE)
       ELSE m' = [m EXCEPT !.pub.phase = "resolve"] /\ UNCHANGED db
    /\ UNCHANGED <<files, chain, restarts, err>>

PostedPublish ==
    /\ Running
    /\ m.posted
    /\ m' = publishQueuedHistory([m EXCEPT !.posted = FALSE], db)
    /\ UNCHANGED <<files, db, archive, chain, restarts, failures, err>>

-----------------------------------------------------------------------------
(* The process stops and starts again. *)

Restarted(fs, d) ==
    /\ restarts < MaxRestarts
    /\ restarts' = restarts + 1
    /\ \E n \in {Started(fs, d)} : m' = n.m /\ files' = n.files /\ err' = n.err
    /\ db' = d
    /\ UNCHANGED <<archive, failures>>

\* Between two steps: killed, or stopped by gracefulStop, which collects buckets.
Crash ==
    /\ Running
    /\ \E gone \in {{}, Unreferenced(m, db)} : Restarted(files \ gone, db)
    /\ UNCHANGED chain

\* In the middle of closeLedger, before its transaction is committed.
CrashBeforeCommit(c) ==
    /\ MayChange(c)
    /\ LET ledger == db.lcl + 1 IN Restarted(Closed(Batch(ledger, c), ledger).files, db)
    /\ UNCHANGED chain

\* After it is committed, before or after buckets are collected.
CrashAfterCommit(c) ==
    /\ MayChange(c)
    /\ LET ledger == db.lcl + 1
           batch  == Batch(ledger, c)
       IN  /\ \E closed \in {Closed(batch, ledger)} :
                 LET n == publishQueuedHistory(closed.m, closed.db)
                 IN  \E gone \in {{}, Unreferenced(n, closed.db)} :
                        Restarted(closed.files \ gone, closed.db)
           /\ chain' = extend(batch, ledger)

\* What the works of the event loop and the workers of the checkpoint do by themselves.
PublishStep ==
    \/ \E i \in Level : SnapshotMergeDone(i)
    \/ ResolveSnapshot \/ GetArchiveState \/ PutFiles \/ PutState \/ Published \/ PostedPublish

Next ==
    \/ \E c \in UNION {Changes[l] : l \in DOMAIN Changes} :
          closeLedger(c) \/ CrashBeforeCommit(c) \/ CrashAfterCommit(c)
    \/ \E i \in Level : MergeDone(i)
    \/ PublishStep
    \/ \E where \in SUBSET {"seq", "wellKnown"}, giveUp \in BOOLEAN : PublishFails(where, giveUp)
    \/ Crash

Spec == Init /\ [][Next]_vars

\* Workers end their merges, and the works of the event loop run.
FairSpec == Spec /\ WF_vars(PublishStep)

-----------------------------------------------------------------------------

\* The list, with what its merges will give, is that of a node that is never stopped,
\* whatever the workers have done and whenever the process stopped (the hash of the
\* list is part of the ledger header), and its newest entries are the database.
ListIsThatOfTheLedger ==
    /\ SameList(m.list, Uninterrupted.list)
    /\ Contents(m.list) = db.entries

\* Every bucket that a restart, a merge or a checkpoint needs has its file; so
\* assumeState does not throw "Missing bucket files while assuming saved BucketList
\* state" and no bucket to send is null.
NothingNeededIsDeleted ==
    /\ err = ""
    /\ Missing(files, getReferencedBuckets(m, db) \cup InUse(m)) = {}
    /\ \A l \in DOMAIN db.queue : Missing(files, allBuckets(db.queue[l])) = {}

\* The archive has every bucket of the checkpoints it names, and these are those of
\* the ledger, whatever failed before they were named.
ArchiveIsComplete ==
    /\ Missing(archive.files, allBuckets(archive.wellKnown)) = {}
    /\ \A l \in DOMAIN archive.states :
          /\ Missing(archive.files, allBuckets(archive.states[l])) = {}
          /\ SameList(archive.states[l], chain[l].list)

\* Every checkpoint is published once the ledger after it is closed, whatever failed
\* or stopped meanwhile (behaviours close finitely many ledgers).
CheckpointsArePublished ==
    []<>(\A l \in 1..(db.lcl - 1) : isCheckpoint(l) => l \in DOMAIN archive.states)
=============================================================================
