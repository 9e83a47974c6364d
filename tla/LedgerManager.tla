--------------------------- MODULE LedgerManager ---------------------------
(***************************************************************************)
(* Which ledger is the last closed one: the ledger manager, which closes   *)
(* what the herder externalizes, buffers it while it is behind, and lets   *)
(* a CatchupWork replay history.  A ledger stands for its sequence number. *)
(*                                                                         *)
(* A handler of the event loop is one action.  The work is a sequence of   *)
(* handlers, and so is the replay of buffered ledgers, which posts itself  *)
(* again after each of them; values are externalized in between.           *)
(***************************************************************************)
EXTENDS Checkpoints, Sequences

CONSTANTS MaxLedger,      \* bound: the last ledger the network closes
          MaxRestarts,    \* bound: restarts of the process
          Count,          \* CATCHUP_RECENT, or UINT32_MAX with CATCHUP_COMPLETE
          ManualTargets   \* ledgers asked for by the catchup command

ASSUME BoundAssumption ==
    /\ MaxLedger \in Nat /\ MaxRestarts \in Nat /\ Count \in Nat
    /\ ManualTargets \subseteq Nat

VARIABLES
    mState,                 \* LM_BOOTING, LM_SYNCED or LM_CATCHING_UP
    mCatchupState,
    mSyncingLedgers,        \* ledgers buffered while catching up
    mCatchupTriggerLedger,
    mLastClosedLedger,
    work,                   \* the CatchupWork: its phase, target and range
    posted,                 \* a call of applyBufferedLedgers is in the event loop
    tracking,               \* the herder's mConsensusIndex, kept when it loses track
    err,                    \* the assertion that failed, if any
    restarts,
    stray                   \* history: the first ledger of the last buffer need not
                            \* follow what was replayed when it came, see Note

vars == <<mState, mCatchupState, mSyncingLedgers, mCatchupTriggerLedger,
          mLastClosedLedger, work, posted, tracking, err, restarts, stray>>

NoWork == [phase |-> "none", manual |-> FALSE, to |-> 0, count |-> 0, lcl |-> 0,
           range |-> [first |-> 0, last |-> 0, buckets |-> FALSE]]

\* A network that was started with this node, or one that it joins.
Init ==
    /\ mState \in {"LM_BOOTING", "LM_SYNCED"}
    /\ mCatchupState = "NONE"
    /\ mSyncingLedgers = <<>>
    /\ mCatchupTriggerLedger = 0
    /\ mLastClosedLedger = GENESIS_LEDGER_SEQ
    /\ work = NoWork
    /\ posted = FALSE
    /\ tracking = GENESIS_LEDGER_SEQ
    /\ err = ""
    /\ restarts = 0
    /\ stray = FALSE

\* Assertions and exceptions that end the process, or a manual catchup's request.
Assertions ==
    {"", "target ledger is not newer than LCL", "manual catchup with buffered ledgers",
     "catchup already in progress", "catchup starts with buffered ledgers",
     "catchup ends with buffered ledgers", "buckets are not those of the verified ledger",
     "applying ledger earlier than LCL", "buffered ledger does not follow LCL"}

Running == err = ""

-----------------------------------------------------------------------------
(* Functions of the ledger manager. *)

setState(s) ==
    /\ mState' = s
    /\ mCatchupState' = IF s # mState /\ s # "LM_CATCHING_UP" THEN "NONE" ELSE mCatchupState

setCatchupState(s) == mCatchupState' = s /\ mState' = "LM_CATCHING_UP"

\* SyncingLedgerChain::push
push(chain, seq) ==
    IF chain = <<>> \/ chain[Len(chain)] + 1 = seq THEN Append(chain, seq) ELSE chain

\* With the ledgers to be buffered given: the caller sets mSyncingLedgers'.
startCatchup(to, count, manual, chain) ==
    IF to # CURRENT /\ to <= mLastClosedLedger
    THEN /\ err' = "target ledger is not newer than LCL"
         /\ UNCHANGED work
    ELSE IF manual # (chain = <<>>)
    THEN /\ err' = "manual catchup with buffered ledgers"
         /\ UNCHANGED work
    ELSE IF work # NoWork
    THEN /\ err' = "catchup already in progress"
         /\ UNCHANGED work
    ELSE /\ work' = [phase |-> "state", manual |-> manual, to |-> to, count |-> count,
                     lcl |-> mLastClosedLedger, range |-> NoWork.range]
         /\ UNCHANGED err

continueCatchup_toBuffered(seq, s, trigger) ==  \* mutant: catches up to a ledger it has
    LET chain == push(mSyncingLedgers, seq) IN
    /\ mSyncingLedgers' = chain
    /\ IF s = "WAITING_FOR_TRIGGER_LEDGER" /\ seq >= trigger
       THEN /\ setCatchupState("APPLYING_HISTORY")
            /\ startCatchup(chain[1], Count, FALSE, chain)
       ELSE setCatchupState(s) /\ UNCHANGED <<work, err>>

\* addToSyncingLedgers and startCatchupIf, in catchup state s.
continueCatchup(seq, s, trigger) ==
    LET chain == push(mSyncingLedgers, seq) IN
    /\ mSyncingLedgers' = chain
    /\ IF s = "WAITING_FOR_TRIGGER_LEDGER" /\ seq >= trigger
       THEN /\ setCatchupState("APPLYING_HISTORY")
            /\ startCatchup(chain[1] - 1, Count, FALSE, chain)
       ELSE setCatchupState(s) /\ UNCHANGED <<work, err>>

initializeCatchup_prev(seq) ==  \* mutant: waits for the previous checkpoint
    LET trigger == prevCheckpointLedger(seq) + 1 IN
    /\ mCatchupTriggerLedger' = trigger
    /\ continueCatchup(seq, "WAITING_FOR_TRIGGER_LEDGER", trigger)

initializeCatchup(seq) ==
    LET trigger == nextCheckpointLedger(seq) + 1 IN
    /\ mCatchupTriggerLedger' = trigger
    /\ IF mSyncingLedgers # <<>>
       THEN /\ err' = "catchup starts with buffered ledgers"
            /\ setCatchupState("WAITING_FOR_TRIGGER_LEDGER")
            /\ UNCHANGED <<mSyncingLedgers, work>>
       ELSE continueCatchup(seq, "WAITING_FOR_TRIGGER_LEDGER", trigger)

closeLedger == mLastClosedLedger' = mLastClosedLedger + 1

-----------------------------------------------------------------------------
(* The herder externalizes a value.  HerderSCPDriver::valueExternalized      *)
(* drops what is not newer than the ledger it tracks, or tracked last, and    *)
(* the last closed one.  Ledgers are missed when the herder lost track.      *)

valueExternalized(seq) ==
    /\ Running
    /\ seq > tracking /\ seq > mLastClosedLedger
    /\ tracking' = seq
    /\ IF mState # "LM_CATCHING_UP" \/ mCatchupState = "WAITING_FOR_CLOSING_LEDGER"
       THEN IF mState = "LM_CATCHING_UP" /\ mSyncingLedgers # <<>>
            THEN /\ err' = "catchup ends with buffered ledgers"
                 /\ UNCHANGED <<mState, mCatchupState, mSyncingLedgers,
                                mCatchupTriggerLedger, mLastClosedLedger, work>>
            ELSE IF seq = mLastClosedLedger + 1
            THEN /\ closeLedger
                 /\ setState("LM_SYNCED")
                 /\ UNCHANGED <<mSyncingLedgers, mCatchupTriggerLedger, work, err>>
            ELSE /\ initializeCatchup(seq)
                 /\ UNCHANGED mLastClosedLedger
       ELSE /\ continueCatchup(seq, mCatchupState, mCatchupTriggerLedger)
            /\ UNCHANGED <<mCatchupTriggerLedger, mLastClosedLedger>>
    /\ UNCHANGED <<posted, restarts>>

\* CommandHandler::catchup; it answers an exception with an error.
catchup(to, count) ==
    /\ Running
    /\ mState = "LM_SYNCED"
    /\ to = CURRENT \/ to > mLastClosedLedger
    /\ setCatchupState("APPLYING_HISTORY")
    /\ startCatchup(to, count, TRUE, mSyncingLedgers)
    /\ UNCHANGED <<mSyncingLedgers, mCatchupTriggerLedger, mLastClosedLedger, posted,
                   tracking, restarts>>

-----------------------------------------------------------------------------
(* CatchupWork, and what it reports to historyCaughtup. *)

CatchupStarted == Running /\ work.phase # "none"

\* An error at any point: a download, a verification, nothing to catch up to.
historyCaughtupError ==
    /\ CatchupStarted
    /\ setState("LM_BOOTING")
    /\ work' = NoWork
    /\ mSyncingLedgers' = <<>>
    /\ UNCHANGED <<mCatchupTriggerLedger, mLastClosedLedger, posted, tracking, err, restarts>>

\* The state of the archive at the checkpoint of the target, or its latest one.
GotHistoryArchiveState(checkpoint) ==
    /\ CatchupStarted /\ work.phase = "state"
    /\ work.to # CURRENT => checkpoint = checkpointContainingLedger(work.to)
    /\ work.lcl <= checkpoint
    /\ LET to == IF work.to = CURRENT THEN checkpoint ELSE work.to IN
       work' = [work EXCEPT !.phase = "ledgers",
                            !.range = makeCatchupRange(work.lcl, to, work.count)]
    /\ UNCHANGED <<mState, mCatchupState, mSyncingLedgers, mCatchupTriggerLedger,
                   mLastClosedLedger, posted, tracking, err, restarts>>

VerifiedLedgers ==
    /\ CatchupStarted /\ work.phase = "ledgers"
    /\ work' = [work EXCEPT !.phase = IF work.range.buckets THEN "buckets" ELSE "transactions"]
    /\ UNCHANGED <<mState, mCatchupState, mSyncingLedgers, mCatchupTriggerLedger,
                   mLastClosedLedger, posted, tracking, err, restarts>>

\* The last verified ledger of the first checkpoint.
mVerifiedLedgerRangeStart ==
    IF checkpointContainingLedger(work.range.first) <= work.range.last
    THEN checkpointContainingLedger(work.range.first)
    ELSE work.range.last

AppliedBuckets_last ==  \* mutant: the header stored is that of the last ledger verified
    /\ CatchupStarted /\ work.phase = "buckets"
    /\ mLastClosedLedger' = work.range.last
    /\ work' = [work EXCEPT !.phase = "transactions"]
    /\ UNCHANGED <<mState, mCatchupState, mSyncingLedgers, mCatchupTriggerLedger, posted,
                   tracking, err, restarts>>

AppliedBuckets ==
    /\ CatchupStarted /\ work.phase = "buckets"
    /\ IF mVerifiedLedgerRangeStart # checkpointContainingLedger(work.range.first)
       THEN /\ err' = "buckets are not those of the verified ledger"
            /\ UNCHANGED <<mLastClosedLedger, work>>
       ELSE IF mVerifiedLedgerRangeStart < mLastClosedLedger
       THEN /\ err' = "applying ledger earlier than LCL"
            /\ UNCHANGED <<mLastClosedLedger, work>>
       ELSE /\ mLastClosedLedger' = mVerifiedLedgerRangeStart
            /\ work' = [work EXCEPT !.phase = "transactions"]
            /\ UNCHANGED err
    /\ UNCHANGED <<mState, mCatchupState, mSyncingLedgers, mCatchupTriggerLedger, posted,
                   tracking, restarts>>

\* One ledger of the files that were downloaded, if it follows the last closed one.
applyHistoryOfSingleLedger ==
    /\ CatchupStarted /\ work.phase = "transactions"
    /\ mLastClosedLedger < work.range.last
    /\ FirstLedgerIn(checkpointContainingLedger(work.range.first)) <= mLastClosedLedger + 1
    /\ closeLedger
    /\ UNCHANGED <<mState, mCatchupState, mSyncingLedgers, mCatchupTriggerLedger, work,
                   posted, tracking, err, restarts>>

CatchupFinished ==
    /\ CatchupStarted /\ work.phase = "transactions"
    /\ mLastClosedLedger = work.range.last
    /\ work' = NoWork
    /\ setCatchupState("APPLYING_BUFFERED_LEDGERS")
    /\ posted' = TRUE
    /\ UNCHANGED <<mSyncingLedgers, mCatchupTriggerLedger, mLastClosedLedger, tracking, err,
                   restarts>>

applyBufferedLedgers_once ==  \* mutant: does not post itself again
    /\ Running
    /\ posted
    /\ posted' = FALSE
    /\ IF mSyncingLedgers = <<>>
       THEN /\ setCatchupState("WAITING_FOR_CLOSING_LEDGER")
            /\ UNCHANGED <<mSyncingLedgers, mLastClosedLedger, err>>
       ELSE /\ mSyncingLedgers' = Tail(mSyncingLedgers)
            /\ closeLedger
            /\ UNCHANGED <<mState, mCatchupState, err>>
    /\ UNCHANGED <<mCatchupTriggerLedger, work, tracking, restarts>>

applyBufferedLedgers ==
    /\ Running
    /\ posted
    /\ IF mSyncingLedgers = <<>>
       THEN /\ setCatchupState("WAITING_FOR_CLOSING_LEDGER")
            /\ posted' = FALSE
            /\ UNCHANGED <<mSyncingLedgers, mLastClosedLedger, err>>
       ELSE /\ mSyncingLedgers' = Tail(mSyncingLedgers)
            /\ UNCHANGED <<mState, mCatchupState, posted>>
            /\ IF Head(mSyncingLedgers) = mLastClosedLedger + 1
               THEN closeLedger /\ UNCHANGED err
               ELSE /\ err' = "buffered ledger does not follow LCL"
                    /\ UNCHANGED mLastClosedLedger
    /\ UNCHANGED <<mCatchupTriggerLedger, work, tracking, restarts>>

-----------------------------------------------------------------------------

\* The process stops at any point, a failed assertion included, and loads its last
\* closed ledger; the herder tracks that ledger.  With FORCE_SCP it is in sync at once.
Restart ==
    /\ restarts < MaxRestarts
    /\ restarts' = restarts + 1
    /\ mState' \in {"LM_BOOTING", "LM_SYNCED"}
    /\ mCatchupState' = "NONE"
    /\ mSyncingLedgers' = <<>>
    /\ mCatchupTriggerLedger' = 0
    /\ work' = NoWork
    /\ posted' = FALSE
    /\ tracking' = mLastClosedLedger
    /\ err' = ""
    /\ UNCHANGED mLastClosedLedger

WorkStep ==
    \/ \E c \in 1..MaxLedger :
          (c + 1) % getCheckpointFrequency = 0 /\ GotHistoryArchiveState(c)
    \/ VerifiedLedgers
    \/ AppliedBuckets
    \/ applyHistoryOfSingleLedger
    \/ CatchupFinished

Step ==
    \/ \E seq \in 1..MaxLedger : valueExternalized(seq)
    \/ \E to \in ManualTargets, count \in {0, Count} : catchup(to, count)
    \/ WorkStep
    \/ historyCaughtupError
    \/ applyBufferedLedgers
    \/ Restart

\* A ledger that comes during a catchup by command, or that leaves a gap after the
\* replay has emptied the buffer, becomes the first one of a new buffer.
Note ==
    stray' = IF mSyncingLedgers = <<>> /\ mSyncingLedgers' # <<>>
             THEN \/ mCatchupState = "APPLYING_HISTORY"
                  \/ /\ mCatchupState = "APPLYING_BUFFERED_LEDGERS"
                     /\ Head(mSyncingLedgers') # mLastClosedLedger + 1
             ELSE stray

Next == Step /\ Note

Spec == Init /\ [][Next]_vars

\* A step of the work ends or fails (GetHistoryArchiveStateWork and the downloads
\* retry a bounded number of times); posted calls are run.
FairSpec ==
    /\ Spec
    /\ WF_vars((WorkStep \/ historyCaughtupError) /\ Note)
    /\ WF_vars(applyBufferedLedgers /\ Note)

-----------------------------------------------------------------------------
(* The invariant, in parts. *)

TypeOK ==
    /\ mState \in {"LM_BOOTING", "LM_SYNCED", "LM_CATCHING_UP"}
    /\ mCatchupState \in {"NONE", "WAITING_FOR_TRIGGER_LEDGER", "APPLYING_HISTORY",
                          "APPLYING_BUFFERED_LEDGERS", "WAITING_FOR_CLOSING_LEDGER"}
    /\ mSyncingLedgers \in Seq(Nat)
    /\ mCatchupTriggerLedger \in Nat
    /\ mLastClosedLedger \in Nat
    /\ work \in [phase : {"none", "state", "ledgers", "buckets", "transactions"},
                 manual : BOOLEAN, to : Nat, count : Nat, lcl : Nat,
                 range : [first : Int, last : Nat, buckets : BOOLEAN]]
    /\ posted \in BOOLEAN
    /\ tracking \in Nat
    /\ err \in Assertions
    /\ restarts \in Nat

\* Each catchup state has its own kind of work under way.
StatesMatch ==
    /\ mState = "LM_CATCHING_UP" <=> mCatchupState # "NONE"
    /\ work.phase # "none" <=> mCatchupState = "APPLYING_HISTORY"
    /\ work.phase = "none" => work = NoWork
    /\ posted <=> mCatchupState = "APPLYING_BUFFERED_LEDGERS"

\* Buffered ledgers have no gaps, end with the one externalized last or before,
\* and are there only while they are waited for.
BufferSound ==
    /\ \A i \in 1..Len(mSyncingLedgers) :
          mSyncingLedgers[i] = mSyncingLedgers[1] + i - 1 /\ mSyncingLedgers[i] <= tracking
    /\ mCatchupState \in {"NONE", "WAITING_FOR_CLOSING_LEDGER"} => mSyncingLedgers = <<>>
    /\ mCatchupState = "WAITING_FOR_TRIGGER_LEDGER" =>
          mSyncingLedgers # <<>> /\ mSyncingLedgers[1] > mLastClosedLedger + 1

\* The ledger manager is in sync only when the last closed ledger is the one the
\* herder tracks, whatever was missed, caught up with or restarted on the way
\* (LedgerManager::State, "local state is in sync with view of consensus").
SyncedIsCurrent == mState = "LM_SYNCED" => mLastClosedLedger = tracking

\* What a catchup downloads connects to the last closed ledger, and at least as
\* many ledgers as are configured get history, if there are as many, and at most a
\* checkpoint more (CatchupConfiguration).
RangeSound ==
    work.phase \notin {"none", "state"} =>
        /\ RangeConnects(work.range, work.lcl)
        /\ RangeKeepsCount(work.range, work.lcl, work.count)

\* Nothing is closed while history is downloaded, and buckets are applied only if
\* the range starts with them.
WorkSound ==
    /\ work.phase \in {"state", "ledgers", "buckets"} => work.lcl = mLastClosedLedger
    /\ work.phase = "state" => work.to = CURRENT \/ work.to > work.lcl
    /\ work.phase = "buckets" => work.range.buckets
    /\ RangeSound

\* A catchup that the node starts itself ends just before the first buffered
\* ledger, in a checkpoint that the network has closed already
\* (initializeCatchup's trigger ledger): history archives have it.
TargetPublished ==
    work.phase # "none" /\ ~ work.manual =>
        /\ mSyncingLedgers # <<>> /\ work.to = mSyncingLedgers[1] - 1
        /\ checkpointContainingLedger(work.to) < tracking

\* No assertion fails and no exception ends the process, but for one: the replay
\* expects each buffered ledger to follow the last closed one.  It can be wrong only
\* about a buffer that began during a catchup by command, with a ledger at or below the
\* target or one that leaves a gap after it, or that began with a gap after the
\* replay had emptied the one before.  A catchup that the node starts itself always
\* leads up to what it buffered.
AssertionsHold ==
    err # "" => err = "buffered ledger does not follow LCL" /\ stray

IInv ==
    /\ TypeOK
    /\ StatesMatch
    /\ BufferSound
    /\ SyncedIsCurrent
    /\ WorkSound

-----------------------------------------------------------------------------

\* The last closed ledger moves one ledger at a time, restarts included; only the
\* buckets of a catchup skip ledgers, and then to the end of a checkpoint.
OnlyBucketsSkipLedgers ==
    [][\/ mLastClosedLedger' \in {mLastClosedLedger, mLastClosedLedger + 1}
       \/ /\ work.phase = "buckets"
          /\ mLastClosedLedger' > mLastClosedLedger
          /\ (mLastClosedLedger' + 1) % getCheckpointFrequency = 0]_vars

\* A catchup ends: the node waits for a ledger to close, or starts over.
CatchupSettles ==
    mCatchupState \in {"APPLYING_HISTORY", "APPLYING_BUFFERED_LEDGERS"} ~>
        mCatchupState \in {"NONE", "WAITING_FOR_CLOSING_LEDGER"} \/ ~ Running
=============================================================================
