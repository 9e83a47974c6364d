# A TLA+ verification of zagg-core

zagg-core is a replicated ledger: validators agree on the next transaction set
with the SCP consensus protocol, apply it to an SQL ledger and a list of
buckets, publish history archives and catch up from them. This directory holds
TLA+ models of its parts, the TLC runs that check them on small instances, and
TLAPS proofs of what matters most for every instance. Paths below are relative
to `src/src/` of the repository.

## The system

| Part | State | Operations | Talks to | What is hard |
|---|---|---|---|---|
| quorum sets (`scp/LocalNode`, `scp/QuorumSetUtils`) | a node's quorum set, the quorum sets others announced | slice, v-blocking and quorum tests, weights, normalisation | called by both SCP protocols and by the herder | nested thresholds, fixpoints, rounding |
| ballot protocol (`scp/BallotProtocol`) | ballots b, p, p', h, c, phase, latest statement of each node, timer | `processEnvelope`, `bumpState`, timer expiry, restore | statements to and from other nodes, `valueExternalized` | any order of statements, nested handling of own statements, timeouts, crashes, Byzantine nodes |
| nomination (`scp/NominationProtocol`) | votes, accepted, candidates, leaders, round | `nominate`, `processEnvelope`, restore | gives the composite value to the ballot protocol | leaders that are silent, rounds that grow |
| herder (`herder/HerderImpl`, `HerderSCPDriver`) | tracking state, trigger and tracking timers, transaction queue | receive envelope or transaction, trigger next ledger, externalize, lose sync, restore | SCP, ledger manager, overlay, database | re-entrance: an item that arrives may externalize a slot in the middle of a handler |
| pending envelopes (`herder/PendingEnvelopes`, `overlay/ItemFetcher`, `Tracker`) | envelopes per slot: fetching, ready, processed, discarded; caches; trackers with timers | receive envelope or item, discard, slot closed | herder, peers | items shared by envelopes, cancelled trackers, caches that evict |
| transaction queue and sets (`herder/HerderImpl`, `TxSetFrame`, `Upgrades`) | four generations of transactions per account with cached totals; scheduled upgrades | receive, build and validate a set, combine candidates, age, forget | SCP driver, ledger manager | what was valid when it was queued and is not any more |
| ledger manager, catchup (`ledger/LedgerManagerImpl`, `catchup/`) | sync state, last closed ledger, buffered ledgers | value externalized, catchup finished | herder, history | gaps, retries |
| `LedgerTxn` (`ledger/LedgerTxn*`) | stack of nested edits over the database | load, create, erase, commit, rollback | transactions | shadowed entries, caches |
| bucket list (`bucket/`) | levels, each with curr, snap and a merge in progress; bucket files | add batch, spill, resolve, restart merges, collect garbage, apply a checkpoint | ledger manager, history | merges in background threads, restart, files that somebody still needs |
| history (`history/`, `historywork/`) | publish queue with bucket references, archives | queue, publish, fail, retry, give up | bucket list, processes | crash between queueing and publishing, publications that fail half way |
| work (`work/`) | tree of works with states and retries | start, run, success, failure, retry, abort | everything asynchronous | callbacks of aborted work |
| overlay (`overlay/`) | peers, handshake state, flood records | authenticate, flood, drop | everything networked | handshake order |
| transactions (`transactions/`) | accounts, trust lines, offers, data, liabilities | validate, charge, apply, roll back | `LedgerTxn` | arithmetic at the limits, rounding, liabilities that every operation must keep |

What makes the parts correct: two validators never externalize different values
and, as long as statements get through, all of them externalize; a restart
contradicts nothing that was sent; the quorum tests mean what the definition of
a quorum says; no handler reaches an assertion or a thrown "bad state"; nothing
incomplete reaches SCP and nothing that misses an item is forgotten; what a node
proposes is valid; operations conserve lumens and leave no offer that cannot be
honoured; the bucket list is a function of the ledgers closed, whatever stopped
in between; and every checkpoint gets into the archive whole.

## Modules

* `QuorumSets` - the quorum-set algorithms as operators: `isQuorumSlice`,
  `isVBlocking`, `isQuorum` (the fixpoint of `LocalNode::isQuorum`),
  `findClosestVBlocking` (with no node excluded, or the one that asks, as its only
  caller does), `getNodeWeight`, `isNodeInQuorum`, `normalizeQSet`,
  `isQuorumSetSane`. Quorum sets are records of a threshold, validators and inner
  sets; they nest by recursive operators, so only TLC uses this module.
* `LocalNode` - a node that changes its quorum set and records the quorum sets of
  the others; the algorithms are checked against definitions of what they mean.
* `SCPBallots` - ballots, the three kinds of statement, their order
  (`isNewerStatement`), their sanity and what each of them votes for or accepts.
* `BallotProtocol` - the local state of one slot as a record and every function
  of `BallotProtocol.cpp` as an operator from state to state. A handler is the
  whole C++ call, with the nested handling of the node's own statements; a
  failed assertion or exception is recorded in the field `err`.
* `BallotNetwork` - nodes that start (`BumpState`, when nomination has a
  composite), receive each other's statements, time out, crash and restart. The
  network never forgets a statement: `Receive` may deliver the last one of a
  node or, if `limits.keepOld`, any older one; loss is a `Receive` that never
  happens. `CrashRestart` restores the persisted statement as
  `HerderImpl::restoreSCPState` does.
* `FederatedAgreement` - the abstract protocol: each node has sets of ballots it
  votes to prepare, accepts as prepared, votes to commit, accepts as committed
  and decided; a `Step` adds to the sets of one node what federated voting over
  the others' sets allows. Byzantine nodes claim anything.
* `BallotRefinement` - maps the statements of `BallotNetwork` to those sets.
* `FederatedAgreementProofs` - the TLAPS proofs.
* `NominationProtocol` - the local state of nomination for one slot and its
  functions: `nominate` with rounds and leaders, `processEnvelope` with the
  promotion of votes to accepted values and of these to candidates,
  `emitNomination` (again through the node's own `processEnvelope`) and the
  restore. Values are numbers, statements pairs of sets; the hashes, the driver's
  `validateValue` and `extractValidValue` and what is proposed are parameters, and
  so is what the quorum sets say (slices, blocking sets, weights), which
  `MCNominationNetwork` computes with `QuorumSets`. The recursion through the
  node's own statements is a recursive function (`processed`).
* `NominationNetwork` - nodes that are triggered, time out, receive statements,
  are stopped by the ballot protocol, crash and restart.
* `Checkpoints` - the arithmetic of history checkpoints
  (`history/HistoryManagerImpl.cpp`) and `CatchupWork::makeCatchupRange`: which
  ledgers a catchup downloads and whether it starts from the buckets of a
  checkpoint.
* `LedgerManager` - the states of the ledger manager, the buffer
  (`SyncingLedgerChain`), the catchup work and the replay of buffered ledgers.
  Each handler of the event loop is an action: a value is externalized
  (`valueExternalized`, any newer ledger, because the herder may have missed
  some), the catchup command, each step of `CatchupWork`, its failure, the posted
  `applyBufferedLedgers`, and a restart. A ledger is its number. A failed
  assertion sets `err`, after which only a restart happens; the catchup command
  starts from the state the code checks for, so it does not throw.
* `LedgerManagerProofs` - the TLAPS proofs about these two.
* `ItemFetcher` - the trackers: which peer is asked for an item, which envelopes
  wait for it, the timer, `stopFetch` and `stopFetchingBelow`.
* `PendingEnvelopes` - the four sets of envelopes (fetching, ready, processed,
  discarded), the caches of transaction sets and quorum sets and their eviction.
* `Herder` - composes these two with the tracking of slots, the queue of
  envelopes, `triggerNextLedger`, `valueExternalized` and the ledger manager. A
  handler is one step of the event loop and calls the others as the code does: an
  item that arrives may hand envelopes to SCP, externalize a slot, close a ledger
  and erase envelopes before it returns. SCP itself is `receiveEnvelope`, which
  externalizes a slot when a quorum named one set (what the SCP modules show).
* `TransactionQueue` - the transactions that wait in `HerderImpl`, in four
  generations with their cached totals; `TxSetFrame::trimInvalid`,
  `surgePricingFilter` and `checkValid`; `Upgrades`; the combination of
  candidates; what closing a ledger removes, ages and drops. Composes with
  accounts that other nodes' transactions change. The code sorts transactions and
  walks through them; the model says which ones it keeps (`RunOf`, those that
  follow each other from the account's number on; `Before`, how many come first).
  Of several with the same number any one is kept, as `std::sort` leaves it open.
  A candidate is a value that this node found valid too (`promoteVotes`).
* `OfferExchange` - `exchangeV10` and `adjustOffer` as arithmetic on naturals.
* `LedgerEntries` - accounts, trust lines, offers and data as one record; balances
  and liabilities (`TransactionUtils`, `TrustLineWrapper`).
* `Operations` - `doApply` of every operation since protocol 10, with the
  conversion through offers (`convertWithOffers`, `crossOfferV10`).
* `Transactions` - fees, sequence numbers, application with rollback, and the
  upgrade of the reserve (`prepareLiabilities`).
* `BucketList` - buckets as functions from keys to values, `Bucket::merge` with
  shadows and dead entries, `FutureBucket`, spills and `addBatch`, what applying one
  bucket does to entries (`BucketApplicator`), and what a list stands for (`Contents`).
  The code changes the levels from the last to the first, so that each level sees
  those above as they were; here each level is a function of the list before.
* `BucketManager` - composes them into a node: `closeLedger` from the batch to the
  collection of garbage, merges that end at any time, the phases of `PublishWork`
  with failures, and the process that stops between two steps or inside
  `closeLedger`, before or after its commit. `PutState` copies the archive state and
  `Published` deletes the checkpoint from the queue, so it may also stop between them
  and publish again. What memory, the bucket directory,
  the database and the archive hold are four variables; a restart keeps three.
* `BucketApply` - extends it by the sizes of levels and `ApplyBucketsWork`, which
  skips the buckets a node has in common with a checkpoint. They recurse, and are kept
  apart from what is proved.
* `NominationProofs` - the TLAPS proofs about nomination.
* `NumberFacts` - lemmas that these modules of proofs share: induction, the highest
  and the lowest of a set, quotients and their rounding, sums over finite sets.
* `TransactionQueueProofs`, `BucketManagerProofs` (with `BucketList`),
  `OperationsProofs` (with the exchange of offers), `TransactionsProofs` - the TLAPS
  proofs about these modules; the last one extends the one before it.
* `MCLocalNode`, `MCBallotNetwork`, `MCFederatedAgreement`,
  `MCNominationNetwork`, `MCHerder`, `MCTransactionQueue`, `MCTransactions`,
  `MCBucketManager` - instances for TLC.

Operators whose name has an underscore and that are marked "mutant" are wrong
versions of the operator after them. Each property is shown to fail when one of
them takes that operator's place; nothing else uses them.

## Runs

| Run | Question |
|---|---|
| `quorums` | Do the algorithms mean what slices, blocking sets and quorums mean? For one quorum set: every sane set over four nodes up to renaming, nested up to three levels. For many (quorum fixpoint, reachability): every combination of flat sets of three nodes, with statements that are missing and with any one quorum set that nobody has sent yet. |
| `ballots_schedules` | Three nodes, 2-of-3, conflicting composites; statements in any order, stale ones too, or timeouts at two nodes, or a crash at any step and a restart, or a crash among timeouts. Is a handler ever in a bad state; does a node contradict what it sent or lose a commit; does the timer follow the quorum and move on; does every node externalize? |
| `ballots_byzantine` | Four nodes, 3-of-4, one of which tells different nodes different things, or seems to lag behind the others' timeouts. Do two nodes ever externalize different values; does a node catch up with a v-blocking set? |
| `ballots_refine` | Does every concrete step map to a step of `FederatedAgreement` or a stutter? |
| `nomination` | Three nodes, one of which rejects a value and may be stopped, leaders that change with the round, a crash, statements that arrive before nomination starts: does a node stand by what it sent, is a candidate accepted by a set that blocks every node, does every node get candidates and do they converge? |
| `agreement` | The abstract protocol and the inductive invariant of the proof. |
| `catchup` | A node that joins, misses ledgers, catches up by itself or by command, fails and restarts at any step: do the states, the work and the buffer stay consistent; is what it downloads published and does it connect; can anything but buckets skip a ledger; does every catchup end? |
| `envelopes` | A node follows the network: envelopes in any order, items fetched from peers that answer, lack them or drop, slots that externalize inside handlers, loss of sync, catchup, restart. Does SCP get only what is complete; is everything that is missing being fetched; do envelopes get through? |
| `proposals` | Transactions wait while ledgers close with other transactions, fees and set sizes are upgraded and the node restarts. Is what the node proposes valid, whatever became of the queue; are the cached totals exact; does every transaction leave? |
| `operations` | Any six ledgers of trades, payments, paths, trust and authorization changes; or of creations, merges, options, data, sequence bumps and inflation; with changes of the reserve; or of trades with tight limits. Are lumens conserved, offers backed and honourable, sub-entries counted, sequence numbers never reused, and is no internal error thrown? |
| `operations_reserve` (violation) | A raised reserve erases an offer and leaves its liabilities (Divergences, 1). |
| `storage` | Twenty-four ledgers, three checkpoints, merges that end at any time, a publication that fails at any step, a process that stops at any moment. Is the bucket list that of an undisturbed node; is any file deleted that somebody needs; does the archive ever name what it lacks; does a checkpoint give back the ledger to a node that stopped at any earlier ledger; is every checkpoint published? |

**Bounds.** Each behaviour of `BallotNetwork` picks one of the bounds in
`Limits` and keeps it in the variable `limits`: the counters at which the timer of
each node may expire (`timer`), how many crashes there are and of whom
(`crashes`, `crash`), what a Byzantine node says (`lies`), and whose statements may
still arrive after newer ones (`keepOld`). One
expiry at each of two nodes is enough for ballots of two values to overtake each
other, for commits to be aborted and for a node to catch up. One crash is
enough: a second one restores the same single statement. To put a crash and
timers together, two nodes have gone on alone when the run begins (`alone`, the
handlers applied to the first ballots: they heard each other, timed out and heard
each other again); the third follows, may vote to commit their value, crash,
and time out at their counter: the case of `Forgot` is reached. In
`ballots_byzantine` all three nodes begin like that, time out at counters 2 and 3, and
the fourth seems to be left at 1: a node that a v-blocking set is ahead of and
that does not follow is reached, which takes four nodes. The run `ballots_schedules` uses the
symmetry of the two nodes with the same composite also for liveness: fairness
and property name no node, and no behaviour returns to a state it left, so that
what is checked is where behaviours end.
Two values are enough for a conflict; more are symmetric to one of them. In
`agreement` there are two ballots that conflict; letting a step add two claims
reaches the same states as one claim at a time. `ballots_refine` lets one node time
out, once, and nobody crash: that the protocol with more timers and crashes
implements `FederatedAgreement`, whose agreement is proved for everything, is
not shown. Agreement itself is checked on `BallotNetwork` in the first ballot
and after timeouts (`ballots_byzantine`).

In `catchup` a checkpoint has four ledgers and the network closes thirteen, so
that there are three checkpoints: a target before, at and after a boundary, a
range that starts with buckets, one that cannot, and a second catchup after the
first. `Count` (`CATCHUP_RECENT`) is five, more than one checkpoint and less than
two. The commands ask for the latest checkpoint (0), for a ledger before a
boundary (6), for one at it (7) and for one after it (10). One restart is
enough: all it keeps is the last closed ledger.

In `envelopes` there are two slots after the one the node starts with
(`MaxSlot` 3), the node remembers one slot and looks one ahead
(`MAX_SLOTS_TO_REMEMBER`, `LEDGER_VALIDITY_BRACKET`), so that the second slot
pushes the first out of the window. Of two peers one stays and has everything,
the other has one quorum set and may drop. A behaviour has one of two traffics:
one node that changes its quorum set, or two nodes that name the same transaction
set, one of them with a quorum set that is refused. One restart.

In `proposals` there are two accounts and four transactions: two with the same
sequence number, one that follows and expires earlier, one that competes. A set
holds two, later one. After time `MaxTime` nothing changes any more, so it stands
for all later times, and ledgers close for ever: deadlock is checked.

In `operations` amounts end at `INT64_MAX` 30, so that the limits and the
rounding of prices such as 2/3 and 3/2 are met with a handful of units; six
ledgers (`MaxLedger` 7) let an offer be made, crossed partly, changed, crossed
again and its line closed, or an account be created, filled, merged, and created
and merged again. The menus are separate to keep the number of ledgers up. The
third, `rooms`, has offers whose owner has just the room for what they promise,
the case where `adjustOffer` may lower an offer (Divergences, 11).

In `storage` there are three levels instead of eleven, the fewest where a merge
has shadows and a last level drops dead entries; the last level gets its first
entries at ledger 16, so that the checkpoint of ledger 23 has them. A checkpoint
has eight ledgers, the smallest frequency the code has
(`ARTIFICIALLY_ACCELERATE_TIME_FOR_TESTING`). One entry is never changed, one is
written by most ledgers, one is created, erased, created and erased, one is
erased before it reaches the last level. The process stops once and a
publication fails once, at any two points. A failed upload is taken to have left
no file behind: the code never looks at what is there, so it is the worst case.

**Deadlock** is not checked (`CHECK_DEADLOCK FALSE`) in the runs of one slot: a
slot ends when all have externalized; nor where ledgers are bounded (`catchup`,
`envelopes`, `operations`, `storage`): the network stops after `MaxLedger` or
`MaxSlot`.

In nomination `Rounds` is the number of rounds after which the hashes, and so
the leaders, repeat: two, led by n1 and n3 in turn, so that n2 leads none and
every node has to take a leader's values over. A node of `MayCrash` crashes as
long as `Proposal` has another value for its new process. `MayCrash`, `Timers` and
`MayStop` name the nodes a run lets crash, time out and be stopped by their
ballot protocol. In `quorums` the shapes of one quorum set start from one
representative of each renaming (the algorithms treat nodes alike).

**Fairness.** `BallotNetwork!FairSpec` has weak fairness of starting, receiving
from honest nodes or timing out, of all nodes taken together, which is weaker
than what the program gives: nomination ends, armed timers are the event
loop's, and the herder rebroadcasts its last statements every two seconds
(`herder/HerderImpl.cpp`, `rebroadcast`). `NominationNetwork!FairSpec` has weak
fairness of the trigger, of each timer, and of the delivery of each node's last
statement. A statement that is overtaken need never arrive. Enabling conditions
are spelt out instead of written with ENABLED, which TLC evaluates slowly here.
`LedgerManager!FairSpec` has weak fairness of the catchup work, whose steps end
or fail since downloads are retried a bounded number of times, and of the posted
replay. Nothing is assumed of what the network closes.
`Herder!FairSpec` says of timers, posted calls and peers that stay that they do
not keep the node waiting for ever: a tracker does not wait for the same peer
with its timer armed for ever (the timer of `Tracker` is armed for 1.5 s), a
posted call is made, and a peer that stays answers. This is weak fairness of
these steps, said by the condition each of them ends, which TLC evaluates faster
than ENABLED of such large actions. `TransactionQueue!FairSpec` only says that
ledgers go on closing (`parity` alternates with each). `BucketManager!FairSpec`
has weak fairness of publishing as a whole: workers end their merges, the
works of the event loop run, the posted call is made; at most `MaxFailures`
publications fail.

## Proofs

`FederatedAgreementProofs` proves `Spec => []IInv` and `Spec => []Agreement`
for any finite or infinite set of nodes, any quorum sets, any Byzantine nodes
and any number of ballots. The assumptions are those of the module: any two
quorums of intact nodes share an intact node (`QuorumIntersection`), and the
nodes outside `Intact` alone block no intact node (`IntactNotBlocked`).

Agreement alone is not inductive: that two nodes decided the same says nothing
about votes that are still on their way to a quorum. `IInv` adds that

* what a quorum voted to commit is aborted by nothing accepted as prepared
  (`NothingAborts`);
* a commit vote is backed: the quorum that confirmed its ballot as prepared
  is there, or its value has a root, a quorum that voted to commit it
  (`VotesAgree`, `CommitsHaveRoots`);
* what is aborted can never be committed: a quorum is blocked for it
  (`AbortedForGood`);
* a decided value has a root (`DecisionsHaveRoots`).

Two roots have the same value because their quorums share an intact node, whose
commit votes at different counters need what is accepted between them. The
lemmas follow the order in which a step adds claims: accept prepared, vote,
accept committed, decide.

`LedgerManagerProofs` begins with `RangeIsSound`, for every checkpoint frequency
above one. The provers know little of division, so the module first proves what
rounding down means (`DivBounds`), that two multiples less than a step apart are
the same (`SameMultiple`), and from these that a checkpoint contains its ledger
(`ContainingLedger`) and where its file starts (`FileOfBoundary`). A range then
either starts from the buckets of a boundary that is past the last closed
ledger, or from a ledger whose checkpoint is the one after the last closed
ledger or has it inside (`ConnectsWithoutBuckets`).

It goes on to prove, for every frequency, number of ledgers, restarts,
count and manual target, that `IInv`, `RangeSound`, `AssertionsHold` and
`TargetPublished` always hold and that steps satisfy `OnlyBucketsSkipLedgers`.
The assumptions are that the frequency is above one and the bounds are numbers.
`IInv` has the parts that need each other:

* `StatesMatch` - which catchup state has a work, or a posted replay, under way;
  without it a second work could be started, or a replay find a work running;
* `BufferSound` - the buffer has no gaps and is empty when nothing waits for it;
  `push` and the replay keep it so (`PushContiguous`, `PopContiguous`);
* `WorkSound` - nothing is closed while a work downloads, so the range it
  computed from the last closed ledger still connects when it is applied;
* `SyncedIsCurrent` - in sync means at the ledger the herder tracks. A gap leaves
  the state, and only a ledger that follows the last closed one comes back to it.

That targets are published needs one more fact, `TriggerSound`: while the node
waits, the trigger ledger is that of the first buffered ledger.

`AssertionsHold` rests on `TargetPublished` and on `StraySound`: unless the buffer
is `stray`, a catchup under way is one the node started and its range ends where it
was asked to, just before the buffer; so when the replay begins, and after each
ledger it closes, the first buffered ledger follows the last closed one.

`TransactionQueueProofs` proves that `QueueTotalsAreExact` always holds, for any
accounts, transactions and number of ledgers. Its invariant `QueueInv` is the
property with the type of the maps and the finiteness of their sets. `addTx`
updates the cached totals step by step, and the proof is that it ends with what
`recalculate` would compute (`RecalculateIsExact` and the lemmas on sums and
maxima); `updatePendingTransactions` removes, shifts and recalculates, and a
transaction is looked for in all generations before it enters the first.

It also proves `ProposalsAreValid`, for any finite sets of accounts and
transactions: what `triggerNextLedger` builds of the queue passes `checkValid`, so
that its exception is never thrown. What `trimInvalid` keeps of an account follows
from its sequence number on and can be paid for (`TrimmedIsValid`); such a set
loses nothing when it is checked again (`NothingToTrim`); and surge pricing leaves
a first part of each account's transactions, because it compares accounts by
their cheapest transaction: that is an order in which an account's transactions
come by their numbers (`BeforeIsOrder`), the first n of an order are n and with each
all that come before it (`FirstOfOrder`), and a first part follows as well
(`FirstPartFollows`, `SurgedIsValid`). That candidates combine to a valid value is
`CombinedIsValid`. The invariant `ProposalInv` adds to `QueueInv` the types: accounts
have numbers, and the upgrades that are scheduled or nominated have too.

`OperationsProofs` begins with `exchangeV10` and `adjustOffer`, for every price,
amount and `INT64_MAX`. The amounts of an exchange keep within the four limits
and whoever stays on the book is not worse off than by the price
(`ExchangeWithinLimits`); two offers exchange something for something or nothing
at all (`OffersExchange`); adjusting an offer again has no effect
(`AdjustIsIdempotent`), nor has adjusting it with the room left for what it
promises, unless its price is above one and the room is just that
(`AdjustHasNoEffect`), when it may lose some of its amount
(`AdjustMayHaveAnEffect`, an example); and a path payment that crosses an adjusted offer never
exceeds the price error bound (`PathPaymentsExchange`). So the errors of
`exchangeV10` that say "out of bounds" or "exceeded price error bound" cannot be
thrown. The arithmetic is that of naturals; the code computes the products in 128
bits. The argument is the code's own comment made exact: the value of an exchange
is the smaller of two products, and rounding divides it by the price of whoever
does not stay.

`TransactionsProofs` proves `ConservationOfLumens`, `SubEntriesAreCounted` and
`SequencesNeverRewind` of `Transactions`, for all accounts, assets, issuers,
menus, fees, rates and reserves. The assumptions are those the modules name: a
transaction in a set has operations that pass `doCheckValid`
(`MenusAssumption`), the first ledger is sound (`GenesisAssumption`; that of the
code has one account and no other entry), and the parameters are numbers. The
invariant `IInv` adds to the three properties what each needs of the others:

* entries have their form (no limit is above `INT64_MAX`, no amount negative),
  liabilities fit into balances and limits, and every
  offer has an identifier that was handed out (`Sound`); otherwise a credit could
  take a balance past `INT64_MAX`, an inflation share not fit, or a new offer
  replace one;
* between ledgers nothing is thrown (`Fine`), since what threw is rolled back;
* an account is past what `spent` says of it, and one that is gone was below
  what an account created in the next ledger starts with (`SpentBelow`). A merge
  refuses an account that is past that number, and the number grows with the
  ledger.

The proof has a lemma for every operator on ledgers in `OperationsProofs`. They
say what changes (`Moved`: balances and liabilities; `Charged`: a sub-entry count;
`Traded`: both and the book) and by how many lumens, and compose. The loops are
recursive functions over numbers or subsets, whose existence is proved by
induction on the number of rounds (`RoundsExist`, `HopsExist`, `StatesExist`) or
on subsets (`ChainExists`); then an invariant of the loop follows by
`Induction`, which is itself proved in `NumberFacts` from the well-foundedness of
the naturals, without a theorem that takes an operator.

The second part of `TransactionsProofs` proves `OffersAreBacked`. To the assumptions
above it adds `OffersAssumption`: in the first ledger the liabilities are what the
offers promise, nobody has a line of an asset of his own, and who sells has the
lines that back his offers. Summed promises cannot be followed through a trade
directly, because the operations release the liabilities of an offer before they
change the book and acquire them again at the end. So the proof follows the
difference, for one account, one asset and one side at a time: `Slack` is the
liability less what the offers on the book pledge (`Pledged`, which is `Promises`,
by `PromisesArePledged`). The steps of an operation move it by the share of one
offer, up when the offer leaves the book and down when its liabilities are released
(`PledgesWithout`, `ReleaseFollows`), and the whole of each operation that keeps
account and line moves it by nothing (`Follows`, with 0); the lemmas about one operation each are the last part of
`OperationsProofs`. An account that is merged
has no entries, so no offers (`MergeSecures`), and a line that is dropped has no
liabilities, so no offers either (`DropLineSecures`); a line is only frozen when its offers are
gone (`AllowTrustSecures`). The loops are again recursive functions, and
`RoundStays`, `HopStays` and `TakeAllThins` their invariants. An operation that fails
or throws may leave anything behind, so the claim about it says nothing until the
transaction is kept or rolled back (`SecureAfter`). A rise of the reserve needs an
argument of its own (`PrepareCovers`): an asset with an offer that stays is given the
exact liabilities, and one without has no pledges; this is where the equality is
lost, the first of the divergences below. The invariant is `BInv`, which together
with `IInv` gives the property: no slack is negative, and until a reserve was
raised every slack is zero and frozen lines have no liabilities. It says one
thing more, which the next part needs: a line that offers pledge something on
is authorized, after a reserve was raised too (`ThawedAt`).

The last part of `TransactionsProofs` proves `OffersCanBeHonoured`: the step at
which `crossOfferV10` releases the liabilities of an offer does not throw, its
seller then has the amount it sells and room for what it is promised, and
`adjustOffer` leaves the offer as it is but for the case of
`AdjustMayHaveAnEffect`. That liabilities cover promises is not enough for it, nor
is it inductive: releasing the liabilities of an offer that sells lumens fails
below the reserve, and an amount that `adjustOffer` would change promises
something else than what it sells. The invariant `HInv` adds the two facts, and the three
invariants `IInv`, `BInv` and `HInv` together are inductive:

* `AllWell` - every offer on the book has an amount that `adjustOffer` with no
  limits leaves alone. An offer gets its amount from `adjustOffer` with some
  limits, when it is made and when it is crossed; that the same amount then stays
  without limits is `LeftIsWell`.
* `Solvent` - whoever sells lumens has his reserve, besides what he owes. Each
  operation that lowers this balance checks it; `Tends` says that a step lowers it
  only of an account that keeps it above zero, and composes. A step that
  changes sub-entries and balance of one account in turn, as making an offer
  does, is followed as a whole. A rise of the reserve takes away the offers of
  accounts that are below it (`PrepareHonours`, `ApplyReserveUpgradeHonours`).

From these, `OfferIsSecured` says that both holdings behind an offer carry at
least its promises and are authorized, `OfferIsFreed` that releasing it succeeds
and lowers just these liabilities (`Freed`), and `FreedSells` and `FreedBuys` that
what is released is there to sell and to receive; `AdjustHasNoEffect` is the rest.

`NominationProofs` proves `NoBadState`, `NominationsStand` and
`CandidatesBlockEveryone` of `NominationNetwork`, for any finite sets of nodes and
values, any hashes, leaders, validity and variations of values, and any number of
crashes. What it assumes of the quorum sets is that a set with a slice in it is one
and that a set with a blocking set in it blocks (`QuorumSetsAssumption`); for
`CandidatesBlockEveryone` also that a quorum of one node blocks every node
(`QuorumsBlock`, a hypothesis of the theorem, which TLC evaluates for the network
of the run). The argument has two halves.

* A handler is a recursion: a statement changes what the node votes for, so it
  processes its own statement, which may change that again. The recursion ends
  because the statement only grows in finite sets of values (`Room`, `RoomShrinks`);
  so the function `processed` exists (`ProcessingExists`), and an induction on
  `Room` shows that the node's own statement is never found invalid and that the
  last one emitted is what the node ends with (`EmissionEnds`). The statement the
  node has recorded of itself must be older than its present one each time, which
  is why `Settled` says that both, and `mLastEnvelope`, are the same between handlers.
* `IInv` is what the steps of the network keep: every node is `Settled` and has
  persisted its last statement (`NodesRest`); what a node has sent, or another has
  heard of it, is covered by what it has persisted (`SentIsPersisted`,
  `HeardIsPersisted`); and a quorum accepts each candidate (`CandidatesAccepted`).
  A node counts a quorum by what it has heard, so the candidates need
  `HeardIsPersisted`; and that a restart takes nothing back needs `NodesRest`, which
  makes what was persisted what the node last accepted. `keepSatisfied` drops nodes
  until those left satisfy each other (`SatisfiedQuorate`).

`BucketManagerProofs` proves `ListIsThatOfTheLedger`, `NothingNeededIsDeleted` and
`ArchiveIsComplete` of `BucketManager`, for any number of levels above one, any
checkpoint frequency, any ledgers, and any number of restarts and failures
(`LevelsAssumption` and `FrequencyAssumption` are all it assumes). It has three layers.

* A list of a node that is never interrupted. `ListInv` says what is being merged
  into each level until the spill that commits it (`Pending`): the snap of the level
  above with this level's curr, or with nothing when curr is moved away before
  the commit; and every key that shadows the merge is still in a level above. A
  key is where it was or one level below after a batch (`FromCurr`, `FromSnap`), so
  a shadow stays above what it hides until the commit (`StaysAbove`); this
  is the argument for the two levels `addBatch` leaves out of the shadows. When each
  level spills is arithmetic on its size (`SpillIs`, `SpillsTogether`,
  `NextSpillIs`); `levelSize` is a recursive function whose existence is proved by
  induction (`SizesExist`). `ListInvKept` keeps `ListInv`, and `ContentsKept` is what
  it is for: a batch added to a list is the batch applied to the contents.
* Lists that differ in what workers have done. `Same` says that two lists have the
  same buckets and merges that give the same; batches, saving, resolving and ending
  a merge respect it (`SameAfterBatch` and so on), and it keeps the
  contents (`SameContents`). `Held` adds that the files of a list's buckets and merge
  inputs are there; `Kept` that they are when the merges are started again from the
  database.
* The node. `IInv` says that the list in memory is the same as that of the last
  closed ledger, each list in the database as that of its ledger, and likewise
  for the work and the archive; that the references counted in memory are
  those of the publish queue (`RefsAdded`, `RefsRemoved`: a bucket queued twice
  is kept when one of the two is published); and what each phase of a
  publication has secured (`WorkInv`): nothing is left to merge after "resolve", what is
  to be sent with what the archive has is the whole checkpoint after "write", and the
  archive has it all before it is named. Collecting buckets removes nothing that
  is needed (`CollectOk`, by `NeededIsThere`), and a process that starts finds its files (`StartOk`),
  wherever it stopped, inside `closeLedger` too (`CloseOk` gives both of its ends).

Only model-checked: that every catchup settles and every checkpoint is published;
everything about envelopes; that applying a checkpoint reproduces the ledger
(`BucketApply` recurses over levels, and it holds for networks in use only, the tenth
divergence below); that nothing throws; that the concrete protocol implements the abstract
one and everything else about `BallotNetwork` (its operators, and those of
`QuorumSets` below them, recurse); liveness (fairness and ENABLED are beyond the
prover); and the quorum-set algorithms (recursive over nesting). `NothingThrows`
would need a lemma for each place that throws; those of `exchangeV10`
(`ExchangeWithinLimits`, `PathPaymentsExchange`) and of the release of an offer on
the book (`OfferIsFreed`) are proved; and since a failed operation does not end a
transaction, an invariant of what such an operation may leave behind. What
`Herder` says of envelopes needs bounds on the slots that its run meets: `addTxSet`
gives a cached set the slot it is called with, which may be lower than the one it
had.

## Divergences

What the models showed of the code that its comments, or a reader, would not
expect. The first is a run; the others are excluded from a property by a named
condition or by the bounds given above, or were met on the way.

1. `prepareLiabilities` (`herder/Upgrades.cpp:663`) brings only those assets in
   line for which an offer stays. When a higher reserve erases every offer of an
   account in an asset, their liabilities stay on the account or line, although
   its comment says "Update liabilities to reflect offers remaining in the book".
   Run `operations_reserve`; `OffersAreBacked` asks for equality only until a
   reserve was raised (`raised`).
2. `addSellingLiabilities` refuses any change, a decrease too, of an account whose
   balance is below its new minimum. `prepareLiabilities` then throws "invalid
   selling liabilities during upgrade", which `closeLedger` catches and logs: the
   upgrade that was agreed on is dropped, by all nodes alike. `NothingThrows`
   names it.
3. A payment of lumens that its destination cannot hold is a path payment with
   the result LINE_FULL, which `PaymentOpFrame` does not expect of lumens; it throws
   and the transaction is an internal error. `NothingThrows` names it.
4. `ItemFetcher::stopFetch` cancels a tracker that nobody waits for and keeps it in
   `mTrackers`, where a later `fetch` finds it and only adds a listener: the item is
   never asked for again until the tracker is erased. It takes a discarded
   envelope that shares the item; `Abandoned` in `Herder`.
5. `triggerNextLedger` computes its slot before `addTxSet`, which may complete an
   envelope and externalize that slot.
6. `LiabilitiesMatchOffers::shouldCheckAccount` compares `current` with itself.
7. The validity of `MarkAccount` depends on the answer of a Bitcoin node next to
   the validator; the "return false" of `OperationFrame::checkValid` for an
   unsupported version is commented out.
8. The replay of buffered ledgers asserts that each follows the last closed one
   (`ledger/LedgerManagerImpl.cpp:709`). It fails in two ways. A ledger that leaves
   a gap is buffered when the replay has emptied the buffer but not ended. Or a
   catchup was started by command (`CommandHandler::catchup`), which begins with no
   buffer: a ledger externalized meanwhile, at or below its target or after a gap, is
   the first of a buffer that the target does not lead up to. `AssertionsHold`
   says that nothing else makes it fail (`stray` remembers how the buffer began):
   a catchup the node starts by itself always leads up to its buffer.
9. `attemptBump` (`scp/BallotProtocol.cpp:1380`) stops its scan for a v-blocking
   set ahead at the first counter below the node's own, so a node that knows one
   slower node stays behind, until it hears from a quorum and times out;
   `CatchesUpWithVBlocking` says just that. A restart loses `mValueOverride`
   (`:1709`): when the node voted to commit a value and nomination now gives it
   another, the timeout proposes the latter, `updateCurrentValue` refuses it
   (`:416`), and the node keeps its ballot without a timer until other nodes move it
   on. `TimeoutMovesOn` and `TimerFollowsQuorum` name that state (`Forgot`); every
   node externalizes all the same in the run that has it. `nominate` votes for values of
   new leaders although the node has candidates
   (`scp/NominationProtocol.cpp:495`, comment at `:403`).
10. `ApplyBucketsWork` skips buckets that are equal to the node's own, and deletes
    from the database only what was modified since the oldest ledger of the first
    bucket that differs. A dead entry does not say which ledger it is from. On a
    network that writes nothing else, an entry that is erased, created and erased
    again (ledgers 7, 10 and 11 with three levels) leaves a node that stopped at
    ledger 10 with the same older buckets as the checkpoint of ledger 15, and the
    entry survives the catchup; likewise when all that reaches the last level is
    dead entries. `storage` has an entry that stays and one that most ledgers
    write, as a network in use has.
11. `crossOfferV10` adjusts an offer before it crosses it, with the comment "As of
    the protocol version 10, this call to adjustOffer should have no effect. We
    leave it here only as a preventative measure."
    (`transactions/OfferExchange.cpp:948`). It has one when the seller's room to
    receive is just what the offer promises and its price is above one: an offer
    of 10 at 10/9 promises 11, and with room for 11 `adjustOffer` makes it 9
    (`AdjustMayHaveAnEffect`). Nothing is lost: the offer is crossed for what is
    left of it, and `OffersCanBeHonoured` names the case.
12. `findClosestVBlocking` (`scp/LocalNode.cpp:297`) passes over the node that asks,
    for a validator and inside inner sets, but counts an inner set that this node
    satisfies alone as one that can be blocked, or is blocked already. What
    `getJsonQuorumInfo` shows as `fail_at` (`scp/BallotProtocol.cpp:2048`) is then
    too small; `ClosestVBlockingIsSmallest` excludes sets that the excluded node
    satisfies alone.

## Not modelled

* A crash between `valueExternalized` and the persisting of the EXTERNALIZE
  statement (the ledger then is past the slot), and one in the middle of the
  application of buckets, which is one step here.
* Signatures, thresholds, hashes, the wire and file formats; offers and rounding of protocols before 10.
* `LedgerTxn`: nesting and caches. `Transactions` takes or leaves a ledger record.
* The scheduler of works and processes: works are phases that fail and are
  retried. The offline command lines.
* The overlay below messages: handshake, flooding, load, bans. Delivery in any
  order, loss and repetition stand for it.
* Sending the SCP state to peers that ask for it; more than one archive; the
  download of buckets that are missing at the start (`storage` shows that none
  is, as long as nobody else deletes files).

The parts without a module are listed in `PROJECT.json` with the reason.

## Plan

Done: the quorum sets, both SCP protocols, agreement and its proof, the ledger
manager and catchup with their proofs, envelopes and item fetching, the
transaction queue, operations and offers with their proofs, the proofs about
nomination, the bucket list and publication with their proofs. Next:

1. Proofs: that nothing throws, from `OffersAreHonoured` and the lemmas of
   `OperationsProofs` on what changes. The invariants of `BallotNetwork`, in the form
   that `NominationProofs` has; its operators have to be rewritten without recursion first.
2. `LedgerTxn` as a refinement of a flat map.
3. The work scheduler, with callbacks of aborted works; processes.
4. The handshake of peers and the floodgate.
5. Nomination composed with the ballot protocol.
