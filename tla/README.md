# Formal model of cooperative clearing

TLA+ models of the backend in `src/backend/src/cooperative_clearing`: a FastAPI service, a polling
worker and PostgreSQL, one set per cooperative node. Nodes talk to each other by signed HTTP
messages; there is no shared database. The models are checked with TLC on small instances, and
the invariants of clearing and of the netting calculation, of local debts and deals, of the journal, of purchases
across nodes, of packages, accounts, members, trust in other nodes, tokens, fraud signals, appeals, aid, rations and
guarantees, and of lots in custody and the rights to them, are proved with TLAPS for every value of the constants.

## Components, their state and how they interact

| Component | State it keeps | Operations | What must hold | Modelled in |
|---|---|---|---|---|
| inter-node clearing engine, coordinator, peer handler (`inter_node_clearing.py`, `clearing_coordinator.py`, `peer_clearing.py`) | cycle row, signed artifacts, prepared obligations, reserved exposure | snapshot, prepare, proposal, approval, certificate, apply, release, reconcile, recover, sweep | nobody applies without every approval; holds are exact and end; net positions stay | `FederatedClearing`, `FederatedNetting` |
| peer reservations, discovery, purchase bridge (`peer_reservations.py`, `discovery.py`, `federated_bridge.py`) | offers, quotes, indexes, trust in their homes; intents, receipts, holds, exposure | publish, import, revoke, search, reserve, commit, cancel, expire | nothing sold twice, one outcome at all nodes | `Catalog`, `FederatedPurchase` |
| sync (`sync.py`) | packages, inbox, conflicts, checkpoint | export, import, resolve, apply | a package takes effect as a whole and once | `SyncPackages` |
| lifecycle, trust contracts, paper (`lifecycle.py`, `service.py`, `paper.py`) | status, keys, contract, limits, bond, incidents, epochs, forms | apply, review, contract, suspend, rotate, rehabilitate, open and close an epoch | a node is admitted only on grounds that hold | `NodeTrust` |
| journal, outbox, idempotency (`modules/journal`, `audit`) | hash chain, outbox rows, receipts, records | append, begin, complete, dispatch | chain unbroken, executed once, delivered once | `Journal` |
| local clearing (`modules/clearing`) | policies, cycles with snapshot, entries, approvals, disputes | propose, approve, collect, freeze, preview, approve, dispute, decide, ready, finalize, reconcile | only uncontested, unchanged debts are cleared, balances preserved, duties separated | `LocalClearing`, `LocalNetting` |
| exchange (`modules/exchange`) | deals, confirmations, obligations, fulfillments, disputes; logistics orders, provenance | revise, confirm, submit, accept, dispute, resolve, mark overdue; order, carry, reconcile | nobody bound by terms he did not confirm, amounts accounted for, goods delivered once | `Exchange`, `Deliveries` |
| responsibility, inventory, rights, custody continuity | assignments; lots, transfers; balances, rights, redemptions; cases | propose, accept; register, attest, offer; issue, freeze, redeem; hold, count, hand over | rights backed by what was counted, held lots stay as counted | `Responsibility`, `Inventory`, `CustodyContinuity` |
| risk, antifraud (`modules/risk`) | share accounts, commitments, cases, compensations; signals | commit, assess, authorize, accept, void; scan, review | shares neither promised twice nor lost, one signal per subject | `Risk`, `Antifraud`, `AntifraudRules` |
| solidarity, crisis, trust | funds and aid; mandates and rations; cases, sanctions, appeals | workflows with separated duties | bounded by what was verified; appeals govern | `Solidarity`, `Crisis`, `Trust` |
| identity | accounts, sessions, factors, grants; members, memberships, merges, cases, batches; service clients and tokens | sign-in, recovery, roles; merge, contain, import; request, rotate, revoke | access rests on what is in force now; no person lost or doubled | `Accounts`, `Members`, `MemberIntake`, `ServiceClients` |
| worker (`cli.py`) | heartbeat | sweeps, recovery, dispatch in one transaction | expiries are reached unless a recovery keeps raising | sweeps in each module, the transaction in `FederatedWorker` and `Journal` |

The coordinator's commands call the other nodes over HTTP from inside an open transaction. The
worker shares the rows with the API through row locks. Everything writes the signed journal and claims
an idempotency key; both are modelled once, in `Journal`, and left out of the other modules.

## Hard behaviours

* A command reads the cycle row before it locks it and never re-reads the status.
* A peer commits although the answer, or the whole command, is lost.
* Loops catch a `DomainError` per node and keep the changes made before it was raised.
* Expiry is decided by each node's own clock and rows, while certificates and commitments travel.
* The worker's transaction is all-or-nothing for unrelated sweeps: one that raises at every poll undoes all others.
* What a decision rests on runs out by itself - contracts, bonds, keys, responsibilities - and nothing is told of it.
* Amounts of an obligation, a lot or a share account are split over several columns by different commands
  under different locks, and statuses are derived from them.
* A local cycle freezes versions of obligations that go on being performed, disputed and cleared by
  other cycles until it is finalized, days later.
* Rows are read without a lock and decided upon while another command changes them (campaigns, mandates,
  rationing rules), and PostgreSQL's READ COMMITTED shows two statements of one command different rows.
* Requests wait days for a second person, and the world they were made in changes.

`PROJECT.json` lists each of them as a hazard at its line.

## Modules

Clearing between nodes:

* `ClearingContract` - the abstract promise of a cycle: approvals, one application per node, the
  proof. Three actions, no messages, no clocks.
* `FederatedClearing` - one cycle over the databases of several nodes. `db[n]` holds the rows of
  node `n`, `tx[s]` an open transaction of the coordinator, `net` the requests given up but not yet
  delivered, `now` the clock. Operators such as `PrepareLocal` or `CanCertify` are the methods of
  `InterNodeClearingService`; actions are the steps of a command (`Open...`, the visit of each node,
  `Commit` or `Rollback`), the request served by a participant (`Call`, `Refused`, `Late`), the
  approval by an operator, the sweep of a worker and the clock.
* `FederatedWorker` - extends `FederatedClearing` with the worker of each node as `run_worker` runs it: a poll sweeps
  and recovers in one transaction. A node may coordinate another cycle whose recovery raises (`reconcile` refuses
  expired snapshots outside the `try` of `recover`); then the poll is rolled back and the sweep with it.
* `FederatedNetting` - the debts themselves, over several cycles: an obligation is kept by its home node alone,
  `LocalNetting` calculates over the snapshots of all, each node applies its own rows. How the nodes agree is
  left to `FederatedClearing`: a cycle here is applied by all affected nodes, one by one, or by none.
* `MCFederatedClearing`, `MCFederatedWorker` - the instances TLC checks; `FederatedClearingProofs` - the proofs about
  `FederatedClearing`. `NettingProofs` - the proofs about `FederatedNetting` and the calculation it instantiates.

Debts of one cooperative:

* `Exchange` - deals, obligations, fulfillments and disputes. One action per command of
  `ExchangeService`; each locks the rows it changes before checking them and is one step.
* `Deliveries` - extends `Exchange` with what is behind a fulfillment: the order that carried it and the
  redemption its product came from, before and after migration 0036. Its `Submit` is the whole command;
  `SubmitFulfillment` of `Exchange` is its part on obligations, and the other commands leave these rows alone.
* `LocalClearing` - extends `Exchange` with the policies and cycles of `ClearingService`; `Netting(_)`
  is the calculation it is given.
* `LocalNetting` - the calculation itself (`calculate_clearing`): bilateral offsets, then simple cycles in
  the order the depth-first search finds them. Its loops are recursive functions of the number of the round
  (`After`): the state after round `k` is the body of the loop applied to the state after `k - 1`.
* `LocalClearingProofs` - the proofs about `Exchange`, `LocalClearing` and `Deliveries`; `MCLocalClearing`,
  `MCLocalNetting` - instances; the second compares the calculation with a reference definition.

Goods and their custodians, each extending the one before:

* `Responsibility` - assignments of a warehouse to a member, with or without a term. `Inventory` - lots, counts, discrepancies,
  custody transfers, and the rights issued on lots with `LotBalance`. `CustodyContinuity` - the case that
  replaces a custodian next to all of these commands. Its specification is the composition.

Goods of other nodes:

* `Catalog` - versions of an offer, quotes and indexes at every node, trust that comes and goes, search.
  `FederatedPurchase` extends it with intents, the holds and exposure of home nodes, both expiries and the
  deal the bridge writes. A home node commits its transaction on its own (`HoldForPeer`, `CommitForPeer`,
  `ReleaseForPeer`); the buyer's transaction may then still roll back.

Other components, one module each: `NodeTrust`, `SyncPackages`, `Accounts`, `ServiceClients`, `Members`,
`MemberIntake`, `Solidarity`, `Crisis`, `Trust`, `Risk`, `Antifraud`, `AntifraudRules`. Their variables are
the tables of the component as functions from identifiers to rows, `ABSENT` before a row is inserted; an
action has the name of the method of the service. Where a command reads without a lock what another one
writes, it takes two steps or reads through an operator that allows what an earlier reader may have seen
(`SawOpen`, `SawEffective`, `SawActiveRule`, `BeginCancel`, `BeginScan`, `RecordBlockers`).

In `NodeTrust` the contract, the bond, the terms of the people named and each key end at a time of their own. Nothing in
the code acts when one ends: `TimePasses` only moves the clock, and the commands compare. `admitted` remembers when
the last activation was journalled, so that the properties can speak of what was in force then. In `SyncPackages`
each event writes a version of an aggregate: two that write the same compete, be they of one package, of two, or
one of the receiver's own.

* `Journal` - transactions of requests and workers over the chain, the outbox and the idempotency
  records; `JournalProofs` - the proofs.
* `NodeProofs`, `CooperativeProofs` - the proofs about the components of a node and of a cooperative that stand
  alone, as named instances like those of `MCNode` and `MCCooperative`; `CustodyContinuityProofs` - the proofs about
  custody; `SumProofs` - lemmas about sums, for what was fulfilled, cleared, claimed, promised and rationed.
* `MCCooperative`, `MCNode` - instances of the modules that share no state. One behaviour is about the
  component in `focus`; the state of the others is empty. Each module keeps its own `Spec` and properties,
  and the composition names them; so one run reaches the states of all instances one after the other, never
  their product.

### What the models abstract

* A signed artifact is an immutable row that is unique per cycle and node, and the hashes are
  functions of the snapshots, so an artifact is named by its signer; only certificates, signed over
  `certified_at`, have an identity. Signatures and trust material are taken to verify.
* A node's obligations in the cycle are one unit that is held or free, and so is its exposure.
  `OtherReserved` is what other cycles hold of the same exposure: it decides whether
  `reserved_amount < delta` can stop a wrong release. `Fits` and `fits` choose freely whether limits
  and versions let a node prepare.
* The call of a peer is one step, since the command changes nothing between sending and receiving.
  A lost answer (`ReplyLost`), a request that never arrives or arrives later (`Unreachable`, `Late`)
  are actions of their own. The 60 second window of a request is not modelled: `Late` may come at any
  time, which allows more than the code.
* The status stands for the `version` column in the trigger's comparison. The one status a cycle
  returns to is COMMITTED_PENDING_APPLY, where the model allows more than the trigger does.
* Cooperative: a member is his user account (`UserAccount.member_id` is unique). The hashes that an
  approval or finalization repeats are functions of the snapshot, so comparing them is part of the
  status. A rejected claim against a cycle is not kept, as nothing reads it.
* The calculation: an amount is a multiple of the policy's quantum and the liquidity class, which only
  orders the output, is left out.
* `expected_version` of a command is compared after the row is locked: a caller who read an older version is
  refused and changes nothing, so commands are modelled as reading the row they lock.
* Time is a small clock where two instants are compared (`Crisis`, `Trust`, `NodeTrust`, `FederatedClearing`) and an
  action that lets something lapse where only "expired or not" matters (`Lapse`, `LapseOfTime`, `Elapse`, `TermEnds`).
  The terms of offline epochs and their forms are left out: nothing stated here depends on them.
* Quantities are small numbers in one unit; prices, evidence and texts are left out. Which member holds which
  role is a constant, except where roles are the subject (`Accounts`, `Responsibility`).
* Two commands that lock the same rows in opposite orders deadlock and PostgreSQL aborts one of them: in the
  model one of them simply comes first.

## Runs

| Run | Instance | Shows |
|---|---|---|
| `clearing_three_nodes` | three nodes, two affected, one session, one delayed request, TTL 2, clock to 2, 445 thousand states | type correctness, `ApplyNeedsEveryApproval`, `ReconciledMeansApplied`, and that the model implements `ClearingContract` |
| `clearing_expiry` | two nodes, one delayed request, TTL 1, the participant coordinates another cycle, fairness, 896 thousand states | `CertificateFinal` with late requests, `ParticipantsLetGo` |
| `clearing_two_sessions` | two nodes, two sessions, 962 thousand states up to symmetry | every interleaving of two commands: `OutcomeFinal`, `NoOrphanedHold`, `PreparedExposureExact`, `CertificateFinal` |
| `local_clearing` | two members who owe each other, a deal with two versions of its terms, one cycle, two policies, staff with overlapping roles, 304 thousand states | commands of the exchange between any two steps of the cycle: `AmountsAccounted`, `DealStatusAgrees`, `BoundByOwnConfirmation`, `BalancesKept`, `ContestedNotCleared`, `DutiesSeparated` |
| `cooperative` | eleven instances, see below, 503 thousand states | aid, emergency, discipline, shares, fraud signals, the antifraud searches, the netting calculation and debts between nodes |
| `node` | eighteen instances, see below, 800 thousand states | custody and rights, purchases, trust in a node, packages, access, service clients, members, intake, journal, two cycles over the same debts, deliveries |
| `clearing_swept_after_certificate` | two nodes | a violation: a participant releases a certified cycle |
| `clearing_two_certificates` | two nodes, TTL 2 | a violation: a commit rolled back after a participant applied leads to a second certificate, which that participant refuses |
| `clearing_release_unprepared` | two nodes, another cycle reserves too | a violation: release before prepare un-reserves what others hold |
| `clearing_idle_coordinator` | three nodes, coordinator not affected | a violation: its hold is never released |
| `exchange_closed_pending` | a debt of 3, partly cleared | a violation: accepting one of two fulfillments closes the obligation and strands the other |
| `crisis_over_issued` | two plans over one reserve of 1 | a violation: a ration issued while its plan is cancelled is forgotten and the stock handed out again |

The instances of `cooperative`: `aid` two applications and two allocations compete for one contribution;
`pledged` adds a pledge; `emergency` two mandates, two plans over one reserve, a clock; `paper` a form under a
mandate; `discipline` a decision, its appeal and the decision after a remand; `standing` reputation and
rehabilitation; `shares` two commitments of two members who may be related, a liability case and a
compensation; `fraud` two overlapping scans of two findings; `rules` and `offsets` every input of a small size
(up to four rows; eight obligations among four members, each absent, excluded or of amount 1 or 2), compared
with what the search is to find; `between` three nodes whose four obligations hold a pair and a circle, each kept
at either end, over any number of cycles between two or three of them.

The instances of `node`: `custody` one lot, its transfer, three assignments and a case; `rights` two rights and
two redemptions over a lot of two units; `offers` two versions and an index; `rivals` a local and a remote
buyer of one unit; `remote` both parts of a purchase at a node whose trust comes and goes; `peer` one node from
application to rehabilitation with a rotation, an incident and a paper form, while nothing runs out; `lapsing` the same
without rotation and form, while contract, bond, people and key run out (`MaxTime` 1: a term ends at 1, or later
than anybody looks); `packages` two overlapping packages of three events, one of which the receiver wrote too and two
of which compete with one another; `access` two sessions, two factors, one recovery; `grants` two grantors,
an emergency grant and a role; `clients` two requests, two credentials, a token; `merging` two merges among
three records; `containment` a membership and an account changed while a case waits; `intake` two batches and
three applications that share names and identifiers; `commands` a request, its retry and another request under
its key beside a worker; `delivery` two workers and a damaged payload; `cycles` two clearing cycles over an
obligation that is cleared twice in part; `goods` a debt of two units of a product, performed in two parts with one
redemption of one unit and one order, before and after the migration.

Bounds: two affected nodes are the least with a split outcome, the third is a participant that
prepares but is not affected (or the coordinator in that role). The clock stops at 2 or 3: past the
expiry of every receipt signed at 1, except in `clearing_three_nodes`, whose receipts stay valid so that a second
certificate can be signed on them and requests be delayed; expiry and sweeps are the matter of `clearing_expiry`
and `clearing_two_sessions`, and of the theorems, which hold for every bound. Snapshots are only signed until
`LastSnapshot`, because later cycles differ by a shift. In the runs of local clearing `MaxWrites` bounds the commands on
obligations: creation takes two or three, which leaves two or three for dispute and resolution, submission and
decision, or the overdue scan between the steps of a cycle. Elsewhere an instance has two of what competes
(applications, plans, buyers, requests, merges, scans, transactions) and one of the rest, with a quantity that
is enough for one of the two; the first of a kind that is used up shows what the second may still do.
`MaxVersion`, `MaxFailures` and `MaxPasswords` bound counters; `MaxDamages` and `Sweeps` what happens outside
of commands. Deadlock is not checked: a finished cycle, deal, case or package rightly has no further step.
Sessions and officers are symmetric; nodes are not, as they are visited in order.

Fairness (`WorkerSpec`): the clock, and a poll of each node that can commit (`run_worker` polls for ever and survives
an exception). A poll is the sweep together with the recovery, so it cannot commit while the recovery of a
cycle raises, and a sweep alone has no fairness. `ParticipantsLetGo` is stated accordingly: a participant lets
go if its own recovery does not raise for ever. What else a poll does - other sweeps, the outbox - is taken not to
raise at every poll. No fairness for the end of a command, for operators' commands, approvals, the answers of peers
or the delivery of given-up requests. The other components promise nothing without an operator's command, so their
properties are safety.

## Proofs

`FederatedClearingProofs` proves `TypeCorrect` and `NobodyAppliesUnapproved` for every finite or
infinite set of nodes and sessions, any lifetimes and bounds, from `NodesAssumption` and
`TimeAssumption` alone. `ApplyNeedsEveryApproval` is not inductive: a node applies because a request
names a certificate, so `IInv` adds that a certificate kept anywhere - in a row, in the uncommitted
rows of a transaction, in a request on its way - implies that every affected node has approved in its
own database (`Unanimous`, `Backed`), that approvals in any copy are real (`Approved`), and that a
transaction under the row lock holds what was committed (`Keeps`, `LockExclusive`). Each operator of
the service has a lemma on what it preserves; each action has one step.

The second part of `FederatedClearingProofs` builds on it, from the same assumptions, with six theorems:

* `ProofMeansApplied` proves `ReconciledMeansApplied`. A proof is computed from the receipts of the
  coordinator's rows, so `FinalityInv` says what those are worth: the coordinator keeps a receipt only of a
  node that cleared under the coordinator's certificate (`Honest`), what a participant clears and signs is
  under the certificate it stores (`Settled`), and what a command carries in its uncommitted rows goes on
  from the committed ones (`Carries`), because while one holds the row lock no other can write (`CommitRow`).
* `OutcomesStay` proves `OutcomeFinal` (no step changes a status that is released or reconciled). Its invariant
  `OutcomeInv` is about commands that have read and not yet committed: one that changed the status changed the
  status its node still has, and that one was no outcome (`KnowsStatus`).
* `ContractKept` proves `ImplementsContract`: each step of the detailed model changes one node's committed rows
  at most, and that change is `GiveApproval`, `Apply` or `Close` of `ClearingContract`, or a stutter
  (`ServedContract` for a request that is served, `NextContract` for all actions).
* `ExposureFollowsHold` and `NobodyHoldsForNothing` prove `PreparedExposureExact` and `NoOrphanedHold`. Neither is
  inductive: what a command carries uncommitted, and what it read before another one committed, can end up in the
  row. `HoldInv` therefore says of a row that it has taken exactly its hold into the exposure (`HoldRow`), and the same
  of the row a transaction would store at its commit (`Stored`, `CarriesHold`): a command may carry a hold only if
  the row it read had one, or its status is still one under which a hold may be taken.
* `CertificatesStay` proves `CertificateFinal` from `HoldInv`: what lets go of a hold is release, sweep or `apply_local`,
  and the first two do not touch a row with a certificate.

`LocalClearingProofs` proves every property of `Exchange` and `LocalClearing` that a run checks, for any members,
roles, deals, terms and finite number of obligations and cycles, from `TermsAssumption`, `ExchangeBounds`,
`ClearingAssumption` and `NettingKeepsBalances`. The last two are about the calculation: it clears of an entry no
more than its amount, and with no entry excluded it leaves every member's balance as it was, as its paths are
closed. TLC evaluates both for the calculation of the run (`LocalNetting`), and `CalculationBalances` below proves
of that calculation what they ask, for every input. The first
invariant has one part per side of the system. Of the exchange (`ExchangeInv`) it adds that a deal stands
at a version of its terms that was proposed and that an open dispute remembers a status the obligation can
return to: without the latter a resolved dispute could bring back an obligation that nobody confirmed. Every
command but `confirm_deal` only writes *sound* rows (`Sound`: same terms, no new obligation, nothing
overdrawn), so one lemma carries the exchange through performance, disputes and `finalize` alike. Of a cycle
(`InOrder`) it adds that a snapshot holds at most the debt, that a result stays within the snapshot, and that
nothing is approved before a result exists - why a controller is checked against the result he approved.
`finalize` is where the two meet: the input check turns "within the snapshot" into "within what remains".
It gives `LocalTypeCorrect`, `ConfirmedTermsBind`, `ClearedByMany` and `DebtNeverOverdrawn`; the other theorems
build on it:

* `FulfillmentsAddUp` proves `AmountsAccounted`. `AmountsInv` has the two sums of each obligation, and that its
  fulfillments fill their slots in order (`SlotInOrder`), so a submission adds a summand that was zero.
* `ClearedByFinalized` proves `ClearedByCycles`: `finalize` alone changes what is cleared, and adds one cycle to those
  done. `LocalClearing` checks it in the run of two cycles (`node`).
* `ClearingKeepsBalances` proves `BalancesKept`. A cycle may wait for days, so its invariant dates what it froze
  (`FrozenInv`): the version of an obligation counts its changes, an entry was true of its obligation at the version
  it names, and the result is still the calculation of that snapshot. So an obligation whose version is the one
  frozen is as it was then; the input check of `finalize` compares versions and exclusions, hence applies the
  calculation of an input with nothing excluded, and applies all of it.
* `NothingContestedIsCleared` proves the action property `ContestedNotCleared` from the same invariant.

`DealsFollowObligations` proves `DealStatusAgrees` from a second invariant, `StatusInv`: obligations exist only of
a deal that left negotiation and disputes only of obligations that exist, so a deal that is proposed has nothing
to agree with. A command that changes the phase of an obligation refreshes its own deal, one that does
not leaves the status as it is (`SamePhase`, `StatusOfPhases`).

`DeliveriesAlwaysBacked` proves `DeliveriesBacked` from finitely many redemptions and orders. `Deliveries` takes the
commands of `Exchange` as they are (`SameCommands`), so the invariant of the exchange carries over. Each fulfillment
with a source leads to one completed redemption of its debtor, product and quantity, and no two to the same
(`SourcesSound`); no command changes a quantity once submitted (`OthersStand`). The bound on the sums is then a
property of such a map (`TotalInjection`), whatever is accepted, rejected or disputed and when the migration runs.

`NettingProofs` is about the calculation and the debts between nodes. It asks (`NettingAssumptions`) that obligations
and members are numbers in the order of their identifiers, that nobody owes himself, that obligations are
finitely many, and that the limits of the policy are numbers.

* `CalculationBalances`: for every input each entry is cleared of at most its amount, an excluded one of all of it
  (engine.py does so, hence the sums are about the others), and each member of as much of what he
  owes as of what he is owed. A loop is a recursive function over the numbers of its rounds: it has values
  (`LoopExists`), and what every round keeps holds after the last (`RunStays`, from `StepByStep`: a least number at
  which a *set* fails, no operator parameter). What every round keeps is `Sound`: the offsets
  so far are within the amounts and balance. A pair and a closed path are both a `Ring`, whose members each owe one
  of its obligations and are owed one, so taking the same from all of it balances (`RingBalances`). That the search
  returns such a path, and one only, rests on `Precedes` being a strict total order on the finitely many closed
  paths.
* `CalculationLeavesNoCircle`: docs/clearing_algorithm.md, step 7, repeats until no improvement is left. It is so if
  the policy allows as many allocations as there are entries: what then remains and is large enough
  for an operation holds no closed path of 3 to `MaxCycleLength` obligations. With a minimum of one quantum no two
  members owe each other either, and if paths may be as long as there are members, none is closed. Each
  allocation takes all that is left of one obligation (`UsedUp`), so the allocations made and the obligations left
  are together at most the entries (`Counted`): the limit is reached only when nothing is left. With a
  larger minimum pairs may remain (see below), so the theorem does not speak of them.
* `NetPositionsAlwaysKept` proves `NetPositionsKept`, from `BoundAssumption` also. A snapshot is dated by what its
  home has taken since (`SnapshotsOK`), and what was ever taken balances once the part of an open cycle that is
  applied is put back (`GoneOK`): closing the cycle adds a balanced proposal to a balanced sum.

`JournalProofs` proves `JournalSafe`: `JournalKept` for any requests, keys, bodies and workers, any number of
events of a command and any batch size. Its hypothesis `Assumptions` says that requests and workers are
different sessions, that the answers other than results are no requests, and that the bounds are numbers; the
definition is a hypothesis of each lemma because `Journal` is instantiated, not extended, by its run. The
invariant has three parts. `ChainInv`: what the one transaction that has appended keeps to itself *continues*
the committed chain (`Continues`), so committing joins two chains (`JoinChains`) and rolling back loses
nothing. `EffectInv`: an open request has its key to itself and finds nothing recorded, its events carry its
name and are numbered from 1, what is recorded was executed as a whole and what was executed is recorded; hence
a second execution under a key would have found the first. `DeliveryInv`: a message is worked on by one worker
and only while pending, so published and consumed agree.

`SumProofs` shows of the community modules' sum over a finite set that the order of its fold does not matter, and
what changing one summand, or many, does to it. It does so by well-founded induction over subsets, which needs a
set of subsets and no operator as a parameter (`LeastNumber` likewise for numbers); what is out of reach is a
RECURSIVE operator.

The other components have a theorem each, custody two, for any number of their rows (the first seven in
`NodeProofs`):

* `PurchaseAlwaysSettled` proves `PurchaseSettled`, from finitely many intents and a seller and buyers that are
  nodes. What a step does to what a home node counts comes down to `GoesOn`: a part that is counted after it was
  counted before, or is not this node's to count. One lemma covers all steps of that kind (`SoldStays`), one the two
  that take a unit, which was checked against both sums (`SoldTakes`). Agreement on the outcome rests on
  `AnswersTrue`: the receipt of a commit says what the home did, which nothing undoes. The copies of the catalogue
  follow their home since versions and lists are taken without a gap (`CatalogInv`).
* `AccessAlwaysCurrent` proves `AccessCurrent`, with no assumption. Every command on the account either leaves its
  password and factors in force alone (`SessionsKeep`), or ends all sessions but one that it opens under the new
  password (`AllEnd`).
* `SyncAlwaysAtomic` proves `SyncAtomic`, from 0 being no package and events being integers. `SyncInv` says of a row
  what its status tells about the decisions taken, on it and on the event that competes with it, and of a package
  that nothing came with it before its import and nothing is left to decide after it was applied: an import writes
  rows that cannot belong to an applied package. The events of a package never change after its import, so which
  of them compete does not either.
* `TokensAlwaysCurrent` proves `TokensCurrent`. To be inductive it needs that no credential is in force before the
  client exists (`OneCredential`): the creation issues one without looking for others.
* `PersonsAlwaysKept` proves `PersonsKept` if nobody starts as a duplicate. At most one case about a member is in review
  and it found him at large (`CasesSound`), so a decision gives back nothing another case has taken; a
  merge refuses a member who is named by a case or a merge, and its two members differ (`MergesSound`).
* `NeverTwins` proves `NoTwins`, with no assumption. Both ways into the register place each entry on a free row of its
  own (`Added`); a batch looks for twins at its application again, among the members and within itself.
* `NodeAlwaysAccountable` proves `NodeAccountable`, with no assumption. Only the activation admits a node, and it asks for
  everything at that time; what it asked for is never taken back without taking the node out of ACTIVE
  (`GroundsStay`), but it may run out, which is why the property compares with `admitted` and not with `now`. That the
  people named serve as long as the contract (`TermsOrdered`) is a matter of the order of the commands: a contract is
  proposed for no longer than the trust applied for, and no application is created once there is one.
* `AlwaysOneSignal` (`CooperativeProofs`) proves `OneSignalPerSubject`, from `MaxSeen` being positive and `Nobody` being no member. A
  signal that holds a subject is about one finding and its reviewer did not detect it (`SignalSound`); what a scan has
  locked still holds its subject, and what it is to insert is checked again at its commit, by the unique index.
* `AppealAlwaysGoverns` proves `AppealGoverns`, with no assumption. Appeals are won after the case is closed, and no
  sanction or measure comes into force in a closed case except by an appeal that was lost (`CaseInv`).
* `AidAlwaysAccounted` proves `AidAccounted` from finitely many contributions and allocations. An allocation is of one
  reviewed application (`AllocationSound`), which has one active allocation at most (`OneActive`), so what happens to
  an allocation is what its application shows. Deliveries and complaints change who holds the aid, not the sums.
* `EmergencyAlwaysBounded` proves `EmergencyBounded` from finitely many plans and recipients. A confirmation compares
  with what is reserved of the *target*, while the property is about a *snapshot*: the plans on a snapshot are all of
  its target (`OneTarget`), hence within what was compared (`UsedWithinTotal`). The property counts every ration,
  those of cancelled plans too (`Drawn`), and the comparison does not: what was issued between the count and the update
  of a cancellation (`Forgotten`) is given again. So what holds is `Drawn` within the stock and `Forgotten`
  (`DrawnIs`), and no single plan beyond the stock; `crisis_over_issued` shows that more does not hold.
* `SharesAlwaysAccounted` proves `SharesAccounted` from finitely many owners, commitments and compensations. A
  compensation is of one case, hence of one accepted commitment, and is paid from the account of its owner
  (`TransferSound`, `About`): so authorizing, settling or voiding it changes one summand of that account and one of
  that commitment (`TransferKeeps`). An authorization moves an amount from what is reserved to what is owed,
  which the balance covers either way, as executed stays within the largest loss and that within the reserve. The
  theorem adds `GuaranteesAcyclic`, for any chain depth: the guarantees of active commitments have ranks
  (`GuaranteeInv`), and of any group of members one ranks lowest (`LeastNumber`).
* `HoldsAlwaysMatch` (`CustodyContinuityProofs`) proves `HoldsMatchCases` for all commands on assignments, lots, transfers, rights and cases,
  with no assumption. It adds that a lot nobody registered is in nobody's hands (`AbsentFree`), since registering
  writes the whole row, and that an offered transfer is of a registered lot (`OffersExist`). The ordinary commands
  reach free lots only (`FreeLotKeeps`); a case takes, keeps and frees the lots it lists.
* `RightsAlwaysBacked` proves `RightsBacked` from finitely many rights; what a lot owes is a sum over them, so each
  command on a right is a lemma of `SumProofs` applied to one or two summands. It adds that the balance of a lot is
  written once, at its verification, before any right to it exists (`LotBacked`).

Only model-checked: the type invariants of the components composed in `MCNode` and `MCCooperative` (`TypeOK`; the
theorems above prove the typing they need); liveness (`ParticipantsLetGo`), which is out of the prover's reach;
`FindingsExact`, as the searches of `AntifraudRules` are RECURSIVE operators; and the form of `NothingLeftToOffset`
that gives the members ranks, of which `CalculationLeavesNoCircle` proves the counterpart about paths. The violations
are counterexamples that TLC finds.

## Seen while modelling, without a run

What a reader of the code may want to look at; none contradicts a property above.

Clearing
* Where other cycles hold part of the same exposure, a coordinator can be released before it prepared
  (`clearing_release_unprepared`); a prepare command that had read the cycle before still takes the hold, as an
  unchanged row is not written and its version not compared, and the hold stays under a rejected cycle.
  `PreparedExposureExact` and `NoOrphanedHold` leave this one case out (`ReleasedUnprepared`).
* With a `minimum_operation` of 0, which the API accepts, or one larger than the first obligation of a
  pair, the search stops although offsets are left (docs/clearing_algorithm.md, step 7, repeats until no
  improvement is left). `NothingLeftToOffset` is checked for a minimum of one quantum.
* An excluded entry ends with nothing available and counts as cleared in full (engine.py). It also fails the
  input check of finalize, so a cycle with a disputed or pending
  obligation in its snapshot can never be finalized; a cycle with an upheld claim or a superseded policy
  cannot go on either, and nothing cancels it.

Purchases
* `_release` lowers `reserved_amount` again for a hold that the sweep has already expired
  (implemented_slice_13.md counts it once). `CurrentExact` is about the committed amount only.
* A COMMITTING intent whose local receipt or remote hold expires can neither commit nor cancel; trust withdrawn
  during COMMITTING blocks it too. The hold of a purchase whose transaction rolled back lasts until it expires.
* A republished offer leaves the version before it active, each with its own capacity.

Goods
* A transfer that was offered cannot be withdrawn and blocks a case; a target who lost his role leaves the case
  pending for ever; a redemption is stuck when custody moves; an expired right never returns its quantity.
* The acceptance of an assignment and the handover of lots are separate commands, where
  implemented_slice_27.md, item 9, describes one.
* A redemption named by a fulfillment that is rejected stays used for ever. A delivered order counts neither as open
  nor as performed until its fulfillment is accepted, so carriage of the same goods can be ordered twice, and several
  fulfillments may name one delivered order. No code assigns CANCELLED or DISPUTED to an order.

Nodes
* A rejected rotation requested before a quarantine and revived by a rehabilitation leaves a LIMITED node
  without an active key; a challenge that is never answered stays; `approve_bilateral_limit` reads the exposure
  unlocked.
* docs/node_liability_policy.md:158 promises acting named roles of every active node. They are asked for at the
  activation only: when they, the contract or the bond run out, the node stays ACTIVE. `reserve_exposure` does not
  look at the contract. `NodeAccountable` therefore speaks of the time of the admission.
* Of a chain of competing events in one package each decision turns the event before as well, whatever was decided about
  that one: an event a decision rejected can be made READY by the next, and both ends of a chain be applied.
  `SyncAtomic` says "exactly one" only of two events that compete alone.
* docs/offline_protocol.md:88 holds a package until its parent event is there; the base checkpoint of a package
  is never compared with `peer.last_checkpoint_hash`, and the branch that would report the gap is not reached.
  Rows of a rejected package are skipped as duplicates when a later package brings them again.

People
* `transition_member` revokes sessions before it disables accounts, a recovery enables the account of a suspended
  member again; a BLOCKED continuity case leaves the member in EXIT_PENDING; a membership activated while a case
  is being requested is outside its snapshot.
* An expired PENDING request of a service client can be neither approved nor rejected, and its unique index
  blocks every later request. A row of a batch whose identifier belongs to a member fails every application of
  the batch.

Cooperative
* Voiding a compensation brings back exposure that may exceed the limit of related members
  (implemented_slice_6.md), and an assessment may exceed what a commitment can lose. A reputation event may
  be recorded for a decision that was overturned. A rejected complaint leaves an allocation SUSPENDED.

Journal
* The columns of the lease and of attempts are written and cleared in one transaction, so a crash or an
  exception is never counted towards quarantine.

## Plan

1. Evidence, whose checks before a command is accepted are left out of all modules.
2. The independent verifier (`verifier.py`) against `LocalNetting`.

## Not modelled

The React frontend (keeps nothing the server trusts); deployment, backup and restore scripts and capacity
tools (I/O); read-only reports, readiness and heartbeats; demo and bootstrap data; address book and the
catalogues of units, products and warehouses (append-only, no rule between rows); the antifraud rules that are
a single query with a threshold; rate limits; file formats (package archive, CSV, paper forms).
