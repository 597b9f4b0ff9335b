# A TLA+ model of the MY3PAI governed AI core

The modules in this directory model the Python code of this repository (`src/`,
`schemas/`). TLC checks them on small instances; TLAPS proves every safety
property that the runs check, type correctness and the refinements included, for
every value of the constants. Liveness is checked by TLC only.

## 1. The system

| component | source | state it keeps | operations |
|---|---|---|---|
| asset registry | `src/records/store.py` | records by id with a `withdrawn` flag, revocation times, listeners | `register`, `get`, `withdraw`, `add_revocation_listener` |
| consent tokens | `src/policy/tokens.py` | the nonces used so far (tokens carry their own claims) | `mint`, `verify_without_consuming`, `verify` |
| policy gateway | `src/policy/gateway.py`, `rules.py`, `injection.py`, `src/records/mandate.py` | a sequence counter | `evaluate` |
| connector registry | `src/connectors/registry.py` | per connector a state and its quarantined assets | `register`, `quarantine`, `acknowledge`, `reactivate`, `can_serve` |
| workflow engine | `src/workflows/engine.py` | runs, a hold per request id, a review queue | `submit`, `release_conditional`, `record_tool_call`, `record_output` |
| trace recorder | `src/records/trace.py` | the hash-chained events | `append`, `verify_chain` |
| contribution ledger | `src/accounting/ledger.py` | records, offsets | `post_run`, `apply_dispute_offset`, `apply_partial_refund`, queries, `replay_run` |
| HTTP service | `src/policy/service.py` | one lazily built gateway, a pool of 32 threads | `/evaluate`, `/revoke` |
| asset discovery | `src/discovery/catalog.py` | none | `search` |
| training admission | `src/training/admission.py` | none; build manifests are values | `admit`, `freeze`, `verify_manifest` |
| statements | `src/explanations/statements.py` | none; a statement is a text | run statement, custodian statement |
| event log | `src/observability/tracing.py` (`NdjsonLogger`) | a line counter and a file | `emit` |
| span exporter | `src/observability/tracing.py` (`OtelSpanExporter`) | finished spans | `start_span`, `end_span`, `write_file` |
| evidence and benchmark scripts | `scripts/` | output only | drive the parts above |

How they interact. A request enters the gateway (over HTTP or from the engine).
`evaluate` takes one snapshot of the asset's record, judges the rules on it,
probes the tokens it was given, consumes one and answers with one of four
states. The engine files a run per answer: executing, held for consent, held for
review or rejected; tools and outputs are recorded on executing runs, and every
step leaves an event in the trace. `withdraw` marks a record and then calls its
listeners, of which the connector registry's `quarantine` is the one the tests
and scripts register. The ledger splits revenue among contributors, and statements
read the ledger. Discovery reads the registry, and a build manifest is frozen from
what a search found. The HTTP service puts a pool of threads before one gateway:
a revocation withdraws the asset and then asks the gateway about it.

What is hard. Everything runs on threads, and every component has a lock of its
own that is held for one step only. `evaluate` takes four different locks one
after the other; the listeners of a withdrawal run after the store's lock is
released; `can_serve` takes none; the engine changes a run under one lock and the
trace under another; a release of a hold looks it up, evaluates and deletes it
in three separate steps; searches and run statements read one record after the
other, each under the lock anew; a log line is numbered under a lock and written
under it a second time. Failures matter too: a listener may raise, a token
comparison may raise, a decision may be rejected after it drew its number, and
posting a run may stop half way, a log line may not be writable, a client may be
gone when its answer is ready. Nothing is persisted, so there is no recovery to
model. The only waiting is in the HTTP service, whose request threads wait for the
pool, and its workers for the lock under which the gateway is built;
`EveryRequestAnswered` says that this ends. The runs say `CHECK_DEADLOCK FALSE`
because their bounds let the system stop.

What makes each part correct:

* registry: a withdrawal is never undone (`WithdrawalMonotonic`);
* tokens: a nonce buys one grant (`OneGrantPerNonce`);
* gateway: a call begun after the withdrawal is Blocked (`LateCallsBlocked`); a
  grant can be justified at any later time from the record and the token
  (`GrantsAuthorised`); the reason given is the reason there was
  (`ReplayExplained`); numbers are unique (`SequenceUnique`); every call ends
  (`EveryCallAnswered`);
* connectors: what a withdrawal has cut off stays cut off until it is
  acknowledged (`CutOffHolds`), the moment a quarantined connector shows is the
  moment of a withdrawal it is quarantined for (`QuarantineTraced`), and a True of
  `can_serve` was true when it was asked (`ServedWasServable`);
* engine: tool calls rest on a grant of their own (`ToolsAreFunded`), which the
  trace shows first (`PolicyRecordedFirst`, `WorkAccounted`), what the queues name is
  held, and a held run that lost its hold lost it to an Allowed run
  (`QueuesHoldHeldRuns`, `GrantReachesCaller`), and a hold is dropped only for a run
  that executes (`HoldGoesWithGrant`);
* ledger: splits are exact and fair (`SplitExact`, `SplitFair`), whole runs replay as
  long as their record ids sort by index (`WholeRunsReplay`), refunds are rounded to even (`RefundsRounded`), nothing
  recorded changes (`AppendOnly`);
* statements: every line was true at a moment of the writing, and the statements of
  a run and of its custodians agree (`StatementsJustified`);
* service: a revocation that succeeds reports Blocked (`RevokeConfirmed`) and
  evaluations posted after that are Blocked (`RevokedStaysBlocked`); every request is
  answered (`EveryRequestAnswered`); what the service does, a gateway may do
  (`MirrorsGateway`);
* discovery: no search shows what was withdrawn before it began, or misses what
  it was asked for (`SearchSound`);
* admission: what a manifest admits was lawful to train on (`ManifestsLawful`), and
  its root pins what it admits among lists of that length (`RootPinsContents`);
* trace: in an edited list that verifies, whatever stands under a hash of the trace
  stands after what it was recorded after (`ChainTellsEdits`);
* log: no line is lost or doubled unnoticed (`LinesAccounted`), and only lines of
  calls that overlapped stand out of order (`OnlyOverlapsReorder`).

## 2. The modules

| module | models | builds on |
|---|---|---|
| `CoreTypes` | asset ids, tenants | |
| `AssetStore` | the registry; `WithdrawMark` is the lock section of `withdraw`, `Notify` one turn of the listener loop after it, `ListenerRaises` a listener that raises | `CoreTypes` |
| `ConsentTokenStore` | the tokens; the two verifications are predicates, `Burn` the use of a nonce | `CoreTypes` |
| `PolicyGateway` | `evaluate`, one action for each point where it touches shared state, with the registry and the tokens | `AssetStore`, `ConsentTokenStore` |
| `GatewayPromise` | what a caller may rely on: an abstract specification of the gateway without rules, tokens' contents or time | |
| `ConnectorRegistry` | the connectors; one action per lock section, two for `can_serve` | `CoreTypes` |
| `Revocation` | `withdraw` with the connector registry as a listener | `AssetStore`, `ConnectorRegistry` |
| `TraceRecorder` | the order of the events | |
| `WorkflowEngine` | the engine and its trace, over `GatewayPromise` | `GatewayPromise`, `TraceRecorder` |
| `Ranking` | Python's `sorted()`, as the places of elements in an order | |
| `Allocation` | `allocate_cents`, `round_half_even_cents` | `Ranking` |
| `ContributionLedger` | the ledger | `Allocation` |
| `Statements` | the run statement, one action per record it reads; the custodian statement is an operator | `ContributionLedger` |
| `Service` | the HTTP service: request threads, pool, the lock around the building of the gateway, the steps of `/evaluate` and `/revoke` | `AssetStore`; an `INSTANCE` of `GatewayPromise` |
| `MerkleTree` | `merkle_root` | `Ranking` |
| `Catalogue` | `search`, one action per record it reads, and `freeze` | `AssetStore`, `MerkleTree` |
| `TraceChain` | the hashes of the events, `verify_chain`, and edits of the list | |
| `NdjsonLog` | `emit`, one action per lock section | |
| `Recording` | a trace and a log side by side | `TraceChain`, `NdjsonLog` |
| `PolicyGatewayProofs`, `RevocationProofs`, `EngineProofs`, `ServiceProofs`, `LedgerProofs`, `CatalogueProofs`, `RecordingProofs` | theorems | the module of the name; `LedgerProofs` also `Statements` |
| `SequenceLemmas` | lemmas that several of them cite: induction over numbers, what `Ranking` computes | `Ranking` |

The `MC*` modules give the constants of a run. Operators whose comment
describes a defect (`RegisterAnew`, `VerifyAcceptsReplay`, `BuildAgain`, ...) are
variants of the operator that follows them; no specification uses them. They
record what each property would catch.

### Choices made in the models

* *Names.* An id is a model value. Two facts about strings matter and are kept:
  ids outside ASCII make `hmac.compare_digest` raise (`NonAscii`), and scopes so long
  that the refusal naming them exceeds the reason field are rejected after a
  number was drawn (`LongScopes`). Asset ids of the ledger and of the catalogue are
  numbers, their rank in the order of strings.
* *Tokens.* A token is named by its nonce; `claims` is its payload. All tokens
  that do not decode or do not carry this store's signature are `Forged`.
* *Metadata.* The signature check is the boolean `signed`, naive validity dates
  (which do not compare with an aware `now`) the boolean `naive`, and the
  injection patterns the boolean `injected` of a request.
* *Time.* `clock` is `time.time()` in seconds; a call reads it once. `mono` is
  `time.monotonic_ns()` as far as withdrawals read it: they do so under the
  store's lock, so each reads a larger value.
* *History variables.* `late` (the asset was already withdrawn when the call
  began), `servable`, `marked`, `cutOff`, `withdrawals`, `handed` and the `run` of an event are not
  in the code. No guard reads them, with one exception: only a run that was
  `handed` to a caller is worked on, since run ids are random.
* *The engine's gateway.* `WorkflowEngine` lets `evaluate` do whatever `GatewayPromise`
  allows, and the real gateway implements that, by `GatewayKeepsPromise`: the
  engine's invariants hold over it too. Counterexamples do not carry over by
  themselves, so the promise is kept close to the code: a call is granted, held or
  sold a nonce only after a `Look` found its asset registered and not withdrawn,
  and held only if the asset requires consent. The counterexamples of section 3
  use nothing the code does not do.
* *Lookup and submission of a release* are one action: nothing between them
  depends on the hold, and nothing they do in between changes what the lookup
  found.
* *The service's gateway.* `Service` knows of a decision whether it is Blocked. An
  asset that is unknown or withdrawn when it is read must be, any other may be.
  Building the gateway takes one step per seed under `_STATE_LOCK`, started by a
  request or by `main`. Requests that never reach a handler (no JSON, no asset id,
  no such path) are one kind, `malformed`. Whether a client still listens
  decides only `delivered`: what the server did stays done.
* *Mandates.* `VerifyMandate` compares the key and the text that were signed with the
  custodian's key and the text of the record's own fields, all ten of them. The
  text is a constant operator, `MandateText`, and nothing is assumed of it: the code
  joins fields by "|" and the strings of a set by ",", either of which the strings
  may hold. Records with the same text share a mandate; one of the records of
  `MCCatalogue` has other constraints than its mandate was signed for.
* *Freezing* happens at the clock. `freeze` lets its caller pass another
  `build_time`, which then is what the manifest states. A builder freezes one
  manifest, as a bound. The list it freezes is any list of what its search found,
  with repetitions: callers choose.
* *Digests.* In `TraceChain` a hash is the pair of what was hashed. An edit sets any
  field of an event, its two stored hashes included, to the value of another event
  or to the hash recomputed of one: the chain has no key. In `MerkleTree`, where
  digests are sorted, the digest of two numbers is Cantor's pairing of them. Both
  have no collisions; the sort order of real digests is arbitrary, which the tree
  does not depend on for what is checked. Content hashes are any numbers, the
  digest of two others included, since the code hashes leaves and inner nodes
  alike. The root of an empty build is a constant.
* *Sorting.* The code sorts with `sorted()`, which is stable. `Ranking` gives an
  element the number of those that stand before it, keys compared first and
  positions second. This is a definition without recursion, so that theorems can
  be about it; the same goes for sums, which are functions of the number of terms.
* *Ledger.* A run's records are a sequence, since `post_run` always starts at index
  0 and refuses an index that is taken. `records_for_run` sorts them by record id, a
  string in which the index is padded to four digits: `IdKey` is its place in the
  order of strings, `IdRadix` and `PaddedIds` the base and the number of padded
  indices, 10 and 10000 in the code. Custodian ids that `LedgerRecord` refuses
  (not a string, or not valid Unicode) are `Malformed`.

## 3. What TLC checks

| run | instance | what it shows |
|---|---|---|
| `gateway_rules` | one worker, two calls, eight records, eight requests, one nonce minted for either tenant, postdated or short-lived, two seconds | every rule and every way a token can fail; types, justification of grants and refusals, monotonic withdrawals, termination of calls |
| `gateway_races` | two workers, three calls, two nonces presented in either order, one asset with consent, one withdrawal | single use, unique numbers, late calls, refinement of `GatewayPromise` |
| `revocation` | two withdrawals by two threads, two assets, two connectors, a listener that may raise before or after the registry is told, one reader | cut-offs survive registrations, reactivations and overlapping withdrawals; every quarantine shows the moment of a withdrawal it is for; `withdraw` returns |
| `workflow` | two threads, three runs of one request id, two nonces, one tool call per run | trace, queues and funding of runs |
| `ledger` | a whole of 8 basis points, up to three contributors in either order, and two lists of four, one more than three padded indices, revenue 0 to 9, one refused contribution, two offsets, one run statement | allocation and rounding against their definitions, posting, replay, statements |
| `service` | three clients on a pool of two, three requests about a seeded and an unknown asset | revocation over the wire, refinement of `GatewayPromise`, answers to all |
| `catalogue` | one builder, three assets, six records (another tenant, not yet valid, not for training, a key that is not known, constraints other than those signed, a content hash that is the digest of the two others), one withdrawal, lists of up to three, two seconds | searches against the registry, manifests, Merkle roots against all lists of their length |
| `recording` | traces of up to three events after any two edits (a field or a stored hash set, an event moved or doubled, a part cut out); three log lines of two threads | what the hash chain and the line numbers can tell |

Why the bounds are enough. The races of the gateway are between two calls for a
token; a third call finds what they left behind. Three runs are the least
with which two releases of one hold can both be Allowed. Two withdrawals and two
connectors are the least with which a quarantine of one asset can fall into
the acknowledgement of another. The ledger's arithmetic depends on the
products modulo the whole only; a whole of 8 and revenues on both sides of it
give remainders with and without ties for every number of spare cents that three
contributors can leave. In a list one longer than the padding the last id sorts
before others, and the properties other than `WholeRunsReplay` hold of it as well.
With three clients and two workers one request waits while
revocations fill the pool, and one can be posted after another was answered.
Three leaves are the least odd number above one, where the tree doubles a leaf
and sorts a level; three events the least where one can be moved past another and
be neither first nor last. Two lines overlapping and one before or after them are
all the orders a log has. Symmetry is
used for threads and nonces, in runs without liveness properties.

The bounds are `Asked`, `MaxCalls`, `MaxTime`, `MaxWithdrawals`, `MaxListeners`, `MaxRuns`,
`MaxTools`, `MaxOffsets`, `MaxPosts`, `MaxAdmitted`, `MaxEvents`, `MaxNs` and
`MaxLines`, each in the guard of the action it bounds; the rest are
the sets of the configuration files.

*Fairness.* `PolicyGateway` assumes that a thread inside `evaluate` takes its next
step, `Revocation` that a thread inside `withdraw` makes its next listener call:
neither waits for anything but locks that are held for a bounded time. `Service`
assumes that a free worker takes up a waiting request, that the thread which
builds the gateway goes on, and that a worker and the thread it answers to take
their next step when they have one. Nothing is assumed about callers, requests,
withdrawals or the clock, nor that `main` builds the gateway. The other
specifications state safety only.

### Disagreements between the code and its documents

Each of these runs checks one statement of a document and ends in a
counterexample.

| run | statement | what the code does |
|---|---|---|
| `token_after_withdrawal` | "Withdrawing an asset instantly revokes token validity" (`README.md:36`) | a call that read the record before the withdrawal still consumes a token and is granted |
| `work_after_withdrawal` | withdrawal halts "downstream retrieval and generation synchronously" (`docs/regulatory-alignment.md:28`) | an executing run keeps calling tools |
| `lost_hold` | "Conditional decisions park in a FIFO holding queue keyed by request" (`src/workflows/engine.py:5`) | a release deletes the hold that another submission of its request id filed after the release had filed its own Allowed run and before it deleted the hold; the run so held can no longer be released |
| `ledger_ties` | "ties break toward the lowest asset_id" (`src/accounting/ledger.py:5`) | ties go to the contribution listed first, as `docs/architecture.md` says |

Other statements of the documents are narrower in the code than their words.
The models contain these behaviours and their properties leave room for them:

* "unacknowledged connectors default strictly to `Blocked`" (`README.md:34`): a
  connector registered after a withdrawal is Active and serves the asset;
  `CutOffHolds` is about connectors registered before.
* "monotonic_ns orders transitions" (`schemas/trace.py:7`): a tool call of a run may
  be traced after the completion of that run, because the engine releases its
  lock before it appends; `WorkAccounted` counts events, not their order.
* "discovery can never hand out revoked handles" (`src/discovery/catalog.py:4`): an
  asset withdrawn after its record was read is in the results of a search that is
  still running; `SearchSound` speaks of those withdrawn when it began. `freeze`
  admits such a handle, at any later time, because it judges the record it is
  handed; hence `gone` in `ManifestsLawful`.
* "any post-freeze substitution is detectable" (`src/training/admission.py:7`): the
  root covers contents and not which asset has which. Since an odd leaf is
  doubled, contents a, b, c and a, b, c, c have one root; since leaves and inner
  nodes are hashed alike, so have a, b and the one content that is the digest of a
  and b. `RootPinsContents` speaks of lists as long as the manifest's, and claims
  the set of contents only.
* "Any reordering, deletion, or mutation breaks the chain" (`schemas/trace.py:4`):
  events deleted at the end of the trace leave a chain that verifies, and so does
  an event that was altered at the end, or with all that follows it, and whose
  hash was computed anew, since the hashes have no key. `ChainTellsEdits` speaks for
  a reader who has kept a hash of the trace.
* "database tampering that alters scope, constraints, or validity without the
  custodian key fails closed" (`src/records/mandate.py:6`): it does where the
  alteration changes the text that is signed. Constraints ("infer,train") and
  ("infer", "train") are joined to one text, so either record verifies under the
  mandate of the other. `ManifestsLawful` says of what is admitted that its mandate
  was signed for the text of its record, and that the record as it stands is open
  to training.
* "Conditional decisions park in a FIFO holding queue keyed by request"
  (`src/workflows/engine.py:5`, `docs/architecture.md:17`): there is one place per
  request id. A second run held under it replaces the first, which stays
  `HeldConditional` and is found by no release. `QueuesHoldHeldRuns` asks neither for this
  nor for the queue, and `HeldRunsAreParked`, which the run `lost_hold` refutes in
  another way, excuses it.
* "recompute(record_inputs) reproduces allocated_cents" (`src/accounting/ledger.py:11`):
  from index 10000 on, which weights of zero allow, record ids no longer sort in
  the order of the contributions; `replay_run` then compares records with others
  and raises drift on a run that has none, and run statements list the records in
  that order. `WholeRunsReplay` speaks of runs that fit the padding.
* "monotonic sequence numbers" (`src/observability/tracing.py:3`): lines of
  overlapping calls may stand in the file in the other order.

## 4. What is proved

The theorems hold for any number of threads, assets, nonces, requests, runs,
records, offsets, lines and events, and any rules' data. They rest on the
assumptions that the modules state about their constants and nothing else:
constants have the types the code gives them and special values are not
ordinary ones (`StoreAssumption`, `TokenAssumption`, `GatewayAssumption`,
`NoTokenAssumption`, `EngineAssumption`, `ServiceAssumption`, `RegistryAssumption`,
`CatalogueAssumption`, `SearchAssumption`, `LogAssumption`, `ChainAssumption`,
`LedgerAssumption`); the connector registry is a listener and does not raise
(`RevocationAssumption`, from `quarantine`); the whole is positive
(`TotalAssumption`); custodians are finitely many (`StatementAssumption`);
contents are numbers (`MerkleAssumption`); the base of an index is at least two and
some indices are padded (`LedgerAssumption`). That hashes do not collide is in the
definitions `ChainHash` and `Digest`. TLC evaluates each assumption on the run of
its module.

### Policy gateway

| theorem | property | argument |
|---|---|---|
| `TypeCorrect` | `TypeOK` | inductive as it stands, because it ties the request and the snapshot of a call to its program counter |
| `NumbersUnique` | `SequenceUnique` | inductive with types: the counter is above every number given out |
| `WithdrawalNeverUndone` | `WithdrawalMonotonic` | by cases on the actions of the registry |
| `WithdrawnBlocks` | `LateCallsBlocked` | `LateInv` adds that the asset of a late call is still withdrawn when it is read |
| `NonceSingleUse` | `OneGrantPerNonce` | `NonceInv`, with `DraftsOnlyAtEmit`: only a call about to answer carries a draft, so the call that burns a nonce has none to lose |
| `GrantsJustified` | `GrantsAuthorised` | `GrantInv` carries the justification from the snapshot to the draft to the answer; records and claims never change (`Kept`) |
| `ReplaysHaveReason` | `ReplayExplained` | `ReplayInv` says why a call looks for a replay while it probes, consumes and answers; what explains a refusal goes on explaining it, since nonces stay burnt and claims stay as minted (`TokensKept`) |
| `GatewayKeepsPromise` | `KeepsPromise` | each step maps to a step of `GatewayPromise` or to a stutter, under the invariants above and `DraftsNamed`: the draft of a call says whether its record was found clear, and is held only for an asset that requires consent |

An invariant of the answers alone is not inductive: an answer is prepared over
several steps, between which other threads run. Each strengthening says the same
of the drafts that is claimed of the answers, and of the snapshot what will be
claimed of the draft.

### Connectors

| theorem | property | argument |
|---|---|---|
| `TypeCorrect` | `TypeOK` | inductive as it stands |
| `CutOffsHold` | `CutOffHolds` | `CutOffInv`: a withdrawal notifies about one asset (`OneAssetEach`), and every connector it found is cut off, or the registry is still to be told (`MarkedAreReached`). Without the second part a listener that raises could end a `withdraw` that owed the registry its call |
| `QuarantinesHaveCause` | `QuarantineTraced` | `TraceInv`: what a withdrawal has still to tell its listeners is true of the store (`CallsTraced`) and stays so, because no withdrawal is forgotten (`StoreGrows`) |
| `ServedHonestly` | `ServedWasServable` | by actions, with the invariant that a call which passed the first look at the state had found the connector servable (`ActiveServes`) |

### Workflow engine

| theorem | property | argument |
|---|---|---|
| `EngineTypeCorrect` | `EngineTypeOK` | `TypeInv` adds that runs and those about to be filed fit the bound, and that a thread past filing has a run |
| `ToolsFunded` | `ToolsAreFunded` | `FundInv`: a run, or a thread about to file one, owns the answer its verdict rests on, no two own one, and a nonce that was sold was paid in one call or one answer |
| `QueuesFaithful`, `GrantsReachCallers`, `HoldsGoWithGrants` | `QueuesHoldHeldRuns`, `GrantReachesCaller`, `HoldGoesWithGrant` | `HoldInv`: a release in flight finds a hold, or one that another Allowed release took (`Outrun`); the run it settles is its own and was not handed out; before either there was a held run (`HeldBefore`) |
| `WorkIsAccounted`, `PolicyComesFirst` | `WorkAccounted`, `PolicyRecordedFirst` | `CountInv`: the `policy.allowed` events of a request id are at least its allowed runs, filed or about to be, and each event of work is of a run that has it in its count |

`PolicyRecordedFirst` counts events before a place in the trace. Its proof compares
finite sets: runs that worked are allowed runs, of which there are no more than
`policy.allowed` events when the first of their events is appended.

### HTTP service

| theorem | property | argument |
|---|---|---|
| `ServiceTypeCorrect` | `ServiceTypeOK` | with `QueueSound`: who waits is queued once |
| `ProbesConfirm`, `RevocationLasts` | `RevokeConfirmed`, `RevokedStaysBlocked` | `RevokeInv`: how far a request is says what it knows of the registry (`CallSound`), which later requests cannot take back (`StoreGrows`), and a gateway there is was built from a registry that is not replaced (`GatewaySound`) |
| `ServiceMirrorsGateway` | `MirrorsGateway` | each step is a step of `GatewayPromise` or a stutter; a request is an open call from its post to its reply (`OpenOf`), which has looked at the registry once its verdict is not Blocked |

### Ledger and statements

| theorem | property | argument |
|---|---|---|
| `LedgerTypeCorrect` | `TypeOK` | inductive with `FromOnePost` |
| `NoDrift`, `SplitsAreFair`, `RecordsReplay` | `SplitExact`, `SplitFair`, `WholeRunsReplay` | `LedgerInv` says that the records of a run are a prefix of those of one post (`FromOnePost`); the rest is arithmetic, below |
| `RefundsHalfEven` | `RefundsRounded` | `HalfEven`: the result of `round_half_even_cents` is the nearest number of cents, even on a tie |
| `LedgerAppends` | `AppendOnly` | by cases on posts and offsets |
| `StatementsOnlyRead` | `StatementSpec => Spec` | what is proved of the ledger holds while statements are written |
| `StatementsAreJustified` | `StatementsJustified` | `StatementInv`: each line written is the net after some of the offsets there are, at least those there were (`NetStays`); then a total over custodians is a total over records (`CustodiansShareNet`) |

`allocate_cents` for weights of any length: the remainders are below the whole and
add up to a multiple of it, so there are fewer leftover cents than contributors
(`LeftoverFits`); ranks are a bijection onto the places (`RankBijective`), so as many
of them are below the leftover as there are cents (`AllocationExact`); of two shares
the one with the larger remainder, or listed first, ranks first (`AllocationFair`).
A post that broke off may have recorded a prefix that is whole, if what follows
has no weight: what has no weight has no remainder, ranks behind and gets no cent
(`AllocationOfPrefix`).

### Catalogue, trace and log

| theorem | property | argument |
|---|---|---|
| `CatalogueTypeCorrect` | `CatalogueTypeOK` | part of `CatalogueInv`; that a manifest has a root of the right type needs that `merkle_root` ends (`Climb`, below) |
| `SearchesAreSound` | `SearchSound` | `SearchInv`: what a search under way has looked up it has shown, if asked for, as the registry has it up to later withdrawals |
| `BuildsAreLawful` | `ManifestsLawful` | `FoundInv` says the same of the results it returned, which `freeze` then judges |
| `RootsTellContents` | | two lists with one root and of one length have the same contents |
| `SubstitutionsShow` | `RootPinsContents` | `RootsStand`, and `RootsTellContents` |
| `EditsShow` | `ChainTellsEdits` | `ChainInv`: each event has its index and links to the one before. Under a hash of the trace a list that verifies has the event recorded under it, which names the hash before it (`SameHash`); so there is no first place at which such a hash stands after other events (`CommonHash`) |
| `LinesAddUp` | `LinesAccounted` | `LogInv`: a number drawn is in the file, carried by one thread, or lost |
| `OverlapsOnly` | `OnlyOverlapsReorder` | `LogInv`: what a thread carries was numbered above every line its call had seen |

Among lists of one length a root determines the contents because pairing is
injective (`Triangle` grows by more than its remainder) and both trees have the same
number of levels; level by level, equal roots come from levels with the same
elements, sorted or not (`ClimbsTogether`). Nothing is needed of the contents, which
may be digests of one another.

### How induction is done

The provers here cannot instantiate the induction theorems of the library, which
take an operator. `SequenceLemmas` states the principle with sets in its place:
a set of natural numbers that is not empty has a least element (`LeastNatural`), so a
set with 0 in it that is closed under successors up to m holds all up to m
(`StepByStep`). Sums, the climb of a Merkle tree and the totals of a statement are
recursive functions; that a function with the equations exists is shown first,
step by step, and that any such function has the value claimed second.

### How the leaves are kept small

A leaf of these proofs is meant to take a small part of the time the provers allow,
so that a slower machine finds it too. Three things make one slow, and
the proofs avoid them: a product of two variables among the hypotheses (sums of
products go through `Times`, `SumScaled` and `SumOfSums`, and values are named by
`PICK` before arithmetic is done with them), several quantified facts that the
solver may instantiate in each other (facts are stated for one element, with
`ASSUME NEW`, and put together by name), and large literals in a goal for Zenon
(`StepAndCodeMove`).

### Only model-checked

The liveness properties `EveryCallAnswered`, `WithdrawReturns` and
`EveryRequestAnswered`: they hold under fairness, which needs `ENABLED`, and the
prover does not handle it. The four disagreements of section 3 are counterexamples
of TLC.

## 5. Plan

All components with state are modelled and all their safety properties proved. What
is left:

1. A refinement that is implied but not stated as such: the engine over the real
   gateway instead of `GatewayPromise`. The engine numbers an answer by how many
   there were before it, the gateway by a counter that may skip a number; the
   composition needs an engine that takes any fresh identifier.
2. The hazards without a property, as far as the code comes to make a promise
   about them: what a late acknowledgement may clear, what a connector that is
   registered after a withdrawal may serve, who takes a run out of the review
   queue, and whether a repeated refund is deducted again.
3. Lemmas that two proof modules have in a similar form, to `SequenceLemmas`.

A larger engine, with requests for two assets that share a request id, would
show what a release by a request for another asset does; with three runs it
exceeds what TLC enumerates in a few minutes.

### Not modelled

* The span exporter (`OtelSpanExporter`): it appends finished spans to a list under a lock and
  writes a copy of it to a file; nothing in `src/` uses it but one sequential test.
* The evidence and benchmark scripts, which call the components modelled here one
  after the other and write files.
* Number formatting and layout of statements, the parsing of HTTP and JSON,
  signatures and hashes beyond what is said above, and the injection patterns.
