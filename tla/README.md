# plexus-trak in TLA+

plexus-trak is a tracker: *facets* (tasks, epics, notes) hang in trees, are joined by
typed *edges*, belong to an owner and possibly to a *tenant*, and are served over RPC by
async Rust tasks that share one SQLite database. This directory models the tables, the
tenant gate every request passes, the full-text index, the reads, the
checkout/diff/flush round trip to disk, the import of plan files, the discussions, and the
two ways to log in. Source paths below are those of the repository.

## 1. Inventory

| Component | State | Operations | What makes it correct |
|---|---|---|---|
| Facet store (`store/sqlite.rs`, trait in `store/mod.rs`, rows in `types.rs`) | tables `facets` and `edges` | create, update, move, delete a facet; add, remove an edge; get, list, subtree, ancestors, search | parents and edge ends exist; only a move or the loss of the parent changes a place; parents form trees |
| Full-text index (`store/sqlite.rs`) | FTS5 table `facets_fts`, fed by triggers | search | search finds what the rows hold |
| Tenant gate (`tenant_gate.rs`) | none of its own: one per request, holding the caller's tenant | create, get, update, delete, list_children, subtree, search, collect_all_visible, edges, blocked_in, add_edge, remove_edge, move_to | a caller writes only public rows and its own tenant's, sees no others, and no request through the gate changes a facet's tenant, whatever races with what (a flush does not pass the gate and may write a `tenant` key) |
| Facet hub (`hubs/facet.rs`) | none; it streams events | the RPC methods, on top of the gate, except checkout, diff, flush and import_plans, which use the store directly | a patch changes the fields it was given; answers match effects |
| Checkout (`checkout.rs`) | markdown files and `.trak/manifest.json` | checkout, diff, flush | an untouched copy shows no differences but those its root's place and the limits of the text format explain; a flush makes the store follow the files; what others changed meanwhile is left alone |
| Plan import (`import.rs`) | none | scan a workspace, create facets and edges | the hierarchy of repositories, epics and tickets; one edge per dependency |
| Discussions (`hubs/discuss.rs`, `store/discuss.rs`) | table `comments` | comment, list, get, update, delete | only the author edits or deletes |
| Identity (`hubs/identity.rs`, `store/identity.rs`), authentication (`auth.rs`) | users, refresh tokens, API keys, SRP identities and sessions | register, login, refresh, API keys, the SRP handshake, `validate` | a session is used once, an expired or revoked credential is refused |
| Docs hub, stub hubs, `bin/main.rs`, `events.rs` | none | read files, wiring, wire format | out of scope: no state |

Interaction: a request builds a `TenantGate` from its auth context; the gate calls the
store, one SQL statement per `await`; the store's triggers feed the index inside the same
statement. A flush and an import call the store without the gate. A pool of four
connections lets statements of different requests interleave; nothing holds a transaction
over two statements.

Hard behaviours: every write is preceded by reads in earlier statements (stale copies, lost
updates, checks that no longer hold); foreign-key actions of a delete against concurrent
creates, moves and links; sequences of legal moves; the document numbers of the index over
long histories; a flush that compares, then applies, while others write, and that may be
abandoned half-way; reads of several statements that see several moments; recursive queries
over a graph that need not be a tree; single-use and expiring credentials checked in one
statement and consumed in another, with best-effort statements in between and a server that
may restart; imports that carry on after a refused statement. `PROJECT.json` lists each
hazard at its line with the property that covers it, or why none does.

## 2. Modules

| Module | Models | Uses |
|---|---|---|
| `Facets` | operators only: a row, the effect of each SQL statement on the tables, the gate's predicates, the tree | |
| `FacetStore` | the two tables as variables, one action per statement (`StoreSpec`) | `Facets` |
| `SearchIndex` | `facets_fts`, its triggers, `search` (`IndexSpec`) | `FacetStore` |
| `GatedStore` | what the gate promises: each write atomic and authorised at that moment (`GatedSpec`) | `FacetStore` |
| `TenantGate` | the write requests of the hub as concurrent tasks, one action per statement (`Spec`) | `GatedStore` |
| `FacetReads` | list, tree, grep, links, blocked, statement by statement among the writes of others (`FairSpec`) | `GatedStore` |
| `ImportPlans` | the scan and the import among the writes of others (`Spec`) | `GatedStore` |
| `Checkout` | working copy, user, diff, flush, other writers (`Spec`) | `FacetStore` |
| `Comments` | what discussions promise: post, edit, delete, each atomic (`AbstractSpec`) | |
| `Discuss` | comment, update, delete as concurrent tasks and a reader who pages (`FairSpec`) | instance of `Comments` |
| `SrpHandshake` | `srp_register`, `srp_init`, `srp_verify`, the session table, clock, failures, restarts (`FairSpec`) | |
| `Accounts` | `register`, `login`, `refresh`, API keys, `try_api_key`, clock, failures (`Spec`) | |
| `MC...` | instances for TLC: requests, starting tables, workspaces | the module of that name |
| `Store_proofs`, `TenantGate_proofs`, `FacetReads_proofs`, `ImportPlans_proofs`, `Checkout_proofs`, `Discuss_proofs`, `SrpHandshake_proofs`, `Accounts_proofs` | theorems | the module of that name; `Store_proofs`: `GatedStore`, `SearchIndex` |

How they correspond to the code. In all of them a task's `pc` (or the stage of the one
handler) names the statement it waits for, and an action is that statement with the code up
to the next `await`.

* **`Facets`.** `facets` is a function from live ids to rows. A row keeps the parent, the
  tenant (`meta.extra["tenant"]`) and the editable columns as one function. `UpdateRow`
  overwrites every column but not `parent_id`, as the UPDATE does. `DeleteRow` and
  `EdgesAfterDelete` are the DELETE with ON DELETE SET NULL and ON DELETE CASCADE.
* **`TenantGate`.** `update` is three statements: the hub
  fetches and patches (`Fetch`), the gate fetches again, checks and restores the tenant
  (`ReadForUpdate`), the store writes (`WriteUpdate`). `delete`, `move_to`, `add_edge` and
  `remove_edge` are one or two reads and a write. Every statement may find its row gone;
  `reply` is the answer (`failed` stands for the `*_failed` codes). An anonymous update or
  delete goes as far as the gate's check, as in the code.
* **`SearchIndex`.** The triggers name no rowid although the table is external-content: an
  inserted document is numbered above the last one, and the `delete` command, without a
  rowid, removes nothing. A moved facet is reindexed (moving is an UPDATE), and so is every
  child of a deleted one. What SQLite and FTS5 do by themselves is marked external in `map`.
* **`FacetReads`.** One request reads while `GatedNext` writes: what the gate's own requests
  do to the tables, by `AtomicWrites`. `todo` holds what a loop of the code still has to look
  at, one statement each. `Walk` is `get_subtree`; over a cycle its `UNION ALL` has no
  end, and the request is "stuck". `answer` is the set of facts reported so far, and
  `lasting` and `seen` are history: the facts that held at every, or some, moment.
* **`ImportPlans`.** A plan file keeps what its place and its edges depend on. `Insert` is one
  `create_facet` with a fresh uuid: it may succeed, be refused because the parent is gone,
  or fail; the import notes the uuid and goes on in every case, as the code does.
  `origin` and `lost` are history: what each uuid stands for, what was refused.
* **`Checkout`.** A path is a sequence of names, a name a slug and the number that makes it
  unique. `disk` holds what `parse_markdown` makes of each file and `broken` the files it
  refuses; `ReadsAs`, a constant, is what a row's columns read back as once rendered (any
  function: blanks, quotes and commas change on the way, and some rows give a file that does
  not parse), `SlugOf` the slug of a title. `Compare` is one round of the loop in `diff` (one
  `get_facet`), `ParseError` its early return, then comes one action per applied difference;
  a rewritten row is fetched (`FetchModified`, `FetchForced`) and written (`WriteHeld`) in
  two. `updated_at` is only tested for equality with the manifest, so `stamped`, the set of
  facets stamped since the checkout, stands for it. A difference the store refuses is
  dropped, as in the code. `Abandon` is the stream being dropped at an `await`. `Edit`, the
  user, is external: change a field, or the id to that of any facet there ever was (in the
  manifest or not) or to none; remove, move, copy or add a file; spoil one or mend it.
* **`Discuss`.** A comment gets its id and time before it is stored, so rows may arrive out
  of order. `UpdateComment` does not tell whether it changed a row, as the code; `Refetch`
  finds out. The reader stands for a client that calls `list` with a growing offset.
* **`SrpHandshake`.** `srp_verify` is five statements: sweep, find (and the age check), the
  identity (and the proof), drop, touch. Sweep, drop and touch are best effort. A proof is
  good, bad or malformed. Time is in ticks, `Second` of them to a second, because the sweep
  compares times and the age check whole seconds.
* **`Accounts`.** A secret is the id of its row. `Expiry` is the cast of `expires_in` from u64
  to i64 and the sum, over integers of a small width; a panic in chrono is a request that
  changes nothing. `Readable` is what comes back from a date stored as text.

## 3. What the runs check

| Run | Shows |
|---|---|
| `search_index` | the index never silently misses a live term (`LiveTermsAreIndexed`): a search fails or finds something; exact while rows were only inserted (`InsertsOnlyIsExact`); any sequence of statements changes a place only by a move of that facet or the loss of the parent (`PlaceIsStable`) |
| `gate_edits` | updates, moves, deletes racing: a check holds until the write (`ClearanceHolds`), held copies bear the right tenant (`HeldTenantsCurrent`), tenants are frozen (`TenantFrozen`), no update undoes a move (`MovesStick`), no delete is undone (`DeletesAreFinal`) or acknowledged twice (`DeletedOnce`) |
| `gate_graph` | creates, deletes and edges racing: foreign keys hold (`Integrity`), and each write is an atomic authorised one (`AtomicWrites`: `TenantGate` implements `GatedStore`) |
| `reads` | what stayed put during a read is in its answer (`NothingStableIsMissed`), nothing is in it that the caller could never see (`NothingUnseenIsReported`), and it comes as long as the facets form trees (`ReadsAreAnswered`) |
| `import` | whatever is refused and wherever it stops, nothing stands outside its place (`NoStrays`); undisturbed, the store holds the plan less what was refused and what hangs from it (`ImportedAsPlanned`) and the report counts it (`ReportIsHonest`); edges join only what files declare (`OnlyDeclaredEdges`) |
| `flush` | an undisturbed flush leaves the store as the files say (`FlushSettles`), reported conflicts are left alone by every difference (`ConflictsAreSkipped`), what others wrote to a checked-out facet before the flush survives it where a file still bears the id (`FlushSparesForeign`), a working copy nobody touched shows nothing but the place of its root and the fields that text cannot hold (`DriftIsExplained`): no path is given out twice, and every other parent is found again, also when its file does not parse |
| `discuss` | only the author at the moment of the write changes a comment (`OnlyAuthorsChangeComments`: `Discuss` implements `Comments`); acknowledged deletes are final and single (`DeletesCount`), acknowledged edits stay (`EditsStay`); pages skip nothing unless something is deleted (`PagesSkipNothing`); all is answered (`EverythingIsAnswered`) |
| `srp` | no slow insert, failure or restart brings a used session back (`UsedSessionsAreGone`, `TradedSessionsAreGone`); late proofs are refused even if every sweep fails (`LateProofsRefused`); sweeps spare live handshakes (`FreshSessionsStay`); all is answered (`RequestsAreAnswered`) |
| `accounts` | noting a key's use never revives a revoked key (`RevokedKeysAreGone`); no `expires_in` makes a key outlast its term (`KeysKeepTheirTerm`); revoked or expired credentials are refused (`LateCredentialsRefused`) and others not lost (`CredentialsStay`) |

Every module states a type invariant. Those of `TenantGate`, `SearchIndex`, `SrpHandshake`
and `Accounts` are checked in the runs; those of all modules are proved (section 4).

Runs that TLC must refute, each a statement of the documentation the code does not keep
(`PROJECT.json`, findings, quotes both):

| Run | Counterexample |
|---|---|
| `search_exact` | insert, update, search: a document without a row makes the search fail, or the search returns another facet |
| `lost_update` | two updates of different fields; the second writes back the field as it was before the first |
| `parent_cycle` | a facet is moved under itself or below; the recursive queries over the tree then have no end |

### Further disagreements

Met while modelling; the models do what the code does, and where a property comes near one
it is worded to stop short of it.

* Gate: a racing move makes `move_to` report an old parent that was no longer the facet's
  (`tenant_gate.rs:533` against 506). An anonymous update or delete is answered `Forbidden`
  or `NotFound` where `tenant_gate.rs:50` says `Unauthenticated` (it does not write:
  `AtomicWrites`). A target that disappears between check and write is answered with a store
  error where 238 and 275 say `NotFound`. Checkout, diff, flush, import and comments reach
  the store without the gate, although the repository's README.md:58 says all facet reads
  and writes pass through it.
* Reads: `blocked` without a parent looks at the roots only (README.md:173: "everything
  visible"). `collect_all_visible` lists each root twice. `search` takes 50 rows and filters
  by tenant afterwards. The `child_count` of a summary counts children the caller cannot see.
* Checkout: a checkout below the root reports its root as moved to the top
  (`checkout.rs:375`, against the round trip of the repository's README.md:242). The facet
  of a removed file is deleted without a look at what others wrote to it
  (`checkout.rs:412` against 10 and 37). Rendering and parsing are no inverses. A tag with
  a comma or quotes comes back different (`checkout.rs:561` against 705), a title is
  trimmed (572, 686), a status loses outer quotes and blanks (558, 630), a `---` in the
  frontmatter ends it (613), and keys of `meta.extra` come back as text (567, 649).
  `facet_differs` (866) then reports an untouched file as modified and a flush makes that
  real, or the file does not parse and every `diff` and `flush` of the copy ends in an
  error. `DriftIsExplained` allows for it. A file with the id of a facet outside the
  manifest is not checked for conflicts (`checkout.rs:356`): a flush overwrites what
  others wrote to it. `tests/tenant_isolation_test.rs:911` names this as open;
  `FlushSparesForeign` speaks of the facets of the manifest. An edit of unknown
  frontmatter keys alone is not seen (`checkout.rs:866` against 424). A forced conflict of
  a file that was moved is dropped (`checkout.rs:455` against 428).
* Discussions: all callers who are not logged in are the author "anonymous" and may edit
  each other's comments. The `total` of a list is counted before its page is read.
* Identity: two verifications of one SRP session side by side are both given a token
  (`hubs/identity.rs:719` and 841: "single-use"). Refresh tokens are not rotated
  (`store/identity.rs:285`: "used on rotation"). An API key made by a caller without a row
  in `users` (after an SRP login, say) is stored and never accepted.

### Fairness

Each liveness property assumes weak fairness of the steps a task takes once its statement is
done (`Serve`, `ReadPage`), one condition per task: tokio polls every task
that is ready, SQLite answers every statement, and nothing in a handler waits for another
handler. Nothing else is fair: clients owe no requests, the clock no tick, other callers no
writes, and failures, restarts and dropped streams may happen or not. `ReadPage` is the
client's: a reader who goes on asking gets to the end. `ReadsAreAnswered` is conditional on
`[]IsForest(facets)`, since a closed cycle leaves a read stuck (see `parent_cycle`). No run
with a liveness property uses symmetry. The handlers of `ImportPlans` and `Accounts` are
straight lines of statements, and no liveness is claimed for them.

### Faults

`SrpHandshake`, `Accounts`, `Discuss` and `ImportPlans` let statements fail without
effect (a locked or full database), each with what its handler does then. `SrpHandshake` lets
the server stop at any moment: the tables survive and the tasks do not. `Checkout` and
`ImportPlans` let the stream be dropped between two statements. In `TenantGate` a handler
that stops is a task that takes no further step, which every safety property covers.

### Bounds, and why they suffice

* `search_index`: three ids, two terms, `MaxDocs = 6` documents: an update of every row.
* `gate_edits`: two tasks, two ids, two tenants, two columns, every caller and target, on
  every database ingestion can build (`StoredRows`); `MaxRequests = 2`, one race of two. A
  third request adds no step that reads what another wrote: each reads at most two rows.
* `gate_graph`: one column, `MaxRequests = 3`: create, link and delete in one history.
* `reads`: every forest, or every graph of a few edges among roots, of up to three facets,
  every tenancy; `MaxWrites = 2`: a write between two pairs of statements, or two that close
  a cycle or undo each other. An anonymous caller sees least and so has most to be refused.
* `import`: four workspaces that between them have two repositories, two epics, overviews,
  files without an epic's directory, unreadable files, two tickets of one id;
  `MaxFailures = 2`, a row and one below or beside it; `MaxWrites = 1`.
* `flush`: three ids, `MaxChanges = 2` changes by the user or others, as many flushes as one
  likes, forced or not, abandoned at any point; every forest of one or two facets, trees of
  three, and trees of one or two whose titles share a slug and read back as themselves, as
  another title or not at all. Two changes are one of the user against one of another caller,
  or two files that meddle with one facet; three facets are a file with two children of one
  slug, two a file inside the directory of one that does not parse.
* `discuss`: two tasks on a thread of up to two comments of any authors, `Limit = 1`, so
  that every page boundary is met; a third task repeats what one of the two does.
* `srp`: two tasks, three requests, two sessions, `TTL = 1` second of two ticks and
  `MaxTime = 4`, so that sweep and age check differ; `MaxFailures = 1`, any number of
  restarts while something runs. `accounts`: two tasks, three requests, one key, two refresh
  tokens, `MaxTime = 2` past every term; integers of four bits with an `expires_in` from each
  class that the cast, the duration, the date and its text tell apart; `MaxFailures = 1`.
* Symmetry: ids in `search_index`, `flush` and `gate_edits` (where a CHOOSE ranges
  over them its choice is unique); tasks and tenants in the gate's runs. Never ids in
  `gate_graph`, whose creates choose one, nor column values anywhere in the gate's runs.
* `CHECK_DEADLOCK FALSE` wherever a bound stops the callers or all requests are answered.

## 4. What is proved

For every value of the constants, checked by TLAPS. Each theorem that bears on a property
of section 3 states that very property.

| Module | Theorems (property) |
|---|---|
| `Store_proofs` | the tables: `TablesTypeCorrect`, `ForeignKeysHold` (`Integrity`), `PlacesAreStable` (`PlaceIsStable`); the atomic gate: `GatedImplementsStore`, `GatedTenantFrozen` (`TenantFrozen`); the index: `IndexImplementsStore`, `IndexedPlacesAreStable`, `IndexTypeCorrect`, `TermsStayIndexed` (`LiveTermsAreIndexed`), `ExactWhileInserting` (`InsertsOnlyIsExact`) |
| `TenantGate_proofs` | `TypeCorrect`, `ClearancesHold`, `HeldTenantsAreCurrent`, `GateIsAtomic` (`AtomicWrites`), `GateKeepsTenants`, `GateKeepsForeignKeys`, `DeletesFinal`, `DeletesOnce`, `MovesAreKept` (`MovesStick`) |
| `FacetReads_proofs` | `ReadsTypeCorrect`, `OnlySeenIsReported` (`NothingUnseenIsReported`), `LastingFactsAreFound` (`NothingStableIsMissed`) |
| `ImportPlans_proofs` | `ImportTypeCorrect`, `NothingStrays` (`NoStrays`), `PlanIsImported` (`ImportedAsPlanned`), `CountsAreHonest` (`ReportIsHonest`), `EdgesAreDeclared` (`OnlyDeclaredEdges`) |
| `Checkout_proofs` | `CopyTypeCorrect`, `FlushKeepsForeignKeys` (`Integrity`), `FlushMovesOneByOne` (`PlaceIsStable`), `ConflictsSkipped` (`ConflictsAreSkipped`), `ForeignWritesSpared` (`FlushSparesForeign`), `FlushesSettle` (`FlushSettles`), `DriftsAreExplained` (`DriftIsExplained`) |
| `Discuss_proofs` | `DiscussTypeCorrect`, `DiscussImplementsComments` (`OnlyAuthorsChangeComments`), `AcknowledgedDeletesCount`, `AcknowledgedEditsStay`, `PagesShowEverything` (`PagesSkipNothing`) |
| `SrpHandshake_proofs` | `SrpTypeCorrect`, `DroppedSessionsStayGone` (`UsedSessionsAreGone`), `TokensFollowDrops` (`TradedSessionsAreGone`), `LateProofsGetNoToken`, `LiveHandshakesStay` (`FreshSessionsStay`) |
| `Accounts_proofs` | `AccountsTypeCorrect`, `RevokedKeysStayGone`, `TermsAreKept` (`KeysKeepTheirTerm`), `LateCredentialsAreRefused`, `CredentialsEndInTime` (`CredentialsStay`) |

Arguments, each with the inductive invariant it needs:

* **Store.** Integrity is inductive together with the types. The effect of each SQL statement
  on both is a lemma of its own, stated once and used by every module over the tables.
* **Index.** Documents are only ever added, so a term stays indexed once its row was written
  (`TermsStayIndexed`). The search is exact while rows were only inserted because then, and
  only then, there are as many documents as rows: the numbers given are those of the rows.
* **Gate.** A check made in one statement is used in the next, so the invariant must say that
  it keeps holding although anyone may act in between. It does because a row's tenant never
  changes and an id is never minted twice: a cleared row is either still writable by the
  caller or gone for ever. That is `ClearanceHolds`, with `minted` (an id, once live, stays
  minted) as the strengthening; that a live row keeps its tenant needs in turn that the copy
  an update is about to write bears the current tenant, `HeldTenantsCurrent`. The two are
  inductive only together. The refinement follows step by step: a read is a stutter, a write
  is the atomic write, whose guard is the clearance.
* **Reads.** Ids are minted once and tenants stay, so a fact that holds again was never
  another facet's. Every lasting fact that is not yet in the answer has an item left in
  `todo`, or an ancestor of it has: that is the invariant, and when `todo` is empty nothing
  lasting is missing.
* **Import.** What is still due has not been made, every node is made at most once, and a
  refused statement cuts off only nodes that are still to come. `ReportIsHonest` and the
  edges need that different wires join different nodes, which follows from one facet per
  name (`OneNameEach`).
* **Checkout.** `CopyInv` says what the parts know of each other: ids in files are ids once
  minted; a difference is about the file, or the missing facet, it was found for
  (`EntryOK`); a row about to be written back has its file's fields; what others wrote since
  the checkout bears a stamp, so that a checked-out facet none of whose files showed a conflict
  is one nobody else wrote. That, with the set of conflicts fixed once the flush applies, gives
  `ConflictsAreSkipped` and `FlushSparesForeign`. `FlushSettles` needs in addition that an
  undisturbed flush *owes* a difference, still to be applied, for each compared file whose
  facet has other fields or another place, and for each facet without a file (`Settling`,
  `ToCome`); each kind of difference pays one debt and makes none: a deletion orphans the
  facets below, but a file that lies under a deleted facet's directory has no place to go to
  and every other one has a move to come, or is where it belongs. A file that does not
  parse stays to be compared, so a flush that applies anything met none.
  `DriftIsExplained` rests on the paths that checkout gives out: `PathsUnder` is a
  recursion along the ancestors, so the proof first shows that the way up from a facet of
  a finite forest is one and ends at the root (by the least generation that reaches it),
  then that siblings have different names (the numbers count older siblings, and ages
  differ), then that paths are injective, by the shortest counterexample; after that,
  `fs_parent_uuid` finds every parent but the root's, in the file of the parent or, if
  that does not parse, in the manifest.
* **Discussions.** A comment's id is never posted twice, so the author read in one statement
  is the author of the row written in the next, if it is still there: `Discuss` implements
  `Comments` by the identity on the table, reads being stutters. For the pages, without
  deletes a comment's rank never falls, so what the reader has skipped he has shown; the
  count of ranks is a pigeonhole argument.
* **SRP.** A session not drawn yet is known to no task and no table, a dropped one stays
  dropped, and a task between its insert and its verification is the only one to hold it.
* **Accounts.** A secret is drawn once, so a deleted row's secret never returns; what was
  late when a request began is late when it is answered; the arithmetic of `expires_in` is
  split by the wrap-around of the cast and of the sum.

Assumptions, all evaluated by TLC on the runs: `NoneAssumption`, `NoRowAssumption` (None is
not an id, tenant or row), `IngestedAssumption`, `KeepAssumption`, `RequestAssumption`
(requests are well-formed, as deserialisation and the hub's parsing make them),
`TextAssumption`, `ScenarioAssumption` (the tables a read starts from satisfy the foreign
keys), `ColumnsAssumption` (the columns a file shows; what a row reads back as is any
function), `StoresAssumption` (a checkout starts from a finite forest over live parents),
`WorkspaceAssumption`, `ImportAssumption`, `DiscussAssumption` (finitely many ids; the
comments a run starts from have different times, all in the past), `ClockAssumption`,
`NumbersAssumption`, `CallerAssumption`, and that the bounds on counters are numbers.

Only model-checked: the liveness properties `ReadsAreAnswered`, `EverythingIsAnswered` and
`RequestsAreAnswered`, since liveness under fairness and ENABLED are out of the prover's
reach. Every other property of a passing run is the statement of a theorem. What the
theorems leave to TLC besides is that the assumptions can be met and that the interesting
cases happen.

## 5. Not modelled, and why

* Timestamps beyond their order and equality with the manifest; wording, JSON, markdown syntax,
  slug spelling (only that two titles may share a slug).
* In `TenantGate`, the creates, updates, moves and deletes of a flush, which does not pass
  the gate. A file may carry a `tenant` key, and the flush copies it into `meta.extra`
  (`checkout.rs:491`, 898), so a flush can set or change a facet's tenant: `AtomicWrites` and
  `TenantFrozen` speak of the gate's own requests and of rows arriving from below.
  `Checkout` has the flush's writes; the tenant counts among the extra columns there.
* In `FacetReads`: statements that fail (in `blocked`, `grep` and `links` the code passes over
  them and the answer gets shorter), filters on tags, priority and text, the children counted
  for a summary, and how often a facet is listed. `search` is an operator of `SearchIndex`,
  without its LIMIT.
* In `Checkout`: edits while a flush runs, I/O errors, the report, a status with a line break
  (whose second line may read as another key, `id` among them), and the blanks around a body,
  which `facet_differs` ignores.
* In `ImportPlans`: the two formats of plan files, titles, bodies, tags, states; a second
  import of a workspace, which shares nothing with the first and makes everything anew.
* In `Discuss`: parents of replies, which nobody looks up, display names, `get`.
* In `SrpHandshake` and `Accounts`: the mathematics of SRP, hashes, the access tokens
  (`try_jwt` is a pure function of the token), `me`, `list_users` and `list_api_keys`, which
  only read. Of the last: a key past year 9999 makes it fail for its owner.
* Crashes inside a statement: SQLite's own atomicity is assumed.
* Docs hub, stubs, wiring: no state.

## 6. Plan

1. Deeper properties of what is modelled: a second flush of one working copy, and what an
   abandoned one leaves to do.
2. That what `ImportPlans` and `FacetReads` see of other callers' writes (`GatedNext`) is what
   `TenantGate` makes of them, in one composed module.
