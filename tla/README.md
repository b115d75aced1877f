# Verification of the Aerospike integrations for LangGraph

TLA+ models of the two packages of this repository and of the two programs that
use the first, the TLC configurations that check them on small instances, and TLAPS
proofs of what holds for every instance.

| package | source | what it is |
|---|---|---|
| `langgraph-checkpoint-aerospike` | `saver.py`, class `AerospikeSaver` | checkpointer: the checkpoints of a thread, their pending writes, a pointer to the latest |
| `langgraph-store-aerospike` | `store.py`, class `AerospikeStore` | key-value store with hierarchical namespaces, search and ttl |
| `cookbooks/` | `demo.py`, `agent.py` of each | programs over the checkpointer: forking a thread, sessions that expire |

To check: `tlc -config MCSaver_puts.cfg MCSaver` (likewise the other `.cfg` files,
each with the module it is named after: `MCSaver_*` with MCSaver, `MCSessions_*` with MCSessions, `MCPaths` with
MCPaths, `MCStore_*` with MCStore, `MCFork` with MCFork, `MCChat` with MCChat), and `tlapm <module>.tla` for the `*Proofs` modules.

## 1. The system

Neither class keeps state in memory beyond its configuration. All state is
records in Aerospike, shared by every process that uses the same namespace and
sets. A request to the server on one record is atomic; a method is not: it is a
short program of requests with Python code in between, and nothing (no lock, no
transaction, no generation check) keeps two methods apart. So the questions worth
asking are about interleavings of requests, errors in the middle of a method, and
records that expire on their own.

### AerospikeSaver

*State.* Three sets: `cp` (one record per checkpoint), `writes` (one record per
checkpoint, its pending writes in a map bin), `meta` (one `__latest__` pointer per
thread and namespace). Keys are `thread|ns|id`; each record repeats its thread in
the indexed bin `thread_id`. Records may have a lifetime (`ttl["default_ttl"]`),
which reads renew under `ttl["refresh_on_read"]`.

*Operations.*

| method | requests |
|---|---|
| `put` | put `cp`; put `meta` |
| `put_writes` | one `operate`: thread_id, and a map entry per write |
| `get_tuple` | get `meta` (unless an id is given); get `cp`; touch `meta` (if an id is given and reads refresh); get `writes` |
| `list` | query `cp` by thread; then `get_tuple` by id, newest first, until the limit |
| `delete_thread` | for `cp`, `writes`, `meta`: query by thread, remove each record found |

*Interactions.* Methods meet only through the records. `list` and `get_tuple` share
`get_tuple`'s program; `list` and `delete_thread` share the index query, which finds
a record by its bin and not by its key. The asynchronous methods run these in a
thread each, so callers of one saver do interleave.

*Hard.* A crash or an in-doubt error between the two requests of `put`; concurrent
`put`s of one thread; concurrent and retried `put_writes`; three reads that make up
one tuple; queries that are scans of a changing set; deleting while others write;
expiry between any two requests; a pointer renewed apart from what it points to.

*Correct when* the pointer never names what was not stored, acknowledged puts are
stored, nothing is lost but by expiry, delete or upsert, `get_tuple` and `list` miss
nothing that was there all along, `delete_thread` leaves nothing that was, and
sliding lifetimes keep a thread that is read resumable.

### AerospikeStore

*State.* One set with a record per item: namespace, key, value, `created_at`,
`updated_at`, and two indexed list bins with every prefix and suffix of the
namespace as joined strings. The key is the namespace and the key joined by `|`.

*Operations.* `batch` runs a list of operations in order; every other method is a
batch of one.

| operation | requests |
|---|---|
| `PutOp` | `operate`, with `created_at` written only if absent; value `None`: remove |
| `GetOp` | get |
| `SearchOp` | query; with a refresh, a get of each record found |
| `ListNamespacesOp` | query; then cut, dedupe, sort, page in Python |

*Hard.* Callers between the operations of a batch, and batches that raise midway;
`created_at` through overwrites and deletes; records that change or go between a
query and the reads of what it found; one index per query, chosen from patterns
with wildcards, that must not lose anything; keys that coincide; lifetimes of `0`,
`-1` and `None`.

*Correct when* it behaves as one map from (namespace, key) to items on which each
put and get takes effect at once, an item without ttl never expires, and searches
and listings answer with what matches, all of it, once and within their page.

### RunnableConfigs

*State.* None: a config is a value that callers keep and pass on.

*Operations.* `_ids_from_config` reads a thread, a namespace and an id off a config, from
`configurable` first and from `metadata` next; `put`, `get_tuple` and `list` give configs
back.

*Hard.* Values that Python takes for false: the root namespace `""` in `configurable`
gives way to whatever namespace the metadata has, which langgraph may or may not copy there.

*Correct when* a config that was given back leads to the checkpoint it was given for.

### Cookbooks

*State.* Local variables, the saver's records, and the state of a graph, which is saved in them.

*Operations.* Both programs call `delete_thread`, then run a graph over the saver.
`agent-path-correction` runs a support agent, finds in the history the checkpoint where the
order was known and nothing resolved, runs the agent from there with another request, and
checks that the past has not changed. `expiring-chat-sessions` says two things, waits longer
than the lifetime, looks, and speaks again.

*Interactions.* A graph run loads a checkpoint and saves one after every superstep, each
with the one before as its parent. The runtime is langgraph's and external.

*Hard.* A program ends at any exception, and is run again on what it left; a fork saves
into the history it forks from; a session expires record by record while it is used and
while others read it.

*Correct when* a run that ends exits with 0; a fork is a branch, beside a history that stays;
a turn continues all of a session or none of it; an abandoned session vanishes.

### Parts not modelled

Packaging, tests and CI, which are read for what they say of the code. What is left out
of the parts that are modelled is in section 7.

## 2. Modules

| module | what it is |
|---|---|
| `CheckpointSaver` | `AerospikeSaver`: every public method, request by request |
| `SaverSessions` | extends CheckpointSaver: how long ago a session was used, and what of it is to be there |
| `CheckpointSaverProofs` | what puts, pending writes and `delete_thread` do to the records |
| `SaverReadProofs` | that `get_tuple` and `list` miss nothing, what reads renew, that sessions in use stay, where configs lead |
| `MCSaver`, `MCSessions` | their instances for TLC |
| `KeyEncoding` | keys of both packages as strings, and which of them differ |
| `StorePaths` | extends KeyEncoding: item keys, index bins, anchors, filters, the listing of namespaces, as operators |
| `StorePathsProofs` | what these operators do, for all strings, patterns and namespaces |
| `StoreLookups` | extends StorePaths: queries of any patterns, over any namespaces |
| `StoreLookupsProofs` | that they are exact, and their listings covered by pages |
| `MCPaths` | its instance for TLC |
| `ItemStore` | abstract specification: the map of items that the store promises |
| `AerospikeStore` | extends StorePaths: `batch` and its handlers, request by request; shown to implement ItemStore |
| `AerospikeStoreProofs` | that it implements ItemStore, and that searches and listings miss nothing |
| `MCStore` | its instances for TLC |
| `RunnableConfigs` | extends CheckpointSaver: the configs that name its requests and that it gives back |
| `GraphRuns` | extends RunnableConfigs: a program as a process that calls the saver and runs graphs |
| `GraphRunsProofs` | lemmas for both programs: their configs, new ids, what a process finds that writes alone |
| `ForkDemo`, `MCFork` | extends GraphRuns: `agent-path-correction`, and its instance for TLC |
| `ForkProofs` | that it ends well and what it does to the thread |
| `ChatDemo`, `MCChat` | extends GraphRuns: `expiring-chat-sessions`, and its instance for TLC |
| `ChatProofs` | that it ends well, and of turns and expiry |

### How they correspond to the code

*One action is one request*, with the Python code up to the next request. In both
models `call[p]` is the call that caller `p` is in: `pc` says which request comes
next, the other fields are the method's local variables. `db` maps keys to records.

*Errors.* The code turns every Aerospike error but `RecordNotFound` (and an
existing index) into an exception that no method catches. With `Faults`, `Fail(p)`
is a request that had no effect, and the second disjunct of `Reply` one that took
effect and whose answer was lost. Both end the call, as does a crash of the client.
What the caller does then, for instance retry, is just its next call.

*Queries* are scans, not snapshots: action `Query` notes what matches at the start,
`Scan` what matches at the end. Everything that matches at both is found, and of the
rest any part. One simplification: a record that goes and comes back in between
counts as found.

*Time.* `left` is a record's remaining lifetime in ticks; `Tick` lowers all of them
and drops what has none left. The saver needs no clock and so has none. The store
stamps its records, so it has one, read in a step of its own (`StampPut`) since the
request comes later. Ticks may fall between any two requests, so that of the two
records a `put` writes the pointer may outlive the checkpoint.

*Sessions.* `SaverSessions` says what sliding lifetimes are for: a session that is used
stays. To use it is to store a checkpoint in it or to read its latest while reads refresh
(`Uses`). It adds to the saver what an observer with a clock would note (`Watch`, `TimedTick`): `spent[p]`, the
ticks since `p`'s call began; `unused[t, ns]`, the ticks since the last use, counted from the
beginning of its call; and `cut`, the callers whose thread lost a record to a delete during
their call, whose use does not count. How many ticks a call may take is the constant `Longest`: the code sets no bound, so
every promise is stated in terms of it, for any `Longest`.

*Data.* Checkpoint ids are numbers in the order of the code's strings, `Ts` gives
each a timestamp (`list` sorts by timestamp, then id). In `CheckpointSaver` a key is
a tuple; `KeyEncoding` says when the string is as good. In the store, strings are
sequences of code points, because matching, sorting and collisions depend on
them. Item values are functions from fields to numbers.

*Constructors* keep the `Ttl`, `RefreshOnRead` parameters; the indexes exist from
the start (creating them again is harmless, the code suppresses the error).

*Programs.* `prog` is the local state of the process `me`: `at` is the place in the
program, the other fields its variables. A call of the saver begins with `Asks` and
returns with `Answered`; between the two only the saver's actions move, so every request is
still a step of its own. `kept` has the channel values of each checkpoint, which
the saver carries without looking at them; `Blank` is their value in no checkpoint.
`Invocation` is `graph.invoke` as far as the saver sees it: `LoadCheckpoint`, then
`SaveCheckpoint` once for every superstep, with ids that are new and grow. Ids count from 1
again when nothing is stored, so that a program may be run any number of times. What
the nodes compute is in `SupportTurns` and `ChatTurns`; texts are sets of words
and, in the chat, a number of messages. Whether a turn on an existing thread passes through
`identify_order` again is langgraph's choice, and here anybody's. `RunAgain` starts over after an
error or the end.

*Auxiliary variables.* `held[p]` is what has been in the database (in the store:
what has matched the operation) ever since `p`'s call or query began, `erased`
the keys that were stored and are gone; in the store `seen[p]` is the namespaces that had
an item at some time between the query of `p`'s listing and its answer. No action's guard or other variable
depends on them.

Definitions marked `mutant` are not part of the models: each is a definition with a
plausible bug, with which the run that checks a property must find it violated.

### What `ItemStore` promises

Puts and gets of a batch take effect in its order, each at once, with those of
other batches in between; what a batch that raises has done stays done;
`created_at` survives overwrites and starts anew after a delete; an item put without
a ttl never expires. The refinement mapping reads the abstract map off the records
by (namespace, key), and only `mortal` (has it a lifetime?) of their lifetimes.
Searches and listings may answer anything in `ItemStore`: what they owe is stated
by the properties of `AerospikeStore`, since it is not atomic.

## 3. Runs

All finish in about two minutes or less. State counts are of distinct states.

| run | instance | shows |
|---|---|---|
| `saver_puts` | 2 callers, 1 thread, 2 checkpoints, faults; 95,350 states | `TypeOK`, `LatestNamesStored`, `AcknowledgedPutIsStored`, `EachWriteHasOneEntry`, `GetNoneMeansGone`, `TuplesCarryHeldWrites`, `NothingIsLost` with puts, concurrent and retried writes (same task, other values, other number of writes, a special channel twice in one call), reads |
| `saver_delete` | 3 callers, 2 namespaces (one with pending writes only), faults; 471,496 | a delete against a writer and a reader, that stops half way and is called again: `DeleteIsComplete`, `IndexIsExact` and what must survive deletes |
| `saver_list` | 2 callers, 2 threads, 3 checkpoints, timestamps out of id order; 216,946 | `ListIsComplete`, `ListInOrder`, `NothingIsLost` with cursors (one of them perhaps absent), limits 0, 1, none, filters |
| `saver_ttl` | lifetime 2, refresh on read, ticks between any two requests, fairness; 183,600 | every method while records expire under it: `LatestNamesStored`, `GetNoneMeansGone`, `TuplesCarryHeldWrites`, `ListIsComplete`, `DeleteIsComplete`; and `EveryCallReturns`, against a writer that never stops |
| `saver_slide` | lifetime 3, refresh on read, calls of up to 1 tick, 2 checkpoints; 797,164 | `ReadRenews`, `SessionsInUseStay`, with ticks inside calls, reads of an older checkpoint by its id, lists and deletes |
| `saver_byid` | lifetime 2, no tick inside a call (`Longest = 0`), reads of an older checkpoint by id | **violation** of `LatestLookupIsValid` |
| `store_paths` | patterns of up to 3 tokens from `*`, `a`, `b`; 5 or 6 namespaces, one with a separator in a token; 4,018 | `QueriesAreExact`, `ListingsCover`, `KeysAreDistinct` |
| `store_ops` | 2 callers, 2 namespaces, 1 key, clock of 0..1, faults, namespace default-ttl of one tick, one batch of two searches; 204,304 | `TypeOK`, `GetReturnsItsItem`, `SearchStaysInNamespace`, `SearchIsComplete`, `NamespacesListed`, `ImplementsItemStore` |
| `store_filter` | a search with filter and refresh against puts | **violation** of `SearchMatchesFilter` |
| `store_collide` | namespaces `("a","b")` and `("a\|b",)` | **violation** of `GetReturnsItsItem` |
| `fork_demo` | 1 program, 10 ids, 2 namespaces, faults, run again any number of times; 136,170 | `ForkSucceeds`, `ForkIsABranch`, `ConfigsLeadBack`, `HistoryIsKept` |
| `chat_demo` | the program and another reader, 6 ids, lifetime 2, no refresh, ticks between any two requests, fairness; 278,607 | `ChatSucceeds`, `TurnsAreWholeOrFresh`, `AbandonedSessionVanishes` |

*Bounds.* Callers repeat the calls of their menu in any order and without limit, so
retries, crashes and restarts of any number are in. Two callers are enough for
the races of `put`, `put_writes`, and reads, as the code has no step that looks at
more than one other call's effect; deleting has three because a reader may see what
a writer puts in the middle of a delete. Two checkpoints make one older than
another, three make a listing with a cursor, a limit and something after it. A
lifetime of two ticks is the least with which renewal can be told from none; three, with
calls of up to one tick, leaves a session in use something to keep (`unused + 1 < 3`) and has the pointer
of a `put` outlive its checkpoint. Two
writes with one map key, three writes against one, cover upserts. In
`store_ops` the clock stops at `MaxClock = 1`; so do the ticks, and one tick is
enough to expire an item, since it may be put with a lifetime of one (`ttl` 3 units
of two to a tick, and `ttl` 1, which rounds to 0 and so means the namespace's default).
Ten ids are the checkpoints of both turns of the fork demo, six those of the chat's first
two turns in one session; each run's `delete_thread` (and the expiry of all) makes
them new again. One other reader stands for any
number in the chat, as a read without refresh changes nothing. The fork's program has the saver
to itself, as the cookbook has; its faults cover a run cut short anywhere.
Deadlock is not checked in `fork_demo` and `chat_demo`, whose programs end, and is checked
in all other passing runs.

*Fairness.* `EveryCallReturns` needs weak fairness of `Step(p)` for
each caller, that is, a method that has begun goes on. The code justifies it:
each method is a sequential program, the client's requests time out (which is
`Fail`), and nothing in it waits for another call. Beginning calls, ticks and faults are
not fair. The property is not trivial: a `delete_thread` that queried until it finds
nothing would never return against a steady writer.
`AbandonedSessionVanishes` needs only that time passes, `WF(TimePasses)`: not the program, not
the saver and not the readers have to take another step, so it holds too of a program that
stops, for whatever reason, in the middle of a request.

## 4. What the checks found

* `saver_byid`: reading an older checkpoint by id touches the `__latest__` pointer,
  but not the checkpoint that it names. Repeated reads keep the pointer alive past its
  checkpoint, and a lookup of the latest then returns `None`, against the intent that
  `test_ttl_behavior.py:104-109` states (keep "latest" lookups valid). The run has no tick inside a call, so
  that nothing but this read is at fault: that a `put` takes time lets a pointer outlive its checkpoint as well,
  but by no more than the call's duration, and not in a session that is used (`SessionsInUseStay`).
* `store_filter`: with a refresh, `search` reads records again after its query and
  returns what it reads; a `put` in between can make it return an item that does not
  satisfy the filter (`store.py:369-370` says that expressions enforce the filter).
* `store_collide`: a `|` in a token makes items of two namespaces share a record;
  a `get` after a `put` returns an item of the other namespace.

## 5. Theorems

All are for every value of the constants (any number of callers, keys, menus of
calls, lifetimes; `Faults` and refreshing on or off) under the modules' named assumptions,
which say what the constants are: ids are a finite set of naturals, keys and namespaces
are finite sets of strings, special markers are none of the values. One of them is about
langgraph: `StampsAssumption`, that its clock does not run back from one checkpoint of a program
to the next (`list` sorts by the stamps, and the fork is looked for in its order).

| module | theorem | states |
|---|---|---|
| `CheckpointSaverProofs` | `TypeCorrect` | `TypeOK` |
| | `IndexExact` | `IndexIsExact`: the query by thread finds all of a thread and nothing else |
| | `NoLostUpdate` | `NothingIsLost` |
| | `LatestNeverAhead` | `LatestNamesStored` |
| | `AcknowledgedPuts` | `AcknowledgedPutIsStored` |
| | `WritesHaveOneEntry` | `EachWriteHasOneEntry`, if nothing is deleted and nothing expires |
| | `DeletesAreComplete` | `DeleteIsComplete` |
| `SaverReadProofs` | `NoneMeansGone` | `GetNoneMeansGone` |
| | `TuplesCarryWrites` | `TuplesCarryHeldWrites` |
| | `ListsAreComplete` | `ListIsComplete` |
| | `ListsAreInOrder` | `ListInOrder` |
| | `ReadsRenewAll` | `ReadRenews`, if reads refresh |
| | `SessionsStay` | `SessionsInUseStay` |
| | `ConfigsLead` | `ConfigsLeadBack` |
| `StorePathsProofs` | `CheckpointKeysDistinct` | checkpoint keys differ whatever the namespaces hold, if thread and checkpoint ids have no `\|` |
| | `WriteKeysDistinct` | so do map keys of pending writes, whatever the task ids |
| | `ItemKeysDistinct` | so do keys of items of namespaces of any depth, if nothing has a `\|` |
| | `QueriesExact` | index and filter together select exactly what the patterns describe |
| | `ListingsAreCovered` | the pages of a listing, of any depth and size, put together are the sorted, distinct cut namespaces |
| `StoreLookupsProofs` | `QueriesStayExact`, `ListingsStayCovered`, `KeysStayDistinct` | the invariants of `store_paths` |
| `AerospikeStoreProofs` | `TypeCorrect` | `TypeOK` |
| | `PlainNamesOwnPaths` | `OwnPaths` (items have a record each), if no token and no key has a `\|` |
| | `GetsAreExact` | `GetReturnsItsItem`, if items have a record each |
| | `StoreImplementsMap` | `ImplementsItemStore`, if items have a record each |
| | `SearchesStayInNamespace` | `SearchStaysInNamespace`, if items have a record each |
| | `SearchesAreComplete` | `SearchIsComplete`, if items have a record each |
| | `ListingsAreRight` | `NamespacesListed` |
| `ForkProofs` | `ForkUsesSaver` | every step of the program is a step of the saver or of nobody |
| | `ForkAlwaysSucceeds` | `ForkSucceeds` |
| | `ForkKeepsHistory` | `HistoryIsKept` |
| | `ForkMakesABranch` | `ForkIsABranch` |
| `ChatProofs` | `ChatUsesSaver` | as above, with the other readers |
| | `ChatAlwaysSucceeds` | `ChatSucceeds` |
| | `TurnsWholeOrFresh` | `TurnsAreWholeOrFresh` |

*Types of the saver.* `TypeOK` is inductive: besides types it says which request a
program counter belongs to (`InMethod`), without which the locals of a step would be
unknown. One lemma per action.

*The saver's records.* `RecordStep` classifies every step by what it does to one
record: writing, reading, removing, ticking. `IndexIsExact` is inductive with it,
given the types. `NothingIsLost` follows: `delete_thread` removes only
records that its query found, and `IndexIsExact` is why these are the thread's.

*The pointer.* `LatestNamesStored` is not inductive: a step from `put_latest`
writes a pointer, and nothing in it says that the checkpoint was stored. `PointerInv`
adds `PutHasStored`: a put at `put_latest` has stored its checkpoint. That this stays
true whatever other callers remove is why the properties speak of `WasStored` (stored, or
stored once and since deleted or expired), which no step undoes.

*Upserts.* A record of pending writes never has two entries for one slot, since an upsert drops
what it replaces and the writes of one call keep only the last of a slot; what a call has
written is covered from then on, by its own entry or one that replaced it (`EntryInv`). The
hypothesis `NothingGoes` is needed: after a delete or an expiry there may be no entry.

*Deletes.* `DeleteIsComplete` speaks only of a call that is done. `DeleteInv` says what is
left on the way: what the call has held on to since it began (`held`) is in sets that
are still to be cleared and, once the current set's query has run, in what it found. The
query keeps this because `IndexIsExact`; the scan, because what is stored from its start
to its end is found; a removal, because a record removed is held no longer, even if
another caller stores it again.

*Reads.* Four theorems come from one invariant, `ReadInv`, which says of a reading call
at each of its program counters what its answer will owe. `Listed` is the invariant of
`list`'s loop: what must be listed (`Must`: held since the call began, fitting the filter, behind a
cursor that was held) is already out or among the ids still to be read, what is out is newer
than what is to come, and when the limit cuts the rest off, the rest is older. It is
established by the query, which by `IndexIsExact` finds all that is held, and kept
because what is owed only shrinks: a checkpoint that is gone when its turn comes is
held no longer. `Got` is the like for `get_tuple`, where a read through the pointer needs
`LatestNamesStored`: a pointer held since the call began names a checkpoint that is stored
or gone. `Carry` speaks of the pending writes held since the call began.

*Renewal.* `RenewInv` says what a get has renewed on its way, and how old that may be: no
older than the call (`Lasts`). Nothing that other calls do takes it back, since whatever writes or reads a record
gives it its whole lifetime, and a tick ages the call as it ages the records. Without lifetimes the
claim holds as everything has all of none.

*Sessions.* `SessionsInUseStay` has two parts: that a pointer is there, and that the checkpoint it
names is. `SessionInv` bounds the age of both by the time since the last use: the pointer began its lifetime since
(`Backs`), the checkpoint at most `Longest` ticks before. The slack is real: the pointer
may name what another `put` has stored a whole call before it wrote the pointer, and a read by id may have renewed the
pointer alone. Half way through a call, `Carried` says the same of what the call has stored or read so far, since what
it saw first is as old as the call. Only a delete breaks it, a removal or a `put` that goes on to write the pointer to
a checkpoint that has been removed; both make the session unused (`Breaks`). Errors need no case: a call that fails is no use
and takes nothing away.

*Configs.* What `put` names has been through `_ids_from_config` once, and going through it
again changes nothing: `Or` of a value that was already the choice is that value.

*Keys.* A key with two or three parts is cut at its first and last separator, and
the cuts of equal strings are equal. `SEP` may be in the middle part. A key of an item has any
number of parts: they are compared from the last to the first, each being what follows the last
separator of the rest, and of two different keys one would have a last difference.

*Folds.* `Join` and the listing are folds of the library, which are defined by recursion on the
set that is folded over. That such a recursion has a function at all is proved (`FoldExists`: the union
of its finite approximations), then that it does one step after the other (`FoldWalk`). What is said of every
length is proved by the least counterexample (`MinIsLeast`).

*Queries.* Joining is one to one up to its tokens' separators; a joined leading anchor
of a pattern is in `ns_prefixes` whenever the prefix filter holds (and likewise for
suffixes), so narrowing by the index loses nothing, and the filter is exact alone.
*Pages.* `ns_sort_key` is a strict total order, so sorting has one result; what is listed up to a
place, joined with the page from there, is what is listed up to the page's end (`PageJoins`).

*The store.* `GetsAreExact` rests on `OwnPaths` (no two items have one key, which
`PlainNamesOwnPaths` proves of names without separators; `store_collide` shows that it
is needed) and on the invariant `ItemsAtTheirPaths`: a
record is stored under the key that its own namespace and key bins make. Results
are only ever appended, so that an answer once right stays right.

*Searches.* `SearchInv` says of a search on its way that what it found and has not read again,
and what it has read again, are different items, all of its namespace, and that between
them they have all that has been held since the query began (`Collecting`). The scan
establishes it, by the definition of `Matching`, which includes the exact prefix; a read keeps it:
an item that is there is put out as itself, since a record is stored at the key of its own
namespace and key (`ItemsAtTheirPaths`) and no other item has that key (`OwnPaths`), and one
that is gone is held no longer. A page is a slice of what was collected, so that what is not
on it is in front of it, at most `offset` items, or the page is full.

*Listings.* `ListInv` says of a listing on its way that it has found what is held, and nothing but what was seen and
fits. Its answer is then the page of a set between the two: sorting puts each name at its place (`Place`, the
number of names before it), and the page has those whose place is in it (`NamespacePageLayout`). It needs no `OwnPaths`: records
found are read by their namespace and never again.

*The refinement.* The mapping (`AllItems`, `AllCalls`) shows a record's item without
its lifetime, and of a call in progress only that it works. `OperatePut`,
`RemoveItem`, `GetItem` are the abstract put, delete and get; reading the clock,
starting a query and reading a record again in a search are steps nobody notices, as a
renewal changes no item; the last step of a search or a listing is `Look`; a failure is
`Raise`; a tick is `Expire`, since only a record with a span loses anything. One lemma
per action, from `TypeOK`, `ItemsAtTheirPaths` and `OwnPaths`: without the last, a put
would change two items of the map.

*The programs.* That the program uses the saver as the saver's model allows (`ForkUsesSaver`,
`ChatUsesSaver`) needs its types and which request each place in the program makes (`ControlOK`,
`AskedOK`); then every invariant of the saver holds of it. `AcknowledgedPutIsStored` and the like are not enough
where the program knows more than the saver promises, namely that nobody else writes. `GraphRunsProofs`
says what a call finds then: `Seen` and `OnTarget` for gets, `HoldsAll` for `list` and `delete_thread`, on which
`ListIsComplete` and `DeleteIsComplete` build.

`ForkSucceeds` follows from `Tale`, which tells the run place by place: what is stored, what its values
are and which of them were remembered. A run that was cut short anywhere leaves a thread that
`delete_thread` clears (`Emptied`), so that each first turn starts from nothing; the second may start from any reusable
checkpoint of the first. `HistoryIsKept` is `Undisturbed`: a save takes an id that is not in use.

`ForkIsABranch` speaks of lineages, which the pointer and the parents of all the records on the way
decide. Its invariant, `Tree`, tells of the tree the run has grown so far: the first turn's checkpoints are
a path (`Stem`, `Trunk`), each stored with the one before as its parent and with its part of the story, and
nothing else is stored (`Bare`); the second turn's are a path that leaves this one after its third checkpoint (`Branch`).
A put in progress may or may not be stored, but is above both (`Above`). That the fork starts at the third,
not the fourth, whose values could be reused as well, is the order of `list` and of the stamps (`ReusablePlaces`,
`ForkPointIsOne`). `Lineage` is a recursive function, and that it exists is to be proved: a lineage
is the least set closed under parents (`LineExists`), and on a path it is the path so far (`LineageOfPath`).

In the chat the session may vanish under the program, record by record. `SessionOK` says that a session
is whole or, after the sleep, empty: what has been saved in the sleep's length has no more than what is left
of it to live (`prog.slept`), and nothing renews it, as nothing refreshes and the others only read. A load finds
the pointer's checkpoint, with the last values of the turn before, or nothing (`Sees`).
That ids do not run out is a guard of `SaveCheckpoint` (`IdsLeft`): a program without an id left stops
there, and so both theorems hold however few or many there are.

*Only model-checked.* Liveness (`EveryCallReturns`, `AbandonedSessionVanishes`), out of the prover's
reach.

## 6. Plan

The order was: the saver and its proofs, keys, the operators on namespaces, the
store and its abstraction, what reads promise, configs, the programs, searches. What is left,
the most important first:

1. An abstract specification of the saver, a history of checkpoints per thread with
   an atomic `put` and a pointer that may lag, implemented by `CheckpointSaver`.
2. A history of renewals in the store, to state what the constructor's warning
   (`store.py:80-83`) says of `refresh_on_read` without a `default_ttl`.
3. Liveness of the store's batches, on a smaller instance than `store_ops`.

## 7. Not modelled

* In the programs: the pending writes that langgraph stores with each task, printing,
  pauses, connecting and closing. The chat's program is run once; that such programs may be
  run again is what `fork_demo` shows, whose beginning is the same.
* Serialisation and the records' bins that hold it; corrupt or partial records.
* Generators: a `list` that its consumer abandons is one that takes no more
  steps, which `Spec` allows and `FairSpec` does not.
* The Aerospike namespace's default-ttl in the saver, which applies where the code
  passes no ttl; the runs with `Ttl = 0` take it to be "never".
* Types of values in the store's filters other than numbers, and their nesting.
* Migration, replication and consistency modes of the server: a request on one record
  is taken to be linearizable.
