# TLA+ models of libelliptics_proxy

This directory holds TLA+ models of the elliptics proxy library
(`src/src/proxy.cpp`), the TLC configurations that check them, and
`PROJECT.json`, which maps every model definition to the source lines it
translates and lists the runs, mutants, findings and hazards.

## 1. The system

The proxy is a client library that writes, reads and looks up objects in a
replicated store made of *groups*: independent replica sets that hold the same
key space. The library hides replica selection, the write-acceptance policy,
partial failures, chunked uploads and an optional external placement service
(the "metabalancer", reached over a cocaine dealer RPC).

### 1.1 Components, their state and their operations

| Component | Source | State it keeps | Operations |
|---|---|---|---|
| Configuration | `impl::impl` 445-500 | `m_groups`, `m_replication_count` (0 becomes `|m_groups|`), `m_success_copies_num` (0 becomes QUORUM), `m_die_limit`, `m_chunk_size`; metabase: dealer, `m_metabase_usage` (always NONE), `m_metabase_current_stamp` (never initialised), `m_done`, `m_mutex`, condition variable, worker thread | constructor; destructor 503-518 |
| Success policy | 46-70 | none | `uploads_need(scn, R)`, `upload_is_good(scn, R, s)` |
| Group selector | `get_groups` 1227-1251 | none (works on a copy of `m_groups`) | explicit list as is, else default list with its tail shuffled; truncate to `count`; throw when empty |
| Write engine | `write_impl` 586-731, `write_helper_t` 72-138 | per call: `lgroups`, the helper's `upload_groups` (the surviving set) and `ret`, the running `offset` | die-limit check, group selection, truncation to R, single call per ioflag (`write_prepare`/`write_commit`/`write_plain`), one-shot `write_data`, the chunked prepare / plain* / commit loop that narrows the target set to the survivors, compensation removes, `write_metadata` |
| Bulk write | `bulk_write_impl` 909-999 | per call: `res`, `res_groups` (per key, the groups with an error-free result) | one session `bulk_write`, per-key partition, `uploads_need` check, whole-batch compensation |
| Bulk read | `bulk_read_impl` 820-878 | per call: raw-id to key side table | one session `bulk_read`, fan-in by key |
| Read / lookup | `read_impl`, `read_async_impl` 579-584, 1040-1070; `lookup_impl` 545-577; `lookup_addr_impl` 880-907 | per call: `lgroups` | one read; lookup's group-elimination loop; address lookup per group |
| Async write / remove | `write_async_impl` 1072-1140, `remove_async_impl` 1142-1164, `remove_impl` 815-818 | none | a single session call whose handle is returned; no acceptance check and no compensation |
| Weighted group cache refresh | `collect_group_weights` 1282-1307, `collect_group_weights_loop` 1309-1348, `get_metabalancer_groups_impl` 1350-1392 | `m_metabase_current_stamp`, `m_done`, the cache's `initialized()` | worker: refresh under `m_mutex`, then `wait_for` the period; callers: refresh without the mutex while the cache is uninitialised, then `choose` |
| Metabalancer information RPCs | 1394-1534 | none | one RPC plus msgpack decoding each |
| Range read | `range_get_impl` 733-813 | none (per call: the request `io` and `ret`) | one `read_data_range` per group of `lgroups` until one leaves `ret` non-empty; the entries become data bodies or a count |
| Pass-through operations | `exec_script_impl` 1002-1038, `ping`, `stat_log`, `id_str` 1166-1225, index calls 1253-1280 | none | forward to the session and format the answer |
| Facade and Python binding | 316-443, `src/unnamed/part_000` | none | forward to `impl` / convert Python arguments |

### 1.2 How they interact

Every write operation goes: caller, then the group selector (which reads the
configuration), then the session calls, then the success policy on the set of
groups that answered without error, then compensation removes and
`write_metadata`. The session is the storage client; the models treat each
session call as one atomic step that reaches every target group and ends in one
of three ways per group:
- "ok": the group applied the request and replied without error;
- "lost": the group applied the request but the reply is an error, for example
  a timeout that fired after the server wrote;
- "fail": the group did not apply the request.

The default result filter keeps only the error-free entries. The session's
default checker makes `.get()` throw when no entry at all is error-free.

The refresh worker is the only background thread. It shares `m_mutex`,
`m_done`, the condition variable and the stamp counter with the destructor.
It shares the stamp counter and the cache with every thread that calls
`get_metabalancer_groups`. The write engine's metabalancer branch (608-623)
and `write_async_impl`'s (1092-1106) are dead code, because
`m_metabase_usage` is set to `PROXY_META_NONE` in the constructor and never
changed.

### 1.3 What is hard

- Partial failure inside the chunked loop: a group that drops a middle chunk
  must receive no further chunks and must be compensated. A group whose reply
  was lost holds data although it is not in the surviving set.
- Failure after part of the work is done:
  - a call that no group acknowledges throws out of `write_impl` with earlier
    chunks stored;
  - `write_metadata` throws after the body is stored;
  - one short key must roll back a whole bulk batch.
- Removes that are not awaited: `write_impl` returns (and the caller goes on)
  while its compensating removes are still on their way, and nothing orders
  them before the next request of the key. Removes are also addressed by
  `key.remote()`, which is empty for a raw-id key.
- Boundaries: the chunk loop's `<` versus `>=`, a caller offset used as the
  slice position, and the 64-bit stamp counter starting from an indeterminate
  value.
- Threads: the worker, the destructor and the callers interleave on `m_mutex`,
  the condition variable (timeouts, spurious wake-ups, notifications that no
  one is waiting for) and the unprotected `++m_metabase_current_stamp`.
  Shutdown must not lose its wake-up, and `join()` must return.

### 1.4 What makes each component correct

- **Success policy.** It agrees with the table of spec 4.1. `uploads_need`
  and `upload_is_good` agree with each other.
- **Group selector.** Spec 4.2 and 8.5:
  - the result has min(count, |list|) distinct groups;
  - the head of the default list is kept first;
  - the tail really is shuffled;
  - an explicit list is used as given.
- **Write engine.**
  - A success returns groups that satisfy the policy and hold the write
    until the caller's next call (spec 8.1).
  - A committed copy is exactly the content.
  - After a success, no target group keeps a partial or older copy (spec 4.3
    compensation, S2, S5).
  - After a failure, nothing of the write remains (spec 8.2).
  - A chunked write issues ceil(S/C) body calls (spec 8.3).
- **Bulk write.**
  - A success means every key meets the policy.
  - A rejection means some key fails the policy. A remove of every key of
    the batch is then sent to the groups that reported it, best effort
    (spec 4.5), and never awaited.
- **Refresh worker.**
  - Shutdown terminates and never waits out a period.
  - A refresh happens every period while the proxy lives (spec 4.6).
  - Request stamps increase.

## 2. Plan

The modules in the order they are written, the most important behaviour first:

1. `SuccessCopies`: the policy operators. Done.
2. `GroupSelect`: the configuration and `get_groups`; extends
   `SuccessCopies`. Done.
3. `WriteEngine`: `write_impl` with `write_helper_t`; extends `GroupSelect`.
   Done.
4. `BulkWrite`: `bulk_write_impl`; extends `GroupSelect`. Done.
5. `WeightCache`: the refresh worker, the destructor and the metabalancer
   callers. Done.
6. `MCContracts`: the pure operators of 1 and 2 against the spec's tables over
   bounded inputs. Done.
7. `ReadEngine` and `KeyClient`: `lookup_impl`'s elimination loop (replies
   ok, error and unparsable) and `read_async_impl`, run by a reader thread
   beside the writer, which also gained `write_async` and `remove`, and
   `lookup_addr_impl` with its check (`LookupAddrCoversGroups`). Done.
8. `BulkRead`: `bulk_read_impl`, as an action of `BulkWrite`. Done; its
   result is reduced to whether the call throws.
9. The compensating removes as messages that are sent and never awaited
   (`pending`, `RemoveLands`), landing either before the next request of the
   key or at any time. Done.
10. `SameKeyWriters`: composes two `WriteEngine`-style writers on one
    store, to check whether one writer's compensation can delete another
    writer's accepted copy (for one writer, the write_delayed_remove run
    already shows it). That a rejected overwrite removes the previous version
    too is what spec 4.3 prescribes and is not checked as a flaw.
11. `AtomicWrite` with a refinement: an abstract write that installs the whole
    content in a set of groups in one step. `WriteEngine` is shown to
    implement it (INSTANCE ... WITH, mapping the committed copies) on the
    paths where the code is right: offset 0, name keys, proxy-driven writes.
12. The data-container framing round trip (spec 4.7, 8.4): dropped, since
    its code is not in this repository (section 6).
13. `RangeGet`: `range_get_impl` as operators, checked in `MCContracts`
    against spec 5. Done.

14. `WeightWorker`: the refresh lifecycle as an abstract specification that
    `WeightCache` refines. Done.
15. `WriteHelper`: `write_helper_t` on group vectors with repeated ids,
    checked in `MCContracts` (duplicate_groups). Done.

Abstract specifications worth stating: the atomic write of item 11, and a
"periodic refresher" for the worker. The refresher would show the refinement
failing exactly as the `PeriodicRefresh` run does, so it is kept as a property
rather than a second module.

## 3. Modules and how they correspond to the code

### SuccessCopies
`uploads_need` and `upload_is_good` are operators with the code's `switch`
turned into `CASE`. `ANY`, `QUORUM` and `ALL` are model values, and an
explicit N is a positive integer.

### GroupSelect
`m_groups`, `m_replication_count` and `m_success_copies_num` are the
constructor's normalisation. `ResolveSuccessCopies` is the "0 means
configured" rule shared by `write_impl` and `bulk_write_impl`. `get_groups`
returns the *set* of lists the call may return: `std::random_shuffle` of the
tail is every permutation (`Bijection` from the Functions module), and `<<>>`
stands for the "There is no groups" throw.

### WriteEngine
One caller thread writes one key again and again, so a second write can
overwrite the first. The stored object in group g is `store[g]`, either `None`
or a record with three fields:
- `w`: the write that last touched it;
- `bytes`: the set of (remote position, content index) pairs written into it;
- `done`: whether it was committed.

`pc` follows `write_impl`: `idle`, `single`, `prepare`, `chunk`, then
`metadata`. The actions are:
- `WriteBegin` (589-640): die limit, resolution, selection, truncation, path
  choice.
- `WriteSingle` (641-650, 677-683): an ioflag call or `write_data`.
- `WritePrepare` (652-659).
- `WriteChunk` (660-674): one turn of the do-while. Its helpers are
  `ChunkTargets` (661), `IsLastChunk` (664), `MoreChunks` (674) and
  `ChunkResult` (673).
- `Finish` (685-696): the acceptance check and both compensations. A
  compensation (`Compensate`) only sends the remove: the groups it addresses
  (`Target`) join `pending`.
- `RemoveLands` (the server side of 687 and 694): removes on their way reach
  their groups and delete the key's copies there.
- `Thrown` (699-708): the rethrow of a `.get()` that found no error-free
  entry.
- `WriteMetadata` (710-715).

Two more one-step calls start from `idle`:
- `WriteAsync` (1072-1140): `write_async_impl` with its handle awaited by the
  caller. It uses the same truncation as `write_impl` but ignores
  `success_copies_num`, never compensates and never checks for an empty group
  list. It returns `async_ok`.
- `Remove` (815-818, 1142-1164): `remove(key)` over the untruncated group
  list. Unlike the compensation removes it uses the key itself, so raw-id keys
  are removed too.

`CallKinds` chooses which calls the caller makes. The violation runs keep it to
`write`.

`args[w]` records each write's offset, ioflag and key kind, which the
properties need. A remove addresses `key.remote()`, so for a raw-id key it
removes nothing of this key (`Target`). `MetadataMayFail` switches on a
`write_metadata` that throws.

`RemovesOrdered` states what the storage guarantees about the unawaited
removes. When it is TRUE, a group applies every remove the proxy sent before
any request of the key sent after it, by the writer or by the reader
(`Settled` guards every other step), so the removes land before anything else
happens. When it is FALSE, nothing orders them, and a remove can land between
any two steps. `write_impl` never waits for the removes, so the code itself
guarantees neither. The key_client run sets it, so its passing results for
`TargetsHoldTheWrite`, `ResultSatisfiesPolicy` and
`ReadNeverOlderThanAccepted` hold only for a storage that orders the removes.
In that run no step reads the key while a remove is pending, and the
`g \in pending` escapes of these properties are never used.
write_delayed_remove shows what happens without the assumption.

### ReadEngine and KeyClient
`ReadEngine` is the reader thread. It reads `store`, and it reads `accepted`:
the last proxy-driven `write_impl` that returned success, and the groups that
write targeted. Both are owned by the composing module. Its actions are:
- `ReadBegin` (545-552): `get_groups` for the lookup or read; an empty list is
  a throw.
- `LookupCall` (553-568): one turn of the while loop. Each group in `lgroups`
  answers as follows:
  - a holder answers ok, error or unparsable;
  - a group without the key answers error.

  If no entry is error-free, `.get()` throws. Otherwise the call returns an
  error-free entry that parses (`LookupAnswer`), chosen in any arrival order.
  Failing that, every answering group is dropped (`Drop`).
- `LookupNotFound` (569-576): the loop ends with `not_found_error`.
- `ReadCall` (1040-1070 with `read_impl`'s `get_one()`, 579-584):
  - `read_data` returns the first answering holder in `lgroups` order;
  - `read_latest` returns the newest answering copy.

- `LookupAddr` (880-907): `lgroups` is computed, but the loop asks
  `lookup_address` for each of the caller's `groups`; a failing lookup
  throws. The addresses are reduced to the groups they were asked for.

`KeyClient` composes one `WriteEngine` writer with one `ReadEngine` reader
(`INSTANCE ReadEngine`) on the shared `store`. It also keeps `accepted` up to
date whenever a write returns `ok`.

### BulkWrite
`store[g][k]` is the number of the bulk write whose copy of key k group g
holds. The actions are:
- `BulkBegin` (909-964): empty batch, selection, the session call and the
  partition into `res_groups`;
- `BulkCheck` (966-983): `uploads_need`, the loop over `res_groups`, and
  `Rollback` (976-981). `Rollback` only sends the removes: for every key in
  `res_groups`, one remove to each group that reported it. None is awaited,
  so each is a `pending` pair (key, group) when the call throws;
- `RemoveLands`: a pending remove reaches its group at any later time,
  between any two steps of the caller, and deletes the key there. A remove
  that fails in its group looks, to the caller, like one still on its way.

`Reported` is the set of keys that have a `res_groups` entry at all.
`BulkRead` (820-878) is `bulk_read_impl`: an empty key list returns an empty
map; otherwise one bulk read of every key to the groups of `keys[0]`, which
throws when no entry came back. Which copies it returns is not kept, only
whether the call throws.

### WeightCache
These threads are modelled:
- the worker (`wpc`);
- the owner that runs the destructor (`owner`);
- a set of `Callers` of `get_metabalancer_groups_impl` (`cpc`).

The shared state is:
- `mutex`, which holds the name of the thread holding `m_mutex`;
- `m_done`;
- `tm`;
- `stamp`, a `StampBits`-wide unsigned counter;
- `initialized`, which stands for the cache.

`++m_metabase_current_stamp` is split into a read step (`WorkerReadStamp`,
or `CallerBegin`) and a write step (`WorkerRefresh`, `CallerRefresh`), so
the race without the mutex is visible. `wait_for` is four steps: `WorkerWait`
releases the mutex, and then one of the following ends the wait:
- `WorkerTimeout`;
- `WorkerSpurious`;
- the destructor's `Notify`, which wakes only a thread that is actually
  waiting.

`WorkerRelock` then re-acquires the mutex. `due` is a history variable: a
period elapsed and no refresh has run since. `req` and `sent` record the
stamps of the requests.

### WeightWorker, and the refinement
`WeightWorker` is the promise of spec 4.6 and 5, with no mutex, condition
variable or stamp: four variables (`initialized`, `done`, `worker`,
`joined`) and four actions. `Refresh` only fills the cache and needs a
running worker. `Signal` sets the flag. `Exit` needs the flag. `Join` needs
the worker to have exited. Under weak fairness, once the flag is set the
worker exits and the join returns.

`WeightCache` instantiates it with the mapping `done <- m_done`,
`worker <- (wpc = "exited" ? "exited" : "running")`,
`joined <- (owner = "joined")`, and `initialized` as it is.
`WeightWorkerRefined` (that abstract `Spec`) is checked as a property of the
weight_cache run. It covers the old `ShutdownCompletes`, and also these:
- an invalid reply or an error never empties the cache;
- no refresh happens once the worker has gone;
- the worker leaves its loops only after `m_done` is set.

The refinement does not rule out one detail of the code. After shutdown,
the notify's `no_timeout` takes the worker round the outer loop once more,
which is one more RPC. Spec 4.6 says the worker "exits on the next
wake-up". The abstract worker may refresh until it exits, so this extra
round is allowed, and it only delays the join (hazard at 1347).

### RangeGet
`range_get_impl` is a function of what the groups hold and which of them
answer, so it is a set of operators rather than actions:
- `RangeLo`, `RangeHi` (745-763): the request. `io.id` is `from`'s id only
  for a key given by id (zero otherwise); `io.parent` is `from`'s id when
  `to` is given by id (754) and all 0xff (`MaxId`) otherwise.
- `ServerAnswer`, `InRange` (767): the server's answer, an assumption (see
  section 6).
- `EntryStep`, `AnsweredGroup` (769-783): the entry loop with its NODATA test,
  then the count's text under NODATA (`Text`, the decimal formatting, kept as
  the number since it is injective).
- `GroupLoop` (765-789): groups whose read throws are skipped; `ret` is shared
  across groups, and the loop stops at the first group after which it is
  non-empty.
- `range_get` (733-813): the result, or a throw when `ret` stayed empty.

`SpecRange` and `SpecResult` are the contract of spec 5, written from the
spec: the data bodies of the records between the two keys' ids, in id order,
or with NODATA a one-element vector with their count.

### WriteHelper
`write_helper_t` on the group vectors themselves, so that an explicit list
that repeats a group behaves as in the code:
- `update_lookup` (84-100): the groups of the error-free entries, one per
  entry.
- `helper_upload_is_good` (106-108): counts entries.
- `has_incomplete_groups` (110-112): compares sizes.
- `get_incomplete_groups` (114-124): `std::set_difference` of the sorted
  vectors, which on vectors with repeats is the bag difference.
- `ChunkedUpload` (651-696): a two-chunk upload. It sends the prepare to
  `lgroups` and the commit to the survivors. A call with no error-free entry
  throws. It then applies the acceptance test and the two compensations.

`WriteEngine` works on sets of groups and takes lists of distinct groups;
this module is where repeats are checked.

### MCContracts
A state is one input: of the policy (mode, R, s), of the selector (default
list, count), or of a range read (the records of ids 0..2 in
two groups, which groups answer, both keys by name or by id, NODATA), or
of a chunked upload (an explicit list of `HelperLists`, a success mode, a
reply per entry of the prepare and of the commit). The
module checks the operators against reference definitions written from the
spec's tables and contracts. A range read's `lgroups` is fixed at `<<1, 2>>`:
`get_groups` is checked by the selector inputs.

## 4. Runs

| Run | Cfg | Expect | What it shows |
|---|---|---|---|
| key_client | MCKeyClient.cfg | pass | A writer makes two calls over groups {1,2,3}, each a `write`, `write_async` or `remove`. Writes carry a 3-unit object in 1-unit chunks. The arguments cover default or explicit `<<3,1>>` groups, success copies 0 / ALL / 2, every ioflag, and replies ok / lost / fail. Beside it, a reader does one lookup, read, read_latest or lookup_addr at any point. Compensating removes land before the next request of the key (`RemovesOrdered`). All of `CTypeOK`, `CommittedObjectIsWhole`, `TargetsHoldTheWrite`, `ResultSatisfiesPolicy` and `ChunkCallCount` hold. So does `ReadNeverOlderThanAccepted`: a read that starts after an accepted write, over that write's groups, returns that version or a newer one (1,390,365 states, about 2.5 minutes). |
| write_verdict | MCWriteVerdict.cfg | violation | `WriteAllOrNothing`: a write leaves the store other than its verdict says. After a success, a target keeps the previous version: a one-call `write_data` of a raw-id key (raw-id keys never take the chunked path) accepted by two groups leaves the old version in the third, where spec S2 says group 3 is compensated. Or a target holds a shifted object: a chunked write with offset 1 commits an object that lacks content unit 0. After a failure, copies of the write stay that no remove is on its way to. This has three causes: every group errored on a call after some applied it; `write_metadata` threw; or a rejected write of a raw-id key sent its remove to `key.remote()`, another id. TLC's shortest trace is the first failure cause. With replies restricted to ok, offset 1 alone and a throwing `write_metadata` alone each violate the property, and with offset 0, name keys and no metadata failure the property holds. |
| write_delayed_remove | MCWriteDelayedRemove.cfg | violation | Without `RemovesOrdered`: write 1 is rejected at its prepare and its remove is sent to {1,2,3}; write 2 is accepted by all three groups and returns `ok`; then the remove lands in group 1 and deletes a copy write 2 reported (`ResultSatisfiesPolicy`). |
| range_get | MCRangeGet.cfg | violation | `RangeGetMatchesSpec`: the NODATA test of the entry loop (773) is inverted. Without NODATA every answered group leaves `ret` empty, so a range holding records throws `READ_RANGE failed`; with NODATA the result is the entries' empty data followed by the text "0", not a single count. |
| duplicate_groups | MCDuplicateGroups.cfg | violation | `AcceptedUploadCountsGroups` with explicit lists that repeat a group. With `<<1, 1>>` and ANY, the commit fails one entry of group 1 and the upload is accepted, reporting group 1. `has_incomplete_groups` sees sizes 2 and 1, and `get_incomplete_groups` leaves one 1, so the compensating remove goes to group 1: the write deletes the only copy it reported. `upload_is_good` also counts entries, so `<<1, 1, 2>>` passes ALL with two groups. |
| contracts | MCContracts.cfg | pass | `upload_is_good` matches spec 4.1 for every mode and R ≤ 7. `get_groups` meets spec 4.2 / 8.5 for all default lists of up to 3 of 4 groups and counts 0-4. An explicit list is only copied and truncated (1230-1231, 1242-1244), so no input of that kind is checked. |
| bulk_write | MCBulkWrite.cfg | pass | Two batches of up to two keys over 3 groups and a bulk read, with the rollback removes of a rejected batch landing at any later time: every key in the map an accepted batch returns was acknowledged by enough groups for the policy (`AcceptedKeysMeetPolicy`; 237,540 states under symmetry of the keys). Replies are ok or fail: a lost reply, stored but not acknowledged, is a fail to the verdict, and bulk_verdict runs it. |
| bulk_verdict | MCBulkVerdict.cfg | violation | `BulkVerdictMatchesPolicy`: the verdict of `bulk_write` disagrees with the policy. A key that no group acknowledged is absent from `res_groups`, so the batch succeeds; and with success copies 1, a batch whose key has 2 of 3 copies is rejected, because `uploads_need` asks for R. |
| weight_cache | MCWeightCache.cfg | pass | With the worker, two callers and the destructor interleaved, the worker never sleeps after `m_done` is set (`DoneNeverSleeps`), and the protocol refines `WeightWorker` (`WeightWorkerRefined`): the cache is only filled, the worker exits only after `m_done`, and `join()` returns. |
| weight_periodic_refresh | MCWeightPeriodicRefresh.cfg | violation | After start-up the worker times out forever without refreshing. |
| weight_stamps | MCWeightStamps.cfg | violation | Stamps do not increase: two increments race, and the uninitialised 2-bit counter wraps. |
| lookup_addr_default_groups | MCLookupAddr.cfg | violation | `lookup_addr` without explicit groups returns no address, because the loop runs over the caller's empty `groups` instead of `lgroups` (887). |

Every property of a passing run has a mutant in `PROJECT.json`: a plausible bug
in the mapped code (a dropped compensation, an off-by-one loop test, a shuffle
that moves the head, a destructor without its lock, and so on) that TLC must
find violating that property.

### Bounds, and why they are enough

- **Write runs.**
  - Three groups are the smallest number for which QUORUM differs from both
    ANY and ALL.
  - A 3-unit content with 1-unit chunks gives a prepare, a plain write and a
    commit, so a group can drop the middle chunk.
  - Two writes let the second overwrite the first, which the
    stale-copy property needs.
  - One reader call can start before, during or after either write call, and
    every lookup and read outcome is reachable. The call can be a lookup, a
    read, a read_latest or a lookup_addr, with replies ok, error and
    unparsable.
  - Two writes are also what a late remove needs: one write to send it and a
    later one for it to hit.
  - The explicit list `<<3,1>>` makes R = 2, and success copies 2 is an
    explicit N.
- **Bulk runs.** Two keys are the smallest batch in which one key can fail
  while another succeeds. The keys are symmetric model values: no property
  names a key. The pass run leaves out the lost reply, which changes only
  the store, and that run's properties read only the verdict.
- **Refresh run.** Two callers can race on the stamp. Each caller makes one
  call, and calls only happen while the cache is uninitialised.
- **Stamp counter.** It is 2 bits wide where wrap-around is the point. In the
  pass run it starts at 0, where its width does not matter.
- **Contracts run.** Inputs go to R = 7, as spec 8.6 asks.
- **Range reads.** Ids 0..2 in two groups give each group an empty range, one
  record, or records on both sides of a key. Two groups let the first fail
  or answer with an empty range and hand over to the second. Each key, by id
  or by name, can be below, inside or above the records.

## 5. Fairness

- `WriteEngine`, `KeyClient`'s reader and `BulkWrite` have weak fairness on
  every step inside a call. Each session call returns within `wait_timeout`. Starting a call is
  the caller's choice and gets no fairness. `RemoveLands` is weakly fair:
  a group runs every request it received.
- `WeightCache` gives the worker weak fairness on its steps. The period
  timeout always fires; a spurious wake-up is not guaranteed and gets no
  fairness. Re-acquiring the mutex and the destructor's `lock_guard` are
  strongly fair, because the mutex is released again by every holder.
  Entering the destructor is the application's choice and gets no fairness.
- Runs with `CHECK_DEADLOCK FALSE` are systems that really may stop: the
  caller stops calling after the bound, and the destroyed proxy has nothing
  left to do.

## 6. Assumptions and what is not modelled

- **Assumptions about the elliptics session.** These come from its API, not
  from this repository:
  - a call's `.get()` and `get_one()` throw when no entry is error-free;
  - `read_data` tries the groups in order, and `read_latest` returns the
    newest copy among the groups that answer;
  - `wait()` on a remove reports nothing;
  - the default filter keeps the error-free entries;
  - `data_pointer::slice` clamps to the content;
  - `read_data_range` over [io.id, io.parent] answers one entry per record in
    id order, with its data, or under NODATA one entry with empty data whose
    io attribute holds the number of records; `limit_start` and `limit_num`
    stay at their default 0 and are not modelled;
  - a call to a group vector that names a group twice sends one request per
    entry and returns one entry per error-free reply (`WriteHelper`).
- **Left out:**
  - the previous version of a key that an accepted bulk batch leaves in a
    group that failed it (970): spec 4.5 compensates only a rejected batch,
    so this is specified behaviour and no property claims otherwise;
  - a rollback remove of a rejected bulk batch that lands after the next
    accepted batch of the key (980). `BulkWrite` lets it happen, but no
    property checks it: it is the unawaited remove that write_delayed_remove
    shows for `write_impl`, and spec 4.5 promises nothing about a returned
    map after a later call;
  - concurrent writers on one key: spec 5 gives no ordering across
    concurrent calls, so one writer's compensating remove deleting
    another's copy is allowed, and a model of it would check no promise.
- **Left out because they hold no state of the proxy:**
  - `exec_script_impl`, `ping`, `stat_log` and `id_str`;
  - the index calls and the metabalancer information RPCs.

  Each is one session or RPC call and then formatting. Their only
  decisions are the die-limit test in `exec_script_impl` and `ping` and the
  key-by-id choice of `exec_script_impl`. The die limit is tested only by
  `write_impl`, `write_async_impl`, `exec_script_impl` and `ping`. Reads,
  lookups, removes, bulk calls and `range_get` go ahead below it, although
  spec 3 says all operations refuse. With the models above, every part of
  `proxy.cpp` that changes state or decides an outcome is modelled. What is
  left would only restate a session call.
- **Left out as dead code:** the metabalancer branch of `write_impl` and
  `write_async_impl`, because usage is always NONE.
- **Left out because its code is not in this repository:** the data
  container's `pack` and `unpack` (spec 4.7, 8.4). `proxy.cpp` only calls
  them (634, 859, 939), and their source lives in the elliptics headers, not
  here. A model of the framing would be written from the spec alone and say
  nothing about this code.
- **Left out, no behaviour of their own:** the facade and the Python binding
  (`src/unnamed/part_000`), which only forward.
- **Abstracted data:**
  - object contents are sets of (position, index) pairs;
  - keys and groups are small sets;
  - the cache is its `initialized()` flag;
  - logging and message text are dropped.
