# TLA+ models of the nginx indexing core

This directory holds TLA+ models of the annotated nginx 1.12.2 sources under
`src/`. The models are checked with TLC. `PROJECT.json` lists:

- every component;
- every TLC run and what it checks;
- the mutants that show each property can fail;
- the source lines each definition models;
- the hazards of the code.

## The system

The sources contain two index structures and the glue around them.

| Part | Source | State it keeps | Operations |
|------|--------|----------------|------------|
| Red-black tree | `core/ngx_rbtree.c` | root, a shared sentinel, and per node: key, color, parent, left, right | insert (through a pluggable `tree->insert`: `ngx_rbtree_insert_value` or `ngx_rbtree_insert_timer_value`), delete, next (min is in the missing header) |
| Radix tree | `core/ngx_radix_tree.c/.h` | root, per node: right, left, parent, value; a free list through `right`; the current page (`start`, `size`) of the pool | create (with preallocation), insert, delete, find, for 32-bit and 128-bit keys |
| Event timer | `event/ngx_event_timer.c` | the timer red-black tree and `ngx_current_msec` | init, find_timer, expire_timers, no_timers_left |
| Posted events | `event/ngx_event_posted.c/.h` | two intrusive queues of events | post, delete, process_posted |
| Queue | `core/ngx_queue.c/.h`, `src/src/core/ngx_queue.c` | intrusive doubly linked list with a sentinel | the insert and remove macros, middle, sort |
| Spinlock and shared mutex | `core/ngx_spinlock.c`, `core/ngx_shmtx.h` | one atomic word | spin, then yield, until a compare-and-swap succeeds; shmtx is an interface only |
| Module registration | `core/ngx_module.c` | the modules of the cycle and of the old cycle, their index and ctx_index | preinit, cycle_modules, count_modules, add_module |
| Array and list | `core/ngx_array.c/.h`, `core/ngx_list.c`, the copies under `src/src/core/` | elements, nelts, nalloc, and the pool's last-allocation cursor | create, push, push_n, destroy, list push |
| Stub status | `http/modules/ngx_http_stub_status_module.c` | seven shared atomic counters | workers add to them; the handler reads them |

`core/ngx_cycle.h` and `http/ngx_http_variables.h` declare types only.

How the parts interact:

- The event timer stores timers in a red-black tree keyed by their deadline in milliseconds. The tree uses the wrap-tolerant comparator.
- The timer finds the next deadline with the tree's minimum.
- It drains expired timers by deleting the minimum and calling the event handler. That handler may add and delete timers itself.
- The radix tree is used by address-based access control and routing.
- The spinlock and shared mutex guard structures that live in shared memory.

Neither tree locks anything. The spec (section 5) says every call has exclusive access for its whole duration.

### What is hard in each part

**Red-black tree**
- Two fixup loops with four and eight cases.
- A shared sentinel whose parent field the delete writes and then reads.
- A splice that rewrites six links in an order that matters.
- `ngx_rbtree_next` climbs parent links, which only this walk reads.
- A comparator that orders unsigned keys by signed difference.

**Radix tree**
- Allocation can fail in the middle of a path.
- The free list reuses `right`.
- The pruning loop must stop at exactly the right ancestor.
- The result codes must stay apart: OK, BUSY, ERROR.

**Event timer**
- The current time wraps.
- Handlers re-arm timers while the expire loop is running.

**Spinlock**
- Mutual exclusion and progress under a scheduler.
- Recovery when a lock holder dies.

**Module registration**
- `index` and `ctx_index` must stay unique across a configuration reload.

**Array and list**
- In-place growth depends on the array still being the pool's last allocation.
- A failed allocation in the middle of a push leaves memory allocated.
- Destroy gives memory back only from the end of the pool's first block.

**Stub status**
- Every worker updates the same shared counters, one fetch-add at a time.
- The status handler reads the seven counters one after another, so a page mixes moments.

## The modules

| Module | Models | Kind |
|--------|--------|------|
| `NgxRbtree` | `ngx_rbtree.c` | detailed, pointer level |
| `NgxRbtreeOrder` | the ordered index the tree promises | abstract |
| `MCNgxRbtree` | instances of `NgxRbtree` for TLC | MC |
| `NgxRadixTree` | `ngx_radix_tree.c`, 32-bit and 128-bit functions | detailed, pointer level |
| `NgxRadixPrefixes` | the prefix table the trie promises | abstract |
| `MCNgxRadixTree` | instances of `NgxRadixTree` for TLC | MC |
| `NgxEventTimer` | `ngx_event_timer.c` over the ordered index of `NgxRbtreeOrder` | composition |
| `MCNgxEventTimer` | instances of `NgxEventTimer` for TLC | MC |
| `NgxQueue` | `ngx_queue.h` and `ngx_queue.c` | detailed, pointer level |
| `NgxQueueSeq` | the queues of sequences that the rings promise | abstract |
| `MCNgxQueue` | instances of `NgxQueue` for TLC | MC |
| `NgxEventPosted` | `ngx_event_posted.c/.h`, composed with `NgxQueue` | composition |
| `MCNgxEventPosted` | instances of `NgxEventPosted` for TLC | MC |
| `NgxSpinlock` | `ngx_spinlock.c`, and the `ngx_shmtx` interface | concurrent processes |
| `MCNgxSpinlock` | instances of `NgxSpinlock` for TLC | MC |
| `NgxModule` | `ngx_module.c` over the running and the new cycle | detailed, across reloads |
| `MCNgxModule` | instances of `NgxModule` for TLC | MC |
| `NgxArray` | `ngx_array.c/.h`, `ngx_list.c/.h`, over one pool | detailed, memory cells |
| `MCNgxArray` | instances of `NgxArray` for TLC | MC |
| `NgxStubStatus` | `ngx_http_stub_status_module.c`: the shared counters, the workers' updates, the status handler | concurrent processes |
| `MCNgxStubStatus` | instances of `NgxStubStatus` for TLC | MC |

### NgxRbtree

`tree` is one record.

- `root` is `tree->root`.
- `left`, `right`, `parent`, `color` and `key` are functions over `Nodes` plus `Sentinel`.
- The sentinel is a real slot, so the code's writes to `sentinel->parent` are modelled.
- A node outside the tree has `NULL` links, as the "DEBUG stuff" of `ngx_rbtree_delete` leaves them.

An insert or delete spans several steps. `pc` and `cur` hold the fixup loop's position and its loop variable (`node` in the insert loop, `temp` in the delete loop).

| Action | Code it models |
|--------|----------------|
| `InsertRoot` | `ngx_rbtree_insert` on an empty tree (lines 38-46) |
| `Insert` | the BST descent of `tree->insert` (`InsertPoint`, either comparator) and the link of a red leaf |
| `InsertFixupRecolor` | one iteration of the insert loop with a red uncle |
| `InsertFixupRotate` | one iteration with a black uncle: the optional inner rotation, the recolor and the outer rotation |
| `InsertFixupDone` | the loop exit and `ngx_rbt_black(*root)` |
| `DeleteRoot` | delete where subst is the root (lines 244-255) |
| `Delete` | the splice (`Splice`: lines 271-323), the debug clear and the `if (red) return` |
| `DeleteFixupRedSibling` | the red-sibling rotation |
| `DeleteFixupPushUp` | the two-black-nephews case |
| `DeleteFixupRotate` | the optional near rotation and the terminal rotation |
| `DeleteFixupDone` | the loop exit and `ngx_rbt_black(temp)` |

The red-sibling case of the code falls through to the other cases in the same iteration. The model takes it as its own step, with `cur` unchanged. The loop test still holds at that step, so the following step is one of the black-sibling cases, exactly as in the code.

Code details the model follows:

- Rotations are LET chains. Each statement reads the fields as the previous statement left them, as the C code does.
- Left and right code paths are mirror images. One direction-generic action covers both (`Kid`, `SetKid`, `Rotate`, `SideOf`).
- `Less` is the comparator that `InsertStrategy` selects:
  - `"value"` is `node->key < temp->key`;
  - `"timer"` is `(int)(node->key - temp->key) < 0` over `KeyBits`-bit keys.

The caller is modelled as follows:

- it inserts a node not in the tree, with a key from `NodeKeys[n]`;
- it deletes a node in the tree;
- it never calls while a fixup is running.

The ghost set `inserted` holds what the caller believes is in the tree.

`NgxRbtree` refines `NgxRbtreeOrder`:

- `index` is mapped to the in-order walk of the tree's child links, as `<<node, key>>` pairs, when the tree is idle.
- During a fixup the mapping is the same walk. Fixups only rotate and recolor, so the walk does not change, and each fixup step is a stutter of the abstract spec.
- An abstract insert places the new pair after every pair whose key is not greater under the same comparator. So the refinement says two things: the tree stays sorted, and equal keys stay in insertion order.

### NgxRadixTree

Sizes and their representation:

- The key has `KeyWidth` bits (3 here; 32 in the code).
- Nodes are pool slots `1 .. MaxPages * PageNodes`.
- `t` holds the node fields and the allocator: `free`, `start` (the next unused slot), `size` (nodes left in the current page) and `pages`.
- `ngx_pmemalign` fails once `MaxPages` pages have been given out; `Alloc` then leaves `start` NULL, the result line 687 stores.

Each API call is one atomic action (the structure is unsynchronized and called from one thread):

- `Create`
- `Insert`
- `Delete`
- `Find`

The loops of each call are recursive operators that keep the code's order of writes:

- `Descend` and `Extend` for insert;
- `Locate` and `Prune` for delete;
- `FindFrom` for find;
- `Alloc` for `ngx_radix_alloc`.

`ret` is what the call returned. `"SEGV"` stands for the NULL dereference of the delete loop.

Key operations are written as the code has them: `bit & mask` is `Test`, `bit >>= 1` is `\div 2`, and `key += inc` is taken modulo the key width.

The 128-bit functions (`Insert128`, `Delete128`, `Find128`) walk the same key as `NBytes` bytes of `ByteBits` bits, most significant first, with a cursor `[i, bit]`:

- `Step128` is `bit >>= 1; if (bit == 0) { if (++i == 16) break; bit = 0x80; }` of insert and delete.
- `Descend128`, `Extend128` and `Locate128` are their loops. The rest of delete (`DeleteAt`, `Prune`) is the same code as the 32-bit delete.
- `Find128From` has no test of `i`. Below a node of full depth it reads `key[16]`, past the key; that byte is modelled as any byte, and find returns one of the values the walk can reach.

`api` fixes, in `Init`, which family a tree is used with; `ngx_radix_tree_create` preallocates with the 32-bit insert for both.

`NgxRadixTree` refines `NgxRadixPrefixes`:

- `table` is mapped to the value at the node each prefix leads to.
- `ret` is mapped to itself.
- The abstract insert is BUSY on an occupied prefix, and may fail with ERROR while changing nothing.
- The abstract delete of an unoccupied prefix is ERROR.
- The abstract find is the longest-prefix match.

### NgxEventTimer

The timer tree is the `index` of `NgxRbtreeOrder` (`Tree`), ordered by `TimerLess`. `TimerLess` is the signed-difference comparator of `ngx_rbtree_insert_timer_value`.

The run `rbtree_deep` checks that `NgxRbtree` with that comparator refines the index. So `Head(index)` is what `ngx_rbtree_min` returns, and the order of `index` is the order `ngx_rbtree_next` walks.

State and its counterparts in the code:

- `now` is `ngx_current_msec` modulo `2^MsecBits`.
- `timer_set` and `timedout` are the event flags.
- `INFINITE` is `NGX_TIMER_INFINITE`, `(ngx_msec_t) -1`.

The event loop of `ngx_process_events_and_timers` is a `pc` cycle:

1. `FindTimer`
2. `Wait(d)`: the wait returns and the time update advances `now`.
3. `ExpireFire` and `Handler` repeat until `ExpireReturn`.

Between cycles, `IoAddTimer` and `IoDelTimer` stand for the other handlers.

`NoTimersLeft` is `ngx_event_no_timers_left`: `NGX_OK` at once for an empty tree, else `WalkLeft`, the loop from the minimum by successor that returns `NGX_AGAIN` at the first event that is not cancelable. It sets `left` and is fired by the run; no property is stated about it, because over the ordered index its answer is the plain statement that a non-cancelable event has a timer.

`AddTimer` and `DelTimer` model `ngx_add_timer` and `ngx_del_timer`, including `NGX_TIMER_LAZY_DELAY`. Their header is not in the repository, so they are modelled from the spec.

A handler called from the expire loop may re-arm or delete any timer.

### NgxQueue

`prev` and `next` are the two links of every head and element. Each macro is one action, and its LET chain performs the macro's assignments in order:

- `QueueInit`
- `InsertHead` (through `InsertAfter`)
- `InsertTail` (through `InsertBefore`)
- `Remove` (through `Unlink`, release build, so stale links stay)
- `Split`
- `Add`

`ngx_queue_sort` and `ngx_queue_middle` are atomic actions. Their loops are the recursive operators `SortFrom`, `Back` and `MiddleLoop`.

`live` records which heads the caller may use: set up by init or split, and not yet consumed by add.

`NgxQueue` refines `NgxQueueSeq`:

- each live head maps to the sequence its ring walks;
- sort maps to `StableSort`, a rank-based reference definition of a stable sort;
- middle maps to the element at `Len \div 2 + 1`.

### NgxEventPosted

This module instantiates `NgxQueue` for the two posted queues, and uses its `InsertBefore` and `Unlink` on the shared links.

- `posted` is `ev->posted`.
- `PostEvent` and `DeletePosted` are the two macros.
- `ngx_event_process_posted` is the `pc` cycle `StartProcess`, then `ProcessStep` and `Handler` repeated, then `ProcessReturn`.
- `Targets[q]` says which queues a handler run from queue `q` may post to.

### NgxSpinlock

`lock` is the shared atomic word. `pc[p]` and `n[p]` are each worker's position in `ngx_spinlock` and its local `n`.

Each step is one shared-memory access, so another worker can interleave between any two steps:

- `Top` is the read of `*lock == 0`, and `Cas` is `ngx_atomic_cmp_set`. These are two separate steps.
- `SpinTest`, `Pause`, `SpinRead` and `SpinCas` form the exponential spin loop.
- `Yield` is `ngx_sched_yield`.

Some operations are modelled from the spec's lock interface (section 5), because their code is not in the repository:

- `Unlock` (`ngx_unlock`);
- `TryLock`, `TryRead` and `TryCas` (`ngx_shmtx_trylock`);
- `ForceUnlock` (`ngx_shmtx_force_unlock`), run by the master for a worker that `Crash`ed.

### NgxModule

Module structs are global: the running cycle (`old_modules`, the cycle kept as `cycle->old_cycle` while a reload is configured) and the new one (`modules`) point at the same structs, so `index[m]` and `ctx_index[m]` are one function over all modules. `UNSET` is `NGX_MODULE_UNSET_INDEX`, `(ngx_uint_t) -1`, with `ngx_uint_t` cut to `UintBits` bits so that its wrap is kept. A dynamic module's struct lives in its library; when no cycle holds the library any more it is unloaded, and the next load sees the initial `UNSET` indices again (`Unload`).

| Action | Code it models |
|--------|----------------|
| `Init` | `ngx_preinit_modules`: static modules numbered in order |
| `CycleModules` | `ngx_cycle_modules`: the new cycle starts with the static modules |
| `AddModule(m)` | `ngx_add_module` from `load_module`: the limit and duplicate checks, `ngx_module_index` over both cycles, the place given by `ngx_module_order`, and the core module's `create_conf`; every error return fails the configuration |
| `CountModules(t)` | `ngx_count_modules`: the `ctx_index` loop with `ngx_module_ctx_index`, the old-cycle loop and `max + 1`, modulo `2^UintBits` |
| `Fail` | a configuration that fails: the new cycle is dropped and libraries only it loaded are unloaded |
| `Commit` | a configuration that succeeds, in master mode: the old cycle is freed |

`Fail` and `Commit` model `ngx_init_cycle` and the pool cleanup that unloads a library, which are not in the repository (`spec_modelled`). A configuration without a block of type `t` (a type in `OptionalBlocks`) never calls `ngx_count_modules` for `t`.

### NgxArray

Memory is a set of cells of one unit each. A cell is `<<block, offset>>`:

- block 0 is the pool's first block, `p->d`, with the cursor `pool.last` (`p->d.last`);
- blocks 1 to `MaxFresh` stand for the allocations that did not fit in it.

Elements and headers are one unit each. `mem` holds what callers wrote: each element is stamped with its container and index, and each header with its container. `ngx_palloc` is not in the repository, so `Palloc` is modelled from the spec's arena interface (`spec_modelled`). It takes the next units of the first block when they fit, otherwise a block of its own, and returns NULL once `MaxFresh` blocks are used.

Each call is one step. A pool belongs to one request or cycle and is used from one thread.

| Action | Code it models |
|--------|----------------|
| `ArrayCreate(a, n)` | `ngx_array_create` and `ngx_array_init` (`ArrayInit`): header, then `n` elements; NULL from either allocation, the header staying allocated |
| `ArrayPush(a)` | `ngx_array_push` and the caller's store: grow by one in place when the elements end at `p->d.last` and the block has room, else move to `2 * nalloc` with a copy; NULL changes nothing |
| `ArrayPushN(a, n)` | `ngx_array_push_n` and the caller's `n` stores: in place by `n`, else a move to `2 * max(n, nalloc)` copying `nelts` |
| `ArrayDestroy(a)` | `ngx_array_destroy`: `p->d.last` moves back over the elements, then over the header, each only when it is the last allocation |
| `ListCreate(l, n)` | `ngx_list_create` and `ngx_list_init` (`ListInit`) |
| `ListPush(l)` | `ngx_list_push` and the caller's store: a full last part gets a part header and `nalloc` elements; NULL from the second allocation leaks the first |

### NgxStubStatus

`stat` holds the seven counters in shared memory. `pc` holds where each connection is in its life, and `nreq` how many requests it has carried. The updates themselves are in `ngx_event_accept.c`, `ngx_http_request.c` and `ngx_connection.c`, which are not in the repository. The module's comment (lines 62-104) lists each of them as its code, and the actions are translated from those lines. The order of the calls over a connection's life is the HTTP flow. Each connection belongs to a worker of its own, so every interleaving of their steps and the handler's can happen. One fetch-add is one step.

| Action | Code it models |
|--------|----------------|
| `Accept`, `GetConnection`, `Handled` | `ngx_event_accept`: `accepted++`, then `active++`, then `handled++` after the connection's setup |
| `CloseAccepted` | `ngx_close_accepted_connection` when that setup fails: `active--`, never `handled++` |
| `ReusableOn`, `ReusableOff` | `ngx_reusable_connection(c, 1)` and `(c, 0)`: `waiting++` while the connection waits for a request, `waiting--` when one arrives |
| `CreateReading`, `CreateRequests` | `ngx_http_create_request`: `reading++`, then `requests++` |
| `ProcessReading`, `ProcessWriting` | `ngx_http_process_request`: `reading--`, then `writing++` |
| `FreeRequest` | `ngx_http_free_request`: `reading--` or `writing--`, whichever the request is on |
| `HandlerStart` | `ngx_http_stub_status_handler` up to the reads: the method check, HEAD, the body discard and a failed buffer all return before any read |
| `HandlerRead` | one of `ap = *ngx_stat_accepted` ... `wa = *ngx_stat_waiting`, in the code's order |
| `HandlerSend` | the page is formatted and sent |

## Runs

| Run | cfg | Result | States | Time |
|-----|-----|--------|--------|------|
| `rbtree_deep` | `MCNgxRbtreeDeep.cfg` | pass | 149,456 | about 45 s |
| `radix_lpm` | `MCNgxRadixTree.cfg` | pass | 11,980 | 2 to 3.5 min |
| `radix_out_of_memory` | `MCNgxRadixTreeOOM.cfg` | pass | 30,412 | about 25 s |
| `timer_wrap_expire` | `MCNgxEventTimer.cfg` | pass | 88,776 | about 10 s |
| `queue_ops` | `MCNgxQueue.cfg` | pass | 80,100 | about 20 s |
| `posted_drain` | `MCNgxEventPosted.cfg` | pass | 5,763 | about 2 s |
| `spinlock_crash` | `MCNgxSpinlock.cfg` | pass | 35,064 | about 10 s |
| `module_reload` | `MCNgxModule.cfg` | pass | 11,341 | about 2 s |
| `array_pool` | `MCNgxArray.cfg` | pass | 88,425 | about 10 s |
| `stub_status_counters` | `MCNgxStubStatus.cfg` | pass | 1,079,876 | about 45 s |
| `radix_delete_absent_prefix` | `MCNgxRadixTreePrealloc.cfg` | violation | | |
| `module_count_wrap` | `MCNgxModuleNoBlock.cfg` | violation | | |

### rbtree_deep

Six nodes with fixed keys, two of them equal, under the timer comparator. The keys are 4-bit and straddle the wrap: 14, 15, 15, 0, 1, 2. The signed difference orders them 14 < 15 < 0 < 1 < 2, although 0 < 14 as unsigned numbers.

The red-sibling case of the delete fixup needs black height 2 on both sides of temp's parent, which four nodes cannot give. This run reaches every case of both loops.

It checks:

- `LinksConsistent`: when idle, the in-order walk over child links from the root reaches exactly the inserted nodes, each once. It never reads a parent link; a stale parent is caught by `SuccessorWalk`.
- `RedBlack`: the root is black, no red node has a red child, and black heights are equal.
- `SuccessorWalk`: `ngx_rbtree_min` followed by `ngx_rbtree_next` until NULL (the loop of `ngx_event_no_timers_left`) visits the in-order sequence. This walk follows parent links, which the child-link walk never reads.
- `OrderRefinement`: every insert and delete implements its counterpart on the ordered index. That refinement is what `NgxEventTimer` relies on.

### radix_lpm

- Keys 100 and 101.
- Masks of prefix length 0 to 3 for insert, 1 to 3 for delete (length 0 is discussed under "Not modelled").
- Two values.
- Enough memory.

It checks:

- `TypeOK`.
- `NoLeak`: every slot handed out is in the tree or on the free list, never both, and the free list has no repeats.
- `TreeLinked`.
- `NoValuelessLeaf`: pruning leaves no valueless non-root leaf.
- `FindIsLongestPrefix` for all 8 keys.
- `Api128Agrees`: on every reachable tree, the 128-bit insert, delete and find (with one-bit bytes, so the walk crosses a byte at every level and ends with the `i == 16` break) write the same nodes and return the same as the 32-bit ones. The refinement cannot see a walk that stops a byte early, because the shorter prefix is a legal abstract insert too; this property can.
- `PrefixRefinement`.

### radix_out_of_memory

- Preallocation of one level: keys 0 and 100 with mask 100, the do-while ending when `key += inc` wraps to 0.
- Keys 100, 101 and 110.
- A pool of 3 pages of 2 nodes, which runs out in the middle of inserts.
- One value. The error paths do not depend on which value is stored, and a second value made the run ten times longer.

The 128-bit functions use one three-bit byte here, so their walk shifts within a byte. It checks `NoLeak`, `TreeLinked` and `PreallocComplete`: when `ngx_radix_tree_create` returns a tree, every node of the first `Prealloc` levels exists and no deeper one does, so the wrap test ends each level after its last key (H17; the mutant `PreallocKeysEarly` tests for the wrap one key ahead and leaves node 1 out). `FindIsLongestPrefix` is checked in `radix_lpm` only: find does nothing different on a preallocated or partly filled tree. `NoValuelessLeaf` and `PrefixRefinement` do not hold here; the violation runs show why.

### timer_wrap_expire

Setup:

- three events, one of them cancelable;
- a 3-bit clock, so deadlines cross the wrap;
- delays 1 and 2 ms;
- waits of 0 to 2 ms.

Checks:

- `TimerSetMatchesTree`: `timer_set` holds exactly for the events in the tree, each once.
- `NoDueTimerLeft`: when the expire loop returns, no timer is due.
- `FindTimerEarliest`: find_timer reads only the minimum, yet returns the delay to the earliest of all deadlines.
- `ExpireReturns`: the expire loop returns.

The wrap-tolerant comparator is what makes `NoDueTimerLeft` and `FindTimerEarliest` hold. With the plain unsigned comparator (mutant `TimerLessUnsigned`), a timer due just before the wrap hides behind one set just after it.

`ExpireReturns` assumes delays of at least 1 ms. `ngx_add_timer(ev, 0)` from a handler would keep the loop firing forever.

### queue_ops

Two heads and three elements. Elements `a` and `b` have equal keys, so sort stability is observable.

It checks:

- `TypeOK`, which includes that ring slots never hold NULL links;
- `Linked`: each ring closes, `prev` inverts `next`, and no element is on two rings;
- `QueueRefinement`: every operation implements its sequence counterpart. Sort must be stable, and middle returns the later of the two middle elements.

### posted_drain

Three events on the two posted queues. A handler posts only to the queue that is not being drained, but deletes from either.

It checks:

- `PostedMatchesQueue`: `ev->posted` holds exactly when the event is on a ring, and the rings are well formed;
- `ProcessReturns`: `ngx_event_process_posted` returns.

If `Targets` lets a handler post to the queue being drained, TLC finds that `ngx_event_process_posted` never returns: a handler keeps re-posting its own event onto the queue being drained. This is a hazard of 1.12.2 that callers avoid by convention; it is recorded in `PROJECT.json`.

### spinlock_crash

**`spinlock_crash`** runs three workers on a multiprocessor with spin 4, so the spin loop takes n through 1, 2 and 4. Workers may die anywhere. It checks:

- `MutualExclusion`, which holds because the CAS, not the read, decides who gets the lock;
- `LockOwned`: the lock word holds the pid of the holder, or of a dead worker that has not been reaped. So `force_unlock` by pid never frees a live worker's lock.
- `Progress`: a worker inside `ngx_spinlock` either dies or sees some worker take the lock.

That a single waiter eventually gets the lock does not hold under the same fairness: with two workers that do not die, TLC finds one that sees the lock taken at every read while the other keeps taking it again. The spec says lock() is "guaranteed to return holding the lock"; that rests on the scheduler. It is recorded as a hazard; no run is kept for it.

### module_reload

Static modules `core` (a core module) and `http_core` (http); dynamic modules `geoip` and `filter` (http, `filter` ordered before `http_core`, `geoip` before `filter`) and `stream` (a core module). `MaxDynamic` is 2, so loading all three hits the limit. `ngx_uint_t` has 3 bits, so `UNSET` is 7. Every configuration has its `http{}` block. Reloads load any subset in any order, and may fail after any step.

It checks:

- `IndexUnique`: the modules of both cycles have distinct `index` values, each below `ngx_max_module`. A dynamic module the running cycle holds keeps its index, so the new numbers must avoid it.
- `CtxIndexUnique`: the same for `ctx_index` within a type.
- `CountCoversCtx`: after `ngx_count_modules(t)`, every module of type `t` in either cycle has `ctx_index` below the count. `ngx_http_block` sizes its per-module arrays by it.
- `OrderRespected`: a module placed by `ngx_module_order` lies before every module it names that was already in the list.

### array_pool

Two arrays and a list on one pool. The first block holds 8 units, and the pool can add two blocks of at most 4 units. Containers are created with 1 or 2 elements, `push_n` adds 2, and a caller stores at most 3 elements per container. The run has `CHECK_DEADLOCK FALSE`: once every container is full or destroyed, the callers stop using the pool, as a request does when it ends.

It checks:

- `ElementsReserved`: every element and header of a live array or list lies in memory the pool has handed out. A push never writes past its allocation, and a destroy never gives back memory a live container uses.
- `ContentsIntact`: every element and header of a live container still holds what was stored there. Growth in place never runs into another allocation, a move copies every element, and no two containers share a cell.

The mutants:

- a push that grows in place whenever the block has room, without the last-allocation test;
- a destroy that moves `p->d.last` back over the elements wherever they lie.

Creation with `n = 0` is left out, because nginx's callers pass a positive count. With `CreateN = {0, 1}`, TLC finds `ElementsReserved` violated in three steps: create with `n = 0`, another allocation, then a push. `ngx_array_push` allocates `2 * 0` units, `nalloc *= 2` stays 0 (line 107), and the element is stored past the allocation.

### stub_status_counters

Two connections, each in a worker of its own. Each is accepted once, and a kept-alive connection carries up to two requests. Meanwhile a third worker serves status pages one after another. The two connections are interchangeable, so the run uses symmetry.

It checks:

- `CountersMatchConnections`: at every step, each shared counter equals what its name says of all workers' connections. For example, `active` is the number of connections accepted and not closed, and `reading` is the number of requests being read. A failed accept gives `active` back and is never counted as handled, and `free_request` takes a request off the counter it is on.
- `PagesMonotonic`: no page shows fewer accepts, handled or requests than the page before. A client computing rates from two pages relies on this.

The mutants:

- `free_request` takes the request off the wrong counter;
- the handler reads `hn` from `ngx_stat_active`.

A single page is not one moment. With a one-off invariant saying a page shows `handled <= accepts`, TLC finds a page with accepts 0 and handled 1: a worker accepts between the reads of `ap` and `hn`. That is what the code does, and nothing in the repository claims otherwise, so no run records it as a violation.

### Violation runs

These two runs record disagreements between the code and `spec.md` or its own comments. `PROJECT.json` "findings" has the details.

- **`radix_delete_absent_prefix`** checks `PrefixRefinement` with one preallocated level. Deleting the never-inserted prefix `1` (mask 100) returns `NGX_OK` and frees a preallocated node. Spec section 7 says not-found.
- **`module_count_wrap`** checks `CountCoversCtx` with `http` optional. A running cycle that loaded `geoip` without an `http{}` block leaves its `ctx_index` at `UNSET`. On the next reload the old-cycle loop of `ngx_count_modules` (line 175) takes `UNSET` as the maximum and returns `UNSET + 1`, which is 0, while `http_core` has `ctx_index` 0. The comment above the loop says the number must be big enough for the previous cycle.

### Bounds

- **Six red-black tree nodes** give every case of both fixup loops, the red sibling of the delete fixup included, which four cannot.
- **3-bit keys** in the radix tree give three levels below the root. That is enough for nested prefixes, for pruning across two levels, and for a path that fails after one allocated node.
- **Three dynamic modules with a limit of two** reach the limit, a module kept across a reload next to one loaded afresh, and an ordered module placed before one that is and one that is not loaded.
- **An 8-unit first block and two 4-unit extra blocks** let a container grow in place, move after another allocation, fail to allocate, and be destroyed both when it is the last allocation and when it is not.
- **Two connections with up to two requests each** reach a failed accept next to a handled one, a request freed while read or while written, and a kept-alive connection's second request. They do so while the handler is anywhere in its seven reads.
- **State-space limits.** Larger radix instances are slow: the refinement check evaluates the prefix table on every step, so keys and values are kept small.

### Mutants

Each property of a passing run has a mutant in `PROJECT.json`. A mutant is an operator defined next to the definition it replaces, marked `Mutation:` in a comment, and it breaks that property under the run's own configuration. Examples:

- a left rotation that forgets `node->right = temp->left`;
- a descent that goes left on equal keys;
- a prune loop that does not push the node onto the free list;
- a find that copies `NGX_RADIX_NO_VALUE` over the value it found.

## Fairness and liveness

The event timer and the posted events are checked for liveness (`ExpireReturns`, `ProcessReturns`). Both assume weak fairness of the steps of their loop (fire or step, handler, return) and nothing else. That is justified: each loop is a plain `for`/`while` in the worker's single thread, so once entered, its next step is always taken. No fairness is assumed for the callers or for time.

The two trees have no liveness question. Every call finishes in a bounded number of steps, and the step count is fixed by the tree height or the key width. The properties are safety properties checked under `Spec` without fairness.

The spinlock assumes weak fairness of each worker's steps once it called lock or trylock, its unlock included, and of the master's force_unlock of a dead worker. In practice:

- an OS scheduler runs every runnable worker again;
- a holder of a spinlock runs a bounded critical section;
- the master reaps dead children.

Nothing stronger is assumed, and that is why a single waiter can starve (see `spinlock_crash`).

The stub status model has no liveness question. Its properties are safety properties, and no fairness is assumed.

The module registration model has no liveness question and no fairness: a reload may stop anywhere.

## Not modelled, and why

- **Headers missing from the repository.** `ngx_rbtree.h` (min, color macros, init) is absent; those definitions are marked `spec_modelled` in the map. `ngx_event_timer.h` (add_timer, del_timer) and `ngx_shmtx.c` are also absent.
- **Delete with mask 0 in the radix tree.** `NoNullDereference` in `NgxRadixTree` states that no call dereferences NULL. With `DeleteMasks` containing 0 and `Prealloc = 0`, TLC finds it violated: `ngx_radix32tree_delete(tree, key, 0)` on a root with no child reads `NULL->right` (line 370). No run checks it. nginx's one caller (geo) creates its trees preallocated, so the root always has children, and the run slot went to `array_pool`.
- **Partial insert in the radix tree.** `NoPartialInsert` in `NgxRadixTree` states that a failed insert leaves nothing new reachable from the root, as spec section 7 asks. With the out-of-memory configuration, TLC finds it violated: the nodes allocated before the failure stay linked with `NGX_RADIX_NO_VALUE` (line 288). No run checks it any more. Its run slot went to `stub_status_counters`. The nodes it leaves behind hold `NGX_RADIX_NO_VALUE`, which find skips.
- **The rest of stub status.** Not modelled:
  - `ngx_http_stub_status_variable`, one atomic read of one counter, which changes no state;
  - the configuration callbacks `add_variables` and `set_stub_status`;
  - the close of an HTTP connection (`active--` in `ngx_http_close_connection`), which is neither in the repository nor in the module's list.

  Without the close, a connection is accepted once, and the run's bounds come from the number of connections and of requests.
- **Pure I/O and formatting.** Logging, the stub status text output, and the HTTP variable declarations are out of scope.

## Plan for the next sittings

1. **`NgxEventTimer` over `NgxRbtree` itself.** This would replace the ordered index, at much higher state cost.
