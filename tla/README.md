# Formal models of the ucall connection and memory core

This directory holds TLA+ models of the single-worker core of the ucall JSON-RPC
server. The core lives in `src/src/datastructures.hpp`, `src/src/shared.hpp` and
`src/src/helpers/reply.hpp`. The directory also holds TLC configurations that
model-check the modules and TLAPS proofs about them. Every definition that
models code is listed in `PROJECT.json` under `map`, with the source lines it
stands for.

## 1. Inventory

### Components and their state

| Component | Source | State | Operations that change state |
|---|---|---|---|
| Connection ring `round_robin_gt` | datastructures.hpp:260-356 (a copy is at shared.hpp:77-141) | `circle_` (one record per slot: descriptor, skipped cycles, response counters), `count_`, `capacity_`, `idx_oldest_`, `idx_newest_`, `idx_to_poll_` | `alloc`, `push_ahead`, `drop_tail`, `poll`, move assignment |
| Slab pool `pool_gt` | datastructures.hpp:181-258 | `elements_`, `free_offsets_` (a stack), `free_count_`, `capacity_` | `reserve`, `alloc`, `release`, move assignment |
| Growable array `array_gt` | datastructures.hpp:83-179 | `elements_`, `count_`, `capacity_` | `reserve`, `push_back_reserved`, `pop_back`, `append_n`, `reset`, move assignment |
| Buffer `buffer_gt` | datastructures.hpp:35-81 | `elements_`, `capacity_` | `resize`, destructor, move assignment |
| Span `span_gt` | datastructures.hpp:8-33 | two pointers | none (a view) |
| Reply encoder | reply.hpp:40-106 | none: it fills a caller's `iovec` array | `fill_with_content`, `fill_with_error`, `iovecs_length`, `iovecs_memcpy` |
| HTTP header patch | reply.hpp:22-37 | the caller's header buffer | `set_http_content_length` |
| Shared definitions | shared.hpp:22-75 | none | `cpu_cycle` (reads a hardware counter), `string_length` |

### How the components interact

A single reactor thread owns one ring, its pools and its arrays, and it drives
them by direct calls (spec section 5). Nothing here locks and nothing runs
concurrently. The reactor works in this order:

1. It calls `alloc` on the ring once at start-up.
2. For each accepted socket it calls `push_ahead(fd)`. It must first check
   that `size() < capacity()`.
3. On every scheduling tick it calls `poll()` to pick the connection to
   service.
4. It calls `drop_tail()` to evict the oldest connection, then closes the
   descriptor that `drop_tail()` returns.

Replies are built by the reply encoder into iovec lists. The reactor writes
those lists directly, or joins them with `iovecs_memcpy` behind an HTTP header
that `set_http_content_length` patched. The reactor itself is not under `src/`.

### What is hard here

The problems come from long call sequences, not from concurrency:

- **The ring's cursors and indices.** Three cursors wrap independently, and
  `poll` reduces its cursor modulo the live count while `push_ahead` and
  `drop_tail` wrap modulo the capacity (spec section 9 raises this as an open
  question). An eviction moves the oldest slot under the poll cursor, and
  `head()` subtracts 1 from an index that may have wrapped to 0.
- **Contracts the code does not check.** The code checks none of these: no
  push on a full ring, no poll or drop on an empty one, no double release into
  a pool, no `push_back_reserved` without room, no `pop_back` of more than
  `size()`. They are the caller's job (spec section 7).
- **Allocation failure, and memory that was never initialised.** The ring's
  records and the array's grown tail are never initialised. A failed
  `buffer_gt::resize` leaves `capacity_` stale. A `realloc` may move the block.
- **Formatting edges.** `std::to_chars` fails on a 10-digit content length,
  and a reused header buffer keeps the previous length's trailing digits.
  `fill_with_error` computes its returned length separately from the iovec
  lengths it sets.

### Properties that make each component correct

- **Ring.**
  - The cursors agree with the live count.
  - The live slots hold distinct open descriptors.
  - The ring behaves as a FIFO of connections.
  - `drop_tail` never leaves the cursor on the slot it killed.
  - `poll` returns only live connections, and every live connection is
    eventually polled.
  - `head()` is the newest live slot.
- **Pool.**
  - The free stack and the offsets handed out partition the pool.
  - `alloc` returns null exactly at exhaustion.
  - Offsets are reused last-released-first.
- **Array.**
  - `size() <= capacity()`.
  - No indeterminate element is exposed.
  - The array is the sequence its owner appended, across every reallocation.
- **Buffer.**
  - `size()` never reports memory that `data()` does not point to.
  - No block is leaked.
- **Reply encoder.**
  - The fragments concatenate to the JSON-RPC envelope.
  - The returned length is the sum of the iovec lengths.
  - The HTTP field decodes back to the length, or the patch fails.

## 2. Modules and how they correspond to the code

### `RoundRobin` (the connection ring)

- **Variables.** They are the class's members:
  - `capacity`, `count`, `idx_newest`, `idx_oldest` and `idx_to_poll`.
  - `circle`, which maps each slot to its record's descriptor.
  - `polled`, the slot the last `poll()` returned.
  - `evicted`, the descriptor the last `drop_tail()` returned.
- **Actions.** There is one action per method: `alloc`, `push_ahead(new_)`,
  `drop_tail` and `poll`. `head` is an operator.
- **Guards.** Each guard adds the reactor's side of the contract to the code's
  preconditions:
  - `alloc` is called once.
  - No push when `count = capacity`.
  - No drop or poll when `count = 0`.
  - A pushed descriptor is not already open, since the OS does not reuse an
    open descriptor.
- **Uninitialised records.** `alloc` leaves the records uninitialised, so the
  model picks every slot's descriptor nondeterministically.
- **What is abstracted.** `push_ahead` also zeroes the skipped-cycle and
  response counters. They are left out because no property distinguishes them.
- **`head()` and the width of `std::size_t`.** The subtraction in `head()` is
  modelled modulo `SizeMax + 1`. The MC module uses a 16-bit width, which is
  enough to show whether the index leaves the slots.

### `ConnectionQueue` (abstract)

This module states what the ring promises: a bounded FIFO of open descriptors
with `Accept` and `Evict`. `RoundRobin` instantiates it with the refinement
mapping `queue <- Connections`, where `Connections` lists the live window
oldest first. `QueueRefinement` asserts the instance's `Spec`. Under this
mapping `poll` is a stuttering step.

### `Pool`

- **Variables.** `capacity`, `free_count` and `free_offsets` are the members.
  `held` is the owner's set of offsets it was given, and `allocated` is what
  `alloc()` last returned.
- **Actions.** `reserve` pushes every offset with `std::iota`. `alloc` pops
  the top offset or returns null. `release(p)` pushes `p`.
- **Contract.** The release contract (only an offset the owner holds) is the
  guard of `release`.
- **`MCPool`.** It adds a history variable, `released`, which the LIFO-reuse
  property uses.

### `PoolAllocator` (abstract)

This module states what the pool promises its owner, without a stack. Once
reserved, `Alloc` hands out some slot that is not in use, and it fails only
on a pool that was never reserved or has every slot in use. Which free slot
it hands out is left open. `Pool` instantiates it with the mapping
`ready <- capacity = N`, `inuse <- held` and `result <- allocated`.
`AllocatorRefinement` asserts the instance's `Spec`.

### `Array` and `ElementSequence` (abstract)

- **Variables.** `elements` maps each index to a value, or to `Garbage` where
  the memory is indeterminate. `count` and `capacity` are the members.
- **`reserve(n)`.** A step happens only when `n > capacity_`. `Grown(n)` models
  the malloc or realloc: it keeps the first `capacity_` elements and leaves the
  rest `Garbage`, because the default construction of a trivial type writes
  nothing.
- **`append_n`.** It reserves `size() + n`, then copies the source.
- **`reset`.** It frees the block.
- **Failures.** A failed malloc or realloc returns false and changes nothing,
  so it is a stutter step.
- **Refinement.** `ElementSequence` is a plain sequence with
  `Push`/`AppendAll`/`Pop`/`Clear`. `Array` refines it with the mapping
  `contents <- Contents`, the first `count` elements.

### `Buffer`

- **Variables.** `elements` and `capacity` are the members of each buffer
  object. `alive` is the set of objects whose destructor has not run. `heap` is
  the set of addresses malloc has returned and free has not taken back, and
  `blocksize` is the size each was requested with. `result` is what the last
  `resize` returned.
- **Why several objects.** The move-assignment swaps both members with a
  second buffer, and the destructor frees whatever the object then holds. Two
  objects over one heap are needed to ask whether a block ends up shared or
  freed twice.
- **Actions.**
  - `resize_ok(b, n)` is a malloc that returns an address not in the heap.
  - `resize_failed(b)` is a failed malloc, possible on any call. The code has
    already stored the null result in `elements_`, and `capacity_` keeps its
    old value.
  - `move_assign(b, other)` swaps both members.
  - `destroy(b)` frees `elements_` (a no-op on null) and ends the object's life.
- **What is abstracted.** Element values are left out. Default construction
  and `destroy_n` do nothing that a property distinguishes.

### `HttpHeader`

- **Variables.** `header` is the 78-byte buffer the last call patched.
  Each byte is a digit 0..9, a space (`-1`) or fixed template text (`-2`).
  `length` and `ok` are the last call's argument and result. `fresh` says
  whether that buffer was a fresh copy of `http_header_k`.
- **`set_http_content_length(headers, n)`.** `std::to_chars` into offsets
  33..41 of `headers`.
  `Decimal` is a recursive function that gives the digits, most significant
  first.
  - When they fit, `ToChars` writes exactly those bytes.
  - When they do not fit, it writes nothing and returns
    `errc::value_too_large`. The standard leaves the range unspecified on
    failure. libstdc++ and libc++ both measure before they write, so the model
    writes nothing.
- **Harness (`Init`, `Next`; spec-modelled).** No code under `src/` calls
  the function, so the caller comes from spec section 4.3. That caller passes
  a fresh copy of the blank-padded template. The harness also lets a reply
  patch the previous reply's buffer again. This is outside the contract, but
  it shows that `TemplateIntact` and `LengthWritten` do not depend on the
  contract. `HeaderMatches` is stated for fresh copies only: on a reused
  buffer, a shorter length keeps the trailing digits of a longer one. That
  is a breach of the caller's contract, not a divergence from the spec.

### `ReplyEncoder`

- **Byte strings.** They are TLA+ strings. An iovec is the record
  `[iov_base, iov_len]`, where `iov_base` is the literal or the caller's
  string, and copying it takes its first `iov_len` characters.
- **Operators.** `fill_with_content` and `fill_with_error` build the 5 and 7
  iovecs with the code's hand-counted lengths and return the code's total.
  `fill_with_error`'s total is computed from the argument sizes, as at
  reply.hpp:87.
- **`iovecs_length` and `iovecs_memcpy`.** Each is a recursive function over
  the index: the running sum and the running concatenation. No RECURSIVE
  operator is used.
- **`SizesAssumption`.** Every argument string has a length in `Nat`, as
  `string_view::size()` does. TLC evaluates it, and the proofs need it,
  because the provers know nothing about the lengths of strings.
- **Harness.** The reactor is not under `src/`, so the harness actions
  (`FillContent`, `FillError`, `Copy`) are modelled from spec section 2 and
  marked `spec_modelled` in the map. The harness fills a reply for any input
  of small sets, then may copy it out.

## 3. Runs

| Run | Module / cfg | Expect | Checks |
|---|---|---|---|
| `ring_fifo` | MCRoundRobin / MCRoundRobin.cfg | pass | `TypeOK`, `RingConsistent`, `DropTailKeepsCursorLive`, `QueueRefinement` |
| `ring_poll_dead_slot` | MCRoundRobin / MCRoundRobinPoll.cfg | violation | `PolledIsLive` |
| `ring_head_wrap` | MCRoundRobin / MCRoundRobinHead.cfg | violation | `HeadIsNewest` |
| `pool_partition` | MCPool / MCPool.cfg | pass | `TypeOK`, `PoolConsistent`, `NullOnlyWhenExhausted`, `ReuseLastReleased`, `AllocatorRefinement` |
| `array_sequence` | Array / Array.cfg | pass | `TypeOK`, `ArraySafe`, `SequenceRefinement` |
| `ring_starvation` | MCRoundRobin / MCRoundRobinStarve.cfg | violation | `NoStarvation` (liveness, `poll` weakly fair) |
| `buffer_ownership` | Buffer / Buffer.cfg | pass | `OwnershipSafe` |
| `buffer_failed_resize` | Buffer / BufferNullEmpty.cfg | violation | `NullMeansEmpty` |
| `buffer_leak` | Buffer / BufferLeak.cfg | violation | `NoLeak` |
| `header_patch` | HttpHeader / HttpHeader.cfg | pass | `TemplateIntact`, `HeaderMatches`, `LengthWritten` |
| `reply_envelope` | ReplyEncoder / ReplyEncoder.cfg | pass | `EnvelopeExact`, `ReturnedIsLength` |

### Bounds, and why they are enough

- **Ring.** The ring has 3 slots and 3 descriptors, plus the sentinel.
  - Three descriptors are enough to fill the ring, so a push at capacity and
    both wraps are reached.
  - Both cursors wrap more than once. The cursors are reduced modulo the
    capacity, so the state space is finite without a constraint.
  - Every violation below needs only 2 or 3 connections.
- **Pool.** It has 3 offsets: enough for exhaustion, reuse, and releases out
  of allocation order.
- **Array.**
  - Capacity goes up to 4, with 2 values and appends of 1 or 2 elements.
  - This reaches growth by malloc, growth by realloc, an append that fits
    without growing, and pops that leave stale elements above `size()`, which
    a later growth carries over.
- **Buffer.** There are 2 objects, 3 addresses and sizes 0..2.
  - Two objects are enough for a move to transfer a block and for a
    destructor to free it.
  - Three addresses let both objects own a block while a third resize still
    succeeds.
  - Sizes that differ let a wrong size be told from the block's.
  - Once both objects are destroyed nothing can happen, so deadlock is not
    checked.
- **HTTP header.** The lengths are 0, 7, 36, 123, 4096, 12345678, 999999999
  and 10^9.
  - They cover every digit count that matters: 1 to 4, 8, the largest that
    fits (9) and the smallest that does not (10).
  - Any order of them is explored, on fresh and on reused buffers, so a
    shorter length after a longer one is reached.
- **Reply encoder.** There are 3 ids, 3 bodies, 1 code and 1 message, each
  with and without the comma. Every fixed fragment and both suffix lengths
  are exercised, and the example of spec section 8 is included.

### Fairness

Only `ring_starvation` assumes fairness: `WF(poll)`, in `MCFairSpec`. The
reactor calls `poll()` once per scheduling tick while a connection is open
(spec section 2), so a `poll` that stays enabled is eventually taken.
Accepting and evicting depend on clients and get no fairness.

### Mutants

Each property of a passing run is broken by a plausible slip in the code. The
slips are written next to the action they mutate:

- **Ring.**
  - A write cursor that does not wrap.
  - An oldest cursor that is not advanced.
  - A poll cursor that is not stepped off the dead slot.
  - The sentinel written before the old descriptor is read.
- **Pool.**
  - `std::iota` starting at 1.
  - A top that is read but not popped.
  - An emptiness test off by one.
  - `free_offsets_[++free_count_]`.
  - The offset read from the bottom of the stack, `free_offsets_[0]`, which
    hands out an offset twice and so breaks the refinement.
- **Array.**
  - `capacity_` one past the block.
  - A growth that does not copy.
  - `reserve(n)` instead of `reserve(size() + n)`.
- **Buffer.** A move-assignment that swaps the pointer and leaves the size.
- **HTTP header.**
  - A field capacity of 10, which overruns into `\r`.
  - A field capacity of 8, which rejects 9-digit lengths.
  - A field offset of 32, the space after `Content-Length:`, which shifts
    the digits out of place.
- **Reply encoder.**
  - A content suffix of fixed length 1, which loses the batch comma.
  - An error total that forgets the comma.

### What the violations show

The ring violations are bugs in `round_robin_gt`. They appear only after the
first eviction, which is why a test that only pushes and polls never sees them:

- **`ring_poll_dead_slot`.** The trace is: `alloc`, `push(d1)`, `drop_tail`,
  `push(d1)`, `poll`. With one live connection, in slot 1, `poll` computes
  `(1 + 1) % 1 = 0`. Slot 0 is the slot `drop_tail` marked dead, and `poll`
  returns it.
- **`ring_head_wrap`.** After `capacity` pushes the write cursor is 0, and
  `head()` indexes `circle_[SIZE_MAX]`.
- **`ring_starvation`.** `poll` moves the cursor by `(idx_to_poll_ + 1) %
  count_`. Once an eviction has moved the live slots off `0 .. count_-1`,
  that index can bring the cursor back to the same slot at every poll. Then
  `poll` is a stutter and some live connection is never reached. One trace is
  `alloc`, `push(d1)`, `drop_tail`, `push(d2)`, then `poll` forever: the only
  live connection is in slot 1, and every poll computes `(0 + 1) % 1 = 0` and
  returns dead slot 0. Which lasso TLC prints depends on its worker count.
  Another is three pushes, a `drop_tail`, a push, a `poll`, a `drop_tail`:
  the cursor then snaps back to slot 2 at every poll, and the connection in
  slot 0 waits forever. Either way the connection is never polled, although
  `poll` is weakly fair. This contradicts the spec glossary's "fair, cyclic
  service order", and the round-robin claim of spec section 8.

The other violations:

- **`buffer_failed_resize`.** The trace is: resize succeeds with n = 1, then
  resize fails. Now `elements_` is null and `size()` is 1. The cause is the
  assignment of malloc's result before the check (datastructures.hpp:58).
- **`buffer_leak`.** Two successful resizes of one buffer: the first block
  stays allocated with no owner.
A further divergence is shown by a passing run, not a violation run.
`reply_envelope` explores id `7` with result `19`, and its `EnvelopeExact` and
`ReturnedIsLength` show that the code returns 36. That is the exact length of
`{"jsonrpc":"2.0","id":7,"result":19}`, the string spec section 8 quotes. The
38 that the spec states for it is the spec's arithmetic error.

## 4. Proofs

Seven modules hold proofs: `RoundRobinProofs`, `PoolProofs`, `MCPoolProofs`,
`ArrayProofs`, `BufferProofs`, `HttpHeaderProofs` and `ReplyEncoderProofs`. Every property of a
passing run is proved, except the ones listed under "What is only
model-checked" below.

`RoundRobinProofs` (extends `RoundRobin`, `SequenceTheorems` and `TLAPS`)
proves four theorems, for every capacity and every set of descriptors. They assume only `Capacity \in Nat
\ {0}` and that the sentinel is not a descriptor.

### `TypeCorrect == Spec => []TypeOK`

The proof has one step per action. The one that needs an argument is `poll`:
its cursor `(idx_to_poll + 1) % count` is a slot because `count <= Capacity`.

### `RingConsistency == Spec => []RingConsistent`

`RingConsistent` is not inductive alone: the step for `poll` and the wrap
arithmetic need the types. The inductive invariant is
`IInv == TypeOK /\ RingConsistent`. The proof has one lemma per action:

- **`push_ahead`.** The new slot `(idx_oldest + count) % Capacity` lies outside
  the live window, because `count < Capacity` (lemma `ModDistinct`). So the
  write disturbs no live record, and the pushed descriptor is not already live.
- **`drop_tail`.** The new window is the old one without its oldest slot
  (lemma `ModStep`: stepping the oldest cursor and then adding `k` is the same
  as adding `k + 1`).

Both arithmetic lemmas rest on `ModSmall`. For `a < 2C` it says that `a % C`
is `a` or `a - C`, and SMT proves it with symbolic `C`.

### `RingRefinesQueue == Spec => QueueRefinement`

This is the refinement of `ConnectionQueue` under `queue <- Connections`.
The lemma `ConnectionsShape` shows that under `IInv`:

- `Connections` is a sequence of `count` cells;
- the descriptors it holds (`Queue!Open`) are exactly `Live`.

With that, the proof has one lemma per action:

- **`push_ahead(d)` is `Accept(d)`.** `Len(queue) < Capacity` comes from the
  guard, and `d \notin Open` from `d \notin Live`. The write to
  `idx_newest = (idx_oldest + count) % Capacity` leaves the first `count`
  entries alone (`ModDistinct`) and becomes entry `count + 1`.
  `SeqEqual` and `AppendProperties` then give
  `Connections' = Append(Connections, d)`.
- **`drop_tail` is `Evict`.** The returned descriptor is `circle[idx_oldest]`,
  which is `Head(Connections)`. Entry `k` of the new sequence is at
  `(idx_oldest + k) % Capacity` (`ModStep`), which is not the killed slot
  (`ModDistinct`). So `Connections' = Tail(Connections)`
  (`HeadTailProperties`).
- **`alloc` and `poll` are stutters.** `alloc` happens with `count = 0`, so
  both sequences are empty, and `poll` moves only the poll cursor.

### `DropTailCursorLive == Spec => DropTailKeepsCursorLive`

When the cursor is on the oldest slot, `drop_tail` moves it to
`(idx_oldest + 1) % capacity`. That is the new `idx_oldest`, which is the
first slot of the new window while `count' >= 1`. The proof is the same
inductive invariant and one lemma.

### `PoolProofs`: `PoolPartition == Spec => [](TypeOK /\ PoolConsistent)`

This holds for every `N \in Nat \ {0}`. `PoolConsistent` is not inductive by
itself. `release` writes `free_offsets_[free_count_]` and increments the
count, and both stay in the block only if the stack is not already full while
the owner holds an offset. The inductive invariant therefore adds two
counting facts:

- `Counted`: on a reserved pool, `free_count + Cardinality(held) = N`.
- `Unreserved`: before `reserve`, nothing is free or held.

The proof has one lemma per action:

- **`alloc`.** The new free set is the old one without the popped offset,
  because the stack's entries are distinct. The held set gains that offset,
  which is not already held (`FS_AddElement`).
- **`release`.** `Counted` gives `free_count < N`. The new free set is the old
  one plus `p`, and `p` was not free (`FS_RemoveElement`).

The cardinality facts come from `FiniteSetTheorems`. `PoolTypeCorrect`
states the type part on its own.

### `PoolProofs`: `PoolNullOnlyWhenExhausted == Spec => NullOnlyWhenExhausted`

On a reserved pool, `Counted` gives `free_count = N - Cardinality(held)`.
So `alloc` takes its null branch (`free_count = 0`) exactly when all `N`
offsets are held. Otherwise it returns a stack entry, which is an offset and
not `-1`. The theorem rests on the same inductive invariant.

### `PoolProofs`: `PoolRefinesAllocator == Spec => AllocatorRefinement`

Each step of the pool is a step of `PoolAllocator`, or a stutter of it. The
proof uses the whole inductive invariant of `PoolPartition`:

- **`reserve` is `Reserve`.** Before it, `capacity = 0 # N`.
- **`alloc` is `Alloc`.**
  - With `free_count > 0`, the pool is reserved (`Unreserved`). The popped
    offset is on the free stack, so it is not held (`FreeDisjointHeld`). It is
    the slot the abstract step hands out.
  - With `free_count = 0`, the free set is empty. On a reserved pool,
    `NoOffsetLost` then says every offset is held, which is when the
    abstract allocation may fail.
- **`release(p)` is `GiveBack(p)`.**

TLC checked the refinement on the `pool_partition` instance first.

### `MCPoolProofs`: `PoolReuseLastReleased == MCSpec => ReuseLastReleased`

This is stated over `MCPool`, whose history variable `released` holds the
offset the previous step released. The strengthening `LastReleasedOnTop`
says that such an offset is on top of the free stack. TLC checked it on the
`pool_partition` instance before the proof.

- `release(p)` writes `p` at index `free_count` and increments the count.
  The write lands in the block because `free_count' <= N` (the type part of
  the pool's invariant).
- `reserve` and `alloc` reset `released`.

An `alloc` with `released # Null` therefore pops `released`.

### `ArrayProofs`: `ArraySafety == Spec => [](TypeOK /\ ArraySafe)` and `ArrayRefinesSequence == Spec => SequenceRefinement`

`TypeOK /\ ArraySafe` is inductive, with one lemma per operation.

- Every growth (`Grown`) keeps the elements below the old `capacity_`, and
  `count_ <= capacity_` puts the exposed elements among them.
- `append_n` writes its source over `count .. count + n - 1` and grows to
  exactly `count + n` when needed.

The refinement maps `contents` to `Contents`, the first `count_` elements:

- `reserve` is a stutter;
- `push_back_reserved(v)` is `Push(v)`;
- `append_n(src)` is `AppendAll(src)` (by `SeqEqual` on the concatenation);
- `pop_back(n)` is `Pop(n)`;
- `reset` is `Clear`.

`ArrayTypeCorrect` states the type part on its own.

### `BufferProofs`: `BufferOwnership == Spec => [](TypeOK /\ OwnershipSafe)`

This holds for any sets of buffers and addresses. `TypeOK /\ OwnershipSafe`
is inductive:

- `resize_ok` takes an address outside the heap, and every live buffer's
  block is in the heap, so no other buffer points at the new one.
- `destroy` frees a block that no other live buffer points at.
- The move-assignment swaps pointer and size together.

### `HttpHeaderProofs`: `HeaderTemplateIntact == Spec => []TemplateIntact`

This holds for every set of lengths, on fresh and on reused buffers. Lemma
`ToCharsContained` shows that `ToChars` keeps the buffer's domain and every
byte outside `[first, last)`. It uses only the fits test, not what the
digits are. The inductive invariant adds that the header keeps its 78
offsets, and both buffers a call may be given, the template and the last
header, satisfy it.

### `ReplyEncoderProofs`: `ReturnedIsIovecsLength == Spec => []ReturnedIsSum`

`ReturnedIsSum` is the first conjunct of `ReturnedIsLength`: after a fill
call, the returned length equals `iovecs_length` over the iovecs it filled.
It holds for every set of ids, bodies, codes and messages, under
`SizesAssumption`. The interesting case is `fill_with_error`, whose total is
written out from the argument sizes (reply.hpp:87) and must count the comma
as the seventh iovec does (reply.hpp:86).

- **The running sum.** The provers do not derive the equations of the
  recursive function inside `iovecs_length`. For the two array lengths the
  encoder fills, 5 and 7, the lemmas `IovecsLength5` and `IovecsLength7`
  exhibit the table of running sums as a function that satisfies the
  definition. Every function that does has the total at the last index.
- **The invariant.** `Filled` says that the iovecs and the returned length are
  those of some fill call on the constants. `FillContent` and `FillError`
  establish it, and `Copy` leaves it alone.

### What is only model-checked

- **`EnvelopeExact`, and the second conjunct of `ReturnedIsLength`.** Both
  are about the bytes `iovecs_memcpy` writes. To the provers a string literal
  is an opaque value: they cannot evaluate `Len` of
  `{"jsonrpc":"2.0","id":`, nor take a `SubSeq` of it. The hand-counted 22,
  10, 17 and 12 are exactly what these properties check, so assuming them
  would prove nothing. TLC evaluates the literals.
- **`LengthWritten`.** It is about `Decimal[n]` for every `n`.
  - The defining equation of a recursive function over all of `Nat` is
    derived through the recursion theorem of `NaturalsInduction`, whose
    definition parameter `Def(_, _)` cannot be instantiated. The witness
    argument used for `iovecs_length` works only for a fixed, small domain.
  - The property also needs `Len(Decimal[n]) <= 9 <=> n < 10^9`, which is
    an induction on `n`.
  - A non-recursive digit count over the whole `size_t` range needs 20-digit
    literals, which overflow the Zenon backend.
- **`HeaderMatches`.** The step from `ToChars` to `FieldOf` needs only
  that `Len(Decimal[n])` is a natural number of at most 9. To know that
  `Decimal[n]` is a sequence at all takes the same induction over `n`.
- Liveness (`NoStarvation`) is out of the prover's reach and is checked only
  by TLC.

## 5. Not modelled, and why

- **Move assignments of the ring, pool and array.** Each is a `std::swap` of
  members with a second instance. Only the buffer's is modelled, where the
  destructor makes ownership matter.
- **The pool's destructor and a second `reserve`.** The pool's destructor and
  a `reserve` on a pool that is already live are not modelled.
- **The ring copy in `shared.hpp`.** `shared.hpp:80-141` repeats
  `round_robin_gt` line for line, so `RoundRobin` models both copies.
- **`span_gt`.** It has no operation that changes state.
- **Shared definitions.** `cpu_cycle` reads a hardware counter. The callback
  record and the constants hold no state.
- **The reactor, JSON parsing, user callbacks and I/O.** They are out of scope
  (spec section 1). Their side of each contract appears as a guard.

## 6. Plan

1. **Done.**
   - `RoundRobin` + `ConnectionQueue` + `MCRoundRobin`, including liveness
     under `WF(poll)`.
   - `Pool` + `MCPool`.
   - `Array` + `ElementSequence`.
   - `Buffer`.
   - `HttpHeader`.
   - `ReplyEncoder`.
   - Proofs:
     - of every safety invariant and action property of the ring, pool,
       array, buffer and header runs, except `LengthWritten` and
       `HeaderMatches`;
     - of the three refinements (ring into queue, array into sequence,
       pool into allocator);
     - of the returned length of both fill calls being the iovec sum.
2. **Next.**
   - A `Worker` module that composes the ring with a pool of connection
     states: accept = `Pool!alloc` + `push_ahead`, evict = `drop_tail` +
     `Pool!release`. It asks whether a pool slot is ever shared by two live
     connections, and whether exhaustion of the pool and of the ring agree.
   - The move assignments of the ring, array and pool, as a swap with a
     second instance.
   - Proofs for the composed worker's invariants.
