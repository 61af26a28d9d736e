# Rust EDP for SGX: a TLA+ verification project

This directory holds TLA+ models of the parts of the repository whose correctness depends
on concurrency, ordering, failure or long call sequences: the queue in shared memory between an
enclave and its runner, the runner itself, the way from an object file to a loaded enclave,
`sgx-detect`, the DCAP quote provider, and the runner of VME enclaves. TLC checks the models on small instances.
TLAPS proves the central results for every instance.

`PROJECT.json` is the index: components, runs, mutants of each property, the source lines of
each definition, hazards and theorems. Below, `mod.rs` is
`intel-sgx/enclave-runner/src/usercalls/mod.rs`, and `sgxs.rs` is `intel-sgx/sgxs/src/sgxs.rs`.

## 1. Inventory

### 1.1 The system

An enclave is code in protected memory that cannot make system calls. `enclave-runner`
loads it, enters it through its TCSs (thread control structures; a TCS can run one thread
at a time), and serves its *usercalls*, which are what it has instead of system calls. The
enclave is described by an SGXS stream, made by the tools and read by the loaders.

    ELF, PE --tools--> SGXS stream --PageReader--> sgxs-loaders --driver--> enclave
                         ^                              |                   |  ^
                    sgxs-append                    aesm-client              |  |
                                                   (launch tokens)          |  |
         worker threads (coenter) <---------- TCSs ----------> usercalls ---+  |
               |                                                               |
         syscall_loop: handlers -- event queues, streams, launch, exit --------+
               |                                                               |
         ipc-queue rings in shared memory: asynchronous usercalls and returns -+

| Component | State | Operations | Hard because | Correct when |
|---|---|---|---|---|
| `ipc-queue` | packed offsets, slots with an id, the synchronizer | `send`, `try_send`, `try_send_multiple`, `recv`, `try_recv` | lock-free, several senders, offsets that wrap, sleep and wake decided on stale offsets | values come out once and in order, no slot is accessed by two threads, no sleeper is forgotten |
| event queues (`PendingEvents`, `wait`, `send`) | a tokio semaphore per event set and TCS, an abort semaphore | `take`, `wait_for`, `push`, `abort` | permits handed over while a wait is cancelled, timed out or aborted | no event is lost, doubled or slept through; abort goes first |
| asynchronous usercalls (`QueueSynchronizer`) | two rings, a broadcast channel of synchronous usercalls | `wait`, `notify`, the task that receives, the tasks that answer | the runner learns of new values only from synchronous usercalls, through a channel of one message | no value stays in a ring while its reader sleeps, every call is answered once |
| runner lifecycle (`EnclaveState`) | pool of TCSs, worker channel, tasks of the loop, return channel, reasons | `main_entry`, `library_entry`, `syscall_loop`, `launch_thread`, `exit`, return | threads abort at once, results overtake each other, library calls are concurrent | a TCS is in one place, none leaks, a run ends, with the reason of the first abort |
| streams and file descriptors | `fds`, `last_fd`, waker lists of the adapters | `read`, `write`, `flush`, `accept`, `bind`, `connect`, `close` | one waker per socket and many waiters | a number keeps its meaning, nobody sleeps on a stream that is ready |
| loaders (`loader.rs`, `sgxs-loaders`) | mapped range, pages added, pending mmap, token | create, add, init, destroy | failure in the middle, four drivers, tokens that are stale | the range is given back once, what runs was mapped and initialised as asked |
| `aesm-client` | none between calls | quotes, keys, launch tokens | a daemon that does not answer, or answers badly | a call ends |
| SGXS readers and writer | offsets, bits of chunks seen and measured, the page being collected | `read_meas`, `read_page`, `write_page`, `write_pages`, `skip_pages` | a page is complete only when the next begins, shifts and masks at the page boundary | canonical streams only, every page once, write then read is the identity |
| image tools (`ftxsgx-elf2sgxs`, `isgx-pe2sgx`, `sgxs-build`, `sgxs-append`) | the layout, the page being filled | convert; append files | boundaries: splices, alignments, guards, shared pages | bytes arrive where the program looks for them, regions do not overlap |
| `sgx-detect` | status of each item, copies in its dependents, hidden edges | update, visit, print | a report depends on an order nobody wrote down | nothing stale is printed, "all set" is true, somebody who is not gets help |
| `fortanix-vme-runner` | tables of listeners and connections, proxy threads | connect, bind, accept, close, info | a blocking accept under a lock, half-closed connections, reused addresses | tables name live connections, data are not cut off, nobody waits behind an accept who need not |
| `dcap-provider`, with the quotes of `dcap-ql` | two caches, the flag `ENTERED_ONCE`, three mutexes | `sgx_ql_get_quote_config`, `sgx_ql_free_quote_config`, the query for a quote | the quoting library calls the provider, which calls the quoting library | it is not entered a third time, nothing is locked while the quoting library works, a certificate is that of the platform asked for |
| other crates | none, or data formats | parsing, signing, bindings | little | not modelled, see section 8 |

How the components meet: the worker threads and the loop exchange TCSs through channels
(`EnclaveRunner`). The handlers of `wait` and `send` use the event queues of all TCSs
(`PendingEvents`), which are also how the runner tells an enclave that a ring has changed
(`AsyncUsercalls`, on the bounded queues that `Fifo` is shown to implement). Usercalls of one
loop share the file descriptors (`Streams`). A load asks the AESM client for launch tokens
(`EnclaveLoad` extends `AesmClient`). The writer and the readers of SGXS streams are composed in
`SgxsRoundTrip`, and the tools on top of the writer in `SgxsAppend`. The DCAP quote provider reads the
quotes that its own query makes (`DcapProvider` extends `DcapQuote`).

### 1.2 Hazards

`PROJECT.json` lists each hazard with the line where it bites and the properties that would
catch it. The classes that matter most here:

* a compare-and-swap on wrapped offsets, and wake-ups decided from offsets that are already
  stale (`fifo.rs`);
* permits in flight when a wait is dropped (`mod.rs` 536-599);
* a broadcast that lags, and an answer that finds the return queue full (`mod.rs` 776-783, 1676);
* two aborts at once, and results that overtake each other (`mod.rs` 816-872);
* a socket that knows one waker while several usercalls wait (`mod.rs` 206-277);
* a load that fails in the middle, merged mappings, and a token that is refused (`generic.rs`,
  `isgx/mod.rs`);
* a library that is called again by the library that it calls, on the same thread and on others
  (`dcap-provider/src/lib.rs` 229-285);
* shifts, masks, splices and "one page behind" in readers and image tools.

## 2. Modules

| Module | Models | State to code |
|---|---|---|
| `BoundedQueue` | the promise of `ipc-queue` | all values ever sent and delivered; a capacity |
| `Fifo` | `ipc-queue/src/fifo.rs`, `interface_sync.rs`, `interface_async.rs` | `offsets` is the packed `AtomicUsize` as a record of its halves, `data` the slots, the other variables are the locals of each call; one action per access to shared memory |
| `PendingEvents` | `PendingEvents`, `wait`, `send`, `exit` in `mod.rs` | `counts` are the permits of the semaphores, `granted` the permits handed to queued `Acquire` futures that were not polled yet |
| `AsyncUsercalls` | `QueueSynchronizer`, the tasks of `syscall_loop` and `handle_usercall` around the two rings | `unread` is what each broadcast subscription has not received (2 is `Lagged`), `call` where each usercall is, `permits` the events of each thread |
| `EnclaveRunner` | `EnclaveState`, `Work`, `syscall_loop`, `main_entry`, `library_entry` | `pool` is `threads_queue`, `work` the channel to the workers, `tasks` the usercalls that the loop has been sent, `returns` the channel to `return_future` |
| `Streams` | `AsyncStreamAdapter`, `AsyncListenerAdapter`, `fds` | `queue` are the waker lists, `waker` is the single waker a socket keeps |
| `AesmClient` | `aesm-client`, Unix and Windows | `reqs` the requests that a call still has to make, `sent` whether one waits for its answer |
| `EnclaveLoad` | `loader.rs`, `generic.rs`, `isgx`, `sgx_enclave_common`, `enclaveapi` | `phase` is the place in `Device::load`, `enclaves` what the kernel keeps and who holds the `Arc<Mapping>`, `pending` is `pending_mmap` |
| `SgxsReader` | `CanonicalSgxsReader`, `PageReader` | the fields of both readers; a stream is a sequence of blobs |
| `SgxsRoundTrip` | `CanonicalSgxsWriter` composed with the readers | `next_offset`; `call` is the call that is running, which writes blob by blob; `written` is what a reader should return |
| `ImageWriter` | `sgxs/src/util.rs`, and the writer as the tools use it | functions from an image to an image |
| `Elf2Sgxs`, `Pe2Sgxs` | `ftxsgx-elf2sgxs`; `isgx-pe2sgx` and `sgxs-build` | functions from an input file and options to an image or an error |
| `SgxsAppend` | `sgxs-append`, on images of the other tools | `cur_addr`, `page_addr`, `page`, `chunks`, `last_mode` as in `main` |
| `SgxDetect` | `sgx_detect` | `inner` what an item was updated with, `seen` its copies, `hidden` the edges, `report` what is printed |
| `VmeRunner` | `fortanix-vme-runner` | `handler` is the thread of each request, `listeners` and `connections` the tables, `proxy` the thread and sockets of a connection |
| `DcapQuote` | `Quote::parse` and the certification data of `dcap-ql/src/quote.rs` | a quote is its vendor, version, kinds and lengths, and the platform that it is of |
| `DcapProvider` | `dcap-provider/src/lib.rs`, and the quoting library as it is used by it | a frame is a quote being made, by a thread or for the query of another frame; `pc` is where its call of `sgx_ql_get_quote_config` is or what it returned, `held` who has each mutex, `certdata_cache` and `cert_cache` are the caches |
| `FifoProofs`, `UsercallProofs` (on `PendingEvents` and `Streams`), `AsyncUsercallsProofs`, `EnclaveRunnerProofs`, `EnclaveLoadProofs`, `SgxsProofs` (on `SgxsRoundTrip` and `SgxDetect`), `DcapProviderProofs`, `VmeRunnerProofs` | lemmas and theorems | |
| `MC...` | instances for TLC | |

An operator whose comment begins with "Mutant:" is not part of a model. It is a faulty
variant of the definition after it, and it shows that a property can fail.

What is abstracted:

* `Fifo`: values are a sender and a number. The synchronizer is external; it keeps one event
  for each waiter that is not waiting yet, as both implementations in the repository do. The
  memory is sequentially consistent; the code uses `SeqCst` for the offsets and ids.
* `PendingEvents`: an event set is a set of bits, compared as the number it stands for. The
  semaphores are external, with the fairness to queued futures that tokio documents. A timeout takes two
  steps: tokio polls `wait_for` and then the timer (`TimedOut`), and drops the futures (`DropWait`). Several library calls
  share the queues from loops on threads of their own, so events and an abort can come in between.
* `AsyncUsercalls`: the rings are bounded queues, what a usercall does is left out, and a
  permit is counted per event. The enclave's synchronizer is external: it waits with the usercall `wait`
  and notifies with a synchronous usercall.
* `EnclaveRunner`: what a usercall does with files, sockets, memory and time is left out; it
  answers, aborts, or fails an assertion. The rings are a source of usercalls.
* `Streams`: data are counted. A connection that fails gives its error to one operation and
  is at its end from then on. Standard output and error do not wait and are left out.
* `AesmClient`, `EnclaveLoad`: daemon and kernel are external and may fail at every call. A page
  is its type, permissions and how much of it is measured; a token is good, stale or missing.
* SGXS readers: a page has 2 chunks of 2 bytes instead of 16 of 256, so that an offset can still be
  unaligned, aligned to a chunk, or aligned to a page. The contents of a chunk are one value.
* Image tools: a page has 16 bytes, a chunk 8, a word 2; every byte is a value that says where
  it comes from, so that a misplaced one is noticed. Parsing the object files is external. A u32 of the thread
  data has 9 bits where a u64 has 10, so that the size of the 32-bit PE file is one that does not fit.
* `SgxDetect`: what the probes of processor and operating system found is the initial state.
  The order of visits is any topological order: the code takes one that comes from type names.
* `DcapProvider`: quoting library and web service are external. A platform stands for its QE ID and its
  PPID; what a certificate contains is left out, its length is not. The library asks the provider
  twice for each quote, and may give a quote that the provider rejects.
* `VmeRunner`: a block of data is counted; the key of a connection is one value, which the
  system may give out again as soon as the sockets are closed. Reading a block and `write_all` of it are two steps:
  between them the thread serves neither direction. A panic of the log in `read_request` is a request that could not
  be read, one in `accept` a panic with the listener locked.

## 3. Runs

| Run | Expectation | Question |
|---|---|---|
| `fifo` | pass | Is the ring a bounded FIFO queue without data races or lost wake-ups, and does everything arrive? |
| `pending_events` | pass | Are events kept, delivered once, never slept through, and overruled by an abort? |
| `async_usercalls` | pass | Does neither side sleep on a ring it could use, and is every usercall answered once? |
| `enclave` | pass | Do an executable's run and concurrent library calls keep their TCSs apart, lose none, and end with the right reason? |
| `streams` | pass | Is a waiter of a stream always woken, and does a descriptor keep its meaning? |
| `load` | pass | Is the range of an enclave held as long as it is used, is what runs mapped and initialised, is a stale token replaced, and does a load end? |
| `sgxs` | pass | Do the readers let only canonical streams through, and return what the writer wrote? |
| `images` | pass | Are bytes, threads and appended files where the enclave looks for them? |
| `append_modes` | violation | Do appended files get the page permissions that were asked for? |
| `detect` | pass | Is what `sgx-detect` prints true for every order of visits? |
| `dcap_provider` | pass | Is the re-entered provider refused, does every call of it return, and is what it returns of the platform asked for? |
| `vme_runner` | pass | Do tables, data and threads of the VME runner survive any order of requests? |

### Properties

* `Fifo`: `NoDataRace` (the two `&mut` to a slot never overlap), `ImplementsBoundedQueue` (refinement; a value enters the abstract queue when its slot is
  reserved and leaves it when the read offset moves), `ReceiverNotStranded` and
  `SendersNotStranded` (a sleeper on a queue that is not empty, or not full, has an event
  pending or somebody on the way to send one), `EverybodyServed` (all that was sent is delivered, and a
  blocked sender returns).
* `PendingEvents`: `EventsConserved`, `NoMissedEvent`, `NoEventAfterAbort`, `BlockedWaitsEnd`.
* `AsyncUsercalls`: `RunnerNotStranded`, `EnclaveNotStranded`, `AnsweredOnce`, `EveryCallAnswered`.
* `EnclaveRunner`: `TcsConserved` (a TCS is in one place, and none is lost while the enclave lives),
  `FirstAbortWins`, `ExitEndsRun`.
* `Streams`: `FdsKept`, `SleepersKnown` (whoever sleeps is in the adapter's list, and
  somebody awake will empty that list or the socket has a waker of a sleeper), `AllTaken`.
* `EnclaveLoad`: `RangeHeld`, `ReadyToRun`, `StaleTokenReplaced`, `LoadEnds`.
* SGXS: `Canonical`, `PagesComplete`, `RoundTrip`, `MeasurementPreserved`.
* Images: `ImageSound`, `BytesAsLinked`, `AppendSound`; `AppendedModes` is violated.
* `SgxDetect`: `NothingStale`, `HelpSound`, `AllSetMeansLaunched`.
* `DcapProvider`: `ReentryRefused`, `ConfigSound`, `EveryCallReturns`.
* `VmeRunner`: `ConnectionsExact`, `NothingCutOff`, `NotBlocked`, `ConnectionEnds`.

### Bounds, and why they are enough

* `fifo`: two slots, two senders, two values each, batches of two. Offsets wrap at 4, which four
  values reach; the queue becomes full and empty, both senders block, and a batch fills the
  ring. No sender can be overtaken by a whole turn of the offsets between its load and its
  compare-and-swap with so few values; the proofs have no bound on senders or values and cover that.
  `try_send` and `try_recv` are not called by this run: their paths are those of the first attempt
  of the blocking calls, and the proofs include them.
* `pending_events`: two threads, two bits (three event sets, one overlapping both
  others), semaphores that are full at two permits.
* `async_usercalls`: two threads, three usercalls, rings of one slot: both rings are full while
  another usercall waits, and a subscription lags behind. The proofs have no such bound.
* `enclave`: executables with three TCSs and two workers, so that one TCS can wait for a worker, and
  with two TCSs that forward panics while another enclave may hold the debugger trap lock; libraries with two
  TCSs and with one, and two concurrent calls. Every kind of usercall, and one asynchronous usercall.
  `MaxReturns` bounds how far the loop runs ahead of `return_future`; three is one result per TCS.
* `streams`: two usercalls, standard input and two more objects, two arrivals: one arrival
  is taken and one is left for the waiter that has to be woken.
* `load`: one load of up to three pages, every driver and provider, one unrelated AESM call. Three
  pages suffice for a mapping that is extended, one that is not, and a gap. Loads follow each
  other (`&mut self`), and share nothing but the cached token.
* `sgxs`: six blobs, two page positions, offsets up to the end of the second page.
* `images`: ELF files in several shapes and with one thing wrong at a time, with up to two threads; PE files; up
  to four operations of `sgxs-append`, enough to fill a page, share one and leave one behind.
* `detect`: 102 systems: a good processor with every combination of launch control,
  AESM and loaders, a processor with one thing wrong, and each environment. The items for
  DataShield come last in the order of visits; nothing but the root depends on them, and the proofs do not use it.
* `dcap_provider`: two threads that make a quote each, with a query nested in it, on one of two platforms.
  `u32::MAX` is 3, and certificate chains have 2 or 4 bytes, so that one does not fit. Two threads suffice
  for a lock that is taken by somebody else, and for a cache that changes behind a call.
* `vme_runner`: two handlers at one port, two addresses, one connection key that is
  reused, one block of data in each direction.

### Fairness

* `fifo`: threads that are in a call are scheduled, and the receiver is called again and
  again. The runner's loop does that; an enclave thread that is never entered again would not, and
  then a receiver may spin for ever on a reserved slot (`fifo.rs` 200).
* `pending_events`, `streams`: the runtime polls a task that was woken, which is the promise of
  tokio's executor, and comes to the end of a poll. Nothing is assumed of arrivals, timeouts or senders.
* `async_usercalls`: the tasks of the loop run. Of the enclave it is assumed that it delivers the wake-up that
  `ipc-queue` told it to, and, only where `reads` holds, that it reads its answers.
* `enclave`: worker threads and tasks run, handlers complete, and an enclave thread that was
  entered leaves the enclave at some time. The runner has no means to force the last of these;
  without it `ExitEndsRun` fails, since `run` joins its workers.
* `load`: the loading thread runs, a timeout that was set expires, and a call of Intel's
  library on Windows returns. The daemon need not answer.
* `dcap_provider`: threads run, a download ends, and the quoting library goes on after a call of the
  provider has returned.
* `vme_runner`: threads run (`Scheduled`), and a party of a connection takes what it is sent (`PartiesRead`).
  The second is an assumption about enclave and remote: `write_all` (`lib.rs` 249) has no timeout, and one
  party that does not read stops its connection in both directions for as long as that lasts. Only
  `ConnectionEnds` needs it. Nobody has to connect, to send or to end.
* Deadlock is not checked where a system may stop: an enclave that makes no more calls, a stream that
  was read to its end, a report that was printed. In `vme_runner` it is checked.

## 4. The divergence that a run shows

`append_modes`: when `sgxs-append` begins a file on a new page, it writes the page of the file
before it with the permissions of the new one (`sgxs-append.rs` 277). The usage text (361-362) says that
the letters of a file's mode are its page permissions.

## 5. Seen while modelling, without a run

Runner:

* `return_future` skips `Secondary` (`mod.rs` 836), so a library call whose
  only thread was stopped by the abort of another call never returns; 1130 expects it to.
* With `forward_panics` the panic is raised in a task that nobody joins (`mod.rs` 803), and the
  run hangs; `loader.rs` 259 says that the runner panics.
* `library_entry` panics without a free TCS (`mod.rs` 1107); `library.rs` 64 says that it blocks.
* Events that overlap the mask are delivered (`mod.rs` 563); the ABI (`lib.rs` 523) says subsets.
* A poll that finds the adapter locked by another thread drops the future of the lock and its
  waker (`mod.rs` 299), so with several library calls a read can sleep while data are there.
* `launch_thread` does not look at `exiting` (`mod.rs` 1447), although the comment at 926 says
  that nothing is launched in the exit state.
* A wait without end by the main thread ends the run, other threads running or not
  (`mod.rs` 840), and is reported as all threads waiting (1071).
* Every library call overwrites `fifo_guards` (`mod.rs` 886); the comment at 654 says that they live as
  long as the enclave.
* The thread that reads standard input ends, and drops what it read, when the channel of eight
  buffers is full (`mod.rs` 143), and spins at the end of the input.
* When a poll returns an error the adapter wakes nobody else (`mod.rs` 232). Tasks that sleep
  on the same stream stay asleep unless the socket wakes them, so `SleepersKnown` and `AllTaken` leave out streams that have failed.

SGXS, images and loading:

* `chunks_seen & chunk_bit == 1` (`sgxs.rs` 243) is true only for chunk 0, so other chunks may
  be given twice; 209 and `doc/SGXS.md` 31 say that they may not.
* `sgxs.rs` 208 says that the offset of an EEXTEND blob has none of its lower 12 bits set in a canonical
  stream. The code (231) and `doc/SGXS.md` 27 ask that of the lower 8 bits, as they must for a page to have more
  than one chunk; so does `Canonical`. The list at 204-209 also lacks the rule on the permissions of a
  TCS page (`doc/SGXS.md` 28), which the code checks.
* With EEXTEND blobs of a page out of order, which `doc/SGXS.md` 34 allows, the page
  reader keeps the set of measured chunks and loses their order, so the measurement differs from the
  hash of the stream. `MeasurementPreserved` is therefore stated for streams of the writer.
* An `-align` of `sgxs-append` that skips a chunk inside a page makes `write_page` take the
  wrong bytes for the chunks behind it; `AppendSound` leaves such pages out. An input
  image with a chunk that is not measured reaches `unreachable!()` (`sgxs-append.rs` 230).
* In `ftxsgx-elf2sgxs` a splice outside all segments keeps the later ones from being written, and
  a symbol in `.bss` panics; `BytesAsLinked` is stated for files that are linked as the target links them.
* `isgx-pe2sgx` 279-280 has two error messages the wrong way round. The thread data of a 32-bit file hold the size of
  the enclave as a u32 (537), which is 0 for an enclave that is rounded up to 4 GiB; no property is about it.
* `init` of `enclaveapi` returns `Ok` for errors of `InitializeEnclave` that it does not know, so
  `ReadyToRun` does not ask that driver for EINIT.
* `sgx_enclave_common` 121-122 compares with an error that the conversion never produces, so a
  refused token is not retried there; `StaleTokenReplaced` leaves that driver out.
* The second request of `init_quote_ex` sets no timeout, although
  `aesm_protobuf/mod.rs` 25-28 says that all requests need one.
* `get_quote` and `get_quote_ex` slice the answer without looking at its length, and panic on a short one.

DCAP provider:

* A comment (`dcap-provider/src/lib.rs` 61-66) says how the provider keeps from calling itself for ever:
  the inner call is refused, and the quoting library goes on without a certificate. If another thread
  fills `CERTDATA_CACHE` between the outer call's lookup and its query, the inner call succeeds, the quote has
  a certificate chain instead of the encrypted PPID, and the outer call fails with `NoPlatformCertData`.
  `ReentryRefused` holds all the same.
* A call that is not re-entrant, and finds `ENTERED_ONCE` taken by another thread, is refused too
  (`PlatformLibUnavailable`).
* Nothing is ever removed from either cache.

VME runner and sgx-detect:

* `add_connection` asks for the peer's address with the table locked (`lib.rs` 347); if that
  fails the lock is poisoned, and every later request for a connection panics, as does every proxy thread
  at its end.
* `log_communication` cuts a text at byte 80 (`lib.rs` 204), and panics if that is inside of a character.
  `transfer_data` logs every block that is UTF-8, so a block of other than ASCII text can end the thread of
  its connection: the block is lost, the sockets are closed, and line 353 is not reached (`LogPanics`).
* An entry stays in the table of connections in these two cases, and if the proxy thread cannot be
  started. `ConnectionsExact` excepts these entries (`leaked`) and no others.
* The comment on `proxy` says that it returns "on error, or when one of the connections terminated" (`lib.rs`
  123-124). It returns without an error only when both have ended (132-153), which is what `NothingCutOff` is about.
* A vsock connect that fails inside `accept` panics with the listener's mutex held.
* `interpret.rs` shifts 1 by a whole register (`1 << v.edx as u8`).

## 6. Proofs

All proofs are checked by TLAPS, for arbitrary constants within the named assumptions of the modules: a
ring has at least one slot, bounds are natural numbers, the receiver is not a sender,
the abort bit is not an event bit, the value for "none" is no other value, and of `sgx-detect`'s input: what was
found is not "none", and neither AESM nor the device is there if it was read from a file (`SupportsAssumption`).

* `FifoProofs` begins with division with remainder, from multiplication only, as the provers know little
  about `%` by a variable. The rest is from
  `RingInv == TypeOK /\ CountersInv /\ SendersInv /\ SlotsInv /\ ReceiverInv`.
  The offsets alone are not inductive: they are remainders, and only say something because the true
  counters (the lengths of the histories) differ by at most the number of slots
  (`CountersInv`). The values of the queue then live in different slots (`SlotInjective`), a
  writer owns the slot of its own ticket (`SendersInv`), every other slot of the queue holds
  its value (`SlotsInv`), and what the receiver has in hand is the next value (`ReceiverInv`).
  One lemma per action shows that it preserves `RingInv`. Theorems:
  `RingInvariance`, `TypeCorrectness`, `DataRaceFreedom`, `Refinement` (every step maps to
  `Enqueue`, `Dequeue` or a stutter), and, with `WakeInv`, `ReceiverWakeup` and `SenderWakeup`.
* `UsercallProofs`, on `PendingEvents`, from `QueueInv == TypeOK /\ EventsConserved /\ NoMissedEvent`. The two
  properties support each other: a permit in `granted` is counted once because only a blocked wait
  has any, also one whose timeout is over. Theorems: `PendingTypeCorrectness`, `Conservation`, `NoSleepOnEvent`, `AbortPrecedence`.
* `AsyncUsercallsProofs`. For wakeups, from `WakeInv == AsyncTypeOK /\ BoundInv /\ RunnerNotStranded /\ EnclaveInv`.
  `EnclaveNotStranded` speaks of threads that are in the wait and is not inductive: a thread decides to
  wait when it looks at the queue, and the runner may change the queue and push the event before the
  usercall arrives, so `EnclaveInv` says the same of threads whose wait is on its way. For answers,
  from `AnswerInv == AsyncTypeOK /\ QueuedInv /\ AnsweredOnce`: a usercall in the queue is there once and
  was not received yet. Theorems: `RunnerWakeup`, `EnclaveWakeup`, `AnswersConserved`.
* `EnclaveRunnerProofs`, from three invariants on top of each other. `UniqueInv`: no TCS is in two places. That
  is not inductive alone, since `main_entry` enters the first TCS without taking it from the pool; so
  it must not be in the pool, and no other run exists (`MainInv`). `ConserveInv`: a TCS
  that has not quit is somewhere (`AccountInv`), as long as no run was ended by an abort; a run
  that ends by itself is one of a library, has one TCS, and gave it back (`SingleInv`, `OkInv`).
  `AbortInv`: the history variable `first` is what the return channel decides (`FirstInv`): as long as
  the loop runs, nothing in the channel ends the run and `first` is not set, or the first entry that does is `first`;
  afterwards the result, or for an executable `primary`, is `first`. The last is only claimed for enclaves whose
  panics do not wait for the debugger trap, as in the property. Theorems: `TypeCorrectness`, `TcsConservation`, `FirstAbort`.
* `UsercallProofs`, on `Streams`. `FdsKept` is an action property; it follows from `FdInv`: numbers between the two halves
  of `alloc_fd` are unused, below the counter, and of one usercall each. `SleepersKnown` speaks of sets and
  follows from `WaitInv`, which says the same of each sleeper, with one more fact: nobody sleeps
  on an operation that standard input does not have. Without it the invariant is not inductive, since an
  operation that fails wakes nobody. Theorems: `StreamsTypeCorrectness`, `DescriptorsKept`, `NoForgottenSleeper`.
* `EnclaveLoadProofs`, from `LoadInv`. `RangeHeld` needs that an enclave that is being loaded is
  held by the load alone (`BusyInv`). `ReadyToRun` needs what is true while pages are added: what is mapped, with
  the pending mapping applied to it, is what the pages ask for, and the pending mapping ends
  behind the last page (`PendingInv`). `GrownMaps` and `NewMaps` are the two cases of
  `PendingMmap`; `InitSound` says of all drivers but `enclaveapi` that success means EINIT. The size of the
  enclave and the number of loads are arbitrary, the set of pages is the one in the module. The
  AESM client may do anything. Theorems: `RangesHeld`, `LoadedIsReady`, `StaleTokens`.
* `SgxsProofs`, on the readers and the writer, from `RoundTripInv`. The properties speak of the n-th EADD of a stream, by
  the number of EADDs before it; the invariant instead says that there is a sequence of their positions
  (`Enumerates`), which grows with the stream, so that no induction over the stream is needed. For the readers
  (`ReadInv`): the fields of both are what the blobs up to `pos` say, and the page that is being collected is what its chunks
  describe so far. A step takes one blob to it (`Collected`); of a slot that is written twice the last chunk counts, which is where the
  greatest element of a finite set is needed (`WFMin`). For the writer (`WrittenInv`): each page is in the stream as it was asked for, the last one
  up to the chunk that the call has come to, with slots that ascend; a reader that is given such a stream refuses no
  blob. Theorems: `RoundTripInvariance`, `ReadersCanonical`, `ReadersComplete`, `WrittenIsRead`,
  `MeasurementKept`, for any number of chunks in a page, any sizes, and streams and calls of any length.
* `SgxsProofs`, on `SgxDetect`, from `DetectInv`. `NothingStale` needs that with an item its dependencies are visited
  (`VisitedInv`), since a visit changes only what depends on the item: the status of a visited item never changes again.
  The two properties of the report need what the items have when it is printed (`FoundInv`), and that exactly the dependents of Fatal
  items are hidden (`Hiding`). `SomeHelp` goes through the tests in the order in which they hide each other: the
  first that is not supported is shown. Theorems: `DetectInvariance`, `NothingIsStale`, `HelpIsSound`,
  `AllSetIsTrue`, for every system that may be found and every topological order.
* `DcapProviderProofs`, from `ProviderInv`. `ReentryRefused` is not inductive: a re-entered call is refused because
  the one that queries has `ENTERED_ONCE`, which it keeps as long as a frame is nested in it (`EntryInv`).
  `ConfigSound` needs that both caches are right (`CachesInv`), and that the certification data of a call are
  those that it asked for, whether they come from its arguments, the cache or the quote (`CallInv`).
  Theorems: `TypeCorrectness`, `NoRecursion`, `ConfigsSound`, for any number of threads and any depth of queries.
* `VmeRunnerProofs`, from
  `ProxyInv == VmeTypeOK /\ ConnectionsExact /\ LeakedInv /\ ReadyInv /\ WritingInv /\ NothingCutOff`.
  `LeakedInv` says that an entry whose thread runs is none of those left behind. `WritingInv` says that
  what `write_all` writes was sent and not passed on before. `ReadyInv` is
  needed because the thread takes a side without data for one that has ended, which is right only as
  long as what `select` found still holds when the side is read. `OneConnection` reduces a step to the
  connection that it is about. Theorems: `TableExact`, `DirectionsComplete`.

## 7. Only model-checked

* Liveness: `EverybodyServed`, `BlockedWaitsEnd`, `EveryCallAnswered`, `ExitEndsRun`,
  `AllTaken`, `LoadEnds`, `EveryCallReturns`, `NotBlocked`, `ConnectionEnds`. Fairness and `ENABLED` are outside what the provers handle.
* The image tools: what they compute for arbitrary files is induction over data, and
  `ImageWriter` uses bit operations, which the provers do not have.

## 8. Not modelled

`PROJECT.json` gives the reason for each component. In short: cryptography and data layouts
(`sgx-isa`, SIGSTRUCT, tokens, `sgx_pkix`), declarations (`fortanix-sgx-abi`), bindings to libraries and
the verification of quotes (`dcap-ql`), command line tools that only parse and call, `em-app`, `eif-tools`, and the vendored `rs-libc`.
Of the modelled components,
the raw descriptors of the queues, the assembly of `coenter`, the memory usercalls, several loops on one
adapter, the thread behind standard input, and the copying of buffers in
`abi.rs` and `interface.rs` are left out.
