# Formal models of the Common Evaluation Platform (CEP)

The CEP is a Rocket-Chip based SoC with cryptographic and DSP cores on a
TileLink bus. Its own logic, apart from those data paths, is

* the **Logic Locking Key Interface (LLKI)**: a root of trust that stores keys
  and loads them into cores over the bus (`hdl_cores/llki`, `hdl_cores/aes`);
* the **programs that run on several cores at once** and what they share: a
  register block with **hardware test-and-set locks**, the claims of the playback
  team, a ring of cache blocks, a status register (`cep_registers.scala`,
  `cep_apis.cc`, `cepLockTest.cc`, `playback`, `cacheCoherence`);
* the **co-simulation** in which C threads drive the Verilog simulator
  through shared memory (`cosim/share`, `cosim/src`, `cosim/pli`, `cosim/dvt`).

This project models the three as three systems: `Llki` from the register access of the
processor to the key register in the core, `CepCores`, and `Cosim` from the start of the main
program to `$finish`. Paths are relative to `src/`.

## 1. Inventory

| component | source | state | operations | modelled in |
|---|---|---|---|---|
| LLKI messages | `hdl_cores/llki/llki_pkg.sv` | none | message IDs, status codes, word layout, address map | `LlkiPkg`, `LlkiDiscrete`; promises in `KeyService` |
| Surrogate Root of Trust (SRoT) | `hdl_cores/llki/srot_wrapper.sv` | state machine of 16 states, message fields, mode bits, request and response FIFO, Key Index RAM, Key RAM, bus request | register write/read decode; one clock edge per state | `Srot`, `SrotAlone` |
| LLKI Protocol Processing block (LLKI-PP) | `hdl_cores/llki/llki_pp_wrapper.sv` | state machine of 5 states, message fields, one response register, status register | register access; one clock edge per state | `LlkiPp`, `KlTarget` |
| Mock Technique Specific Shim (TSS) | `hdl_cores/aes/aes_192_mock_tss.sv` | state machine of 7 states, two key words, delay counter | take a key word, clear | `MockTss`, `PpTss`, `KlTarget` |
| LLKI driver | `cosim/drivers/diag/cepSrotTest.cc` | program counter of the test | program RAMs, set mode, send, poll, read | `Driver` |
| TileLink fabric and adapters | external (OpenTitan, Rocket Chip) | requests and responses on their way | accept, deliver, answer | `Llki` (orderly fabric), `SrotAlone` (arbitrary bus) |
| Test-and-set locks | `.../cep_registers.scala`, `cep_apis.cc`, `cepLockTest.cc` | 4 locks, one shared request register; per core: tries left, loop | request, read back, release, time out; fill and compare the scratch registers | `TestNset`, `CepApis`, `CepLockTest`; promise in `LockService` |
| Register playback | `cosim/bfmTests/playback/c_module.cc`, `cep_apis.cc` | claims in scratch registers, tests done; place in a captured sequence | find and claim a test; write, compare, spin | `Playback`, `CModule` |
| Bare-metal tests and status | `cosim/bareMetalTests/cacheCoherence`, `cep_apis.cc` | status registers, words of a ring of cores | rounds of write, wait, check; report; poll and reset | `CacheCoherence`, `BareStatus` |
| Mailbox | `cosim/share/shIpc.*`, `cosim/pli/vpp2shMem.cc` | slots with unlocked flags | send, wait, acknowledge | `ShIpc`; promise in `RemoteCall` |
| Threads and start-up | `cosim/src/shPthread.cc`, `cosim/share/shMem.cc`, `c_dispatch.cc`, `c_module.cc` | thread table, key file | fork, ALIVE/ACTIVE handshake, wait, add up, shut down | `CDispatch`, `CModule` |
| Verilog drivers | `cosim/dvt/driver_common.incl`, `sys_common.incl` | enable, progress and shutdown flags of each driver | attach, wait for start, poll, process, answer, finish | `SimDrivers` |
| data paths, other diagnostics, Linux shell, bare-metal runtime, Rocket Chip, unit simulation | | | | not modelled, see section 8 |

### How the LLKI works

```
 processor            SRoT                       fabric          LLKI-PP            TSS
   | write SENDRECV -> request FIFO -> state                       |                 |
   | (LLKI-C2)            |   machine -- write SENDRECV (LLKI-KL) -> state machine   |
   |                 Key Index RAM   <- read CTRLSTS / SENDRECV --  | key_valid/data -> key
   |                 Key RAM                                       |  clear_key     -> register
   | <- read CTRLSTS, SENDRECV <- response FIFO <- state machine   | <- ready, complete, clear_ack
```

A load request names a key index. The SRoT looks up the entry (valid, core, low
and high pointer into the Key RAM), tells the LLKI-PP how many words follow,
then for each word polls READY_FOR_KEY and writes it; then it polls
RESP_WAITING, reads the answer, and pushes a response. Clear and status
requests have no words. Everything is in one clock domain and nearly every
signal is a register, so each machine acts on what its peer did one or two
cycles ago. That is what makes this hard:

* **staleness**: status bits are registered copies of registered signals, read
  over a bus; `key_complete` and `clear_key_ack` are sampled a cycle late; a RAM
  write is permitted in one cycle and performed in the next; the read ports of
  the RAMs are clocked;
* **staying in step**: the LLKI-PP takes any word for a key word while loading
  and any word for a header otherwise, so length and readiness must agree;
* **limits**: FIFOs that drop when full, an 8-bit length, wrapping counters;
* **partial failure**: a rejected request clears the request FIFO;
* **liveness**: the processor polls without a bound.

### How the cores share

All cores run the same program. A core asks for a lock by writing a request
with its number to one register; the hardware tries it in the next cycle and
tells nobody; the core reads the locks back, and asks again up to `timeOut` times. What is hard:
requests and releases of all cores go through that one register, so a request
is granted between any two accesses of others; a core may give up, or leave a
test after an error with the lock taken; the playback team scans four registers
one by one before it claims a test; the cores of the coherence test wait for a
partner that does not wait for them; and the thread that polls a core's status
resets it whatever it is doing.

### How the co-simulation works

```
 main program            shared memory                   simulator (one thread)
   fork, watch, add up -- slot of the system  -- system driver, $finish
 thread of core 0 ------ slot of core 0     -- driver of core 0 -- bus
 thread of core 1 ------ slot of core 1     -- driver of core 1 -- bus
```

A call stores its arguments, a status, the command and a flag in its slot and spins
until the flag is down. The driver polls the slot, runs the command for some
clocks, stores the result and lowers the flag. There are no locks: each field has
a writer at each time only by the protocol. The status field is written by
the thread, by its parent and by the simulator. A core's driver polls in
zero simulated time, so everything else stands still until its thread speaks.

### What makes each part correct

* LLKI-PP and TSS: an answer is true while it waits to be read, whatever the bus
  master does; it is not withdrawn; a clear is always answered.
* SRoT: requests are neither lost, duplicated nor reordered; a poll is never
  wrong; in operational mode the RAMs do not change.
* The whole: the two machines stay in step; a load is acknowledged only when the
  core has that key; the status tells the truth; every request is answered.
* Locks: mutual exclusion, no lock held by a core that gave up, and every
  program comes to an end whatever the others leave behind.
* Tests: what they report is there, and what is there they report.
* Co-simulation: a call is executed once and returns its own data, the verdict of every core is
  counted once, no driver leaves its thread waiting, and `$finish` comes last.

`PROJECT.json` lists every hazard at its line with the property that covers it, or with the reason why none does.

## 2. Modules

```
 LlkiPkg   LlkiDiscrete
    |  \     /   \
    |  LlkiPp   MockTss
    |      \      /
    |       PpTss ------- KlTarget ---- KlTarget_proofs, MCKlTarget
   Srot       |
    |         |
  Driver --- Llki ---- MCLlki         Llki  implements  KeyService
    |
 SrotAlone ---- SrotAlone_proofs, MCSrotAlone

 PpTss_proofs  (KlTarget_proofs extends it)     lemmas about one edge of LLKI-PP and TSS
 Driver_proofs (SrotAlone_proofs extends it)    lemmas about one edge of driver and SRoT
 Llki_proofs extends both, LlkiService_proofs extends Llki_proofs

 TestNset -- CepApis -- CepLockTest -- Playback --------- CepCores -- MCCepCores,
                  \            \                         /            CepCores_proofs
                BareStatus -- CacheCoherence -----------      CepCores implements LockService

 ShIpc -- CModule -- CDispatch -- SimDrivers -- Cosim -- MCCosim, Cosim_proofs
                                                Cosim implements RemoteCall
```

* **`LlkiPkg`**: constants and the 64-bit word. A word keeps the three bytes the
  machines decode. Key words are such words too: a machine that is out of step
  decodes a key word as a header, as the RTL does.
* **`LlkiDiscrete`**: the six wires between LLKI-PP and TSS.
* **`LlkiPp`**, **`MockTss`**, **`Srot`**: one action per state of the state
  machine; each action is one rising clock edge and gives every register its next
  value. Inputs of the edge are parameters (`acc`, the access seen by the register
  adapter; `gnt`, `err`, `rsp`, the host adapter's grant, error and response).
  `PpEdge`, `TssEdge`, `Stm` and `Ports` put an edge together; an `always_ff` that
  is not part of the machine (status copy, decode, FIFOs, RAMs) is its own
  conjunct of the same edge, never a step that may be skipped.
  Variables carry the RTL names, shortened by the prefix of their block.
* **`Driver`**: the processor. `Setup` is the program of register writes that
  `cepSrotTest_runTest` makes, then `DriverSend`, `DriverPoll`, `DriverReadMsg`
  are the three steps of `send_srot_message`. `Window` generalises the test from one request in
  flight to several; `StrayWrites` are later writes to RAMs and mode register. Each
  request carries a tag in the RSVD field, which the SRoT echoes.
* **`PpTss`**: LLKI-PP and TSS clocked together, and what the pair promises; **`KlTarget`**
  puts it under an *arbitrary* bus master, `Llki` under the SRoT.
* **`SrotAlone`** composes Driver and SRoT with an *arbitrary* bus, which may
  grant, fail and answer in any cycle, asked or not.
* **`Llki`** composes everything. `Cycle` is one edge of the common clock; the
  fabric holds what was accepted and not delivered, and at most one response.
* **`KeyService`** is the abstract specification: a queue of requests, a queue of
  responses, one key. Only the oldest request touches the key; an answer
  must be true of the key when it is given; one answer per request, under its tag.

* **`TestNset`**: the lock registers and `LocksEdge`, one clock edge of them. Every
  action of `CepCores` is a clock cycle with at most one bus access, and contains that
  edge; `Idle` is a cycle without one.
* **`CepApis`**: `cep_get_lock` and `cep_release_lock` as the steps of a
  core. `pc` is the place of a core in its program; a program calls by
  going to `"getLock"` or `"release"` and goes on from `"inside"`, `"gaveUp"` or `"released"`.
  A write is answered over the fabric, so its request has been worked off
  before the same core can read (`Acked`).
* **`CepLockTest`**, **`Playback`**, **`CacheCoherence`**: the three programs. What a lock
  test writes is reduced to whose data it is; what the coherence test writes, to the round.
* **`BareStatus`**: the status register of a core and the thread that polls it.
* **`CepCores`**: all cores with one of the programs.
* **`LockService`**: a lock one core takes and gives back.
* **`ShIpc`**: the slots, and `SendCmdNwait` as three steps: `Call` (arguments,
  status, command), `Raise` (the flag), `Return`.
* **`CModule`**: a thread of the C side: start-up handshake, the frame every
  `c_module.cc` shares, and `cep_playback` as its test.
* **`CDispatch`**: the main program with `shMemInit`, `ForkAThread`, `AllThreadDone`, `Shutdown`.
* **`SimDrivers`**: the drivers. `control` says which of them the simulator
  runs: it is taken, and given away only to wait for a clock. `get_v2c_mail` looks at the
  flag in one step (`PollEmpty`) and at the status in a later one (`PollDone`,
  `PollNothing`), so the last stores of the thread may come between.
* **`Cosim`** composes them; it starts from a fresh segment or one
  that an earlier program left at its end. (A killed one may leave a flag up as well; behind
  `SlotsInitialised` nobody sees what was left.)
* **`RemoteCall`**: a call is requested, executed once, and returns.

### Abstractions

* The data bytes of a word other than ID, STATUS and LEN (and key index and tag
  of LLKI-C2) are dropped; no state machine looks at them.
* An access to an undecoded address of the LLKI-PP only pulses an error and is
  `NoAccess`. The value read back from a RAM by the processor is left out.
* Addresses are in 64-bit words.
* The default (trap) states of the three machines are left out: with a 4- or
  3-bit state register they are reached only by a bit flip. Reset happens at the start only.
* The RAMs power up as zero; RTL leaves them undefined and the driver writes what
  it uses first.
* `slave_busy` and `adapter_busy`: `tlul_adapter_reg` answers an access before it
  takes the next, so accesses are never in consecutive cycles. Several properties
  depend on just that cycle (`NoStaleResponseBit`, `PolledMeansThere`).

* `CepCores`: the wait between two tries is any number of cycles. The memory of the
  coherence test is coherent, which is what the test is to show of the hardware; a core at
  fault (`Faulty`) may see a wrong word or fail a playback at any time.
* `Cosim`: a command takes 0 to `MaxClocks` clocks and each core has a block of
  its own, one register. Of the frame's clocks and prints one each is kept. A store
  is a step; stores are not reordered (the code relies on that).

### Timing assumptions of the co-simulation

Two races are decided by time and not by the code, and each is one named conjunct:

* `SeenAlive` (`Wake`): a thread's `sleep(1)` (`c_module.cc:93`) is long enough for its
  parent to see ALIVE, which the first command overwrites. Without it the
  parent can spin for ever (`shPthread.cc:99`); this is the mutant `WakeAtOnce`.
* `SlotsInitialised` (`Attach`): between writing the key file and initialising the slots
  (`shMem.cc:88`, `:103`) no simulator attaches; a start flag of the
  previous run would enable its driver too early.

### External parts, and the assumptions about them

The OpenTitan primitives (`prim_fifo_sync`, `prim_generic_ram_2p`,
`tlul_adapter_reg`, `tlul_adapter_host`) and the Rocket Chip fabric are not in the
repository; they are modelled from how the wrappers instantiate and use them.

* `RegisteredRam`: the read port of the RAM is clocked (it has a clock
  input, and the machine points the Key RAM at a word a whole poll before it sends it). TRUE in every run of `Llki`, FALSE in those of
  `SrotAlone`, whose properties do not depend on it and whose state space is
  smaller that way; the theorems about `SrotAlone` cover both.
* `StableGrant`: the host adapter is ready whenever it has no request waiting.
  The SRoT looks at the grant in the cycle in which it *raises* a read request
  (`srot_wrapper.sv:924`), so it relies on this. With an arbitrary `a_ready`
  (`StableGrant = FALSE`) TLC finds `OneTransaction` violated. No run records that
  as a finding, because the adapter's behaviour is decided elsewhere.
* The fabric of `Llki` keeps order, loses nothing and has any latency: it may
  deliver in the cycle of the grant or any later one, and answer at least one cycle
  after delivery. It raises no bus error there; errors are in `SrotAlone`.

## 3. Runs

| run | question | bounds |
|---|---|---|
| `kl_target` | Are the LLKI-PP's answers true and stable under any master? | real TSS delay (10); a word of every kind the message check tells apart |
| `srot_alone` | Are requests conserved, polls right, RAMs frozen and loads inside their key, under any bus? | FIFO depth 2, window 2, poll delay 1, two index slots, two key words |
| `llki` | Do SRoT and LLKI-PP stay in step, and is the whole the key service? | window 2, real delays (10 and 10), fabric of any latency, a 2-word key |
| `llki_sequential` | Driven as the test drives it: is every answer true and given? | window 1, real delays |
| `srot_full`, `srot_map`, `llki_faulty`, `llki_two_keys`, `llki_long_key` | the findings of section 4 | `srot_map` and `llki_long_key` have the real sizes where it matters |
| `cep_cores` | Are locks exclusive and never orphaned, do the tests tell the truth, do all programs end? | 3 cores (2 for playback), 2 locks, 2 tries, 2 loops, 2 tests, 2 blocks, 2 polls, core 0 at fault |
| `coherence_race` | finding 6 | 3 cores in a ring, 2 rounds, 1 block, nobody at fault |
| `cosim` | Are mailboxes calls, verdicts exact and the end in order? | 2 cores, 1-bit data, a capture that passes and one with every way to fail, 0 or 1 clocks a command |

**`kl_target`** (`MCKlTarget.cfg`)

* `ClearAckMeansCleared`, `PresentMeansLoaded`: from the moment the LLKI-PP decides
  on the answer until it is read, the TSS is cleared, respectively holds a
  complete key. Both are decided on signals that are a cycle old.
* `NoStaleResponseBit`: while a request is processed RESP_WAITING of the
  previous one is not visible any more.
* `ResponseStable` (action): a shown response does not change until it is read.
* `ClearIsAnswered` (liveness): a clear is answered from every TSS state,
  in particular when it arrives during a load delay whose end wins over it.

**`srot_alone`** (`MCSrotAlone.cfg`)

* `RequestsConserved`: what the processor has sent and not yet got back is, in
  order, what is in the response FIFO and its write port, the state machine, and the
  request FIFO and its write port. Once an error has raised the clear
  of the request FIFO only a prefix of it is left.
  It needs `Window <= FIFO_DEPTH`: the response FIFO is pushed without
  looking at its full flag, and with window 3 and depth 2 TLC finds a lost response.
* `PolledMeansThere`: after a poll that saw RESP_WAITING there is a response to
  read. (An empty FIFO would read as 0, which is `LLKI_STATUS_GOOD`.)
* `KeyRamFrozen` (action): with a mode bit set neither RAM changes, although
  a write is performed a cycle after it was permitted. The stray writes of the run go to the
  Key Index RAM; those of `llki` go to the Key RAM, and the theorem `KeysFrozen` covers both.
* `LoadStaysInside` (action): with a mode bit set, a load that is inside its key
  stays inside it, and the Key RAM is pointed at the word it has reached when that word goes out.
  The end of a load is not latched but read from the Key Index RAM after every word
  and tested for equality. In debug mode (no bit set) the property does not hold and is not
  claimed: an entry rewritten during its own load makes it run on.

**`llki`** (`MCLlki.cfg`)

* `OneTransaction`: the bus transactions under way are exactly those the SRoT
  waits for: none withdrawn, none accepted twice.
* `NoLossOfSync`: the LLKI-PP never answers with an error, that is, the SRoT writes a
  key word only when it can be taken and never a malformed header. The two key
  words of the instance *are* LLKI-KL headers, so that being out of step has effects.
* `ImplementsKeyService` (refinement): the whole system, through the mapping at
  the end of `Llki`, is a behaviour of `KeyService`. Stray writes to the Key RAM
  in operational mode are part of the run.

**`llki_sequential`** (`MCLlkiSequential.cfg`)

* `LoadAckMeansLoaded`: an acknowledged load of index i means the core holds
  the words of index i.
* `StatusTruthful`: PRESENT only of a complete key, NOT_PRESENT only of an
  empty TSS. The second half holds for one request at a time, as in
  `cepSrotTest.cc`: the load is acknowledged when the last word is handed
  over, not when it is stored, and with two requests in flight and a fast fabric
  a status request right behind it can be told NOT_PRESENT. `KeyService`
  therefore allows NOT_PRESENT at any time. Section 5 has the exact delays.
* `EveryRequestAnswered` (liveness).

**`cep_cores`** (`MCCepCores.cfg`)

* `ImplementsLockService` (refinement): no core believes it has a lock that
  another core believes it has.
* `NoOrphanLock`: a taken lock has an owner that holds it, is about to read that it
  does, or has its release on the way. In particular the last request of a core that
  gives up is never granted late.
* `NoFalseMismatch`: no interleaving puts another core's data, or data of another round, under a
  comparison: only a faulty core counts a mismatch, also after cores
  have left with locks taken.
* `NoSharedTest`: two cores never replay the same test, though a claim is found by reading
  the claims one by one, and may be left behind by a core that stopped.
* `NoFalsePass`: no error counted by the thread that polls and resets a core
  means the core passed all rounds, and so did its partner.
* `EveryCoreEnds` (liveness).

**`cosim`** (`MCCosim.cfg`). The run ends, so deadlock is not checked; `Terminates`
says that it ends well.

* `ImplementsRemoteCall` (refinement): whatever the order in which the two sides
  see each other's stores, a call is executed once and returns its own data.
* `VerdictExact`: `cep_playback` reports of every sequence what a
  reference definition (`Verdict`) says: the first mismatch, or else the last spin that ran out.
* `NoErrorLost`: the total of the main program is the sum of the verdicts.
  It depends on `CheckCmdOK` (`shIpc.cc:173`) never counting anything: the mutant that
  makes it count finds good calls counted as errors, because the status field has several writers.
* `NoneLeftBehind`: a driver that stops has a thread that will never call again, although it
  looks at the flag and at the status in two steps while the thread stores on.
* `FinishIsLast`: `$finish` comes after the last call of every thread.
* `Terminates` (liveness).

### Why the bounds are enough

The delays are the real ones wherever delays matter for a property (the lags of
two or three cycles against the delays of ten). In `SrotAlone` the bus is
arbitrary, so a longer poll delay only adds more of the same state. Depth 2 lets
both FIFOs be empty, partly filled and full, with push and pop together; two index
slots give an index in range and one out of range; the entries written by
`StrayWrites` cover each error of the pointer check and of the core index. The key of the
instance has the two words the AES TSS takes. Tags are modulo `Window + 1`, one
more than can be in flight, so a duplicated or lost request shows.

Three cores let a release and two requests meet in the lock register, and a core
watch a core that does not watch it; two locks tell the lock of a call from
another; two tries, loops, tests, blocks and polls have a first and a last each, with one in
which the counter moves on. In `cosim` two threads let one end while the other works, and two
drivers compete for control with the system's. One capture passes; the other runs out of tries,
has a command outside the range and a spin without tries, both passed over, and ends with a mismatch after the
timeout, so every branch of `cep_playback` is taken and the order of errors matters; `VerdictsExact`
covers all others. The theorems of section 5 hold
without any of these bounds.

Every property has a mutant in `PROJECT.json`: a plausible bug in one mapped
definition with which TLC finds the property violated in its own run.

### Fairness

* `KlTarget`: `WF(Next)`: the clock runs. The master need not do anything.
* `Llki`: the clock runs; a request the fabric accepted is delivered and a response
  returned eventually (`Delivers`, `Responds`), as TileLink requires of a fabric and as
  an agent without error responses needs; the processor keeps polling and reading
  (`DriverWorks`), which is the unbounded loop of `send_srot_message`. The liveness runs have no
  stray writes: a processor that writes instead of polling is not that loop.
  Nothing is assumed of the SRoT, the LLKI-PP and the TSS: they move with the clock.
* `CepCores`: the clock runs (`Idle`) and every core gets its accesses (weak fairness of
  each core): the processors are clocked and the fabric arbitrates. The
  threads that watch the cores need no fairness.
* `Cosim`: the operating system runs the main program, the simulator and every thread (weak
  fairness of each): they are processes and threads that spin or sleep, none is suspended for ever.

## 4. Findings

Each is a violation run; TLC prints the behaviour.

1. **`llki_faulty`**: a rejected request sets the clear of the request FIFO
   (`srot_wrapper.sv:702`) and no reachable state takes it down. The next request
   vanishes and the driver polls for ever. Rejections are not tested after one
   another in `cepSrotTest.cc`.
2. **`srot_full`**: "writing to a full FIFO will cause an error"
   (`srot_wrapper.sv:468`), but the error is registered and comes a cycle after
   the adapter sampled it; the write is acknowledged and dropped.
3. **`srot_map`**: `llki_pkg.sv:70-75` puts 32 index entries at 0x100 and the Key
   RAM at 0x120: entries 4 to 31 are shadowed by the Key RAM.
4. **`llki_two_keys`**: the entry is used one cycle too early for a clocked RAM, so
   checks and low pointer come from entry 0. A load of key 1 is acknowledged with the
   words of key 0. It does not show with index 0, the only one the test uses.
5. **`llki_long_key`**: 255 or 256 words pass the pointer check, but the 8-bit length
   wraps and the LLKI-PP refuses the request.
6. **`coherence_race`**: a core of the coherence test waits for its partner's words of the same
   round (`riscv_wrapper.cc:74`), but the partner, which watches another core, goes on
   and overwrites them. With more than two cores a slow core then runs out of tries and reports BAD
   though its partner did what the comment at `:67` says. The comment at `:64` ("get test to pass
   ... may be we are hiding a bug???") suspects as much. For a ring of two the wait goes both ways.

Seen while reading, and not a run: `cosim/drivers/cep_tests/CEP.h:241` gives `SROT_KEYRAM_SIZE` as
0x40 where `llki_pkg.sv` has 0x100, against the comment at `CEP.h:237` that
the values must be equal; and nothing ties the length of an entry to the TSS, so
a load of one or three words is acknowledged and leaves the two halves of the AES key out of step.

## 5. Theorems

For all values of the constants, checked by `tlapm`. A theorem that needs more than the
assumptions of the modules states it as its hypothesis. `PpTss_proofs` and `Driver_proofs` have no
theorem of a specification of their own: they prove what one clock edge preserves in a part, and
the systems built from that part use it.

**`KlTarget_proofs`** (on `PpTss_proofs`), from `MockTssAssumption` (the delay fits its byte) and
`BusWordsAssumption` (the master writes words):

| theorem | property |
|---|---|
| `TypeCorrect` | `TypeOK` |
| `ClearAckSafe` | `ClearAckMeansCleared` |
| `PresentSafe` | `PresentMeansLoaded` |
| `ResponseBitFresh` | `NoStaleResponseBit` |
| `ResponseHeld` | `ResponseStable` |

None of the three safety invariants is inductive. For example
`ClearAckMeansCleared` fails one step after a state where `clear_key_ack` is up
while the TSS is not idle, and that state is unreachable for reasons of the
TSS. The inductive invariant `PairInv` (in `PpTss`) adds, to the type and the three properties:

* `TssHolds`: an idle or just cleared TSS holds no word, an idle one does not say
  complete, and only an idle one acknowledges a clear;
* `WiresHaveAReason`: the LLKI-PP raises `key_valid` or `clear_key` only while
  it processes, or answers, the matching request, so no key word can arrive in an
  idle TSS behind a clear acknowledgement;
* `ResponseUp`: after a response is read its bit is still up for one cycle, in which the
  adapter is busy; and what is shown is what was decided;
* `CompleteIsCurrent`: when the message check samples `key_complete`, the TSS is
  in `KEY1_LOADED` and no word or clear is on the wires that would take it away.

The proof has a lemma per machine for the types (`PpType`, `TssType`), then
`TssHoldsStep`, `WiresStep`, `ResponseStep` and `CrossStep` for the conjuncts of one machine and
those that relate both, with a step per state that can disturb them; `PairStep` joins them, for every
access that is a word and does not come right behind another one. In `KlTarget` the adapter sees to
that; in `Llki` the fabric does, which holds the response the adapter would owe (`TakenIsHeld`).

**`SrotAlone_proofs`** (on `Driver_proofs`), for every size of the memories and FIFOs, every driver,
all contents of the RAMs and everything the bus does:

| theorem | property | hypothesis |
|---|---|---|
| `TypeCorrect` | `TypeOK` | |
| `PollsAreRight` | `PolledMeansThere` | |
| `KeysFrozen` | `KeyRamFrozen` | |
| `LoadsStayInside` | `LoadStaysInside` | |
| `RequestsInOrder` | `RequestsConserved` | `Window <= FIFO_DEPTH` |

The assumptions are `SrotAssumption` (the RAMs do not lie on the control registers, the pointers
can address the Key RAM), `DriverAssumption` (requests and index entries have the fields
the SRoT decodes) and `BusAssumption` (responses carry bytes).

* `TypeInv` adds to `TypeOK` what the FIFOs, the Key Index RAM and their registered ports
  hold; `FifoTyped` is the lemma about `prim_fifo_sync`.
* `NoLateWrite`: no RAM write is pending while a mode bit is set. The write that sets the
  mode bit is itself no RAM write. `KeysFrozen` follows.
* `BitOutlivesRead`: RESP_WAITING is up with an empty FIFO only in the cycle after the read that
  took the response, in which the register adapter is busy. `PollsAreRight` follows.
* `LoadsStayInside` needs both: the entry of a load does not change (`NoLateWrite`, `SameEntry`),
  so that the pointer is between its bounds, below the size of the Key RAM, and does not wrap.
* `OrderInv`, for `RequestsInOrder`: where each message stands in the queue of those unanswered.
  `QueueInv` says that the response FIFO with its port holds the oldest ones, that the request being processed
  is the next one (its ID and key index too, until the answer replaces them) and
  that those queued follow it, or a prefix of them once the clear is up; that each FIFO's
  pop is one that was due; and that the window bounds all three together, which is
  where `Window <= FIFO_DEPTH` enters: without it a push finds the response FIFO full. The
  lemmas `FifoQueue`, `Joined` and `Moved` say that a FIFO with a registered
  port is one queue whatever its depth.

**`Llki_proofs`** and **`LlkiService_proofs`**, for every size of the memories, every program of setup
and stray writes, every window, every latency of the fabric, every poll delay and load delay:

| theorem | property | hypothesis |
|---|---|---|
| `TransactionsTracked` | `OneTransaction` | `StableGrant` |
| `NeverOutOfSync` | `NoLossOfSync` | `Disciplined` |
| `AcknowledgedIsLoaded` | `LoadAckMeansLoaded` | `Disciplined`, `TwoWordKeys`, `Window <= FIFO_DEPTH` |
| `StatusIsTrue` | `StatusTruthful` | the same, `Served` and `Timely` |
| `LlkiImplementsKeyService` | `ImplementsKeyService` | as `AcknowledgedIsLoaded`, and `OneKey` |

`Disciplined` is what the hardware asks of those around it, and each part has a run that shows what happens without it:

* `StableGrant`: the adapter is ready whenever no request waits (external, see section 2);
* `ShortKeys`: no key is longer than its length byte counts (finding 5, `llki_long_key`);
* `ModeIsSet`: software sets a mode bit before its first request, so the RAMs are frozen under a load;
* `FirstKeyOnly`: behind a clocked Key Index RAM only the key of slot 0 is
  loaded (finding 4, `llki_two_keys`). With RAMs that are not clocked it says nothing.

`TwoWordKeys` says what `Keys` means: the last setup writes before the mode is set put an entry of two
words, and the words named in `Keys`, under each usable key index. `Served` says that the requests are
ones the SRoT has no reason to reject: known messages for a key index for which the setup leaves a
usable entry. `OneKey` adds that all name the same key index. The refinement needs both: `KeyService` has no error answers, and the mock TSS knows
only that it holds *a* key, so with two keys a status request for one would be answered PRESENT while the core holds the other.

`Timely` bounds the load delay of the TSS, `MOCKTSS_WAIT_STATE_COUNTER_INIT`, by 9 cycles, and by 11 if `Window = 1`. It is there because the
load is acknowledged when the last word is handed over, while the TSS still takes that many cycles to store it; `9` and `11` are
what the shortest way of the SRoT from the last word to the check of the next request leaves.
The code has 10 (`llki_pkg.sv:255`), so the theorem holds of it for software that
awaits every answer, as `cepSrotTest.cc` does. For software that queues a second request it does not,
and the bound is exact: with `Window = 2` TLC finds `StatusTruthful` violated at 10. With `Window = 1` TLC
finds it violated from 18 on; between 12 and 17 the slower processor in `Driver` keeps it true, which the proof does not count.

`MCLlki` satisfies all of these but `Timely`, `MCLlkiSequential` all of them.

* `BusInv` (for `TransactionsTracked`): for every state of the SRoT, whether the one transaction is
  put up, carried or answered, and which one it is. With a stable grant the read request that is raised one cycle late
  is accepted in that cycle.
* `SyncInv` (for `NeverOutOfSync`): `StepInv` says what the LLKI-PP is doing in every state of the SRoT,
  with the number of words it still waits for tied to the pointer (`Left`); `ReadyInv` bounds the
  age of READY_FOR_KEY: it may be up while the TSS is not ready only between a word and the next
  poll, which is later than the copy is old; `RequestInv` and `KeyInv` say that the entry does not change
  under the load.
* `LoadInv` (for `AcknowledgedIsLoaded`) adds `OrderInv`; `ProgInv`, which relates the RAMs to the setup program, with the
  write that is still on its way; `EntryHeld` and `WordSent`, that the word on the bus is the next one of the key of this
  request; and `WordsHeld`, which word the TSS has, is being given or waits for, in every state of the load.
* `TruthInv` (for `StatusIsTrue`) adds `AcceptedInv`: every request in the queues is one
  that was sent and none is rejected, so that the request FIFO is never cleared; `AnswerInv`: an answer is the one to the request being
  processed, and remains true of the TSS from the edge at which the LLKI-PP decides on it until the SRoT has
  passed it on, although the TSS is clocked on meanwhile; and `InTime`, which counts clock cycles: once the SRoT has no word left to
  send, the TSS has stored the last one (`Within`) before the LLKI-PP can check the next message (`Cycles`, for each state of the SRoT).
  `NextStage` says that an edge takes at most one cycle from that way, `Closer` that it brings the TSS one nearer,
  and `NoneQueued` is where one request at a time gains two cycles. At the check the TSS is then complete or empty (`EmptyAtCheck`).
* `ServiceInv` (for `LlkiImplementsKeyService`) adds `KeyHeld` to it: what the TSS holds of the key in each of its states.
* The step of the refinement (`ServiceStep`) has two sides. `QueueMoves`: the abstract queue, which is what the processor sent behind
  the responses it has not read, loses its head exactly when the SRoT writes a response (the lemmas on `Behind` do the sequences).
  `KeyChange`: the key register changes only by one word of
  the key of the request being processed, or to zero when that request is a clear; `AnswerAllowed`: the response
  written is one `KeyService` allows at that moment.

**`CepCores_proofs`**, for any number of cores, locks, tries, loops, tests and blocks, any set
of faulty cores and any masks (the assumptions are that numbers are at least one):

| theorem | property |
|---|---|
| `CoresTypeCorrect` | `TypeOK` |
| `NoLockOrphaned` | `NoOrphanLock` |
| `LockTestTruthful` | `NoFalseMismatch` |
| `TestsApart` | `NoSharedTest` |
| `PassTruthful` | `NoFalsePass` |
| `LocksImplementService` | `ImplementsLockService` |

Mutual exclusion is not inductive: a core believes it has a lock because the register
showed it so once, and requests of others are always on the way. The inductive invariant `CoresInv`
(theorem `CoresCorrect`) is the conjunction of

* `TypeInv`: the types, and which places belong to which program;
* `LockInv`: a lock that a core believes it has shows that core, and no release of it is
  pending; a pending request belongs to a core that has not read back yet, a pending
  release to one that has just written it;
* `InsideInv`, `PatternInv`: between getting and releasing a core believes it has the lock of
  its call, and while it compares the scratch registers hold what it wrote;
* `ClaimInv`: no two claims are the same, and a core that searches has no claim and has looked at
  the cores before `other`;
* `BareInv`: which blocks a core has written in its round, that its partner is never *behind* what
  it has seen there, and what its thread may conclude from its status;
* `NoOrphanLock` and `NoFalseMismatch` themselves.

**`Cosim_proofs`**, for any number of cores, any captures, any data:

| theorem | property |
|---|---|
| `CosimTypeCorrect` | `TypeOK` |
| `StopsLate` | `NoneLeftBehind` |
| `FinishesLast` | `FinishIsLast` |
| `VerdictsExact` | `VerdictExact` |
| `NoErrorIsLost` | `NoErrorLost` |
| `MailboxesAreCalls` | `ImplementsRemoteCall` |

The inductive invariant `CosimInv` ties the three parties of a slot together:

* `StartInv`: nothing calls or attaches before the slots are initialised, and a thread is born
  exactly when the main program has forked it;
* `CoreCallInv`, `MainCallInv`: where a thread is while it calls, and what it may ask for there;
* `MailInv`: the flag is up only while the caller waits, and while a driver is at work;
* `DoneInv`, `ActiveInv`: a thread taken for done makes no call any more, and the main program
  forgets only such threads;
* `EndInv`: shutdown is sent when no thread is left, and the simulator finishes after its answer.

`NoneLeftBehind` is part of it, and `FinishIsLast` follows from `EndInv`, `ActiveInv` and `StartInv`.
`VerdictsExact` needs in addition that the count of a thread so far is the reference verdict of the prefix it
has replayed (`TestsInv`), where the reference looks for the first mismatch or the last spin that
ran out and the code goes step by step. `NoErrorIsLost` has the invariant `SumInv`: the total is the
number of errors of the threads the main program has counted. The property is written with the sum over a set of the community modules,
a recursive function over data; `SumIsTotal` shows it equal to `Total`, the
cardinality of a set of pairs. The library's induction theorems cannot be
used here (they take an operator as a parameter), and the proof is by a smallest counterexample (`Smallest`, from
`WFMin`) instead.

The refinement has a lemma for each kind of step (`BeginsCall`, `Executes`, `Returns`, and
`CallsStutter` for all others) and one for each process that sorts its actions into them.
`VerdictExact` is about the value `cep_playback` hands on, which is the index of a command and no
number of tests; `NoErrorLost` is about the sum of these values, as `AllThreadDone` forms it.

### Only model-checked

* Liveness (`ClearIsAnswered`, `EveryRequestAnswered`, `EveryCoreEnds`, `Terminates`) is beyond the
  proof system.
* The limits found by TLC for the load delay (10 with `Window = 2`, 18 with `Window = 1`) are
  counterexamples of small instances, not proved.

Every safety invariant and action property of a passing run is a theorem.

## 6. Plan

Done, in this order: `LlkiPkg`, `LlkiDiscrete`, `LlkiPp`, `MockTss`, `KlTarget` and its
proofs; `Srot`, `Driver`, `SrotAlone` and its proofs; `KeyService`, `Llki`;
`TestNset` to `CepCores` and their proofs; `ShIpc` to `Cosim` and their proofs.

Open:

1. The printf lines of the bare-metal programs (`cep_apis.cc:280`).
2. Remote commands (`vpp2shMem.cc:330`), should a test come to use them.

## 7. Running

```
tlc -workers 2 -config MCLlki.cfg MCLlki
tlapm KlTarget_proofs.tla
```

`kl_target` has about 82 000 states, `srot_alone` 188 000, `llki` 58 000; `srot_alone` takes
under two minutes and the others under one. `cep_cores` has 744 000 and takes about two minutes, `cosim` 345 000 and takes
a little more than two. The violation runs end with a counterexample.

## 8. Not modelled

* AES, DES3, MD5, SHA256, RSA, DFT, FIR, IIR and GPS: arithmetic pipelines, mostly
  third-party; equivalence checking and test vectors suit them better.
* Mock TSS variants of the other cores: only the AES one is wired to an LLKI-PP under
  `hdl_cores`; the XOR of the key into the AES input is data.
* Register and memory tests, the other `c_module.cc` and bare-metal tests, Linux shell, bare-metal
  runtime: sequential code over the same drivers, parsing and I/O. The many copies of
  `c_dispatch.cc` and `c_module.cc` share the frame that `CDispatch` and `CModule` model.
* Test vectors (`cosim/drivers/vectors`, `sv_vectors`): captured data, most of the repository's C lines.
  They have no behaviour, so the share of lines the models stand for is small.
* Remote commands and the packet mailbox of `shIpc` (no test uses them; `vpp2shMem.cc:330` acknowledges
  them to the wrong side), checkpoints and restart, joining threads, logging, the printf lines.
* Rocket Chip: vendored generators.
* Reset during operation, trap states, and bus errors inside `Llki`.
