# TLA+ models of the ESP8266 Arduino core

This directory holds TLA+ specifications of the parts of the ESP8266 Arduino
core whose correctness depends on the order of events: interrupts against the
sketch, callbacks of the SDK against calls that sleep, resets against writes to
flash, boards against other boards. TLC checks them on small instances, and
TLAPS proves every invariant that a passing run checks, for every value of the
constants (of `millis()`: for the constants of the code). Liveness is left to
TLC. `PROJECT.json`
maps each definition to the source lines it models, and lists the runs, the
hazards and the theorems. All source paths below are relative to `src/`.

## 1. The system

The chip runs one processor without threads. Three kinds of code share it:

* **CONT**, the sketch: `setup()`, `loop()` and everything they call, on a
  cooperative stack of its own. CONT gives way only in `cont_suspend()`, which
  `yield()`, `delay()`, `esp_delay()` and `esp_suspend()` reach.
* **SYS**, the closed SDK's event loop and lwIP: timers, network callbacks and
  `loop_task()`, which resumes CONT. SYS code runs only while CONT is suspended.
* **Interrupt handlers**, which run between any two instructions of the other
  two unless interrupts are locked.

Two more sources of interleaving are outside the processor: hardware that
stores bytes into a FIFO at any time, and resets, after which the bootloader
runs and only flash and, except for power cuts, RTC memory have survived.

### Inventory

| Component (source) | State | Operations | Talks to | What is hard | Modules |
|---|---|---|---|---|---|
| One-shot scheduled functions (`cores/esp8266/Schedule.cpp`) | two linked lists of recycled nodes, a node count | `schedule_function`, `run_scheduled_functions` | called from interrupts; run by `loop_wrapper()` | unlocked reads, reuse of nodes during a run | ScheduledFn, FnQueue |
| Recurrent scheduled functions (same file) | a linked list, a fence, a cached grain | `schedule_recurrent_function_us`, `run_scheduled_recurrent_functions`, `compute_scheduled_recurrent_grain` | run by every yield; grain used by `delay()` | re-entry through yield, removal while walking | RecurrentFn |
| CONT task (`core_esp8266_main.cpp`, `core_esp8266_wiring.cpp`, `coredecls.h`) | a one-place event queue, one delay timer, the suspended call | `yield`, `delay`, `esp_delay`, `esp_suspend`, `esp_schedule`, `loop_task` | everything that sleeps | lost or early wake-ups, wrap of `millis()` | ContTask |
| UART receive path (`uart.cpp`, `HardwareSerial.cpp`) | a hardware FIFO, a ring buffer, an overrun flag | `read`, `peek`, `available`, `hasOverrun`, resize, the peekBuffer API, `uart_isr` | the hardware | interrupt between the halves of a call, overrun, resize | UartRx |
| Updater (`Updater.cpp`) | the announced size, the write position, a RAM buffer, an MD5 | `begin`, `setMD5`, `write`, `writeStream`, `end` | flash, the RTC command; used by ArduinoOTA and the HTTP update client | partial failure, resets, rounding to sectors | OtaFlash, Updater |
| eboot (`bootloaders/eboot`) | copy cursors; the RTC command | `main`, `copy_raw`, `load_app_from_flash_raw` | flash, the RTC command | resets and power cuts during the copy | OtaFlash, Eboot, Ota |
| TCP client (`ClientContext.h`, `WiFiClient.cpp`) | the pcb, a chain of pbufs and an offset, two waiting flags, a reference count | `connect`, `write`, `flush`, `stop`, `abort`, `read`, `ref`/`unref` | lwIP callbacks; sleeps through `esp_delay` | the connection changes while a call sleeps | ClientContext |
| DNS lookup (`ESP8266WiFiGeneric.cpp`) | a result object on the heap, requests inside lwIP | `hostByName`, `_dns_found_callback` | lwIP's resolver; sleeps through `esp_delay` | time-out against a late answer | DnsLookup |
| UDP (`UdpContext.h`, `WiFiUdp.cpp`) | contexts with a reference count, a chain of data and helper pbufs, a send buffer | `begin`, `stop`, `stopAll`, copy, assign, `parsePacket`, `read`, `write`, `endPacket`, `_recv` | lwIP callbacks | datagrams that arrive while one is read, shared contexts | UdpSocket |
| Heap (`umm_malloc/umm_malloc.cpp`) | an array of blocks with two lists through it, a count of free blocks | `malloc`, `free`, `realloc` | everybody, interrupt handlers too | `realloc()` enables interrupts half-way; merging; 16-bit sizes | UmmHeap |
| DHCP server (`LwipDhcpServer.cpp`) | the range, a sorted list of leases | `begin`, `end`, `set_dhcps_lease`, `add_dhcps_lease`, `handle_dhcp` | clients of the access point, `softAPConfig()` | lost answers, retries, claims of addresses of another range, a full pool | DhcpServer |
| mDNS responder (`ESP8266mDNS/src`) | status, counter and timeout of the probing, the host name | `begin`, `update`, `setHostname`, restarts, received queries and responses | other boards; the sketch's callback | simultaneous probes, conflicts, restarts | MdnsResponder |
| Waveform generator and PWM (`core_esp8266_waveform_pwm.cpp`, `core_esp8266_wiring_pwm.cpp`) | masks of pins, a pending change, the PWM list and its mailbox, the timer | `startWaveform`, `stopWaveform`, `digitalWrite`, `analogWrite`, `analogWriteFreq`, `setTimer1Callback`, `timer1Interrupt` | the NMI of timer 1 | lock-free requests to an NMI, waits for it | WaveformPwm |
| Ticker (`libraries/Ticker`) | the timer, the callback, a counter for long times | `attach`, `once`, `detach`, `_static_callback` | an os_timer | the callback changes its own ticker | Ticker |
| Clock (`core_esp8266_wiring.cpp`) | an overflow count and the time of the last tick | `micros_overflow_tick`, `micros64`, `millis` | a timer of 60 s | overflow seen or not yet seen, arithmetic of `millis()` | CoreClock |

Components without a module, with the reason:

| Component | Reason |
|---|---|
| TCP server (`WiFiServer`) | its accept queue is decided inside lwIP |
| EEPROM | a RAM copy with a dirty flag and one flash sector |
| The phase-locked waveform generator | the alternative to the modelled one, built on request |
| I2S, pin interrupts, I2C slave, PolledTimeout, `StreamSend`, scan and WiFi events | candidates, see section 7 |
| DNS server | one request, one answer, no state |
| Wi-Fi station and access point | calls into the closed SDK |
| HTTP client and server | sequential text protocols on top of the TCP client |
| TLS, lwIP interfaces, file systems | wrappers of vendored code |
| Strings, printing, conversion, hashes | data code without a state machine |
| Postmortem, GDB stub | run when the program has stopped |

Most of the repository's lines are in vendored code and headers: the SDK and
lwIP headers under `tools/sdk`, BearSSL, spiffs, LittleFS, SdFat, uzlib.

### What makes each component correct

* Scheduled functions: no node is lost or shared between the lists, functions
  are called in order, each once, and a run ends.
* Recurrent functions: a run looks at each function once, never through a
  pointer to a deleted node, and the grain fits the functions in the list.
* CONT: whoever suspends is resumed; a delay is neither early nor endless.
* UART: the bytes read are the bytes received, in order, and a loss is reported.
* Updates: the running sketch is not overwritten, only a whole and checked
  image is staged, and whatever happens a whole sketch runs afterwards.
* TCP client: bytes in order, window returned, no pointer to a freed pcb or
  context, every call that sleeps is woken and returns.
* DNS: the result object is freed exactly once; an answer goes to its question.
* UDP: what is read between two `parsePacket()` is one datagram, with its own
  addresses; no object is left with a deleted context.
* Heap: allocations are disjoint and keep their data, free memory is merged,
  and a request fails only if no gap is large enough.
* DHCP: an acknowledged address stays its client's, none is given twice (under
  the conditions of section 3), and a free one is offered.
* mDNS: two boards never hold one name, and every board gets one.
* Waveforms: after each call every pin does what was last asked of it, and each
  call returns.
* Ticker: the function asked for last is called, in time, and no other.
* Clock: `micros64()` is the true time and `millis()` its quotient by 1000.

## 2. The modules and the code

The models take the following from the architecture. Code between an interrupt
lock and its release is one step. SYS code is one step, since it does not
suspend. CONT code is cut at every point where an interrupt can change
something it reads later, and at every suspension. Definitions that come in a
pair `X` and `X_Something` are a piece of code and a plausible wrong version of
it; only `X` is used by the specification.

### FnQueue and ScheduledFn

`FnQueue` is what the one-shot scheduler promises: a bounded FIFO whose head is
called, then removed. `ScheduledFn` is the code: `sFirst`, `sLast`, `sUnused`,
`sCount` and the fields of each node are variables of the same names.
`ScheduleReused`, `ScheduleAllocated` and `ScheduleRefused` are the three
outcomes of `get_fn_unsafe()` inside `schedule_function()`, each one step
because of the `InterruptLock`. `RunStart` (reading `sLast`), `RunCall`,
`RunEnd` and `RunRecycle` are the steps of `run_scheduled_functions()`; between
them any number of functions may be scheduled, which also covers functions
that schedule from inside their own call. `order`, `spare` and `fresh` record
what the lists should hold; no guard reads them. The refinement mapping reads
the queue of functions off `order`, and the function being called off `pc`.

### RecurrentFn

`stack` holds one frame of `current`, `prev`, `stop` and `done` per activation
of `run_scheduled_recurrent_functions()`: a function of the list that yields
may enter it again, and the fence decides what happens then. `RunDue` and
`RunNotDue` leave open whether a function's period has passed, `RunKeep` and
`RunRemove` what it returns. `GrainStart`, `GrainNext` and `GrainStore` are the
unlocked walk of `compute_scheduled_recurrent_grain()`. A node is an address
that a later `new` may return again.

### ContTask

`posted` is `s_loop_queue` (capacity `LOOP_QUEUE_SIZE`), `armed` and `left` the
shared `delay_timer`, `now` is `millis()` modulo `Wrap`. `LoopTask` and
`DelayEnd` are SYS. `Yield`, `StartWait` and `StartSuspend` are the calls of a
sketch; `TryZero`, `TryExpired` and `TrySleep` are `esp_try_delay()`;
`DelayWakes`, `SuspendWakes` and `YieldReturns` are what follows
`cont_suspend()`. `SpuriousWake` is any other `esp_schedule()`, `Complete` the
callback that a condition waits for. `elapsed` measures the true waiting time.

### UartRx

Bytes are numbered as they arrive. `rb` is `rx_buffer`, `hw` the hardware FIFO,
`uiof` its pending overflow bit. `Receive` is the hardware, `UartIsr` the
interrupt. `available()` and the peekBuffer API are two and three steps, because
the interrupt is enabled between their parts. `Resize` is the loop of
`uart_resize_rx_buffer()` by its result; when the loop fills the new buffer, the
buffer counts as empty and what was in it is gone (`discarded`). A sketch reads
in one of two ways, chosen initially: `"read"` uses everything but the
peekBuffer API against a sender that never waits; `"peek"` adds the peekBuffer
API and has a sender that leaves room in the buffer.

### OtaFlash, Updater, Eboot, Ota

`OtaFlash` is what sketch and bootloader share: flash made of cells and
sectors, with NOR semantics (programming a cell that was not erased spoils it),
and the `eboot_command` in RTC memory. `Updater` is `UpdaterClass` for sketch
updates; an update that is under way is the record `upd`. Erasing, programming,
checking and writing the command are separate steps. `Eboot` is `main()`,
`copy_raw()` and `load_app_from_flash_raw()`, sector by sector. `Ota` composes
them with `ChipReset` (RTC memory survives) and `PowerCut` (it does not).
An MD5 is represented by the cells it was computed from, a signature by the
last cell of an image.

### ClientContext

`lw`, `arg` and `txq` are lwIP's side of a connection (state of the pcb,
whether it has callbacks into the context, unacknowledged bytes and whether
lwIP copied them); `pcb`, `rx`, `ends`, `off`, `sendWaiting`, `connectPending`,
`sync` and `refs` are the members of `ClientContext`. `rx` is the bytes of the
chain from `_rx_buf` on, `ends` the places where its pbufs end, `off` is
`_rx_buf_offset`. Each `Lw...` action is an event
of lwIP with the complete callback it causes. A user's call runs to its next
sleep in one step and is resumed by another: `ConnectEnd`, `SendResume` and
`SendTimeout`, `AckResume` and `AckTimeout`. `hist` counts bytes received, read,
credited and written.

### DnsLookup

`heap` holds the live `_dns_found_result` objects, `requests` what lwIP has in
progress. `LookupInProgress` allocates and asks, `LookupAnswered` and
`LookupTimeout` are the two ways out of `esp_delay()`, `DnsFound` is the
callback, which may come for a lookup abandoned long before.

### UdpSocket

`udpObj` is the field `_ctx` of each `WiFiUDP` object, `udpCtx` the contexts.
The chain `rx` is the sequence of pbufs from `_rx_buf` on; a pbuf is data of a
datagram, or the helper with a datagram's addresses. `UdpRecv` is `_recv()`,
`UdpAdvance` is `next()`, and `UdpProcessSize` adds up the lengths up to the next
helper (`SumTo` of `PrefixSums`, the running total that the PWM list shares). The
life of objects and contexts (`UdpCopy`,
`UdpAssign`, `UdpBegin`, `UdpStop`, `UdpStopAll`, `UdpDestroy`) follows
`WiFiUdp.cpp`; every allocation may fail. `stopAll()` walks the list of objects
in one step: each context loses one reference per object that points to it
(`UdpPointing`). `UdpWrite` is `append()` with
`_reserve()`.

### UmmHeap

`ummHeap` has the five arrays that the macros `UMM_NBLOCK`, `UMM_PBLOCK`,
`UMM_NFREE`, `UMM_PFREE` and `UMM_FREELIST_MASK` address, the data of each
block, and `stats.free_blocks`. Each function of the allocator is an operator on
a heap; `UmmWalk` is the walk along the free list that looks for the best fit.
What a caller writes is data too: an allocation is filled with values of its
owner (`UmmWritten`), and links that the allocator stores inside free blocks
destroy what was there (`UmmWiped`). `UmmMalloc` and `UmmFree` are one step. `umm_realloc()` is three or four:
`UmmReallocRead` before the lock, `UmmReallocEntry` up to the copy,
`UmmReallocCopy` with interrupts enabled, `UmmReallocExit`. Sizes are in bytes
and in 16-bit numbers of blocks as in the code.

### DhcpServer

The pool is the list of leases, in the order of the code. A step of a client is
a message, its whole handling by `handle_dhcp()`, and an answer that may get
lost. `DhcpClientUpdate` is `dhcps_client_update()`, which runs for every
message. `dhcpHeld` is what was acknowledged to each client and is in use.

Addresses are numbers of which `DhcpNet` make a net: the code counts in the order
of the host, so that after x.y.z.255 comes the next net, and compares in the
order of the network, where the last octet counts most (`DhcpBefore`). A client
may put any address of `DhcpClaims` into a message: one of the range, one of an
earlier range, the server's own. While the server is stopped, `softAPConfig()`
may give it another address (`DhcpSetLocal`), the sketch may set a range, or go
back to the default one (`DhcpSetLease`); `DhcpBegin` looks at the range again
(`init_dhcps_lease()`). Static leases may be added at any time. `dhcpStray`
remembers what brings the pool out of order since it was last emptied.

### MdnsResponder

Several boards run the code on one link. `mdns[h]` is `m_HostProbeInformation`
and the name; names are numbered, the sketch takes the next one when it is told
of a conflict. The four branches of `_updateProbeStatus()` are `MdnsStart`,
`MdnsProbe`, `MdnsDone` and `MdnsAnnounce`; `MdnsParseQuery` has the tiebreak and
the answers to probes, `MdnsParseResponse` the conflicts. Time passes in ticks,
and only when nothing is due: `update()` is called, and messages arrive, within
a tick.

### WaveformPwm

A call of the sketch is a sequence of the functions it goes through
(`wvfJob.todo`), each with the wait it may be in; the NMI may come between any
two of them. `WvfIsrRequests`, `WvfIsrPwm`, `WvfIsrExpire` and `WvfIsrEdge` are
what `timer1Interrupt()` may do. `WvfCleanEntry` is one turn of the loop of
`_cleanAndRemovePWM()`, which keeps an entry or adds its delay to the next one;
`WvfRebuilt` is the list that `_setPWMFreq()` builds from the old one. Cycles
are counted only in the PWM list (`delta`); when an edge is due is open.
`wvfAsked` records what the sketch asked for.

### Ticker

`tkr` holds the members of a `Ticker`, `tkrOs` the os_timer. `TkrPart`,
`TkrCall` and `TkrReturn` are `_static_callback()`, cut at the call of the
function, inside which `TkrAttach` and `TkrDetach` may happen. `TkrTotal` is the
result of the loop that doubles the number of short periods, in closed form.

### CoreClock

The true time is `clkHi`, `clkLo`. A tick is three steps, between which an
interrupt handler may read the clock. `micros64_high` and `millis` are the
readers, `millis` with the two words of its multiplier and its accumulator.

### Instances of several modules

`MCNames` (DnsLookup, MdnsResponder, DhcpServer), `MCBuffers` (UartRx,
UdpSocket, UmmHeap) and `MCTimers` (RecurrentFn, WaveformPwm, Ticker, CoreClock)
check components that share no state in one run each. The variable `part` says
which of them a behavior is about; the others stay in their initial states, in
which their fairness conditions ask for nothing.

## 3. The runs

Passing runs:

| Run | Bounds | Shows |
|---|---|---|
| `scheduled_fn` | 2 functions, 3 nodes | `ListsOK`: both lists stay well formed and together hold every node. `BoundedRun`: a run that found functions queued calls no function scheduled since. `EveryFnRuns`: every function gets its call. `ImplementsQueue`: ScheduledFn implements FnQueue. |
| `cont_task` | clock of 6 values, timeouts to 3, one event, grains 0 and 2 | `NoLostWakeup`: a suspended CONT has an event or an armed timer to wake it. `TimerHasOwner`: the timer is armed only for a delay that waits. `DelayNotEarly`, and `WaitsEnd`: a delay returns, and a wait once its condition is false. |
| `ota_reset` | 5 sectors of 2 cells, images of 3 and 6 cells, MD5, 1 reset | `SketchIntact`: the running sketch is never overwritten, and an undamaged image is not refused. `StagedWhole`: a valid command points to a whole image. `BootsWhole`, `StagedBoots`: a whole sketch is started, and in the end the staged one. |
| `ota_faults` | 4 sectors, signed images of 3 and 4 cells (the last one the signature), chunks to 2 cells, failing flash, damaged data, 1 reset or power cut | `StagedWhole`: only an image that is whole and correctly signed is ever staged, whatever fails. |
| `client` | send buffer and window of 2, 3 bytes each way, 2 references | `RxInOrder`: bytes are read in order, none is missing, and `_consume()` credits each to the peer once (when the context is given up, `discard_received()` credits a part of the first pbuf again). `NoDangling`: no pointer to a freed pcb or context. `WaitsForCause`: a call sleeps only while there is something to wait for, and leaves no flag behind at which the code's asserts would fail. `CallReturns`. |
| `names`: DNS | 3 objects, 2 names, 2 requests in progress | `Ownership`: the result object is freed once and by its owner. `OwnAnswer`: an answer goes to its question. `MemoryReturns`: every object is freed in the end. |
| `names`: DHCP | 3 clients, nets of 8 addresses, a server at 1 or 6 of its net, four ranges to ask for, default ranges of 2, three addresses to claim, two clients with static leases | `DhcpNoConflict`: a client has one node and an acknowledged address keeps it; while `DhcpOrderly` holds, the addresses in the pool are unique, sorted, in the range and not the server's. `DhcpServes`: an address is offered unless all are taken; while `DhcpOrderly` holds, the offer stands. |
| `names`: mDNS | 2 boards, 5 names, 3 probes 2 ticks apart, 2 announcements, 1 restart | `MdnsUnique`: two boards never both hold a name. `MdnsSettles`: in the end every board has one. |
| `buffers`: UART | FIFO of 3, buffers of 1, 3 and 4, 6 bytes | `InOrder`: bytes come out in order, none twice, none is missing before an overrun or a resize that discards, and overruns are reported. `AvailableHolds`, `PeekPromise`: what `available()` and `peekAvailable()` promise can be read. |
| `buffers`: UDP | 2 objects, 2 contexts, 3 datagrams of one or two pbufs, depth 1, units of 1 byte | `UdpFramed`: datagrams stay apart, in order, with their addresses; the chain is bounded; bytes are refused only for lack of memory. `UdpHolders`: an object never has a deleted context. |
| `buffers`: heap | 6 blocks, 2 pointers of the sketch, 1 of an interrupt handler, sizes of 1, 2, 3 and 65538 blocks | `UmmIntegrity`: block list, free list and the count agree with the allocations, and free neighbours are merged. `UmmPromise`: data is kept, NULL only if no gap is large enough. |
| `timers`: recurrent functions | 3 nodes, intervals 0, 1500 and 2000 us, nesting 2 | `ListOK`: the list is the functions scheduled and not yet finished, in order, and no activation holds a deleted node. `EachOnce`: a run looks at each function once and in order. `GrainSound`: the cached grain fits the list. `RunEnds`. |
| `timers`: waveforms | 3 pins, a list of 2, a tone, 3 duties, periods of 6 and 8 cycles, words of 20 | `WvfAsRequested`: after a call every pin does what was last asked of it. `WvfPwmList`: the deltas add up to the period and each pin drops inside it, at the edge of its duty if that is computed without a wrap. `WvfReturns`: each call returns. |
| `timers`: Ticker | 2 functions, times 1 to 9, longest timer 2 | `TkrAsAsked`: only the function asked for last is called, and in time. |
| `timers`: clock | words of 16, steps to 5, 6 overflows, division by 3 | `ClkExact`: `micros64()` and `millis()` are right. |

Why these bounds reach the interesting cases:

* three nodes make a queue with a first, a middle and a last one, a full pool,
  and a node that is recycled and queued again while the run that used it lasts;
* 1500 and 2000 us have a divisor smaller than both (500, rounded to 1 ms), and
  0 is the interval that never contributes; nesting 2 is what the fence allows
  plus one;
* with six clock values and timeouts to three, every delay meets the wrap at
  every offset; the one-place queue is the code's own size;
* six bytes wrap the rings of three and four, a buffer of one holds nothing,
  and FIFO and buffer overflow separately and together;
* the image of 3 cells ends inside a sector, the one of 6 cells overlaps the
  place it is copied to when it is installed over the first, and the first does
  not when it is installed over the second;
* a window and a send buffer of two make a byte wait for room and let a read end
  inside, at the end of, and across pbufs;
* three objects and two names let a lookup begin while two abandoned ones are
  unanswered, and let the heap hand out the address of a freed object again;
* three clients compete for two addresses, so the pool is full, has gaps, and
  refuses; of the ranges one ends its net and fits only one address of the
  server, one is empty, one too long, one in another net; each claimed address is
  in one range and outside another, or the server's;
* five names are enough for two boards that lose in turn, and a restart can fall
  on every point of the other board's probing;
* datagrams of two pbufs, one of them empty, and a chain of two pbufs make
  `next()` step over data, and the chain refuse a datagram;
* six blocks hold three allocations with a gap before, between or behind them,
  which covers the four cases of `umm_realloc()`; 524297 bytes are the size whose
  number of blocks is 2 in 16 bits;
* the third PWM finds the list of two full; 2/4 on two pins gives two edges at
  the same cycle; periods of 6 and 8 make the same duty fall on other cycles, and
  the product of 3/4 with a period of 7 or 8 wraps a word of 20;
* the times 3, 5 and 9 are halved once or more, with and without a remainder;
* steps of 5 in words of 16 overflow at every offset from the last tick, and 5, 6
  approximate 16 * 16 / 3 as the code's multiplier does 2^64 / 1000.

Deadlock is checked in the runs whose system never stops. `Ota` stops at a torn
sketch, `ClientContext` when the context is deleted, `UartRx`, `MdnsResponder`
and `CoreClock` at the bounds of their instances; their runs do not ask for it.

Four runs end in a counterexample, because the code does something else than a
comment or document says:

| Run | What the counterexample shows |
|---|---|
| `uart_rx_resize` | `uart_resize_rx_buffer()` counts the hardware FIFO but reads the buffer only. With a byte in the FIFO, `uart_read_char_unsafe()` returns the -1 that the comment at `uart.cpp:388` rules out, the new buffer is filled with it and then declared empty. |
| `ota_end` | `end(true)` ignores that its last `_writeBuffer()` failed. The failure has reset the update to address 0, where the running sketch passes the check of the magic byte: `end()` returns true with an error set. |
| `client_sync` | A synchronous `write()` returns when its wait for the acknowledgement times out, while lwIP still refers to the user's buffer. |
| `mdns_rename` | `setHostname()` on a board that has announced its name does not reset the counter that announcements and probes share: no probe is sent for the new name, and two boards hold it. The comment at `LEAmDNS.cpp:174` says that it restarts probing. |

### Conditions in the properties

Some properties carry a condition without which they do not hold of the code.
The condition is the finding:

* `BoundedRun` is about runs that found the queue non-empty.
  When an interrupt schedules between lines 171 and 173 of `Schedule.cpp`, the
  run has `stop = nullptr` and calls whatever is scheduled meanwhile.
* `GrainSound` excludes a grain during whose computation an interrupt scheduled
  a recurrent function; that value is stored without the new function.
* `PeekPromise` needs a sender that leaves room: an overrun between
  `peekAvailable()` and `peekBuffer()` moves `rpos`.
* `BootsWhole`, `StagedBoots` and `StagedWhole` distinguish images that overlap
  their destination: a reset during such a copy repeats it from a source that
  has been overwritten. A power cut during any copy loses the command and
  starts a half-copied sketch, so `ota_faults`, which has power cuts at every
  other step, does not claim `BootsWhole`.
* The second half of `SketchIntact` (a good image is accepted) is claimed for
  MD5: the signature is computed over the
  flash, in which the mode byte of an image for another flash mode is patched,
  and refuses such an image.
* `Updater` begins an update only when no command is staged. `begin()` does not
  ask for that, and an update that follows without a restart overwrites what
  the command points to.
* `InOrder` says that no byte is missing only until an overrun drops one or a
  resize discards some. A resize discards all that waits in the buffer when it
  fills the new one: with as many bytes as the new size or more, or, with a byte
  in the FIFO, always. `rx_overrun` is not set then, so `hasOverrun()` reports
  the losses of an overrun and not those of a resize.
* `DhcpNoConflict` claims always that a client has one node and that an
  acknowledged address keeps it. That no address is given twice, that all are of
  the range and none is the server's, and the second half of `DhcpServes`, are
  claimed while `DhcpOrderly` holds, that is, as long as none of these has
  happened since the pool was last emptied:
  - a claim of an address outside the range was accepted.
    `dhcps_client_update()` refuses one only to a client without a node, and only
    if it lies above the range (lines 1341-1358); a client with a node gets any,
    also the server's own. The search for a free address (1233-1242) stops at
    the first node that is not the next address, so that behind a node below the
    range it gives out the start address again and again. Clients that renew after
    `softAPConfig()` has moved the range do this without any fault of theirs;
  - a static lease was added while the pool has a gap: `add_dhcps_lease()` takes
    the start address plus the number of nodes, which a client may have when
    others have left;
  - the range changed under nodes (static leases that were added to a stopped
    server).

  And the range must not end at the last octet 255: in a full pool the search
  goes on to octet 0 of the next net, which in the order of the network lies
  below the end (1241, 1261). Without any one of these conditions TLC finds one
  address given twice or an address outside the range.
* `WvfPwmList` says that a pin drops at the edge of its duty if the product of
  period and `val` is below 2^32. `_addPWMtoList()` and `_setPWM()` compute
  `(_pwmPeriod * val) / range` in `uint32_t` (lines 277, 327). At 1 kHz and 80 MHz
  the product wraps for `val` above 53687, which `analogWriteRange()` allows (up
  to 65535): the pin then drops too early, or is written LOW. For this reason
  `WvfAsRequested` takes a duty without a computed edge as the level it is set to.
* `MdnsUnique` needs renames before the first announcement (`MdnsLateRename`;
  with TRUE it is the run `mdns_rename`).
* `WvfReturns` needs waveforms that do not end while a change of them is pending:
  such an end leaves `waveformToChange` set, and the next `startWaveform()` on a
  running pin waits for ever (`WvfShortRuns = TRUE`).
* `WvfAsRequested` needs frequency changes to come while no stopped pin has an
  entry in the list: `_setPWMFreq()` rebuilds the list from all entries and
  drives such a pin again (`WvfFreqAfterStop = TRUE`).
* `TkrAsAsked` excludes a ticker that is attached for a long time and again,
  undetached, for a short one: `_tick` stays and the short time is multiplied
  (`TkrReattach = TRUE`).
* `ClkExact` leaves out the moment between the two assignments of a tick, at
  which an interrupt handler reads a time that is one word ahead.
* `UdpHolders` asks for enough references, not for the exact number: assignment
  of a `WiFiUDP` keeps the reference to the context it replaces.

## 4. Fairness

* `ScheduledFn`, `RecurrentFn`: weak fairness of the run. `loop_wrapper()` calls
  `run_scheduled_functions()` after every `loop()`; the assumption is that
  `loop()` and the functions return. Nothing is assumed about who schedules.
* `ContTask`: weak fairness of the SDK's dispatching (`LoopTask`, `DelayEnd`),
  of time and of `esp_try_delay()`; strong fairness of the steps that follow a
  wake-up, because the recurrent functions may suspend CONT in between, any
  finite number of times. Nothing is assumed of the sketch, of interrupts or of
  the callback that a condition waits for.
* `Ota`: weak fairness of the bootloader, which runs by itself. The number of
  resets is bounded.
* `ClientContext`: weak fairness of the resumed call and of its time limits. The
  peer and lwIP may stay silent for ever.
* `DnsLookup`: the caller's time limit, and an answer of lwIP, positive or not,
  for every request: lwIP retries a few times and then reports failure.
* `MdnsResponder`: `update()` is called in every `loop()`, scheduled functions
  run, messages arrive and time passes. Changes of an interface are bounded.
* `WaveformPwm`: the sketch runs on, and the timer fires while it runs, so that
  requests are taken, PWM periods begin and a running waveform has edges.

## 5. Proofs

The theorems hold for every value of the constants that satisfies the named
assumptions of the modules, which TLC evaluates in every run:

* pools, buffers, tables, depths and windows hold at least one thing
  (`ScheduledFn`, `RecurrentFn`, `ContTask`, `UartRx`, `ClientContext`,
  `DnsLookup`, `UdpSocket`);
* values that stand for "none" are none of the real ones (`NoFn`, the cells of
  `OtaFlash` that belong to no image, the contexts of `UdpSocket`, the callback
  `monostate` of `Ticker`);
* timeouts are shorter than the wrap of `millis()` (`ContTask`), steps of time
  shorter than a word (`CoreClock`), times and the longest os_timer positive
  (`Ticker`), the trigger level lies within the FIFO (`UartRx`);
* the flash is a whole number of sectors, an image has at least two cells and
  fits, and the Updater's buffer divides a sector (`OtaFlash`, `Updater`);
* the server's address is far enough from the end of the net for the range that
  `dhcps_start()` computes below it (`DhcpServer`);
* there are finitely many `WiFiUDP` objects (`UdpSocket`);
* the heap has fewer blocks than fit in the 15 bits of a block number, and the
  pointers of the sketch are not those of the interrupt handler (`UmmHeap`);
* a PWM period is longer than what the adjustments of a full list can take from
  it (`WaveformPwm`).

A theorem that needs more says so in its statement. Each such hypothesis is a
condition of section 3: `~TkrReattach`, `~WvfShortRuns` and
`~WvfFreqAfterStop`, `MdnsCode` (at least
three probes, and `~MdnsLateRename`), `ClkReal` (the numbers of the code), and
those of the OTA theorems below. The passing runs check the properties under the
same conditions, so that the hypotheses are satisfied there.

Where a fact about every number or every sequence would be proved by induction,
the proofs use the least counterexample instead: `NatLemmas` states that a
non-empty set of naturals has a least element, and a bounded one a greatest.

**ScheduledFnProofs**: `TypeCorrect`, `ListsCorrect`, `BoundedRunCorrect`,
`QueueRefined`.
`ListsOK` is nearly inductive: what is linked from `sFirst` is `order`, what is
linked from `sUnused` is `spare`, and the two sequences are disjoint and
without repetition. `BoundedRun` is not: it needs to know where `stop` is.
`RunInv` adds that while the run goes on the node `stop` is still queued, that
neither it nor a node in front of it was queued since the run began, and that
during a call `done` is set exactly when the node being called is `stop`. The
proof has a lemma for each way of scheduling (`ReusedStep`, `AllocatedStep`,
sharing `LinkStep`), one for `RunRecycle`, and lemmas on `Append`, `Tail` and
prepending. `QueueRefined` shows, from the same invariant, that the initial
state maps to the empty FIFO and each step of the lists to a step of `FnQueue`
or to none; the liveness of `FnQueue` is left to TLC.

**CoreProofs**: `TypeCorrect`, `WakeupCorrect`, `TimerCorrect`,
`DelayCorrect`, `HeapSound`, `HeapPromise`.
*CONT task:* `CallInv` ties the three places of CONT to the call in progress
and states that `Sub(now, start)`, the code's unsigned subtraction, equals the
time that really passed as long as that is less than one wrap. From it
`DelayNotEarly` follows for any clock width; it also states that the
timer is armed only after a delay has suspended, and `NoLostWakeup` and
`TimerHasOwner` are inductive together with it.
*Heap:* the code's two lists are two orders on one set H of headers, of which the
invariant `UmmInv` says that it exists. `Headers`: the block list runs through H
in the order of the addresses, with back links, from block 0 to the last.
`Masked`: no two neighbours are free. `FreeRing`: the free list is a ring through
block 0 and the free headers, and no smaller set is closed under its links; that
is how "every free block is reached" is said without counting steps.
`FreeCounted`: the statistics are the blocks that no allocation covers. `Owned`:
each block in use belongs to one pointer, or to the `umm_realloc()` under way,
and is exactly as long as its size asks for. Between its two critical sections
`umm_realloc()` has already made the blocks one or has a second one, while an
interrupt handler allocates and frees: `JobOK` says what its local variables,
read before, still mean then, and `Kept` where the data is. Each function of the
allocator has a lemma about the lists it changes (a split, a merge, a block
linked or unlinked); the four cases of `umm_realloc()` are put together from
these. `HeapPromise` adds that the search finds the best fit whenever there is
one: the walk of the free list is a recursive function, and the gaps
it did not see would be a proper subset of the ring, which there is not.

**OtaProofs**: `OtaInvariant`, `SketchStaysWhole`, `StagedStaysWhole`,
`BootsWholeSketch`, `GoodImagesAccepted`.
`OtaInv` is the geometry of an update and of a copy: while an update is under way
its sectors are reserved behind the running sketch and the write position, the
RAM buffer and the rest of the chunk add up to what was sent (`UpdInv`); a
command exists only between `end()` and the last step of the bootloader, and
its image lies in the flash (`CommandInv`); `copy_raw()` is at the same offset of
source and destination (`CopyInv`). That alone keeps the executing sketch whole,
whatever fails and wherever a reset or a power cut falls (`SketchStaysWhole`, no
hypothesis). For `StagedStaysWhole`, `DataInv` says that the flash holds
exactly what the MD5 was computed of and that the rest of a sector that was
begun is erased, `StagedInv` that a command that was checked points to its
image. The hypothesis is that writes succeed or the signature is checked, which
`end()` computes from the flash: without both, the finding `ota_end`.
`BootsWholeSketch` adds that the bootloader's reads and writes succeed and
power fails only while a sketch runs; `BootInv` says that below the copy cursor
the new sketch is in place and above it the source is still whole, and what
that means when the two overlap. `GoodImagesAccepted` is the other half of
`SketchIntact`: without signatures, on a flash that works and with data that is
not damaged on the way, the MD5, the buffer and the rest of the chunk are
together the cells of the image that were sent (`ArrivedInv`).

**ClientContextProofs**: `ConnInvariant`, `NoDanglingPointers`,
`WaitsHaveCause`, `ReadsInOrder`.
`Paired` says that context and pcb point to each other or not at all and that
a pcb that is pointed to is not freed or closing; `FlagsOwned` that a waiting
flag is set only by the call that sleeps, and why it sleeps. Both are preserved
by every callback of lwIP at every point of every call. `ReadsInOrder` needs in
addition that the chain holds the last bytes that arrived, without a gap, that
the offset lies inside its first pbuf (`ChainOK`), and that what arrived and was
not read is what the chain holds (`Counted`).

**NamesProofs**: `OwnershipCorrect`, `AnswerCorrect`, `MdnsUniqueCorrect`,
`DhcpConflictFree`, `DhcpServesCorrect`.
*DNS:* `RequestsOK` states that no two requests share an object and that `done` is
false exactly for the request of the waiting caller; `CallerOK` that the
caller's object lives and, until it is done, has a request. Together they give
each object one owner.
*mDNS:* a board that holds a name answers a probe for it, and of two that probe
the higher wins; what has to be shown is that the message is in time.
`MdnsObjection` says that for a board that has sent its last probe for a name
another board holds, the probe or the objection to it is still under way;
`MdnsTie` that of two boards that probe for one name the higher has a probe
under way, or the lower began after the higher's last probe and has sent at
most two, the second only just now. This is where the proof needs three probes.
*DHCP:* `NodesOK` says that the pool has a client once, `HeldInv` that a client
that uses an address has its node, `LeaseInv` that the range lies in one net and
does not contain the server, and `OrderInv` that while `DhcpOrderly` holds the
pool is sorted and within the range; the first three need no condition. The
insertion into a list, sorted or not, and the search for the first gap are
lemmas of their own; the latter gives `DhcpServes`, whatever is in the pool.
`NetOrder` is where the order of the network and that of the host agree.

**TimersProofs**: `ListCorrect`, `EachOnceCorrect`, `GrainCorrect`,
`TickerCorrect`, `MillisExact`, `ClockCorrect`, `WaveformsAsRequested`,
`PwmListSound`.
*Recurrent functions:* `Linked` says that the linked list is the sequence of
functions that are scheduled; `RunInv` that the fence lets one activation in at
a time, and which places of the sequence its `current`, `prev` and `stop` are.
Interrupts append behind `stop`, and only that activation removes a node.
`SumInv` says that the accumulator of an unlocked walk is the greatest common
divisor of the functions passed so far. That the divisor which all others divide
exists at all is shown with the greatest common divisor and the least common
multiple, and that it may be taken of one number after the other follows.
*Ticker:* `TkrInv` says for each of the states idle, armed and calling what
was asked for last, how many short periods are left and how they add up.
`TkrTotal` is the least power of two that makes the period short enough.
*Clock:* `ClkInv` says that at rest the counter is the number of overflows at
the time of the last tick, which is less than a word ago, and that during a tick
the time it has read lies between that and now; this gives `micros64()` for
every word size. `MillisExact` is about the constants of the code (`ClkReal`):
1000 times the multiplier is 2^64 + 384, so that what the truncations and the
384 make wrong stays below one part of 2^64 up to 2^22 overflows, the bound that
the comment on `millis()` gives. It reduces to one linear fact about three
divisions with remainders (`MagicQuotient`). TLC checks the same operators with
small words.
*Waveforms:* `WvfInv` says for each function a call may be in, and each wait, how
far the pin of the call is from what was asked (`WvfPhase`), and that all other
pins do what was asked of them (`WvfOthers`). Both need that requests exist only
while the sketch waits for them (`WvfRequests`), that no pin belongs to both
generators (`WvfOneGenerator`) and that the timer runs while there is something
to generate. `WvfLists` is about the list of the NMI and the one in the mailbox:
the delays add up to the period and the place of a pin is the edge computed for its
duty; `EdgeDrops` says when that is the edge of the duty.
While the mailbox is full the new list has to be right and the old one only
has to be a list, because the duty of the pin in question is already the new
one. The insertion and the loop that removes an entry are lemmas on sums over
prefixes; the loop is followed one turn at a time by the least turn that would
break its invariant.

**BuffersProofs**: `UartInvariant`, `DeliversInOrder`, `PeekKeepsPromise`,
`AvailableIsThere`, `HoldersCounted`, `DatagramsFramed`.
*UART:* the ring, from `rpos` on, and the FIFO behind it are seen as one sequence
(`View`). `StreamOK` says that it is increasing, begins after the last byte the
sketch got, and ends with the last that arrived unless bytes were lost, and that
it has no gap until a byte was dropped or discarded. Each operation shifts, extends or
cuts that sequence. The loop that empties the FIFO into the ring is a recursive
function in the model; `CopyOK` is its loop invariant, and `CopyStep` the step
that the least counterexample contradicts. `Peeking` and `Counting` say what is
true between the parts of the peekBuffer API and of `available()`.
*UDP:* `Counted` says that a context has at least as many references as objects
point to it and that one without references is as it was constructed; `Held`
says so of all contexts. From this an object's context is not deleted. The proof
follows every path that copies or drops a pointer, among them `stopAll()`, where
the counts of finite sets do the work. For `DatagramsFramed`, `FrameInv` adds
`Chain`: a datagram's helper stands directly in front of its data, what follows
belongs to the same datagram, numbers rise from helper to helper, and the chain
does not end with a helper. The size that `parsePacket()` reports is then the sum
of the lengths up to the next helper, and stays so while datagrams are appended
behind it. The bound on the helpers comes from the test of the depth in `_recv()`,
which is made before the datagram is linked.

No invariant of a passing run is model-checked only. What is:

* every liveness property (`RunEnds`, `EveryFnRuns`, `WaitsEnd`, `StagedBoots`,
  `CallReturns`, `MemoryReturns`, `MdnsSettles`, `WvfReturns`), and the fairness
  in `ImplementsQueue`: liveness is beyond the prover;
* the four runs that end in a counterexample.


## 6. What the models leave out

* Interrupt locking is taken to work: the nesting limit of the lock stack in
  `core_esp8266_main.cpp` and the saved level of `InterruptLock` are not modelled.
* `run_scheduled_functions()` called from a scheduled function; `delay()` called
  from SYS, which the documentation forbids; the grain computed from inside a
  recurrent function.
* When a recurrent function is due: `PolledTimeout` arithmetic is a free choice.
* UART transmission, set-up of pins and baud rate, the receive error flag, the
  life cycle of a `uart_t`, UART1 and the variant for GDB.
* Updates of the file system (`U_FS`), compressed images, the progress
  callbacks and the LED; `writeStream()` into a buffer larger than two cells
  that already holds bytes.
* `stopAll()`, keep-alive and no-delay, the peekBuffer API of `ClientContext`,
  writing from a stream, and which `WiFiClient` object holds which reference. No
  other call of the user runs while one sleeps.
* What `flush()` reports: `wait_until_acked()` returns true also when the
  connection broke and unacknowledged data was dropped.
* UDP: `sendTimeout()`, `seek()`, multicast options, the receive callback.
* Heap: poison, the IRAM heap, the other build variants of `umm_realloc()`.
* DHCP: lease timers (nothing calls `dhcps_coarse_tmr()`), options, layout. The
  address of the server changes only while it is stopped, as in
  `softAPConfig()`, and has a net of 256 addresses. What a client goes on using
  after the server was stopped, or without an answer, is not in `dhcpHeld`; it
  may claim it later. A client renews the address it has, not a third one.
* mDNS: services, TXT items, service queries and their caches, legacy queries,
  encoding of messages. Links do not lose messages for longer than a tick.
* Waveforms: the time of an edge and its correction, `digitalWrite()` in an
  interrupt handler while the sketch waits in `_notifyPWM()`, whose mailbox it
  would overwrite, pins out of range, and an `analogWrite()` without room in the
  list whose waveform would be high for less than a cycle, which is refused.
* `flush()` of `ClientContext` restarts its time limit when the send buffer
  changes; the model has a limit that may pass at any time.
* Ticker: several tickers (they share nothing), a late os_timer, times of 0.
* lwIP, the SDK, the SPI flash and the UART hardware are external: they are
  modelled by how the code uses them.

## 7. Plan

Modelled so far: scheduling, the CONT task, the UART, updates, the TCP client,
DNS, UDP, the heap, the DHCP server, mDNS host names, waveforms and PWM, Ticker,
the clock.

Every safety property of the passing runs is proved. What the proofs leave to TLC
is liveness, listed in section 5.

Modules to add: services in MdnsResponder, EEPROM and the Updater for U_FS, I2S
with its interrupt queue, WiFiServer with ClientContext, the nesting of
`ets_intr_lock()`.
