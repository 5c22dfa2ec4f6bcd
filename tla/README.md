# A TLA+ verification project for ChampSim (CA-Final)

The repository holds two versions of ChampSim, a trace-driven simulator of an out-of-order
processor with caches, page tables and DRAM: `src/ChampSim进阶要求` (the current one, for the
advanced assignment; "advanced" below) and `src/ChampSim基础要求` (an older release, for the basic
assignment; "basic"). This project models both; they share almost no code. Modules are in this
directory; a path in this file is relative to the directory of its simulator.

ChampSim is a simulator: no user data is lost when it is wrong. What is lost is the meaning of its
results, or the run: an access that is answered twice, never or with the wrong dependents, a store
that disappears, a queue that stops, an `assert` or `abort()` hours into a simulation. The
correctness properties here are of that kind.

## 1. Inventory

### The advanced simulator

`main` builds the parts the configuration names and `do_phase` (`src/champsim.cc`) calls
`operate()` of each of them once per cycle of its clock, in an order that `std::sort` is free to
change between parts of equal `leap_operation`. There are no threads. What makes the program hard
is that every part keeps a pipeline of half-done work, sees its neighbours' work at different
points of a cycle, and follows references and positions that were right some cycles ago.

| part | source | state | operations |
|---|---|---|---|
| O3 CPU front end | `src/ooo_cpu.cc`, `inc/msl/lru_table.h` | IFETCH, DECODE and DISPATCH buffers, DIB, `fetch_resume_cycle` | read from the trace, predict, check the DIB, fetch, promote, decode |
| O3 CPU back end | `src/ooo_cpu.cc`, `inc/ooo_cpu.h` | ROB, LQ, SQ, `reg_producers` | dispatch, schedule, execute, complete, retire, the load/store queue |
| channel | `src/channel.cc` | RQ, WQ, PQ, `returned` of one upper level | add_rq / add_wq / add_pq, check_collision |
| cache | `src/cache.cc` | blocks, MSHR, inflight_writes, inflight_tag_check, internal_PQ | finish, fill, start and finish tag checks, prefetch_line |
| address translation in caches | `src/cache.cc` | translation_stash | issue_translation, detect_misses, finish_translation |
| page table walker | `src/ptw.cc` | MSHR, finished, completed, PSCLs | handle_read, step_translation, handle_fill, finish_packet |
| virtual memory | `src/vmem.cc` | page table, frames handed out | va_to_pa, get_pte_pa |
| DRAM controller | `src/dram_controller.cc` | RQ, WQ, banks, data bus, mode of each channel | initiate, check_collision, finish, change mode, schedule |
| replacement policies | `replacement/*`, `inc/red.h`, `inc/optgen.h`, `inc/*_predictor.h`, `inc/msl/fwcounter.h` | ages, counters, samplers per set | find_victim, update_replacement_state |
| branch predictors, BTB | `branch/*`, `btb/*` | tables | predict, update |
| prefetchers | `prefetcher/*` | tables | operate, fill, cycle |
| simulation loop | `src/champsim.cc`, `inc/operable.h` | phase, order of the parts, stalled cycles | do_phase |
| trace reader, printers, configuration scripts, tracer | `src/tracereader.cc`, `src/*_printer.cc`, `config/*`, `tracer/*` | files | input and output |

Interactions: a level appends requests to a queue of the channel below it; the lower level checks
collisions and takes them in its own cycle and appends answers to the `returned` queues named in
`to_return`; the upper level takes the answers in its next cycle. Caches, walkers and cores refuse a
request when a queue is full and the caller tries again in a later cycle. All walkers share one
`VirtualMemory`, which they call directly. Answers carry references to instructions
(`instr_depend_on_me`), and DRAM banks, stores and registers hold iterators or references into
queues of other stages.

### The basic simulator

`main` loops over the cores; a core that is not stalled by a page fault runs the stages of one cycle,
its caches included, and is then checked for the end of its warmup and of its simulation. Everything
is in arrays of fixed size that refer to each other by index.

| part | source | state | operations |
|---|---|---|---|
| core | `src/ooo_cpu.cc`, `inc/ooo_cpu.h` | ROB (a ring of slots), LQ, SQ, rings of indexes (STA, RTE0/1, RTS0/1, RTL0/1), two dependence lists per slot | handle_branch, fetch, schedule, execute, schedule_memory_instruction, operate_lsq, update_rob, retire_rob |
| caches and TLBs | `src/cache.cc`, `src/block.cc`, `inc/cache.h` | blocks, RQ, WQ, PQ, MSHR | handle_fill / writeback / read / prefetch, add_rq / wq / pq, return_data, invalidate_entry |
| DRAM controller | `src/dram_controller.cc` | RQ, WQ, bank_request, write_mode, bus | add_rq / wq, operate, schedule, process, reset_remain_requests |
| main loop and page tables | `src/main.cc` | page_table, inverse_table, stall_cycle, warmup and simulation flags | va_to_pa, finish_warmup, the loop |
| replacement policies, predictors, prefetchers | `replacement/*`, `branch/*`, `prefetcher/*` | tables | as above |

Interactions: direct calls of `add_*` downwards and `return_data` upwards within a cycle; each return
code says queued, merged, forwarded, or full, and not every caller looks at it. The core takes answers
out of the `PROCESSED` queues of its TLBs and L1s, which name one request and the set of slots it was
merged for. The STLB calls `va_to_pa`, which stalls the core and may drop blocks from the caches.

### Hard behaviours, and what makes each part correct

* **Advanced front end.** Answers follow references into IFETCH_BUFFER cycles after they were made.
  Correct: what is in flight is owed an answer; fetch stands still exactly while one mispredicted
  branch is unresolved; everything reaches the dispatch buffer.
* **Advanced back end.** Loads end in three places (the answer, the forward at dispatch, the forward
  when the store has executed), out of order, over LQ slots that are reused. Correct: every memory
  operation counts exactly once; a load sees the youngest older store; RAW dependences are kept;
  stores drain in order after they have retired; everything retires.
* **Channel and cache.** Loads of one block meet in RQ, in the MSHRs and with writes in WQ; answers
  from below come in any order, while operate() looks only at the front of its queues; a dirty victim
  may be refused below. Correct: each load is held in one place and answered once; each miss matches
  one request below; written blocks stay dirty; no circular wait.
* **Page table walker.** One answer serves every walk that reads its block, and the other answers
  meet nobody; a refused step is tried again although its PSCL is filled; other cores change the
  virtual memory meanwhile. Correct: no walk waits for nothing or goes up again; each is answered
  once; what was read stays true.
* **Virtual memory.** Data frames and page-table pages come out of one counter. Correct: no page is
  shared, no mapping changes.
* **Advanced DRAM.** Banks hold iterators to slots which merging, forwarding, mode changes and the
  warmup flush edit. Correct: banks and slots agree; each read is answered once; writes are not
  forgotten; the modes do not livelock.
* **Replacement.** Ages are raised while a victim is searched and lowered by hits; OPTgen keeps a ring
  of intervals whose ends wrap, and the tables of the sampler belong to no set: sampled sets age and evict
  each other's entries. Correct: lines leave in the order the policy promises; there is always
  a victim; a full table has an entry to forget; OPTgen counts the hits that Belady's policy would have.
* **Basic core.** Slots are released without a trace of who still knows their index; a load meets its
  store before, while or after the store is in SQ. Correct: each load is in one ring; counters match
  what is left to do; SQ is a ring in program order; everything retires.
* **Basic caches.** Merging changes the fill level, the type and the waiting loads of entries already
  on their way. Correct: each waiting level is remembered once and answered; writes are not forgotten.
* **Basic DRAM.** A change of mode takes scheduled requests back from banks in the middle of an
  activation. Correct: banks, queues and counters agree; row hits are real; everything is served.
* **Basic main loop.** Cores stall and finish at different times; a swap takes a frame away from pages
  that TLBs know. Correct: the two tables are inverse; translations are current as far as the code
  invalidates; all cores are measured alike; the simulation ends.

`PROJECT.json` ("hazards") lists these at their lines, with the properties that cover each one.

## 2. The modules

| module | models | abstract specification |
|---|---|---|
| `Dram`, `DramAddress` | advanced: one channel of the DRAM controller, and the address mapping | `MemPort` |
| `Channel` | advanced: the operators of one queue of `champsim::channel` | |
| `Cache` (EXTENDS `Channel`) | advanced: a cache of physical addresses with its upper channels | `LoadPort` |
| `Vmem` | advanced: the virtual memory | it is the abstract one for `Ptw` |
| `Ptw` (EXTENDS `Vmem`, instantiates `LoadPort`) | advanced: a walker, over the virtual memory it shares with other cores | `LoadPort`, `Vmem` |
| `Backend` | advanced: O3_CPU from the dispatch buffer to retirement | |
| `FrontEnd` | advanced: O3_CPU from the trace to the dispatch buffer | |
| `Predictors`, `OptGen`, `Replacement` (each EXTENDS the one before) | advanced: predictors of hawkeye and glider; OPTgen and the sampler on the sampled sets; the policies on one set | Belady's rule, as `OptgenIsOptimal` |
| `BasicCore` | basic: one O3_CPU | |
| `BasicCache` | basic: one CACHE, as L1D, L2C, STLB or LLC | |
| `BasicDram` | basic: one channel of the DRAM controller | `MemPort` |
| `BasicMain` | basic: the main loop, the page tables, the STLBs | |
| `MCDram`, `MCCache`, `MCBackend`, `MCFrontEnd`, `MCBasicCore`, `MCReplacement` | constants of the instances for TLC | |
| `Dram_proofs`, `Cache_proofs`, `Backend_proofs`, `FrontEnd_proofs`, `Replacement_proofs`, `BasicCache_proofs` | theorems about the module of their name, and the proofs | |
| `Ptw_proofs` | the same for `Ptw` and the virtual memory it extends, `Vmem` | |
| `Basic_proofs` | the same for `BasicMain`, `BasicDram` and `BasicCore`, whose names are kept apart so that one module can extend all three (`DramSpec`, `CoreSpec`) | |

The two DRAM controllers are different programs, and both implement the same `MemPort`: what they
owe the levels above is what they were asked and have not answered, each once.

**How the modules of the advanced part follow the code.** `operate()` is one C++ function that calls
the stages of a cycle in a fixed order. Each module has a variable `pc` that names the stage, one
action per item that a stage handles (a request merged, a bank put on the bus, an instruction
retired), and one `End...` action that leaves the stage when its loop does, with the bandwidth (`bw`)
the loop has left. The order of the stages, and what a later stage sees of an earlier one in the same
cycle, is thereby that of the code. Between two cycles (`pc = "idle"`, or the first stage of `Dram`)
the parts above and below run; since the order of the operables varies, their actions are free to
happen there any number of times.

**The basic part** is modelled one step coarser where that loses nothing: the stages of `BasicCore`
and `BasicCache` each handle entries whose `event_cycle` has come, and event cycles are sums of
latencies and of waiting for ports, so an action handles one slot and may come at any time. `BasicDram`
keeps the cycle (`stage`: mode, schedule, process, tick), since banks and bus compare times, and leaves
open only the order of `event_cycle` within a queue. `BasicMain` keeps the loop over the cores with
its checks, since their order is what its properties are about.

**Time.** `current_cycle` is not a variable. An `event_cycle` becomes `left`, the cycles until it
comes, counted down by `Tick`, which is `operable::_operate` (`inc/operable.h`). Where the code
compares event cycles that are past, their order is kept as a rank (`Dram!Aged`, `Dram!CountedDown`).
`numeric_limits<uint64_t>::max()` is `Never`. Clock ratios (`leap_operation`) are covered by the free
order of the other parts. `Replacement` keeps `current_cycle`, because lru and s4lru store it.

**Warmup** begins as the phase says and ends at any time between two cycles (`EndWarmup`,
`src/champsim.cc:45`; in the basic part when `finish_warmup` is called).

**Mutants.** A definition marked `(mutant)` is a wrong version of the one below it, a bug that could
be in the code. No specification uses them; PROJECT.json says which property each one violates.

Component by component:

* `Dram`: `RQ`, `WQ`, `bank_request`, `active_request`, `write_mode`, `dbus_cycle_available` are the
  members of `DRAM_CHANNEL`. Actions: AddRq / AddRqNoResponse / AddWq (`initiate_requests`), FlushRead
  (warmup), CheckWq / ForwardFromWq / MergeRq / KeepRq (`check_collision`), Finish, SwitchMode /
  KeepMode, PutOnBus / BusCongested, ScheduleRead / ScheduleWrite, Tick. `pending` (what the upper
  levels wait for) is the environment's.
* `Cache`: `RQ`, `WQ`, `PQ` of each upper level, `inflight_tag_check`, `internal_PQ`, `MSHR`,
  `inflight_writes`, `block`. Actions: CheckWq / CheckRq / CheckPq, FinishPacket, FillMshr /
  FillWrite, StartWq / StartRq / StartPq / StartInternal, TryHit, HandleWrite, MergeMiss, SendMiss,
  PrefetchLine, Tick. The replacement policy may choose any way and, where the configuration lets it,
  bypass; the prefetcher may call prefetch_line at any time. `waiting` and `unwritten` record what the
  levels above have asked for and written.
* `Vmem`: `va_to_pa` and `get_pte_pa` with `page_table`, `vpage_to_ppage_map`, `next_ppage` and
  `next_pte_page`. The guard of `va_to_pa` includes the assertion in `ppage_front()`, which aborts.
* `Ptw`: `MSHR`, `finished`, `completed`, `pscl`. FinishStep / FinishLastStep (`finish_packet`),
  Complete, Fill / FillRefused (`handle_fill`), Read / ReadRefused (`handle_read`, which steps through
  the PSCLs); OtherCore is a call of the virtual memory by another core.
* `Backend`: DISPATCH_BUFFER, ROB, LQ, SQ, reg_producers; Retire, Complete, Execute, Schedule,
  MemoryReturn, FinishStore, CompleteStore, ExecuteLoad, Dispatch, PlaceLoad / ForwardLoad /
  PlaceDependentLoad / PlaceStores. `written` is a history of the stores that left SQ.
* `FrontEnd`: IFETCH_BUFFER, DECODE_BUFFER, DISPATCH_BUFFER, DIB, `resume`; CompleteFetch /
  DanglingFetch (`handle_memory_return`), Decode, Promote, Fetch / FetchRefused, CheckDib, and
  InitPlain / InitTaken / InitMispredicted. The L1I may merge two packets of one block before it answers
  (L1IMerges, as `check_collision` of its channel does). `DanglingFetch` is the answer that follows a reference to
  an instruction which has left IFETCH_BUFFER: what it finds in that storage is undefined, and the
  action takes every outcome that leaves the program in a state of its own (nothing matches; the old
  instruction still matches; another one of that block that is there now is completed).
* `Predictors`, `OptGen`, `Replacement`: a step of the set is a hit (`update_replacement_state`), the
  fill of an invalid way, or a replacement (`find_victim`, then the update), by a load or a write. `rank` is
  what the policy keeps of a way. `seen` (when a block was last used), `later` (which of two ways was used
  after the other) and `class` (what a line was predicted to be, or whether it was used again) are
  histories. What other sets share with this one is open: the duel of drrip, the
  SHCT of ship, the filter of red. The cache of the basic part does not look for an invalid way itself:
  base does (`llc_replacement.cc`), and red takes the first way at MAX_RRPV, so that for red `Replace` also
  happens while a way is invalid, and `FillInvalid` never does.
  A sampled set (`Home`) trains the predictor of hawkeye and glider, and so do the other sampled sets (`Elsewhere`);
  the predictor's answer is open for a set that is not sampled. `OptGen` is the part of
  `update_replacement_state` for sampled sets: a timer and a ring of intervals per set, and the tables of
  the sampler, which all sets use. A block is looked up by its table and the hash of its page: it counts as this
  place (`Places`), and any set may use any place, so that the blocks of one set, or of several,
  meet under one tag. `trace` is the history of the sets and places used; `Uses`, `Reuses`, `Belady` read only it.
* `BasicCore`: HandleBranch (the trace, the branch predictor may be wrong on any branch), fetch
  (TranslateInstruction, FetchInstruction and their answers), ScheduleInstruction (`reg_dependency`),
  ExecuteInstruction, ScheduleMemoryInstruction (`do_memory_scheduling` with add_load_queue and
  add_store_queue), TranslateStore / ExecuteStore / TranslateLoad / ExecuteLoad (`operate_lsq`),
  DataTranslated / DataFetched (`complete_data_fetch`), CompleteExecution, RetireRob. ITLB, L1I, DTLB
  and L1D are sets of what was asked; an answer is for any subset, which are the requests merged.
* `BasicCache`: HandleFill, HandleWriteback, HandleRead, HandlePrefetch, ReturnData; AddRq, AddWq,
  AddPq, InvalidateEntry called from above. `kind` is the `cache_type`; the STLB answers its own misses
  (the emulated walk) and a core above the L1D is its load queue.
* `BasicDram`: AddRq, AddWq, ChangeMode (with `reset_remain_requests`), Schedule, Process, Tick. `charged` is a
  history: the row that a bank has really activated.
* `BasicMain`: NextCycle, Stalled / Run (with `OperateSTLB`, whose reads find a page, or take a minor or
  a major fault in `va_to_pa`), CheckWarmup, CheckSimulation. `taken` is a history of the pages that
  another core swapped out.

## 3. The runs

Passing runs check their properties in every reachable state of the instance; TLC finds no deadlock
except where stated. A property that is a conjunction names its parts in the module.

| run | configuration | states | shows |
|---|---|---|---|
| `dram` | MCDram.cfg | 508 thousand | `IInv`, the inductive invariant of the proofs: with types, `BanksMatchQueues` (a busy bank points at a live scheduled request of its own, every scheduled request has a bank of the current mode), `NoDuplicates` and `AnsweredExactlyOnce`; `WritesReachBank`: a write leaves its queue only through the bus (or the warmup flush); `ImplementsMemPort`; `ModesMakeProgress` (liveness): with write mode entered at the higher watermark, and left empty or below the lower one when reads wait, with a write still queued, accesses are finished whatever the modes throw out; `ReadsAnswered` (liveness) |
| `cache_safety` | MCCache.cfg | 1.2 million (with symmetry) | `PipelinesAgree`: merged queues hold each load once, what is answered or due is in front, each miss matches one request below (the abort in finish_packet is never reached), tag checks are bounded; `WrittenBlocksStayDirty`; `ImplementsLoadPort` |
| `cache_live` | MCCacheLive.cfg | 133 thousand | `LoadsAnswered` (liveness) with one MSHR and room for one request below |
| `ptw` | MCPtw.cfg | 902 thousand | `AnswersAreCurrent`: every walk that waits is asked for, and PSCLs and answers hold what the page table says, which a mapping that changed would make false; `PagesNeverShared` and `UsesVmem` with another core on the virtual memory; `ImplementsLoadPort`, `LoadsAnswered` (liveness) |
| `backend` | MCBackend.cfg | 484 thousand | `QueuesAgree`: memory operations are counted once (the assertions of LSQ_ENTRY::finish), dependents match their store (that of do_finish_store), stores leave in order; `LoadsSeeOlderStores`; `RegistersAreReady`; `EverythingRetires` (liveness) |
| `frontend` | MCFrontEnd.cfg | 174 thousand | `FetchesArePending`, `MispredictionStopsFetch`, `EverythingIsDispatched` (liveness) |
| `replacement` | MCReplacement.cfg | 155 thousand (with symmetry) | `LruKeepsTheMostRecent`, `ReusedLinesStay` (srrip, ship, red), `RripOrdersLines` (hawkeye, glider); `SamplerIsAnLruStack`: each table holds the last SAMPLER_HIST tags used in it, by whichever sets, and `lru` is their order; `OptgenIsOptimal`: OPTgen counts as many hits as the best choice of what to keep has. Accesses are bounded: no deadlock check |
| `s4lru` | MCReplacementS4lru.cfg | violation | the finding below |
| `basic_core` | MCBasicCore.cfg | 29 thousand | `RingsAgree`: a load is in one ring or waits for a store, the counters count what is left, SQ is a ring in program order; `LoadsGetTheYoungestStore`; `EverythingRetires` (liveness). Traces end: no deadlock check |
| `basic_cache` | MCBasicCache.cfg | 221 thousand | `WaitersAreServed`: each waiting level is remembered in one entry, each miss is asked for below; `WrittenBlocksStayDirty`; `EverythingIsAnswered` (liveness). Calls end: no deadlock check |
| `basic_dram` | MCBasicDram.cfg | 149 thousand | `BanksMatchQueues`, `RowHitsAreReal`, `ImplementsMemPort`, `EverythingIsServed` (liveness) |
| `basic_main` | MCBasicMain.cfg | 754 thousand | `TablesAgree`, `TranslationsAreCurrent`, `CoresAreMeasuredAlike`, `SimulationEnds` (liveness) |

### Finding

`S4lruFindsAVictim` (advanced, `replacement/s4lru/s4lru.cc:34`): the code asserts that there always is
a victim ("确保总能找到一个victim"), but the victim is a way of segment 0, a hit raises the segment of a
way and nothing lowers it except a fill of that way. After a hit of every way of a set the assert stops the
simulation.

### What the properties are restricted to, and why

These are places where the code does something else than its comments, tests or neighbours say, or
does not promise what one may expect. The models have the code's behaviour; each item says how the
properties or instances stand beside it.

* advanced `src/dram_controller.cc:100-101`, "Leave rows charged": a mode change closes exactly the
  rows that are charged already and keeps those that are not. `Dram` does the same; nothing is claimed
  about rows across a mode change. (The basic controller has the test the other way round, and
  `RowHitsAreReal` holds there.)
* advanced `src/cache.cc:57`: in an L1D (`match_offset_bits`), a load that merges into the MSHR of a store miss
  takes the type WRITE away from it, and the block is filled clean, against test 407-writeback-dirty.
  `WrittenBlocksStayDirty` is checked without `match_offset_bits`; with it and two addresses per block
  TLC finds the lost store.
* advanced `src/ptw.cc:57`: a walk that starts from a PSCL reads another word than test
  603-pte-page-correctness requires. `AnswersAreCurrent` is about what is read, not which word.
* advanced `src/ptw.cc:38`: a PSCL is tagged with more address bits than `get_pte_pa` tells apart.
* advanced `src/ooo_cpu.cc:249`: an instruction that hit the DIB is set back to INFLIGHT by the fetch of
  an older one of its block, against the comments at 213-219. `FetchesArePending` says it is answered again.
* advanced `src/cache.cc:302`, `:222`, `:370`: `inflight_writes` is not bounded; a write miss can give a
  second copy of a block; a fixed order of upper levels can starve one. `MaxInFlight` bounds the first in
  the model, and `LoadsAnswered` is about what happens when arrivals stop.
* advanced `src/vmem.cc:60`, `:87`: `ppage_front()` asserts a free frame also for a page that is mapped; a
  `pte_page_size` that does not divide PAGE_SIZE meets the end-of-page test late or never. `Vmem` has the
  assertion as a guard, and assumes that sizes divide.
* advanced `replacement/drrip/drrip.cc:101` ages the ways only up to the victim: `ReusedLinesStay`
  does not hold of drrip and is not claimed of it. `inc/msl/fwcounter.h:138`: `operator--` adds one.
* advanced `inc/optgen.h:46`: line 39 calls `is_cache` an efficient form of Belady's policy. A reuse exactly
  OPTGEN_SIZE accesses after the use before is not taken for wrapped by the callers (`hawkeye_algorithm.cc:124`
  tests `>`) and reaches `is_cache` with both ends of its interval equal: neither loop (lines 46 and 60) runs,
  no slot is looked at or taken, and it counts as a hit whatever the cache held meanwhile, which Belady's
  policy could not do. `OptGen` does the same. `OptgenIsOptimal` counts these reuses as the hits they are
  in the code, and compares all others with Belady's policy; without that term it is false.
* advanced `replacement/hawkeye/hawkeye_algorithm.cc:114-115`, `replacement/glider/glider.cc:171-173`: the sampler
  is looked up by a table, which `SAMPLER_SETS` (a macro without parentheses) makes (block % 2800) / 8, where the
  comment speaks of block modulo SAMPLER_SETS, and by a tag CRC(page) % 256. Entries of several sets and pages
  meet in both; an entry that another set left has that set's timer in `previousVal`, and OPTgen answers for an
  interval that never was. `OptGen` does the same. `OptgenIsOptimal` is about the sets whose places no other
  set has used and whose reuses do not lap the timer (`Undisturbed`), while the other sets age and evict their
  entries; blocks of one set under one tag count as one block. `SamplerIsAnLruStack` has no such restriction.
* `replacement/red/red.cc:31-40`: red throws out a valid line at MAX_RRPV (one that a write-back brought)
  while a way of the set is invalid. `ReusedLinesStay` holds all the same: a line that was used again is not
  at MAX_RRPV then.
* basic `src/cache.cc:1158`: an entry that merges a read of the L1I and one of the L1D keeps one
  instruction flag, and one of the two is never answered. `BlocksAssumption` keeps code and data blocks
  apart, in `MCBasicCache` and in the proofs; with a block in both, TLC finds the level that waits for ever.
* basic `src/cache.cc:355`: an RFO that merges into the MSHR of a load leaves the entry's type alone, and
  the store is forgotten. `WrittenBlocksStayDirty` is about write-backs (`kind # "L1D"`).
* basic `src/main.cc:330`: `recent_page` is never filled, so the victim of a swap is the first page of
  the map. `src/main.cc:368`: a swap invalidates the page in the TLBs of the faulting core only, with the
  core's bits in the key, which TLB entries do not have. `TranslationsAreCurrent` is therefore stated
  of core 0 and of pages that no other core took; without either restriction it fails.

### Bounds

The instances are small, and each constant is the least at which the cases meet that the properties
are about.

* `Dram`: blocks 0 and 2 are two rows of bank 0, block 1 is in bank 1: a row miss, a bank conflict, two
  banks that compete for the bus. Two read slots, so that the queue is empty, shared or full. Three write slots are the fewest with which
  write mode can be left early: it is entered with two writes queued, and left with one of them queued when
  reads wait, or empty. Both watermarks (`inc/dram_controller.h:96-97`) are then 2 (7/8 and 6/8 of 3, cut off). They
  differ from five slots on (4 and 3), where the instance has millions of states; so a queue between
  two different marks is covered by the safety proofs, which hold for any size, and not by a run. Latencies are 1 and the
  bus takes 2 cycles, so that a bank can become ready while the bus is busy. `WriteCredit` bounds the
  writes that the upper levels send between two answers: a stream of writes could keep a read waiting
  for ever, which the code does not exclude. Each answer renews the credit, and `ReadsAnswered` says
  what happens once no more of it is used. `Writes` bounds which blocks these are: the first
  write after an answer is of block 0 and the next one of block 1, while any block may be read. One
  upper level: the second one's part, to_return sets of two, is covered for any number by the proofs.
* `Cache`: all blocks in one set of one way, so every fill evicts. `cache_safety` has two upper levels,
  two MSHRs, two slots and a level below that takes two requests of each kind; `cache_live` has one
  MSHR and one request below, where everything waits for everything. `MaxInFlight` bounds the packets in
  the cache when another one arrives: two meet in every pair of places, and the third place of any
  meeting is the block's own. The loads are interchangeable, hence the symmetry.
* `Ptw` and `Vmem`: two cores, two levels of two entries, two entries to a block and two PTE pages to a
  frame, so that walks share blocks and PTE pages, and frames enough (`last_ppage`) that
  nothing meets the assertion in `ppage_front()`, which would end the program; one request queued, one
  PSCL entry, so that it is replaced; `MaxWalks` 2 requests in the walker, one with a load that waits and
  others without a response; a level below with room for two requests, which answers one or merges it into
  another one of its block. `OtherAddresses` are what the other core translates. More upper levels and
  larger PSCLs are left to the proofs.
* `Backend`: every sequence of three instructions out of four kinds that produce and consume one
  register and load and store two addresses, one of them with two loads and two stores, which fills
  LQ and SQ. `TraceLength` is 3: a producer, a consumer and a third one between or behind them; two
  stores and a load; more instructions than the scheduler's window. `L1D_SIZE` makes the L1D refuse.
* `FrontEnd`: windows 1 and 2 share a block, 3 has its own. A DIB of one way is hit and replaced.
  `TraceLength` is 4, the shortest trace in which a reference dangles: one instruction to fill the DIB,
  a miss and a hit in one packet, and a younger packet answered first, which uses up the bandwidth.
  FETCH_WIDTH is 2, so that an answer is taken in two cycles; `L1I_SIZE` makes the L1I refuse.
* `Replacement`: three ways and four blocks, so that a set overflows by one; two PCs, so that one can be
  trained against the other; `MaxCycle` 4 lets two uses fall into one cycle or not.
* `OptGen`: one table of three entries for four tags, so that entries are forgotten; `OPTGEN_SIZE` 4 and
  `TIMER_SIZE` 8, the least that `OptGenAssumption` allows for such a ring; OPTgen has a cache of two lines, so
  that intervals overlap without and with being too many (the code has `LLC_WAYS - 2`, which with three ways
  would be one line; nothing in `Replacement` relates the two). `Traffic` bounds a behaviour to the sampled accesses
  of one group of sets: the set of `Replacement` and another one, 4 accesses by two PCs that train the predictor; a
  set alone, 9 accesses, in which the timer and the ring wrap; two other sets, 5 accesses, which evict
  what the other one left, meet it, or stay apart.
* `BasicCore`: four traces of five instructions over a ROB of 4 (the ring wraps), a scheduler window of 3,
  LQ and SQ of 2 (both fill): stores that loads wait for, an instruction that reads and writes one word,
  chains through registers and a branch. `NotLapped` bounds the reading as long as the ITLB owes the
  oldest instruction its translation.
* `BasicCache`: two ways, queues and MSHRs of two, two data blocks and a code block; `MaxAsks` 5 calls
  from above are enough for a prefetch, a demand that meets it, a write and an invalidation of one block.
  `UPPER_MSHR_SIZE` keeps the assumption of `inc/cache.h:18-78` (`RoomAssumption`) that the levels above
  have no more misses than the RQ has entries.
* `BasicDram`: blocks 0 and 4 share a bank and a row, 8 has another row of that bank, 2 is in the other
  bank; three write slots (both watermarks are 2), so that write mode is left
  with one write queued when reads wait; `MaxAsks` 6 calls fill both queues.
* `BasicMain`: two cores with two pages each and two frames, so that every second page is taken from
  another one, of the same core or not; latencies of two cycles, so that a fill is due within a stall and
  behind it; RETIRE_WIDTH 2, so that a core overshoots the end of warmup and of simulation. `Limit` bounds
  what a core retires while it waits for the others.

### Fairness

Advanced part: `do_phase` calls operate() of every part again and again, so weak fairness of each
module's own steps (`Operate`) is what the loop does. The part below also operates in every cycle, but
its actions are enabled only between two cycles of the module, where the step that starts the next cycle
is enabled as well: for it to run at all, as it does, its actions need strong fairness (`LowerAnswers`,
`LowerTakesWrite`, `L1DAnswers`, `L1DTakesWrite`, `L1IAnswers`, and in `FrontEnd` the back end). That
a level below answers what it was asked is what `Dram`, `Cache` and `Ptw` show of themselves. Nothing is
assumed about arrivals: the code serves its upper levels in a fixed order and promises nothing
against a stream of them, so the answers are shown under the condition that arrivals stop
(`LoadsAnswered`), that no more writes come (`ReadsAnswered`), or for a trace that ends
(`EverythingRetires`, `EverythingIsDispatched`, which say that from some time on all buffers are
empty). In the program a phase ends before that; the properties say that no instruction could have
been left behind by what came before.

Basic part: `BasicCore` and `BasicCache` have weak fairness of `CoreNext` and `Next` alone: every stage runs in every
cycle and the levels around answer, and since no step undoes another and the traces and calls end,
it is enough that something is done while something can be. `BasicDram` has weak fairness of its own cycle
(`Operate`). `BasicMain` has weak fairness of the loop, and strong fairness of each core's retiring
something when it is called and not stalled, which is what `BasicCore!EverythingRetires` shows of it.

## 4. What is proved

A theorem holds for every value of the constants that the named assumptions of the module allow, where a
run checks one. The properties are those of the runs. None of them is inductive by itself; each item says
what has to be added, and why.

The proofs are laid out alike: lemmas about sequences and least elements; lemmas about the operators of
the model (what an append, a removal, a merge or the edit of one entry keeps); for each part of the
invariant a lemma per action that can disturb it; then the theorems. A part is proved from the parts
before it where it can be, so that an action is looked at once per part and not once per conjunct.

### `Dram_proofs`

For any number of upper levels, blocks, slots and banks, any mapping of blocks to banks
and rows and any latencies, under the assumptions named in `Dram` (sizes; banks in range; None is no
block and no row; latencies are natural numbers; `TrafficAssumption`, that only blocks are written):

* `TypeCorrect`: `Spec => []TypeOK`.
* `Invariance`: `Spec => []IInv`, and from it `BanksAndQueuesAgree` (`BanksMatchQueues`),
  `MergingIsSafe` (`NoDuplicates`) and `ReadsAnsweredOnce` (`AnsweredExactlyOnce`).
* `WritesLeaveThroughTheBus`: `Spec => WritesReachBank`.
* `DramImplementsMemPort`: `Spec => ImplementsMemPort`, under the mapping `Owed`.

That a bank points at a live request needs to know
that merging only empties requests which are not checked yet while scheduled ones are (`NoDuplicates`);
that a finished request is answered to the right levels needs that a scheduled slot is served by one bank;
that a slot starts clean needs `StageFacts`: a free slot carries nothing over, writes ask for no
response, scheduling sees checked queues only, and no bank is busy during the warmup, whose flush
does not look at the banks. `IInv` is their conjunction, and the invariant that run `dram` checks. The
proof has one step per action, in three parts (pointers, duplicates, answers), each of which has lemmas
on what an edit of one slot leaves alone. The refinement follows from `Owed = pending`, a consequence of
`IInv`: each step either changes both by a request or an answer, or neither.

### `Cache_proofs`

For any number of upper levels, loads, blocks, sets, ways and MSHRs, any bandwidths and latencies, and any
replacement policy, under `CacheAssumption` (sizes and widths are positive, so is HIT_LATENCY; None is
neither a block nor a load's entry):

* `Invariance`: `Spec => []IInv`, and `PipelinesAlwaysAgree` (`PipelinesAgree`).
* `WrittenBlocksAreAlwaysDirty` (`WrittenBlocksStayDirty`), for a cache without `match_offset_bits`. With it
  the property is false (section 3).
* `CacheImplementsLoadPort`: `Spec => ImplementsLoadPort`.

`PipelinesAgree` says that `operate()` may look only at the front of its queues, that every miss has
one request below, and that each load is held once. `IInv` has a part for each reason:

* `TypeInv`: what each queue and pipeline may hold. A write carries no loads, a prefetch of this cache has
  none, MSHRs hold a write only with `match_offset_bits`.
* `MergedInv`: checked requests stand in front and have a key each, so that a merge is into one of them
  and only requests that are not checked are removed.
* `TimeInv`: a pipeline is in order and nothing in it is further away than its latency. An MSHR that is
  answered is moved in front of those that are not.
* `LowerInv`: one MSHR for a block; the blocks of the outstanding ones are those asked for below and those
  returned, each once. So an answer always finds its MSHR, which is the `abort()` of `finish_packet`.
* `BoundInv`: tag checks, with the bandwidth that the stage has left, fit into the pipeline.
* `ServeInv`: a load that is in a queue or pipeline is waited for, by a level that the entry answers.
* `HeldInv`: of all the RQs, the PQs, the tag checks and the MSHRs, exactly one entry has a load that is
  waited for, and none has another one. The queues are laid out as the rows of one function, so that each
  action is an edit of one row, or moves a set of loads from one entry to another.
* `DirtyInv`: a block that is written and not yet below is in WQ, in a tag check or in
  `inflight_writes`, or in a dirty way.

`HeldInv` and `ServeInv` need each other: an answer clears the loads of one entry, which is right only if
these are waited for through it and nothing else has them. The refinement then compares the loads held
with those waited for, which `HeldInv` says are the same.

### `Ptw_proofs`

For any number of upper levels, loads, levels of the page table and entries of the PSCLs, and any other
core that uses the same virtual memory, under `PtwAssumption` (the sizes are positive; `0` is an
address, since the constructor asks for the PTE page of address 0; None is no load's entry) and the
assumptions of `Vmem`:

* About `VmemSpec` alone: `TypeCorrect`, `NoPageShared` (`PagesNeverShared`), `MappingsKept`
  (`MappingsAreKept`).
* `WalkerInvariance`: the inductive invariant `WalkerInv`; `AnswersStayCurrent` (`AnswersAreCurrent`).
* `WalkerImplementsVmem` (`UsesVmem`): the walker and its neighbours do to the virtual memory only what
  `VmemSpec` allows. `WalkerSharesNoPage` (`PagesNeverShared`) and `WalkerKeepsMappings`
  (`MappingsAreKept`) are the theorems about `VmemSpec` carried over by it.
  `MappingsAreKept`, that no page and no PTE ever moves, is in no run of its own: `AnswersAreCurrent` would
  fail if one did.
* `WalkerImplementsLoadPort`: `Spec => ImplementsLoadPort`.

The invariant of the virtual memory adds two facts. `Below`: every frame in use is below `next_ppage`.
`NextIsFree`: the PTE page that comes next is in a frame given to no data, behind every PTE page of
that frame. Together they make everything handed out new.

A walk moves through three queues, and what it holds is true only if what it held one queue
earlier was: `WalkerInv` says of each queue, as the set its walks are drawn from, what its stage has
established: a walk in MSHR reads a block that is asked for or returned, one in `finished` carries the
PTE page of its level, one in `completed` the frame of its page, a PSCL entry a PTE page that
`get_pte_pa` gave out. The page table only grows (`MapsGrow`), so these sets do too, whoever's step it is.
The first attempt at this proof showed `PsclFill` wrong: it cut a PSCL of more than one entry by
positions that are not in it. It is now written with `Newest`, as `lru_table::fill` works.

### `Backend_proofs`

For any trace of the instructions allowed, any registers and addresses, any sizes of dispatch buffer, ROB, LQ,
SQ and scheduler, and any widths and latencies, under `BackendAssumption` (the sizes and widths are positive,
latencies are natural numbers, and LQ and SQ have room for the operations of one instruction):

* `Invariance`: `Spec => []IInv`.
* `QueuesAlwaysAgree` (`QueuesAgree`), `LoadsAlwaysSeeOlderStores` (`LoadsSeeOlderStores`),
  `RegistersAreAlwaysReady` (`RegistersAreReady`).

An instruction is found by its number: `At(id)` is its entry in the ROB, which `OrderInv` makes possible,
since the ROB and the dispatch buffer hold consecutive instructions, the scheduled ones in front. The other
parts say what each structure knows of the others:

* `PlaceInv`: while the operations of an instruction are placed one after the other, the room that
  `dispatch_instruction` has looked for in SQ is still there.
* `StoreInv`: SQ is in program order, behind all that was written. Several stores of one instruction have
  the same number, so the order is not strict; that is why the youngest older store is a maximum.
* `MemInv`: an instruction's operations are completed, in LQ, in SQ, or not placed yet, and these add up. A
  slot of LQ, and a store that has not been executed, is of an instruction in the ROB, so
  `LSQ_ENTRY::finish` finds it; one that has completed has no operation left, so retiring it
  leaves no slot without its instruction.
* `DependInv`: the loads that wait for a store are known to it, and no load is known to two. Without the second
  half, a store that finishes could reset a slot that another store still refers to.
* `RegInv`: `reg_producers` is the set of instructions in flight that are scheduled, not completed and write
  the register; what an instruction counts as missing are the producers that have it among their
  dependents; and the last older writer of each of its registers has completed or is one of them. This
  is also what the assertions of `do_complete_execution` (ooo_cpu.cc:545 and :553) rest on: whoever completes
  is a producer, and who depends on it still counts it.
* `ReadyInv`: what executes has its registers. It stays true when the producer retires and when older
  instructions complete, because no instruction is ever scheduled between two that are scheduled.

`LoadsSeeOlderStores` is inductive with these: a load looks at SQ once, when it is placed, and the stores
that come later are younger than the load. Each action is first described by its effect on the entries, the
registers and the two queues; the parts are then proved from the effects, so that an action which only
changes a time or a flag is done once for all of them.

### `FrontEnd_proofs`

For any trace, any windows and blocks, and any sizes, widths and latencies, under `FrontEndAssumption` (sizes and
widths are positive, latencies are natural numbers):

* `Invariance`: `Spec => []IInv`.
* `FetchesAreAlwaysPending` (`FetchesArePending`), `MispredictionAlwaysStopsFetch` (`MispredictionStopsFetch`).

An answer is taken by the instructions its packet names, so `FetchesArePending` needs that each of these is named
by one packet, and that no new packet names it again:

* `RoomInv`: a stage has left itself the room for what it may still move, so no buffer outgrows its size.
* `OrderInv`: the three buffers hold consecutive instructions, and a mispredicted branch that executes has
  left them all. An instruction is thereby found by its number, in one place.
* `PacketInv`: of the packets asked for and those returned, no two have an instruction in common, also when the
  L1I merges two of them.
* `FetchInv`: behind an instruction that has not been asked for, none is in a packet; and what is checked against
  the DIB stands in front. It holds because `check_dib` and `fetch_instruction` go through
  IFETCH_BUFFER from the front. While the L1I still has room it also says that nothing before `at` is
  left to ask for: fetch skips no instruction, it only stops.
* `PendingInv`: what is in flight is in a packet of its own block, so the answer will match it.

The references that dangle (`DanglingFetch`) are part of the steps: the proof shows that whatever such a
reference hits, no instruction in flight is left without a packet.

### `Replacement_proofs`

For any number of ways, blocks, PCs and priorities, under `PolicyAssumption` and the assumptions of
`Predictors` and `OptGen`. `PolicyAssumption` has `maxRRPV > 1` (3 in the code): with 1, a line that comes in and
a line that is hit would get the same rank, and `ReusedLinesStay` would be false.

* `Invariance`: `Spec => []IInv`.
* `MostRecentLinesAreAlwaysKept` (`LruKeepsTheMostRecent`), `ReusedLinesAlwaysStay` (`ReusedLinesStay`),
  `LinesAreAlwaysOrdered` (`RripOrdersLines`).

`IInv` says of each kind of policy what its rank knows of the order of use: for lru it is the cycle of the last use
(`ClockInv`), for base the place in a stack without gaps or ties (`StackInv`), and no block outside the set was
used after a line inside (`OutsideInv`). For srrip, ship and red, empty ways are at maxRRPV, and a
line never used again is above 0 (`RrpvInv`). For hawkeye and glider, a line of high priority ages no further
than the limit below the reserved values (`PriorityInv`), which is why ageing does not mix it up with
the averse ones. The order between two ways is a history of its own, `later`, since ranks can be equal and
hits come within one cycle. red takes an invalid way, or a valid one at maxRRPV, without ageing any line while a way is
invalid (`NoAging`). Accesses of other sampled sets leave all of this alone. The proof showed that two arms of the CASE which kept `class` overlapped, so
that a hit in hawkeye was recorded by either; they are disjoint now.

### `BasicCache_proofs`

For every kind of cache and any number of ways, entries, blocks and loads, under `RoomAssumption` (the
levels above have no more misses than the RQ has entries), `SizeAssumption` and `BlocksAssumption` (no
block is both code and data; see section 3):

* `Invariance`; `WaitersAreAlwaysServed` (`WaitersAreServed`), `WritesAreNeverLost`
  (`WrittenBlocksStayDirty`).

`WaitersAreServed` needs `TypeInv` (one entry for a block in RQ, PQ and MSHRs, and the type and fill level
of what each may hold), `MissesMatchLower`, and `HolderInv`: over all three together, each waiter is in
one entry. A read for which there is no room would be forgotten (`add_rq` returns -2 and its callers do not
look), so that also needs `RoomInv`: each level above waits for `UPPER_MSHR_SIZE` blocks at most, and
each entry of RQ is for one of these.

### `Basic_proofs`

The main loop, for any number of cores, pages and frames and any latencies with `LatencyAssumption`
(STLB_LATENCY is at most PAGE_TABLE_LATENCY and SWAP_LATENCY, as in the code):

* `TablesAlwaysAgree` (`TablesAgree`). `TableInv` adds that the tables are finite and what they map: a
  swap has a page to take, and gives its frame to one page.
* `TranslationsAreAlwaysCurrent` (`TranslationsAreCurrent`). The STLB fills a translation `STLB_LATENCY` cycles
  after it has read it, and a swap in between would make it stale. `TranslationInv` says why
  none comes: there is one miss of an STLB under way for a core, its translation is in the table, and it
  is due within the time that the core stalls for the fault.
* `CoresAreAlwaysMeasuredAlike` (`CoresAreMeasuredAlike`). `PhaseInv` counts the cores that are warm and
  those that have been simulated, and ties both counts to the flags and to what each core has retired.

The DRAM controller, for any blocks, banks and rows and any latencies (`SizeAssumption`, `TimeAssumption`, and
`AddressAssumption`, that the dimensions of the DRAM are positive and all blocks are of one channel):

* `DramInvariance`; `BanksAlwaysMatchQueues` (`BanksMatchQueues`), `RowHitsAreAlwaysReal` (`RowHitsAreReal`),
  `ControllerImplementsMemPort` (`ImplementsMemPort`).

`IInv` adds that a bank works on a request of its own and opens that request's row (`OwnRequests`), that
the row is activated once no more than the column access is left (`RowsAreActivated`), that an
idle bank is no hit (`OnlyRequestsHit`) and that the reads queued are those awaited. `RowsAreActivated` is
what `reset_remain_requests` relies on when it tells from the time left whether the row it aborts is open.

The core, for any trace, any registers and words, and any sizes of the reorder buffer, the scheduler and the two
queues, under `CoreAssumption` (sizes are positive, the reorder buffer has two slots at least, the set of
registers is finite, Nothing is no word and no number) and `ProgramsAssumption` (a trace is a sequence of
instructions):

* `CoreInvariance`: `CoreSpec => []CoreInv`.
* `RingsAlwaysAgree` (`RingsAgree`), `LoadsAlwaysGetTheYoungestStore` (`LoadsGetTheYoungestStore`).

The code compares ages, that is distances in the ring from `head`, which change at every retirement.
`RobRing` says that the slots from `head` on hold the last instructions read, in order, so that ages and
instruction numbers order them alike (`OlderIsBefore`, `YoungestHasLastId`); everything else is said
of the numbers, which do not move. What has to be added to the two properties:

* `SlotsAreSound`, `RteInv`: what a slot says by itself, and that an index in RTE0 or RTE1 is there once and
  names an instruction that may execute. The test in `do_execution` (ooo_cpu.cc:749) is
  commented out: an index that is there twice would be counted twice.
* `StaInv`, `SqLinks`, `SqRing`: STA lists, in order, stores that are not in SQ and are younger than all that
  are; SQ and the reorder buffer name each other; the place of a store in SQ is the number of stores
  before it. So the store that `retire_rob` takes out by name is the one at SQ.head.
* `LqLinks`, `LoadPlaces`, `StorePlaces`: the same links for loads; a load is in exactly one of the four
  places; a store that is on its way has not executed.
* `MemOps`, `NoneIsLeft`, `Counters`: `num_mem_ops` is what is left of the load and the store; a memory
  instruction that completed has nothing left; the two counters are the sizes of sets of slots.
* `DependInv`, `ProducerInv`: who is in the memory dependence list of a store that has not executed
  waits in LQ for that store; and each load that waits is in the list of its store, which is the youngest older
  one to its word and has not executed. The first half is what keeps `execute_store` from finishing
  a load twice, the second what keeps it from missing one. `ScheduleMemoryInstruction`, which adds a load and a store
  at once and may forward, is where both are made, and is the longest of the lemmas, one per action.

### Model-checked only

Every safety property of the passing runs is a theorem, but two, of `OptGen`: `OptgenIsOptimal` compares the
rings of intervals with what a Belady policy does over the trace so far, which needs induction over the
trace, and the provers cannot do that; `SamplerIsAnLruStack` counts the tags used since in that trace, and is
left to TLC with it. All liveness
(`ModesMakeProgress`, `ReadsAnswered`, `LoadsAnswered`, `EverythingRetires`, `EverythingIsDispatched`,
`EverythingIsAnswered`, `EverythingIsServed`, `SimulationEnds`) stays with TLC, since fairness and ENABLED are
out of the prover's reach. No module declares a RECURSIVE operator.

## 5. What is not modelled, and why

* **Address translation in caches** (advanced): the stash and the tag checks that wait in it. Planned;
  `Cache` is a cache whose requests are translated (L2C, LLC, or an L1 without a TLB).
* **Branch predictors, BTB, prefetchers** (both): a prediction or prefetch changes only the timing;
  `FrontEnd`, `BasicCore`, `Cache` and `BasicCache` allow each of them at any time.
* **Simulation loop** (advanced): the order of the parts and the phases are in the environment actions of
  each module; the abort after DEADLOCK_CYCLE cycles without progress is what the liveness properties
  exclude.
* **Replacement**: the lines are those of one set; `Replacement` leaves what several sets share
  open, except the sampler and the predictors of hawkeye and glider. The hashes of the sampler are any assignment of places to blocks. In `Cache` and `BasicCache` any way may be the victim, so what is shown of them holds for every
  policy that returns a way (or bypasses). The policies of the basic part that were ported are modelled in
  their advanced form.
* **Basic core**: cycles and widths (they order nothing that the actions leave open the other way);
  more than one source and one destination word per instruction; `handle_o3_fetch`, which nothing calls.
* **Basic main loop**: the first-level TLBs, the cached blocks that a swap drops (`InvalidateEntry` of
  `BasicCache`), `page_queue` and the counters of faults, which nothing reads.
* **Widths of integers**: queue positions and latencies never come near theirs. `shamt(0)`, where the
  unsigned `level - 1` wraps round, is modelled in `Vmem`; `num_adjacent_page`, which is unsigned, in
  `BasicMain`.
* **Trace reader, printers, statistics, command line, configuration scripts, tracer, result scripts,
  vendored libraries**: input and output, or not part of these programs.

## 6. Plan

Done, in this order: `MemPort`, `Dram` and its proofs (the most intricate component and the one that
everything waits for), `LoadPort`, `Channel`, `Cache`, `Vmem` and its proofs, `Ptw`, `Backend`,
`FrontEnd`; `BasicCore`, `BasicCache`, `BasicDram`, `Replacement` with its predictors, `BasicMain`.

The proofs followed in the same order, `FrontEnd`, `Replacement` and `BasicCore` last.

What is left, the most important first:

1. `Translation`: the stash of the advanced `CACHE` with a TLB below, composed with `Channel`; no request
   is lost or translated twice, and an answer that serves several addresses of a page reaches all of them.
2. `Core`: `FrontEnd` and `Backend` composed, with the dispatch buffer and mispredictions shared: nothing
   behind an unresolved branch is ever dispatched, and the program order of both is one.
3. `Memory`: `Cache` over `MemPort` instead of its free lower level, so that `Dram`'s refinement carries
   `Cache`'s liveness.

## 7. Running it

`tlc -workers 2 -config MCDram.cfg MCDram` and likewise for the other configurations: `MCCache*` with
MCCache, `MCDram` with MCDram, `MCReplacement*` with MCReplacement, `MCBackend`, `MCFrontEnd` and `MCBasicCore` with the modules
of their name, and `MCPtw`, `MCBasicCache`, `MCBasicDram` and `MCBasicMain` with Ptw, BasicCache, BasicDram
and BasicMain. Each takes at most a few minutes.

`tlapm M_proofs.tla` checks the proofs of a module M: `Dram`, `Cache`, `Ptw`, `Backend`, `FrontEnd`,
`Replacement`, `BasicCache`, `Basic`. `Cache_proofs`, `Backend_proofs` and `Basic_proofs` take ten minutes or
so; a slow machine may need `--stretch 2`.
