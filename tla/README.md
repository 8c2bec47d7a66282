# A verification development for the SATACC simulator

This directory models the simulator in `src/rusttools/` (crate `rusttools`), a
cycle-driven model of a SAT accelerator: a *trail* hands the assignments of a
MiniSat run to *watchers*, watchers read watcher lists and blockers and pass
clauses to *clause units*, and both read memory over an *interconnect* from
*caches*.  The modules are TLA+, checked with TLC; theorems are proved with
TLAPS.  `PROJECT.json` maps every definition to the lines it stands for.

## 1. Inventory

The program is single-threaded.  What interleaves are the components: in each
iteration of `SimRunner::run` every component's `update` runs once, in a fixed
order, and components meet only in bounded channels and in `SataccStatus`.
Everything hard comes from there: messages that wait in full channels, replies
in another order than their requests, counters in one component that must agree
with what is on its way in others, and a run that ends or fails on two booleans
(busy, updated) that every `update` returns.

| Component | State | Operations | Interacts by | What makes it correct |
|---|---|---|---|---|
| Channels (`sim.rs`) | a `VecDeque`, `max_size` | `send`, `recv`, `ret`, `have_space` | shared by a sender and a receiver, both clonable | a message given back keeps its place; `ret` has no size test |
| Trail (`trail.rs`) | round in work, level, `current_level_remaining` | `update` | channels to the watchers; resets the shared `current_level_finished_tasks` | tasks sent once, in order; with `level_sync` a barrier between levels that always opens again |
| Watcher (`watcher.rs`) | five queues, three tables/counters of reads, task in process | `update`: eight phases | trail channel, memory port, clause port; increments the finished counter | no task lost or doubled; counters match reads; queues bounded; no `unwrap` on a foreign reply; progress |
| Clause unit (`clause.rs`) | two queues, reads of clauses and values, task in process | `update`: six phases, two modes | clause channel, the *shared* memory port of its processing element; increments the finished counter | every value read before processing; no task lost or counted twice; bounds; progress |
| Watcher interface (`watcher_interface.rs`) | channels to its watcher, clause units, private cache | `update`: dispatch one task, one reply, then its parts | networks | a reply goes to the unit that asked; a blocker reply always finds room, for its way back panics |
| Interconnect (`icnt.rs`, `wating_task.rs`) | heap of messages by leaving cycle | `update` | one in and out port per node | nothing lost; head-of-line blocking never deadlocks |
| Simple cache (`cache_with_fix_time.rs`, `fast_cache.rs`) | sets with FIFO pointer, reads under way, requests per block | `update`, `access` | ports of the network | every request answered once, also when merged or replaced |
| Cache with Ramulator (`cache_with_ramulator.rs`) | as above, the requests per block read by the DRAM, one slot for a refused request | `update` | ports, external DRAM simulator | as above; the table agrees with what the DRAM reads |
| Runner, simulator (`sim.rs`, `simulator.rs`) | cycle, mode, C API objects | `run`, `run_single_task`, `finish_simulator`, `run_full_expr` | calls every `update` | a run ends only when its work is done; "busy but not updated" only when stuck |
| Task builder (`satacc_minisat_task.rs`) | decisions, assignments, single watchers | seven C calls | called by MiniSat | calls come in an order in which no `unwrap` fails |
| Statistics, satstat, config, macros | counters | writers | write-only | arithmetic |

## 2. Modules

The core: one module per component, an environment that makes it a system of its
own, and where it promises something to others an abstract specification.

| Module | Models | Notes |
|---|---|---|
| `SimChannel` | the channels | sequences; a refused call is a guard of the caller |
| `Watcher` | `Watcher::update` | one action per phase, `pc` forces the order; `Call` starts an update |
| `WatcherStages` | abstract: what watchers promise | stages of every task, what counts as finished |
| `WatcherEnv` | watchers with trail, memory and clause network | any reply order; requests of others at the same port; refinement mapping to `WatcherStages` |
| `ClauseUnit` | `ClauseUnit::update`, both modes | one action per phase; the units of a processing element share its memory port |
| `ClauseEnv` | clause units with clause and memory network | a dispatch hands on a task, a reply, both or none; requests of the watcher at the same port; remembers what was answered |
| `Trail` | `Trail::update`, both modes | one action per outcome |
| `LevelBarrier` | abstract: what `level_sync` promises | |
| `TrailEnv` | trail with the caller and the units | refinement mapping to `LevelBarrier` |
| `Icnt` | `SimpleIcnt::update` | takes one message per port, then delivers in the order of leaving cycles |
| `OrderedNetwork` | abstract: what the interconnect promises | what is on its way, and the order in which it was sent |
| `IcntEnv` | interconnect with components at its ports | refinement mapping to `OrderedNetwork` |
| `FastCache` | the tag store: bit lengths, set index, replacement | operators only, no recursion but a recursive function |
| `FifoCache` | abstract: what replacement promises | |
| `FixTimeCache` | `CacheWithFixTime::update` | one action per port visit, read that ends, answer |
| `FixTimeCacheEnv` | cache with the network at its ports | refinement mapping to `FifoCache` |
| `RamuCache` | `CacheWithRamulator::update` | the slot, the ports, the answers, the blocks the DRAM has read |
| `RamuCacheEnv` | that cache with network and DRAM | a place for every request |

The composition.

| Module | Models | Notes |
|---|---|---|
| `WatcherInterface` | `WatcherInterface::update` | dispatch, then the updates of `Watcher` and `ClauseUnit`, both by `INSTANCE`; `turn` says whose turn it is |
| `System` | `TrailAndOthers`, `SimRunner::run` and the C API | extends `WatcherInterface`, adds `Trail` (two instances: with and without barrier), networks, runner and caller |
| `MemoryService` | abstract: what memory network and cache promise together | a request held until it is answered, in any order, at its processing element |
| `MemorySystem` | the memory network and the cache behind it | extends `FixTimeCache`, an instance of `Icnt` has its channels from the other side; refinement mapping to `MemoryService`, on which `System` is built |

Proofs: `ChannelLemmas` (lemmas), `WatcherProofs`, `TrailProofs`, `ClauseProofs`,
`FixTimeCacheProofs` (the cache, and `MemorySystem`), `RamuCacheProofs`,
`IcntProofs`, and `SystemProofs` for the whole.  Instances for TLC: `MCWatcher`, `MCClause`, `MCTrail`, `MCIcnt`,
`MCFixTimeCache`, `MCRamuCache`, `MCMemory`, `MCSystem`.

How state and actions correspond to the code:

* An `update` of a watcher or clause unit is `Call` followed by one action per
  phase; no other component acts before its end (`BetweenUpdates`, or `turn` in
  `WatcherInterface`), as in the single-threaded program.  `busy` and `updated`
  collect the result.
* The three reading phases of the watcher are one pair of actions
  (`StartRead`, `ReadBlocked`) over the kinds meta, data and blocker.
* A fresh request id (`SataccStatus::next_mem_id`) is stood for by the kind of
  read and its task (and the index of the value): a task makes each read once.
* The tracker of the clause unit's serial mode and the tables of the pipelined
  one are the same three variables (`reading_tasks`, `value_reqs`,
  `value_waits`); the mode decides who waits for what.
* Absolute finishing times (`current_cycle + process_time`) are modelled as the
  cycles left; `Call(p, d)` takes d off.  `SimRunner::run` adds 2 cycles to
  `current_cycle` per iteration, 1 before it returns an error and none at the
  end of a run (`EndOfCycle` in `System`), hence `Elapsed = {0, 1, 2}` in the
  runs of the units.
* `WaitingTask` is a heap by absolute leaving cycle.  `Icnt` and the caches
  keep the cycles left; among entries with the fewest any may be popped, as the
  heap promises no more.  An overdue message of `Icnt` keeps only its rank
  (`Aged`), since nothing but the order of overdue messages is ever looked at.
* A pop that is followed by a push of the same entry is one action that leaves
  the heap alone and sets `busy` and `updated` as the code does.
* In `System` a whole `TrailAndOthers::update` is the trail, then dispatch,
  watcher and units of each processing element, then the networks
  (`NetworkUpdate`), then `EndOfCycle`, which is the `match` of
  `SimRunner::run`.  The caller acts only between two runs.
* In `MemorySystem` the ports of the cache come first, behind those of the
  processing elements in the code: the channels between network and cache are
  then the same variables with the same index.  On a mesh this measures other
  distances, of which no property speaks.
* A request enters the cache at the port its address names (`EntryPort`;
  `watcher.rs:181,187`) and is answered at the one of its `mem_id` (`MemId`;
  `cache_with_fix_time.rs:122,128`).  Both are the same number but for a
  blocker's request: `get_blocker_req` always sets `mem_id` 0
  (`satacc_minisat_task.rs:99`), so blockers enter by all ports and their answers
  leave by one.  The two are constants of their own, related by nothing.
* Statistics, logging and `IdleReason` are left out: nothing reads them.

## 3. Runs

| Run | Instance | Shows |
|---|---|---|
| `watcher` | 2 watchers, 2 tasks, 4 single watchers, limit 2, ports of size 1 also used by others, fair | types and no underflow, joint bounds, counters = awaited reads = reads in flight, replies reach the watcher that waits, an idle watcher holds only tasks that wait, refinement of `WatcherStages`, every task completes |
| `watcher_cross` | a single watcher of a foreign literal | **violation**: finding 1 |
| `trail` | 5 tasks, 3 rounds (one empty), levels that rise, fall and repeat, with `level_sync`, fair | counters measure the open work; one level open; order; barrier refinement; rounds complete |
| `clause` | 2 pipelined units on one port of size 1, also used by a watcher, 3 tasks, limit 2, fair | counters, all values read, nothing lost or counted twice, an idle unit holds only tasks that wait, every clause finishes |
| `clause_serial` | 1 unit, not pipelined, 3 tasks, limit 2 | bounds; every reply finds its task, also when a task is taken early |
| `clause_early` | the same | **violation**: finding 2 |
| `cache` | 2 ports, one set of 2 lines, 5 requests for 3 blocks, 3 reads, fair | one read per block, each request answered once and at last, an idle cache is empty, FIFO refinement |
| `icnt` | 4 ports in a square, 5 messages, 2 in transit, ports of size 1, fair | refinement of `OrderedNetwork`, every message arrives |
| `ramu` | 2 ports, one line, 4 blocks, a DRAM with two channels of one place, fair | table and DRAM agree, nothing answered twice, the reports are true, a request vanishes only in the slot, all others are answered |
| `ramu_overwrite` | the same | **violation**: finding 3 |
| `memory` | 2 processing elements and 2 cache ports on a mesh for one message, 4 requests for 2 blocks that share a line, one of them a blocker's that enters by port 1 and is answered at port 0, fair | refinement of `MemoryService`, a held request always means progress, requests and answers do not stop each other |
| `system` | 2 processing elements with a watcher and 2 clause units each, 2 tasks of different levels, one round or two, both running modes, with and without `level_sync`, one request may be lost, fair | Ok means done, without a loss only dropped single watchers can be taken for a stall, no panic, `LevelBarrier` over the real queues, every session ends |

Bounds.  The literal 256 is `QueueLimit`, 1 or 2 in the runs, and channels have
size 1, so that limits and full ports are met with two to four tasks; the
phases compare lengths with the limit and never with its value, and the bounds
are proved for every limit (section 5).  Tasks are few but differ in everything
the code looks at: level, home, number of single watchers or values, with and
without a clause, processing time shorter and longer than an update's distance.
Three single watchers with a limit of 2 let the expansion overshoot its queue.
The literal 2048 of the caches and networks is `MaxOngoing` and `MaxTransit`,
3, 2 or 1.  The cache's requests ask for one block three times, the least with which
a block is read, hit, replaced during that read and asked for again.  Two
messages of the network share both ports, a third competes for their target.
`MaxLost` bounds the losses of `System` by one, which is enough to stop it;
`ExtraRuns` stands for the literal 100 of `run_single_task`, 1 in the run: each
extra run meets the same state again.  No state constraint is used; the runs
end because the tasks do.

Fairness.  Every component's `update` is called in each iteration of
`SimRunner::run` and runs to its end: weak fairness of the phases.  A call is
enabled only between two updates, hence strong fairness of `Call`, and of the
environment's steps, which are updates of other components.  That a reply finds
its place and a request is taken rests on the networks, whose updates visit
every port.  A watcher and the units of its processing element send at one
port: the watcher is updated first, so units that send again and again do not
keep it out (`watcher` asks that it meets room at its turns again and again),
and for the units it is enough that the watcher has an end of its requests
(`clause`).  Nothing is assumed of the order in which replies come.  Of a
component at a port of the interconnect or of the memory system no more is
assumed than that it goes on taking what arrives.  In `System` the program runs
on (`WF_vars(Next)`); the two strong fairness conditions say that the networks
do not for ever refuse to deliver what has room or to take a request, which is
what `EveryMessageArrives` and the last property of `memory` show of them.
Losing a request is never fair and never has to happen.

`Elapsed` is 2 in `cache`, `ramu` and `memory`, as within a run, and 1 or 2 in
`icnt`: with 0, which happens when a run without a gap between rounds ends
and the next one starts in the same cycle, two messages of one pair of ports get
the same leaving cycle and may overtake each other, so `OrderedNetwork` holds
within a run only.  No component relies on that order across runs, and
`MemoryService` promises none.

The end of a run.  `QuietOnlyIfWaiting`, `QuietOnlyIfEmpty`, `ReportsHold` and
`HeldIsProgress` say of each component what the end of a run needs: who is idle
holds no work of its own, and while work is held somebody makes progress.
`OkMeansDone` and `StallOnlyIfDropped` say it of the whole.  `ramu_overwrite`,
with the slot, is one way in which the program can come to report "busy but not
updated": a request is lost.

Without a loss, two steps of the program are progress that `update` does not
report: a watcher takes a blocker reply (`watcher.rs:300`), or drops a single
watcher that needs no clause (`watcher.rs:272`).  `StallOnlyIfDropped` says what
comes of them.  The first is harmless, as the dispatch has reported the same
reply earlier in the cycle (its first conjunct).  The second is the one way left
to a stall: in a cycle without an update and without a loss nothing is in the
networks, at the ports and in the clause units, a watcher that was not busy holds
nothing, and if the cycle was busy then some watcher was.  A watcher is busy
without an update only when a port is full, when it takes a blocker reply, or by
a drop; the ports are empty and the reply is excluded, so it is by a drop.

The exception is needed.  In the run `system`, with limits of 1 and 2, no such
cycle comes up, and every error has a loss before it.  With a `QueueLimit` of 14,
one processing element and 14 single watchers TLC finds a session that ends with
an error and nothing lost: while the clause network of the model holds one
clause back, `process_finished` fills with it and with drops behind it, and once
the clause is sent the drops are worked off in cycles in which nobody else has
work.  That session takes too long for a run; the theorem of section 5 holds for
every limit, so it and its like are the only ones.  In the program a network
refuses a clause only while its ports are full or 2048 messages are in transit,
that is, while the units hold work of their own; that this work always outlasts
the drops, no run and no theorem shows.

What the run of `System` does not meet: a dispatch that returns a reply because
a clause unit's channel is full.  Every unit empties its channel of one reply in
each update and the interface adds one before.  `NothingPanics` rests on the
same order for blocker replies: the watcher's channel is full only between the
dispatch and the end of the watcher's update, which is why `DispatchPanics` asks
at its own turn (with channels of size 1 the condition alone holds now and then
in the middle of an update, where nobody looks).

## 4. Findings

1. `watcher_cross`.  `get_blocker_req` (`satacc_minisat_task.rs:98`) addresses
   the reply by the single watcher's own literal, but the asking watcher keeps
   the task.  If the two have different watchers, which
   `watcher_interface.rs:19` speaks of, the reply goes to a watcher that does
   not await it, and `watcher.rs:302-305` panics.  A solver that gives every
   single watcher the literal of its list never meets it; `watcher` and
   `system` check that case.
2. `clause_early`.  Not pipelined, completeness is judged from the requests
   already sent (`clause.rs:337`).  When the shared port is full between two
   sends, the replies of the first can arrive before the second is sent; the
   task is then processed, and its unsent values are never read, although
   `clause.rs:228` says "never ignore any value, that's a bug!".
3. `ramu_overwrite`.  A request the DRAM refuses is kept in one slot, of which
   `cache_with_ramulator.rs:24` says "not yet able to send to the dram. process
   it!".  The loop over the ports goes on, and a second port that is refused in
   the same update overwrites the slot (line 127): the first request is in no
   queue any more and never answered.  `LostOnlyInSlot` shows that nothing
   else loses one.

## 5. Theorems

| Theorem | States |
|---|---|
| `WatcherTypeCorrect` | `Spec => []TypeOK` for watchers: no counter underflows |
| `WatcherQueuesBounded` | `Spec => []QueueBounds`: reads + queue never exceed `2 * QueueLimit - 1` |
| `WatcherQuietOnlyIfWaiting` | `Spec => []QuietOnlyIfWaiting`: idle and awaiting no reply means no work |
| `WatcherTasksInOnePlace` | a task is in one place of its own watcher, once |
| `WatcherCountersMatch` | `Spec => []CountersMatch`: a counter is the number of tasks that wait |
| `WatcherReadsMatch` | `Spec => []ReadsMatch`: a read is on its way, once, exactly while it is awaited |
| `WatcherRepliesComeHome` | if lists hold single watchers of their own processing element, `Spec => []RepliesComeHome`: no unwrap of a reply's task panics |
| `WatcherImplementsStages` | `Spec => ImplementsStages`, the refinement of `WatcherStages` |
| `TrailTypeCorrect` | `Spec => []TypeOK` for the trail |
| `TrailKeepsLevelsApart` | `Spec => []OneLevelOpen` |
| `TrailCountersMeasureOpenWork` | `Spec => []CountersMeasureOpenWork` |
| `TrailSendsInOrder` | `Spec => []SentInOrder` |
| `TrailIsBarrier` | with `LevelSync`, `Spec => ImplementsBarrier` |
| `ClauseTypeCorrect` | `Spec => []TypeOK` for clause units |
| `ClauseQueuesBounded` | `Spec => []ClauseBounds`, in both modes |
| `ClauseNothingLost` | `Spec => []NothingLost`: one place for every task until it is counted, in both modes |
| `ClauseRepliesAwaited` | `Spec => []RepliesAwaited`: no unwrap of a reply panics, in both modes |
| `ClauseCountersMatch` | `Spec => []CountersMatch`, in both modes |
| `ClauseAllValuesRead` | if pipelined, `Spec => []AllValuesRead`; finding 2 is that it fails otherwise |
| `ClauseQuietOnlyIfWaiting` | `Spec => []QuietOnlyIfWaiting`, in both modes |
| `CacheTypeCorrect` | `Spec => []TypeOK` for the cache |
| `CacheReadsOnce` | `Spec => []OneReadPerBlock`: one read per block, and the unwrap at its end never fails |
| `CacheQuietOnlyIfEmpty` | `Spec => []QuietOnlyIfEmpty` |
| `CacheIsFifo` | `Spec => ImplementsFifo`, the refinement of `FifoCache` |
| `CacheAnswersOnce` | `Spec => []AnsweredOnce` |
| `AddressSelectsSet` | an address and its tag select the same set, one of those there are |
| `DramAgrees` | `Spec => []DramMatches`: the panic on an unknown block is never reached, and the slot's request never drops those who wait |
| `RamuCacheReportsHold` | `Spec => []ReportsHold` |
| `RamuCacheNothingDoubled` | `Spec => []NothingDoubled` |
| `RamuCacheLostOnlyInSlot` | `Spec => LostOnlyInSlot`: finding 3 is the only way to lose a request |
| `MemoryHeldIsProgress` | `MemorySpec => []HeldIsProgress` for interconnect and cache together: one of them is busy and one reports progress while either holds a request, whatever port it enters by and is answered at |
| `MemoryImplementsService` | `MemorySpec => ImplementsMemoryService`: the two implement `MemoryService`, on which `System` is built, whatever port a request enters by and is answered at |
| `SystemNothingPanics` | if lists hold single watchers of their own processing element, `Spec => []NothingPanics` for the whole system |
| `SystemOkMeansDone` | `Spec => []OkMeansDone`: a run that waits for all and returns Ok, with nothing lost, has left no task anywhere |
| `SystemStallOnlyIfDropped` | `Spec => []StallOnlyIfDropped`: with nothing lost, a cycle that is busy without an update is one of dropped single watchers, with no work left elsewhere |
| `SystemImplementsBarrier` | `Spec => ImplementsBarrier`: with `level_sync` the whole system, not the trail alone, implements `LevelBarrier` |
| `IcntTypeCorrect` | `Spec => []TypeOK` for the interconnect |
| `IcntBusyIsProgress` | `Spec => []BusyIsProgress`: busy and updated agree |
| `IcntKeepsOrder` | if `0 \notin Elapsed`, `Spec => ImplementsOrderedNetwork`, the refinement of `OrderedNetwork` |

They hold for every value of the constants that meets the named assumptions.
Those say what the code's objects are: every task is an object of its own, in
one round and one list (`RoundsAssumption`, `SystemAssumption`, `DistinctTasks`);
a single watcher is in the list of some task (`SinglesListed`); an answer carries
the id of its request (`AnswersDistinct`) and is no request itself
but carries the one it answers (`MemoryAssumption`); what `current_processing_task` holds is not its `None`;
limits, channels and geometry are positive.

*Watcher.*  Neither types nor bounds are inductive: `total_ongoing - 1` stays a
natural number only if a reply is counted, so `IInv` adds `WaitingCounted`: as
many tasks wait for a kind of read as the counter says, or fewer.  A reply's
task is among those that wait (else the code panics and the action is not
enabled), so the counter is positive.  The bounds follow because a read starts
only with both numbers below the limit, and a reply moves one from the counter
to the queue.  For the report of an idle update, `SkippedHasNoWork` says that
each phase passed while `busy` is still false had nothing in its queue, and that
no later phase of the same update filled that queue without setting `busy`.

`PInv` names the places of a task (`Held`): the trail, the channel, three tables,
five queues, the task in process.  A task is in one of them, of its own watcher,
in no queue twice, and the single watchers of a task that is not expanded are
in none (`NotBorn`, without which expansion could double one).  Every action is
one of four kinds: it moves tasks from one place to the next (`Moves`), lets one
leave (`Leaves`), expands one (`Expands`) or changes no place, and each kind
preserves `PInv`.  The exact counters need it: a read adds one to the table only
if the task is not in it yet.  `FInv` does the same for requests: the places are
the channel out, the network and the channel in, they are disjoint, and a
request is in one of them exactly while its task is in the table of its kind.
The requests of others in the channel out are taken for no place of ours, but
the order in which the channel is emptied is that of all.  A reply is therefore
awaited by some watcher; that it is the one it is sent to needs that lists hold
single watchers of their own processing element, the hypothesis of
`WatcherRepliesComeHome`.  For the refinement, the stage of a task is its place
(`StagesArePlaces`), so the same four kinds are the steps of `WatcherStages`.

*Trail.*  `IInv` joins the types, `CountersMeasureOpenWork`, `OneLevelOpen` and
`Order`: when the counters are equal nothing is open, so the level may change;
a task is sent at the current level only; finishing work takes one from the open
set and adds one to the counter.  That sending a task adds all its work to the
open set, and not work that is open already, is a matter of order: open work
belongs to tasks that were sent (`OpenIsSent`), and by `SentInOrder` the next
task stands in a place of the rounds that was not sent before.  `TrailIsBarrier`
maps each action to a step or a stutter of `LevelBarrier`.

*Clause unit.*  The bounds follow as in the watcher, from the types of the
channels and tables and with counters that are integers only: a reply takes from
the counter what it adds to the queue, be the counter what it may.

The rest is built as for the watcher, with more parts.  `PInv`: every task that
is not finished is in one place (`IsIn`), in each queue once; steps are `Moves`
and `Leaves`.  `FInv`: every request is in one place of its way (`Lies`), in
each channel once; steps are `Shifts`.  Here units share a port and a reply is
routed by its unit, so both say whose place it is.  `AInv`: a clause's data is
on its way exactly while its task is in the table; a value is awaited exactly
while it is on its way or, pipelined, not sent yet; a task being read has a
value that is awaited or unsent; and the serial unit reads one task at a time,
which is how a value's reply finds it.  From the three, a reply is always
awaited, in both modes, and a counter is the number of its requests on their way
(`CInv`): a read adds a request that is not on its way yet.  `AllRead` says of
the pipelined unit that the values of a task that is past their reading (not
`Early`) are awaited or answered; the serial unit breaks it, as finding 2 shows.
`QuietSoFar` carries the report of an idle update through its phases.

*Simple cache.*  `IInv` is `TypeOK /\ OneReadPerBlock`; neither holds alone:
the requests that are answered when a read ends are a sequence because each read
has its entry in `tag_to_reqs`, and a new read keeps the blocks distinct because
that table holds exactly the blocks being read, whatever the tag store says of
them.
`QuietSoFar` carries the report through the phases of an update.

The places of a request (`At`) are the network, a port in or out, the queue of
answers and the waiting requests of each block.  Every step takes a set of
requests to one place and leaves all others where they are (`Relocates`): one
request, or, when a read ends, all that waited for its block.  Such a step
keeps every request in one place; `AnsweredOnce` follows because no queue holds
one twice.  `CacheIsFifo` reads a set of the tag store from `replace_ptr`
onwards: a miss of a full set overwrites the oldest line and moves the pointer
past it, a miss of another appends (`Filled` says that the pointer is at the
start until then), a hit changes nothing.  That an address selects a set at all
rests on the bit lengths (`get_bit_lens`): the power of two they stand for is
positive and at most the size, by induction over a set of natural numbers, which
needs no operator as parameter.

*Cache with Ramulator.*  `DramMatches` needs `StillRefused`: while the ports are
visited nothing leaves the DRAM, so that what refused the request in the slot
refuses any later request for the same block, and none gets an entry that the
insert of line 75 would overwrite.  `ReportsSoFar` carries the report through the
phases; a request in the slot is progress because the DRAM is full of reads
with entries in the table.  The places are those of the simple cache and the
slot; a step either relocates requests or puts one in a slot that holds another,
which is then in no place (`Overwritten`).  `SlotFirst` says that the slot is
empty when the first port is visited, so only a later one overwrites.  The
theorem about an entry that is never dropped (`DramAgrees`) is needed again: the
insert of line 75 would lose all that wait for the block.

*Interconnect.*  The types need that a mesh has a side (`RowSizeType`, the
integer square root exists, by well-foundedness of the naturals) and that
finitely many messages are in transit, for their ranks to be numbers.

The order rests on the cycles a message has left.  Two messages of one pair of
ports have the same way and get the same number when they are taken, at most one
of them is taken in an update (each port is visited once), and by the next
update the number of every message in transit has fallen (`OnTime`): who was
taken first is strictly nearer to leaving (`LeaveInOrder`).  What is still in
the port in was sent after what is in transit (`TransitFirst`) and stands there
in the order sent (`SendsInOrder`).  The message delivered has the least number
of all, so nobody overtakes.  `0 \notin Elapsed` is what two updates within a
run meet (section 3); no other theorem needs it.

*The memory system.*  Interconnect and cache together, in the second half of
`FixTimeCacheProofs`, which extends `MemorySystem` besides `FixTimeCacheEnv`.
Here neither component has an environment that answers for itself: the channel
out of one is the channel into the other.  `MemoryTypes` says of every channel
which messages go there (`Leaving`, `Arriving`): requests and answers share the
interconnect, but at a port of the cache only requests arrive, by whatever port
(nothing relates `EntryPort` to `MemId`), so the fields the code reads are those
of a request, and at a port of a processing element only answers.

`HeldIsProgress` is about the end of a cycle, when each of the two has reported
at its own turn.  `Reports` carries what their reports are worth: within an
update, for the ports already visited (`NetworkSoFar`, `CacheSoFar`), and after it
(`NetworkSaid`, `CacheSaid`).  Two cases need both components.  An answer that
stands in a channel to the interconnect was put there by the cache after the
interconnect had reported, and then the cache reports; and a cache that ends with
answers it cannot send is only `busy`, but then a port of the interconnect is
full, so the interconnect, which came first in the cycle and found it so,
reported progress, or the cache did when it filled the port itself.

For the refinement a message stands for its request (`Req`: an answer carries
it), and `Lies` names its places from the processing element back to it: unsent,
a channel to the interconnect, in transit, a channel from it, waiting for a
block, ready to be answered.  `PlaceInv` says that it is in at most one of them
and there once.  Every step moves a set of requests from one place to the next
(`Goes`), or none: that it keeps `PlaceInv` and what it does to `Memory`
(`GoesMemory`) is proved once for all steps.  A step between two places inside
the memory changes nothing `MemoryService` speaks of (`InnerStep`); a message taken
from the port of a processing element, and one delivered to it, are `Serve`.
Aging is no move at all, but it replaces every message in transit by another
(`NetworkRests`).

*The whole system.*  The proof does not repeat those of the watcher and the
clause unit, it composes them.  `SystemProofs` has two instances, `WP` of
`WatcherProofs` and `CP` of `ClauseProofs`: the environment of `WP` is everything
that is not a watcher (`pending` is `Unsent`, the tasks of the trail and the
caller, `memory` is what of `Held` a watcher asked for), and that of `CP`
everything that is not a unit (`pending` is `Coming`, the clauses that are still
in a watcher or in the network).  That the instances meet the assumptions of
their modules is `WatcherAssumptions` and `UnitAssumptions`; the imported facts
follow as lemmas (`WatcherKeeps`, `UnitKeeps`).  Their inductive invariants are
the two `SafeInv`.

Every step of the system is then shown to be a step of both or one that changes
nothing they speak of: a watcher's phase is a step of `WP` and, by the request it
may leave at the port, an `OthersSend` of `CP`; `NetworkUpdate` is `NetworksTake`
of the one and `MemoryTakes` of the other; a dispatch is a `MemoryReplies` of the
one or a `Dispatch` of the other; a lost request goes on being `Held` and is
never answered.  This needs what holds between the components (`SystemInv`): no
task is in two rounds (`RoundsInv`), a request is in one place of the service
(`ReqInv`), a clause is in one place from watcher to unit (`WayInv`), an update
that has begun runs to its end, which is what `BetweenUpdates` of the environments
means here (`TurnInv`), a reply handed to a watcher is taken by the update that
follows (`DrainInv`), and a round waits only until the trail's next update
(`CallInv`).  The unwraps are then those of the components, the `unreachable!()`
is excluded by `DrainInv` and the full channel of rounds by `CallInv`.

`OkMeansDone` is about every component at the end of a cycle, but each has
reported at its own turn, earlier.  `QuietInv` says what a report of no work is
worth in between, for the components whose turn in this cycle is over
(`DispatchOver`, `WatcherOver`, `UnitOver`): a dispatch that was not busy has
found its two channels empty, and only a busy network brings something into
them; a watcher that was not busy has skipped every phase and none has work now,
because nobody but the dispatch, the trail and the watcher itself touches its
queues, and their turns are over (within its own update that is
`SkippedHasNoWork`, part of the watcher's `SafeInv`); likewise a unit
(`CP!Quiet`); networks that were not busy hold nothing and have found nothing at
their ports.  At the end of a cycle in which nobody was busy no request is
therefore on its way, so by the components' own invariants no task waits for a
reply and no counter stands above zero; the first phase was then not held up by
its limit, and its channel is empty too (`WP!NothingHeld`, `CP!NothingHeld`,
`NothingLeft`).  The hypothesis on the lists is not needed: this holds also
where a reply goes astray, for then the code panics before it returns.
(The parts of `SystemInv` and of `QuietInv` were checked with TLC on the instance
of `system` before they were proved.)

That `level_sync` is a barrier across all queues (`SystemImplementsBarrier`) is a
statement about a counter: the trail changes the level when what it has sent
equals `current_level_finished_tasks`, which every watcher and unit raises.
`OpenWork` is therefore followed piece by piece.  To the components it is
`Unfinished` without `UnsentWork`: what they have not finished, as their own
modules define it (`WP!Unfinished`, and the clauses not in `CP!Gone`), without
what the trail and the caller still keep.  Each step of a component keeps
`Unfinished` or takes one piece from it and adds one to the counter (`Counts`,
proved for the steps of both instances by `WatcherFinishes` and `UnitFinishes`);
only a step of the trail changes `UnsentWork`, and it opens all the work of one
task and adds its size to the other counter (`OpensWork`).  So the difference of
the counters is `Cardinality(OpenWork)` and what is open is of the current level
(`BarrierInv`), and equal counters mean that nothing is open.  It holds whatever
is lost: the work of a lost request stays open, and the level never changes.

For `SystemStallOnlyIfDropped` a report is not enough: it says what an update
found in its turn, and the question is what is left when all have had theirs.  The
argument is a cycle at a standstill (`Standstill`: no update so far has reported
progress).  In it no data changes but by drops (`WatcherStandsStill`,
`UnitStandsStill`, `DispatchStandsStill`, and `SameStill` for the rest), so what
stopped each phase is still there at the end.  `Still` carries it for those that
have had their turn: a unit found no work or the port to memory full
(`StillUnit`), the dispatch found the channel of a unit full, and the trail
nothing to send.  At the end of the cycle `network_busy` is false, so the networks
are empty and took what stood at the ports (`WhatIsLeft`); then no port is full,
no unit was stopped, and a task in a unit would have moved (`UnitsHoldNoWork`).

Only model-checked: liveness, which under fairness is outside the prover's
reach.

## 6. Not modelled

* The private cache of a watcher: built and updated, but nothing is ever sent
  to it (`watcher_interface.rs:221-256` is unreachable while that is so).
* The DRAM simulator behind the Ramulator cache is external code; `RamuCache`
  assumes a number of places per channel and reads that end in any order.
* `System` has one memory service and one clause network in place of every
  combination of mesh or ideal networks and of the two caches; `memory` shows
  for mesh and simple cache that the service is kept, `ramu` and
  `ramu_overwrite` what the other cache adds: a lost request.
* The task builder (`satacc_minisat_task.rs:180-290`) appends to the last element
  of lists; the order of its calls is the solver's, which is not part of the
  repository.  What it can build are the parameters of the models.  A clause
  without values is excluded by assumption (`ValuesAssumption`), as the
  pipelined code asserts.
* Statistics and satstat: written by all, read by no control.  Configuration,
  macros, test utilities, the C++ wrapper and the scripts: no state of the system.
* Widths: cycles and identifiers are `usize` and 64 bits; no run of the program
  comes near the end of either.  The subtractions that could underflow are
  modelled and are covered by the type invariants and `CountersMatch`.
