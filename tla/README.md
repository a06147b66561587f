# Verification of the homework programs and of the Kokkos host runtime they use

The repository holds a set of MPI and Kokkos homework programs
(`example/homework/01` to `06`) on top of a full copy of the Kokkos core. This
project models the parts of it that carry state and are hard to test: the
message patterns of the MPI programs, and the shared-memory machinery of the
Kokkos host backends: barrier, thread teams, work stealing and collectives, the
dispatch of parallel patterns to an OpenMP instance, the pool of the Threads
backend, the task scheduler with its queues, unique tokens and the memory pool.

Paths in this file are relative to `src/`.

## 1. Inventory

### Homework programs

| program | state | operations | what is hard |
|---|---|---|---|
| `example/homework/01/init.cpp`, the ring | loop counter and token per rank, messages in flight | `MPI_Isend`, `MPI_Irecv`, `MPI_Wait`, `MPI_Finalize` | the library may or may not buffer a send; one send too many or too few |
| `example/homework/02/init.cpp`, parallel life | two boards per rank, ghost rows, iteration | four nonblocking calls, `MPI_Waitall`, `MPI_Barrier`, the update, `MPI_Gather` | one tag for all messages; both neighbours may be the same rank; sends read the board itself; ranks run ahead |
| `example/homework/02/serial-gol.cpp` | one board | the reference update | wrap-around |
| `example/homework/02/parallel-gol.cpp`, a draft | one 1-D band of rows | halo exchange, update | the order of the calls |
| `example/homework/03` to `06` | – | a few collectives or copies each | the communicator split of 05 |

### Kokkos host runtime (`core/src`)

| part | state | operations | what is hard |
|---|---|---|---|
| Host barrier, `impl/Kokkos_HostBarrier.hpp` | three shared ints, a step per thread | `split_arrive`, `split_master_wait`, `split_release`, `arrive`, `wait` | every interleaving of single atomic accesses; the ints wrap |
| Teams, `impl/Kokkos_HostThreadTeam.cpp` | league, team base, team rank, steal rank | `organize_pool`, `organize_team` | a team size that does not divide the pool |
| Work ranges, `impl/Kokkos_HostThreadTeam.{hpp,cpp}` | `m_work_range`, `m_work_chunk` | `set_work_partition`, `get_work_partition`, `get_work_stealing` | owner and thieves compare-exchange one pair; ranges of the last region; `int` arithmetic |
| Collectives, `impl/Kokkos_HostThreadTeam.hpp` | scratch words shared by consecutive calls | `team_barrier`, `team_broadcast`, `team_reduce`, `team_scan` | a fast member reuses what a slow one still has to read |
| OpenMP dispatch, `OpenMP/` | `m_pool`, `m_pool_mutex`, the blocks' sizes | `acquire_lock`, `resize_thread_data`, each `execute()`, `release_lock` | several callers on one instance; dispatch inside a region; an allocation that fails half way |
| Concurrent bitset, `impl/Kokkos_ConcurrentBitset.hpp` | words of bits, a header and a count | `acquire_bounded`, `acquire_bounded_lg2`, `release` | the count runs ahead of the bits; a nearly full set; a partial last word |
| Unique token, `OpenMP/Kokkos_OpenMP_UniqueToken.hpp` | a bitset, or the thread's rank | `acquire`, `release`, `size` | which of the two is used; more threads than tokens |
| Memory pool, `Kokkos_MemoryPool.hpp` | superblocks of bitsets, a hint per block size | `allocate`, `deallocate` | a superblock changes its block size while others search it |
| Lists, `impl/Kokkos_LIFO.hpp` | a head that is also a lock, links in the nodes | `push`, `pop`, `try_push`, `consume` | a node that leaves and comes back; the last consume |
| Ready queues, `impl/Kokkos_ChaseLev.hpp`, `impl/Kokkos_MultipleTaskQueue.hpp` | a circular buffer with two indices, a list of failed insertions | `push`, `pop`, `steal`, `flush_failed_insertions` | the last element; a full buffer; a task that is gone once it is visible |
| Task scheduler, `impl/Kokkos_SimpleTaskScheduler.hpp`, `Kokkos_TaskQueueCommon.hpp`, `Kokkos_TaskNode.hpp`, `OpenMP/Kokkos_OpenMP_Task.hpp` | nodes with reference counts and wait queues, ready count | `spawn`, `respawn`, `when_all`, `complete`, `wait` | a predecessor that completes while another task is made to wait on it |
| Threads backend, `Threads/` | one state word per thread, the function, scratch, work ranges | `initialize`, `start`, `fence`, `barrier`, `fan_in`, `finalize`, `exec` of the patterns | spinning on words written by others; pool and teams share the words |
| Core, execution space manager | initialized / finalized flags, hooks | initialize, finalize, push hook | order of the calls |

How they interact: a Kokkos dispatch to OpenMP takes the instance's lock, resizes
the pool's scratch blocks, opens an OpenMP region in which the threads form teams
(`organize_team`), set their part of the work, meet at the pool's barrier, and
take or steal chunks; team patterns call collectives, which use a barrier per
team. The blocks of scratch memory are the state that all of them share. The
Threads backend does the same with its own spin protocol. `wait(scheduler)` is one
such dispatch, in which every thread runs tasks until the ready count is zero;
tasks are allocated from a memory pool, which is built on concurrent bitsets, as
are the unique tokens; they wait in lists and are ready in deques.

What makes each part correct:

* **ring**: one token; the printed counts are right; nothing is left in the ring
  and every process returns whatever the library buffers;
* **life**: the parallel program prints the boards of the serial one;
* **barrier**: the thread that returns from a rendezvous is alone, nobody is a
  round ahead, everyone gets out;
* **work ranges**: every work item runs exactly once, and the search ends;
* **collectives**: each returns what its contributions determine;
* **dispatch**: one call at the pool at a time, the lock comes back, the data
  read is the call's own, the blocks it works in are allocated;
* **Threads pool**: a fence waits for everyone, each dispatch computes what a serial
  loop computes, and every call returns;
* **tokens, lists, queues**: each is the abstract pool, stack or bag that its
  callers take it for; a search finds what is there;
* **scheduler**: a task runs after its predecessors, lives as long as it is
  referred to, and the workers leave when nothing is left to do, not before;
* **memory pool**: blocks are disjoint, are taken back, and a request fails only if
  there is no room for it.

`PROJECT.json` lists the hazards with their lines and the properties that would
catch them.

## 2. Modules

| module | models | notes |
|---|---|---|
| `Ring` | `main()` of homework 01 | each send chooses between buffered and rendezvous |
| `Life` | cell rule, serial update, `warped_domain` update, populate functions | operators without state |
| `GameOfLife` | `main()` and `update_domain` of homework 02 | extends `Life`; MPI by what its standard promises |
| `Rendezvous` | what a split rendezvous promises | abstract specification |
| `BarrierRounds` | the parameters and the state of the barrier, and what its rounds promise | constants with their assumptions, properties, refinement mapping |
| `HostBarrier` | `Kokkos_HostBarrier.hpp` as `HostThreadTeamData` drives it | implements `Rendezvous` |
| `TeamLayout` | the arithmetic of `organize_team` | constants and operators |
| `WorkStealing` | partitions, chunks and stealing through consecutive parallel regions | extends `TeamLayout` |
| `TeamCollectives` | the collectives of `HostThreadTeamMember` | built on the actions of `Rendezvous` |
| `OpenMPDispatch` | the instance's lock, `resize_thread_data`, the control of each `execute()` | several callers |
| `ThreadsPool` | `ThreadsExec`, `ThreadsExecTeamMember` and the patterns of the Threads backend | one pool, any sequence of launches |
| `ConcurrentBitset` | `concurrent_bitset` | actions that other modules call |
| `TokenPool` | what unique tokens promise | abstract specification |
| `UniqueToken` | `UniqueToken<OpenMP, ...>` | extends `ConcurrentBitset`, implements `TokenPool` |
| `MemoryPool` | `MemoryPool::allocate` and `deallocate` | extends `ConcurrentBitset` |
| `Stack` | what the intrusive lists promise | abstract specification |
| `LIFO` | `LockBasedLIFO` and `SingleConsumeOperationLIFO` | implements `Stack` |
| `TaskBag` | what a team's ready queue promises | abstract specification |
| `TaskDeque` | `ChaseLevDeque` with the failed insertions of `MultipleTaskQueue` | implements `TaskBag` |
| `TaskScheduling` | `SimpleTaskScheduler` with the loop of the OpenMP workers | uses what `Stack` and `TaskBag` promise |
| `HostBarrierProofs`, `WorkStealingProofs`, `MemoryPoolProofs` | – | proofs about one module |
| `HomeworkProofs`, `TeamProofs`, `OpenMPProofs`, `LockFreeProofs` | – | proofs about the components that an `MC` module puts together; each extends that `MC` module |
| `BitsetLemmas` | – | lemmas on numbers, cardinalities and the search of the bitset, used by the proofs about tokens and the memory pool |
| `MCHomework`, `MCHostTeam`, `MCOpenMP`, `MCLockFree`, `MCMemoryPool` | – | instances for TLC |

An `MC` module that instantiates several components chooses one of them in the
initial state, by a variable (`homework`, `part` or `container`) that never changes.
The others do not move, so such a run is the disjoint union of the components' state
spaces and not their product; each property speaks about the component it names
and holds of the others in their initial state. The two component pairs whose
interplay matters are composed in the modules themselves: `TeamCollectives` on
`Rendezvous`, and `UniqueToken` and `MemoryPool` on `ConcurrentBitset`, access by access.

### How state and actions correspond to the code

**Ring.** A rank's `pc` is its place in `main()`. `MPI_Isend` and the `MPI_Wait`
after it are two steps; `MPI_Irecv` with the `MPI_Wait` that follows at once is
one, the match. `Start` holds the exit for a single process; `SendsIn` is the
condition that leaves the last send out.

**GameOfLife.** `Post` is one of the four nonblocking calls in their order
(`Exchange`); `Match` is the library; `Waitall` completes the requests and enters
the first barrier; `Compute` is the rest of `update_domain`; `NextIteration` swaps
the two domain pointers. Unmatched sends and posted receives are queues per pair
of ranks, because all messages have tag 0 and MPI matches them in order. `eager`
chooses once whether the library copies a message when it is sent or reads the
sender's buffer when it is matched. Allocation, the usage message and the
layout of the output are left out.

**HostBarrier.** One action per atomic access. A round of step `k` has the source
`Source[k]`, which all threads name; the value `Last` stands for a round that uses
`arrive()`. All counters are taken modulo `Wrap`. `try_wait` is one test of `wait`,
and the backoff between two tests only delays the next one.

**WorkStealing.** The processes are team masters. `m_work_range` is two words,
written one by one in `set_work_partition`, read and compare-exchanged as a pair
in `get_work_stealing`; `w` is the local copy that the compare-exchange compares
with. `NextRegion` begins the next parallel region with the ranges of the last
one still in place.

**TeamCollectives.** The abstract rendezvous replaces the barrier, which is what
the refinement of `HostBarrier` justifies. `local[t]` is the scratch memory of
member `t`; the words of member 0 are also `team_reduce()`.

**OpenMPDispatch.** A dispatch is a record (pattern, inside a region or not, empty
or not, size, calling thread). `TakesLock`, `Unlocks`, `ReturnsEarly`, `WorkRanks`
and `AreasOf` are read off the `execute()` functions. A caller is a chain of calls, and a
functor that dispatches while it runs is a caller of its own: `within` names the
call and the rank whose functor it is (`Functors`), that rank comes back from its
functor only after the dispatch has (`Work`), and a dispatch of the same thread has the
rank of the functor's thread. A functor of a loop (`for`), which has no lock, or of a
region of the user's is in no call of the model (`Outside`). A block remembers which call
wrote it last, which is all the properties ask of its contents. `AllocateThrows` is
the exception of `HostSpace::allocate` after the old block was freed.

**ThreadsPool.** `state` is `m_pool_state`, the word of each thread that all
synchronization goes through; a thread is a place with its locals, and an action is
one access to such a word or to memory that others use. `Initialize`, `Dispatch` and
`Finalize` are the calls of the program; `Executes` is what entry 0 then does (spawn,
resize the scratch memory, store the function, activate the entries one by one, run
it, fence), `Drives(e)` what worker `e` does between its birth and its death. The function is a
launch record: the kind of pattern, its schedule, team size, length, chunk and what
it asks of `resize_scratch`. `worked` counts the calls of the functor per item.
`range` starts with whatever `Leftover` holds, because the constructor of
`ThreadsExec` sets it only when work is dealt out.

**ConcurrentBitset, UniqueToken, MemoryPool.** A call is a record with the place and
the locals; an action is one atomic access. The users begin a call with `Acquire`
or `Release` of the bitset and read the result from `call[t]`. In `MemoryPool` the
header of a bitset is the log2 of the number of blocks in the superblock, as in the
code; addresses are bytes, so that two blocks of different sizes can be compared.

**LIFO.** `kind` chooses one of the two lists. `LockTag` in the head is the lock of
a pop, or the mark of a consumed list. A pop reads the head, compare-exchanges the
lock in, reads `next` of the node, and stores it as the head.

**TaskDeque.** `top`, `bottom`, `array` as in `ChaseLevDeque`; the owner's and the
thieves' locals apart. A task goes from new through scheduled and taken to
deallocated. `undefined` records an access whose outcome C++ does not define
(a task that is gone, a queue that does not exist); the behaviour ends there.

**TaskScheduling.** `agenda[a]` is the rest of the scheduler's code that actor `a` is
in, one entry for every access to shared memory, so that an operation is a sequence of
entries and the actors interleave between them. `futures[x]` are the tasks that functor
`x`, or the host, has futures of. A functor may be given copies of its creator's futures
(`Spawn`), may destroy any of its own at any time, after its `respawn` too
(`DropFutures`), and keeps those that are left when it runs again; the rest goes with the
functor (`Finish`). Two futures of the same functor of one task are one. Futures that
tasks leave for one another in memory outside the functors are not modelled. Queues are atomic here: `LIFO` and
`TaskDeque` show that this is what they look like. `MaxWork` bounds tasks,
aggregates and respawns together.

## 3. Runs

| run | bounds | what it shows |
|---|---|---|
| `homework` | the ring with 4 ranks and 5 rounds (the value in the source); life with 2 ranks on 4 x 3 cells and every board of three cells, 3 ranks on 15 x 13 cells with the four patterns that fit, one rank alone, refused arguments; 2 iterations | one token, right counts, same output as the serial program, stable send buffers, both programs return |
| `bad_acorn` | 1 rank, 5 x 10 cells | finding 4 |
| `team` | barrier: 3 threads, counters modulo 4, any number of rounds; collectives: team of 3, every program of 2; stealing: 7 threads in teams of 2, 7 items in chunks of 2, 2 regions; Threads: pool of 4, any sequence of seven kinds of launch | alone, no lapping, refinement of the rendezvous; results of the collectives; every item once; fences and results of the Threads pool; everybody returns |
| `stealing_wide` | largest int 7, 18 items | finding 1 |
| `threads_idle` | pool of 5, a dynamic league on teams of 2 | finding 7 |
| `openmp` | dispatch: 2 callers, 2 dispatches each, pool of 2, allocations that may fail; tasks: host and 2 workers, 3 tasks, aggregates and respawns together | lock, own and live blocks, every dispatch returns unless an exception or a functor of the call itself keeps the lock; reference counts, order, no task touched after its end, every wait returns |
| `dispatch_scan` | two callers of `ParallelScan` | finding 2 |
| `dispatch_serial_reduce` | a reduction inside a region | finding 3 |
| `lockfree` | tokens: 3 threads, words of 2 bits, 1 to 4 tokens, and 5, which go by rank in a pool of 5; lists: 3 workers, 2 nodes; ready queue: buffer of 2, two thieves with 3 tasks and one thief with 4 | the refinements of `TokenPool`, `Stack` and `TaskBag`, aborts only if oversubscribed, searches that end, nothing stuck |
| `partial_word` | 3 tokens in words of 2 bits | finding 6 |
| `flush` | the ready queue as in `lockfree` | finding 5 |
| `memory` | 2 threads, at most 3 live blocks; two superblocks of two small or one large block, and one superblock of four small or two large ones | disjoint blocks, blocks taken back, failure only if full, a call that nobody disturbs returns |

Why the bounds are enough for what is asked:

* The barrier's state space is closed under any number of rounds because its
  counters wrap: `Wrap = 4` lets them wrap while threads are in consecutive rounds,
  and `Source` names different threads, and `Last`, in consecutive rounds. Three
  threads give a source, a last one to arrive, and one that is neither.
* With seven threads in teams of two the league has three teams of two with one
  thread left over, so that the wrap of the steal rank and the idle thread occur;
  an odd number of items leaves a short last chunk; two regions let a thief meet
  a stale range.
* Two collectives suffice for one to disturb the next, since the scratch words are
  written again by each of them and nobody can be two calls ahead.
* Four entries are the smallest pool of the Threads backend whose fan-in tree has a
  parent that is itself a child, and give two teams of two. The state of the pool
  returns after each launch, but for scratch sizes, work ranges and the scan's
  values, so the sequence of launches is not bounded; lengths 5 and 3 are not shared
  evenly by four threads or two teams. `Leftover` holds a range that is not empty.
* Two dispatches by each of two callers give a resize after another call's use and
  a call that finds what an earlier one left. The kinds chosen stand for their
  classes: a loop that uses no block, a team loop, a reduction and a task dispatch
  that lock, resize and use different areas, and three patterns inside a region
  that do. The unlocked scan and the reduction inside a region are in the runs of
  findings 2 and 3.
* One of the two callers may be a functor of the other's call, on either rank: it then
  waits for the lock of that call.
* Three units of task work give a predecessor with two successors, an aggregate of
  two tasks, and a task that spawns another, respawns with it as its predecessor and
  drops the future before it returns, while another worker completes the predecessor.
* With a pool of five an object of five tokens hands out ranks; the searched bitsets have
  one to four bits in words of two, of which three bits are the partial last word
  and four bits two whole words. Two threads contend for one bit while a third
  releases another.
* With a list of two nodes and three workers one worker may read the head, two
  others pop both nodes and push the first back. A buffer of two goes round, and
  is full, with three tasks; the fourth one lets an index go round twice.
* Two iterations let a rank be one ahead of its neighbour and both boards be used
  as source; two ranks are the case in which only the order of the calls tells the
  messages apart, three the case with different neighbours.
* Two superblocks let one thread give a superblock another size while the other
  looks for a block in it; the second shape has a bitset of two words.

### Fairness

Each process or thread is weakly fair: an enabled next step is eventually taken.
This is what a running operating system thread or MPI process gives, also for the
spinning ones, because the condition they spin on stays true once it is true.
The run `team` asks for less: only that, as long as some thread of the pool can go
on, one of them does. No barrier, collective, search or launch has a loop that
one thread could go round for ever at the expense of another.
In `GameOfLife` the library is also weakly fair in matching what can be
matched, the progress guarantee of MPI. In `OpenMPDispatch` the spin lock is not
fair; weak fairness suffices because each caller makes a bounded number of
dispatches, so the other eventually leaves the lock free for good. Nobody has to
begin a call: to dispatch, spawn, acquire, push, allocate, initialize or finalize is
never fair, and no allocation has to fail. A worker that is in the parallel region
of the task scheduler does look for tasks, again and again, as its loop does.

A compare-exchange that fails is retried, and others may make it fail for ever:
the lists and the memory pool are lock-free and not wait-free. Their properties
say that much and no more: `SomebodyGetsThrough` lets a call of a ready list last
only while others keep changing the list, `FindsZeroBit` a search only while
bits keep changing, `ReturnsUndisturbed` an allocation only while others act. The
wait queue of a task is consumed once, and so its pushes must return.

Deadlock is checked in every run but `openmp`, `lockfree` and `flush`. There a
program may really stop: an exception in a resize leaves the lock taken and later
callers spin for ever, a functor waits for the lock of its own call, a token object aborts the program, the bounded tasks
have all run, or an access is undefined and the behaviour ends.

## 4. Findings

1. `core/src/impl/Kokkos_HostThreadTeam.hpp:376`: the first item of a stolen chunk
   is a product of two `int`s that is widened only afterwards; for ranges longer
   than the largest `int`, for which the chunk size is raised on purpose, it
   overflows (`stealing_wide`).
2. `core/src/OpenMP/Kokkos_OpenMP_Parallel_Scan.hpp:73`: `ParallelScan` resizes and
   uses the pool without the lock that protects it (`dispatch_scan`).
3. `core/src/OpenMP/Kokkos_OpenMP_Parallel_Reduce.hpp:109`: the serial branch of
   the RangePolicy reduction returns without releasing the lock
   (`dispatch_serial_reduce`).
4. `example/homework/02/serial-gol.cpp:172`: the last pattern is not the one of
   `init.cpp`, although the notes say that the outputs agree (`bad_acorn`).
5. `core/src/impl/Kokkos_MultipleTaskQueue.hpp:212`: `flush_failed_insertions` follows
   the next pointer of a task after it has pushed it, when a thief may have run and
   deallocated it (`flush`).
6. `core/src/impl/Kokkos_ConcurrentBitset.hpp:190`: the number of words is rounded
   down, so a search never comes to a partial last word and may go round the full
   ones for ever although that word has a free bit (`partial_word`).
7. `core/src/Threads/Kokkos_ThreadsTeam.hpp:370`: with a dynamic league a thread in no
   team misses a barrier, runs the function a second time, and is still in it when
   `fence()` has returned (`threads_idle`).

Met on the way, without a run of their own because no line of the repository
promises the contrary for the case, or because another run asks the same question
(changing the constants of `MCHostTeam` as given shows the first two):

* The Threads backend with a pool of six and a static league on teams of three: the
  trees of the teams are not subtrees of the pool's, and a state word that
  belongs to a team's rendezvous is taken for an arrival at the pool
  (`FenceWaitsForAll`).
* The Threads backend with a pool of three and a dynamic league on one team of two:
  the team steals from the range of the thread that is in no team, which nobody has
  set (`DispatchCorrect`).
* Every locked pattern takes the instance's lock before it asks `execute_in_serial`
  (`Kokkos_OpenMP_Parallel_Reduce.hpp:86` and `:95`, `:229` and `:239`, `:434` and `:439`;
  `Kokkos_OpenMP_Parallel_Scan.hpp:204` and `:213`; `Kokkos_OpenMP_Parallel_For.hpp:351`
  and `:356`). The branch for a dispatch inside a parallel region is therefore out of reach
  for a functor of a locked call on the same instance: it spins on the lock that its own call
  holds. `EveryDispatchReturns` names the case (`WaitsForItself`) and claims nothing there.
* The comment at `Kokkos_ConcurrentBitset.hpp:85` describes the hint of
  `acquire_bounded_lg2` otherwise than line 104 uses it.
* `attempt_limit` of `MemoryPool::allocate` counts only searches that find nothing
  (`Kokkos_MemoryPool.hpp:473` and `:686`): two threads that take an empty superblock from
  one another are not stopped by it.
* A host that spawns more tasks than the first queue holds runs into
  `Kokkos_MultipleTaskQueue.hpp:486` without a team (`undefined = "no such queue"`).

## 5. Proofs

All theorems hold for every value of the constants that the named assumptions of
the modules admit. Where a component is instantiated by an `MC` module, what it asks
of its parameters is a definition of the component (`TagsDiffer`, `QueueParameters`,
`TeamParameters`, `LaunchParameters`) that the `MC` module assumes of its constants
(`TagsAssumption`, `QueueAssumption`, `MembersAssumption`, `LaunchesAssumption`), so
that TLC evaluates it in every run. The theorems use nothing else of an `MC` module:
its small sets are the values of the `.cfg` files.

**Barrier** (`HostBarrierProofs`). `RunsAlone` is not inductive: that a thread is
alone depends on the count of arrivals being right. `IndInv` adds
what the program counters say about the rounds (`StepInv`), that `arrive` counts
the threads of the round until it is reset (`CountInv`), that the last thread to
arrive and the one that runs see a full round (`FullInv`), and when `master` is
ahead of `wait` (`MasterInv`). From it follow `BarrierTypeCorrect`,
`BarrierRunsAlone`, `BarrierNobodyLaps` and `BarrierRefinesRendezvous`, the
last by mapping the threads of the round to `in`, those released but not yet gone
to `leaving`, and the one that runs to `master`. The counters may wrap at any
width of at least one bit.

**Ring** (`HomeworkProofs`). `OneToken` and `PrintsLoopCount` say nothing of where the
token is next. `RingInv` counts: `Got(r)` is how often rank r has had the token,
`Sent(r)` how often it has passed it on. Read around the ring these
numbers never increase and drop by at most one in all (`Chain`), a channel holds a
message exactly where they drop (`Channels`), and the program counter fixes the
buffer and the loop counter (`Local`). A single process takes no part in
this and has its own case (`Alone`). Results: `RingTypes`, `RingPrintsLoopCount`,
`RingOneToken`, for every number of ranks and rounds and every choice of the library
between buffered and rendezvous sends.

**Game of life** (`HomeworkProofs`). That the boards agree is not inductive: a row that
is received must be the row of the same iteration, although all messages have one tag and
both neighbours may be one rank. `GameInv` says of arguments that are accepted: the loop
counter, the calls made and the barriers entered fit the place in `main()` (`Located`);
nobody has left a barrier that another has not entered (`InStep`); each queue between two
ranks holds the row sent north before the row sent south and each queue of receives the
south one before the north one, as far as they are not matched (`Queues`); over all
iterations as many rows were sent to a side as were received there (`Counted`), which
with the barriers gives at most one of each; a message
not matched yet is still the edge row of the domain it was sent from (`Sending`), and a
matched one is the edge row of the neighbour's block (`Received`). From these each
domain is the rank's block of the board (`Boards`), and what rank 0 has printed and
what is on its way to it are the boards in order (`Output`). Arguments that are refused
leave the initial state (`Refused`). Two facts about boards carry the step: the update of
a block with the ghost rows of its neighbours is the block of the updated board, with
the wrap-around at both ends, and every board is a board of cells (by induction over the
iterations). Results: `GameTypes`, `SameOutput`, `BuffersStable` (an action property),
for every number of ranks, board and iterations and whatever the library buffers.
The premise of `SameOutput`, `PlacedAlike`, says that the two programs place the pattern
alike; it excludes exactly finding 4. `HomeworkTypes` joins the ring and the game.

**Stealing** (`WorkStealingProofs`). The lemmas about `organize_team` show that
the steal rank is always a team master and that the teams' initial ranges are
disjoint and cover all chunks. The inductive invariant says that a range only
shrinks inside its initial bounds and that exactly the chunks missing from it
have been handed out; a successful compare-exchange removes the one chunk that it
hands out, because the pair it compared is the pair in memory. Results:
`StealingTypeCorrect`, `StealingConservesChunks`, `StealingHandsOutFresh`, and
`StealingRunsItemsOnce`: the items that have run are those of the chunks
handed out and finished, each once (`OnceInv`), and at the end of a region all chunks have
been handed out. Its premise `NoOverflow` (the first item of every chunk
fits an `int`) excludes exactly finding 1.

**Collectives** (`TeamProofs`). A result depends on words that the next call writes
again. `TeamInv`: all members are before or in the same rendezvous, whatever call they
are in (`SameRound`); who is in the rendezvous, leaving it, or alone in it is where the code
says (`Located`); a contribution is in the member's own words until the source combines
them (`Deposited`); from then until the member has read it, the word that it will read
holds the result of its call (`WillReturn`); the accumulator of the scans is the sum of the
calls combined so far (`Accumulated`); and the results returned are right
(`HasReturned`). A member that is a call ahead can only write its own words, and the
words of member 0 only after everybody has left. The sums are folds over sets;
lemmas give a sum over a set with one more member, and from it prefix sums.
Results: `TeamTypes` and `TeamCollectivesCorrect`, for every team of at least two and
programs of any length (`TeamParameters`).

**Dispatch** (`OpenMPProofs`). `DispatchTypes`: the lock is a bit, and a
resize stays inside the pool. `DispatchProtectsPool`: if nobody dispatches
the unlocked scan (`NoScan`), two calls are never both at the pool, for any number of
callers (`LockInv`: who is at the pool has the lock). `DispatchHandsLockBack`: if
moreover no RangePolicy reduction is dispatched inside a region (`NoLeak`), a lock
that is taken is taken by someone at the pool as long as no allocation has failed
(`LeakInv` adds that a call at the pool has taken the lock first; a call that an
exception has ended leaves a block that is not live). The premises are exactly
findings 2 and 3. `DispatchWorksInOwnBlocks`, again under `NoScan`: the blocks a call works in are
allocated and large enough, and what it reads back was left there by its own ranks.
`BlocksInv` adds that all blocks are as large as that of rank 0, the only one that
`resize_thread_data` looks at (`Uniform`), what a resize has done so far (`Growing`), and that
after an allocation has cut one short the lock stays taken and nobody is at
the pool (`CutShort`).

**Tokens** (`LockFreeProofs`). With a token for every thread (`Ranked`) a token is
the rank. Otherwise (`Shared`) every thread is in one of six phases, the set bits
are those of their owners, the count in the word is the number of threads that
have, look for or give back a bit, and the owners and seekers together are at
most `size()` (`Agrees`). The last part is what makes a search succeed: by counting, a
seeker always finds a clear bit below the bound. Results: `TokenTypes`,
`TokenBitsAreOwned`, `TokenAborts` (an action property: a thread gives up only if as many
others as there are tokens use the object) and `TokenRefinesPool`, the refinement of
`TokenPool` step by step, in which only the `fetch_or` that wins a bit, the
`fetch_and` that clears one, and the steps by rank are not stutters.

**Lists** (`LockFreeProofs`). The contents are a sequence that only the links
describe. `ListInv` says that there is one (`Listed`: a path of different nodes from
where the list starts to the end tag, through nodes that are nobody's), that a node
belongs to at most one thread (`OwnedNodes`), that at most one thread has the list to
itself, between taking the lock and giving it back or in `consume` (`Alone`), and
what a thread knows where it is (`Located`): the node it pushes is its own and points to the
head it has seen. No invariant speaks about a head that was seen and has changed since: a
push that succeeds only needs the head to be the same node again, and a pop reads the link
after it has the lock. A path from a node is unique, because the end tag has no successor,
so the refinement mapping is well defined, and pushing and popping are a new first
element and its removal. Results: `ListTypes` and `ListImplementsStack`, for both lists,
any threads and any finite set of nodes (`TagsDiffer`: the tags are different and no
nodes).

**Ready queue** (`LockFreeProofs`). `DequeInv`: between `top` and the last element, which
a pop under way has already hidden by lowering `bottom`, there are at most as many
indices as slots (`Window`), their slots hold different tasks that are scheduled and not in the
list of failed insertions (`Queued`), and that list ends (`InOwnersList`). `OwnerInv` and
`ThiefInv` say what the locals are worth: the owner alone moves `bottom`; a thief's copy of
`top` is never ahead, and if it is still equal, the element it has read is still the
first one, since the owner writes a slot only a whole capacity away. Two elements in
one slot would be two indices that differ by less than the capacity and have the same
remainder, which is the one piece of arithmetic. Results: `DequeTypes`,
`DequeImplementsTaskBag`, and `PopFindsTheLastTask`, for any thieves, tasks and
capacity (`QueueParameters`: the capacity is not zero). A behaviour ends where
the code's outcome is undefined (finding 5), and the theorems speak of it up to there.
`LockFreeTypes` joins tokens, lists and ready queue.

**Memory pool** (`MemoryPoolProofs`). The same count per superblock, but the meaning of
a bit now depends on the size that the superblock is assigned to, which others may
change. `PoolInv` says: the words and locals have their types and nobody has aborted
(`Types`); what each thread knows at its program counter (`Phase`); every live block lies in a
superblock of its size (`Placed`); and per superblock, the set bits are those of
the live blocks and of the threads about to return or give back one, all different, and the
count in its word is that of these and of the threads that look for a bit
(`Agrees`). A superblock is re-assigned by a compare-exchange that expects a word
counting nobody, so its size cannot change under a live block. Results:
`PoolTypes`, `PoolTakesBackItsBlocks` (`deallocate` never aborts on a block that
`allocate` returned), `PoolBlocksDisjoint`, and `PoolFailsOnlyIfFull`: a
thread that nobody disturbs is refused only if no superblock is empty or has room;
`AloneInv` adds that the others are idle and that every superblock the search has passed is
neither. Assumed of the constants: the shape's sizes are ordered and there is a
buffer for each superblock (`ShapesAssumption`, `BuffersAssumption`), finitely many
threads (`ThreadsAssumption`), and words of a power of two of bits
(`WordAssumption`), as the constructor and `Kokkos_ConcurrentBitset.hpp` have them.

**Tasks** (`OpenMPProofs`). `TaskInv` has seven parts. Tasks are created in the
order of their numbers and nothing refers to one that is not (`Numbered`). Every task is at
exactly one place: new, in the code that some actor is in, ready, running, in
the wait queue of another, or complete (`Placed`); without it, nothing would prevent a
task from being pushed twice. `Shaped` says what the code of an actor looks like: the
countdown comes last, a push first, and who has left the parallel region has nothing to do.
`Counted`: `m_ready_count` is the number of ready and running tasks, of
countdowns still to come and of pushes already counted. `Ordered`: a predecessor of a task is
complete, or still to be looked at, or has the task in its wait queue, and a task that is
past its predecessors has none left to look at. `Layered`: tasks and
host can be numbered by layers (`LayersOf`) such that a functor has futures of, and waits for,
only tasks in lower layers, so waiting tasks form no circle. A functor hands its futures to
tasks that it spawns, so the creators alone give no such order; a new task goes into a layer
of its own between its creator and everything that its creator has futures of, which
is all it can be given or wait for, and the layers from its creator's up move one up. Results: `TaskInvariant`, `TaskRunsAfterPredecessors`, and
`TaskQuiescentMeansDone`: with a count of zero nobody runs or holds a task
(`Counted`, `Shaped`), so whoever is not complete waits for another that is not
(`Placed`), and of these one in the lowest layer would have nobody to wait for
(`Layered`). `RefInv` adds the references: the count of a task
is the number of its references (`RefOf`), a task that is gone has none and is complete
(`FreedOf`), and a new task that has not been scheduled is still being spawned by
somebody who has a future of its predecessor (`SpawnedOf`), the one predecessor for which
no reference is counted. A respawn has no such somebody: its functor may have dropped
the future, and only the reference that `set_predecessor` counts is left. Each step moves references between
the completion, the futures, the borrowing tasks and the releases under way, and the
lemmas on cardinalities (`RefChange`) add up what it does to each of the four. Results:
`TaskReferences`, `TaskReferencesCounted`, `TaskTouchesLiveTasks` and `TaskTypes`. Assumed: finitely many workers, and a host that is
none of them. `OpenMPTypes` joins the dispatch and the tasks.

**Induction over data.** The library's induction theorems take an operator, which the
provers cannot instantiate. `HomeworkProofs` and `TeamProofs` give a property as
the set of the numbers, or of the subsets of a finite set, that have it: a set of numbers
that has no least counterexample is all of them (`NatSetInduction`, from the
well-foundedness of the numbers), and a set of subsets to which each subset belongs when
all its proper subsets do has them all (`SubsetInduction`, by the number of elements). The boards after n
iterations and the sums over members are functions defined recursively, and these two
lemmas say what they compute for every input.

Only model-checked:

* all liveness properties, because the prover has neither fairness nor `ENABLED`;
* `FenceWaitsForAll`, `DispatchCorrect` and the part of `HostTypeOK` about the Threads
  backend. They do not hold for every pool and every launch (finding 7 and the two cases
  noted below it: team sizes that do not divide the pool, or whose trees are not subtrees
  of the pool's). A theorem would need, as its premise, exactly which fan-in trees of
  teams fit into that of the pool.

## 6. Not modelled

Of the repository's implementation lines by far the most are tests, the vendored gtest
and desul, device backends, and templates for views and index arithmetic, which
keep no state that steps of several actors could disturb. In detail:

* Device backends (CUDA, HIP, SYCL, OpenMPTarget, OpenACC): what matters is in the
  vendors' runtimes.
* Views, layouts, execution policies, `CopyViews`, tiled iteration: templates and index
  arithmetic. The reference count of an allocation record is one atomic
  increment or decrement per copy of a view.
* The tools interface: callbacks that no computation depends on.
* `tpls/` (desul, mdspan, gtest), tests and build files: third party or support.
* The deprecated task scheduler: the one that `SimpleTaskScheduler` replaces, with
  lists of the protocol that `LIFO` models.
* The initialize / finalize protocol of the core: calls of one thread in a fixed order.
* The draft `parallel-gol.cpp`, and homework 03 to 06: a draft that the hand-in
  does not use, and straight-line programs of a few collective calls.
* Of the modelled parts: `partition_master` and the values that reductions and scans
  join in OpenMP; the zeroing of the team rendezvous memory; tasks of whole teams,
  `when_all` over a generated range and futures that tasks pass on through shared
  memory; in `MemoryPool::deallocate` the null pointer and a pointer that lies outside
  the pool (`ok_contains`, `Kokkos_MemoryPool.hpp:717`), since only blocks that `allocate`
  returned are given back and `BlocksDisjoint` has them in the pool; hwloc, sleep and wake, `all_reduce` and
  `scan_large` (which nobody calls), the values of the team collectives, MDRange
  and WorkGraph patterns of the Threads backend.
* `populate_mysnake` with exactly seven columns writes one cell past the last row;
  memory outside the board has no model.
* Weak memory orders: every module takes an atomic access as one step on a memory that
  all threads see alike.

## 7. Plan

Done: the modules above, that is the programs of homework 01 and 02 and the parts of
the host runtime that threads share.

Proved: the ring and the game of life, the barrier, the work ranges, the collectives, the
dispatch, the tokens, the lists, the ready queue, the memory pool and the task
scheduler (section 5): every safety property of the runs but those of the Threads
backend.

Left: for `ThreadsPool`, a premise on team size and pool under which the trees of the teams
are subtrees of that of the pool, and the invariant that ties each state word to the place of
its thread and of its parent; homework 03 to 06, if they grow beyond a few calls.
