# TLA+ models of the Omni compiler's runtime libraries

The Omni compiler translates C and Fortran programs with OpenMP, XcalableMP and
OpenACC directives into plain C or Fortran that calls a runtime library. This
directory holds TLA+ models of the OpenMP runtime `libompc` and of parts of the
XcalableMP runtimes `libxmp` and `libxmpf`, the TLC runs that check them on
small instances, and TLAPS proofs of the central ones.

## Inventory

| Part | State | Operations | Modelled in |
|---|---|---|---|
| Team, barrier, join (`ompc_thread.c`) | `barrier_sense`, `barrier_flags` of the parent thread | fork, `ompc_thread_barrier`, `ompc_thread_barrier2` | `OmpcBarrier`, `OmpcTeam` |
| Processor pool (`ompc_thread.c`) | `ompc_procs` (`is_used`, `thr`, `free_thr`), counter, condition variable, thread entries | start-up, `ompc_get_proc`, `ompc_free_proc`, slave loop, `ompc_do_parallel_main` | `OmpcPool` |
| Nestable locks (`ompc_lock.c`) | `lock`, `wait`, `id`, `count` | init, set, test, unset, destroy | `OmpcNestLock` |
| Work sharing (`ompc_runtime.c`) | `in_flags`, `in_count`, `out_count`, `dynamic_index`, `ordered_id`, `ordered_step`, `r_v` | single, sections, static, dynamic and guided loops, ordered, reduction | `OmpcWorkshare` |
| Computed schedules (`ompc_runtime.c`, `ompf_runtime.c`) | loop fields of one thread | block, cyclic, chunked, runtime schedules | `OmpcSched` |
| Critical sections (`ompc_runtime.c`) | pointer to the mutex, `_critical_lock` | enter, exit | `OmpcCritical` |
| Node arrays (`xmp_nodes.c`) | shape, ranks | rank to subscripts and back | `XmpNodes` |
| Locks of coarrays (`xmp_lock_unlock_gasnet.c`) | lock objects with circular waiter lists, `local_lockstate`, messages | lock, unlock, four handlers | `XmpLock`, `XmpLockSpec` |
| Post and wait (`xmp_post_wait_gasnet.c`, `xmp_post_wait_mpi.c`) | table of posts, messages | post, wait, wait for a node, wait for a node and tag | `XmpPostWait`, `XmpPostWaitSpec` |
| Asynchronous communication (`xmp_async.c`) | hash table of descriptors, requests, gmove buffers, node sets | async clause, `wait_async`, `xmp_test_async` | `XmpAsync` |
| Templates and loops (`xmp_template.c`, `xmp_loop.c`, `xmpf_loop.c`) | none (arithmetic) | distribution, owner, skip test, local bounds | `XmpTemplate`, `XmpLoop`, `XmpThreads` |
| Allocation of coarrays (`xmpf_coarray_alloc.c`) | malloc history, resource sets, sorted table, static pool | static allocation, ALLOCATE, DEALLOCATE, prolog, epilog, lookup | `XmpfCoarray` |
| Simple and atomic locks | one mutex | lock, unlock, test | steps of the others |
| Threadprivate data, environment | tables and globals | `ompc_get_thdprv`, `ompc_init` | no |
| Fortran call glue (`ompf_thread.c`), timers | none | argument passing, clock | no |
| Rest of `libxmp` and `libxmpf`, `libacc` | coarray access, reflect, gmove sets, queues | index arithmetic around communication calls | no |
| Driver's `atool` | processes, threads, a bounded buffer | start and await a pipeline of commands | no |
| Front-ends, translators, back-ends, driver scripts, `interfaces`, `libompf`, `libtlog` | syntax trees, text, log files, declarations | compile passes, wrappers | only the order of runtime calls |

How the parts interact: a processor (a pthread with its `ompc_proc`) that meets
a parallel region takes other processors from the pool, gives each a thread
entry and wakes them. The team synchronises through fields of the *parent's*
thread entry; barriers, the join and all work-sharing constructs share that one
structure. Constructs with `nowait` therefore overlap in it. Locks and critical
sections are independent of teams. An XcalableMP program runs as one process
per node. A loop directive gives each node the part of the loop that its
template owns, and with the threads clause each node divides its part among the
threads of a `libompc` team: `XmpThreads` composes the two. Locks, posts and
asynchronous communication act between nodes by messages; they share only the
numbering of the nodes. `libxmpf` keeps its own record of coarray memory on top
of the stack allocator of `libxmp`, and the two must agree.

What is hard to test: threads one barrier apart; a processor that is given back
before it has reported to the join; a sleeping slave and the wake-up; entries
reused from free lists with stale fields; reads of `count` and `id` outside any
lock; constructs whose stragglers meet the next construct; bounds that are
compared as pointers; grants, replies and posts that overtake each other; ids
that share a slot of a hash table; memory freed in another order than it was
allocated; templates that do not divide evenly. `PROJECT.json` lists each with
its line.

## Modules and code

**OmpcTeam** says what a region promises: members arrive at a barrier, leave it
when all have arrived, finish, and the master joins. Nothing of flags or senses.

**OmpcBarrier** has one step per shared read or write. `DoParallel` initialises
the flags (`ompc_thread.c:670`), `StartThread` and `StartMaster` start the
members while others already run, `BarrierEnter` reads the sense, the slave
writes its flag (`BarrierArrive`) and waits (`BarrierLeave`), the master reads
the flags one at a time (`BarrierScan`) and releases (`BarrierRelease`). The
join has the same shape without a wait of the slaves. No line of the code
initialises `barrier_sense`, so its first value is any of `InitSense`.
`ImplementsTeam` is `OmpcTeam`'s specification under the mapping in the module.

**OmpcNestLock** follows `ompc_nest_lock`, `ompc_test_nest_lock` and
`ompc_nest_unlock` in the build with mutexes. The two reads before the first
lock are two steps. `held` is a history variable: sets minus unsets per thread.

**OmpcPool** has start-up, the slave's loop of spinning and sleeping (with
spurious wake-ups), the search of `ompc_get_proc` with its `last_used`, the
assignment loop, the broadcast, the master's own entry, nested regions (a stack
of frames per processor) and the join. The join's flags are a set `arrived`;
`OmpcBarrier` is the model of the flags.

**OmpcWorkshare** lets a team execute a program, a sequence of constructs, in
the calls that the translator's `transFor`, `transSections` and `transSingle`
emit. A section under `OMPC_THREAD_LOCK` is a step; what the code does outside
the lock (raising `in_flags` after it in the dynamic loop, the decision between
the two locked sections of `next`) is a step of its own. Fields that malloc or
an earlier region leaves behind start from `Stale`. A reduction's value is the
set of contributions combined. `MCWorkshare` holds the programs.

**OmpcSched** computes the schedules with C's truncating division and with the
unsigned comparisons of `indvar_t` (modulo `Word`), where the code has them.
`ubofs` is 0 for C and 1 for Fortran. `MCSched` holds the loops.

**OmpcCritical** has the unlocked test of the pointer, the creation under
`_critical_lock` with the publication before the initialisation, and the mutex.
What a thread finds in memory that is not yet initialised is any of `Fresh`.

**XmpNodes** is the node array: the rank of a node, its coordinates and the
number that a directive's subscripts name. **XmpLockSpec** is a lock with a
queue. **XmpLock** has one step per handler and per stretch of code between
GASNet calls: a lock or unlock of the node's own lock (`LockOwn`,
`UnlockOwn`) or the message to another node (`LockRemote`, `SendLockRequest`),
the handlers, and the end of the wait (`Locked`, `Unlocked`, which passes the
lock on). `Push`, `Grow` and `Pop` are the circular list. The build links the
single-threaded GASNet (`configure.in:1228`), so a handler never runs beside
other code of its node. `net` is a set: messages arrive once, in any order.
`owner` is a history variable. `ImplementsLock` is `XmpLockSpec` with the queue
read out of the circular list. A node locks only while it holds no lock: the
code would let it lock a second one, and whether programs with nested locks get
on is up to their order.

**XmpPostWaitSpec** counts the posts that no wait has taken. **XmpPostWait**
has the table, its growth by half, the backward search, the removal from the
middle, and both transports: active messages that enter the table at any time
and in any order, and MPI messages that a wait receives.

**XmpAsync** follows one node: the code that a communication directive with an
async clause becomes (`InitAsync`, `ExecTask` for an on clause, `Issue` or
`NotMember`, `FinalizeTask`, `StartAsync`), `wait_async` (`BeginWait`,
`WaitAsync`, `EndAsync`) and `xmp_test_async`. MPI's progress is `Complete`.
A gmove that was received is "packed" until it is unpacked. The guard
`Separate` states what the model asks of the program: one gmove per id, and a
gmove in or out shares its id with nothing.

**XmpfCoarray** follows one image, which is enough because all images call the
same operations in the same order. `mem` holds the malloc history, the sorted
table, and the queues of the lower layer. `Search` is the code's binary search,
`Shifted` and `Overwritten` are the loops that move the entries of the table, and
`UnlinkAll` is the traversal of a procedure's resource set at its exit.
`CountSize`, `MallocPool` and `AllocStatic` are start-up; `Prolog`, `Epilog`,
`Malloc`, `Free`, `FreeDummy` and `FindDescptr` the program. A coarray of a
procedure can be used by the procedures it contains, so `Malloc` and `Free` apply
to the coarrays of all procedures entered. The translator
(`XMPtransCoarrayRun.java:2679`-2758) decides what they pass to `libxmpf`: the
resource set of the running procedure if that procedure declares the coarray,
otherwise none, and the coarray's own descriptor. `FreeDummy` is a DEALLOCATE of
a dummy argument, which passes the descriptor that `FindDescptr` made for the
callee. `STATUS-CAF.md:70` does not support it, but the test
`MIX/autodealloc1.f90` does it.

**XmpTemplate**, **XmpLoop** are operators: what each manner of distribution
gives a node, who owns an index, and the local bounds of a loop, with C's
truncating division from **CInt**. **XmpThreads** lets every node execute its
part with the block schedule of `OmpcSched`; a loop without a directive is the
case of one node.

**OmpcSync_proof**, **OmpcPool_proof**, **OmpcPoolSerial_proof**,
**XmpLock_proof**, **XmpPostWait_proof**, **XmpAsync_proof**,
**XmpfCoarrayMem_proof** and **XmpfCoarray_proof** hold the theorems.
`OmpcSync_proof` extends `OmpcBarrier`, and instantiates `OmpcNestLock` and
`OmpcCritical` over constants and variables of its own, since the three modules
use the same names. The `MC` modules hold the instances.

## Runs

Passing runs:

| Run | Instance | Shows |
|---|---|---|
| `barrier` | teams of 1 to 4, 0 to 2 barriers per region, unbounded regions | nobody leaves a barrier early; `OmpcTeam` is implemented, so the join is complete and no thread is left in a barrier |
| `nestlock` | 3 threads, depth 2 | exclusion, count is depth, a wanted lock is taken |
| `pool` | 3 processors, one region per thread open at a time, nesting on | processors are started once, entries are not reused early, joins are complete, numbers differ, no lost wake-up, the pool is restored, serial means alone |
| `pool_live` | 2 processors, regions two deep | a region of the serial program ends |
| `workshare` | teams of 1 to 3, every separated pair of 10 constructs, chains of three | each iteration, section and single once, one last thread, ordered in order, exact reductions, clean counters between constructs, never everybody waiting |
| `critical` | 3 threads, mutex present or not | exclusion unless the mutex was locked early, some thread enters |
| `sched` | 1 to 4 threads, bounds within 7 of each other, steps 1 to 3 both ways; templates of 3 to 7 indices on 1 to 3 nodes | no iteration lost or doubled, the right last thread; each iteration on its owner, three answers to "whose index" agree |
| `xmp_lock` | 3 nodes, locks on two of them, lists that start with one place | exclusion, order of arrival, no reply that nobody awaits, every lock directive ends |
| `xmp_post_wait` | 2 by 2 nodes, 2 tags, 3 posts pending, tables that start with two places, GASNet and MPI | the table suffices, each post goes to one matching wait, a wait with a post returns |
| `coarray` | 2 module coarrays and 2 local coarrays per procedure, calls two deep, up to 2 static coarrays, a heap that fills up | both layers in step, allocated memory is kept, lookups are exact and the table has room, nothing is held but for a reason or one of two named leaks, no internal error |
| `async` | 3 ids in one slot, 2 communications, 2 node sets | every id finds its work, node sets are kept and released once, nothing in flight is dropped, waits return |

One run ends in a violation, which shows that the code disagrees with what a
comment and a test of the repository say. It has an entry in `findings`:

| Run | What happens |
|---|---|
| `workshare_nowait` | after a dynamic loop with nowait, the thread of the last chunk asks once more and swallows a chunk of the next dynamic loop |

Other disagreements have no run of their own. Changing a configuration as
described shows each of them:

| Configuration | Property | What happens |
|---|---|---|
| `MCWorkshare.cfg`, `Programs <- EmptyDynamic` | `NeverStuck` | a dynamic loop without iterations leaves the flags raised (`ompc_runtime.c:417`, against the comment at 427 "all thread exit"); the next construct waits for ever |
| `MCWorkshare.cfg`, `Programs <- TwoOrdered` | `InOrder` | the second ordered loop resets the turn while the first, with nowait, still runs |
| `MCWorkshare.cfg`, `Programs <- DownToZero` | `EachOnce` | a chunked loop down to 0 has the unsigned bound -1 and executes nothing |
| `OmpcCritical.cfg` | `MutualExclusion` | a mutex locked between malloc and initialisation (`ompc_runtime.c:791`, 794) lets two threads in |
| `MCSched.cfg`, `Loops <- FortranDownChunks` | `EachOnce` | Fortran, downward, chunks (`ompc_runtime.c:298`): iterations doubled or lost |
| `MCSched.cfg`, `Loops <- FortranDownCyclic` | `LastOwner` | Fortran, downward, cyclic: the wrong thread is the last |
| `MCSched.cfg`, `Loops <- AcrossZero` | `LastOwner` | bounds of different signs: no thread is the last |
| `MCLock.cfg`, `Locks <- Array` | `MutualExclusion` | `_XMP_unlock` multiplies the offset by the size of a lock (`xmp_lock_unlock.c:107`), although the comment at 102 says offset 32 for element [3][2]: another element is unlocked |
| `MCCoarray.cfg`, `Threshold = 3`, `StaticSizes = {0, 3}` | `NoInternalError` | a threshold that is no multiple of `MALLOC_UNIT`: the pool is too small (`xmpf_coarray_alloc.c:614`, 730) |

The model of the nestable lock also has this outcome: `omp_test_nest_lock`
returns 0 to the owner of the lock when another thread, which read `count` = 0
earlier, holds `lp->lock` at that moment (`ompc_lock.c:309`).

The descriptor of a dummy argument is linked to its memory chunk
(`xmpf_coarray_alloc.c:780`-808) and no call unlinks it, so the chunk is held
after DEALLOCATE, until its procedure or the program ends. The model does the
same (`Dummy`), and `HeldForAReason` counts it as a reason.

Two chunks are held although no coarray is allocated in them. `HeldForAReason`
names them, and the run and the proof show that there are no others. A coarray
deallocated by way of a dummy argument stays linked to its chunk by the
descriptor of the caller (`Left`). A coarray of a procedure that is allocated in a
procedure it contains is in no resource set (`XMPtransCoarrayRun.java:2688`), so
it outlives the procedure that declares it, although `STATUS-CAF.md:65`-67 promises
"an automatic deallocation at the end of the scope of the name unless it has
SAVE attribute". In the other direction, SAVE does not keep a local coarray: the
translator drops the attribute and the exit frees the chunk. `XmpfCoarray` has
no local coarrays with SAVE.

The following the instances avoid, because the code does not support it or does
it wrong: XMP loops without iterations and with a step other than 1 and -1
(`xmp_loop.c:24` gives one iteration), Fortran XMP loops that count down
(`xmpf_loop.c:137`: two iterations too many), steps other than 1 and -1 on
cyclic templates (`xmp_loop.c:265`; on block-cyclic ones the program stops,
line 127), two gmoves under one id (`xmp_gmove.c:3315`: the first is
forgotten), and `xmp_test_async` for a gmove in or out (`xmp_async.c:148`).

`TypeOK` of each module gives the types of its variables. It is proved where
there is a proof (below) and holds on all instances above; the configurations
leave it out and name only the properties that say more.

### Bounds

`libompc`. A team of three is the smallest with two slaves that can be in
different places while the master is in a third; four adds a slave that the
team may leave out. Two barriers per region make both senses occur, and regions
repeat without bound. Depth 2 is the smallest with a set that nests and an unset
that does not release. Three processors let a nested master compete with the
outer one and exhaust the pool. Pairs of constructs expose what one leaves to
the next; chains of three in which the third construct is the first one again
are checked as well. `Word` = 2^16 stands for the
pointer width: the loops are tiny, so only the sign of a bound matters.

`Separated` in `MCWorkshare` states which programs the `workshare` run covers.
It leaves out exactly three patterns: those of `workshare_nowait`,
`EmptyDynamic` and `TwoOrdered`. The downward loops of the passing runs stay
away from zero for the same reason.

`libxmp` and `libxmpf`. With three nodes a lock has a holder and two waiters, so
a list that starts with one place (`Chunk` = 1) grows and wraps; two locks on
two nodes let a node be host of one lock while it waits for the other. `SizeOf`
is the code's size of a lock. Three pending posts fill a table of two places and
make it grow; the code starts with more places, and the proof covers every
start above 1. Three ids with `TableSize` 2 share one slot, so the chain has a
middle entry; two communications let the entry outlive one of them. The coarray
sizes lie below, at and above the threshold and need rounding or not, and
`HeapSize` lets allocation fail. Up to four chunks are in the heap at once, of
one or two steps of the alignment. The table of coarrays starts with two entries
and grows; deletions never become frequent enough for it to be halved on this
instance. `Names` is symmetric because coarrays are only compared for equality.
Templates of 3 to 7 indices on 1 to 3 nodes include nodes without an index and
last blocks that are not full.

### Fairness

Every thread that can take a step of the runtime takes it in the end (weak
fairness per thread): the operating system schedules every pthread, and
`OMPC_WAIT` yields. The program's own choices (calling a lock operation,
entering a region) are not fair, except that a region's body ends.
`OmpcPool` needs strong fairness for `pthread_mutex_lock` on `ompc_proc_mutex`,
because slaves take it again and again (POSIX does not promise it, but a mutex
that starves one thread for ever is a scheduler failure), and for the ends of
bodies and regions, which says that a program does not fork nested regions for
ever inside one region. No fairness is assumed for spurious wake-ups. In the
nestable lock and the critical section only weak fairness is assumed, and the
properties say that *some* thread gets in: the code gives no thread a turn.

In `XmpLock` messages arrive, a node inside a directive polls (`GASNET_BLOCKUNTIL`
does), and a node that holds a lock unlocks it in the end, which is the
program's part. In `XmpPostWait` a post arrives and a wait that finds a match
takes it. In `XmpAsync` MPI completes what was started, because `WaitAsync`
stands for `MPI_Waitall`, which drives progress, and the calls of the directive
go on. Directives are not fair in any of them: the program may stop.

`CHECK_DEADLOCK FALSE` is set in `xmp_post_wait`, because a node may wait for a
post that the program never makes, and in `coarray`, because a fatal error ends
the program.

## Proofs

*Barrier* (`OmpcSync_proof`), for every `N`, every `MaxBarriers` and every
set of initial senses. The properties are not inductive: that a slave waits
says nothing of its flag. `IInv` adds `Places` (who can be where), `MasterInv`
(the flags below the scan index have the new sense) and `SlaveInv` (a slave's
flag against the sense, and its barriers against the master's: a waiting slave
is at the master's barrier, or one behind after the release). The lemma
`Xor1Alternates` gives the two senses. There is one lemma per action.
`TypeCorrect`, `BarrierCorrect` and `JoinCorrect` follow, and
`TeamImplemented` shows that each step is a step of `OmpcTeam` or a stutter.

*Processor pool* (`OmpcPool_proof`, `OmpcPoolSerial_proof`), for every number of
processors and every depth of nesting. The argument has three layers. The first
invariant, `IInv`, follows each processor by itself: which structures were
allocated for it (`OwnInv`), that those on its free list and those in use add up
(`CountInv`, which bounds the number of structures), what its place in the code
says of its entry (`PlaceInv`), the list of processors that it has taken and not
yet started (`ListInv`: as many as the team still lacks, each once), and who
will wake a slave that sleeps with work (`WakeInv`: a master between the store
of the entry and its broadcast). `TypeCorrect`,
`StartsOnce` and `WakeupKept` follow.

The second, `TInv`, is about teams, and is proved on top of the first. That no
structure in use is free is not inductive: a slave gives itself back *before* it
raises its flag, so it can be in a new region of another team while the master
of the old one still waits for it. `TInv` therefore gives a slave two roles, the
region that it executes (`"job"`) and the flag that it owes (`"debt"`), and says
of both that the master is still between the fork and the join, has not seen the
flag, and gave the number once (`MemberInv`, `UniqueInv`, `ArrivedInv`).
`ChainInv` says how the structures of nested regions of one master are linked,
`DistinctInv` that none is used twice or is on the free list. `NeverFreedInUse`,
`JoinsAll` and `NumbersDiffer` follow.

The third, `SInv` (`OmpcPoolSerial_proof`), is about what the initial thread may
conclude outside all regions. `PoolRestored` and `SerialMeansAlone` are far from
inductive: a busy processor may be the slave of a slave, so that nothing the
initial thread sees speaks of it. `RankInv` says that the processors have ranks
that go up from a master to its slaves, so no region encloses itself; a new slave
gets the rank after its master's. `UsedInv` says that a processor that is taken is
in a region, leaves one, or is on the list of a master. When no region of the
initial thread has a slave, a slave at work has a master that is a slave at work
itself, with a lower rank, so there is none: a set of ranks has a least element,
and this form of induction needs no operator as a parameter. `SerialInv` follows `in_parallel` through
the frames of a master: a region that is not parallel has one thread, and every
region around it is not parallel either. `PoolIsRestored` and `SerialIsAlone`
follow. All invariants were checked on the instances of `pool` and `pool_live`
before they were proved.

*Nestable lock* (`OmpcSync_proof`, instance `Nest`), for every set of threads and
depth. `NestInv` says exactly where `lock` is held (`LockInv`) and where `wait` is
(`WaitInv`: by the owner, and by threads on the way in or out), what a thread
that read the fields still knows (`FieldInv`), and how count relates to the
history (`DepthInv`). `NestLockExcludes`, `NestLockCounts`, `NestLockUnlocks`
and `NestLockWaiters` follow; the last says that a thread which slept on `wait`
meets no owner when it is let in, and is sent back only by a failed trylock of
`lock` (`ompc_lock.c:232`). What `OmpcNestLock` assumes of its constants is a
hypothesis of each theorem here (`NobodyAssumed`, `DepthAssumed`).

*Critical section* (`OmpcSync_proof`, instance `Critical`), for every set of
threads. `CriticalInv`
says who holds `_critical_lock` (`SectionInv`), that the mutex is allocated at
most once and before it is used (`MutexInv`), and that a thread inside holds it
unless some thread met it before its initialisation (`HolderInv`).
`CriticalExcludes` and `CriticalKeepsMutex` follow, again from `NobodyAssumed`.

*Lock over GASNet* (`XmpLock_proof`), for every number of nodes, set of locks and
`Chunk`. Exclusion is not inductive, because a lock changes hands by a
message. `IInv` relates five places: the state of each node (`NodeState`), the
owner and `islocked` (`OwnerInv`), the list of waiters (`ListInv`, `QueueInv`:
exactly the nodes whose request was answered with a wait, each once), the
messages (`NetInv`: what each kind says of its sender and its receiver;
`OneReply`: at most one reply per node), and the node that is about to pass the
lock on (`HandingInv`). That the list has room rests on counting: its entries
are different nodes, so fewer than `N`. `LockExcludes` and `RepliesAwaited`
follow. The last part reads the circular list as a sequence, shows that
`Push` (with its growth and rotation) appends and `Pop` takes the head, and
concludes `LockImplements`. All of these have the hypothesis `SameElement`: an
unlock addresses the element that was locked. The code grants it for offset 0
only, see the table above.

*Post and wait* (`XmpPostWait_proof`), for every arrangement of nodes, every
program and both transports. The invariant `TableInv` adds to `TableFits` that a
table has more than one place, because a table of one place would grow by half
to one; `WaitInv` says that a node awaits something exactly while it waits.
`PostsFit` and `TypeCorrect` follow. `PostWaitImplements` shows that each step is
a step of `XmpPostWaitSpec` or a stutter, which needs two more facts. One is that
the subscripts of a directive name the node that they are meant to:
`NodesNamed`, by induction over the dimensions (the sum of the first `i` terms of
`node_num` is the rank modulo the `i`-th product of sizes). The other is that
nothing is lost or doubled on its way: lemmas on `Count` say what an appended
post, one taken out of the middle of a table, and one that moves from a message
into the table do to the number of pending posts. Induction is by a least
counterexample here (`Least`, `Induct`), on sets of numbers in place of a
predicate, which the prover can handle.

*Asynchronous communication* (`XmpAsync_proof`), for every table size, set of ids
and number of communications and node sets. The properties speak of what the
lookup returns and need to know how the chains behind the slots look. `TabInv`
says it: a slot out of use is alone and empty, everything behind a slot is in use
and belongs there, and no id stands in a chain twice. A first group of lemmas
shows what the three ways of changing a chain do to it (an entry is replaced,
appended, or taken out, where the slot takes over its successor), a second what
that means for the entries of the table. `IssuedInv` says that an entry in use
accounts for what its id has issued, that `MPI_Waitall` sees all of it but for a
gmove in or out, and that only the gmove of an entry can be packed; `WaitInv`
that all is done when `xmpc_end_async` is called; `HeldInv` that each node set is
the current one or in the list of one id. There is one lemma per action.
`TypeCorrect`, `LookupCorrect`, `NodeSetsHeldOnce` and the action property
`NothingDropped` follow. The invariants were checked on the instance of `async`
first. The guard `Separate` is a hypothesis here too: with two gmoves under one
id `IssuedInv` does not hold.

*Allocation of coarrays* (`XmpfCoarrayMem_proof` for the memory by itself,
`XmpfCoarray_proof` for the operations), for every set of coarrays, all
sizes, every heap, alignment and initial table. None of the properties is
inductive, and they need each other: a collection is right only if the two layers
are in step, a deallocation finds its chunk in the table only if the table has
every chunk that is in use, and the table stays sorted only if addresses grow
along the history. `Inv` says all of it of one memory (`MemOK`): the chunks are
adjacent from the start of the heap on (`StackOK`), the table is strictly sorted
between its sentinels, has exactly the chunks that are not garbage, and fits its
memory (`TableOK`); and of the memory with the descriptors (`Good`): a chunk in
use has one holder, which is in the resource set of its own procedure or in none
(`AllHeld`), the newest chunk is in use (`TopHeld`), and each allocated coarray
has its chunk (`AllKept`). `SearchExact` shows that the binary search ends between
the right entries of any sorted table. Then there is one lemma for what each
helper leaves of `MemOK` (`ConstructOK`, `UnlinkOK`, `UnlinkAllOK`, `CollectOK`)
and one for what each operation leaves of `Good`. The recursive functions
(the search, the exit of a procedure, the return of chunks) are unfolded by
showing that a function with their equation exists, again by a least
counterexample. `TypeCorrect`, `HistoryInStep`, `AllocatedKept`, `LookupExact`,
`HeldReasoned` and `TableNeverFails` follow. `NoErrorIfAligned` adds `PoolInv`,
which compares what was counted and used so far with partial sums of the sizes;
it has the hypothesis `Aligned`, that the threshold is a multiple of
`MALLOC_UNIT`, as the default of 40 MB is (`xmpf_coarray.c:12`). Without it the two
traversals disagree, see the table above.
`Inv` was checked on the instance of `coarray` as well.

The assumptions are those named in the modules: numbers of nodes and threads are
positive, the bounds are naturals, `Nobody` is not a thread, `NULL` is neither a
processor nor a thread structure, the initial senses
are integers, locks, posts and waits belong to nodes, the sizes of a node array are
positive and their product is the number of nodes, a table of posts starts with more
than one place, async ids are naturals and their table has a slot, the units of
rounding are positive, the table of chunks has room for its two sentinels, and no
coarray has the name of a descriptor that belongs to no allocatable coarray.

Only model-checked:

- all liveness, with the liveness parts of `ImplementsTeam` and
  `ImplementsPostWait`, and `NeverStuck`, which is about `ENABLED`: outside the
  reach of the prover;
- `OmpcSched` and `XmpThreads` (`EachOnce`, `LastOwner`, `OwnerComputes`,
  `OwnersAgree`): products and quotients of variables, and offsets that are sums
  over a sequence, which take an induction over data;
- the rest of `OmpcWorkshare`: what its constructs do depends on which programs
  `Separated` admits, and `EachOnce` on the schedules of `OmpcSched`.

## Not modelled

The repository has about 199,000 lines, and the models stand for about two in a
hundred of them. Most of the rest has no behaviour over time that a model
checker could explore: parsers, type checkers and rewriting of unbounded syntax
trees in Java and C, generated parsers, text output, and, in `libxmp`, `libxmpf`
and `libacc`, index arithmetic and argument passing around calls of MPI, GASNet,
FJ-RDMA, CUDA and OpenCL, repeated per type, rank and transport. A model of such
code would repeat it line by line and say nothing more. In particular:

- Weak memory: the models are sequentially consistent. The code's `volatile`
  fields and `MBAR` are taken to give that.
- Spin-lock, Solaris and IRIX builds; `USE_PTHREAD_BARRIER`.
- Failing malloc or thread creation (the program exits), `ompc_finalize`,
  processor binding, logging.
- The operators and types of reductions. A reader of the code may look at the
  sum of complex values (`ompc_runtime.c:1007`, by subtraction) and at long
  double (1085, through the double member).
- Iterations that skip their ordered region: the code has no call for them, and
  later iterations wait for ever (`ompc_runtime.c:661`).
- Threadprivate data, whose copies are indexed by the number in the innermost
  team (`ompc_runtime.c:887`); parsing of the environment; library queries.
- The FJ-RDMA transports of `libxmp`; GASNet builds with threads.
- In `XmpAsync`: `_XMP_MAX_ASYNC_NODES` and the array of requests, which end the
  program or are not tested by the code; negative ids; `wait_async` with a list
  of ids is one wait after the other; the node set that executes `wait_async`.
- In `XmpfCoarray`: ALLOCATE of a dummy argument, which `STATUS-CAF.md:70` forbids
  (the chunk would be freed at the exit of the callee; the comment "excessive
  auto-dealloc" in the Makefile of the `ALLOC` tests is about this); recursive
  procedures, whose invocations share the saved descriptor of a local coarray;
  the second descriptor that each procedure using a module has for the module's
  coarray; sizes of 4 GiB and more, which the code truncates to `unsigned`
  (`xmpf_coarray_alloc.c:434`, 443, 453).
- In `XmpLock`: a node that holds several locks. In `XmpLoop`: the offset of an
  alignment in a Fortran loop directive (`REF_OFFSET`), taken as 0.
- Coarray access, gmove's index sets, reflect, reductions and I/O of XcalableMP.
- Front-ends, translators (but for the order of runtime calls), back-ends,
  driver scripts, `interfaces`, `libompf`, `libtlog`.

## Plan

1. `libompc`: threadprivate data with nested teams; the parsing of the schedule;
   a composition of `OmpcPool` with `OmpcBarrier`.
2. `libxmp`: the stack of executing node sets; the shadow exchange.
3. `libacc`: the map of queues and the memory table; the driver's `atool`: the
   pipeline of processes.
4. Proofs: `ReductionExact` and `CleanBetween` of `OmpcWorkshare`; the partition
   by the block schedule of `OmpcSched`.
