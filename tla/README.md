# Verification of the cse522s kernel modules

The repository holds the laboratories, studio exercises and final project of a
course on operating-system internals: loadable Linux kernel modules for a
Raspberry Pi and the user programs that drive them. This directory holds TLA+
modules for the parts with a state of their own, TLC configurations that check
them on small instances, and TLAPS proofs.

- [Inventory](#inventory)
- [Plan](#plan)
- [E2ERun: the run mode of the end-to-end scheduler](#e2erun)
- [E2EPlan: its calibrate mode](#e2eplan)
- [Paging: the demand paging device](#paging)
- [KtcpServer, KtcpClient: the TCP modules](#the-tcp-modules)
- [SharedMemory: a hand-over that implements Transfer](#sharedmemory)
- [The other kernel modules](#the-other-kernel-modules)
- [The other user programs](#the-other-user-programs)
- [Runs, bounds and fairness](#runs-bounds-and-fairness)
- [What is proved](#what-is-proved)
- [Where the code and its words differ](#where-the-code-and-its-words-differ)
- [Not modelled](#not-modelled)

## Inventory

### End-to-end scheduler (`lab2/E2E.c`)

The core of the repository. A generated header gives a table of tasks (period,
first subtask, number of subtasks, execution time) and one of subtasks. The
parameter `mode` selects one of two programs.

*Calibrate mode* (`E2E_init` lines 167-225, `calibrate`, `E2E_exit` lines
245-259). State: the two tables, `sub_ptr` (a table of pointers, sorted twice),
`agg_time` per core, `start_addr` per core, one thread per core, `cal_timer`.
Operations: compute execution times, place subtasks on cores by first fit,
rank them by deadline, start the threads; a thread walks its part of `sub_ptr`
and finds the loop count of each subtask by bisection over time measurements.
Hard: unstable sorts, truncating and wrapping integer arithmetic, a table
shared by all threads and freed under them, the one wake-up by `cal_timer`.
Correct when cores are not overbooked, priorities follow deadlines, every
subtask is calibrated once and by the thread of its core, and counts bracket the
execution time.

*Run mode* (`run`, the two timer callbacks, `E2E_init` lines 226-238,
`E2E_exit` lines 260-266). State: a thread and an hrtimer per subtask,
`last_release_time`, `cal_timer`. Operations: a thread sleeps, is released, runs
`subtask_func`, checks its deadline, arms its own timer (the first subtask) and
releases its successor by `wake_up_process` or by arming the successor's timer.
Threads, interrupts and the exit handler share the table without locks. Hard:
wake-ups lost or doubled, stale `last_release_time`, timers of threads that have
ended, `kthread_stop` at any point. Correct when subtasks of a task run one
after the other, releases are a period apart, deadline misses are reported, and
unloading leaves nothing behind.

### Demand paging device (`lab-1/mod/paging.c`)

State: the parameter `demand_paging`, `alloc_number`, `free_number`, and for
each mapping a `private_data` with a reference count and a list of pages.
Operations: `mmap` (on demand or prepaged), the fault handler, `open` and `close`
of an area, unloading. The kernel calls them under `mmap_sem`: faults of the
threads of a process run at once, everything else of a process excludes them.
Hard: an unlocked list, areas split and closed part by part, a parameter that
changes between `mmap` and `close`, failures in the middle, freed memory used.
Correct when no page is freed while it can be reached, none is shared between
processes, and none is lost.

### Kernel sockets (`final_project/tcp_server.c`, `tcp_client.c`, `udp_server.c`)

State: the listening socket with its accept queue, a socket and a thread per
connection, one global buffer, the module's own thread. Operations: load,
accept, receive, print, unload; the client connects, sends once and yields the
processor until it is stopped; the UDP server receives with a timeout. Hard: the
sleep that can miss a connection or a stop (`tcp_server.c:191-195`), the
buffer shared by all connection threads (112-116), errors not told from messages
(114), threads that outlive the module, a pointer one thread clears and exit
uses (`udp_server.c:93`). Correct when each connection is accepted, printed as it
came and ended, and unloading ends.

### Kernel FIFOs (`final_project/kernel_fifo_test.c`, `kfifo_example.c`)

State: a kfifo (two running indices and a storage), two mutexes, a proc file;
in the first module a reading and a writing thread as well. Operations: read and
write of the file, the threads, load, unload, a self test in the second. Hard:
the reading thread takes no lock; the file may be gone when the writing thread
opens it. Correct when bytes come out once and in order.

### Shared memory (`studio5/leader.c`, `follewer.c`)

Two processes hand over an array through three flags in a region that has a
name. Either may be killed and started again. Correct when the follower reads
what the leader wrote, the leader destroys the region only after that, and
both end.

### Timing (`studio8/timing_module_q7.c`, `timing_module.c`)

Four real-time threads meet at an atomic counter; in the other module a
thread, its child and two timers record eight stamps. Hard: numbers read from
the stack of a handler that has returned, spinning at real-time priority, unloading at
any point, timers cancelled after their threads. Correct when nobody passes the
barrier early, it opens, and printed differences are of stamps taken in order.

### Periodic threads (`studio7/realtime_module.c`, `studio13/interfering_module.c`)

A timer that restarts itself wakes three threads of one core at different rates,
or one thread. Hard: unloading cancels the timer first. Correct when unloading ends.

### Kernel memory (`studio4/kernel_memory.c`)

A thread lays out structs on pages it allocates, fills them and checks them when
it is stopped. Hard: wrapping and truncating arithmetic, a parameter written
while it is read. Correct when the check finds what was written.

### User programs

`studio12`: an observer lists `/proc` over and over and reports what came and
went while other processes fork and end. `studio11`: a watcher adds a watch for
every file created in a directory it watches. `studio15/random_access.c`: a
benchmark over a shift register. `lab-1/user` and `studio15/dense_mm.c`: matrix
programs whose sizes come from the command line. Hard: the world changes between
two looks at it; wrapping products.

### Programs without a state worth a model

`studio3`, `studio6`, `studio9`, `studio10`, `interfering_process.c`, two stubs of
the final project and `gen.py` are straight-line calls. `lab2/backup.c` is an older
version of `lab2/E2E.c`; `pi-backup/` holds older copies.

## Plan

In order of importance; all are written.

| module | models | composes with | proved |
|---|---|---|---|
| `E2ERun` | run mode | | types, precedence, period, reports, unloading |
| `E2EPlan` | calibrate mode | | types, `SearchBand`, `CalibratedOnce`, `PriorityOrder`, `NotOverbooked` |
| `Paging` | demand paging device | | types, pages, references, losses |
| `Transfer`, `SharedMemory` | studio5 | `SharedMemory` implements `Transfer` | the refinement |
| `KtcpServer`, `KtcpClient` | TCP server and client | each other, over a network | types, `PrintsWhatCame` |
| `KfifoModule` | kernel FIFOs | | types, `BytesInOrder`, `SelfTestPasses` |
| `Barrier`, `Timing` | studio8 | | types, `NobodyLeavesEarly`, `DifferencesAreReal` |
| `PeriodicThreads`, `KernelMemory`, `UdpServer` | studio7, 13, 4, final project | | types, `VerifiesClean` |
| `ProcessObserver`, `Inotify` | user programs | | |
| `RandomAccess`, `MatrixPrograms` | user programs | | `StartsAgrees`, `TableRestored`, `FaultsOnlyWhenTooBig` |

Every safety property a passing run checks is a theorem. Still worth proving: safety
facts that the liveness properties rest on, such as that a thread whose stop is
pending is awake or will be woken.

`E2EPlan` and `E2ERun` are not composed: the output of the first reaches the
second through the system log, `gen.py` and a recompilation, and `E2ERun` takes
any tables of the shape `TablesAssumption` states.

## E2ERun

| model | code |
|---|---|
| `tasks`, `subtasks`, `TablesAssumption` | the tables of `sched.h`, `unsched.h`, `missched.h`, whose fields are below `UintSize` |
| `Product`, `RelDdl` | the `uint32_t` product of line 135, exact, and the deadline the code makes of it, which wraps at `UintSize` |
| `pc[s]`, `woken[s]` | the place of a subtask's thread in `run`; the task state seen by `wake_up_process` |
| `stop[s]` | the flag behind `kthread_should_stop()` |
| `last_release_time`, `timer` | the fields of `struct subtask`; a timer is raw, idle or has an expiry |
| `seen[s]` | the successor's `last_release_time`, read at line 147 and used at line 151 |
| `loader` | the place in `E2E_init` and `E2E_exit` |
| `ThreadEntry`, `TestStop`, `MarkAsleep`, `Release`, `Finish`, `Peek`, `WakeSuccessor`, `ArmSuccessor` | lines 119-156, cut where another thread or an interrupt can come between with effect |
| `RunTimerFunc`, `CalTimerFunc` | the two callbacks, which wake a thread whether or not it has ended |
| `Reaped`, `UseTasks` | threads whose `kthread_stop` has returned, so that their task is freed; a callback that wakes one of them goes unnoticed or brings the kernel down (`panic`), where the model ends |
| `CreateThread`, `StartCal`, `BeginExit`, `StopThread`, `JoinThread`, `CancelTimer`, `CancelRawTimer`, `CancelCal` | the two handlers, one action for each round or call |
| `credit`, `origin`, `done` | history: completed runs not yet followed by a release; the instance a job belongs to |

`subtask_func` takes any time: time passes between `Release` and `Finish`. Every
placement on cores and every priority gives some of the interleavings explored.
A thread leaves `schedule()` only when woken. `kthread()` ends a thread stopped
before it first ran. `hrtimer_cancel` of a timer never initialised is a null
dereference (`oops`); it happens when a module is unloaded before a thread has
run.

Properties. `Precedence`: the direct wake-up and the timer together release
a subtask at most once per completed run of its predecessor (one more after
`kthread_stop`). `HeadSeparation`: two releases of a first subtask are a period
apart. `NoFalseAlarm`: `MISSED DDL` is printed of late jobs only, late by the
deadline computed without a wrap (`Deadline`), where the one the code computes
(`RelDdl`) wraps. It holds of the subtasks whose product on line 135 fits 32
bits. A period times a cumulative execution time (both in ms in the tables, for
example 70 s and 62 s) can be more than 2^32; then the code's deadline is too
early and it reports jobs that were in time.
`ArmsInitialisedTimer`: a hand-over finds the successor's thread and timer in
place. `UnloadOrder` says which callbacks can find their thread ended. A
subtask's own timer can, between lines 262 and 263, where it is the next to be
cancelled. `cal_timer`, which is cancelled last (line 266) and whose callback has
no guard, can while the loop goes on, but only when unloading began before
`cal_timer` had fired: then no first subtask has been released that was not
stopped. Nothing is left at the end. The property does not say that the code
never wakes a freed task; it does, in both windows, and the runs reach `panic`.
`StopTakesEffect`: a stop request that does not land between lines 127 and 128
ends the thread, unless such a callback brings the kernel down first.

## E2EPlan

| model | code |
|---|---|
| `period`, `exe_time` | any values from `Periods` and `ExeTimes`: the input of a header |
| `sub_ptr`, `start_addr`, `cur` | pointers into the table, as indices; index `SubtaskTot` is the sentinel |
| `SortedBy` | `sort()`: any order the comparison allows, since it is not stable |
| `Demand`, `Load` | the `uint32_t` product and sum of lines 187-188, which wrap at `UintSize` |
| `Assign`, `Rank`, `Spawn` | one round of the loops of lines 183-198, 200-206, 211-216 |
| `Probe`, `Settle` | one round, and the end, of the bisection of lines 79-88 |
| `Elapsed(n)` | what `ktime_get()` shows around n rounds of `subtask_func`: at least `n * LoopCost`, at most `Jitter` more |
| `Target(s)` | `exe_time * NSEC_PER_MSEC` modulo `WordSize` |
| `RunWild` | a thread goes on after `E2E_exit` has freed the table or the module |
| `searched_by` | history: the threads that calibrated a subtask |

`kthread_bind`, the scheduling class and the messages are left out; so is
`kthread_create` failing. Two more ranges are assumed and not modelled: the
execution times of all subtasks together fit 32 bits (49 days of ms, the fields
`cumulative_exe_time`), and the 64-bit products of the two comparisons do not
wrap.

Properties. `NotOverbooked`: if all periods divide the longest and no product or
sum of lines 187-188 wraps (`NoWrap`), no core gets more work than it can do unless
the set is reported. An execution time of 62 s in a hyper period of 70 s is such a product: it wraps, looks
small and passes the test: an overbooked core goes unreported. The property excludes
that case because the code does not handle it. `PriorityOrder`: the two
sorts and the ranking give distinct priorities on a core, in the order of relative
deadlines, so that a subtask outranks its successors. `SearchBand`: the ends of
the bisection stay on their sides of the target and the result misses it by
no more than the jitter. `CalibratedOnce`: only the thread of its core calibrates a
subtask, and when all have returned each has been. `CalibrationEnds`: a thread
`cal_timer` found asleep finishes. A thread that was not asleep yet misses its
only wake-up and never begins; the property does not promise otherwise.

## Paging

| model | code |
|---|---|
| `vmas`, `page_table` | the kernel's areas and page tables, which the handlers change |
| `live`, `reference`, `ptr_to_pagelist`, `ready` | the `private_data` objects; `ready` when the list head was initialised |
| `taken` | pages from the page allocator, with (history) for whom and how |
| `fault[t]` | a thread in `do_fault`; `rest` is the old first cell between the two halves of `list_add` |
| `closing[p]` | a process in `paging_vma_close` |
| `MmapOnDemand`, `MmapPrepaged` | `paging_mmap` with its error returns |
| `Fault`, `AllocPage`, `Remap`, `NewCell`, `LinkCell` | `do_fault`, cut where other threads of the process interleave |
| `Split` | the kernel divides an area and calls `paging_vma_open` |
| `Unmap`, `Put`, `FreeCell`, `FreeBlock`, `KfreeData` | the kernel clears an area, then `paging_vma_close` |
| `SetParameter`, `RemoveModule` | a write to the parameter; `rmmod` |
| `intact` | FALSE once undefined behaviour has shown: the model ends there |

Undefined behaviour is a choice. The free loop reads a cell it has just
freed: it goes on as if the cell were intact, or the model ends
(`FreedCellReused`). `free_pages` on a user address frees nothing or corrupts
memory. An uninitialised list, a second `remap_pfn_range` on a used entry
(`BUG_ON`) and a handler of a removed module end the model.

Properties. `MappedPagesAreOwn`: a page a process can reach is allocated
and is reached by nobody else. `ReferenceIsExact`: the count is the number of
areas that share the data, and the data outlives them. `NoPageLost`: in demand
mode, a process with one thread loses no page whatever it splits, unmaps and
fails to map. A process with two threads may, by the unlocked `list_add`, and
`RemovalTellsLoss` says that the two numbers printed on removal then differ by
exactly the pages lost. Prepaged pages are never freed by the code
(`paging.c:115` passes the wrong address) and are not counted.

## The TCP modules

`KtcpServer` has the server's module; `KtcpClient` EXTENDS it with the client's
module and says what the two and other programs do together.

| model | code |
|---|---|
| `loader`, `stop`, `server` | init and exit, `kthread_should_stop()`, the place in `ktcp_server_start_threadfn` |
| `listening`, `backlog` | the listening socket and its accept queue |
| `peer[c]`, `stream[c]` | external: the far end of a connection; what it sent and TCP has not delivered yet, in pieces of at most `BufLen` bytes |
| `conn[c]`, `recvd[c]` | a connection's thread, and the piece it is about to print (`Nothing` at the end of the stream) |
| `buf` | the global buffer, byte by byte: of each, whether it is zero and otherwise whose it is. `Filled` stores a piece and leaves what is behind it |
| `Printed`, `Overruns` | what `%s` prints of it; without a zero it reads on behind the buffer, which goes unnoticed or ends the model |
| `Test`, `MarkAsleep`, `Accept` | one round of lines 185-226, cut where a connection or a stop can come between |
| `Starts`, `Receives`, `Prints`, `ReceivesError`, `ReceivesEnd`, `PrintsEnd` | `connection_threadfn` with `ktcp_recv`; a receive of 0 is printed like a piece (lines 97-99) before the thread ends |
| `Enqueue`, `Deliver`, `Hangup`, `Reset` | external: TCP, with resets that may lose what was under way |
| `client`, `client_loader`, `client_stop` | the client's module |
| `intact` | FALSE once undefined behaviour has shown (a double free, a release of an unset pointer, a print past the buffer, code of an unloaded module): the model ends there |

Every call that can fail may fail, with the code's error path.

Properties. `PrintsWhatCame`: what a thread prints is the text of the piece it
received, up to its first zero, with nothing of an earlier one; at the end of the
stream an empty line; and it prints past the buffer just when the piece filled the
buffer with text (the 1024 bytes of lines 71 and 92 leave no room for a
terminator). All this unless another thread received into the buffer since it was
cleared, or used it between receive and print (`touched`): the clearing protects a
thread from its own past, not from the others. `EachServed`: every queued connection gets its thread
unless it came in the window before the sleep (`late`). `ConnectionEnds`: the thread
of a peer that hung up or reset ends: the error costs it one more
round. `ServerUnloads`, `ClientUnloads`: unloading ends, unless the stop came in that
window (`missed`); the client has no such window, since it never sleeps.

## SharedMemory

| model | code |
|---|---|
| `name`, `sized`, `unlinked` | the region that has the name, what `ftruncate` and `shm_unlink` did |
| `write_guard`, `read_guard`, `delete_guard` | the regions in which each flag is set |
| `data`, `unseen` | the elements written to a region, and those another processor does not see yet |
| `weak` | whether stores may be seen out of order: the array is filled by `memcpy`, and nothing orders it before the flag (`leader.c:52-60`) |
| `Leader...`, `Follower...` | the two programs, a step per access to the region |
| `LeaderKilled`, `FollowerKilled` | a kill at any point, or the error of a call; the next run finds the region as it was left |

`Transfer` is the promise: of each region, the whole array is announced, then
taken, then destroyed; a region found in use is abandoned. `Phase` maps
the regions of `SharedMemory` to it, and a state without counterpart (a flag set
over an array that is not whole) to `torn`, which `Transfer` never reaches.
`ImplementsTransfer` is the refinement: with stores seen in order, every step of the
programs, kills included, is a step of `Transfer` or leaves it alone. With
`weak` it fails, which is the hazard of `leader.c:60`. `HandoverEnds`: a follower
that came after the leader cleared the flags gets the array, and the region is destroyed.

## The other kernel modules

`KernelModulesMC` puts them side by side: `loaded` names the module a behaviour
is about, the others stay in their initial states, and the state space is the sum of
theirs. They share nothing; one run asks the same question of each.

- `KfifoModule`: bytes are numbered as they are written, `slot` holds them at the
  index modulo `Size`, and a copy and the move of its index are two steps.
  Each action is the code of both modules; `kind` says which is loaded.
  `BytesInOrder`: readers get the bytes once and in order until the reading
  thread and a reader of the file take at once (`overlapped`); what happens then is
  not followed. `TestQueue` computes what the self test leaves in the fifo.
- `Barrier`: `Runs` lets a thread run only when no thread of higher priority needs
  its core. A number read after init has returned may be anything. `NobodyLeavesEarly`
  and `BarrierOpens` (under weak fairness of each thread that may run).
- `Timing`: `ts` is the order of the stamps. Timers fire until they are cancelled, also
  for an ended thread or a removed module. `DifferencesAreReal`: when exit prints its
  five differences, both stamps of each were taken, in the right order.
- `PeriodicThreads`: both periodic modules. `PeriodicUnloads`, unless a stop
  falls between a thread's test and its sleep (`lost`).
- `KernelMemory`: structs are counted, not bytes. `VerifiesClean`, of one value of
  the parameter for all its reads and no wrap: when the structs fill a page they lie
  in the allocated pages and the check at the end passes; when they do not, from
  0 structs on, no page is counted and the division of line 83 is by zero, so that the thread
  never gets to its check.
- `UdpServer`: `UdpUnloads`, which rests on the receive timeout.

## The other user programs

`UserProgramsMC` puts them side by side, with `SharedMemory`, in the same way.

- `ProcessObserver`: `parent` is the tree of processes, which `Launch`, `Fork` and
  `Terminate` change at any moment; a scan reads one entry of `/proc` per step.
  `CreationSeen`: every process started after the first scan is reported or ends.
  A list has room for `ListLen` entries; one more is written behind it, harmlessly or
  not (`corrupt`), and after harm nothing is promised.
  `Found` is the crossed comparison of lines 119-126, with a free choice where
  it reads past a list.
- `Inotify`: files are created, removed and renamed by others; `queue` has the
  events of creations; paths are composed when an event is read. `EachWatched`: a file
  whose creation was queued is watched in the end, unless it, or a name on the way,
  changed, or the program wrote past an array: the table of watches, or the
  256 characters of `path`, which a path of more than `PathLen` names overruns.
- `RandomAccess`: a word is the set of its bits. `StartsAgrees` compares
  `HPCC_starts`, by squaring, with the n-fold step of the register; `TableRestored`:
  every second pass undoes the one before, and no update leaves the table as long as
  an int can number its entries. The low bits of a word go through an `int` (lines 42
  and 52): from `2^IntWidth` entries on the sign bit is among them, and an offset can
  be negative (`intact`). `PeriodAssumption` says that `PERIOD` is one.
- `MatrixPrograms`: four programs, their size checks and the furthest index of their
  loops. `FaultsOnlyWhenTooBig`: an accepted size faults only where a product wraps, a
  call failed or more rows were asked for than there are.

## Runs, bounds and fairness

| run | configuration | bounds | states |
|---|---|---|---|
| `run_chain` | `E2ERun_chain.cfg` | one task: head, middle, last; period 2, clock to 5; 32 bits hold up to 4 | 1 395 696 |
| `run_unload` | `E2ERun_unload.cfg` | tasks of one and of two subtasks, periods 1 and 2, clock to 3 | 100 307 |
| `run_misses`, `run_separation`, `run_stuck` | same names | one task of two subtasks | until violated |
| `plan_calibrate` | `E2EPlan_calibrate.cfg` | tasks of two and of one subtask, 2 cores, periods {2, 4}, times {1, 2}, counts to 3; 32 bits hold up to 7 | 99 082 |
| `plan_corefits` | same name | two subtasks, one core | until violated |
| `paging_device` | `Paging_device.cfg` | processes with 2 and 1 threads, 2 pages of address space, 3 frames, 2 private_data | 1 449 631 |
| `ktcp_network` | `Ktcp_network.cfg` | the client and one other peer, one of them may be reset; one piece under way; a buffer of 2 bytes | 162 371 |
| `kernel_modules` | `KernelModules_kernel.cfg` | a fifo of 2 bytes and 3 bytes written, 2 users; 4 cores; pages of 4 structs and 32 structs before the wrap, 0 to 36 structs; 2 datagrams | 31 729 |
| `user_programs` | `UserPrograms_user.cfg` | arrays of 2, 2 regions, 2 runs of each program; 3 pids and 3 births; 3 files, 2 names, a table of 3, paths of 1 name; lists of 2 pids; words of 4 bits, an int of 3, tables to 8 entries; sizes to 5 of 4 | 44 057 |
| `observer_deleted` | `UserPrograms_deleted.cfg` | 4 pids, lists of 4 | until violated |

`run_chain`: three subtasks are the least that have a subtask with both a
predecessor and a successor; the clock allows two full periods after the first
release, so that an armed timer, a late job and a new instance overlap. `UintSize`
is 5 there, so that the product of the last subtask wraps and those of the others do not.
`run_unload`: two tasks, so that one thread is stopped while the others and
their timers run. Past `MaxTime` the clock moves only for a thread
`E2E_exit` waits for.

`plan_calibrate` starts from every choice of periods and times. `WordSize` 8 does not
wrap their nanoseconds; `UintSize` 8 wraps the largest product, 2 * 4, and none of the
others. Both outcomes of the admission test, equal utilisations
and deadlines, an empty core and a target beyond `MaxCnt` all occur.

`paging_device`: two threads fault on one page and on two pages of one
area; an area of two pages can be split; three frames are enough for a page
to be freed and handed to the other process; `MaxFaults` bounds the
counter at the start of a fault, so that up to four pages are counted;
`MaxToggles` is one, from either value. Frames, private data and the two
threads of the first process are symmetric; only invariants are
checked with symmetry. Deadlock is not checked in any run: every system may stop
(all threads asleep, the module removed).

`ktcp_network`: two connections are the least that share the buffer; one piece
under way of either kind, since a thread takes them one by one; the client's
message, which ends in zeros, comes in one piece or in two; the other peer sends a
byte of text or two, which fill the buffer. `kernel_modules`: three bytes
go once round a storage of two, with two readers of the file and the reading thread; all four threads of the barrier on a
machine without core 4; sizes of zero, less than a page, a full page,
one less than the wrap and beyond it. `user_programs`: a second run of each shared memory
program finds what a killed first one left; three pids are reused as processes end; three files make
a directory in a directory, one more watch than the table has room for and a path
longer than `path`; three pids are one more than a list has room for; an int of
three bits is just too short for the table of eight entries; the
register of four bits has a period of 15, and arguments from -31 to 31 go twice
round it both ways.

Fairness (`FairSpec`): a runnable thread runs, an expired timer fires, time
passes, and a handler that has begun goes on: what the kernel's scheduler and
timers give. A `SCHED_FIFO` thread can be kept from a core by a thread of higher
priority, but only while that one runs, and `subtask_func` is finite. Nobody
has to unload the module, and no wake-up is promised beyond those the code makes.
The other modules take the same: weak fairness of each thread that can run
and of a handler that has begun; none of peers, processes, users, timers or
kills. In `Barrier` a thread can run only when no thread of higher priority needs its
core, so its fairness promises nothing that priorities forbid.

Each property has a mutant: the definition with an underscored suffix
before the one it replaces is a slip that the run detects.

## What is proved

`E2ERun_proofs.tla`, for all tables that satisfy `TablesAssumption` (any
number of tasks and subtasks), any clock and any delay:

| theorem | property |
|---|---|
| `TypeCorrect` | `TypeOK` |
| `PrecedenceHolds` | `Precedence` |
| `HeadSeparationHolds` | `HeadSeparation` |
| `NoFalseAlarmHolds` | `NoFalseAlarm` |
| `ArmsInitialisedTimerHolds` | `ArmsInitialisedTimer` |
| `UnloadOrderHolds` | `UnloadOrder` |

The argument. `TableFacts` and `SuccInjective` draw from the tables that `s - 1`
and `s + 1` are a subtask's neighbours and that no two subtasks have one
successor. `HeadsAreHeads`: `cal_timer` wakes only first subtasks.

- *Precedence* is not inductive: a release consumes what an earlier step
  granted. `CreditInvariant` counts every place a granted release can be in (the
  predecessor about to wake or arm, the successor woken, its timer armed) as at
  most the credit, a pending stop apart.
- *HeadSeparation*: until the module is stopped, what can release the head is a
  wake-up or a timer at or after `last_release_time + Period`;
  `HeadInvariant` says so for the timer, the wake-up and the thread. It needs
  `QuietInit`: before the first release nothing but `cal_timer` is pending.
- *NoFalseAlarm*: `OriginInvariant` says that the head's `last_release_time` is
  never older than the instance a job belongs to. A product that does not wrap makes
  the code's deadline the one that is meant.
- *ArmsInitialisedTimer*: `TimerInvariant` follows a thread from its creation:
  it passed line 125 before it could be released, and its
  `last_release_time` is 0 until then.
- *UnloadOrder*: `ExitInvariant` says how far the exit loop is: below its index
  all threads are dead and all timers idle, and none can be armed again, since
  `StopOrder` has the predecessors stopped first. For `cal_timer`, `QuietInit`:
  while it is armed, no first subtask has been released but by its stop.

`E2EPlan_proofs.tla`, for all tables that satisfy `PlanAssumption` (any number of
tasks, subtasks and cores), any speed of the board, jitter and word size:

| theorem | property |
|---|---|
| `CalibratedOnceHolds` | `CalibratedOnce` |
| `SearchBandHolds` | `SearchBand` |
| `PriorityOrderHolds` | `PriorityOrder` |
| `NotOverbookedHolds` | `NotOverbooked` |
| `TypeCorrect` | `TypeOK` |

The invariants build on one another.

- `PlanInv`: after the two sorts `sub_ptr` is a permutation in the order of
  cores, and `start_addr` of a core is the index of its first subtask, or the
  sentinel. It follows `Rank` through the table: the entries it has passed come
  at or after the start of their core.
- `WalkInv`: a thread begins at `start_addr`, and has calibrated
  everything between there and its position. `CalibratedOnce` says nothing of
  positions and is not inductive. When a thread meets another core or the
  sentinel, `WalkedAll` uses the order of `sub_ptr` to conclude that no subtask of its core
  comes later; `ProbesFresh` says that a thread writes only the `loop_count` of a
  subtask nobody has calibrated.
- `BandInv`: `SearchBand` without the exemption of a freed table.
  `ProbeKeepsBounds` is the step of the bisection.
- `DataInv`: the keys of the second sort, sums of execution times, grow along a
  task. `RankInv`: after that sort nothing comes before what ranks before it, and
  the entries ranked so far count down from the top. `PriorityOrder` speaks of the end
  of the loop only; `LessTimes` turns an order of fractions into one of products.
- `AdmitInv`: while subtasks are placed, `agg_time` of a core is the sum
  of the demands of those placed on it, and stays below the hyper period
  unless the set is reported; `NoWrap` makes that sum the one 32 bits hold. `DemandDivides` is why whole periods are needed: then
  the truncated quotient is the work itself.
- `RangeInv`: the ranges of the search, which need `min_cnt <= max_cnt` while a
  thread probes.

The model sums with `SumFunctionOnSet`, which adds in an order it chooses.
`SumRemove`, `SumSame` and `SumGrows` say that the order does not matter. They
rest on `SubsetInduction`, which draws induction over the subsets of a finite set
from the well-foundedness of strict inclusion.

`Paging_proofs.tla`, for any processes, finitely many threads, any address space,
frames, private data and bounds on faults and on writes of the parameter:

| theorem | property |
|---|---|
| `TypeCorrect` | `TypeOK` |
| `PagesAreOwn` | `MappedPagesAreOwn` |
| `ReferenceCounts` | `ReferenceIsExact` |
| `PagesAreNotLost` | `NoPageLost` |
| `LossIsTold` | `RemovalTellsLoss` |

One invariant, `IInv`, carries all five; until undefined behaviour has shown
(`intact`) it says, in parts:

- `AreasOK`, `LockOK`, `ClosingOK`, `CountOK`: areas of a process are apart, data
  is of one process, a fault excludes a close of its process (`mmap_sem`), and the count is the
  number of areas that share the data, and one more between the kernel's taking an area
  out and `paging_vma_close`'s decrement. `ReferenceIsExact` alone does not
  survive that window.
- `TakenOK`, `MappedOK`, `ListsOK`, `HandsOK`: every page is in one place. It is
  reached by one address, on one list, or in the hands of one fault; `Linked`
  counts a page as on the list while a thread between the two halves of `list_add`
  holds the old list, since it will write it back.
- `LossOK`: allocated pages not yet counted, plus those counted, are those freed plus those
  still taken. This is what makes the difference of the two numbers the loss.
- `ModeOK`: while nobody writes the parameter the last close goes the way the
  faults went; `AloneOK`: the only thread of a process writes back the list it read.
  `NoPageLost` needs both.


`Barrier_proofs.tla`, for every set of cores that has 0, 1 and 2:

| theorem | property |
|---|---|
| `NobodyLeavesEarlyHolds` | `NobodyLeavesEarly` |

`NobodyLeavesEarly` says nothing of the counter and is not inductive. `Counted` adds
that the counter is the number of threads that have not come yet, and `Waiting` that
the module's init has set it before any thread is awake. `ZeroMeansAll` is the
lemma that opens the barrier: a counter of zero leaves no thread before `spin`.

`Ktcp_proofs.tla`, for any number of connections and any network:

| theorem | property |
|---|---|
| `PrintsWhatCameHolds` | `PrintsWhatCame` |
| `TypeCorrect` | `TypeOK` |

The inductive invariant `Undisturbed` extends the property to the time before
the piece comes: while nobody else used the buffer since a thread cleared it, the
buffer is clear when the thread receives, and holds its piece, and zeros behind it, when
it prints. That the prefix `%s` prints is then the text of the piece follows byte by
byte, for any `BufLen`; it needs the type of the pieces (`TypeInvariant`).
`ClearingKeeps` and `ReceivingKeeps` show that every use of the buffer by one thread
marks all others that are under way, so that the invariant has nothing to say of them.

`TypeOK` is not inductive: the head of the accept queue is a connection only if
there is one. `Queued` says that a connection waits in the queue once, that a
waiting one has no thread yet, and that the server accepts only from a queue that is
not empty.

`KernelModules_proofs.tla`, for any parameters of the modules:

| theorem | property |
|---|---|
| `StampsInOrder` | `DifferencesAreReal` |
| `FifoOrder` | `BytesInOrder` |
| `MemoryVerifies` | `VerifiesClean` |
| `SelfTestIsPassed` | `SelfTestPasses` |
| `TypeCorrect` | `TypeOK` |

- *StampsInOrder*: the property speaks of the moment exit prints. `TInitOrder`,
  `TThreadOrder` and `TExitOrder` say at every place of init, thread and exit which
  stamps have been taken and that each is later than those before, however the
  removal falls between them.
- *FifoOrder*, for any size and number of users: `FIndices` keeps the indices
  within `Size` of each other, `FWriting` and `FReading` say what a copy has done
  whose index has not moved, and `FLocks` who may be in the middle of one. `SlotsDiffer`:
  bytes less than `Size` apart have different slots. A user is not called
  like a thread (`KfifoAssumption`).
- *MemoryVerifies*: `MemInv` follows one value of the parameter through its three
  readings. `Fits` is the arithmetic: the pages `my_get_order` asks for hold the structs.
  `NoPages` is the other half: structs that do not fill a page give no page, and the
  thread has no step past the division. The recursion of `my_get_order` is `Shifts`, whose values `ShiftsIs` gives from the existence and
  uniqueness of every first part of it.
- *SelfTestIsPassed* evaluates the sequence of calls of `testfunc`.
- *TypeCorrect* takes the types of the barrier from `Barrier_proofs`.

`UserPrograms_proofs.tla`, for any width, polynomial, table sizes and arguments, any
range of an unsigned and any sizes of matrices:

| theorem | property |
|---|---|
| `StartsAgreeAlways` | `StartsAgrees` |
| `PassesUndo` | `TableRestored` |
| `WalksStayInside` | `FaultsOnlyWhenTooBig` |

- *StartsAgreeAlways* rests on `PeriodAssumption`: as many steps as `PERIOD` lead
  back to the first word. TLC evaluates it on the small instance. For the code's 64 bits
  and 1317624576693539401 it amounts to `HPCC_starts(PERIOD) == 1`: up to the
  period `PowerIs` needs no assumption. Running the function confirms it. Words with XOR are a vector space, the step is linear
  (`StepLinear`), and so is squaring (`SquareLinear`). That `Square` of word k is
  word 2k (`SquareDoubles`) comes from `SquareOfStep`, for which the square of
  the polynomial itself is needed (`SquareOfPoly`). `Multiplier` gives it
  without polynomials: every word is what a linear map that commutes with the step makes
  of the first word. `PowerIs` and `ReducedIs` are the two loops of `HPCC_starts`.
- *PassesUndo*: `RandInv` says that a first pass makes a trace of words and
  differences, and a later pass follows the same trace, since it starts from the
  same word; twice the same difference is none (`XorTwice`). While an int can number the
  entries no offset is negative, so that nothing is cut short.
- *WalksStayInside*: `MatInv` keeps the column below the side and what was
  mapped at the bytes asked for; `WalkFaults` is the arithmetic without a wrap.

`SharedMemory_proofs.tla`, for any array, regions and number of runs and kills:

| theorem | property |
|---|---|
| `HandsOver` | `ImplementsTransfer` |

Every step of the programs is a step of `Transfer` or a stutter, as long as stores
become visible in order (`~weak`); with `weak` the theorem says nothing of the
phases, as the property does. Which step is which is in `CheckIsStep` (abandon),
`AnnounceIsStep`, `DoneIsStep` (take, or nothing for a second follower) and
`UnlinkIsStep` (destroy). They need an invariant, `Good`: a flag says what it
stands for (`Flagged`: a region that is announced is written, and one that may be
deleted was taken whole), the leader clears and writes only a region that is not
announced (`Leading`), and the follower found written what it copied
(`Following`). `Good` is what a region survives a killed program with. `PhaseIsPlain`
concludes that no region is in the phase "torn", which `Transfer` does not have.

Only model-checked: the liveness properties (`StopTakesEffect`, `CalibrationEnds`,
`EachServed`, `ConnectionEnds`, `BarrierOpens`, `HandoverEnds`, `CreationSeen`,
`EachWatched` and those of unloading). They rest on fairness and ENABLED, which are out of the
prover's reach. `ProcessObserver` and `Inotify` have no other property in a passing
run, and so no theorem.

Induction. The library's induction theorems take an operator as a parameter, which the
provers here cannot instantiate. The proofs use sets instead: a set that is not
everything has a least member outside (`WFMin`), which gives induction over the
numbers (`FromZeroOn`, `SmallestFirst`), over the subsets of a finite set
(`SubsetInduction`) and over the bits of a word (`BitByBit`). A recursive function
is what its definition chooses, so each needs a proof that there is such a
function (`RecursionWorks`, or a witness) before its equations can be used.

## Where the code and its words differ

Each of these is a run that TLC must find violated.

- `run_misses`: the deadline is counted from the newest release of the first
  subtask (`E2E.c:136`), so a late job of an older instance is not reported;
  `lab2/readme.txt:87` says that misses are.
- `run_separation`: a subtask can be released twice within a period
  (`E2E.c:147-151`: the time read is stale by the time it is used);
  `lab2/readme.txt:87` says one task period after the last release.
- `run_stuck`: a `kthread_stop` between the test and `set_current_state`
  (`E2E.c:127-128`) is lost, and unloading waits until a timer happens to wake the
  thread, or for ever; `lab2/readme.txt:89` says it simply stops the threads.
- `plan_corefits`: the hyper period is the longest period and demands are
  truncated (`E2E.c:169, 187`), so a core can be given more than it can do;
  `lab2/readme.txt:74` says the time within a hyper period is checked.
- `observer_deleted`: the loop for deleted processes compares `new_list[j]` with
  `old_list[k]` and prints `old_list[j]` (`process_observer.c:124-126`), so it
  reports living processes as deleted and says nothing of deleted ones.

Met on the way, and not made into runs:

- `E2E.c:85`: the product is 32 bits wide on the board and wraps from 4295 ms on;
  `lab2/readme.txt:80` gives about 10 s as the range. `Target` wraps, and `SearchBand`
  is about the wrapped target.
- `leader.c:32` reports a region "not properly destroyed after being used"; a
  follower that starts between the leader's open and its check makes it say so of a
  new one (`LeaderCheck`).
- `timing_module_q7.c:52-54`: both stamps are taken before `wait()`, though exit
  prints the second as "post-barrier"; the sort of lines 152-161 compares
  `array[j]` with its neighbour and exchanges it with `array[i]`.
- `inotify.c:100`: a descriptor of 256 passes the test and is one past the table
  (`AddWatch`, `corrupt`).

## Not modelled

The kernel itself is modelled only by what the code relies on (external
definitions of the map): wake-ups, timers, `sort`, address-space locking, sockets,
the file system, processes. Left out are: failing `kthread_create` and `kmalloc` in the
scheduler, a change of `mode` while it is loaded, priorities below 1 (more than fifty
subtasks on a core), files of the paging device left open at removal, the
contents of datagrams (a full one is printed past its buffer, `udp_server.c:72`, like a
full piece of the TCP server) and matrices, and the sort of the stamps in
`timing_module_q7.c`.

Cases in which the code fails are modelled, and the properties of passing runs say nothing
of them: products that wrap (`E2E.c:135, 187`, `kernel_memory.c:81`, `dense_mm.c:82`), an
offset an int does not hold (`random_access.c:52`), lists and paths longer than their
arrays (`process_observer.c:75, 96`, `inotify.c:99`), wake-ups and stops lost between a test
and a sleep (`woken`, `late`, `missed`, `lost`), threads that share the buffer or the
kfifo without a lock (`touched`, `overlapped`), stores out of order (`weak`), a barrier
thread stopped before it ran or numbered from a dead stack (`skipped`, `astray`), and whatever follows
undefined behaviour (`intact`, `panic`, `corrupt`). Each exemption is a condition in the
property.

Of whole components: the perf monitors of `studio10` and the file reader of
`studio6` are straight-line kernel calls whose outcome they print; `studio3` and
the stubs print on load and unload; `studio9/gdb-matrix.c` and
`interfering_process.c` are loops in one process; `gen.py` formats a log; the
copies in `lab2/backup.c` and `pi-backup` are older versions of modelled
files. `PROJECT.json` lists every component with its status.
