# Verification of the Xinu kernel for the BeagleBone Black

TLA+ models of the Xinu operating system in `src/`, TLC configurations that
check them on small instances, and proofs, checked by TLAPS, that hold for every
size of the tables.

`PROJECT.json` lists the components, the runs, the source lines behind every
definition, the hazards of the code and the theorems.

## 1. The system

Xinu runs on one processor. A system call disables interrupts, and the processor
changes hands only inside `resched` (by `ctxsw`). So the code of a call up to the
next `resched` is atomic, and what is hard about the kernel is what happens
*between* the two halves of a call that lost the processor, and inside the loops
that make several processes ready.

| Part | State | Operations | Interacts with |
|---|---|---|---|
| Process lists (`system/queue.c`, `insert.c`, `insertd.c`, `getitem.c`, `unsleep.c`) | `queuetab` | enqueue, dequeue, insert, insertd, getitem, unsleep | all blocking calls |
| Processes (`create.c`, `resume.c`, `suspend.c`, `kill.c`, `chprio.c`, `yield.c`) | `proctab`, `prcount`, `currpid` | one per call | lists, messages (kill notifies the parent), semaphores (kill of a waiter), memory (stacks) |
| Scheduler (`resched.c`, `ready.c`) | `readylist`, `preempt`, `Defer` | resched, ready, resched_cntl | everything |
| Semaphores (`sem*.c`, `wait.c`, `signal*.c`) | `semtab` | create, delete, reset, wait, signal, signaln | lists, scheduler |
| Messages (`send.c`, `receive.c`, `recvclr.c`, `recvtime.c`) | `prmsg`, `prhasmsg` | one per call | scheduler, sleep queue |
| Clock and delays (`sleep.c`, `wakeup.c`, `clkhandler.c`) | `sleepq`, `preempt` | sleepms, tick, wakeup | scheduler, messages |
| Interrupts (`evec.c`) | `Defer` | irq_dispatch | every driver |
| Memory (`getmem.c`, `freemem.c`, `getstk.c`) | free list | get, free | create, kill, pools |
| Buffer pools (`getbuf.c`, `freebuf.c`, `mkbufpool.c`) | pool lists and semaphores | get, free | network, remote disk |
| Ports (`pt*.c`) | `porttab`, message nodes | create, send, receive, delete, reset | semaphores |
| Marks (`mark.c`) | `marks`, a semaphore | mark | file systems |
| TTY, Ethernet (`device/tty`, `device/eth`) | circular buffers, descriptor rings | handler, read, write | semaphores, interrupts |
| Network (`net/`) | UDP and ICMP slots, ARP cache, IP output queue | netin, send, receive, timeouts | pools, messages, semaphores |
| Remote disk and files (`device/rds`, `device/rfs`) | cache, request queue, sequence numbers | read, write, communicate | UDP, semaphores, messages |
| Local files (`device/lfs`, `device/ram`) | directory, index blocks, free lists, cached blocks | open, read, write, seek, truncate, close | semaphores |
| Names (`device/nam`) | prefix table | mount, map, open | device switch |

Modelled are the kernel proper (the first seven rows), the memory manager, UDP with
address resolution, and the local file system; section 5 says what is not, and why.

What makes the kernel correct:

- a process is in exactly the list its state names;
- a negative semaphore count is the number of waiters, and waiters leave in order;
- the null process can always run, so `resched` always finds a process;
- the process that runs has the highest priority among the eligible ones, and
  equals share the processor;
- a message that was accepted stays until its receiver takes it, and a receiver that
  returns has one;
- a delay lasts the ticks that were asked for, whatever other delays do;
- rescheduling is deferred exactly where the code says so, and catches up after;
- the system halts when the last user process is gone and not before.

What makes the other parts correct: no byte of the heap has two owners and none is
lost; no packet buffer is lost, and the two waits of the network code, which end with
the same message, are never taken for each other; a file is a sequence of bytes
whatever blocks hold it.

## 2. Modules

| Module | Content |
|---|---|
| `ProcQueue` | the process lists as sequences, and the operations on them |
| `Kernel` | processes, scheduler, semaphores, messages, delays, clock, interrupts; the correctness properties |
| `DelayTimers` | what delays promise: one independent timer for each process |
| `Memory` | the memory manager: the free list, getmem, getstk, freemem, freestk |
| `Heap` | what the memory manager promises: blocks nobody else holds, refusal only when nothing fits |
| `Message` | recvclr, recvtime and send as the network code uses them |
| `Udp` | the endpoint table, its circular queues, udp_in, udp_recv, udp_send, registration |
| `Arp` | the ARP cache, arp_resolve, arp_in, arp_alloc |
| `UdpArp` | the two composed: sending a datagram resolves its next hop in the same process |
| `Lfs` | the local file system: directory, index and data blocks, free lists, cached blocks |
| `FileMode` | the mode strings of lfgetmode and rfsgetmode |
| `LfsFiles` | the mapping of blocks and cached blocks to the files of `Files` |
| `Files` | what the file system promises: named sequences of bytes |
| `MCKernel`, `MCMemory`, `MCUdpArp`, `MCLfs` | the instances of the runs |
| `KernelCallProof` | lemmas about the list operations; the inductive invariant of `Kernel`; process calls, messages and kill preserve it |
| `KernelSyncProof` | semaphores, loops, delays and interrupts preserve it; the theorems about the lists, counts and deferral |
| `KernelSchedProof` | the theorems about messages, the order of waiters, the state diagram, receive and priorities |
| `KernelProof` | the theorems about delays and about halting |
| `MemoryProof` | the theorems about `Memory` |
| `UdpStepProof`, `UdpArpProof` | the invariant of `UdpArp` and the steps of UDP; the steps of ARP and the theorems |

### How `Kernel` corresponds to the code

*Lists.* A list of `queuetab` is the sequence of nodes between head and tail. The
nodes of the ready list and of the sleep queue are `[pid, qkey]`; keys in
semaphore queues are never read, so these are sequences of process identifiers.

*Steps.* A call is one action when it cannot lose the processor before its end.
Otherwise it is split at `resched`: `pc[p]` names the place where `p` continues
(`receive`, `recvtime`, `kill`). While the running process is inside the kernel,
no interrupt and no other process takes a step.

*Scheduler.* `resched(st, rl)` takes the process states and ready list its caller
has just built, so the caller's assignments and the dispatch are one step, as in
the code. `Dispatch` is what follows the deferral test: the current process keeps
the processor only if its priority is above the first key.

*Deferral.* `signaln`, `semdelete`, `semreset` and `wakeup` release several
processes between `DEFER_START` and `DEFER_STOP`; each iteration is a step.
`irq_dispatch` brackets every handler in the same way, so `wakeup` runs at depth
two and the end of the time slice takes effect when the interrupt returns.
`Interrupt`, `InterruptSignal`, `InterruptReturn` stand for any device handler;
handlers signal semaphores. Where the TTY handlers call `signaln` inside the
interrupt (`ttyhandle_in.c:131`, `ttyhandle_out.c:68`), its loop runs at depth two and
is the same as that many single signals of the handler: nothing can be dispatched
before the outermost deferral ends.

*kill.* The parent is told (`send`) before the victim is removed. `Kill` ends
there; `KillSelf`, `KillSleeper`, `KillWaiter`, `KillReady` and `KillOther` are
the branches of the `switch` that follows, for the state the victim has *then*.
Left out is the loop before it that closes the victim's three descriptors
(`kill.c:29-31`). For the console `close` does nothing. For descriptors that the shell
has redirected (`shell.c:296-297`) it closes a file, which waits for the mutex of the
file (`rflclose.c:17`, `lflclose.c:18`) and so can be a second place in the middle of
`kill` where the processor changes hands, after the notice and before the `switch`.
What the properties say about the place at the notice (another kill of the victim, a
victim that has changed its state) would be met there as well, and `HaltsAtEnd`
needs the same restriction; that kills of *redirected* processes are covered is
not claimed.

*Messages.* `prmsg` is `NoMsg` when `prhasmsg` is false. `kill` sends a process
identifier, programs send members of `Msg`.

*Early returns.* A call that returns `SYSERR` without changing anything is a
stuttering step and has no action. `create` with a priority below 1 is the
exception (`CreateRefused`): `newpid` has moved on by then.

*Bounds.* `MaxCount` bounds semaphore counts (guards of `Signal`, `Signaln`,
`InterruptSignal`). Stacks and their memory are left to the memory manager, and so
is `create` failing for lack of it.

*`Init`* is a state shortly after boot, not the one at the end of `sysinit`
(`initialize.c:145-222`, the lines it is mapped to): the tables are as `sysinit` sets them
up, and `NSTART` user processes have been created and resumed, with the priorities
`StartPrio`, highest first, the first of them running. Entries never used have
`prsem = 0` (zeroed memory).

*Comments of the code.* `unsleep.c:6-8` says that "The caller must adjust the delay
of successive processes"; the function does so itself, and its callers (`send`, `kill`) rightly
do not. The model follows the code (`unsleep` in `ProcQueue`).

### How `Memory` corresponds to the code

`memlist` is the linked list of free blocks as a sequence of `[addr, mlength]`;
its order is what the code builds, not assumed. `mlength` is the length field of
the list's head. Addresses and sizes are bytes in a word of `WORD` values (2^32 in
the code), with the rounding of `roundmb` in that width. `owned` records what
programs hold (the pointer they got and the size they asked for); a program frees
what it holds, with that size. `answer` is what the last request returned; it makes
a refusal visible to `Heap`. The assumption that the heap can be added once more
to its end without leaving the word holds on the board (0xA0000000 plus at most
512 MB). Blocks start and end at multiples of 8, which `TypeOK` states of free blocks
and of what was handed out; it depends on every caller's size being rounded.

`DoubleFreeRefused` is about every size for which the end that `freemem` computes stays
in the word. A size beyond that wraps around (`roundmb` to 0 at `freemem.c:25`, or
`block + nbytes` past the end at `freemem.c:44`), passes the test for overlap, and a block
that starts a free block would be linked to itself. The code has no test for such
sizes and no comment about them.

### How `Message`, `Udp`, `Arp` and `UdpArp` correspond to the code

*Waits.* `udp_recv` and `arp_resolve` both empty the message of the caller, wait in
`recvtime`, and are released by `OK`, which `udp_in` or `arp_in` sends from the
network input process, or by the clock. A released process is `ready`: others run
before it does, so a message can arrive after the timeout (`Expire`, then `send`),
and what it finds when it runs decides what `recvtime` returns (`Answer`).

*UDP.* A slot of `udptab` has a state, an endpoint, the process that waits there,
and the circular queue `udhead`, `udtail`, `udcount`, `udqueue` with the wrap-around
of the code. `Arrival` is netin taking a buffer and `udp_in`; a packet that no slot
accepts gives its buffer back at once, which changes nothing. `call` names the
operation a process
is in, its slot and the buffer it holds. `owner` restricts programs to slots they
registered; the code has no such notion, and a slot shared by two processes is not
modelled.

*ARP.* `arp_resolve` is split at the broadcast and at the wait: `ResolveStart`
(search, `arp_alloc`, pending entry), `ResolveWait`, `ResolveAgain`,
`ResolveTimeout`, `ResolveDone`. `arp_in` may take any packet of any host at any
time, which covers loss, delay, repetition and reordering. `Reusable` is the choice
of `arp_alloc`.

*Composition.* `ip_send` resolves inside `udp_send`, so one process waits for `OK` of
`arp_in` in one call and for `OK` of `udp_in` in the next. `Anytime` says whether
other programs send to a process while it is in `arp_resolve`.

### How `Lfs` corresponds to the code

The configured disk is the RAM disk, which never blocks: a call runs with interrupts
disabled, finds both mutexes free, and is one step. (On the remote disk it would
block in the middle; that composition is not modelled.) Inside it, `lfflush`,
`lfsetup`, `lfiballoc`, `lfdballoc`, `lftruncate` are operators on the state of the
device and the disk, in the order in which the code calls them; the copies in memory
and the blocks on disk are separate state. `MAXLEN` bounds the length of a file.
Running out of blocks ends in `panic`, as in the code.

## 3. Runs

The kernel runs use `MCKernel`. Each one restricts the calls programs make (`Workload`)
to those its question needs; the union of the passing runs takes every action.

| Run | Instance | Question | Result |
|---|---|---|---|
| `kernel_semaphores` | 4 slots, 2 semaphores, processes of two priorities, kill, delete, reset, device interrupts | lists, counts and deferral consistent, first come first served, deferred switches made | holds |
| `kernel_processes` | priorities 0..3, preemption | highest priority runs, null process eligible, halting | holds |
| `kernel_messages` | 4 slots reused, kill notices, chprio | receivers find messages, nobody else takes or replaces one | holds |
| `kernel_timers` | sleeping, receiving, timed receiving, sends, suspensions, kills | the delta list implements `DelayTimers`; nobody overdue; a receiver that was suspended and resumed still has a message; states follow the diagram | holds |
| `kernel_fairness` | two processes of one priority and a sleeper | no starvation, delays end, awakened processes preempt | holds |
| `memory` | 6 units of 8 bytes, requests of 5, 12 and 24 bytes | owners disjoint, bytes conserved, frees accepted and double frees refused, `Heap` implemented | holds |
| `udp_arp` | 2 processes, 3 buffers, 2 slots with queues of 2, 3 hops for 2 cache entries, 2 tries | no buffer lost, a process that was told of a packet finds one, packets match their slot, one cache entry per host, answers are of the hop that was asked for | holds |
| `lfs` | 2 files, 2 devices, 2 index blocks and 2 data blocks of 1 byte | no block lost or shared, closed files are on disk, `Files` implemented | holds |
| `chprio_order` | as `kernel_processes`, with chprio | "highest priority eligible process" is dispatched | violated |
| `kill_twice` | a parent that kills its dying child | "Last user process completes" | violated |
| `recvtime_zero` | a wait of 0 | nobody stays in the sleep queue past its time | violated |
| `memory_wrap` | a request of `WORD - 1` bytes | what is allocated is heap storage | violated |

The bounds: three user processes make two of them interact while a third
interferes; two semaphores distinguish "this one" from "another"; one slot more
than processes exist initially makes slots be freed and reused; delays of one or
two ticks put nodes before, at and behind an insertion; a quantum of 1 or 2
ticks makes slices end in the middle of everything else. Start priorities differ
(`LastLower`) where a release must be able to put off a switch, so that the loops and
handlers of `kernel_semaphores` make a process ready that is above the running one; in
`kernel_fairness` this happens in `wakeup`, at depth two. In `udp_arp`, queues of two
wrap around, three hops make cache entries be evicted, and three buffers let a
sender wait for one while two packets are queued. In `lfs`, blocks of one byte make
every further byte need a new data block and a new index block, and the two
files together need more blocks than there are, so that free lists run empty.

Symmetry is used where the model values are interchangeable (hops and buffers
are among them in `udp_arp`, names and bytes in `lfs`); `VIEW` drops only state that no
step reads.

The four violations are disagreements between the code and its own comments:

- `chprio.c:25` changes the priority in the table and leaves the ready list
  sorted by the old one, while `resched.c:8` promises the highest priority;
- `kill.c:24` decrements `prcount` and may then switch to the parent, who can
  kill the same process again; the system halts with the parent alive;
- `recvtime.c:26` accepts a wait of 0, and `clkhandler.c:45` tests a key for
  equality with 0 after decrementing it, so the key goes on to -1 and the process is
  not awakened (`NonePastDue` is violated by the tick, not by the insertion);
- `getmem.c:22` rounds a request near 2^32 up to 0 and grants it.

What each property says is in the comment above it. Four need a word here:

- `SemFifo` ties the place in a queue to the time of arrival: somebody new stands
  behind everybody who waits, those who stay keep their order, and whoever leaves
  before one who came earlier was killed;
- `MessageStays` allows a message to disappear only when its receiver runs, or when
  the entry of its receiver is free and `create` takes it;
- `StateDiagram` is the diagram of process states as the calls implement it, with
  the condition on each edge;
- `TimersImplemented` says that a tick counts for every delay or for none, and never
  twice. That ticks do count, while a process sleeps, is `DelayEnds`.

`HighestPriorityRuns` is therefore checked and proved without `chprio`, `HaltsAtEnd` with
processes that do not kill a process that is already being killed (no messages
wake the parent), and `NoOverdue` and the timers with positive waits.  The proofs
make the same restrictions hypotheses.

### Fairness

`FairSpec` assumes strong fairness of the clock: the timer interrupt stays
latched while interrupts are disabled and is taken when the processor enables
them. It assumes weak fairness of the steps inside the kernel: code with
interrupts disabled runs to its end. Nothing is assumed about programs, which may
stop making calls or call forever. Liveness is checked by TLC only.

Deadlock is checked in all passing runs but `lfs`; a halted system stutters
(`Halted`). In `lfs` a system that has panicked takes no further step.

## 4. Proofs

The theorems hold for every value of the constants that satisfies the assumptions
named in the modules, and for every workload except where a hypothesis says
otherwise. A theorem about a run's property has the name of the property in its
statement.

### Kernel

Assumed of the constants (`TableAssumption`, `SliceAssumption`, `PrioAssumption`,
`DataAssumption`, `CountAssumption`): at least two process slots and one semaphore, a
positive quantum, positive start priorities, integer priorities, natural messages,
delays and counts.

| Theorem | Statement | Hypothesis |
|---|---|---|
| `TypeCorrect` | `Spec => []TypeOK` | |
| `QueuesAgree` | `Spec => []QueueInv` | |
| `SemaphoreCounts` | `Spec => []SemInv` | |
| `NullAlwaysEligible` | `Spec => []NullEligible` | |
| `DeferralBalanced` | `Spec => []DeferInv` | |
| `MessagesKept` | `Spec => MessageStays` | |
| `SemaphoresFifo` | `Spec => SemFifo` | |
| `ReceiveReturnsMessage` | `Spec => []ReceiveHasMessage` | |
| `ReadyListOrdered` | the ready list is sorted by its keys | |
| `HighestRuns` | `Spec => []HighestPriorityRuns` | no `chprio` |
| `DispatchHighest` | `Spec => DispatchesHighest` | no `chprio` |
| `NoneOverdue` | `Spec => []NoOverdue` | no delay of 0 |
| `SleepQueueImplementsTimers` | `Spec => TimersImplemented` | no delay of 0 |
| `StatesFollowDiagram` | `Spec => StateDiagram` | |
| `HaltsWhenDone` | `Spec => []HaltsAtEnd` | no two kills of one victim overlap |
| `HaltsWithoutReceivers` | `Spec => []HaltsAtEnd` | no program receives messages |

The runs `chprio_order`, `recvtime_zero` and `kill_twice` show that the hypotheses are
needed.

The inductive invariant `IInv` is the conjunction of the five invariants and of
`KillInv`, that a kill under way is not of the null process (`IInvParts`). None of them
is inductive alone: a dispatch needs the null process
in the ready list, a release needs the count to say that the queue is not empty,
the loops need the deferral count to know that they are not switched out, the
reuse of a semaphore needs the queues of free entries to be empty, and the null
process stays eligible only because kill never has it as its victim, also in the
second half of a kill that was interrupted. Four invariants are added to it:

- for messages, `Awaits`: a process inside `receive` that has no message is
  blocked, or was killed;
- for priorities, `PrioInv`: the keys of the ready list are the priorities of its
  processes, and unless an attempt to reschedule waits for the end of a deferral
  (`CaughtUp`) none of them is above the running process. The
  list is sorted whatever `chprio` does; only the agreement of keys with priorities
  is lost;
- for delays, `TimerInv`: no key of the sleep queue is negative, and outside the
  loop of `wakeup` the first one is positive. A tick that decrements the first key
  then never passes zero, which is what `clkhandler`'s test for equality needs;
- for halting, `CountInv`: `prcount` is the number of processes, less those that a kill
  under way has counted already.

The order of waiters is proved of each way of changing a queue (`OrderOfTail`,
`OrderOfUnqueue`, `OrderOfAppend`) and then of each step (`FifoStep`).

The argument has these layers:

1. `KernelCallProof`, first part: what `insert`, `insertd`, `getitem`, `unsleep`, enqueue and
   dequeue do to the processes of a list (the set of members, each once), to its
   order, and to the time left of each process of a delta list (`InsertdLeft`,
   `UnsleepLeft`, `TailLeft`, `TickLeft`: an insertion gives the new process its
   delay and nobody else's changes; a removal changes nobody's; a tick takes one
   from everybody's).
2. `DispatchFacts`, `ReschedFacts`, `BlockFacts`, `ReadyFacts`, `PopFacts`,
   `ReleaseFacts`: `resched`, called with states and lists that agree, leaves
   states and lists that agree. `LeaveFacts` and `JoinFacts` do the same for
   semaphore queues.
3. one lemma for each action (`KernelCallProof`, `KernelSyncProof`), and
   `KernelInvariant` (`KernelSyncProof`), which collects them.
4. for the refinement, `TimersStep`: a step of the kernel that changes the sleep
   queue is `Set`, `Cancel`, `Expire` or `Tick` of `DelayTimers` under the mapping
   that sends the delta list to the time left of each process (`Left`), and the
   others leave it alone.

### Memory

`MemoryProof`, for every heap and every sequence of requests:

| Theorem | Statement | Hypothesis |
|---|---|---|
| `MemTypeCorrect` | `Spec => []TypeOK` | `NoWrap` |
| `ListStaysOrdered` | `Spec => []ListOrdered` | `NoWrap` |
| `BytesConserved` | `Spec => []Conserved` | `NoWrap` |
| `HoldingsDisjoint` | `Spec => []Disjoint` | `NoWrap` |
| `OwnBlockAccepted` | `Spec => []FreeAccepted` | `NoWrap` |
| `DoubleFree` | `Spec => []DoubleFreeRefused` | `NoWrap` |
| `FreeListImplementsHeap` | `Spec => ImplementsHeap` | `NoWrap` |

`NoWrap` says that no request is rounded past the end of a word; `memory_wrap` shows
what happens otherwise. The range of sizes of `DoubleFree` is in the property itself
(section 2). The invariant: the free list is sorted with gaps (`Sorted`), holdings
lie in the heap and do not meet (`Held`, `Separate`), free bytes and held bytes make
up the heap (`Partition`), and the count of free bytes and the last answer have their
types (`Counts`). `BytesConserved` adds that the length field of the list's head is
the number of free bytes.

### UDP and ARP

`UdpArpProof`, for every number of processes, slots, buffers, hosts, cache entries and tries:

| Theorem | Statement | Hypothesis |
|---|---|---|
| `NetTypeCorrect` | `ComposedSpec => []AllTypeOK` | `Quiet` |
| `BuffersKept` | `... => []BuffersConserved` | `Quiet` |
| `ReceiversWait` | `... => []ReceivingIsWaiting` | `Quiet` |
| `WokenByPacket` | `... => []WokenHasPacket` | `Quiet` |
| `PacketsMatch` | `... => []QueuedMatches` | `Quiet` |
| `OneEntry` | `... => []OneEntryPerHost` | `Quiet` |
| `AwaitedEntry` | `... => []AwaitedIsKept` | `Quiet` |
| `PendingEntry` | `... => []PendingIsInProgress` | `Quiet` |
| `AnswerOfHop` | `... => []AnswerIsOfHop` | `Quiet` |

`Quiet` (`Anytime = FALSE`): other programs send nothing to a process while it is in
`arp_resolve`. The code does not ensure that; without it a stray message releases the
wait while the entry still names the process, and the `OK` that `arp_in` sends later
reaches it inside `udp_recv`, which then takes a packet from an empty queue. Also
assumed: other programs do not send the values `OK` and `TIMEOUT` (`UdpAssumption`).

The invariant has six parts: types; `Waits` (a slot in the receiving state names the
process that waits there, and an `OK` in `udp_recv` means a packet); `Rings` (head,
tail and count of a queue agree, and exactly the places between them are filled);
`Places` (every buffer is in the pool, in one queue, or held by one call); `Matched`;
`Resolutions` (what the cache entry of a resolution under way looks like). `Waits`
and `Resolutions` need each other, because both waits end with the same message.

### Only model-checked

- liveness and fairness (`NoStarvation`, `DelayEnds`): outside the prover's reach;
- `Lfs` and that it implements `Files`.

Where an argument about a list seemed to need induction, the proofs use a least
counterexample (`MinOfNat`) instead.

## 5. Not modelled

`PROJECT.json` gives the reason for each part. In short:

- *Could be modelled in the same way, and are not yet*: buffer pools, ports and
  marks (all built from semaphores), the TTY and Ethernet drivers, the ICMP table
  and the IP output queue, the checksums, the remote disk and remote files with lost and repeated
  replies, the name space.
- *Clients that are sequential programs over UDP*: DHCP, DNS, TFTP, time of day.
- *No state to speak of, or hardware only*: device switch, GPIO, SPI, C library,
  diagnostics, shell, configuration tool.

What the models leave out of the parts they cover: the contents of stacks and
packets, errors that return before any change, and the addresses behind names.
