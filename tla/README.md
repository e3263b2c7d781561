# Verification of the NTUA operating-systems exercises

TLA+ modules, TLC runs and TLAPS proofs for the concurrent programs of this
repository: the parallel character count of `1st_project_OS` (front end,
dispatcher, workers), the Mandelbrot programs of `2nd_project_OS` and
`3rd_project_OS` (threads and processes), the keyboard-driven dispatcher
`1st_project_OS/first_ex_ex_4.c`, the three smaller searches by forked children
(`1st_project_OS/ask3.c` and `first_ex_ex_3.c` over pipes,
`3rd_project_OS/ask3final.c` in shared memory), the counter of two threads
`2nd_project_OS/simplesync_atomic_mutex.c` and the turns of parent and child in
`3rd_project_OS/mmap.c`. Every model is translated from the C source; `PROJECT.json` maps each definition to its lines.

## Inventory

### The character count (`1st_project_OS/front_end.c`, `dispatcher.c`, `worker.c`)

| part | state | operations |
|---|---|---|
| front end | `responseReady`, the user's line, where `main` is | read a line, write it to the pipe, SIGUSR1 to the dispatcher, poll for SIGUSR2, read the answer; on SIGUSR1 (`callend`) wait for the dispatcher, read the total, exit |
| dispatcher | `WORKERS` (pid, share, active), `start`, `end`, `segment_size`, the crew's counters, `terminated_children`, `count`, `command_available` | launch a worker on the next share, `getcommand` and the five commands, drain, report; handlers for SIGUSR1 and SIGCHLD |
| worker | one or two shares, file offset, number found | scan, write the number to its pipe, exit |

They interact by two pipes (commands, answers), one pipe per worker, and four
signals: SIGUSR1 "a command is there", SIGUSR2 "it is done", SIGUSR1 back "I have
ended", SIGCHLD "a worker has ended". Hard are the signal handlers, which run
between any two steps of `main`; workers that end, are killed and are reaped in
any order; resizes that change shares already planned; and the total, which the
front end takes from the pipe as four raw bytes.

What makes it correct: the shares tile the file; the crew's counters agree with
the launches; each byte is counted once and the total is reported once; each
command is answered and each answer read; the share of a killed worker is
searched again; whoever leaves sees the total.

### The Mandelbrot programs

Each of N threads or processes computes every N-th line and writes it to the one
terminal. The order is kept by a ring of semaphores (`mandel_semaphores.c`,
`semaphore_mandel-fork.c`), by a mutex and condition variables
(`mandel_condition_variables_efficient.c` with one per thread and signal,
`..._inefficient.c` with one and broadcast), or by leaving the lines in shared
memory for `main` to write (`no_semaphore_mandel-fork.c`). State: where each
thread is, its line, the semaphores or mutex and `next_line`. Correct means: the
writes appear as a single thread would make them, nobody misses its turn,
nothing is destroyed while in use, and `main` returns.

### The keyboard-driven dispatcher (`first_ex_ex_4.c`)

An earlier dispatcher without a dialogue: Ctrl+C hires, Ctrl+Z fires, Ctrl+\ kills a
worker. `front_end` only waits for the dispatcher and reads one number. The
state is that of the dispatcher above (`WORKERS`, `start`, `end`, `segment_size`, the
crew's counters) with `save_start` and `save_end` for the shares of killed workers. Hard
are the signals: a key reaches every process of the terminal, and each worker has
inherited the handlers and copies of the variables they change; each handler waits in
`scanf`, and any of them may take the number, which may be below zero; a handler runs between the load and the
store of `remaining_workers--`; and a worker is waited for in two places, by the SIGCHLD
handler, which reads its number, and by the loop at the end, which does not. Correct
means: the shares tile the file, the loop at the end leaves no worker behind, and
`front_end` gets a count, the right one if every worker was heard.

### The searches by forked children (`ask3.c`, `first_ex_ex_3.c`, `3rd_project_OS/ask3final.c`)

`main` forks P children, each searches its share of the file, and `main` waits for
all. In `ask3final.c` they count in one `int` in shared memory under a semaphore; in the
two others each counts for itself and writes to a pipe of its own, which `main` reads
when all have ended. In `ask3.c` the children read through the one descriptor they
inherit and move each other's offset. `num_processes` is kept by `main` and by its
SIGUSR1 handler for Ctrl+C to print (`ask3.c`, `ask3final.c`). Correct means: each byte
is counted once, the total is the number of matches (in `ask3.c`: the sum of what was
counted), and `main` never waits for what cannot come.

### The counter of two threads (`simplesync_atomic_mutex.c`)

One thread adds one to `val` ten million times, the other takes one off as often, under a
mutex or, in the other build, by atomic operations. Correct means: `main` finds 0. It
does in both builds, but in the atomic one because the operand is the address of the
thread's own pointer and nobody touches `val`.

### The turns of parent and child (`mmap.c`)

The child stops itself before each of its steps, the parent waits for that, does its
part of the step and sends SIGCONT. State: who waits, stops or runs, the private and the
shared page, the mappings. Correct means: nobody waits for a turn that cannot come, and
what the parent shows is what it says it shows. The second is not so for the private
page "after writing" (204), the shared page and the "changed" privileges (245): the
parent looks before the child is let go.

### Not modelled

The exercises with one process or one child (`a1.1-system_calls.c`,
`a1_checkcalls.c`, `a1.2-fork.c`, `fork4.c`, `fork4_2.c`) have no state that two
actors share over time. The colours of the picture are arithmetic on one point
and come from a library that is not in the repository. Of what is modelled, failing
system calls are left out except where this document names them.

### Lines cut off in the sources

In `dispatcher.c` (lines 70, 96, 109, 138, 142, 213, 215, 269, 424) and
`front_end.c` (128) an editor has cut lines at the screen's edge, leaving a `>`,
and has joined the next line to them. The models read the text after the `>` as
the line it was. In `ask3.c` lines 14 and 119 are cut off, and line 43 ends in a comment
that has swallowed its brace; they are read as the same lines of `first_ex_ex_3.c` and
`ask3final.c`.

## Modules

| module | models |
|---|---|
| `FileShares` | a file, a share of it as the dispatcher means it (`Share`) and as `char_counter` reads it (`ScanShare`) |
| `CharCounter` | one worker, byte by byte; `ReadsItsShares` says that it reads what `ScanShare` says |
| `Link` | the pipes and flags between front end and dispatcher |
| `Dispatcher` | `dispatcher.c`: one action per step of `main` between which a handler may run; the workers' processes |
| `FrontEnd` | `front_end.c`, with the SIGUSR1 handler |
| `CharCount` | the composition, with what needs both sides (a signal before the handler exists, `kill(-1)`) |
| `CharCountMC` | values for `CharCount`'s constants |
| `CharCountResize` | the composition with a user who terminates nobody |
| `ExactCount` | abstract: each offset is counted at most once, the report comes when each was counted once |
| `MandelThreads` | what all Mandelbrot programs share: create, join, destroy, compute, write piece by piece |
| `MandelSemaphores`, `MandelConditions`, `MandelProcesses` | the synchronisations |
| `OrderedOutput` | abstract: the writes come in the order of one thread |
| `ForkedSearch` | what the three searches share: shares, forks, the numbering, waits |
| `SharedCounter`, `PipeCounter` | counting in shared memory, and over pipes |
| `ForkedCounters` | the composition: `ask3.c`, `first_ex_ex_3.c` and `ask3final.c` |
| `SignalDispatcher` | `first_ex_ex_4.c`: the dispatcher, the workers with the handlers they inherit, `front_end` |
| `SignalDispatcherMC` | the numbers typed in its run, one of them below zero |
| `SimpleSync` | `simplesync_atomic_mutex.c`, both builds |
| `MmapLockstep` | `mmap.c` |
| `...Proofs` | the proofs; `MandelProofs` is about `MandelSemaphores` and `MandelProcesses`, which extends it, and `SmallProgramsProofs` about `SimpleSync` and `MmapLockstep` |

How the dispatcher corresponds to the code: `LoopTop` is the `while` and the check
for a command, `Launch` the body of the loop up to `current_worker++`, `Pause` the
second check, `Received(verb)` the read of `getcommand` together with the command
it runs, `CommandsDone` the read that finds nothing and the SIGUSR2, `ClearFlag`
the assignment after it. `terminate` is cut into `Terminate`, `FindVictim`,
`KillVictim` (or `KillEveryone` when the pid was reset in between), `MarkVictim`,
`LoadTerminated` and `StoreTerminated`, since a SIGCHLD can be handled between any
two of these. `Reap` is the SIGCHLD handler for one child. `NotifyFlag` is the
SIGUSR1 handler.

Abstractions of the character count:

- `count` is a tally, offset to times counted, instead of the number of matches.
  For any file the number is a sum over the tally, so this says more.
- Worker w is the process launched into slot w; a pid is the slot or -1.
- A worker's scan is one step of the composition, `WorkerExit`; `CharCounter`
  models it byte by byte, and its theorem is what allows the one step.
- `fork` and the store of the pid are one step: a worker that runs sleeps five
  seconds before it exits. A child that fails before that is not modelled.
- Failing system calls (the `perror` and `exit` branches) are left out, except
  for SIGPIPE in the front end and failing writes in `MandelProcesses`.
- Between `fork` and `exec` the dispatcher still has the front end's handlers;
  the model has a dispatcher without a handler from `fork` on (`NotifyTooEarly`).
- The handler's `printf` goes to the buffer and comes out at exit (`Exit`).
- Slots past the end of `WORKERS` are not read; writing there is the end of the
  model (`Overrun`).

`SharedCounter` has two loads and stores where the C has `++` on shared state: the
count in shared memory and `num_processes`, which a signal may interrupt. The
semaphore is one copy per child, as `fork` leaves a global variable. `PipeCounter`
has a child whose `open` fails (it exits and writes nothing) and one whose `read`
fails (the loop ends as at the end of the file); what an empty pipe leaves in
`received_char_count` is what was there, which at first is any of two values. In
`ask3.c` every byte is a match, so that a count tells how many bytes were read.

`SignalDispatcher` follows the C in this way. `Plan` is the head of the loop up to
`pipe`, `Fork`, `StorePid` and `StoreTask` the fork and the two groups of stores after
it, `Advance` and `StoreEnd` the lines after the first `sleep` (`end += segment_size` is a
load and a store), `LoadRemaining` and `StoreRemaining` the decrement, `Drain`, `WaitAny`
and `StoreTerminated` the loop at the end, `PrintBeyond` and `WriteCount` what follows it
(the loop at 499 reads an entry of `WORKERS` for each of the crew, which a decrease by a
number below zero can make larger than the table). `frames` is the stack of the
dispatcher's active handlers: `Reap` is the `waitpid` of `handle_sigchild` with the search
for the pid, `ReadNumber` its `read` and what follows; `KillVictim` and `SaveShare` are the
two halves of `handle_kill_active_worker`; `handle_increase` and `handle_decrease` act in
the process that has taken the number (`TypeNumber`). A worker's own copies are
`total_current_workers[w]`, `remaining_workers[w]`, `shares[w]` and `mates[w]`. What is
abstracted:

- Every byte is a match, so that a number is the size of what was read.
- A number typed is any integer, as `scanf` takes it; what is no number leaves an
  uninitialised variable, which holds any integer too. Ints are without bound: numbers
  so large that a sum of them leaves the range of an int are not modelled.
- A worker's copies of the crew's variables are forgotten when it ends (`Search`).
- Writing beyond the tables is the end of the model (`Overrun`).
- The handlers are taken as installed before the first key is pressed, and the user
  presses a key when the last one has been dealt with by all.
- `handle_sigchild` reads `WORKERS[i].end` at line 100 with whatever `i` is by then, outside
  the table or uninitialised; what it finds goes to `reached_end`, which nobody reads,
  and the read is left out. So is the percentage it prints.
- A pid that was waited for is not used again by another process.

`SimpleSync` has the two loads and stores of `++` and `--` as steps. `__sync_add_and_fetch`
on a pointer adds bytes, not elements, so `ip` is a distance in bytes. `MmapLockstep` keeps
of a step what the other process can see: what is written, mapped and protected.

## Runs

| run | asks | instance |
|---|---|---|
| `char_counter` | does a worker read `ScanShare` and end? | 3 bytes, every one or two shares |
| `charcount_all` | type, the dialogue keeps its turns, no worker lost from the table, marks of killed workers stay, `front_end` comes back to the user or ends, unless the dispatcher dies or starves or the total is taken for an answer | 5 bytes, 4 slots, 2 workers at first, 3 commands of every kind, amounts -1 to 1 |
| `charcount_resize` | shares tile the file, the crew's counters agree, progress is right when nobody searches, the count is exact (refinement of `ExactCount`), leaving shows the total | 8 bytes, 5 slots, 2 workers at first, 2 commands, amounts 1 and 2 |
| `shares_restored` | violated: after two terminates a killed share is never searched | 6 bytes, 3 workers |
| `stops_at_end` | violated: an empty share reads a byte of the next | 5 bytes, increase by 2 |
| `notice_taken` | violated: a command announced at the wrong moment is forgotten | 6 bytes, 3 workers, 2 commands |
| `mandel_semaphores` | one token, destruction after the last use, ordered output, return | 4 threads, 6 lines, 2 pieces |
| `mandel_conditions` | no turn missed, and the same | 3 threads, 5 lines, 2 spurious wake-ups, both programs |
| `mandel_processes` | the token is kept or lost with a child, shared lines ready, and the same | 3 processes, 5 lines, one failing write, both programs |
| `forked_counters` | no match counted twice or unread, `num_processes` never too small, the total is the sum and, with a descriptor per child, exact, no child counts outside its share, `main` ends whatever fails | 4 bytes, 3 children, one failure, every set of matches, the three programs |
| `signal_dispatcher` | the shares tile the file, the count shown is right when every worker was heard, the loop at the end leaves nobody behind, `front_end` ends | 3 bytes, 3 slots, 2 workers at first, 2 keys, numbers -2, 1 and 3 |
| `total_is_right` | violated: two children lose a match | 4 bytes, 2 children |

The four violated properties quote the code or its README; `findings` in
`PROJECT.json` tells each story.

Bounds, and why they are enough. `MaxCommands` bounds what the user types: two
commands are needed for two terminates, three for a resize around them.
`MostWorkers` is small enough for an increase to reach it. 5 to 8 bytes give each
worker a share of one or more bytes and a remainder for the last, and with 4 bytes for 3 children the last share empty; `FileSize 8`
keeps shares above zero in the resize run, so that `CountIsExact` is about
resizing, and the empty share has a run of its own. Thread counts of 3 and 4 with
5 and 6 lines give some threads one turn more than others. Two pieces per line
are enough for another's write to fall inside a line. In `signal_dispatcher` a crew of
two can be fired down to one and hired up to three, the size of the table, and beyond it by
a decrease by -2, so that both handlers refuse, resize, exit and divide by zero, and the
loop launches more workers than the crew has; an increase by -2 leaves one worker fewer
than nobody once one is launched. Two keys are enough for two kills, for a kill among the
workers and for a resize that is lost; a larger file and table are what it takes for a lost
resize to turn a share backwards; see the proofs. A negative amount and an
amount of zero are among the inputs of `charcount_all`.

Deadlock is checked for the worker and the two thread programs, where the
end is a `Terminated` step. It is not for the compositions with a user, who may stop
typing, for programs whose end is no step, or where a child may fail with the
token.

Fairness. Each process is scheduled: weak fairness of the front end, of the
dispatcher's `main`, of each worker, and of the handling of a pending SIGCHLD. The
user need not type. In `SignalDispatcher` the user, once a key is pressed, types a number
for each process that waits in `scanf`; no key needs to be pressed. In the Mandelbrot
programs weak fairness of each thread is enough even for the mutex: a thread that takes it
out of turn looks at `next_line` and goes to sleep, so the one whose turn it is finds it
free for good. No write needs to fail and no spurious wake-up needs to happen.

`UserGetsOn` says that from the wait for an answer `front_end` comes back to the user or
ends, `callend` included, and states the three ends it cannot get over. The dispatcher has
died (by a signal before its handler, by a division by zero, by writing past `WORKERS`). Or
it starves in the drain loop (`Starved`), waiting for workers it does not have: for instance
after a late increase (444), or when a SIGCHLD was handled within `terminated_children++`
(209). Or `front_end` has taken the total for the answer it waited for (`TotalTaken`): the
last command was a word that is no command, or a terminate without a victim, so that SIGUSR2
came without a text and the read at `front_end.c` 128 blocks until the total is written;
SIGUSR1 then runs `callend`, whose read (25) finds the pipe empty and, since `front_end` has
never closed its own write end, waits for ever. Each of the exceptions is reached: without
it the run fails.

## Proofs

All theorems hold for every value of the constants that their `ASSUME`s admit.

- `CharCounterProofs`: `TypeCorrect` and `WorkerReadsItsShares`. The invariant adds
  to the types where the offset can be in the share (`OffsetInShare`) and what
  `counter` holds at each point (`Before`, `Sofar`); the property itself speaks only of the end.
- `CharCountProofs`: `TypeCorrect` for the whole program with any user. It is
  inductive as it stands; most of it is the truncating division of a resize.
  `NoWorkerIsOrphaned` and `MarksStay` need that slot i holds the pid of worker i or none,
  that a mark goes with no pid, that slots not launched yet are idle, and that
  the victim no longer searches when it is marked (`WorkersInv`). `DialogueStaysInTurn`
  needs that the dispatcher is quiet while the user has the word
  (`DialogueInv`): it is in no command and, unless the flag is about to be cleared, not
  notified. So SIGUSR2 never comes for a command that was not yet written, although
  notices may be lost.
- `CharCountResizeProofs`: `SharesAlwaysTile` and `CrewStaysAccounted`. Neither
  follows by itself: that a share never ends before it starts needs `RestFits`
  (what is left of the crew, at the segment size of now, fits between `end` and the
  end of the file), which a resize keeps because `segment_size` is a quotient
  rounded down; and that the last worker comes before the table ends needs both
  the counters' equation and where `main` is (`AtPoint`). `LaunchTiles` is the step
  that extends the tiling.
  `CountIsAlwaysExact` is the refinement of `ExactCount`, step by step, and
  `ProgressIsSettled` says when progress is right. Both rest on `CountInv`: a slot
  before `current_worker` is that of a worker that searches, has exited or is reaped and
  was given one share (`SlotsOK`), the tally is 1 in the shares of the workers reaped
  and 0 elsewhere (`CountOK`), `terminated_children` is their number, and `main` reports
  when they are all (`EndOK`). A reaped worker adds what nobody counted before because the
  shares tile the file. Both assume that no share handed out was empty (`NoEmptyShare`):
  with an empty one the code does count a byte twice (run `stops_at_end`). The
  condition cannot be had from the size of the file: with 1001 bytes and a crew of 10 one byte
  lies beyond the planned end of the tenth share, and an increase before that share is
  handed out divides the one byte among several workers, so that `segment_size` becomes 0. `SmallerCrewsAreExact` shows where it holds
  by itself: when the file has a byte for each worker of the first crew and the user only
  makes the crew smaller, what is left holds a byte for each of the crew (`RoomLeft`).
  It holds in every state of `charcount_resize` too, so that the run checks both
  properties without it.
- `MandelProofs`: `TokenIsUnique`, `DestructionIsSafe` and
  `RingDrawsPicture`, the refinement of `OrderedOutput`, for any number of threads,
  lines and pieces. The invariant names the thread whose turn it is (`TurnAt`): it
  holds the token, all other lines follow from its line by their distance in the
  ring, and the terminal shows what lies before its line. The forked processes use the
  same ring: `TokenStaysOrIsLost` needs that the ring goes on as with threads
  until a write fails and that the token is gone from then on (`InRing`).
  In the program with the shared buffer every line is in memory or still to
  come from some child (`InMemory`), so that when all children have ended none is
  missing; that gives `LinesAreReady` and, for both programs, `ProcessesDrawPicture`.
- `MandelConditionsProofs`: `TurnsAreNotMissed`, `DestructionIsSafe` and
  `TurnsDrawPicture` for both programs. Here `next_line` names the turn (`TurnAt`); the
  invariant says besides who may hold the mutex (`MutexOK`) and, for each thread that
  sleeps, that the turn is not its own or that the wake-up is on its way (`SleepOK`). With
  one condition variable per thread the wake-up goes to the successor and reaches
  nobody else; with one shared variable it reaches all.
- `SignalDispatcherProofs`: `SharesAlwaysTile` needs where the plan stands
  (`Plannable`): `segment_size` and `remaining_workers` are not below zero, and when nobody
  remains the share planned last (`Planned`, which main may still have to store in `end`)
  reaches the end of the file, so that no resize divides what is left by a number below
  zero. A resize keeps this, since it divides by the crew that remains, and so does a launch
  with its decrement. A decrease by any number keeps it as well: it is refused when it
  exceeds the crew that remains, and by a number below zero it hires. Two resizes do not,
  and `strays` remembers them. `crossed`: a resize between the load and the store of the
  decrement is taken back, while `segment_size` stays what it was made for. With 9 bytes, 8
  slots, a crew of 2, numbers 2 and 4 and two increases, the first of them lost in this
  way, `remaining_workers` falls below zero, the second divides by a negative number and the
  next share ends before it starts. `undercut`: an increase by a number below zero that
  leaves fewer than nobody, which the code does not refuse, does this at once; with a crew
  of 5 and 100 bytes, -6 typed after the first launch makes `segment_size` -80 and the next
  share [20, -60). The run reaches it. Apart from these the statement is about every number
  `scanf` can take. Whatever has gone astray, main never goes beyond the end of the file
  (`EndsOK`), and shares that each have a byte still tile it (`FullTile`), because a share
  with a byte moves `start` on. `DrainAlwaysWaits` counts: the loop is left when
  `terminated_children` has reached the crew or nobody remains, and `terminated_children`,
  whether the loop or the handler raised it, and although the handler's increment may fall
  into the loop's, is at most the number of workers waited for (`CountedOK`).
  `ShownIsTheWhole`: the dispatcher hears a worker once, when it was waited for, and the
  count is the size of the shares of those it has heard (`AddedOK`), which do not overlap
  because shares with a byte tile (`FullTile`); so the statement needs no exception for
  resizes that have gone astray. The C has counters and pipes here, the invariant has sets: the one
  step to prove is that a number read adds exactly the share of its worker.
- `ForkedCountersProofs`, about the three programs that fork children to count, for a file
  of any size and any number of children.
  The shares first: `segment_size` is rounded up, so the segments are apart
  (`SegmentsApart`) and leave no byte out (`SegmentsCover`).
  `NumberIsNotUnderstated` needs that whoever searches is counted or has a signal on the way,
  and that the handler can only have lowered `num_processes` between the load and the
  store of its `++` (`NumberOK`). `CountIsNeverTooHigh` needs that a child about to
  store still has its own match to add to what it loaded (`ReaderOK`); stores that fall on each
  other then lose matches and invent none. `NoByteIsLeftOut` follows from where a child
  stops. `EachCountsItsOwn` needs that a child has counted the matches from the start of
  its segment to its offset, whatever failed (`SegmentOK`).
  `TotalIsTheSum` is about what main adds: a pipe holds its child's final count or nothing
  (`PipesOK`), and after i pipes the total is the sum of the first i counts (`AddedOK`) and,
  with a descriptor per child, the number of matches in the first i segments (`SumOK`).
  The sum is the community modules' `FoldFunction`, which adds the children in an order
  that nobody knows. That the order does not matter, and so that one child more adds its
  count, is an induction over finite sets. It is proved by the smallest set for which it
  fails (`Smallest`, `SumsExist`, `SumOfOneMore`).
- `SmallProgramsProofs`. For `SimpleSync`: `AlwaysFindsZero` and `AtomicNeverTouchesVal`.
  `N` is a macro of the program and so a definition of the module: ten million steps per
  thread are no instance for TLC, and the module is proved instead of run. The invariant says
  that `val` is the number of increases made less that of decreases made, and that a loaded
  value is still `val`. For `MmapLockstep`: `TurnsAreTaken`, `NobodyIsLeftBehind` and
  `ParentShowsTheStateBefore`. The program has fewer than a hundred states; the proof says as
  much as a run would. `InStep` relates the step of the parent to that of the child,
  `PagesOK` the pages to the child's step.

Only model-checked: the liveness properties (`Exits`, `QuitGetsTotal`,
`UserGetsOn`, `Returns`, `RingReturns`), since liveness under fairness is out of reach of
the prover. Every other property that a passing run checks is stated by a theorem,
`ProgressSettles` and `CountIsExact` under the condition named above.
No module has a RECURSIVE operator.

`progress` says too much while a later worker has finished and an earlier one has
not (`dispatcher.c` 133); `ProgressSettles` states when it is right.

## Plan

Done, in this order: `FileShares`, `CharCounter`, `Link`, `Dispatcher`, `FrontEnd`,
`CharCount`, `CharCountResize` with `ExactCount`; `MandelThreads`, `MandelSemaphores`,
`MandelConditions`, `MandelProcesses` with `OrderedOutput`; `ForkedSearch`,
`SharedCounter`, `PipeCounter`, `ForkedCounters`; `SignalDispatcher`; `SimpleSync`,
`MmapLockstep`; the proofs.

To do:

1. `Dispatcher`: workers that fail (an uninitialised number is added, or the pid is
   not stored yet), with the properties that tell what a failure can reach.
2. Proofs: for `ask3.c`, how much more than the file the total can be; for
   `CharCount`, what `terminate` leaves of the tiling.
3. `SignalDispatcher`: the keys that come before the handlers are installed, and a second key
   while the first is being dealt with.

Runs that later modules need replace the least telling of the present ones, so that
each run keeps a question of its own.
