# Specifications of SimpleCode

SimpleCode is a collection of C code: a few programs of its own, and many third-party libraries kept beside
samples of their use. This directory specifies the parts that are its own, run concurrently or react to
events, and can go wrong in ways a test would hardly show:

* **libRtspServer** (`src/A-V/libRtspServer`), an RTSP server that handles all its sessions in one thread, with
  an event loop, delayed tasks and edge-triggered sockets;
* **libRtspClient** (`src/A-V/libRtspClient`), its client: one thread per channel that connects, starts to play,
  keeps the session alive and reconnects, while its user may close the channel from another thread;
* **ThreadPool** (`src/Event/ThreadPool`), a pool of worker threads over one mutex and one condition variable;
* **KeepingSettingModify** (`src/OwnCode/KeepingSettingModify`), a record of changed settings that is kept in a
  file, with a bound on the records of each parameter.

Paths below are relative to the repository's `src/` unless they begin with `src/`; `rtsp_srv.c` and its
neighbours are in `A-V/libRtspServer/src/`, `rtsp_cli.c` and what is said to be the client's in
`A-V/libRtspClient/src/`.

## 1. The system

### Components

| component | state | operations | interacts with |
|---|---|---|---|
| delay task queue (`delay_task.c`) | a list of tasks, each with its delay relative to the one before it; the time of the last sync | create, destroy, update, destroy all of a session, minimum delay, run the first | called by the loop, by the handlers and by the tasks it runs |
| server loop (`rtsp_srv.c`) | epoll descriptor, listening socket | check the send queues, wait, handle events, run one task | calls everything else |
| socket handlers (`sd_handler.c`) | a list of (descriptor, procedure, session) | register, deregister, look up; accept, receive, send | epoll events in; creates request tasks, destroys sessions |
| sessions (`rtsp_sess.c`) | the session list; per session the RTSP state, the handling state, the descriptors, the send queue | create, destroy (now or later), produce a response, consume the send queue | handlers and tasks hold pointers to sessions |
| methods (`rtsp_method.c`) and parser (`rtsp_parser.c`) | the request in progress | OPTIONS ... TEARDOWN; retry until an I frame comes | start and stop the stream, create tasks |
| RTP (`rtp.c`) | per track two descriptors; RTP headers | set up, tear down, fetch a frame and queue its packets | stream callbacks; send queue |
| stream callbacks (demo) | an open file | `start_strm`, `stop_strm`, `get_frm` | called by methods and by the pump task |
| thread pool (`ThreadPool.c`) | circular buffer, counters, shutdown flag | create, add, destroy (at once, gracefully), worker loop | any thread; tasks may add tasks |
| client's session thread (`rtsp_cli.c`, `sd_handler.c`, `rtsp_method.c`) | RTSP and handling state, what to do next, CSeq, send queue, connection, keepalive count | connect, ask the next request, wait, receive and send, keep alive, clean up and reconnect; `close_chn` from the user's thread | the server, over one connection |
| client's framing (`sd_handler.c`) | the bytes kept from the last `recv` | receive; hand over answers and packets | the session thread's state machine, RTP |
| setting records (`OwnCode/KeepingSettingModify`) | records per parameter with count and earliest time, a file, a reset flag, a mutex | load, set, save, reset | one caller; the file outlives the process |
| message queue (`OwnCode/Messages`) | a pipe | enqueue and dequeue with a timeout | any thread; not modelled yet |
| thread table (`OwnCode/Threads`), `OwnCode/LogC` | tables of threads and of modules | create, look up, cancel; register, log | any thread; not modelled yet |

The rest of the repository is vendored (ffmpeg, live555, lwIP, curl, sqlite, PolarSSL, libev and others),
sequential textbook code (`Algorithm`), device and file I/O (`Sys`, `File`), test frameworks and build files.
`PROJECT.json` lists it by directory with the reason it is left out.

### What is hard

* A **delta list** under a wall clock: an insert or delete that adjusts the wrong neighbour shifts every later
  task. The callback of the task that runs may change the list under its caller.
* **Raw pointers**: tasks and handlers hold a `struct rtsp_sess *`, and descriptors are small numbers that the
  kernel gives out again. A session can be destroyed by several callers, and declines while a request is retried.
* **Edge-triggered events**: what is not read at once is reported again only when something else changes, or when
  `EPOLL_CTL_MOD` arms the descriptor anew.
* **Three kinds of task of one session** (request, pump, destroy) that run between each other's steps.
* **One condition variable** for all workers of the pool, a shutdown that races workers going to sleep, and memory
  that is freed by one of several threads that know it.
* **A connection that breaks at any point** of the client's conversation, and a reconnection that must reset all it left behind.
  `close_chn` writes the thread's `todo` without a lock.
* **A byte stream cut anywhere**, in which packets and text alternate.
* **Counts and an earliest time remembered beside the records** they describe, and a file that is truncated before
  it is rewritten.

What makes each component correct: tasks run when they are due and in order (delay queue); nothing refers to
a freed session, every socket of a live one is served, a request is answered exactly once, what plays is
pumped, who is gone is forgotten, and the loop never stops (server); one request at a time is asked, what the client
believes the server has done, a server that is gone is noticed and one that answers is kept, and a channel comes
to play or ends (client); packets and answers come out of the byte stream as they went in (framing); every accepted task is
started in order, by one worker, and a destroyed pool ends (thread pool); a process begins with the records that were saved, those
erased stay erased, and the loop that removes the surplus ends (setting records). `PROJECT.json` lists the hazards line
by line with the properties that watch them.

## 2. The modules

| module | models | about |
|---|---|---|
| `DelayQueue` | `delay_task.c`: `sync_delay_time`, `add_delay_task`, `del_delay_task`, `destroy_sess_task` | the loops over the delta list as operators on sequences; no state |
| `DelayTask` | `delay_task.c` | the queue as a state machine |
| `TimerList` | - | abstract: independent timers with an order among them |
| `ThreadPool` | `ThreadPool.c` | the pool, one step per critical section |
| `WorkQueue` | - | abstract: a bounded FIFO of tasks, closed and then released |
| `RtspServer` | `rtsp_srv.c`, `sd_handler.c`, `rtsp_sess.c`, `rtsp_method.c`, `rtsp_parser.c`, `rtp.c` | the server thread and its clients; uses `DelayQueue` for its tasks |
| `RtspClient` | client's `rtsp_cli.c`, `sd_handler.c`, `rtsp_method.c`, `send_queue.c`, `librtspcli.c` | one channel: its thread, its user, the network and the server |
| `Interleaved` | client's `sd_handler.c`: `recv_from_rtsp_sd` | the framing of answers and packets on one connection |
| `SettingRecord` | `SettingModifyRecordKeeping.cpp`, `MappingSettingModifyRecord.cpp`, `MappingSettingStatistics.cpp` | records, counts and the file |
| `MCDelayTask`, `MCThreadPool`, `MCRtspServer`, `MCInterleaved` | - | instances for TLC; what clients and servers send |
| `SequenceSelection` | - | `Only`, the part of a sequence that is in a set, for `SettingRecord` and `Interleaved`: `SelectSeq` as a recursive function, which proofs can expand |
| `DelayQueueProofs`, `DelayTaskProofs`, `ThreadPoolProofs`, `RtspServerProofs`, `RtspClientProofs`, `InterleavedProofs`, `SettingRecordProofs` | - | theorems and proofs |
| `SequenceLemmas` | - | what the proofs share: induction up to a bound, recursive functions, sequences |

Definitions named in a comment as *a seeded fault* are variants of the definition after them with a plausible
bug. No specification uses them: putting one in place of the definition it precedes must violate the property
it is aimed at, which shows that the property depends on that line of the code.

### DelayQueue and DelayTask

The C list becomes a sequence of entries `[id, arg, delta]`. `DueTimes(q)[i]`, the sum of the deltas up to
entry *i*, replaces the running subtraction of the loops. `skew` is `time_now() - last_sync_time`, so that the
clock is bounded without a horizon; it is negative after the clock was set back, and `Elapsed` ignores what is negative
or does not fit an `int`, as `sync_delay_time` does. All calls come from the server's thread, so a call is a step, except
`do_delay_task`: its callback runs between `StartTask` and `FinishDelayed` or `FinishDone`, and may create and
destroy tasks meanwhile. `spilled` records that `del_delay_task` took the list head for a task.

`TimerList` says what this amounts to: each task has a time left of its own that only the clock changes,
and runs behind those due no later when it was added. The refinement mapping computes each task's due time and the pairs
of tasks in list order.

### ThreadPool

A critical section is a step that needs `lock = NoThread`; the only thread that keeps the mutex between two
steps is one whose second `threadpool_destroy` returned early. `worker[w]` is where a worker is: `ready` (about
to lock the mutex, from the top of the loop or from `pthread_cond_wait`), `waiting`, `busy`, `exited`.
`pthread_cond_signal` wakes any one waiting worker, or none if none waits; `SpuriousWakeup` wakes one at any time.
Between waking and getting the mutex another worker may take the task. `started++` in `threadpool_create` is not under the
mutex, but no worker decrements before a shutdown, which comes after. The buffer is modelled as it is (array,
`head`, `tail`, `count`), and `pending` reads it as a sequence for the refinement of `WorkQueue`. Users: nobody
calls the pool once it may have been freed; tasks do not destroy their own pool.

### RtspServer

`pc` is where the loop is: `check` (send queues, then the minimum delay), `wait` (`epoll_wait`), `events` (the
batch, one event per step, in any order; then `do_delay_task`), `run` (a task's procedure) and `ran` (its
return value). Clients, the kernel's sockets and the stream are the environment and may act between any two steps
of the loop; the stream's answers are nondeterministic choices (`Frame`, `StartFails`).

* **Descriptors** are the numbers the kernel would give: the lowest free one. `owner` says what each is. A new
  session's unset descriptors are 0, as `mallocz` leaves them, 0 being standard input until a session closes it. A client cut
  off because somebody closed its descriptor is `cut`. The RTP and RTCP sockets of a track are one descriptor:
  the RTCP handler does nothing.
* **Edge triggering**: `edge` is the ready list of epoll for reading and errors. A descriptor enters it when a
  client sends or leaves, when the server accepts a readable connection, or at `EPOLL_CTL_MOD` if there is something to read; it leaves it when
  reported. `armedOut` are those armed for `EPOLLOUT`; any part of them may become writable.
* **Requests** are the cases the server tells apart: `info` (OPTIONS, GET_PARAMETER, SET_PARAMETER), `bad` (refused
  with an error status), `junk` (unusable, which is never answered), and the others by name; a SETUP names its track or
  the interleaved transport. `infoUdp` and `infoTcp` are requests other than SETUP with a Transport header, which the parser
  takes for the session's whatever the method. One `recv` takes all there is and is one request.
* **A destroyed session** leaves a client that is still there without a connection but owed what it was owed: the answers in the send
  queue are freed unsent. It may connect again, and begins anew.
* **A frame** is one packet, and a stream has no frame while `MaxSendQueue` packets wait: the code bounds
  neither, and the bound keeps the model finite. Audio frames are dropped, as the code does; a frame of a type that
  `prefetch_frm` does not know (`other`) ends the pump.
* `streaming` says that `start_strm` succeeded last and `stop_strm` has not been called since.
* **What clients ask, and when.** `Follows` says which request may come after which. Two conditions on it, together with
  `Outstanding = 1`, have names: `EachTrackSetUpOnce` (no track is set up a second time on a connection, nor another transport named
  once one is) and `DescribedBeforeSetUp` (no DESCRIBE once a track is set up). libRtspClient keeps to both: it asks one request at a time
  (`RequestsAreAskedInTurn`), in the order DESCRIBE, SETUP of video, SETUP of audio, PLAY. The server does not enforce
  them, and four of its properties need them: a second SETUP overwrites the descriptor of the first in the session, so that its
  handler is never taken off, a Transport header that names TCP makes `destroy_rtp_sess` pass over the sockets of a session that
  was set up over UDP, and a DESCRIBE stops the stream when it has found an I frame (`rtsp_method.c:240`).
  `MCRtspServer` states both as `ClientAssumption`, which TLC checks in each run of the server.

Not in this model: start and stop of the server, failing allocations and `setsockopt`, EINTR, the contents of messages,
RTP headers, RTCP packets on the RTSP connection, and more than `EPOLL_MAX_EVENTS` events at once.

### RtspClient

`pc` is where the session thread is: `connect`, `top` (`single_step` begins), `send` (`check_send_queue`), `wait` (`epoll_wait` and the
test for TEARDOWN that follows it), `handle` (`handle_rtsp_sd`), `failed` (`single_step` returned -1) and `gone`. These
are the points between which the user's thread makes a difference: `close_chn` writes `todo` (`CloseBegins`), then takes a CSeq and queues
its request (`CloseSends`), which may get lost where the thread works on the same list. Where the thread has ended and freed the session
by then, `close_chn` writes to freed memory (`CloseTooLate`, `user = "late"`), after which nothing is said of the user.

* **The connection** `conn` is up, closed by the server (`fin`), reset (`rst`) or `silent`: the last is noticed only because keepalives
  stay without an answer. `inbox` and `rx` are the requests and answers on their way. What the client sends to a server that has closed
  brings back a reset (`Reset`), which discards what it has not received yet. `inEdge` and `outEdge` are epoll's
  ready list for the socket. `EPOLL_CTL_MOD` in `check_send_queue` reports once more what is there, so that a closed connection is
  seen when a keepalive is sent; with `EPOLLERR` or `EPOLLHUP` the event is passed over (`rtsp_cli.c:140`).
* **Answers** count when their status is good and their CSeq the last one sent; the client knows the answer's
  method only from `todo`. One `recv` takes all there is and looks at the first answer of it.
* **`past`** records what the properties except: a connection that began with requests of an earlier one (`stale`), a keepalive sent
  while a request was unanswered (`late`), and the methods that were refused.

### Interleaved

A byte is known by its message and its place there; of its value matter only `$` and the end of a line. The messages a server
sends are `WellFormed`: a packet begins with `$` and has its header; an answer ends a line, is no shorter than `rtsp_msg_complete`
wants (`MinAnswer`) and has no `$`. The last is what the code tells packets from answers by: it splits an answer at its
`$` and takes what follows for a packet. A step is one
`recv` of any length, the completion of a kept packet, or a turn of the loop with a run of text taken as a whole. A size
that is read from anything but a packet's header may be anything up to the largest. The bytes that
`lastp->sz += ptr - new` (line 172) counts for the second time are `Garbage`.

### SettingRecord

`records` is the multimap, `stats` the count and earliest time per name, `file` the lines on disk. `Load` and `Set`
end in the loop of `dereplicationModifyRecordParamMap`, one turn of which is `Trim`. A save is two steps, so that a crash
may come between; what it leaves is a prefix of the lines. `locked` says that a `save` or `reSet` whose `fopen` failed has
returned with the mutex locked; the next one is `stuck`. Old and new values and the settings they are read from are left out.

### How the components fit together

`DelayQueue`'s operators are shared by `DelayTask` and `RtspServer`, which keeps its tasks with them; the proofs about both
rest on the same lemmas (`DelayQueueProofs`). Client and server are not composed in one state space. What each assumes of the other is
instead checked of the other:

* the server runs have clients with one request outstanding (`Outstanding = 1`) that ask in the order of `Follows`. That is
  what `OneRequestAtATime` shows of `RtspClient`, whose order is OPTIONS, DESCRIBE, SETUP per track, PLAY;
* `RtspClient` has a server that answers in order and each request once, and forgets who is gone. That is
  `OneAnswerPerRequest`, `RequestIsAnswered` and `GoneClientIsForgotten` of `RtspServer`. That the server may also
  never answer is part of the client's model (`silent`);
* over an interleaved connection `Interleaved` shows under which cuts the client's `rx` is what the server sent.

## 3. What is checked

| run | what it shows | states |
|---|---|---|
| `delay_task` | three tasks of two sessions: types, a task is queued once, the running task stays at the head, the list implements `TimerList`, and every task is started or destroyed once the clock no longer jumps | 19,780 |
| `delay_task_spill` | **violated**: `del_delay_task` adds a delta to what is not a task | |
| `thread_pool` | three workers, three slots, two users: no lost wakeup, no sleeper in a shutdown, freed last, implements `WorkQueue`; accepted tasks start, and a pool that is destroyed once stops | 55,746 |
| `thread_pool_two_destroys` | **violated**: a second destroy keeps the mutex locked | |
| `rtsp_session` | one client of any kind, every method, PLAY also again and after PAUSE: eight safety properties | 199,455 |
| `rtsp_two` | two sessions that come and go with each other's descriptors | 408,366 |
| `rtsp_live` | requests but TEARDOWN are answered unless the client leaves, gone clients forgotten, the loop comes back | 13,602 |
| `rtsp_destroy_later` | **violated**: a destroy that was to be performed later never is | |
| `rtsp_client` | one channel with two tracks, any connection broken once in any way, a SETUP that may be refused, a user who may close at any time: three invariants, one action property, four temporal properties | 321,134 |
| `rtsp_client_close` | **violated**: closing a channel does not stop its thread | |
| `interleaved` | every stream of up to three packets and answers, cut in every way | 390,912 |
| `setting_records` | two parameters, six changes, two processes, a crash at any point | 361,961 |

### Findings

1. `del_delay_task` (`delay_task.c:113-117`) guards against an empty and a singular list but not against the
   last entry. `DelayTaskProofs!OnlyDestroySessTaskSpills` shows that only `destroy_sess_task` can do it: whatever
   `do_delay_task` deletes is at the head and due. In `struct rtsp_srv` the list head is the last field, so the
   write goes behind the structure.
2. A second `threadpool_destroy` (`ThreadPool.c:210-213`) returns without unlocking.
3. `handle_rtsp_sd` and `destroy_rtsp_sess_contain_sd` ignore that `destroy_rtsp_sess` may want to be
   called later (`sd_handler.c:121`, `135`, `rtsp_sess.c:424`).
4. `close_chn` of the client leaves its request in `todo`, which a reconnection, `start_playing` and a keepalive overwrite
   (`rtsp_cli.c:165`, `60`, `110`); nothing sets it again, and the thread goes on. `TeardownEndsTheThread` is what does hold.

### Where a property needs its condition

The conditions in the properties and the requests left out of the runs are not conveniences: without them TLC finds
a counterexample, and the code behaves as it says. Each is also a hazard in `PROJECT.json`, unless it is minor.

*Server.* `check_send_queue` (`rtsp_sess.c:498-500`) and the loop's `continue` (`rtsp_srv.c:145-147`) let one session whose
packets have no socket, as only its audio track was set up, stop the service of all (`LoopComesBack`). `prefetch_frm`
(`rtp.c:246-249`) ends where its comment says it waits, if a DESCRIBE is in progress while its session plays
(`PlayingHasPump`); a DESCRIBE between SETUP and PLAY stops the stream (`PlayingIsStreaming`). A frame of an unknown type ends the pump, and the session
goes on "playing" (`rtp.c:265-267`; `PlayingHasPump` is checked without, `rtsp_live` with such frames). Two requests received together
are one, and a second SETUP, or another transport named in any request after one, leaves handlers behind (`OneAnswerPerRequest`, `HandlerArgLive`).
TEARDOWN's own answer may be dropped: 10 ms later `destroy_rtsp_sess` frees the send queue with the session, and what has
not been sent by then, such as an answer behind an RTP packet, is lost. `RequestIsAnswered` excepts that answer, and no other that the server drops.

*Client.* The send queue survives a reconnection: its old requests go out first on the new connection, their answers
have an old CSeq, and the channel never plays (`FreshChannelPlays` says *Fresh*). A reset before PLAYING is never noticed, as no request
is queued and the event is passed over. That includes the reset which the client provokes when it asks its next request of a server that has just
closed: `ClosedConnectionIsNoticed` excepts it, and `DeadServerIsNoticed` is about PLAYING. A track is enabled when
it is asked for, so that a refused SETUP counts as done (`ClientBelievesTheServer`). An answer that comes with the one to a late
keepalive is not looked at, and the count of keepalives stays (`PromptServerIsKept`).

*Framing.* A packet whose header is cut by `recv` is lost, as is what follows until the next `$` (`PacketsAreWhole` excepts
`header`). An answer that is cut is kept with its length counted twice, lines 165 and 172; one cut at the end of a line is
handed over as if it were whole; two received together are handed over as one (`MessagesAreWhole` excepts `answer` and `joined`).

*Setting records.* Load must come once per process, before the first `set`: a second one counts every record twice, and the loop that
removes the surplus may then find nothing to remove, under the mutex. All records with the earliest time go at once, which
may be all there are; a record made after the clock was set back is removed at once. `fopen` failing leaves
the mutex locked. `erase(it)` followed by `it++` in that loop is undefined; the model lets it take all records of that time, pass over some
but not over all of them, or the process crash.

Two more differences are visible without a run: the pool's README (line 8) says one slot is reserved to signal a full
queue, while `threadpool_add` fills all of them; and `rtp.c:269` says 30 ms where the code has 10.

### Bounds, and why they are enough

* `delay_task`: three tasks give an entry before, at and after every insert and delete; two sessions make
  `destroy_sess_task` keep some and delete some; the delays contain 0, a tie and a task that overtakes; `MaxSkew = IntMax` reaches
  the forgotten jump, `MaxBack = 1` the clock set back (how far does not matter).
* `thread_pool`: with three workers one can be woken, one asleep and one busy at the same time; a queue of
  three wraps around and is reached full. `AcceptedTaskStarts` and `OneDestroyStopsThePool` except what a second destroy
  does (finding 2).
* `rtsp_*`: `MaxFd` is one less than the sockets the clients could open in the safety runs, so that `accept` and `socket` fail at
  first; once a session has closed descriptor 0 there is room for all. The delays keep their order (5 and 10 ms one unit, 40 ms two) in the safety runs; in the liveness
  runs all are one. One request is outstanding: with two, pipelined requests are lost or handled twice (see the hazards).
  Each PLAY adds a pump task, so that clients may ask for PLAY only while there are at most `MaxTasks` tasks: two in `rtsp_session`, which gives
  one session three tasks at once.
  `rtsp_session` leaves out the requests that break its properties (DESCRIBE once a track is set up, see above).
* `rtsp_client`: two tracks make a first, a last and a next SETUP; two keepalives before the server is given up separate
  "one is lost" from "all are"; the CSeq, modulo 5 instead of 2^32, is more than the requests that can be in flight at once, and wraps
  around. One broken connection shows every stage of the conversation cut off, and a second conversation after it.
* `interleaved`: three messages give a packet and an answer before, between and after each other; packets have two bytes of header
  and two of payload, so that both can be cut inside and between, and one has a `$` and a line end in its payload; the answer has
  two lines. Sizes and the smallest answer (3 instead of 4) are those of the model.
* `setting_records`: one record per parameter instead of `COUNT_OF_PARAM_IN_MODIFY_FILE_MAX`; two times give ties, an earlier and a later record; two
  changes of one parameter are a surplus, six of two parameters several; the second process begins with what the first left.

### Fairness

* `DelayTask`: the clock runs on from some point without leaving what an `int` holds (the condition of `EveryTaskIsServed`), the loop returns to `do_delay_task` and callbacks return. The loop's timeout in
  `epoll_wait` is the first task's delay.
* `ThreadPool`: every thread that can take a step takes one. Weak fairness is enough: a worker that waits for the
  mutex sees it free between any two critical sections, as each is one step. Spurious wakeups are not fair.
* `RtspServer`: the loop takes steps and the clock runs (weak); `EpollWait(armedOut)` is strongly fair, because a client that
  is there reads, so that its socket becomes writable again; a DESCRIBE ends in the end, because an encoder
  delivers I frames. What clients do is not fair: they may stop at any point.
* `RtspClient`: the session thread takes its steps, `connect` is tried until it succeeds, the clock runs, and a `close_chn` that has
  begun ends (weak). The server answers or refuses (weak) and does not refuse for ever what it could answer
  (`SF_vars(Answer)`), while its connection is up. That a connection breaks, packets arrive or the user closes is not fair.
* `SettingRecord`: only the loop that removes the surplus is fair. What is called next, and crashes, are not.

The server and the pool may rest (no client, no task), after a second destroy the pool is stuck, a client's thread ends, a
stream has been received, and the last process has stopped: these runs say `CHECK_DEADLOCK FALSE`.

## 4. What is proved

`ThreadPoolProofs` proves, for any number of workers and users, any queue size and any tasks:

* `PoolTypes`, `NoWakeupIsLost`, `NobodySleeps`, `FreedLast`: the invariants of `thread_pool`;
* `PoolImplementsWorkQueue`: every behaviour is one of `WorkQueue`, if `ThreadCount # 0`. Without
  a worker a graceful destroy frees the pool with tasks in it, which TLC confirms.

Assumed are only that `ThreadCount` is a natural number, `QueueSize` a positive one, and that the `No...` values are none of the
real ones. The inductive invariant `PoolInv` has three parts. *PoolShape* says how control and data fit together: workers are created in
order, `tail` is `count` slots after `head`, only busy workers have a task, nobody sleeps once the flag is set, those joined
have exited, and no worker exits while a graceful shutdown has tasks. *StartedCountsAlive* ties the counter `started` to the
number of workers alive, which the freeing of the pool depends on. *NoLostWakeup* counts: `count` never exceeds
the workers that are ready while one sleeps. It is inductive because a signal moves one worker from sleeping to
ready for each task added, a grab takes one of each, and a worker falls asleep only at `count = 0`.

`DelayQueueProofs` proves what the list's operators return: `DueTimes` as a recurrence, that `InsertPos` exists and is
the first entry due later, how insertion, deletion and ageing change each entry's due time, and that they and the walk of
`destroy_sess_task` keep the deltas natural.

`DelayTaskProofs` proves, for any tasks, sessions, delays and clock, `DelayTaskTypes`, `TaskIsQueuedOnce`, `TaskRunsAtHead`
and `OnlyDestroySessTaskSpills`. The conjunction of the first three is inductive and none of them is alone: that the head keeps its
task through a deletion needs that no other entry is that task, that nothing is inserted before a due head needs natural
deltas, and that the walk of `destroy_sess_task` keeps the head's delta unless it deletes the head is an invariant of the walk
(`WalkedTo`).

`DelayListImplementsTimers` says that the delta list implements `TimerList`. `TimerOf(q)` and `OrderOf(q)` are what the refinement
mapping makes of a list; a lemma for each operator says what it does to them. Ageing subtracts from all and keeps the
order (`ElapsedTimers`); an insertion adds one timer, behind those due no later, and changes no other although it
splits a delta (`InsertedTimers`); what a deletion leaves is *thinned*, the same timers and order without some
(`ThinnedTimers`), of which the walk of `destroy_sess_task` is a composition. Each action is then one of `TimerList`, by the
invariant above: a task that is deleted or put back when its callback has returned is at the head, and on the list once.

`RtspServerProofs` proves about the server, for any number of clients, any descriptors, delays and bound on the send queue, and any
requests the clients are allowed:

* `TypesHold`, `TasksAreOfLiveSessions`, `RequestsAreAnsweredOnce`, `RetriesHaveTasks`;
* `HandlersAreOfLiveSessions`, `SocketsHaveHandlers` and `SessionsOwnTheirHandlers`, if `EachTrackSetUpOnce`. The last says of which
  connection or track of its session each handler is, and that destroying a session would leave none of its own;
* `StreamsRunWhilePlaying` and `PumpsRunWhilePlaying`, if `DescribedBeforeSetUp`; the latter also if no frame is of an unknown type.

The invariants are a chain, each inductive with those before it. *TypeInv* has, besides types, what keeps the loop's own
pointers: a batch's event has a handler, and the task that runs is the list's head. *Owned* says who owns what: a client has one session,
waiting to be accepted or on the list; each handler has its descriptor to itself, one of a connection is its session's, and one of an RTP socket has the client that the socket was opened for.
That no task is left of a session that is freed (`TaskArgLive`) follows because `destroy_sess_task` takes all of its tasks off, and
because only sessions on the list create any. *Answering* counts what is left of requests: unread, as a task, as a
response. It is never more than the client waits for, and a session that retries has its task. *OneRequest* says, of one
request at a time, that it is the last that was sent wherever it is, so that what a handler does can be tied to `Follows`. *OpenHandled* and
*RtpOwned* then say that every socket has its handler and each RTP handler is of a track that will not be set up
again, and *Streams* that a session past `INIT` streams and its client will not ask for a DESCRIBE.
What a method does is described once, as an outcome and what may change with it (`Handling`), of which every method is shown to
be a case (`RequestIsHandling`). The last two links also sort all steps into six kinds (`StepKinds`); most steps are
*quiet*: they change neither who owns what nor what plays.

The proof corrected one property: the task whose procedure has returned an error still counted as ending when that procedure's own call had
already taken it off the list, so that the first task of the next list was passed over (`EndingTask` now asks for `dtp`).

`RtspClientProofs` proves, for any tracks, width of CSeq, bound on keepalives, number of broken connections and choice of what is
refused, `ClientTypes`, `RequestsAreAskedInTurn` (`OneRequestAtATime`) and `ServerDidWhatIsBelieved`
(`ClientBelievesTheServer`). Assumed are that `Media` is a part of video and audio, not empty, and that the bounds are
natural numbers. The client never compares an answer's method with its request's, so that what it
believes rests on the order of things; the inductive invariant `ClientInv` says which order. *Conduct*: a connection begins with
nothing left of the last one but the send queue; input on a connection that is up is an answer; who plays has PLAY or OPTIONS to
do and does not fall back. *Conversation*: of what is in flight there is as much as `handling` says; it all asks what `todo` says, while the client does
not play; nobody asks for TEARDOWN; a good answer to PLAY means that the server plays; and every track asked for is
set up or its SETUP is on the way. `OneRequestAtATime` is not inductive alone: that input is an answer, and that a connection begins
clean, is what makes the counts agree. CSeq is not needed, as long as the queue is empty at first.

`SettingRecordProofs` proves, for any parameters, times, numbers of changes and of processes and any bound on the records,
`SavedIsLoadedAgain` (`SavedIsLoaded`) and `ResetRecordsStayAway` (`ResetIsFinal`). Assumed is only that the bounds and the times are
natural numbers. `LinesOfNames` and `OfLines` say that
writing and reading undo each other: the lines of a name, picked out of the file, are its records, and a file cut
anywhere holds a beginning of each. *CountInv* ties each count to its records, and says that there are no more than `MaxRecords` of a parameter
whenever a call has returned, in the file, and so after a load: the loop that removes the surplus has nothing to do there. Without it
a process could begin with less than what was saved. *SaveInv* says that the file, and what was read of it, is what was to be
written or, after a crash, a beginning of it. *ResetInv* follows the records made before a reset: they may stay in memory
as long as the reset flag keeps `save` from writing them, and a process that ends takes them along.

`InterleavedProofs` proves, for any header size, any streams of well-formed messages and any pieces `recv` returns:

* `RestIsTheStreamsEnd`: what is yet to be received and what is yet to be looked at are the end of the stream, also when a header
  is cut: the code may misread bytes, but never goes back or leaves any out;
* `PacketsStayWhole` (`PacketsAreWhole`), `MessagesStayWhole` (`MessagesAreWhole`) and `NothingStaysLost` (`NothingIsLost`), under the
  cuts that the properties except.

The bytes of the stream are numbered; `Done` is how many have been looked at and `At(Done)` where in which message the rest begins.
*KeptInv* ties to that place all that the code remembers: if a packet is kept, the rest begins right behind the part that is; if
none is, it begins with a message or in an answer; and the packets before that place are those handed over. That no header
is cut makes a kept packet recognisable and its size true (`HeaderTotals`). A run of text is gone through byte by byte (`TextPassed`):
until the next `$` it stays in answers. *OneByOne* is for the streams of which no answer is cut or joined: a run of
text is exactly the next answer, and what was handed over, is kept and is text add up to `Done`. `RestIsTheStreamsEnd` must be an invariant of
its own, as the other two are about places in a stream whose rest is still the stream's.

`SequenceLemmas` holds what these proofs keep needing and the library does not have in a form the provers can use: a non-empty set of
numbers has a least, sets of numbers closed under successor have all up to a bound, recursive functions over such a range exist, and what
`FlattenSeq`, `Only`, `\o`, `Append` and `SubSeq` have for elements.

Only model-checked is liveness, which is out of the prover's reach: `EveryTaskIsServed`, `AcceptedTaskStarts`,
`OneDestroyStopsThePool`, the temporal properties of `rtsp_live`, `rtsp_client` and `setting_records`. So is the client's
`PromptServerIsKept`, which speaks of keepalives and their answers counted over many steps. The four runs that expect a violation are
counterexamples, which need no proof.

## 5. Not modelled

* *Server*: its start and stop against the running loop (`rtsp_srv.c:194-224`), failing allocations, a frame larger than what `send` takes, memory of
  the stream's file name, the number of packets that may wait (unbounded in the code), a second SETUP of a track that has
  its sockets, a failing `setup_non_intlvd_mode`, two connections that arrive in one event of the listening socket (it is
  edge-triggered and `accept` is called once).
* *Client*: RTCP reports, `deinit_rtsp_cli` while threads run, the text of answers and session descriptions, frame assembly.
* *Thread pool*: a task that destroys its own pool, and a call of `threadpool_add` that waits for the mutex while the pool
  is freed: the code leaves both to its callers.
* *`OwnCode/Messages`*: a queue over a pipe. The descriptors are non-blocking, so that a `select` whose timeout is not looked at ends in
  a `read` that fails with EAGAIN; a message is smaller than PIPE_BUF and written whole.
  *`OwnCode/Threads`*: slots of a table handed out under a mutex and filled outside it. *`OwnCode/LogC`*: a table filled without a lock.
* The rest is not the repository's own code: of its two million lines all but some twenty thousand are copies of
  ffmpeg, sqlite, lwIP, CLucene, curl and other projects, kept beside samples that call them, textbook algorithms or I/O. What the
  modules map is therefore a small share of the repository, although it is most of its concurrent and reactive code.

## 6. Plan

1. *RtspClient*: `PromptServerIsKept` as a theorem, with the keepalives sent and answered counted.
2. *RtspServer, more of the code*: start and stop against the loop, a failing allocation, the RTCP sockets.
3. *MessageQueue* and *ThreadTask*, if they find callers in the repository.
