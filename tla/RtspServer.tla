----------------------------- MODULE RtspServer -----------------------------
(***************************************************************************)
(* The RTSP server of libRtspServer: one thread that waits for events of   *)
(* its sockets (epoll, edge-triggered), gives each to the handler that is  *)
(* registered for the descriptor, and then runs the first delayed task if  *)
(* it is due.  A request is received by a socket handler and handled by a  *)
(* task, a stream is pumped by a task, and what they send goes through the *)
(* session's send queue, one buffer for each EPOLLOUT.                     *)
(*                                                                         *)
(* Clients, their connections and the stream callbacks are the             *)
(* environment.  A client's session is the memory of its struct rtsp_sess: *)
(* it is there while the client is in `list'.  Requests are the cases the  *)
(* server tells apart.  A descriptor is a number, as the kernel gives them *)
(* out and as the code compares them; the RTP and RTCP sockets of a track  *)
(* are one descriptor, because handle_rtcp_sd does nothing.                *)
(***************************************************************************)
EXTENDS DelayQueue, FiniteSets, SequencesExt

CONSTANTS
  Client,
  Request,        \* the requests clients send, of those in Requests below
  Follows,        \* <<last, next>>: which request a client sends after which
  Outstanding,    \* the requests a client sends without waiting
  Frame,          \* what get_frm returns: "I", "P", "A", "other" or "none"
  StartFails,     \* whether start_strm may fail
  MaxFd,
  Ms5, Ms10, Ms40,  \* the delays of the code, in the unit of the clock
  MaxSkew,        \* bound: how far the clock runs ahead of the last sync
  MaxSendQueue,   \* bound: packets in a send queue when a frame is got
  MaxTasks        \* bound: delayed tasks when a client asks for PLAY

(* infoUdp and infoTcp are info with a Transport header.                   *)
Requests == {"info", "infoUdp", "infoTcp", "describe", "setupV", "setupA",
             "setupTcp", "play", "pause", "teardown", "bad", "junk"}
Track == {"V", "A"}
SetupOf == [m \in Track |-> IF m = "V" THEN "setupV" ELSE "setupA"]

ASSUME RequestAssumption == Request \subseteq Requests
ASSUME DelayAssumption   == /\ {Ms5, Ms10, Ms40} \subseteq Nat \ {0}
                            /\ MaxSkew \in Nat /\ MaxSendQueue \in Nat
                            /\ MaxTasks \in Nat
ASSUME FdAssumption      == MaxFd \in Nat /\ Outstanding \in Nat \ {0}

Fd   == 0..MaxFd
NoFd == -1          \* not a descriptor, or one far above those in use

VARIABLES
  cli,        \* each client: its connection, unread requests, answers owed
  backlog,    \* connections not yet accepted
  lsnEdge,    \* the listening socket is on epoll's ready list
  edge,       \* so are these, for reading or for an error
  armedOut,   \* descriptors MODified to report EPOLLOUT, not yet reported
  owner,      \* what each descriptor is
  sess,       \* the rtsp_sess structures
  list,       \* rtsp_sess_list
  handlers,   \* sd_handler_list
  tasks,      \* delay_task_queue
  skew,       \* time since last_sync_time
  pc,         \* where the server thread is
  batch,      \* events of this round not yet looked at
  now,        \* the descriptor whose EPOLLOUT is looked at next
  ret,        \* next_delay in do_delay_task
  dtp         \* its task: still on the list, or freed meanwhile

net    == <<cli, backlog, lsnEdge, edge, armedOut>>
store  == <<owner, sess, list, handlers>>
timers == <<tasks, skew>>
run    == <<pc, batch, now, ret, dtp>>
vars   == <<net, store, timers, run>>

---------------------------------------------------------------------------
Offline == [conn |-> "idle", rx |-> <<>>, owed |-> 0, last |-> "none"]

(* mallocz: a new session's descriptors are 0, not -1.                     *)
NewSess == [state |-> "INIT", handling |-> "INIT", sd |-> 0, intlvd |-> FALSE,
            udp |-> [m \in Track |-> 0], buf |-> "none", req |-> "none",
            out |-> <<>>, streaming |-> FALSE]

Listed == Range(list)

Unused == <<"free">>
Stdin  == <<"std">>
Free(fd) == owner[fd] = Unused
LowestFree == IF \E fd \in Fd : Free(fd)
              THEN CHOOSE fd \in Fd : Free(fd) /\ \A e \in 0..fd-1 : ~Free(e)
              ELSE NoFd

Tcp(c) == <<"tcp", c>>
Udp(c) == <<"udp", c>>
SocketOf(c) == {fd \in Fd : owner[fd] = Tcp(c)}
IsOpen(fd) == fd \in Fd /\ \E c \in Client : owner[fd] \in {Tcp(c), Udp(c)}

(* recv() would return something other than EAGAIN.                        *)
Readable(c) == cli[c].rx # <<>> \/ cli[c].conn \in {"fin", "rst"}
ReadableFds == UNION {SocketOf(c) : c \in {d \in Client : Readable(d)}}

(* register_sd_handler adds at the tail, deregister_sd_handler takes the   *)
(* first of this descriptor, do_sd_handler looks for the same.             *)
HandlerIndex(hs, fd) == SelectInSeq(hs, LAMBDA h : h.sd = fd)
DeregisterFirst(hs, fd) ==                               \* a seeded fault
  IF HandlerIndex(hs, fd) = 0 THEN hs ELSE Tail(hs)
Deregister(hs, fd) == IF HandlerIndex(hs, fd) = 0 THEN hs
                      ELSE RemoveAt(hs, HandlerIndex(hs, fd))

NewTask(proc, c, d) == [proc |-> proc, arg |-> c, delta |-> d]

(* create_delay_task.                                                      *)
CreateTask(proc, c, d) ==
  /\ tasks' = Insert(Elapse(tasks, skew), NewTask(proc, c, d))
  /\ skew' = 0

(* epoll_ctl(EPOLL_CTL_MOD): whatever is there to read is reported again.  *)
Modify(fds, out) ==
  /\ edge' = edge \cup (fds \cap ReadableFds)
  /\ armedOut' = IF out THEN armedOut \cup fds ELSE armedOut \ fds

---------------------------------------------------------------------------
Init ==                                                \* start_rtsp_srv
  /\ cli = [c \in Client |-> Offline]
  /\ backlog = <<>> /\ lsnEdge = FALSE
  /\ edge = {} /\ armedOut = {}
  /\ owner = [fd \in Fd |-> IF fd = 0 THEN Stdin ELSE Unused]
  /\ sess = [c \in Client |-> NewSess]
  /\ list = <<>> /\ handlers = <<>>
  /\ tasks = <<>> /\ skew = 0
  /\ pc = "check" /\ batch = {} /\ now = NoFd
  /\ ret = -1 /\ dtp = "freed"

---------------------------------------------------------------------------
(* The environment.                                                        *)

Connect(c) ==
  /\ cli[c].conn = "idle"
  /\ cli' = [cli EXCEPT ![c] = [Offline EXCEPT !.conn = "up"]]
  /\ backlog' = Append(backlog, c)
  /\ lsnEdge' = TRUE
  /\ UNCHANGED <<edge, armedOut, store, timers, run>>

Send(c, m) ==
  /\ cli[c].conn = "up"
  /\ cli[c].owed < Outstanding
  /\ <<cli[c].last, m>> \in Follows
  /\ m = "play" => Len(tasks) <= MaxTasks
  /\ LET k == cli[c]
     IN  cli' = [cli EXCEPT ![c] =
                   [k EXCEPT !.rx = Append(k.rx, m), !.owed = k.owed + 1,
                             !.last = m]]
  /\ edge' = edge \cup SocketOf(c)
  /\ UNCHANGED <<backlog, lsnEdge, armedOut, store, timers, run>>

(* The client closes its side, or its host resets the connection.          *)
Leave(c, how) ==
  /\ \/ cli[c].conn = "up" /\ how = "fin"
     \/ cli[c].conn \in {"up", "fin"} /\ how = "rst"
  /\ LET k == cli[c]
     IN  cli' = [cli EXCEPT ![c] =
                   [k EXCEPT !.conn = how,
                             !.rx = IF how = "rst" THEN <<>> ELSE k.rx]]
  /\ edge' = edge \cup SocketOf(c)
  /\ UNCHANGED <<backlog, lsnEdge, armedOut, store, timers, run>>

Tick ==
  /\ skew < MaxSkew
  /\ skew' = skew + 1
  /\ UNCHANGED <<net, store, tasks, run>>

---------------------------------------------------------------------------
(* destroy_rtsp_sess.  While a request is being retried it does nothing    *)
(* but return a delay; only a delayed task's caller looks at that.         *)
Destroyable(c) == sess[c].handling = "INIT"

DescriptorsButRtp(c) == {sess[c].sd}                     \* a seeded fault

Descriptors(c) ==
  {sess[c].sd} \cup IF sess[c].intlvd THEN {} ELSE Range(sess[c].udp)

HandlersWithout(c) ==
  LET first == Deregister(handlers, sess[c].sd)
  IN  IF sess[c].intlvd THEN first
      ELSE Deregister(Deregister(first, sess[c].udp["V"]), sess[c].udp["A"])

(* A client that is there when its session is destroyed is still owed what *)
(* it was: the send queue is freed with the session, unsent.               *)
Dropped(k) == IF k.conn \in {"fin", "rst"} THEN Offline
              ELSE [Offline EXCEPT !.owed = k.owed, !.last = k.last]

DestroyLeaving(c, hs, ts) ==
  LET closed == Descriptors(c)
  IN  /\ list' = RemoveFirst(list, c)
      /\ handlers' = hs
      /\ owner' = [fd \in Fd |-> IF fd \in closed THEN Unused ELSE owner[fd]]
      /\ cli' = [d \in Client |->
                   IF d = c THEN Dropped(cli[d])
                   ELSE IF SocketOf(d) \cap closed # {}
                     THEN [cli[d] EXCEPT !.conn = "cut", !.rx = <<>>]
                   ELSE cli[d]]
      /\ edge' = edge \ closed
      /\ armedOut' = armedOut \ closed
      /\ tasks' = ts
      /\ sess' = [sess EXCEPT ![c] = NewSess]

DoDestroyKeepingTasks(c) ==                              \* a seeded fault
  DestroyLeaving(c, HandlersWithout(c), tasks)

DoDestroyKeepingRtp(c) ==                                \* a seeded fault
  DestroyLeaving(c, Deregister(handlers, sess[c].sd), DeleteArg(tasks, c))

DoDestroy(c) ==
  DestroyLeaving(c, HandlersWithout(c), DeleteArg(tasks, c))

DestroyRtspSess(c) ==
  \/ Destroyable(c) /\ DoDestroy(c)
  \/ /\ ~Destroyable(c)
     /\ UNCHANGED <<list, handlers, owner, cli, edge, armedOut, tasks, sess>>

---------------------------------------------------------------------------
(* The top of the loop: check_send_queue, which gives up at the first      *)
(* descriptor epoll does not know, then get_min_delay_time.                *)
SendTargetOfTrack(c) ==                                  \* a seeded fault
  IF sess[c].intlvd THEN sess[c].sd ELSE sess[c].udp["V"]

SendTarget(c) == IF sess[c].intlvd \/ Head(sess[c].out) = "resp"
                 THEN sess[c].sd ELSE sess[c].udp["V"]

Sending == {i \in 1..Len(list) : sess[list[i]].out # <<>>}
Stuck   == {i \in Sending : ~IsOpen(SendTarget(list[i]))}

CheckSendQueue ==
  /\ pc = "check"
  /\ Modify({SendTarget(list[i]) :
               i \in {j \in Sending : \A k \in Stuck : j < k}}, TRUE)
  /\ IF Stuck = {} /\ tasks # <<>>
     THEN tasks' = Elapse(tasks, skew) /\ skew' = 0
     ELSE UNCHANGED timers
  /\ pc' = IF Stuck = {} THEN "wait" ELSE "check"
  /\ UNCHANGED <<cli, backlog, lsnEdge, store, batch, now, ret, dtp>>

(* epoll_wait: every descriptor on the ready list that still has something *)
(* to report, or none when the first task is due.                          *)
LsnFd == -2

Events(fd, outs) ==
  (IF fd \in edge \cap ReadableFds THEN {"in"} ELSE {})
    \cup (IF fd \in edge /\ \E c \in Client : fd \in SocketOf(c)
                                            /\ cli[c].conn = "rst"
          THEN {"hup"} ELSE {})
    \cup (IF fd \in outs THEN {"out"} ELSE {})

Reported(outs) ==
  {r \in {[fd |-> fd, evs |-> Events(fd, outs)] : fd \in Fd} : r.evs # {}}
    \cup (IF lsnEdge /\ backlog # <<>>
          THEN {[fd |-> LsnFd, evs |-> {"in"}]} ELSE {})

EpollWait(outs) ==
  /\ pc = "wait"
  /\ outs \subseteq armedOut
  /\ batch' = Reported(outs)
  /\ batch' = {} => tasks # <<>> /\ tasks[1].delta <= skew
  /\ edge' = {} /\ lsnEdge' = FALSE
  /\ armedOut' = armedOut \ outs
  /\ pc' = "events"
  /\ UNCHANGED <<cli, backlog, store, timers, now, ret, dtp>>

---------------------------------------------------------------------------
(* One event of the batch; the kernel's order is not known.                *)
Take(e) == /\ pc = "events" /\ now = NoFd
           /\ e \in batch
           /\ batch' = batch \ {e}

(* handle_lsn_sd: one accept, create_rtsp_sess.                            *)
Accept(e) ==
  /\ Take(e)
  /\ e.fd = LsnFd
  /\ IF LowestFree = NoFd
     THEN UNCHANGED <<net, store>>
     ELSE LET c  == Head(backlog)
              fd == LowestFree
          IN  /\ owner' = [owner EXCEPT ![fd] = Tcp(c)]
              /\ backlog' = Tail(backlog)
              /\ sess' = [sess EXCEPT ![c] = [NewSess EXCEPT !.sd = fd]]
              /\ list' = <<c>> \o list
              /\ handlers' = Append(handlers, [sd |-> fd, proc |-> "rtsp",
                                               arg |-> c])
              /\ edge' = IF Readable(c) THEN edge \cup {fd} ELSE edge
              /\ UNCHANGED <<cli, lsnEdge, armedOut>>
  /\ UNCHANGED <<timers, pc, now, ret, dtp>>

(* EPOLLERR or EPOLLHUP: destroy_rtsp_sess_contain_sd.                     *)
ContainsSd(c, fd) == sess[c].sd = fd \/ fd \in Range(sess[c].udp)

Hangup(e) ==
  /\ Take(e)
  /\ "hup" \in e.evs
  /\ LET at == {i \in 1..Len(list) : ContainsSd(list[i], e.fd)}
     IN  IF at = {}
         THEN UNCHANGED <<list, handlers, owner, cli, edge, armedOut, tasks,
                          sess>>
         ELSE DestroyRtspSess(list[CHOOSE i \in at : \A j \in at : i <= j])
  /\ UNCHANGED <<backlog, lsnEdge, skew, pc, now, ret, dtp>>

(* do_sd_handler finds no handler.                                         *)
NoHandler(e) ==
  /\ Take(e)
  /\ e.fd # LsnFd /\ "hup" \notin e.evs
  /\ HandlerIndex(handlers, e.fd) = 0
  /\ UNCHANGED <<net, store, timers, pc, now, ret, dtp>>

Handler(fd) == handlers[HandlerIndex(handlers, fd)]

Handles(e, proc) ==
  /\ e.fd # LsnFd /\ "hup" \notin e.evs
  /\ HandlerIndex(handlers, e.fd) # 0
  /\ Handler(e.fd).proc = proc

(* The clients whose connection is this descriptor: one or none.           *)
Peers(fd) == {c \in Client : fd \in SocketOf(c)}

(* handle_rtsp_sd, EPOLLIN: all there is to read is one request.           *)
Receive(e) ==
  /\ Take(e)
  /\ Handles(e, "rtsp")
  /\ "in" \in e.evs
  /\ LET c == Handler(e.fd).arg
     IN  \E d \in Peers(sess[c].sd) :
           /\ cli[d].rx # <<>>
           /\ cli' = [cli EXCEPT ![d].rx = <<>>]
           /\ sess' = [sess EXCEPT ![c].buf = Head(cli[d].rx)]
           /\ CreateTask("req", c, 0)
  /\ now' = IF "out" \in e.evs THEN e.fd ELSE NoFd
  /\ UNCHANGED <<backlog, lsnEdge, edge, armedOut, owner, list, handlers,
                 pc, ret, dtp>>

(* The same when recv returns 0 or an error, "nothing there" included.     *)
NothingReceived(e) ==
  /\ Take(e)
  /\ Handles(e, "rtsp")
  /\ "in" \in e.evs
  /\ \A d \in Peers(sess[Handler(e.fd).arg].sd) : cli[d].rx = <<>>
  /\ UNCHANGED <<backlog, lsnEdge, skew, pc, now, ret, dtp>>

ReceiveFailsQuietly(e) ==                                \* a seeded fault
  /\ NothingReceived(e)
  /\ UNCHANGED <<list, handlers, owner, cli, edge, armedOut, tasks, sess>>

ReceiveFails(e) ==
  /\ NothingReceived(e)
  /\ DestroyRtspSess(Handler(e.fd).arg)

(* EPOLLOUT alone.                                                         *)
Writable(e) ==
  /\ Take(e)
  /\ Handles(e, "rtsp") \/ Handles(e, "rtp")
  /\ "in" \notin e.evs
  /\ now' = e.fd
  /\ UNCHANGED <<net, store, timers, pc, ret, dtp>>

(* consume_send_buf takes the first buffer, if it is of a kind this        *)
(* descriptor sends.  A short send counts as sent.                         *)
Consumes(h, b) ==
  LET s == sess[h.arg]
  IN  IF h.proc = "rtsp" THEN s.intlvd \/ b = "resp"
      ELSE h.sd = s.udp["V"] /\ b = "rtp"

Consume ==
  /\ now # NoFd
  /\ LET h     == Handler(now)
         c     == h.arg
         out   == sess[c].out
         fd    == SendTarget(c)
         taken == out # <<>> /\ Consumes(h, Head(out))
         fails == ~IsOpen(fd) \/ \E d \in Peers(fd) : cli[d].conn = "rst"
     IN  \/ /\ ~taken
            /\ UNCHANGED <<net, store, tasks>>
         \/ /\ taken /\ fails
            /\ DestroyRtspSess(c)
            /\ UNCHANGED <<backlog, lsnEdge>>
         \/ /\ taken /\ ~fails
            /\ sess' = [sess EXCEPT ![c].out = Tail(@)]
            /\ cli' = [d \in Client |->
                         IF d \in Peers(fd) /\ Head(out) = "resp"
                         THEN [cli[d] EXCEPT !.owed = @ - 1] ELSE cli[d]]
            /\ Modify({fd}, FALSE)
            /\ UNCHANGED <<backlog, lsnEdge, owner, list, handlers, tasks>>
  /\ now' = NoFd
  /\ UNCHANGED <<skew, pc, batch, ret, dtp>>

---------------------------------------------------------------------------
(* do_delay_task, up to the call of the task's procedure.                  *)
StartTask ==
  /\ pc = "events" /\ now = NoFd /\ batch = {}
  /\ \/ tasks = <<>> /\ pc' = "check" /\ UNCHANGED timers
     \/ /\ tasks # <<>> /\ tasks[1].delta = TIME_UP
        /\ pc' = "run" /\ UNCHANGED timers
     \/ /\ tasks # <<>> /\ tasks[1].delta # TIME_UP
        /\ tasks' = Elapse(tasks, skew)
        /\ skew' = 0
        /\ pc' = IF tasks'[1].delta = TIME_UP THEN "run" ELSE "check"
  /\ UNCHANGED <<net, store, batch, now, ret, dtp>>

Runs(proc) == pc = "run" /\ tasks[1].proc = proc

Returns(delay) ==
  /\ ret' = delay
  /\ pc' = "ran"
  /\ UNCHANGED <<batch, now>>

(* handle_rtsp_req.  A method that wants to be retried keeps its request;  *)
(* any other ends with the response in the send queue, unless it failed.   *)
Current(c) == IF sess[c].handling = "RETRY" THEN sess[c].req ELSE sess[c].buf

HandledReplying(c, s, outcome, answered) ==
  /\ sess' = [sess EXCEPT ![c] =
       [s EXCEPT !.req = Current(c),
                 !.handling = IF outcome = "RETRY" THEN "RETRY" ELSE "INIT",
                 !.out = IF outcome \in answered THEN Append(s.out, "resp")
                         ELSE s.out]]
  /\ Returns(IF outcome = "RETRY" THEN Ms40 ELSE -1)
  /\ dtp' = "queued"
  /\ UNCHANGED <<net, list>>

HandledReplyingToRetry(c, s, outcome) ==                 \* a seeded fault
  HandledReplying(c, s, outcome, {"HANDLED", "ERROR", "RETRY"})

Handled(c, s, outcome) ==
  HandledReplying(c, s, outcome, {"HANDLED", "ERROR"})

HandleRtspReq(m) == Runs("req") /\ Current(tasks[1].arg) = m

(* OPTIONS, GET_PARAMETER and SET_PARAMETER, or a request that is refused  *)
(* with an error, or one whose first line cannot be parsed.                *)
HandleOther ==
  /\ \E m \in {"info", "bad", "junk"} :
       /\ HandleRtspReq(m)
       /\ LET c == tasks[1].arg
          IN  Handled(c, sess[c], CASE m = "info" -> "HANDLED"
                                    [] m = "bad"  -> "ERROR"
                                    [] m = "junk" -> "FAILED")
  /\ UNCHANGED <<timers, owner, handlers>>

(* parse_hdr_transport takes the header for the session's, whatever the    *)
(* method.  A refused request with one is the same to the session; any     *)
(* other is an info followed by it.                                        *)
HandleTransport ==
  /\ \E m \in {"infoUdp", "infoTcp"} :
       /\ HandleRtspReq(m)
       /\ LET c == tasks[1].arg
          IN  Handled(c, [sess[c] EXCEPT !.intlvd = (m = "infoTcp")], "HANDLED")
  /\ UNCHANGED <<timers, owner, handlers>>

(* handle_method_describe: until an I frame comes.                         *)
HandleDescribe ==
  /\ HandleRtspReq("describe")
  /\ LET c == tasks[1].arg
         Ends(outcome) == Handled(c, [sess[c] EXCEPT !.streaming = FALSE],
                                  outcome)
     IN  \/ /\ StartFails /\ sess[c].handling # "RETRY"
            /\ Ends("FAILED")
         \/ \E f \in Frame :
              \/ f = "none" /\ Ends("FAILED")
              \/ f = "I" /\ Ends("HANDLED")
              \/ /\ f \in {"P", "A", "other"}
                 /\ Handled(c, [sess[c] EXCEPT !.streaming = TRUE], "RETRY")
  /\ UNCHANGED <<timers, owner, handlers>>

(* handle_method_setup and create_rtp_sess.  The channel numbers of an     *)
(* interleaved track overwrite its descriptors.                            *)
SetupDone(c, s) ==
  \/ StartFails /\ Handled(c, s, "FAILED")
  \/ Handled(c, [s EXCEPT !.streaming = TRUE,
                          !.state = IF s.state = "PLAYING" THEN s.state
                                    ELSE "READY"],
             "HANDLED")

HandleSetupUdp ==
  /\ \E m \in Track :
       /\ HandleRtspReq(SetupOf[m])
       /\ LET c  == tasks[1].arg
              fd == LowestFree
              s  == [sess[c] EXCEPT !.intlvd = FALSE]
          IN  IF fd = NoFd
              THEN /\ Handled(c, s, "FAILED")
                   /\ UNCHANGED <<owner, handlers>>
              ELSE /\ SetupDone(c, [s EXCEPT !.udp[m] = fd])
                   /\ owner' = [owner EXCEPT ![fd] = Udp(c)]
                   /\ handlers' = Append(handlers,
                                    [sd |-> fd, proc |-> "rtp", arg |-> c])
  /\ UNCHANGED timers

HandleSetupTcp ==
  /\ HandleRtspReq("setupTcp")
  /\ LET c == tasks[1].arg
     IN  SetupDone(c, [sess[c] EXCEPT !.intlvd = TRUE, !.udp["V"] = NoFd])
  /\ UNCHANGED <<timers, owner, handlers>>

HandlePlayUnless(refused) ==
  /\ HandleRtspReq("play")
  /\ LET c == tasks[1].arg
     IN  IF sess[c].state \in refused
         THEN Handled(c, sess[c], "ERROR") /\ UNCHANGED timers
         ELSE /\ Handled(c, [sess[c] EXCEPT !.state = "PLAYING"], "HANDLED")
              /\ CreateTask("prefetch", c, 0)
  /\ UNCHANGED <<owner, handlers>>

HandlePlayAtOnce == HandlePlayUnless({})                 \* a seeded fault

HandlePlay == HandlePlayUnless({"INIT"})

HandlePause ==
  /\ HandleRtspReq("pause")
  /\ LET c == tasks[1].arg
         s == sess[c]
     IN  Handled(c, [s EXCEPT !.state = IF s.state = "PLAYING" THEN "READY"
                                        ELSE s.state], "HANDLED")
  /\ UNCHANGED <<timers, owner, handlers>>

HandleTeardown ==
  /\ HandleRtspReq("teardown")
  /\ LET c == tasks[1].arg
     IN  /\ Handled(c, [sess[c] EXCEPT !.state = "INIT"], "HANDLED")
         /\ CreateTask("destroy", c, Ms10)
  /\ UNCHANGED <<owner, handlers>>

(* prefetch_frm.  Audio is dropped; a frame of a type it does not know     *)
(* ends it.  The bound on the send queue is the stream's: it has no frame  *)
(* to give while the queue is full.                                        *)
Prefetch(again) ==
  /\ Runs("prefetch")
  /\ LET c == tasks[1].arg
     IN  IF sess[c].state # "PLAYING" \/ sess[c].handling # "INIT"
         THEN Returns(-1) /\ UNCHANGED sess
         ELSE \E f \in Frame :
                \/ /\ f = "none" \/ Len(sess[c].out) >= MaxSendQueue
                   /\ Returns(again) /\ UNCHANGED sess
                \/ f = "A" /\ Returns(Ms10) /\ UNCHANGED sess
                \/ f = "other" /\ Returns(-1) /\ UNCHANGED sess
                \/ /\ f \in {"I", "P"}
                   /\ Len(sess[c].out) < MaxSendQueue
                   /\ sess' = [sess EXCEPT ![c].out = Append(@, "rtp")]
                   /\ Returns(Ms10)
  /\ dtp' = "queued"
  /\ UNCHANGED <<net, timers, owner, list, handlers>>

PrefetchFrmOrGiveUp == Prefetch(-1)                      \* a seeded fault

PrefetchFrm == Prefetch(Ms5)

(* destroy_rtsp_sess as the task that TEARDOWN creates.                    *)
DestroyTask ==
  /\ Runs("destroy")
  /\ LET c == tasks[1].arg
     IN  /\ DestroyRtspSess(c)
         /\ Returns(IF Destroyable(c) THEN -1 ELSE Ms10)
         /\ dtp' = IF Destroyable(c) THEN "freed" ELSE "queued"
  /\ UNCHANGED <<backlog, lsnEdge, skew>>

(* do_delay_task, after the procedure: update_delay_time or                *)
(* destroy_delay_task.                                                     *)
FinishTaskOnce ==                                        \* a seeded fault
  /\ pc = "ran"
  /\ tasks' = IF dtp = "queued" THEN Delete(tasks, 1) ELSE tasks
  /\ pc' = "check" /\ ret' = -1 /\ dtp' = "freed"
  /\ UNCHANGED <<net, store, batch, now, skew>>

FinishTask ==
  /\ pc = "ran"
  /\ \/ /\ ret >= 0 /\ dtp = "queued"
        /\ tasks' = Insert(Elapse(Delete(tasks, 1), skew),
                           [tasks[1] EXCEPT !.delta = ret])
        /\ skew' = 0
     \/ /\ ret < 0 /\ dtp = "queued"
        /\ tasks' = Delete(tasks, 1) /\ UNCHANGED skew
     \/ /\ ret < 0 /\ dtp = "freed"
        /\ UNCHANGED timers
  /\ pc' = "check" /\ ret' = -1 /\ dtp' = "freed"
  /\ UNCHANGED <<net, store, batch, now>>

---------------------------------------------------------------------------
Environment ==
  \/ \E c \in Client : Connect(c)
  \/ \E c \in Client, m \in Request : Send(c, m)
  \/ \E c \in Client, how \in {"fin", "rst"} : Leave(c, how)
  \/ Tick

HandleEvent ==
  \E e \in batch : \/ Accept(e) \/ Hangup(e) \/ NoHandler(e)
                  \/ Receive(e) \/ ReceiveFails(e) \/ Writable(e)

RunTask ==
  \/ HandleOther \/ HandleTransport \/ HandleDescribe
  \/ HandleSetupUdp \/ HandleSetupTcp
  \/ HandlePlay \/ HandlePause \/ HandleTeardown
  \/ PrefetchFrm \/ DestroyTask

Wait == \E outs \in SUBSET armedOut : EpollWait(outs)

Server ==
  \/ CheckSendQueue \/ Wait \/ HandleEvent \/ Consume
  \/ StartTask \/ RunTask \/ FinishTask

Next == Environment \/ Server

Spec == Init /\ [][Next]_vars

(* The loop goes on, the clock runs, and a client that is there reads what *)
(* it is sent.  In a stream that is described an I frame comes.            *)
Fairness ==
  /\ WF_vars(Tick)
  /\ WF_vars(Server)
  /\ SF_vars(EpollWait(armedOut))
  /\ SF_vars(HandleDescribe /\ ret' < 0)

FairSpec == Spec /\ Fairness

---------------------------------------------------------------------------
(* What libRtspClient does on a connection: it waits for each answer before *)
(* it sends the next request, sets up a track once, names a transport only  *)
(* to do so, and asks for no description once it has set one up.  The       *)
(* handlers rely on the one, the streams on the other.                      *)
EachTrackSetUpOnce ==
  /\ Outstanding = 1
  /\ \A m \in Track : \E after \in SUBSET Requests :
       /\ {SetupOf[m], "setupTcp", "infoTcp"} \cap after = {}
       /\ \A f \in Follows : f[1] \in after \cup {SetupOf[m]} => f[2] \in after

DescribedBeforeSetUp ==
  /\ Outstanding = 1
  /\ \E since \in SUBSET Requests :
       /\ {"setupV", "setupA", "setupTcp"} \subseteq since
       /\ "describe" \notin since
       /\ \A f \in Follows : f[1] \in since => f[2] \in since

---------------------------------------------------------------------------
TypeOK ==
  /\ cli \in [Client -> [conn : {"idle", "up", "fin", "rst", "cut"},
                         rx : Seq(Request), owed : Int,
                         last : Request \cup {"none"}]]
  /\ backlog \in Seq(Client) /\ lsnEdge \in BOOLEAN
  /\ edge \subseteq Fd /\ armedOut \subseteq Fd
  /\ owner \in [Fd -> {Unused, Stdin} \cup {Tcp(c) : c \in Client}
                                     \cup {Udp(c) : c \in Client}]
  /\ sess \in [Client ->
       [state : {"INIT", "READY", "PLAYING"}, handling : {"INIT", "RETRY"},
        sd : Fd, intlvd : BOOLEAN, udp : [Track -> Fd \cup {NoFd}],
        buf : Request \cup {"none"}, req : Request \cup {"none"},
        out : Seq({"resp", "rtp"}), streaming : BOOLEAN]]
  /\ list \in Seq(Client)
  /\ handlers \in Seq([sd : Fd, proc : {"rtsp", "rtp"}, arg : Client])
  /\ tasks \in Seq([proc : {"req", "prefetch", "destroy"}, arg : Client,
                    delta : Nat])
  /\ skew \in 0..MaxSkew
  /\ pc \in {"check", "wait", "events", "run", "ran"}
  /\ batch \subseteq [fd : Fd \cup {LsnFd}, evs : SUBSET {"in", "out", "hup"}]
  /\ now \in Fd \cup {NoFd} /\ ret \in Int /\ dtp \in {"queued", "freed"}

(* The task that ran last, when it will not be run again.                  *)
EndingTask == IF pc = "ran" /\ ret < 0 /\ dtp = "queued" THEN {1} ELSE {}

TasksOf(c, proc) == {i \in 1..Len(tasks) : tasks[i].arg = c
                                         /\ tasks[i].proc = proc}

(* No task is left for a session that was freed: destroy_sess_task.        *)
TaskArgLive == \A i \in 1..Len(tasks) : tasks[i].arg \in Listed

(* Nor a handler, which would be called with the freed session.            *)
HandlerArgLive == \A i \in 1..Len(handlers) : handlers[i].arg \in Listed

(* A session that waits to retry its request, and so refuses to be         *)
(* destroyed, has a task that will retry it.                               *)
RetryHasTask ==
  \A c \in Listed : sess[c].handling = "RETRY" => TasksOf(c, "req") # {}

(* Every socket belongs to a session on the list, and its events go there. *)
SocketsAreHandled ==
  \A fd \in Fd : IsOpen(fd) =>
    \E c \in Listed : /\ owner[fd] \in {Tcp(c), Udp(c)}
                     /\ HandlerIndex(handlers, fd) # 0
                     /\ Handler(fd).arg = c

(* A session that plays has the task that fetches its frames.              *)
PlayingHasPump ==
  \A c \in Listed : sess[c].state = "PLAYING" =>
    TasksOf(c, "prefetch") \ EndingTask # {}

(* The stream they come from has been started, and not stopped since.      *)
PlayingIsStreaming ==
  \A c \in Listed : sess[c].state = "PLAYING" => sess[c].streaming

(* No request is answered twice: those unread, being handled or answered   *)
(* but not yet sent are no more than the client waits for.                 *)
Unanswered(c) == TasksOf(c, "req") \ EndingTask
Answers(c) == {i \in 1..Len(sess[c].out) : sess[c].out[i] = "resp"}

OneAnswerPerRequest ==
  \A c \in Listed :
    Len(cli[c].rx) + Cardinality(Unanswered(c)) + Cardinality(Answers(c))
      <= cli[c].owed

(* A session whose client is gone is destroyed.                            *)
GoneClientIsForgotten ==
  \A c \in Client : cli[c].conn \in {"fin", "rst"} ~> c \notin Listed

(* Once an event of its closed connection is about to be looked at, it is  *)
(* destroyed, later if it cannot be at once: destroy_rtsp_sess.            *)
DestroyIsDoneLater ==
  \A c \in Client :
    (/\ cli[c].conn \in {"fin", "rst"} /\ cli[c].rx = <<>>
     /\ \E e \in batch : e.fd = sess[c].sd) ~> c \notin Listed

(* A request is answered, unless the client leaves first: the server does  *)
(* not destroy the session, nor close its connection, with the answer in   *)
(* the send queue.  Of TEARDOWN that is not so, as its answer is dropped   *)
(* if it has not been sent when destroy_rtsp_sess runs 10 ms later.        *)
RequestIsAnswered ==
  \A c \in Client :
    cli[c].owed > 0 /\ cli[c].last # "teardown"
      ~> cli[c].owed = 0 \/ cli[c].conn \in {"fin", "rst"}

(* The loop always comes back to wait for events.                          *)
LoopComesBack == []<>(pc = "wait")
=============================================================================
