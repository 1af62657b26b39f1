----------------------------- MODULE RtspClient -----------------------------
(***************************************************************************)
(* One channel of libRtspClient over UDP: the session thread, which        *)
(* connects, asks OPTIONS, DESCRIBE, SETUP for each track and PLAY, keeps  *)
(* the session alive and reconnects, and a user that may close the channel *)
(* at any time, from a thread of its own and without a lock.               *)
(*                                                                         *)
(* The network and the server are the environment: the server answers the  *)
(* requests of a connection in order and may refuse one; the connection    *)
(* may be closed by the server, be reset, or go silent.  Packets of the    *)
(* stream only matter because epoll_wait returns for them.                 *)
(*                                                                         *)
(* A step is what the thread does between two points where another thread  *)
(* can make a difference: the body of single_step up to the send queue,    *)
(* the send queue, epoll_wait with the test that follows it, the handler.  *)
(***************************************************************************)
EXTENDS Naturals, FiniteSets, Sequences

CONSTANTS
  Media,          \* the tracks the session description enables
  CseqSpan,       \* CSeq is counted modulo this, 2^32 in the code
  KeepaliveCnt,   \* KEEPALIVE_CNT
  MayRefuse,      \* the requests a server may answer with an error
  MayClose,       \* whether the user closes the channel
  MaxFaults       \* bound: connections that break

ASSUME MediaAssumption == Media \subseteq {"V", "A"} /\ Media # {}
ASSUME CountAssumption == /\ CseqSpan \in Nat \ {0}
                          /\ KeepaliveCnt \in Nat /\ MaxFaults \in Nat

Method == {"OPTIONS", "DESCRIBE", "SETUP", "PLAY", "TEARDOWN"}

ASSUME RefuseAssumption == MayRefuse \subseteq Method /\ MayClose \in BOOLEAN

VARIABLES
  enable, rtspState, handling, todo, cseq,  \* fields of struct rtsp_sess
  keepaliveCnt,
  due,        \* KEEPALIVE_INTVL has passed since last_keepalive
  supported,  \* some method is; the servers here list all of them
  sdp,        \* sdp_info is there
  requested,  \* the tracks whose rtp_rtcp[].enable is set
  sendQueue,
  pc,         \* where the session thread is
  events,     \* those epoll_wait returned for the RTSP socket
  user,       \* the channel is "open"; close_chn is "closing" it, has "closed"
              \* it, or is "late" and writes to a session that was freed
  conn,       \* the connection, as the network has it
  inbox,      \* requests on their way to the server
  rx,         \* answers in the client's socket
  inEdge,     \* the socket is on epoll's ready list, to be read or failed
  outEdge,    \* or because EPOLL_CTL_MOD asked for EPOLLOUT
  server,     \* what the server has done: tracks set up, playing
  faults,     \* connections broken so far
  past        \* history of this connection: "stale" if it began with requests
              \* of an earlier one in the queue, "late" if a keepalive was
              \* sent while a request was unanswered; and what was refused

asked   == <<handling, cseq, sendQueue>>
answers == <<rtspState, keepaliveCnt, supported, sdp>>
net     == <<conn, inbox, rx, server>>
edges   == <<inEdge, outEdge>>
vars == <<enable, todo, due, requested, asked, answers, pc, events, user, net,
          edges, faults, past>>

NoServer == [tracks |-> {}, playing |-> FALSE]

NextCSeq(n) == (n + 1) % CseqSpan

(* The socket would report an event of its own accord, or for EPOLLIN.     *)
Readable == rx # <<>> \/ conn \in {"fin", "rst"}

(* Requests that are queued, at the server, or answered and not yet read.  *)
InFlight == Len(sendQueue) + Len(inbox) + Len(rx)

---------------------------------------------------------------------------
Init ==                                                  \* create_rtsp_sess
  /\ enable = TRUE /\ todo = "NONE" /\ due = TRUE /\ requested = {}
  /\ handling = "INIT" /\ cseq = 0 /\ sendQueue = <<>>
  /\ rtspState = "INIT" /\ keepaliveCnt = 0 /\ supported = FALSE
  /\ sdp = FALSE
  /\ pc = "connect" /\ events = {}
  /\ user = "open"
  /\ conn = "none" /\ inbox = <<>> /\ rx = <<>> /\ server = NoServer
  /\ inEdge = FALSE /\ outEdge = FALSE
  /\ faults = 0 /\ past = {}

---------------------------------------------------------------------------
(* send_method_*: DOING, the next CSeq, and a request at the queue's end.  *)
SendMethod(m, track) ==
  /\ handling' = "DOING"
  /\ cseq' = NextCSeq(cseq)
  /\ sendQueue' = Append(sendQueue, [method |-> m, track |-> track,
                                     cseq |-> NextCSeq(cseq)])

(* The first track that is enabled and not yet asked for.                  *)
Missing == Media \ requested
NextTrack == CASE "V" \in Missing -> "V"
               [] "V" \notin Missing /\ "A" \in Missing -> "A"
               [] OTHER -> "none"

(* start_playing.                                                          *)
NextMethod == CASE ~supported -> "OPTIONS"
                [] supported /\ rtspState = "READY" -> "PLAY"
                [] supported /\ rtspState # "READY" /\ ~sdp -> "DESCRIBE"
                [] OTHER -> "SETUP"

StartPlayingAtOnce ==                                    \* a seeded fault
  /\ todo' = NextMethod
  /\ SendMethod(NextMethod, NextTrack)
  /\ requested' = requested \cup (Media \cap {NextTrack})

StartPlaying ==
  IF handling # "INIT"
    THEN UNCHANGED <<todo, requested, asked>>
    ELSE /\ todo' = NextMethod
         /\ IF NextMethod = "SETUP"
              THEN /\ SendMethod("SETUP", NextTrack)
                   /\ requested' = requested \cup (Media \cap {NextTrack})
              ELSE SendMethod(NextMethod, "none") /\ UNCHANGED requested

(* What of single_step comes before the send queue.                        *)
Advance ==
  /\ pc = "top" /\ enable
  /\ rtspState # "PLAYING"
  /\ StartPlaying
  /\ pc' = "send"
  /\ UNCHANGED <<enable, due, answers, events, user, net, edges, faults,
                 past>>

KeepaliveOnceMore ==                                     \* a seeded fault
  /\ pc = "top" /\ enable
  /\ rtspState = "PLAYING" /\ due
  /\ keepaliveCnt <= KeepaliveCnt
  /\ todo' = "OPTIONS"
  /\ SendMethod("OPTIONS", "none")
  /\ keepaliveCnt' = keepaliveCnt + 1
  /\ due' = FALSE
  /\ pc' = "send"
  /\ UNCHANGED <<enable, requested, rtspState, supported, sdp, events, user,
                 net, edges, faults, past>>

KeepaliveNotCounted ==                                   \* a seeded fault
  /\ pc = "top" /\ enable
  /\ rtspState = "PLAYING"
  /\ IF due THEN todo' = "OPTIONS" /\ SendMethod("OPTIONS", "none")
            ELSE UNCHANGED <<todo, asked>>
  /\ due' = FALSE
  /\ pc' = "send"
  /\ UNCHANGED <<enable, requested, answers, events, user, net, edges, faults,
                 past>>

Keepalive ==
  /\ pc = "top" /\ enable
  /\ rtspState = "PLAYING"
  /\ due => keepaliveCnt < KeepaliveCnt
  /\ IF due THEN /\ todo' = "OPTIONS"
                 /\ SendMethod("OPTIONS", "none")
                 /\ keepaliveCnt' = keepaliveCnt + 1
                 /\ past' = IF InFlight = 0 THEN past ELSE past \cup {"late"}
            ELSE UNCHANGED <<todo, asked, keepaliveCnt, past>>
  /\ due' = FALSE
  /\ pc' = "send"
  /\ UNCHANGED <<enable, requested, rtspState, supported, sdp, events, user,
                 net, edges, faults>>

GiveUp ==
  /\ pc = "top" /\ enable
  /\ rtspState = "PLAYING" /\ due
  /\ keepaliveCnt >= KeepaliveCnt
  /\ keepaliveCnt' = 0
  /\ pc' = "failed"
  /\ UNCHANGED <<enable, todo, due, requested, asked, rtspState, supported,
                 sdp, events, user, net, edges, faults, past>>

(* check_send_queue: EPOLL_CTL_MOD reports what is there once more.        *)
CheckSendQueue ==
  /\ pc = "send"
  /\ IF sendQueue = <<>> THEN UNCHANGED edges
     ELSE outEdge' = TRUE /\ inEdge' = Readable
  /\ pc' = "wait"
  /\ UNCHANGED <<enable, todo, due, requested, asked, answers, events, user,
                 net, faults, past>>

(* After epoll_wait: "time to teardown the session?"                       *)
TestTeardownOfIdle ==                                    \* a seeded fault
  enable' = (enable /\ ~(todo = "TEARDOWN" /\ sendQueue = <<>>
                           /\ handling = "INIT"))

TestTeardown == enable' = (enable /\ ~(todo = "TEARDOWN" /\ sendQueue = <<>>))

(* epoll_wait reports the RTSP socket; with EPOLLERR or EPOLLHUP the event *)
(* is passed over.                                                         *)
WaitSocket ==
  /\ pc = "wait"
  /\ inEdge \/ outEdge
  /\ TestTeardown
  /\ inEdge' = FALSE /\ outEdge' = FALSE
  /\ IF conn = "rst"
       THEN pc' = "top" /\ events' = {}
       ELSE /\ pc' = "handle"
            /\ events' = (IF Readable THEN {"in"} ELSE {})
                           \cup (IF outEdge THEN {"out"} ELSE {})
  /\ UNCHANGED <<todo, due, requested, asked, answers, user, net, faults,
                 past>>

(* It returns for a packet of the stream only, or when KEEPALIVE_INTVL is  *)
(* over.                                                                   *)
WaitOther ==
  /\ pc = "wait"
  /\ ~inEdge /\ ~outEdge
  /\ \/ server.playing /\ conn = "up" /\ UNCHANGED due
     \/ due' = TRUE
  /\ TestTeardown
  /\ pc' = "top"
  /\ UNCHANGED <<todo, requested, asked, answers, events, user, net, edges,
                 faults, past>>

(* run_rtsp_state_machine.  parse_rtsp_resp stops at an error status,      *)
(* before it has read the CSeq.                                            *)
Accepted(a) == a.ok /\ a.cseq = cseq

RunStateMachineKeepingCount(a) ==                        \* a seeded fault
  IF ~Accepted(a) THEN UNCHANGED answers
  ELSE /\ supported' = (supported \/ (todo = "OPTIONS" /\ a.method = "OPTIONS"))
       /\ sdp' = IF todo = "DESCRIBE" THEN a.method = "DESCRIBE" ELSE sdp
       /\ rtspState' = CASE todo = "SETUP" /\ Missing = {} -> "READY"
                         [] todo = "PLAY" -> "PLAYING"
                         [] OTHER -> rtspState
       /\ UNCHANGED keepaliveCnt

RunStateMachineAtFirstTrack(a) ==                        \* a seeded fault
  IF ~Accepted(a) THEN UNCHANGED answers
  ELSE /\ supported' = (supported \/ (todo = "OPTIONS" /\ a.method = "OPTIONS"))
       /\ sdp' = IF todo = "DESCRIBE" THEN a.method = "DESCRIBE" ELSE sdp
       /\ rtspState' = CASE todo = "SETUP" -> "READY"
                         [] todo = "PLAY" -> "PLAYING"
                         [] OTHER -> rtspState
       /\ keepaliveCnt' = IF todo = "OPTIONS" THEN 0 ELSE keepaliveCnt

RunStateMachine(a) ==
  IF ~Accepted(a) THEN UNCHANGED answers
  ELSE /\ keepaliveCnt' = IF todo = "OPTIONS" THEN 0 ELSE keepaliveCnt
       /\ supported' = (supported \/ (todo = "OPTIONS" /\ a.method = "OPTIONS"))
       /\ sdp' = IF todo = "DESCRIBE" THEN a.method = "DESCRIBE" ELSE sdp
       /\ rtspState' = CASE todo = "SETUP" /\ Missing = {} -> "READY"
                         [] todo = "PLAY" -> "PLAYING"
                         [] OTHER -> rtspState

(* handle_rtsp_sd: one recv takes all there is and handles the first       *)
(* answer of it; one EPOLLOUT sends one request, and EPOLL_CTL_MOD follows.*)
Receive ==
  IF "in" \in events
    THEN RunStateMachine(Head(rx)) /\ handling' = "INIT" /\ rx' = <<>>
    ELSE UNCHANGED <<answers, handling, rx>>

SendOne ==
  IF "out" \in events /\ sendQueue # <<>>
    THEN /\ sendQueue' = Tail(sendQueue)
         /\ inbox' = IF conn = "silent" THEN inbox
                     ELSE Append(inbox, Head(sendQueue))
         /\ inEdge' = (rx' # <<>> \/ conn = "fin")
    ELSE UNCHANGED <<sendQueue, inbox, inEdge>>

Handle ==
  /\ pc = "handle"
  /\ conn # "rst" /\ ("in" \in events => rx # <<>>)
  /\ Receive
  /\ SendOne
  /\ events' = {}
  /\ pc' = "top"
  /\ UNCHANGED <<enable, todo, due, requested, cseq, user, conn, server,
                 outEdge, faults, past>>

HandleFailsOnErrorOnly ==                                \* a seeded fault
  /\ pc = "handle"
  /\ conn = "rst" \/ ("in" \in events /\ rx = <<>>)
  /\ events' = {}
  /\ pc' = IF conn = "rst" THEN "failed" ELSE "top"
  /\ UNCHANGED <<enable, todo, due, requested, asked, answers, user, net,
                 edges, faults, past>>

(* recv returns 0 or fails, or send fails: the buffer is dropped.          *)
HandleFails ==
  /\ pc = "handle"
  /\ \/ conn = "rst"
     \/ "in" \in events /\ rx = <<>>
  /\ sendQueue' = IF "in" \notin events /\ sendQueue # <<>>
                  THEN Tail(sendQueue) ELSE sendQueue
  /\ events' = {}
  /\ pc' = "failed"
  /\ UNCHANGED <<enable, todo, due, requested, handling, cseq, answers, user,
                 net, edges, faults, past>>

CleanupKeepingHandling ==                                \* a seeded fault
  /\ rtspState' = "INIT" /\ todo' = "NONE" /\ UNCHANGED handling
  /\ cseq' = 0 /\ requested' = {} /\ supported' = FALSE /\ sdp' = FALSE
  /\ keepaliveCnt' = 0 /\ due' = TRUE
  /\ conn' = "none" /\ inbox' = <<>> /\ rx' = <<>> /\ server' = NoServer
  /\ inEdge' = FALSE /\ outEdge' = FALSE

(* cleanup_before_reconn.  The send queue is left as it is.                *)
Cleanup ==
  /\ rtspState' = "INIT" /\ handling' = "INIT" /\ todo' = "NONE"
  /\ cseq' = 0 /\ requested' = {} /\ supported' = FALSE /\ sdp' = FALSE
  /\ keepaliveCnt' = 0 /\ due' = TRUE
  /\ conn' = "none" /\ inbox' = <<>> /\ rx' = <<>> /\ server' = NoServer
  /\ inEdge' = FALSE /\ outEdge' = FALSE

Reconnect ==
  /\ pc = "failed" /\ enable
  /\ Cleanup
  /\ pc' = "connect"
  /\ UNCHANGED <<enable, sendQueue, events, user, faults, past>>

Connect ==
  /\ pc = "connect"
  /\ conn' = "up"
  /\ pc' = "top"
  /\ past' = IF sendQueue = <<>> THEN {} ELSE {"stale"}
  /\ UNCHANGED <<enable, todo, due, requested, asked, answers, events, user,
                 inbox, rx, server, edges, faults>>

ConnectFails ==
  /\ pc = "connect"
  /\ Cleanup
  /\ UNCHANGED <<enable, sendQueue, pc, events, user, faults, past>>

(* The thread ends: no descriptor is to be had, or the channel is closed.  *)
(* destroy_rtsp_sess frees the session.                                    *)
ThreadEnds ==
  /\ \/ pc = "connect" /\ faults < MaxFaults /\ faults' = faults + 1
     \/ pc \in {"top", "failed"} /\ ~enable /\ UNCHANGED faults
  /\ pc' = "gone"
  /\ conn' = "none" /\ inbox' = <<>> /\ rx' = <<>> /\ server' = NoServer
  /\ inEdge' = FALSE /\ outEdge' = FALSE
  /\ UNCHANGED <<enable, todo, due, requested, asked, answers, events, user,
                 past>>

---------------------------------------------------------------------------
(* close_chn.  Its list_add_tail may overlap the thread's own operation on *)
(* the queue, at "top" or "handle", and then be lost; that the overlap may *)
(* lose the thread's request or spoil the list is left out.                *)
CloseBegins ==
  /\ MayClose /\ user = "open" /\ pc # "gone"
  /\ todo' = "TEARDOWN"
  /\ user' = "closing"
  /\ UNCHANGED <<enable, due, requested, asked, answers, pc, events, net,
                 edges, faults, past>>

CloseSends ==
  /\ user = "closing" /\ pc # "gone"
  /\ handling' = "DOING"
  /\ cseq' = NextCSeq(cseq)
  /\ \/ sendQueue' = Append(sendQueue, [method |-> "TEARDOWN",
                                        track |-> "none",
                                        cseq |-> NextCSeq(cseq)])
     \/ pc \in {"top", "handle"} /\ UNCHANGED sendQueue
  /\ user' = "closed"
  /\ UNCHANGED <<enable, todo, due, requested, answers, pc, events, net,
                 edges, faults, past>>

(* The thread has ended meanwhile, or before, and the session is freed.    *)
CloseTooLate ==
  /\ pc = "gone"
  /\ user = "closing" \/ (MayClose /\ user = "open")
  /\ user' = "late"
  /\ UNCHANGED <<enable, todo, due, requested, asked, answers, pc, events, net,
                 edges, faults, past>>

---------------------------------------------------------------------------
(* The server answers the first request there is.  It cannot set up a      *)
(* track that no request names, nor play before one is set up.             *)
Possible(r) == /\ r.method = "SETUP" => r.track \in Media
               /\ r.method = "PLAY" => server.tracks # {}

Did(r) ==
  CASE r.method = "SETUP" -> [server EXCEPT !.tracks = @ \cup {r.track}]
    [] r.method = "PLAY" -> [server EXCEPT !.playing = TRUE]
    [] r.method = "TEARDOWN" -> NoServer
    [] OTHER -> server

Reply(ok) ==
  LET r == Head(inbox)
  IN  /\ rx' = Append(rx, [method |-> r.method, cseq |-> r.cseq, ok |-> ok])
      /\ inbox' = Tail(inbox)
      /\ inEdge' = TRUE

Answer ==
  /\ conn = "up" /\ inbox # <<>>
  /\ Possible(Head(inbox))
  /\ Reply(TRUE)
  /\ server' = Did(Head(inbox))
  /\ UNCHANGED <<enable, todo, due, requested, asked, answers, pc, events,
                 user, conn, outEdge, faults, past>>

Refuse ==
  /\ conn = "up" /\ inbox # <<>>
  /\ ~Possible(Head(inbox)) \/ Head(inbox).method \in MayRefuse
  /\ Reply(FALSE)
  /\ past' = past \cup {Head(inbox).method}
  /\ UNCHANGED <<enable, todo, due, requested, asked, answers, pc, events,
                 user, conn, server, outEdge, faults>>

(* The server closes the connection; or its host resets it, or nothing is  *)
(* heard of it any more.                                                   *)
Break(how) ==
  /\ \/ conn = "up"
     \/ conn = "fin" /\ how = "rst"
  /\ faults < MaxFaults /\ faults' = faults + 1
  /\ conn' = how
  /\ inbox' = <<>> /\ server' = NoServer
  /\ rx' = IF how = "rst" THEN <<>> ELSE rx
  /\ inEdge' = (inEdge \/ how # "silent")
  /\ UNCHANGED <<enable, todo, due, requested, asked, answers, pc, events,
                 user, outEdge, past>>

(* What the client sends to a server that has closed the connection brings *)
(* a reset back.                                                           *)
Reset ==
  /\ conn = "fin" /\ inbox # <<>>
  /\ conn' = "rst"
  /\ inbox' = <<>> /\ rx' = <<>> /\ inEdge' = TRUE
  /\ UNCHANGED <<enable, todo, due, requested, asked, answers, pc, events,
                 user, server, outEdge, faults, past>>

Tick ==
  /\ ~due
  /\ due' = TRUE
  /\ UNCHANGED <<enable, todo, requested, asked, answers, pc, events, user,
                 net, edges, faults, past>>

---------------------------------------------------------------------------
SingleStep ==
  \/ Advance \/ Keepalive \/ GiveUp
  \/ CheckSendQueue \/ WaitSocket \/ WaitOther
  \/ Handle \/ HandleFails

Thread == SingleStep \/ Reconnect \/ ThreadEnds

User == CloseBegins \/ CloseSends \/ CloseTooLate

Network ==
  \/ Answer \/ Refuse \/ Reset \/ Tick
  \/ \E how \in {"fin", "rst", "silent"} : Break(how)

Next == Thread \/ Connect \/ ConnectFails \/ User \/ Network

Spec == Init /\ [][Next]_vars

Fairness ==
  /\ WF_vars(SingleStep) /\ WF_vars(Reconnect)
  /\ WF_vars(~enable /\ ThreadEnds)
  /\ WF_vars(Connect)
  /\ WF_vars(CloseSends)
  /\ WF_vars(Tick)
  /\ WF_vars(Answer \/ Refuse) /\ SF_vars(Answer)

FairSpec == Spec /\ Fairness

---------------------------------------------------------------------------
Request == [method : Method, track : Media \cup {"none"},
            cseq : 0..CseqSpan-1]
Response == [method : Method, cseq : 0..CseqSpan-1, ok : BOOLEAN]

TypeOK ==
  /\ enable \in BOOLEAN /\ due \in BOOLEAN
  /\ rtspState \in {"INIT", "READY", "PLAYING"}
  /\ handling \in {"INIT", "DOING"}
  /\ todo \in Method \cup {"NONE"}
  /\ cseq \in 0..CseqSpan-1 /\ keepaliveCnt \in 0..KeepaliveCnt
  /\ supported \in BOOLEAN /\ sdp \in BOOLEAN /\ requested \subseteq Media
  /\ sendQueue \in Seq(Request)
  /\ pc \in {"connect", "top", "send", "wait", "handle", "failed", "gone"}
  /\ events \subseteq {"in", "out"}
  /\ user \in {"open", "closing", "closed", "late"}
  /\ conn \in {"none", "up", "fin", "rst", "silent"}
  /\ inbox \in Seq(Request) /\ rx \in Seq(Response)
  /\ inEdge \in BOOLEAN /\ outEdge \in BOOLEAN
  /\ server \in [tracks : SUBSET Media, playing : BOOLEAN]
  /\ faults \in 0..MaxFaults
  /\ past \subseteq Method \cup {"stale", "late"}

(* A connection with nothing left of an earlier one, that nobody closes.   *)
Fresh == conn = "up" /\ "stale" \notin past /\ user = "open"

(* Before it plays, the client has no more than the one request it waits   *)
(* for between its queue and the answer: start_playing waits for INIT.     *)
OneRequestAtATime ==
  Fresh /\ rtspState # "PLAYING" =>
    InFlight = IF handling = "DOING" THEN 1 ELSE 0

(* What the client believes, the server has done: who is ready has set up  *)
(* every track at the server, if none was refused, and who plays is played *)
(* to.                                                                     *)
ClientBelievesTheServer ==
  /\ Fresh /\ rtspState = "READY" /\ "SETUP" \notin past
       => server.tracks = Media
  /\ Fresh /\ rtspState = "PLAYING" => server.playing

(* A server that answers each keepalive before the next one is due, and    *)
(* refuses none, is not given up.                                          *)
PromptServerIsKept ==
  [][Fresh /\ InFlight = 0 /\ GiveUp
       => past \cap {"late", "OPTIONS"} # {}]_vars

(* A playing client notices that the server is gone, however it went.      *)
DeadServerIsNoticed ==
  rtspState = "PLAYING" /\ conn \in {"fin", "rst", "silent"}
    ~> rtspState # "PLAYING" \/ pc = "gone"

(* A server that closes the connection is noticed at every stage, also     *)
(* when its last answer and the end of the stream come together: the       *)
(* client gives the connection up.  It does not, before it plays, if a     *)
(* reset comes first, such as what it sends itself brings back: that event *)
(* is passed over, and no other comes.                                     *)
ClosedConnectionIsNoticed ==
  conn = "fin" /\ user = "open"
    ~> \/ conn \notin {"fin", "rst"} \/ user # "open"
       \/ conn = "rst" /\ rtspState # "PLAYING"

(* A connection that begins with an empty queue comes to play, unless it   *)
(* breaks, a SETUP is refused or the channel is closed.                    *)
FreshChannelPlays ==
  Fresh ~> rtspState = "PLAYING" \/ ~Fresh \/ "SETUP" \in past

(* While close_chn's TEARDOWN stays what is to be done, the thread ends,   *)
(* unless the connection is reset.                                         *)
TeardownEndsTheThread ==
  user = "closed" /\ todo = "TEARDOWN"
    ~> pc = "gone" \/ todo # "TEARDOWN" \/ conn = "rst"

(* librtspcli.h: "stop thread and free resource".                          *)
CloseStopsTheThread == user = "closed" ~> pc = "gone"
=============================================================================
