-------------------------- MODULE RtspClientProofs --------------------------
(***************************************************************************)
(* Proofs about RtspClient, for any tracks, any length of CSeq, any number *)
(* of keepalives and of connections that break, and any refusals: its      *)
(* types, that it asks one request at a time, and that the server has done *)
(* what the client believes.                                               *)
(*                                                                         *)
(* The inductive invariant ClientInv adds what an answer means: while the  *)
(* client does not play, the one request in flight is the one that todo    *)
(* names, so that the answer it takes for that request's is that           *)
(* request's; and every track asked for is set up, or its SETUP is in      *)
(* flight.                                                                 *)
(***************************************************************************)
EXTENDS RtspClient, SequenceTheorems, TLAPS

(* What a queue of requests, or of answers, may hold.                      *)
AllAsk(q, m)  == \A i \in 1..Len(q) : q[i].method = m
NoneAsks(q, m) == \A i \in 1..Len(q) : q[i].method # m
Tracks(q) == {q[i].track : i \in {j \in 1..Len(q) : q[j].method = "SETUP"}}

(* Before a connection there is nothing left of the last one, the send     *)
(* queue excepted.                                                         *)
Restarted ==
  pc = "connect" /\ user = "open" =>
    /\ rtspState = "INIT" /\ handling = "INIT" /\ requested = {}
    /\ inbox = <<>> /\ rx = <<>>

(* EPOLLIN on a connection that is up means an answer.                     *)
InputIsAnAnswer ==
  pc = "handle" /\ "in" \in events /\ conn = "up" => rx # <<>>

(* A session that plays does not fall back to READY: todo is not SETUP.    *)
StaysPlaying ==
  user = "open" /\ rtspState = "PLAYING" => todo \in {"PLAY", "OPTIONS"}

(* The one request in flight is what todo says.                            *)
TodoIsInFlight ==
  Fresh /\ rtspState # "PLAYING" =>
    AllAsk(sendQueue, todo) /\ AllAsk(inbox, todo) /\ AllAsk(rx, todo)

(* Nobody asks the server to stop.                                         *)
NoTeardown ==
  Fresh => NoneAsks(sendQueue, "TEARDOWN") /\ NoneAsks(inbox, "TEARDOWN")

(* Who gets a good answer to PLAY is played to.                            *)
PlayAnswered ==
  Fresh => \A i \in 1..Len(rx) :
             rx[i].method = "PLAY" /\ rx[i].ok => server.playing

(* A track that was asked for is set up or will be.                        *)
RequestedIsSetUp ==
  Fresh /\ rtspState # "PLAYING" /\ "SETUP" \notin past =>
    requested \subseteq server.tracks \cup Tracks(sendQueue) \cup Tracks(inbox)

(* What the thread and the user do to a channel, and ...                   *)
Conduct == Restarted /\ InputIsAnAnswer /\ StaysPlaying

(* ... what that makes of a conversation.                                  *)
Conversation ==
  /\ OneRequestAtATime
  /\ TodoIsInFlight /\ NoTeardown /\ PlayAnswered /\ RequestedIsSetUp
  /\ ClientBelievesTheServer

ClientInv == TypeOK /\ Conduct /\ Conversation

---------------------------------------------------------------------------
(* CSeq keeps its width.                                                   *)
LEMMA NextCSeqType ==
  ASSUME NEW n \in 0..CseqSpan-1
  PROVE  NextCSeq(n) \in 0..CseqSpan-1
BY CountAssumption DEF NextCSeq

(* A request that send_method_* makes is one, and goes to the queue.       *)
LEMMA SendMethodType ==
  ASSUME TypeOK, NEW m \in Method, NEW t \in Media \cup {"none"},
         SendMethod(m, t)
  PROVE  /\ handling' = "DOING"
         /\ cseq' \in 0..CseqSpan-1
         /\ sendQueue' \in Seq(Request)
<1>1. cseq \in 0..CseqSpan-1 /\ sendQueue \in Seq(Request)
  BY DEF TypeOK
<1>2. NextCSeq(cseq) \in 0..CseqSpan-1
  BY <1>1, NextCSeqType
<1>3. [method |-> m, track |-> t, cseq |-> NextCSeq(cseq)] \in Request
  BY <1>2 DEF Request
<1>. QED BY <1>1, <1>2, <1>3, AppendProperties DEF SendMethod

(* Nothing is of every type.                                               *)
LEMMA NothingIsTyped ==
  /\ <<>> \in Seq(Request) /\ <<>> \in Seq(Response)
  /\ 0 \in 0..CseqSpan-1 /\ 0 \in 0..KeepaliveCnt /\ 0 \in 0..MaxFaults
  /\ NoServer \in [tracks : SUBSET Media, playing : BOOLEAN]
<1>1. <<>> \in Seq(Request) /\ <<>> \in Seq(Response)
  OBVIOUS
<1>2. 0 \in 0..CseqSpan-1 /\ 0 \in 0..KeepaliveCnt /\ 0 \in 0..MaxFaults
  BY CountAssumption
<1>3. NoServer \in [tracks : SUBSET Media, playing : BOOLEAN]
  BY DEF NoServer
<1>. QED BY <1>1, <1>2, <1>3

(* A channel that is created has nothing of any kind.                      *)
LEMMA InitClientInv == Init => ClientInv
<1>. SUFFICES ASSUME Init PROVE ClientInv
  OBVIOUS
<1>1. TypeOK
  BY NothingIsTyped DEF Init, TypeOK
<1>2. ~Fresh
  BY DEF Init, Fresh
<1>. QED
  BY <1>1, <1>2
  DEF Init, ClientInv, Conduct, Conversation, Restarted, InputIsAnAnswer,
      StaysPlaying, OneRequestAtATime, TodoIsInFlight, NoTeardown,
      PlayAnswered, RequestedIsSetUp, ClientBelievesTheServer

---------------------------------------------------------------------------
(* Asking the next request, if there is one to ask.                        *)
LEMMA AdvanceTypes == TypeOK /\ Advance => TypeOK'
<1>. SUFFICES ASSUME TypeOK, Advance PROVE TypeOK'
  OBVIOUS
<1>1. NextMethod \in Method /\ NextTrack \in Media \cup {"none"}
  BY DEF NextMethod, NextTrack, Method, Missing
<1>2. CASE handling # "INIT"
  BY <1>2 DEF Advance, StartPlaying, TypeOK, answers, asked, net, edges
<1>3. CASE handling = "INIT"
  <2>1. PICK t \in Media \cup {"none"} : SendMethod(NextMethod, t)
    BY <1>1, <1>3 DEF Advance, StartPlaying
  <2>2. handling' = "DOING" /\ cseq' \in 0..CseqSpan-1
        /\ sendQueue' \in Seq(Request)
    BY <1>1, <2>1, SendMethodType
  <2>3. todo' \in Method /\ requested' \subseteq Media
    BY <1>1, <1>3 DEF Advance, StartPlaying, TypeOK
  <2>. QED
    BY <2>2, <2>3 DEF Advance, TypeOK, answers, net, edges
<1>. QED BY <1>2, <1>3

(* A keepalive is counted up to the bound.                                 *)
LEMMA KeepaliveTypes == TypeOK /\ Keepalive => TypeOK'
<1>. SUFFICES ASSUME TypeOK, Keepalive PROVE TypeOK'
  OBVIOUS
<1>1. CASE ~due
  BY <1>1, ZenonT(90) DEF Keepalive, TypeOK, asked, net, edges
<1>2. CASE due
  <2>1. handling' = "DOING" /\ cseq' \in 0..CseqSpan-1
        /\ sendQueue' \in Seq(Request)
    <3>1. SendMethod("OPTIONS", "none") /\ "OPTIONS" \in Method
      BY <1>2 DEF Keepalive, Method
    <3>. QED BY <3>1, SendMethodType
  <2>2. keepaliveCnt' \in 0..KeepaliveCnt
    BY <1>2, CountAssumption DEF Keepalive, TypeOK
  <2>3. past' \subseteq Method \cup {"stale", "late"}
    BY <1>2 DEF Keepalive, TypeOK
  <2>4. todo' \in Method
    BY <1>2 DEF Keepalive, Method
  <2>. QED
    BY <2>1, <2>2, <2>3, <2>4, ZenonT(90) DEF Keepalive, TypeOK, net, edges
<1>. QED BY <1>1, <1>2

(* What the thread does with the socket: send, wait, receive.              *)
LEMMA SocketTypes ==
  TypeOK /\ (CheckSendQueue \/ WaitSocket \/ WaitOther \/ HandleFails) => TypeOK'
<1>. SUFFICES ASSUME TypeOK,
                     CheckSendQueue \/ WaitSocket \/ WaitOther \/ HandleFails
              PROVE  TypeOK'
  OBVIOUS
<1>. USE DEF asked, answers, net, edges
<1>1. CASE CheckSendQueue
  <2>1. inEdge' \in BOOLEAN /\ outEdge' \in BOOLEAN
    BY <1>1, Zenon DEF CheckSendQueue, Readable, TypeOK
  <2>. QED BY <1>1, <2>1 DEF CheckSendQueue, TypeOK
<1>2. CASE WaitSocket
  <2>1. enable' \in BOOLEAN
    BY <1>2, Zenon DEF WaitSocket, TestTeardown
  <2>2. events' \subseteq {"in", "out"} /\ pc' \in {"top", "handle"}
    BY <1>2 DEF WaitSocket
  <2>3. /\ inEdge' = FALSE /\ outEdge' = FALSE
        /\ UNCHANGED <<todo, due, requested, asked, answers, user, net, faults,
                       past>>
    BY <1>2 DEF WaitSocket
  <2>4. pc' \in {"connect", "top", "send", "wait", "handle", "failed", "gone"}
    BY <2>2
  <2>5. UNCHANGED <<todo, due, requested, handling, cseq, sendQueue, user, conn,
                    inbox, rx, server, faults, past, rtspState, keepaliveCnt,
                    supported, sdp>>
    BY <2>3
  <2>. QED BY <2>1, <2>2, <2>3, <2>4, <2>5, ZenonT(90) DEF TypeOK
<1>3. CASE WaitOther
  BY <1>3, ZenonT(90) DEF WaitOther, TestTeardown, TypeOK
<1>4. CASE HandleFails
  <2>1. sendQueue' \in Seq(Request)
    BY <1>4 DEF HandleFails, TypeOK
  <2>. QED BY <1>4, <2>1 DEF HandleFails, TypeOK
<1>. QED BY <1>1, <1>2, <1>3, <1>4

(* An answer changes the state of the session to one it may be in.         *)
LEMMA RunStateMachineType ==
  ASSUME TypeOK, NEW a, RunStateMachine(a)
  PROVE  /\ keepaliveCnt' \in 0..KeepaliveCnt
         /\ supported' \in BOOLEAN /\ sdp' \in BOOLEAN
         /\ rtspState' \in {"INIT", "READY", "PLAYING"}
<1>1. CASE ~Accepted(a)
  BY <1>1 DEF RunStateMachine, TypeOK, answers
<1>2. CASE Accepted(a)
  <2>1. keepaliveCnt' \in 0..KeepaliveCnt
    BY <1>2, CountAssumption DEF RunStateMachine, TypeOK
  <2>. QED BY <1>2, <2>1 DEF RunStateMachine, TypeOK
<1>. QED BY <1>1, <1>2

(* What is received and sent is of its type.                               *)
LEMMA HandleTypes == TypeOK /\ Handle => TypeOK'
<1>. SUFFICES ASSUME TypeOK, Handle PROVE TypeOK'
  OBVIOUS
<1>1. /\ keepaliveCnt' \in 0..KeepaliveCnt
      /\ supported' \in BOOLEAN /\ sdp' \in BOOLEAN
      /\ rtspState' \in {"INIT", "READY", "PLAYING"}
      /\ handling' \in {"INIT", "DOING"} /\ rx' \in Seq(Response)
  <2>1. CASE "in" \in events
    <3>1. RunStateMachine(Head(rx)) /\ handling' = "INIT" /\ rx' = <<>>
      BY <2>1 DEF Handle, Receive
    <3>. QED BY <3>1, RunStateMachineType
  <2>2. CASE "in" \notin events
    BY <2>2 DEF Handle, Receive, TypeOK, answers
  <2>. QED BY <2>1, <2>2
<1>2. sendQueue' \in Seq(Request) /\ inbox' \in Seq(Request)
      /\ inEdge' \in BOOLEAN
  <2>1. sendQueue # <<>> =>
          Head(sendQueue) \in Request /\ Tail(sendQueue) \in Seq(Request)
    BY DEF TypeOK
  <2>2. sendQueue # <<>> => Append(inbox, Head(sendQueue)) \in Seq(Request)
    BY <2>1, AppendProperties DEF TypeOK
  <2>. QED BY <2>1, <2>2 DEF Handle, SendOne, TypeOK
<1>. QED BY <1>1, <1>2 DEF Handle, TypeOK

(* The end of a connection, and the next one.                              *)
LEMMA ConnectionTypes ==
  TypeOK /\ (GiveUp \/ Reconnect \/ ThreadEnds \/ Connect \/ ConnectFails)
    => TypeOK'
<1>. SUFFICES ASSUME TypeOK,
                     GiveUp \/ Reconnect \/ ThreadEnds \/ Connect \/ ConnectFails
              PROVE  TypeOK'
  OBVIOUS
<1>. USE NothingIsTyped DEF TypeOK, asked, answers, net, edges
<1>1. CASE GiveUp
  BY <1>1 DEF GiveUp
<1>2. CASE Reconnect
  BY <1>2 DEF Reconnect, Cleanup
<1>3. CASE ThreadEnds
  <2>1. faults' \in 0..MaxFaults
    BY <1>3, CountAssumption DEF ThreadEnds
  <2>. QED BY <1>3, <2>1, ZenonT(90) DEF ThreadEnds
<1>4. CASE Connect
  BY <1>4 DEF Connect
<1>5. CASE ConnectFails
  BY <1>5 DEF ConnectFails, Cleanup
<1>. QED BY <1>1, <1>2, <1>3, <1>4, <1>5

(* close_chn's request is one.                                             *)
LEMMA UserTypes == TypeOK /\ User => TypeOK'
<1>. SUFFICES ASSUME TypeOK, User PROVE TypeOK'
  OBVIOUS
<1>1. CASE CloseBegins
  BY <1>1 DEF CloseBegins, TypeOK, Method, asked, answers, net, edges
<1>2. CASE CloseSends
  <2>1. NextCSeq(cseq) \in 0..CseqSpan-1
    BY NextCSeqType DEF TypeOK
  <2>2. [method |-> "TEARDOWN", track |-> "none", cseq |-> NextCSeq(cseq)]
          \in Request
    BY <2>1 DEF Request, Method
  <2>3. sendQueue' \in Seq(Request)
    <3>1. sendQueue \in Seq(Request)
      BY DEF TypeOK
    <3>. QED BY <1>2, <2>2, <3>1, AppendProperties DEF CloseSends
  <2>. QED BY <1>2, <2>1, <2>3 DEF CloseSends, TypeOK, answers, net, edges
<1>3. CASE CloseTooLate
  BY <1>3 DEF CloseTooLate, TypeOK, asked, answers, net, edges
<1>. QED BY <1>1, <1>2, <1>3 DEF User

(* So are the server's answers.                                            *)
LEMMA NetworkTypes == TypeOK /\ Network => TypeOK'
<1>. SUFFICES ASSUME TypeOK, Network PROVE TypeOK'
  OBVIOUS
<1>1. ASSUME inbox # <<>>, NEW ok \in BOOLEAN, Reply(ok)
      PROVE  /\ rx' \in Seq(Response) /\ inbox' \in Seq(Request)
             /\ inEdge' \in BOOLEAN
  <2>1. Head(inbox) \in Request /\ Tail(inbox) \in Seq(Request)
    BY <1>1 DEF TypeOK
  <2>2. [method |-> Head(inbox).method, cseq |-> Head(inbox).cseq, ok |-> ok]
          \in Response
    BY <1>1, <2>1 DEF Request, Response
  <2>. QED BY <1>1, <2>1, <2>2, AppendProperties DEF Reply, TypeOK
<1>2. CASE Answer
  <2>1. Head(inbox) \in Request
    BY <1>2 DEF Answer, TypeOK
  <2>2. server' \in [tracks : SUBSET Media, playing : BOOLEAN]
    BY <1>2, <2>1
    DEF Answer, Did, Possible, NoServer, Request, TypeOK
  <2>3. rx' \in Seq(Response) /\ inbox' \in Seq(Request) /\ inEdge' \in BOOLEAN
    BY <1>1, <1>2 DEF Answer
  <2>. QED BY <1>2, <2>2, <2>3 DEF Answer, TypeOK, asked, answers
<1>3. CASE Refuse
  <2>1. past' \subseteq Method \cup {"stale", "late"}
    <3>1. Head(inbox) \in Request
      BY <1>3 DEF Refuse, TypeOK
    <3>. QED BY <1>3, <3>1 DEF Refuse, TypeOK, Request
  <2>2. rx' \in Seq(Response) /\ inbox' \in Seq(Request) /\ inEdge' \in BOOLEAN
    BY <1>1, <1>3 DEF Refuse
  <2>. QED BY <1>3, <2>1, <2>2 DEF Refuse, TypeOK, asked, answers
<1>4. CASE Tick
  BY <1>4 DEF Tick, TypeOK, asked, answers, net, edges
<1>5. ASSUME NEW how \in {"fin", "rst", "silent"}, Break(how) PROVE TypeOK'
  BY <1>5, CountAssumption DEF Break, TypeOK, asked, answers, NoServer
<1>6. CASE Reset
  BY <1>6, NothingIsTyped DEF Reset, TypeOK, asked, answers
<1>. QED BY <1>2, <1>3, <1>4, <1>5, <1>6 DEF Network

(* Every step keeps the types.                                             *)
LEMMA TypesStep == TypeOK /\ [Next]_vars => TypeOK'
<1>. SUFFICES ASSUME TypeOK, [Next]_vars PROVE TypeOK'
  OBVIOUS
<1>1. CASE UNCHANGED vars
  BY <1>1 DEF vars, TypeOK, asked, answers, net, edges
<1>2. CASE Next
  BY <1>2, AdvanceTypes, KeepaliveTypes, SocketTypes, HandleTypes,
     ConnectionTypes, UserTypes, NetworkTypes
  DEF Next, Thread, SingleStep
<1>. QED BY <1>1, <1>2

---------------------------------------------------------------------------
(* A queue that gets one more.                                             *)
LEMMA Appended ==
  ASSUME NEW S, NEW q \in Seq(S), NEW r \in S, NEW m
  PROVE  /\ Len(Append(q, r)) = Len(q) + 1
         /\ AllAsk(q, m) /\ r.method = m => AllAsk(Append(q, r), m)
         /\ NoneAsks(q, m) /\ r.method # m => NoneAsks(Append(q, r), m)
         /\ Tracks(q) \subseteq Tracks(Append(q, r))
         /\ r.method = "SETUP" => r.track \in Tracks(Append(q, r))
<1>1. /\ Len(q) \in Nat /\ Len(Append(q, r)) = Len(q) + 1
      /\ \A i \in 1..Len(q) : Append(q, r)[i] = q[i]
      /\ Append(q, r)[Len(q) + 1] = r
  BY AppendProperties, LenProperties
<1>2. \A i \in 1..Len(Append(q, r)) : i \in 1..Len(q) \/ i = Len(q) + 1
  BY <1>1
<1>3. 1..Len(q) \subseteq 1..Len(Append(q, r))
      /\ Len(q) + 1 \in 1..Len(Append(q, r))
  BY <1>1
<1>. QED BY <1>1, <1>2, <1>3 DEF AllAsk, NoneAsks, Tracks

(* A queue that gives its first away.                                      *)
LEMMA Taken ==
  ASSUME NEW S, NEW q \in Seq(S), q # <<>>, NEW m
  PROVE  /\ Len(q) \in Nat \ {0} /\ Len(Tail(q)) = Len(q) - 1
         /\ AllAsk(q, m) => AllAsk(Tail(q), m) /\ Head(q).method = m
         /\ NoneAsks(q, m) => NoneAsks(Tail(q), m) /\ Head(q).method # m
         /\ \A t \in Tracks(q) :
              \/ t \in Tracks(Tail(q))
              \/ Head(q).method = "SETUP" /\ Head(q).track = t
<1>1. /\ Len(q) \in Nat \ {0} /\ Len(Tail(q)) = Len(q) - 1
      /\ Head(q) = q[1]
      /\ \A i \in 1..Len(Tail(q)) : Tail(q)[i] = q[i + 1]
  BY HeadTailProperties, LenProperties, EmptySeq
<1>2. \A i \in 1..Len(Tail(q)) : i + 1 \in 1..Len(q)
  BY <1>1
<1>3. 1 \in 1..Len(q)
  BY <1>1
<1>4. \A i \in 1..Len(q) : i = 1 \/ (i - 1 \in 1..Len(Tail(q))
                                    /\ Tail(q)[i - 1] = q[i])
  BY <1>1
<1>5. ASSUME NEW t \in Tracks(q)
      PROVE  \/ t \in Tracks(Tail(q))
             \/ Head(q).method = "SETUP" /\ Head(q).track = t
  <2>1. PICK i \in 1..Len(q) : q[i].method = "SETUP" /\ q[i].track = t
    BY <1>5 DEF Tracks
  <2>. QED BY <1>1, <1>4, <2>1, ZenonT(90) DEF Tracks
<1>. QED BY <1>1, <1>2, <1>3, <1>5 DEF AllAsk, NoneAsks

(* An empty queue.                                                         *)
LEMMA Emptied ==
  /\ \A m : AllAsk(<<>>, m) /\ NoneAsks(<<>>, m)
  /\ Tracks(<<>>) = {} /\ Len(<<>>) = 0
BY DEF AllAsk, NoneAsks, Tracks

(* A queue of length 0 is the empty one.                                   *)
LEMMA EmptyWhenNothing ==
  ASSUME NEW S, NEW q \in Seq(S), Len(q) = 0
  PROVE  q = <<>>
BY EmptySeq

---------------------------------------------------------------------------
(* Who is not Fresh has no conversation to speak of.                       *)
LEMMA NoConversation ==
  ASSUME ~Fresh' PROVE Conversation'
BY DEF Conversation, OneRequestAtATime, TodoIsInFlight, NoTeardown,
       PlayAnswered, RequestedIsSetUp, ClientBelievesTheServer

(* What leaves alone requests and answers, and what is believed of them,   *)
(* leaves the conversation alone.                                          *)
LEMMA ConversationKept ==
  ASSUME Conversation,
         Fresh' => Fresh, "SETUP" \notin past' => "SETUP" \notin past,
         UNCHANGED <<rtspState, handling, todo, requested, sendQueue, inbox, rx,
                     server>>
  PROVE  Conversation'
<1>. USE DEF Conversation, InFlight
<1>1. OneRequestAtATime'
  BY DEF OneRequestAtATime
<1>2. TodoIsInFlight' /\ NoTeardown'
  BY DEF TodoIsInFlight, NoTeardown, AllAsk, NoneAsks
<1>3. PlayAnswered'
  BY DEF PlayAnswered
<1>4. RequestedIsSetUp'
  BY DEF RequestedIsSetUp, Tracks
<1>5. ClientBelievesTheServer'
  BY DEF ClientBelievesTheServer
<1>. QED BY <1>1, <1>2, <1>3, <1>4, <1>5

(* Waiting, and the passing of time.                                       *)
LEMMA QuietSteps ==
  ClientInv /\ (CheckSendQueue \/ WaitSocket \/ WaitOther \/ Tick \/ GiveUp)
    => Conduct' /\ Conversation'
<1>. SUFFICES ASSUME ClientInv,
                     CheckSendQueue \/ WaitSocket \/ WaitOther \/ Tick \/ GiveUp
              PROVE  Conduct' /\ Conversation'
  OBVIOUS
<1>1. /\ UNCHANGED <<rtspState, handling, todo, requested, sendQueue, inbox, rx,
                     server, conn, user, past>>
      /\ pc' = "connect" => pc = "connect"
      /\ pc' = "handle" =>
           \/ pc = "handle" /\ UNCHANGED events
           \/ "in" \in events' /\ conn # "rst" => Readable
  <2>1. CASE CheckSendQueue
    BY <2>1 DEF CheckSendQueue, asked, answers, net
  <2>2. CASE WaitSocket
    BY <2>2 DEF WaitSocket, asked, answers, net
  <2>3. CASE WaitOther
    BY <2>3 DEF WaitOther, asked, answers, net
  <2>4. CASE Tick
    BY <2>4 DEF Tick, asked, answers, net
  <2>5. CASE GiveUp
    BY <2>5 DEF GiveUp, asked, answers, net
  <2>. QED BY <2>1, <2>2, <2>3, <2>4, <2>5
<1>2. Conversation'
  BY <1>1, ConversationKept DEF ClientInv, Fresh
<1>3. Restarted' /\ StaysPlaying'
  BY <1>1 DEF ClientInv, Conduct, Restarted, StaysPlaying
<1>4. InputIsAnAnswer'
  BY <1>1 DEF ClientInv, Conduct, InputIsAnAnswer, Readable
<1>. QED BY <1>2, <1>3, <1>4 DEF Conduct

(* What ends a connection, for the user, the network or the thread.        *)
LEMMA EndingSteps ==
  ClientInv /\ (\/ HandleFails \/ Reconnect \/ ConnectFails \/ ThreadEnds
                \/ User \/ Reset \/ \E how \in {"fin", "rst", "silent"} : Break(how))
    => Conduct' /\ Conversation'
<1>. SUFFICES ASSUME ClientInv,
                     \/ HandleFails \/ Reconnect \/ ConnectFails \/ ThreadEnds
                     \/ User \/ Reset
                     \/ \E how \in {"fin", "rst", "silent"} : Break(how)
              PROVE  Conduct' /\ ~Fresh'
  BY NoConversation
<1>. USE DEF ClientInv, Conduct, Restarted, InputIsAnAnswer, StaysPlaying, Fresh,
             asked, answers, net
<1>1. CASE HandleFails
  BY <1>1 DEF HandleFails
<1>2. CASE Reconnect
  BY <1>2 DEF Reconnect, Cleanup
<1>3. CASE ConnectFails
  BY <1>3 DEF ConnectFails, Cleanup
<1>4. CASE ThreadEnds
  BY <1>4 DEF ThreadEnds
<1>5. CASE CloseBegins
  BY <1>5 DEF CloseBegins
<1>6. CASE CloseSends
  BY <1>6 DEF CloseSends
<1>7. ASSUME NEW how \in {"fin", "rst", "silent"}, Break(how)
      PROVE  Conduct' /\ ~Fresh'
  BY <1>7 DEF Break
<1>8. CASE CloseTooLate
  BY <1>8 DEF CloseTooLate
<1>9. CASE Reset
  BY <1>9 DEF Reset
<1>. QED BY <1>1, <1>2, <1>3, <1>4, <1>5, <1>6, <1>7, <1>8, <1>9 DEF User

(* A connection begins.                                                    *)
LEMMA ConnectKeeps == ClientInv /\ Connect => Conduct' /\ Conversation'
<1>. SUFFICES ASSUME ClientInv, Connect PROVE Conduct' /\ Conversation'
  OBVIOUS
<1>1. Conduct'
  BY DEF ClientInv, Conduct, Connect, Restarted, InputIsAnAnswer, StaysPlaying,
         asked, answers
<1>2. CASE ~Fresh'
  BY <1>1, <1>2, NoConversation
<1>3. CASE Fresh'
  <2>1. sendQueue' = <<>>
    BY <1>3 DEF Connect, Fresh, asked
  <2>2. /\ rtspState' = "INIT" /\ handling' = "INIT" /\ requested' = {}
        /\ inbox' = <<>> /\ rx' = <<>>
    BY <1>3 DEF ClientInv, Conduct, Connect, Restarted, Fresh, asked, answers
  <2>. QED
    BY <1>1, <2>1, <2>2, Emptied
    DEF Conversation, OneRequestAtATime, InFlight, TodoIsInFlight, NoTeardown,
        PlayAnswered, RequestedIsSetUp, ClientBelievesTheServer
<1>. QED BY <1>2, <1>3

(* The next request is asked when there is none in flight.                 *)
LEMMA AdvanceKeeps == ClientInv /\ Advance => Conduct' /\ Conversation'
<1>. SUFFICES ASSUME ClientInv, Advance PROVE Conduct' /\ Conversation'
  OBVIOUS
<1>1. /\ rtspState # "PLAYING" /\ pc' = "send"
      /\ UNCHANGED <<rtspState, inbox, rx, server, conn, user, past>>
  BY DEF Advance, answers, net
<1>2. Conduct'
  BY <1>1 DEF Conduct, Restarted, InputIsAnAnswer, StaysPlaying
<1>3. CASE ~Fresh'
  BY <1>2, <1>3, NoConversation
<1>4. CASE handling # "INIT"
  <2>1. UNCHANGED <<handling, todo, requested, sendQueue>>
    BY <1>4 DEF Advance, StartPlaying, asked
  <2>. QED BY <1>1, <1>2, <2>1, ConversationKept DEF ClientInv, Fresh
<1>5. CASE Fresh' /\ handling = "INIT"
  <2>1. Fresh
    BY <1>1, <1>5 DEF Fresh
  <2>2. sendQueue = <<>> /\ inbox = <<>> /\ rx = <<>>
    <3>1. InFlight = 0
      BY <1>1, <1>5, <2>1 DEF ClientInv, Conversation, OneRequestAtATime
    <3>2. Len(sendQueue) \in Nat /\ Len(inbox) \in Nat /\ Len(rx) \in Nat
      BY LenProperties DEF ClientInv, TypeOK
    <3>3. Len(sendQueue) = 0 /\ Len(inbox) = 0 /\ Len(rx) = 0
      BY <3>1, <3>2 DEF InFlight
    <3>. QED BY <3>3, EmptyWhenNothing DEF ClientInv, TypeOK
  <2>3. PICK t \in Media \cup {"none"} :
          /\ SendMethod(NextMethod, t) /\ todo' = NextMethod
          /\ requested' \subseteq requested
                             \cup (IF NextMethod = "SETUP" THEN {t} ELSE {})
    <3>1. NextTrack \in Media \cup {"none"}
      BY DEF NextTrack, Missing
    <3>2. CASE NextMethod = "SETUP"
      BY <1>5, <3>1, <3>2 DEF Advance, StartPlaying
    <3>3. CASE NextMethod # "SETUP"
      BY <1>5, <3>3 DEF Advance, StartPlaying
    <3>. QED BY <3>2, <3>3
  <2>. DEFINE r == [method |-> NextMethod, track |-> t, cseq |-> NextCSeq(cseq)]
  <2>4. handling' = "DOING" /\ sendQueue' = Append(<<>>, r)
    BY <2>2, <2>3 DEF SendMethod
  <2>5. NextMethod # "TEARDOWN"
    BY DEF NextMethod
  <2>6. /\ Len(sendQueue') = 1
        /\ AllAsk(sendQueue', NextMethod) /\ NoneAsks(sendQueue', "TEARDOWN")
        /\ NextMethod = "SETUP" => t \in Tracks(sendQueue')
    <3>1. r.method = NextMethod /\ r.track = t /\ <<>> \in Seq({r}) /\ r \in {r}
      OBVIOUS
    <3>. HIDE DEF r
    <3>2. Len(sendQueue') = 1
      BY <2>4, <3>1, Emptied, AppendProperties
    <3>3. AllAsk(sendQueue', NextMethod)
      BY <2>4, <3>1, Appended, Emptied, Zenon
    <3>4. NoneAsks(sendQueue', "TEARDOWN")
      BY <2>4, <2>5, <3>1, Appended, Emptied, Zenon
    <3>5. r.method = "SETUP" => r.track \in Tracks(sendQueue')
      BY <2>4, <3>1, Appended, Zenon
    <3>. QED BY <3>1, <3>2, <3>3, <3>4, <3>5
  <2>7. OneRequestAtATime'
    BY <1>1, <2>2, <2>4, <2>6, Emptied DEF OneRequestAtATime, InFlight
  <2>8. TodoIsInFlight' /\ NoTeardown' /\ PlayAnswered'
    BY <1>1, <2>2, <2>3, <2>6, Emptied
    DEF TodoIsInFlight, NoTeardown, PlayAnswered
  <2>9. RequestedIsSetUp'
    <3>1. "SETUP" \notin past => requested \subseteq server.tracks
      BY <1>1, <2>1, <2>2, Emptied
      DEF ClientInv, Conversation, RequestedIsSetUp
    <3>. QED BY <1>1, <2>3, <2>6, <3>1 DEF RequestedIsSetUp
  <2>10. ClientBelievesTheServer'
    BY <1>1, <2>1
    DEF ClientInv, Conversation, ClientBelievesTheServer
  <2>. QED BY <1>2, <2>7, <2>8, <2>9, <2>10 DEF Conversation
<1>. QED BY <1>3, <1>4, <1>5

(* A keepalive is one more request; its client plays.                      *)
LEMMA KeepaliveKeeps == ClientInv /\ Keepalive => Conduct' /\ Conversation'
<1>. SUFFICES ASSUME ClientInv, Keepalive PROVE Conduct' /\ Conversation'
  OBVIOUS
<1>1. /\ rtspState = "PLAYING" /\ pc' = "send"
      /\ UNCHANGED <<rtspState, inbox, rx, server, conn, user>>
      /\ past' = past \/ past' = past \cup {"late"}
      /\ todo' = todo \/ todo' = "OPTIONS"
  BY DEF Keepalive, net
<1>2. Conduct'
  BY <1>1 DEF ClientInv, Conduct, Restarted, InputIsAnAnswer, StaysPlaying
<1>3. CASE ~Fresh'
  BY <1>2, <1>3, NoConversation
<1>4. CASE Fresh'
  <2>1. Fresh
    BY <1>1, <1>4 DEF Fresh
  <2>2. NoneAsks(sendQueue', "TEARDOWN")
    <3>1. NoneAsks(sendQueue, "TEARDOWN") /\ sendQueue \in Seq(Request)
      BY <2>1 DEF ClientInv, Conversation, NoTeardown, TypeOK
    <3>2. CASE ~due
      BY <3>1, <3>2 DEF Keepalive, asked
    <3>3. CASE due
      <4>. DEFINE r == [method |-> "OPTIONS", track |-> "none",
                        cseq |-> NextCSeq(cseq)]
      <4>1. sendQueue' = Append(sendQueue, r)
        BY <3>3 DEF Keepalive, SendMethod
      <4>2. r \in Request /\ r.method # "TEARDOWN"
        BY NextCSeqType DEF ClientInv, TypeOK, Request, Method
      <4>. HIDE DEF r
      <4>. QED BY <3>1, <4>1, <4>2, Appended
    <3>. QED BY <3>2, <3>3
  <2>3. NoTeardown' /\ PlayAnswered' /\ ClientBelievesTheServer'
    BY <1>1, <2>1, <2>2
    DEF ClientInv, Conversation, NoTeardown, PlayAnswered,
        ClientBelievesTheServer
  <2>. QED
    BY <1>1, <1>2, <2>3
    DEF Conversation, OneRequestAtATime, TodoIsInFlight, RequestedIsSetUp
<1>. QED BY <1>3, <1>4

(* The server refuses: its answer is no good one.                          *)
LEMMA RefuseKeeps == ClientInv /\ Refuse => Conduct' /\ Conversation'
<1>. SUFFICES ASSUME ClientInv, Refuse PROVE Conduct' /\ Conversation'
  OBVIOUS
<1>. DEFINE r == Head(inbox)
            a == [method |-> r.method, cseq |-> r.cseq, ok |-> FALSE]
<1>1. /\ UNCHANGED <<rtspState, handling, todo, requested, sendQueue, server, pc,
                     events, conn, user>>
      /\ past' = past \cup {r.method}
      /\ inbox # <<>> /\ inbox' = Tail(inbox) /\ rx' = Append(rx, a)
  BY DEF Refuse, Reply, asked, answers
<1>2. /\ inbox \in Seq(Request) /\ rx \in Seq(Response) /\ r \in Request
      /\ sendQueue \in Seq(Request)
  BY <1>1 DEF ClientInv, TypeOK
<1>3. a \in Response /\ a.method = r.method /\ a.ok = FALSE
  BY <1>2 DEF Request, Response
<1>. HIDE DEF a, r
<1>4. rx' # <<>> /\ Len(rx') = Len(rx) + 1
  BY <1>1, <1>2, <1>3, Appended, Emptied, LenProperties, SMTT(60)
<1>5. Conduct'
  BY <1>1, <1>4 DEF ClientInv, Conduct, Restarted, InputIsAnAnswer, StaysPlaying
<1>6. CASE ~Fresh'
  BY <1>5, <1>6, NoConversation
<1>7. CASE Fresh'
  <2>1. Fresh
    BY <1>1, <1>7 DEF Fresh
  <2>2. OneRequestAtATime'
    <3>1. Len(inbox') = Len(inbox) - 1 /\ Len(inbox) \in Nat /\ Len(rx) \in Nat
          /\ Len(sendQueue) \in Nat
      BY <1>1, <1>2, Taken, LenProperties
    <3>2. InFlight' = InFlight
      BY <1>1, <1>4, <3>1 DEF InFlight
    <3>. QED
      BY <1>1, <2>1, <3>2 DEF ClientInv, Conversation, OneRequestAtATime
  <2>3. TodoIsInFlight'
    BY <1>1, <1>2, <1>3, <2>1, Appended, Taken, Zenon
    DEF ClientInv, Conversation, TodoIsInFlight, r
  <2>4. NoTeardown'
    BY <1>1, <1>2, <2>1, Taken, Zenon DEF ClientInv, Conversation, NoTeardown
  <2>5. PlayAnswered'
    <3>1. \A i \in 1..Len(rx') : rx'[i] = a \/ (i \in 1..Len(rx) /\ rx'[i] = rx[i])
      BY <1>1, <1>2, <1>3, AppendProperties, LenProperties
    <3>. QED
      BY <1>1, <1>3, <2>1, <3>1 DEF ClientInv, Conversation, PlayAnswered
  <2>6. RequestedIsSetUp'
    <3>1. "SETUP" \notin past' => "SETUP" \notin past /\ r.method # "SETUP"
      BY <1>1
    <3>2. r.method # "SETUP" => Tracks(inbox) \subseteq Tracks(inbox')
      BY <1>1, <1>2, Taken DEF r
    <3>. QED
      BY <1>1, <2>1, <3>1, <3>2 DEF ClientInv, Conversation, RequestedIsSetUp
  <2>7. ClientBelievesTheServer'
    BY <1>1, <2>1 DEF ClientInv, Conversation, ClientBelievesTheServer
  <2>. QED BY <1>5, <2>2, <2>3, <2>4, <2>5, <2>6, <2>7 DEF Conversation
<1>. QED BY <1>6, <1>7

(* The server does as it is asked, and says so.                            *)
LEMMA AnswerKeeps == ClientInv /\ Answer => Conduct' /\ Conversation'
<1>. SUFFICES ASSUME ClientInv, Answer PROVE Conduct' /\ Conversation'
  OBVIOUS
<1>. DEFINE r == Head(inbox)
            a == [method |-> r.method, cseq |-> r.cseq, ok |-> TRUE]
<1>1. /\ UNCHANGED <<rtspState, handling, todo, requested, sendQueue, pc, events,
                     conn, user, past>>
      /\ inbox # <<>> /\ inbox' = Tail(inbox) /\ rx' = Append(rx, a)
      /\ server' = Did(r)
  BY DEF Answer, Reply, asked, answers
<1>2. /\ inbox \in Seq(Request) /\ rx \in Seq(Response) /\ r \in Request
      /\ sendQueue \in Seq(Request)
  BY <1>1 DEF ClientInv, TypeOK
<1>3. a \in Response /\ a.method = r.method
  BY <1>2 DEF Request, Response
<1>4. /\ r.method = "SETUP" => r.track \in server'.tracks
      /\ r.method = "PLAY" => server'.playing
      /\ r.method # "TEARDOWN" => /\ server.tracks \subseteq server'.tracks
                                  /\ server.playing => server'.playing
      /\ server'.tracks \subseteq Media
  <2>1. server \in [tracks : SUBSET Media, playing : BOOLEAN]
    BY DEF ClientInv, TypeOK
  <2>2. r.method = "SETUP" => r.track \in Media
    BY DEF Answer, Possible
  <2>3. CASE r.method = "SETUP"
    BY <1>1, <2>1, <2>2, <2>3 DEF Did
  <2>4. CASE r.method = "PLAY"
    BY <1>1, <2>1, <2>4 DEF Did
  <2>5. CASE r.method = "TEARDOWN"
    BY <1>1, <2>5 DEF Did, NoServer
  <2>6. CASE r.method \notin {"SETUP", "PLAY", "TEARDOWN"}
    BY <1>1, <2>1, <2>6 DEF Did
  <2>. QED BY <2>3, <2>4, <2>5, <2>6
<1>. HIDE DEF a, r
<1>5. rx' # <<>> /\ Len(rx') = Len(rx) + 1
  BY <1>1, <1>2, <1>3, Appended, Emptied, LenProperties, SMTT(60)
<1>6. Conduct'
  BY <1>1, <1>5 DEF ClientInv, Conduct, Restarted, InputIsAnAnswer, StaysPlaying
<1>7. CASE ~Fresh'
  BY <1>6, <1>7, NoConversation
<1>8. CASE Fresh'
  <2>1. Fresh
    BY <1>1, <1>8 DEF Fresh
  <2>2. r.method # "TEARDOWN"
    BY <1>1, <1>2, <2>1, Taken DEF ClientInv, Conversation, NoTeardown, r
  <2>3. OneRequestAtATime'
    <3>1. Len(inbox') = Len(inbox) - 1 /\ Len(inbox) \in Nat /\ Len(rx) \in Nat
          /\ Len(sendQueue) \in Nat
      BY <1>1, <1>2, Taken, LenProperties
    <3>2. InFlight' = InFlight
      BY <1>1, <1>5, <3>1 DEF InFlight
    <3>. QED
      BY <1>1, <2>1, <3>2 DEF ClientInv, Conversation, OneRequestAtATime
  <2>4. TodoIsInFlight'
    BY <1>1, <1>2, <1>3, <2>1, Appended, Taken, Zenon
    DEF ClientInv, Conversation, TodoIsInFlight, r
  <2>5. NoTeardown'
    BY <1>1, <1>2, <2>1, Taken, Zenon DEF ClientInv, Conversation, NoTeardown
  <2>6. PlayAnswered'
    <3>1. \A i \in 1..Len(rx') : rx'[i] = a \/ (i \in 1..Len(rx) /\ rx'[i] = rx[i])
      BY <1>1, <1>2, <1>3, AppendProperties, LenProperties
    <3>. QED
      BY <1>3, <1>4, <2>1, <2>2, <3>1 DEF ClientInv, Conversation, PlayAnswered
  <2>7. RequestedIsSetUp'
    <3>1. \A t \in Tracks(inbox) :
            t \in Tracks(inbox') \/ (r.method = "SETUP" /\ r.track = t)
      BY <1>1, <1>2, Taken, Zenon DEF r
    <3>. QED
      BY <1>1, <1>4, <2>1, <2>2, <3>1
      DEF ClientInv, Conversation, RequestedIsSetUp
  <2>8. ClientBelievesTheServer'
    BY <1>1, <1>4, <2>1, <2>2 DEF ClientInv, Conversation, ClientBelievesTheServer
  <2>. QED BY <1>6, <2>3, <2>4, <2>5, <2>6, <2>7, <2>8 DEF Conversation
<1>. QED BY <1>7, <1>8

(* One request goes out, or none.                                          *)
LEMMA SendOneMoves ==
  ASSUME TypeOK, conn = "up", SendOne
  PROVE  \/ UNCHANGED <<sendQueue, inbox>>
         \/ /\ sendQueue # <<>>
            /\ sendQueue' = Tail(sendQueue)
            /\ inbox' = Append(inbox, Head(sendQueue))
BY DEF SendOne

(* No request is lost, added or changed by that.                           *)
LEMMA Moved ==
  ASSUME TypeOK, conn = "up", SendOne, NEW m
  PROVE  /\ Len(sendQueue') + Len(inbox') = Len(sendQueue) + Len(inbox)
         /\ AllAsk(sendQueue, m) /\ AllAsk(inbox, m)
              => AllAsk(sendQueue', m) /\ AllAsk(inbox', m)
         /\ NoneAsks(sendQueue, m) /\ NoneAsks(inbox, m)
              => NoneAsks(sendQueue', m) /\ NoneAsks(inbox', m)
         /\ Tracks(sendQueue) \cup Tracks(inbox)
              \subseteq Tracks(sendQueue') \cup Tracks(inbox')
<1>1. sendQueue \in Seq(Request) /\ inbox \in Seq(Request)
  BY DEF TypeOK
<1>2. CASE UNCHANGED <<sendQueue, inbox>>
  BY <1>2
<1>3. CASE /\ sendQueue # <<>>
           /\ sendQueue' = Tail(sendQueue)
           /\ inbox' = Append(inbox, Head(sendQueue))
  <2>. DEFINE h == Head(sendQueue)
  <2>1. h \in Request
    BY <1>1, <1>3
  <2>2. /\ Len(sendQueue) \in Nat \ {0} /\ Len(sendQueue') = Len(sendQueue) - 1
        /\ AllAsk(sendQueue, m) => AllAsk(sendQueue', m) /\ h.method = m
        /\ NoneAsks(sendQueue, m) => NoneAsks(sendQueue', m) /\ h.method # m
        /\ \A t \in Tracks(sendQueue) :
             t \in Tracks(sendQueue') \/ (h.method = "SETUP" /\ h.track = t)
    BY <1>1, <1>3, Taken, Zenon
  <2>3. inbox' = Append(inbox, h)
    BY <1>3
  <2>. HIDE DEF h
  <2>4. /\ Len(inbox') = Len(inbox) + 1
        /\ AllAsk(inbox, m) /\ h.method = m => AllAsk(inbox', m)
        /\ NoneAsks(inbox, m) /\ h.method # m => NoneAsks(inbox', m)
        /\ Tracks(inbox) \subseteq Tracks(inbox')
        /\ h.method = "SETUP" => h.track \in Tracks(inbox')
    BY <1>1, <2>1, <2>3, Appended, Zenon
  <2>5. Len(inbox) \in Nat
    BY <1>1, LenProperties
  <2>. QED BY <2>2, <2>4, <2>5
<1>. QED BY <1>2, <1>3, SendOneMoves

(* The thread receives an answer, sends a request, or both.                *)
LEMMA HandleKeeps == ClientInv /\ Handle => Conduct' /\ Conversation'
<1>. SUFFICES ASSUME ClientInv, Handle PROVE Conduct' /\ Conversation'
  OBVIOUS
<1>1. /\ UNCHANGED <<todo, requested, conn, user, server, past>>
      /\ pc' = "top" /\ SendOne /\ Receive
      /\ "in" \in events => rx # <<>>
  BY DEF Handle
<1>2. \/ rtspState' = rtspState
      \/ rtspState' = "READY" /\ todo = "SETUP" /\ Missing = {}
      \/ rtspState' = "PLAYING" /\ todo = "PLAY"
  <2>1. \/ UNCHANGED answers
        \/ rtspState' = CASE todo = "SETUP" /\ Missing = {} -> "READY"
                          [] todo = "PLAY" -> "PLAYING"
                          [] OTHER -> rtspState
    BY <1>1, Zenon DEF Receive, RunStateMachine
  <2>. QED BY <2>1 DEF answers
<1>3. Conduct'
  BY <1>1, <1>2
  DEF ClientInv, Conduct, Restarted, InputIsAnAnswer, StaysPlaying
<1>4. CASE ~Fresh'
  BY <1>3, <1>4, NoConversation
<1>5. CASE Fresh' /\ "in" \notin events
  <2>1. Fresh /\ conn = "up"
    BY <1>1, <1>5 DEF Fresh
  <2>2. UNCHANGED <<rtspState, handling, rx>>
    BY <1>1, <1>5 DEF Receive, answers
  <2>3. OneRequestAtATime'
    <3>1. Len(sendQueue') + Len(inbox') = Len(sendQueue) + Len(inbox)
      BY <1>1, <2>1, Moved DEF ClientInv
    <3>. QED
      BY <2>1, <2>2, <3>1
      DEF ClientInv, Conversation, OneRequestAtATime, InFlight
  <2>4. TodoIsInFlight'
    <3>1. AllAsk(sendQueue, todo) /\ AllAsk(inbox, todo)
            => AllAsk(sendQueue', todo) /\ AllAsk(inbox', todo)
      BY <1>1, <2>1, Moved DEF ClientInv
    <3>. QED
      BY <1>1, <2>1, <2>2, <3>1 DEF ClientInv, Conversation, TodoIsInFlight
  <2>5. NoTeardown' /\ PlayAnswered'
    BY <1>1, <2>1, <2>2, Moved
    DEF ClientInv, Conversation, NoTeardown, PlayAnswered
  <2>6. RequestedIsSetUp'
    BY <1>1, <2>1, <2>2, Moved DEF ClientInv, Conversation, RequestedIsSetUp
  <2>7. ClientBelievesTheServer'
    BY <1>1, <2>1, <2>2 DEF ClientInv, Conversation, ClientBelievesTheServer
  <2>. QED BY <1>3, <2>3, <2>4, <2>5, <2>6, <2>7 DEF Conversation
<1>6. CASE Fresh' /\ "in" \in events
  <2>1. Fresh /\ conn = "up"
    BY <1>1, <1>6 DEF Fresh
  <2>2. /\ rx # <<>> /\ rx' = <<>> /\ handling' = "INIT"
        /\ RunStateMachine(Head(rx))
    BY <1>1, <1>6 DEF Receive
  <2>3. NoTeardown' /\ PlayAnswered'
    BY <1>1, <2>1, <2>2, Moved, Emptied
    DEF ClientInv, Conversation, NoTeardown, PlayAnswered
  <2>4. CASE rtspState = "PLAYING"
    <3>1. rtspState' = "PLAYING"
      BY <1>2, <2>1, <2>4 DEF ClientInv, Conduct, StaysPlaying, Fresh
    <3>2. OneRequestAtATime' /\ TodoIsInFlight' /\ RequestedIsSetUp'
      BY <3>1 DEF OneRequestAtATime, TodoIsInFlight, RequestedIsSetUp
    <3>3. ClientBelievesTheServer'
      BY <1>1, <2>1, <2>4, <3>1
      DEF ClientInv, Conversation, ClientBelievesTheServer
    <3>. QED BY <1>3, <2>3, <3>2, <3>3 DEF Conversation
  <2>5. CASE rtspState # "PLAYING"
    <3>1. /\ Len(rx) \in Nat \ {0} /\ Len(sendQueue) \in Nat
          /\ Len(inbox) \in Nat
      BY <2>2, EmptySeq, LenProperties DEF ClientInv, TypeOK
    <3>2. Len(sendQueue) + Len(inbox) + Len(rx) \in {0, 1}
      BY <2>1, <2>5
      DEF ClientInv, Conversation, OneRequestAtATime, InFlight
    <3>3. Len(rx) = 1 /\ Len(sendQueue) = 0 /\ Len(inbox) = 0
      <4>1. \A l \in Nat \ {0}, m, n \in Nat :
              m + n + l \in {0, 1} => l = 1 /\ m = 0 /\ n = 0
        OBVIOUS
      <4>. QED BY <3>1, <3>2, <4>1, Zenon
    <3>4. sendQueue = <<>> /\ inbox = <<>>
      BY <3>3, EmptyWhenNothing DEF ClientInv, TypeOK
    <3>5. sendQueue' = <<>> /\ inbox' = <<>>
      BY <1>1, <2>1, <3>4, SendOneMoves DEF ClientInv
    <3>6. OneRequestAtATime' /\ TodoIsInFlight'
      BY <2>2, <3>5, Emptied DEF OneRequestAtATime, TodoIsInFlight, InFlight
    <3>7. "SETUP" \notin past => requested \subseteq server.tracks
      BY <2>1, <2>5, <3>4, Emptied
      DEF ClientInv, Conversation, RequestedIsSetUp
    <3>8. RequestedIsSetUp'
      BY <1>1, <3>7 DEF RequestedIsSetUp
    <3>9. ClientBelievesTheServer'
      <4>1. CASE rtspState' = rtspState
        BY <1>1, <2>1, <4>1 DEF ClientInv, Conversation, ClientBelievesTheServer
      <4>2. CASE rtspState' = "READY" /\ Missing = {}
        <5>1. "SETUP" \notin past => server.tracks = Media
          BY <3>7, <4>2 DEF Missing, ClientInv, TypeOK
        <5>. QED BY <1>1, <4>2, <5>1 DEF ClientBelievesTheServer
      <4>3. CASE rtspState' = "PLAYING" /\ todo = "PLAY"
        <5>1. Accepted(Head(rx))
          BY <2>2, <2>5, <4>3 DEF RunStateMachine, answers
        <5>2. 1 \in 1..Len(rx) /\ Head(rx) = rx[1]
          BY <2>2, <3>3, HeadTailProperties DEF ClientInv, TypeOK
        <5>3. Head(rx).method = "PLAY" /\ Head(rx).ok
          BY <2>1, <2>5, <4>3, <5>1, <5>2
          DEF ClientInv, Conversation, TodoIsInFlight, AllAsk, Accepted
        <5>4. server.playing
          BY <2>1, <5>2, <5>3 DEF ClientInv, Conversation, PlayAnswered
        <5>. QED BY <1>1, <4>3, <5>4 DEF ClientBelievesTheServer
      <4>. QED BY <1>2, <4>1, <4>2, <4>3
    <3>. QED BY <1>3, <2>3, <3>6, <3>8, <3>9 DEF Conversation
  <2>. QED BY <2>4, <2>5
<1>. QED BY <1>4, <1>5, <1>6

---------------------------------------------------------------------------
(* Every step keeps the invariant.                                         *)
LEMMA ClientInvStep == ClientInv /\ [Next]_vars => ClientInv'
<1>. SUFFICES ASSUME ClientInv, [Next]_vars PROVE Conduct' /\ Conversation'
  BY TypesStep DEF ClientInv
<1>1. CASE UNCHANGED vars
  <2>1. UNCHANGED <<rtspState, handling, todo, requested, sendQueue, inbox, rx,
                    server, conn, user, past, pc, events>>
    BY <1>1 DEF vars, asked, answers, net
  <2>2. Conversation'
    BY <2>1, ConversationKept DEF ClientInv, Fresh
  <2>3. Conduct'
    BY <2>1 DEF ClientInv, Conduct, Restarted, InputIsAnAnswer, StaysPlaying
  <2>. QED BY <2>2, <2>3
<1>2. CASE Thread
  BY <1>2, AdvanceKeeps, KeepaliveKeeps, QuietSteps, HandleKeeps, EndingSteps
  DEF Thread, SingleStep
<1>3. CASE Connect
  BY <1>3, ConnectKeeps
<1>4. CASE ConnectFails \/ User
  BY <1>4, EndingSteps
<1>5. CASE Network
  BY <1>5, AnswerKeeps, RefuseKeeps, QuietSteps, EndingSteps DEF Network
<1>. QED BY <1>1, <1>2, <1>3, <1>4, <1>5 DEF Next

(* So it always holds.                                                     *)
LEMMA ClientInvariant == Spec => []ClientInv
BY InitClientInv, ClientInvStep, PTL DEF Spec

(* No operation of the channel, its user or the network takes a field of   *)
(* struct rtsp_sess out of its range; keepalive_cnt stays in its bound.    *)
THEOREM ClientTypes == Spec => []TypeOK
BY ClientInvariant, PTL DEF ClientInv

(* start_playing asks for nothing while an answer is waited for, however   *)
(* the thread, the socket and the server interleave.                       *)
THEOREM RequestsAreAskedInTurn == Spec => []OneRequestAtATime
BY ClientInvariant, PTL DEF ClientInv, Conversation

(* run_rtsp_state_machine takes the answers for what they are: who is      *)
(* READY has set up every track, and who is PLAYING is played to.          *)
THEOREM ServerDidWhatIsBelieved == Spec => []ClientBelievesTheServer
BY ClientInvariant, PTL DEF ClientInv, Conversation
=============================================================================
