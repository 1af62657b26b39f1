---------------------------- MODULE Interleaved ----------------------------
(***************************************************************************)
(* How libRtspClient finds answers and packets in the bytes of its RTSP    *)
(* connection, when RTP goes over that connection too: a packet begins     *)
(* with '$' and a header that holds its size, an answer is lines of text.  *)
(* TCP delivers the stream in pieces of any length.                        *)
(*                                                                         *)
(* A byte is <<i, k>>, the k-th of message i; what matters of its value    *)
(* is whether it is '$' and whether a line ends with it.  A step is one    *)
(* recv, the part of recv_from_rtsp_sd that looks at what was kept, or one *)
(* turn of its loop, with a run of text taken as a whole.                  *)
(***************************************************************************)
EXTENDS Integers, SequencesExt, SequenceSelection

CONSTANTS
  Streams,      \* the sequences of messages a server may send
  HeaderSize,   \* sizeof(struct intlvd)
  MinAnswer     \* below this rtsp_msg_complete is false

(* A message is a record of its kind, its length, which of its bytes are   *)
(* '$' and which end a line with CRLF.                                     *)
Kinds == {"packet", "answer"}

ASSUME SizeAssumption == /\ HeaderSize \in Nat \ {0} /\ MinAnswer \in Nat
                         /\ MinAnswer > 1

(* A packet begins with '$' and its header.  An answer has no '$', by      *)
(* which the code tells it from packets, ends a line and is not a short    *)
(* one.                                                                    *)
MessageRecord == [kind : Kinds, len : Nat, dollars : SUBSET Nat, ends : SUBSET Nat]
WellFormed(m) ==
  /\ m.kind = "packet" => 1 \in m.dollars /\ m.len >= HeaderSize
  /\ m.kind = "answer" => m.dollars = {} /\ m.len \in m.ends /\ m.len >= MinAnswer

ASSUME StreamsAssumption ==
  /\ Streams \subseteq Seq(MessageRecord)
  /\ \A s \in Streams : \A i \in 1..Len(s) : WellFormed(s[i])

VARIABLES
  stream,     \* the messages
  wire,       \* the bytes not yet received
  kept,       \* last_data
  text,       \* the bytes from `new' to `ptr'
  rest,       \* the bytes from `ptr' on
  handed,     \* what handle_intlvd_data has been given
  pc,
  cuts        \* history: how recv has cut the stream so far

vars == <<stream, wire, kept, text, rest, handed, pc, cuts>>

Message(i) == [k \in 1..stream[i].len |-> <<i, k>>]
Packets == {i \in DOMAIN stream : stream[i].kind = "packet"}
Answers == {i \in DOMAIN stream : stream[i].kind = "answer"}

Garbage == <<0, 0>>     \* a byte of kept that nobody has written

Dollar(b) == b[1] > 0 /\ b[2] \in stream[b[1]].dollars

(* The size that a header at the front of s gives, with the header: of a   *)
(* packet of the stream, or anything if other bytes stand there.           *)
Largest == CHOOSE n \in {stream[i].len : i \in DOMAIN stream} :
             \A i \in DOMAIN stream : stream[i].len <= n
IsHeader(s, i) == SubSeq(s, 1, HeaderSize) = SubSeq(Message(i), 1, HeaderSize)
Totals(s) == IF \E i \in Packets : IsHeader(s, i)
             THEN {stream[i].len : i \in {j \in Packets : IsHeader(s, j)}}
             ELSE HeaderSize..Largest

(* rtsp_msg_complete.                                                      *)
Complete(s) ==
  LET n == Len(s)
  IN  /\ n >= MinAnswer
      /\ s[n][1] > 0 /\ s[n][2] \in stream[s[n][1]].ends
      /\ s[n - 1] = <<s[n][1], s[n][2] - 1>>

---------------------------------------------------------------------------
Init ==
  /\ stream \in Streams
  /\ wire = FlattenSeq([i \in DOMAIN stream |-> Message(i)])
  /\ kept = <<>> /\ text = <<>> /\ rest = <<>> /\ handed = <<>>
  /\ pc = "recv" /\ cuts = {}

(* What a piece of n bytes does to the messages at its end and inside it.  *)
CutBy(n) ==
  LET i == wire[n][1]
      k == wire[n][2]
  IN  (IF k = stream[i].len THEN {}
       ELSE IF i \in Answers THEN {"answer"}
       ELSE IF k < HeaderSize THEN {"header"} ELSE {})
      \cup (IF \E j \in 1..n-1 : /\ wire[j][1] \in Answers
                                 /\ wire[j + 1][1] \in Answers \ {wire[j][1]}
            THEN {"joined"} ELSE {})

Recv(n) ==
  /\ pc = "recv"
  /\ rest' = SubSeq(wire, 1, n)
  /\ wire' = SubSeq(wire, n + 1, Len(wire))
  /\ text' = <<>>
  /\ cuts' = cuts \cup CutBy(n)
  /\ pc' = "kept"
  /\ UNCHANGED <<stream, kept, handed>>

(* "handle the data in last buf"                                           *)
PacketKept == Len(kept) >= HeaderSize /\ Dollar(kept[1])

(* n >= size + header - lastp->sz, which is unsigned and would wrap.       *)
Needs(total, n) == total >= Len(kept) /\ n >= total - Len(kept)

CompleteKeptTooMuch ==                                   \* a seeded fault
  /\ pc = "kept" /\ PacketKept
  /\ \E total \in Totals(kept) :
       IF Len(rest) >= total
       THEN /\ handed' = Append(handed, kept \o SubSeq(rest, 1, total))
            /\ rest' = SubSeq(rest, total + 1, Len(rest))
            /\ kept' = <<>> /\ pc' = "scan"
       ELSE /\ kept' = kept \o rest /\ rest' = <<>>
            /\ pc' = "recv"
            /\ UNCHANGED handed
  /\ UNCHANGED <<stream, wire, text, cuts>>

CompleteKept ==
  /\ pc = "kept" /\ PacketKept
  /\ \E total \in Totals(kept) :
       IF Needs(total, Len(rest))
       THEN LET m == total - Len(kept)
            IN  /\ handed' = Append(handed, kept \o SubSeq(rest, 1, m))
                /\ rest' = SubSeq(rest, m + 1, Len(rest))
                /\ kept' = <<>>
                /\ pc' = "scan"
       ELSE /\ kept' = kept \o rest /\ rest' = <<>>
            /\ pc' = "recv"
            /\ UNCHANGED handed
  /\ UNCHANGED <<stream, wire, text, cuts>>

NothingKept ==
  /\ pc = "kept" /\ ~PacketKept
  /\ pc' = "scan"
  /\ UNCHANGED <<stream, wire, kept, text, rest, handed, cuts>>

(* The loop finds text: up to the next '$', or to the end of what it has.  *)
TextLen == CHOOSE n \in 1..Len(rest) :
             /\ \A j \in 1..n : ~Dollar(rest[j])
             /\ n = Len(rest) \/ Dollar(rest[n + 1])

(* Text that is not an answer yet is kept, and its length counted twice.   *)
ScanText ==
  /\ pc = "scan" /\ rest # <<>> /\ ~Dollar(rest[1])
  /\ rest' = SubSeq(rest, TextLen + 1, Len(rest))
  /\ LET run  == SubSeq(rest, 1, TextLen)
         all  == kept \o run
     IN  IF TextLen < Len(rest)
           THEN text' = run /\ UNCHANGED <<kept, handed>>
         ELSE IF Complete(all)
           THEN handed' = Append(handed, all) /\ kept' = <<>> /\ text' = <<>>
         ELSE /\ kept' = all \o [j \in 1..TextLen |-> Garbage]
              /\ text' = <<>> /\ UNCHANGED handed
  /\ UNCHANGED <<stream, wire, pc, cuts>>

EndTextAgain ==                                          \* a seeded fault
  /\ pc = "scan" /\ rest # <<>> /\ Dollar(rest[1])
  /\ text # <<>>
  /\ handed' = Append(handed, kept \o text)
  /\ kept' = <<>>
  /\ UNCHANGED <<stream, wire, text, rest, pc, cuts>>

(* It finds a '$': what is before it is an answer, ...                     *)
EndText ==
  /\ pc = "scan" /\ rest # <<>> /\ Dollar(rest[1])
  /\ text # <<>>
  /\ handed' = Append(handed, kept \o text)
  /\ kept' = <<>> /\ text' = <<>>
  /\ UNCHANGED <<stream, wire, rest, pc, cuts>>

ScanPacketOrDrop ==                                      \* a seeded fault
  /\ pc = "scan" /\ rest # <<>> /\ Dollar(rest[1])
  /\ text = <<>>
  /\ \E total \in IF Len(rest) >= HeaderSize THEN Totals(rest)
                  ELSE {Len(rest) + 1} :
       /\ handed' = IF Len(rest) >= total
                    THEN Append(handed, SubSeq(rest, 1, total)) ELSE handed
       /\ rest' = SubSeq(rest, total + 1, Len(rest))
  /\ UNCHANGED <<stream, wire, kept, text, pc, cuts>>

(* ... and what begins there is a packet, to be kept if it is not whole.   *)
ScanPacket ==
  /\ pc = "scan" /\ rest # <<>> /\ Dollar(rest[1])
  /\ text = <<>>
  /\ \E total \in IF Len(rest) >= HeaderSize THEN Totals(rest)
                  ELSE {Len(rest) + 1} :
       IF Len(rest) >= total
       THEN /\ handed' = Append(handed, SubSeq(rest, 1, total))
            /\ rest' = SubSeq(rest, total + 1, Len(rest))
            /\ UNCHANGED kept
       ELSE kept' = rest /\ rest' = <<>> /\ UNCHANGED handed
  /\ UNCHANGED <<stream, wire, text, pc, cuts>>

ScanEnds ==
  /\ pc = "scan" /\ rest = <<>>
  /\ pc' = "recv"
  /\ UNCHANGED <<stream, wire, kept, text, rest, handed, cuts>>

Next ==
  \/ \E n \in 1..Len(wire) : Recv(n)
  \/ CompleteKept \/ NothingKept
  \/ ScanText \/ EndText \/ ScanPacket \/ ScanEnds

Spec == Init /\ [][Next]_vars

---------------------------------------------------------------------------
(* The packets among what was handed over.                                 *)
PacketsOf(s) == Only(s, {d \in Range(s) : Dollar(d[1])})

(* As long as no header was cut, the packets handed over are packets of    *)
(* the stream, whole, each once and in order, however answers were cut:    *)
(* the assertion of handle_intlvd_data holds.                              *)
PacketsAreWhole ==
  "header" \notin cuts =>
    IsPrefix(PacketsOf(handed),
             PacketsOf([i \in DOMAIN stream |-> Message(i)]))

(* If no answer was cut or received together with another either, all      *)
(* messages are handed over whole and in order.                            *)
MessagesAreWhole ==
  cuts = {} =>
    \A j \in DOMAIN handed : j \in DOMAIN stream /\ handed[j] = Message(j)

(* Then what was handed over and is kept is also all that was received.    *)
NothingIsLost ==
  cuts = {} /\ pc = "recv" =>
    FlattenSeq(handed) \o kept \o wire
      = FlattenSeq([i \in DOMAIN stream |-> Message(i)])
=============================================================================
