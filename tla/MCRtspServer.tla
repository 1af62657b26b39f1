---------------------------- MODULE MCRtspServer ----------------------------
(* Instances of RtspServer for TLC, and what their clients may send. *)
EXTENDS RtspServer

(* A client that plays one track or two over UDP and then leaves.          *)
UdpPlayer == {<<"none", "describe">>, <<"describe", "setupV">>,
              <<"setupV", "setupA">>, <<"setupV", "play">>,
              <<"setupA", "play">>, <<"play", "pause">>,
              <<"play", "teardown">>, <<"pause", "teardown">>}

(* A client that plays one track, over UDP or over its RTSP connection.    *)
OneTrackPlayer == {<<"none", "describe">>, <<"describe", "setupV">>,
                   <<"describe", "setupTcp">>, <<"setupV", "play">>,
                   <<"setupTcp", "play">>, <<"play", "pause">>,
                   <<"play", "teardown">>, <<"pause", "teardown">>}

(* A client that plays over its RTSP connection.                           *)
TcpPlayer == {<<"none", "setupTcp">>, <<"setupTcp", "play">>,
              <<"play", "teardown">>}

(* Players of either kind, that also ask other things before they play,    *)
(* play before they set up, or play again.                                 *)
Asking == {"info", "infoUdp", "infoTcp", "bad", "junk"}
AnyPlayer ==
  UdpPlayer \cup TcpPlayer
    \cup {<<"describe", "setupTcp">>}
    \cup {<<m, n>> : m \in {"none", "describe"} \cup Asking,
                    n \in {"describe"} \cup Asking}
    \cup {<<m, n>> : m \in Asking, n \in {"setupV", "setupTcp"}}
    \cup {<<m, "play">> : m \in {"none", "describe", "info", "play", "pause"}}

(* A client that leaves before it plays.                                   *)
Hesitant == {<<"none", "describe">>, <<"describe", "setupTcp">>,
             <<"setupTcp", "teardown">>}

(* All of them set up each track once and describe before that.            *)
ASSUME ClientAssumption == EachTrackSetUpOnce /\ DescribedBeforeSetUp
=============================================================================
