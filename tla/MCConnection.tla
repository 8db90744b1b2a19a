--------------------------- MODULE MCConnection ---------------------------
(* Instances of Connection for TLC.                                        *)
EXTENDS Connection

\* Everything that may fail, except the three thread creations and the socket
\* of the known faults (see the README).
MCFailing == {<<"network", w>> : w \in {"platform", "resolve", "rtsp", "enet"}}
    \cup {<<"message", w>> : w \in {"startA", "startB"}}
    \cup {<<"setup", m>> : m \in Media} \cup {<<"bind", "video">>}
    \cup {<<"spawn", t>> : t \in Threads \ {"audioRecv", "audioDec", "videoDec"}}
MCNothing == {}
MCMayDie == {"controlRecv"}
=============================================================================
