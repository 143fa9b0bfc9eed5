---------------------------- MODULE TunnelStreams ----------------------------
(***************************************************************************)
(* The streams multiplexed over an open tunnel (tunnel_client.rs).         *)
(*                                                                         *)
(* On each side one engine owns the connection and serves, in any order,   *)
(* a queue of commands and the frames of the peer.  Tasks of the streams   *)
(* talk to it through the queue: for every local connection the listener   *)
(* asks the peer to dial (OPEN) and registers a channel, a reader turns    *)
(* what the socket says into DATA and its end into CLOSE, and a pump       *)
(* writes what the engine passes on.  The connection keeps frames in       *)
(* order (module Tunnel).                                                  *)
(***************************************************************************)
EXTENDS Naturals, Sequences

CONSTANTS
    Stream,   \* stream ids, handed out in order
    Protos,   \* protocols forwarded, "tcp" or "udp"
    MaxChunks,  \* bound on what a socket says
    Loads     \* the loads tried: how much the sockets of each stream may say

ASSUME StreamsAssumption ==
    /\ Stream \subseteq Nat /\ Protos \subseteq {"tcp", "udp"} /\ MaxChunks \in Nat
    /\ \A l \in Loads : DOMAIN l \subseteq Stream /\ \A s \in DOMAIN l : l[s] \in 0..MaxChunks

VARIABLES
    proto,    \* the protocol of this tunnel
    load,     \* the streams of this behaviour and what each may say
    cmds,     \* EngineCmd queue of a side
    wire,     \* frames on their way to a side
    reg,      \* streams: those a side routes frames to
    inq,      \* channel from the engine to a stream's pump
    pump,     \* where the stream's task is
    reads,    \* whether its reader is at work
    said,     \* chunks the socket has said
    heard,    \* chunks written to the socket, Lost where it refused a datagram
    ended,    \* history: CLOSE was queued for the stream
    broken,   \* history: streams with a socket that refused a write
    missed    \* history: streams with a frame that came before the registration

streamVars == <<proto, load, cmds, wire, reg, inq, pump, reads, said, heard, ended, broken, missed>>

Role == {"listener", "target"}
Across(x) == IF x = "listener" THEN "target" ELSE "listener"
Frame == [kind : {"open", "data", "close"}, s : Stream, n : 0..MaxChunks]
Cmd == [do : {"send"}, f : Frame] \cup [do : {"register"}, s : Stream]

Over(S) == [Role -> [Stream -> S]]
Everywhere(v) == [x \in Role |-> [s \in Stream |-> v]]

\* Types of the queues and of the streams' state.
StreamsTypeOK ==
    /\ proto \in Protos /\ load \in Loads
    /\ \A x \in Role :
          /\ \A i \in DOMAIN cmds[x] : cmds[x][i] \in Cmd
          /\ \A i \in DOMAIN wire[x] : wire[x][i] \in Frame
          /\ reg[x] \subseteq Stream
          /\ \A s \in Stream : \A i \in DOMAIN inq[x][s] : inq[x][s][i] \in Frame
    /\ pump \in Over({"none", "opening", "dial", "run", "done"})
    /\ reads \in Over(BOOLEAN) /\ ended \in Over(BOOLEAN)
    /\ said \in Over(0..MaxChunks)
    /\ broken \subseteq Stream /\ missed \subseteq Stream

StreamsInit ==
    /\ proto \in Protos /\ load \in Loads
    /\ cmds = [x \in Role |-> <<>>] /\ wire = [x \in Role |-> <<>>]
    /\ reg = [x \in Role |-> {}]
    /\ inq = Everywhere(<<>>) /\ pump = Everywhere("none")
    /\ reads = Everywhere(FALSE) /\ said = Everywhere(0) /\ heard = Everywhere(<<>>)
    /\ ended = Everywhere(FALSE) /\ broken = {} /\ missed = {}

FrameOf(k, s, n) == [kind |-> k, s |-> s, n |-> n]
Queue(x, c) == cmds' = [cmds EXCEPT ![x] = Append(@, c)]
Send(x, f) == Queue(x, [do |-> "send", f |-> f])
Goes(x, s, l) == pump' = [pump EXCEPT ![x][s] = l]

-----------------------------------------------------------------------------
(* listen_loop *)

\* A local connection, or the first datagram of a source: OPEN is queued.
Accept(s) ==
    /\ s \in DOMAIN load /\ pump["listener"][s] = "none"
    /\ \A r \in Stream : r < s => pump["listener"][r] # "none"
    /\ Send("listener", FrameOf("open", s, 0))
    /\ Goes("listener", s, "opening")
    /\ UNCHANGED <<proto, load, wire, reg, inq, reads, said, heard, ended, broken, missed>>

\* Then the channel is sent to the engine and the stream's tasks start.
RegisterStream(s) ==
    /\ pump["listener"][s] = "opening"
    /\ Queue("listener", [do |-> "register", s |-> s])
    /\ Goes("listener", s, "run")
    /\ reads' = [reads EXCEPT !["listener"][s] = TRUE]
    /\ UNCHANGED <<proto, load, wire, reg, inq, said, heard, ended, broken, missed>>

-----------------------------------------------------------------------------
(* engine_loop *)

\* The next command: a frame to seal and send, or a registration.
EngineSend(x) ==
    LET c == Head(cmds[x]) IN
    /\ cmds[x] # <<>>
    /\ cmds' = [cmds EXCEPT ![x] = Tail(@)]
    /\ IF c.do = "send"
       THEN wire' = [wire EXCEPT ![Across(x)] = Append(@, c.f)] /\ UNCHANGED reg
       ELSE reg' = [reg EXCEPT ![x] = @ \cup {c.s}] /\ UNCHANGED wire
    /\ UNCHANGED <<proto, load, inq, pump, reads, said, heard, ended, broken, missed>>

\* The streams routed after a frame: OPEN adds one on the target, CLOSE
\* removes one.
RoutesAfter(x, f) ==
    CASE f.kind = "open" -> IF x = "target" THEN reg[x] \cup {f.s} ELSE reg[x]
      [] f.kind = "data" -> reg[x]
      [] f.kind = "close" -> reg[x] \ {f.s}

\* The next frame of the peer.  DATA and CLOSE of a stream that is not routed
\* are dropped; a pump that has ended does not take them either.
EngineReceive(x) ==
    LET f == Head(wire[x])
        s == f.s
        routed == f.kind # "open" /\ s \in reg[x]
    IN
    /\ wire[x] # <<>>
    /\ wire' = [wire EXCEPT ![x] = Tail(@)]
    /\ reg' = [reg EXCEPT ![x] = RoutesAfter(x, f)]
    /\ IF f.kind = "open" /\ x = "target" THEN Goes(x, s, "dial") ELSE UNCHANGED pump
    /\ inq' = IF routed /\ pump[x][s] # "done"
              THEN [inq EXCEPT ![x][s] = Append(@, f)] ELSE inq
    /\ missed' = IF x = "listener" /\ ~routed /\ pump[x][s] # "done"
                 THEN missed \cup {s} ELSE missed
    /\ UNCHANGED <<proto, load, cmds, reads, said, heard, ended, broken>>

-----------------------------------------------------------------------------
(* spawn_target_stream, target_udp *)

\* The target's socket is there.
Dial(s) ==
    /\ pump["target"][s] = "dial"
    /\ Goes("target", s, "run")
    /\ reads' = [reads EXCEPT !["target"][s] = TRUE]
    /\ UNCHANGED <<proto, load, cmds, wire, reg, inq, said, heard, ended, broken, missed>>

\* Faulty variant: nobody is told.
DialFailsQuietly(s) ==
    /\ pump["target"][s] = "dial" /\ proto = "tcp"
    /\ reg' = [reg EXCEPT !["target"] = @ \ {s}]
    /\ Goes("target", s, "done")
    /\ UNCHANGED <<proto, load, cmds, wire, inq, reads, said, heard, ended, broken, missed>>

\* It is not: for TCP the peer is told and the stream forgotten.
DialFails(s) ==
    /\ pump["target"][s] = "dial" /\ proto = "tcp"
    /\ Send("target", FrameOf("close", s, 0))
    /\ ended' = [ended EXCEPT !["target"][s] = TRUE]
    /\ reg' = [reg EXCEPT !["target"] = @ \ {s}]
    /\ Goes("target", s, "done")
    /\ UNCHANGED <<proto, load, wire, inq, reads, said, heard, broken, missed>>

\* For UDP the task only ends; the stream stays routed into a channel nobody
\* reads.
BindFails(s) ==
    /\ pump["target"][s] = "dial" /\ proto = "udp"
    /\ Goes("target", s, "done")
    /\ broken' = broken \cup {s}
    /\ UNCHANGED <<proto, load, cmds, wire, reg, inq, reads, said, heard, ended, missed>>

-----------------------------------------------------------------------------
(* pump_tcp, udp_reply_pump and the sockets *)

\* The reader takes a chunk from the socket.
Read(x, s) ==
    /\ reads[x][s] /\ said[x][s] < load[s]
    /\ said' = [said EXCEPT ![x][s] = @ + 1]
    /\ Send(x, FrameOf("data", s, said[x][s] + 1))
    /\ UNCHANGED <<proto, load, wire, reg, inq, pump, reads, heard, ended, broken, missed>>

\* Faulty variant: the end of the socket is not passed on.
ReadEndQuietly(x, s) ==
    /\ reads[x][s] /\ proto = "tcp"
    /\ reads' = [reads EXCEPT ![x][s] = FALSE]
    /\ ended' = [ended EXCEPT ![x][s] = TRUE]
    /\ UNCHANGED <<proto, load, cmds, wire, reg, inq, pump, said, heard, broken, missed>>

\* The application stops talking: end of file or an error of the socket.
ReadEnd(x, s) ==
    /\ reads[x][s] /\ proto = "tcp"
    /\ reads' = [reads EXCEPT ![x][s] = FALSE]
    /\ ended' = [ended EXCEPT ![x][s] = TRUE]
    /\ Send(x, FrameOf("close", s, 0))
    /\ UNCHANGED <<proto, load, wire, reg, inq, pump, said, heard, broken, missed>>

\* target_udp: an error of the socket ends its reader, and nobody is told; what
\* the peer sends is still written.
RecvFails(s) ==
    /\ reads["target"][s] /\ proto = "udp"
    /\ reads' = [reads EXCEPT !["target"][s] = FALSE]
    /\ UNCHANGED <<proto, load, cmds, wire, reg, inq, pump, said, heard, ended, broken, missed>>

\* The pump ends: the reader is aborted, the stream is no longer routed.
Ends(x, s) ==
    /\ Goes(x, s, "done")
    /\ reads' = [reads EXCEPT ![x][s] = FALSE]
    /\ reg' = [reg EXCEPT ![x] = @ \ {s}]
    /\ inq' = [inq EXCEPT ![x][s] = <<>>]

\* The pump's next message is written to the socket, or is the end.
Write(x, s) ==
    LET f == Head(inq[x][s]) IN
    /\ pump[x][s] = "run" /\ inq[x][s] # <<>>
    /\ IF f.kind = "close"
       THEN Ends(x, s) /\ UNCHANGED heard
       ELSE /\ heard' = [heard EXCEPT ![x][s] = Append(@, f.n)]
            /\ inq' = [inq EXCEPT ![x][s] = Tail(@)]
            /\ UNCHANGED <<pump, reads, reg>>
    /\ UNCHANGED <<proto, load, cmds, wire, said, ended, broken, missed>>

\* Faulty variant: the chunk that could not be written is skipped.
WriteFailsGoesOn(x, s) ==
    /\ pump[x][s] = "run" /\ inq[x][s] # <<>> /\ Head(inq[x][s]).kind = "data"
    /\ proto = "tcp"
    /\ inq' = [inq EXCEPT ![x][s] = Tail(@)]
    /\ UNCHANGED <<proto, load, cmds, wire, reg, pump, reads, said, heard, ended, broken, missed>>

\* The application has closed its side and the write fails, maybe before the
\* reader has noticed.
WriteFails(x, s) ==
    /\ pump[x][s] = "run" /\ inq[x][s] # <<>> /\ Head(inq[x][s]).kind = "data"
    /\ proto = "tcp"
    /\ Ends(x, s)
    /\ broken' = broken \cup {s}
    /\ UNCHANGED <<proto, load, cmds, wire, said, heard, ended, missed>>

Lost == 0

\* A datagram the socket refuses is lost, and the pump goes on with the next.
SendFails(x, s) ==
    /\ pump[x][s] = "run" /\ inq[x][s] # <<>> /\ Head(inq[x][s]).kind = "data"
    /\ proto = "udp"
    /\ heard' = [heard EXCEPT ![x][s] = Append(@, Lost)]
    /\ inq' = [inq EXCEPT ![x][s] = Tail(@)]
    /\ UNCHANGED <<proto, load, cmds, wire, reg, pump, reads, said, ended, broken, missed>>

-----------------------------------------------------------------------------
Engine(x) == EngineSend(x) \/ EngineReceive(x)
Dials(s) == Dial(s) \/ DialFails(s) \/ BindFails(s)
Writes(x, s) == Write(x, s) \/ WriteFails(x, s) \/ SendFails(x, s)

StreamsNext ==
    \/ \E s \in Stream : Accept(s) \/ RegisterStream(s) \/ Dials(s) \/ RecvFails(s)
    \/ \E x \in Role : Engine(x)
    \/ \E x \in Role, s \in Stream : Read(x, s) \/ ReadEnd(x, s) \/ Writes(x, s)

\* The runtime runs every task that can go on, and a dial ends one way or the
\* other; what the applications say is up to them.  A write ends too: an
\* application that stops reading without closing would block write_all.
StreamsFairness ==
    /\ \A x \in Role : WF_streamVars(EngineSend(x)) /\ WF_streamVars(EngineReceive(x))
    /\ \A s \in Stream : WF_streamVars(RegisterStream(s)) /\ WF_streamVars(Dials(s))
    /\ \A x \in Role, s \in Stream : WF_streamVars(Writes(x, s))

StreamsSpec == StreamsInit /\ [][StreamsNext]_streamVars /\ StreamsFairness

-----------------------------------------------------------------------------
(* Properties *)

\* Chunk i has been written, or is a datagram that the socket refused.
Delivered(n, i) == n = i \/ (proto = "udp" /\ n = Lost)

\* What a socket hears is what the other one said, in order, nothing twice and,
\* over TCP, without a gap; over UDP the only datagrams missing are those whose
\* send failed (udp_reply_pump and target_udp ignore it).  On the listener this
\* holds unless a frame overtook the registration of its stream.
Gapless ==
    StreamsTypeOK /\ \A x \in Role, s \in Stream :
        x = "target" \/ s \notin missed =>
            /\ Len(heard[x][s]) <= said[Across(x)][s]
            /\ \A i \in DOMAIN heard[x][s] : Delivered(heard[x][s][i], i)

InFlight(x, s) ==
    \/ inq[x][s] # <<>>
    \/ \E i \in DOMAIN wire[x] : wire[x][i].s = s
    \/ \E i \in DOMAIN cmds[Across(x)] :
          LET c == cmds[Across(x)][i] IN c.do = "send" /\ c.f.s = s

\* A stream outlives its other end only where the application had stopped
\* talking first (its peer's end is then not reported back), where a socket
\* broke, or where the registration came too late.
LingersOnlyAfterEnd ==
    \A x \in Role, s \in Stream :
        /\ pump[x][s] = "run" /\ pump[Across(x)][s] = "done"
        /\ ~InFlight(x, s)
        => ended[x][s] \/ s \in broken \/ s \in missed

\* When the application on one side stops talking, or the dial fails, the
\* stream ends on the other side, and its socket is closed there, unless the
\* CLOSE overtook the registration.
CloseArrives ==
    \A x \in Role, s \in Stream :
        ended[x][s] ~> pump[Across(x)][s] = "done" \/ s \in missed
=============================================================================
