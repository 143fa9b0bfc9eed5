------------------------------- MODULE Tunnel -------------------------------
(***************************************************************************)
(* One tunnel between two clients: the hub and the WebSocket handler of    *)
(* the server (tunnel_relay.rs, server.rs), the handshake and the sealed   *)
(* frames of the clients (tunnel_client.rs, tunnel_crypto.rs).             *)
(*                                                                         *)
(* A connection is one attachment of one side.  Nothing keeps a side from  *)
(* attaching again; the later connection then takes the earlier one's      *)
(* place in the hub.  Each connection has a queue towards the client (the  *)
(* channel, its pump and the socket) and one from the client.  Ephemeral   *)
(* keys are named after the connection they are made for, a certificate    *)
(* is a generation per side, and a signature is the pair of keys it        *)
(* covers.                                                                 *)
(***************************************************************************)
EXTENDS Naturals, Sequences, FiniteSets

CONSTANTS
    Conn,     \* connections
    MaxData,  \* bound on data frames per connection
    MaxGen,   \* bound on certificates per side
    Traffics, \* what may happen besides two attachments, one set per behaviour
    NoTunnel, NoConn

ASSUME TunnelAssumption ==
    /\ MaxData \in Nat /\ MaxGen \in Nat \ {0} /\ NoConn \notin Conn
    /\ Traffics \subseteq SUBSET {"again", "data", "rotate", "sweep", "close", "unknown"}

VARIABLES
    hub,      \* the entry of the tunnel in the hub's map
    traffic,  \* what this behaviour may do
    offered,  \* whether the offer has been made
    gen,      \* the current certificate of each side, as the database has it
    side, cert, \* a connection's side and certificate
    pc,       \* where its handler is
    fp,       \* the fingerprint it looked up
    peer,     \* peer_tx: the connection its frames go to
    rx,       \* whether the receiver of its channel still exists
    down, up, \* messages to and from the client
    cl,       \* where the client is
    want,     \* the fingerprint vouched to it
    peerEph,  \* the ephemeral key it received
    sess,     \* the connection whose key it shares a session with
    sent, rcvd, \* counters of the session
    attached, \* history: connections that have been entered in the hub
    mate      \* history: whom a connection was first paired with

server == <<hub, pc, fp, peer, rx>>
client == <<cl, want, peerEph, sess, sent, rcvd>>
fixed == <<traffic, offered, gen, side, cert>>
past == <<attached, mate>>
vars == <<server, client, fixed, past, down, up>>

Side == {"offerer", "answerer"}
Other(x) == IF x = "offerer" THEN "answerer" ELSE "offerer"
Conns == Conn \cup {NoConn}
Gens == 0..MaxGen

\* fingerprint 0: the empty string, or not attached.
Entry == [fp : [Side -> Gens], to : [Side -> Conns]]
Msg == [t : {"vouch"}, fp : Gens]
       \cup [t : {"eph"}, of : Conn]
       \cup [t : {"hs"}, of : Conn, from : Side, fp : Gens, over : Conn]
       \cup [t : {"data"}, of : Conn, key : SUBSET Conn, n : Nat]
       \cup [t : {"gone", "close"}]

\* Types of the hub, the handlers, the clients and the queues.
TypeOK ==
    /\ hub \in Entry \cup {NoTunnel} /\ offered \in BOOLEAN /\ traffic \in Traffics
    /\ gen \in [Side -> Gens] /\ side \in [Conn -> Side] /\ cert \in [Conn -> Gens]
    /\ pc \in [Conn -> {"new", "fp", "register", "vouch_me", "vouch_peer", "run",
                        "teardown", "tell", "done"}]
    /\ fp \in [Conn -> Gens] /\ peer \in [Conn -> Conns] /\ rx \in [Conn -> BOOLEAN]
    /\ cl \in [Conn -> {"none", "vouch", "eph", "hs", "open", "failed", "closed"}]
    /\ want \in [Conn -> Gens] /\ peerEph \in [Conn -> Conns] /\ sess \in [Conn -> Conns]
    /\ sent \in [Conn -> 0..MaxData] /\ rcvd \in [Conn -> 0..MaxData]
    /\ \A c \in Conn : \A i \in DOMAIN down[c] : down[c][i] \in Msg
    /\ \A c \in Conn : \A i \in DOMAIN up[c] : up[c][i] \in Msg
    /\ attached \subseteq Conn /\ mate \in [Conn -> Conns]

Init ==
    /\ hub = NoTunnel /\ offered = FALSE /\ traffic \in Traffics
    /\ gen = [x \in Side |-> 1]
    /\ side = [c \in Conn |-> "offerer"] /\ cert = [c \in Conn |-> 0]
    /\ pc = [c \in Conn |-> "new"] /\ fp = [c \in Conn |-> 0]
    /\ peer = [c \in Conn |-> NoConn] /\ rx = [c \in Conn |-> TRUE]
    /\ down = [c \in Conn |-> <<>>] /\ up = [c \in Conn |-> <<>>]
    /\ cl = [c \in Conn |-> "none"] /\ want = [c \in Conn |-> 0]
    /\ peerEph = [c \in Conn |-> NoConn] /\ sess = [c \in Conn |-> NoConn]
    /\ sent = [c \in Conn |-> 0] /\ rcvd = [c \in Conn |-> 0]
    /\ attached = {} /\ mate = [c \in Conn |-> NoConn]

Goto(c, l) == pc' = [pc EXCEPT ![c] = l]
\* A send on a channel whose receiver is gone fails.
Sent(c, m) == IF rx[c] THEN [down EXCEPT ![c] = Append(@, m)] ELSE down

-----------------------------------------------------------------------------
(* Hub and database *)

\* offer_tunnel; without a fingerprint there is no offer.
Offer ==
    /\ ~offered
    /\ offered' = TRUE
    /\ hub' = [fp |-> [x \in Side |-> IF x = "offerer" THEN gen[x] ELSE 0],
               to |-> [x \in Side |-> NoConn]]
    /\ UNCHANGED <<traffic, gen, side, cert, pc, fp, peer, rx, client, past, down, up>>

\* Another client's offer, 120 s later: entries no answerer has joined go,
\* whether or not the offerer is attached and waiting.
Sweep ==
    /\ "sweep" \in traffic
    /\ hub # NoTunnel /\ hub.to["answerer"] = NoConn
    /\ hub' = NoTunnel
    /\ UNCHANGED <<pc, fp, peer, rx, fixed, client, past, down, up>>

\* rotate_client (module Identity): new connections use the new certificate.
Rotate(x) ==
    /\ "rotate" \in traffic /\ gen[x] < MaxGen
    /\ gen' = [gen EXCEPT ![x] = @ + 1]
    /\ UNCHANGED <<server, client, traffic, offered, side, cert, past, down, up>>

-----------------------------------------------------------------------------
(* tunnel_ws *)

\* A client connects; the role is decided under the lock, and without an entry
\* the answer is 404.
Connect(c) ==
    /\ pc[c] = "new" /\ offered /\ ("again" \in traffic \/ c <= 2)
    /\ \A d \in Conn : pc[d] = "new" => c <= d
    /\ \E x \in Side :
          /\ side' = [side EXCEPT ![c] = x]
          /\ cert' = [cert EXCEPT ![c] = gen[x]]
    /\ IF hub # NoTunnel
       THEN Goto(c, "fp") /\ cl' = [cl EXCEPT ![c] = "vouch"]
       ELSE Goto(c, "done") /\ cl' = [cl EXCEPT ![c] = "closed"]
    /\ UNCHANGED <<hub, fp, peer, rx, traffic, offered, gen, want, peerEph, sess, sent,
                   rcvd, past, down, up>>

\* client_fingerprint: the current certificate, or None if the query fails or
\* the client has been revoked since it authenticated.
Fingerprints(x) == {gen[x]} \cup (IF "unknown" \in traffic THEN {0} ELSE {})

\* The lookup, while other connections go on; None becomes the empty string.
LookupFingerprint(c) ==
    /\ pc[c] = "fp"
    /\ \E f \in Fingerprints(side[c]) : fp' = [fp EXCEPT ![c] = f]
    /\ Goto(c, "register")
    /\ UNCHANGED <<hub, peer, rx, fixed, client, past, down, up>>

\* The entry with the connection on its side.
Registered(c) == [hub EXCEPT !.to[side[c]] = c, !.fp[side[c]] = fp[c]]

\* The second lock: the entry may be gone by now, and nothing is wired.  When
\* both sides are there this handler vouches for both.
Register(c) ==
    LET p == IF hub = NoTunnel THEN NoConn ELSE hub.to[Other(side[c])] IN
    /\ pc[c] = "register"
    /\ hub' = IF hub = NoTunnel THEN hub ELSE Registered(c)
    /\ attached' = IF hub = NoTunnel THEN attached ELSE attached \cup {c}
    /\ peer' = [peer EXCEPT ![c] = p]
    /\ IF p # NoConn
       THEN /\ Goto(c, "vouch_me")
            /\ mate' = [mate EXCEPT ![c] = p, ![p] = IF @ = NoConn THEN c ELSE @]
       ELSE Goto(c, "run") /\ UNCHANGED mate
    /\ UNCHANGED <<fp, rx, fixed, client, down, up>>

\* Vouch: what the peer is told about c.
VouchOf(c) == [t |-> "vouch", fp |-> fp[c]]

\* Faulty variant: the peer is told first.
VouchMeLate(c) ==
    \/ /\ pc[c] = "vouch_me"
       /\ down' = Sent(peer[c], VouchOf(c))
       /\ Goto(c, "vouch_peer")
       /\ UNCHANGED <<hub, fp, peer, rx, fixed, client, past, up>>
    \/ /\ pc[c] = "vouch_peer"
       /\ down' = Sent(c, VouchOf(peer[c]))
       /\ Goto(c, "run")
       /\ UNCHANGED <<hub, fp, peer, rx, fixed, client, past, up>>

\* The two vouches, mine into my own queue first.
Vouching(c) ==
    \/ /\ pc[c] = "vouch_me"
       /\ down' = Sent(c, VouchOf(peer[c]))
       /\ Goto(c, "vouch_peer")
       /\ UNCHANGED <<hub, fp, peer, rx, fixed, client, past, up>>
    \/ /\ pc[c] = "vouch_peer"
       /\ down' = Sent(peer[c], VouchOf(c))
       /\ Goto(c, "run")
       /\ UNCHANGED <<hub, fp, peer, rx, fixed, client, past, up>>

\* Inbound pump: a frame arrives and the peer is not known yet; it is looked up,
\* and without one the frame is dropped.
ResolvePeer(c) ==
    LET p == IF hub = NoTunnel THEN NoConn ELSE hub.to[Other(side[c])] IN
    /\ pc[c] = "run" /\ up[c] # <<>> /\ Head(up[c]).t # "close" /\ peer[c] = NoConn
    /\ peer' = [peer EXCEPT ![c] = p]
    /\ up' = IF p = NoConn THEN [up EXCEPT ![c] = Tail(@)] ELSE up
    /\ UNCHANGED <<hub, pc, fp, rx, fixed, client, past, down>>

\* The frame goes into the peer's channel; if that is gone the pump ends.
Forward(c) ==
    /\ pc[c] = "run" /\ up[c] # <<>> /\ Head(up[c]).t # "close" /\ peer[c] # NoConn
    /\ down' = Sent(peer[c], Head(up[c]))
    /\ up' = [up EXCEPT ![c] = Tail(@)]
    /\ IF rx[peer[c]] THEN UNCHANGED pc ELSE Goto(c, "teardown")
    /\ UNCHANGED <<hub, fp, peer, rx, fixed, client, past>>

\* The client has closed.
SeeClose(c) ==
    /\ pc[c] = "run" /\ up[c] # <<>> /\ Head(up[c]).t = "close"
    /\ up' = [up EXCEPT ![c] = <<>>]
    /\ Goto(c, "teardown")
    /\ UNCHANGED <<hub, fp, peer, rx, fixed, client, past, down>>

\* Faulty variant: the entry is removed before the peer is read from it.
TeardownBlind(c) ==
    /\ pc[c] = "teardown"
    /\ peer' = [peer EXCEPT ![c] = NoConn]
    /\ hub' = NoTunnel
    /\ Goto(c, "tell")
    /\ UNCHANGED <<fp, rx, fixed, client, past, down, up>>

\* Teardown: the entry is removed, whoever is in it by now, and the other
\* side's connection is told.
Teardown(c) ==
    /\ pc[c] = "teardown"
    /\ peer' = [peer EXCEPT ![c] = IF hub = NoTunnel THEN NoConn
                                   ELSE hub.to[Other(side[c])]]
    /\ hub' = NoTunnel
    /\ Goto(c, "tell")
    /\ UNCHANGED <<fp, rx, fixed, client, past, down, up>>
Tell(c) ==
    /\ pc[c] = "tell"
    /\ down' = IF peer[c] = NoConn THEN down ELSE Sent(peer[c], [t |-> "gone"])
    /\ Goto(c, "done")
    /\ UNCHANGED <<hub, fp, peer, rx, fixed, client, past, up>>

Ended(c) == cl[c] \in {"failed", "closed"}

\* Someone still holds a sender of the channel: the handler that is being set
\* up, the hub, or the inbound pump of the other side.
HasSender(c) ==
    \/ pc[c] \in {"new", "fp", "register", "vouch_me", "vouch_peer"}
    \/ hub # NoTunnel /\ hub.to[side[c]] = c
    \/ \E d \in Conn : peer[d] = c /\ pc[d] # "done"

\* Outbound pump: PeerGone closes the socket; a client that has gone makes the
\* next message fail; a drained channel without senders ends the loop.  The
\* receiver is dropped with what it holds.
PumpEnds(c) ==
    /\ rx[c]
    /\ IF down[c] = <<>> THEN ~HasSender(c) ELSE Head(down[c]).t = "gone" \/ Ended(c)
    /\ rx' = [rx EXCEPT ![c] = FALSE]
    /\ down' = [down EXCEPT ![c] = <<>>]
    /\ IF Ended(c) \/ down[c] = <<>> THEN UNCHANGED <<cl, up>>
       ELSE /\ cl' = [cl EXCEPT ![c] = "closed"]
            /\ up' = [up EXCEPT ![c] = Append(@, [t |-> "close"])]
    /\ UNCHANGED <<hub, pc, fp, peer, fixed, want, peerEph, sess, sent, rcvd, past>>

\* With both pumps gone the last session handle is dropped and the socket closes.
SocketDrops(c) ==
    /\ ~rx[c] /\ pc[c] = "done" /\ ~Ended(c)
    /\ cl' = [cl EXCEPT ![c] = "closed"]
    /\ UNCHANGED <<server, fixed, want, peerEph, sess, sent, rcvd, past, down, up>>

-----------------------------------------------------------------------------
(* The client *)

Says(c, m) == up' = [up EXCEPT ![c] = Append(@, m)]
Takes(c, l) ==
    /\ cl[c] = l /\ down[c] # <<>> /\ Head(down[c]).t # "gone"
    /\ down' = [down EXCEPT ![c] = Tail(@)]
\* Protocol errors end the client, which closes the connection.
Fails(c) == cl' = [cl EXCEPT ![c] = "failed"] /\ Says(c, [t |-> "close"])

\* handshake: the vouch comes first, then the ephemeral key is sent.
HearVouch(c) ==
    LET m == Head(down[c]) IN
    /\ Takes(c, "vouch")
    /\ IF m.t = "vouch"
       THEN /\ want' = [want EXCEPT ![c] = m.fp]
            /\ cl' = [cl EXCEPT ![c] = "eph"]
            /\ Says(c, [t |-> "eph", of |-> c])
       ELSE Fails(c) /\ UNCHANGED want
    /\ UNCHANGED <<server, fixed, past, peerEph, sess, sent, rcvd>>

\* sign: name, certificate and a signature over both keys.
Signed(c, k) ==
    [t |-> "hs", of |-> c, from |-> side[c], fp |-> cert[c], over |-> k]

HearKey(c) ==
    LET m == Head(down[c]) IN
    /\ Takes(c, "eph")
    /\ IF m.t = "eph"
       THEN /\ peerEph' = [peerEph EXCEPT ![c] = m.of]
            /\ cl' = [cl EXCEPT ![c] = "hs"]
            /\ Says(c, Signed(c, m.of))
       ELSE Fails(c) /\ UNCHANGED peerEph
    /\ UNCHANGED <<server, fixed, past, want, sess, sent, rcvd>>

\* Faulty variant: the certificate is not compared with the vouched one.
CompletesAnyCert(c, m) ==
    m.t = "hs" /\ m.from = Other(side[c]) /\ m.over = c

\* complete: certificate and name as vouched, and a signature over the sender's
\* key and mine.
Completes(c, m) ==
    m.t = "hs" /\ m.fp = want[c] /\ m.from = Other(side[c]) /\ m.over = c

\* The peer's handshake decides; its key, not the one received before, makes
\* the session.
HearHandshake(c) ==
    LET m == Head(down[c]) IN
    /\ Takes(c, "hs")
    /\ IF Completes(c, m)
       THEN /\ sess' = [sess EXCEPT ![c] = m.of]
            /\ cl' = [cl EXCEPT ![c] = "open"]
            /\ UNCHANGED up
       ELSE Fails(c) /\ UNCHANGED sess
    /\ UNCHANGED <<server, fixed, past, want, peerEph, sent, rcvd>>

\* seal: the counter is the nonce.
SendData(c) ==
    /\ "data" \in traffic /\ cl[c] = "open" /\ sent[c] < MaxData
    /\ Says(c, [t |-> "data", of |-> c, key |-> {c, sess[c]}, n |-> sent[c]])
    /\ sent' = [sent EXCEPT ![c] = @ + 1]
    /\ UNCHANGED <<server, fixed, past, cl, want, peerEph, sess, rcvd, down>>

\* open: the session's key of the peer's direction and the next counter; text
\* messages are skipped.
Opens(c, m) ==
    m.t = "data" /\ m.of = sess[c] /\ m.key = {c, sess[c]} /\ m.n = rcvd[c]

HearData(c) ==
    LET m == Head(down[c]) IN
    /\ Takes(c, "open")
    /\ IF m.t = "vouch" THEN UNCHANGED <<cl, up, rcvd>>
       ELSE IF Opens(c, m)
       THEN rcvd' = [rcvd EXCEPT ![c] = @ + 1] /\ UNCHANGED <<cl, up>>
       ELSE Fails(c) /\ UNCHANGED rcvd
    /\ UNCHANGED <<server, fixed, past, want, peerEph, sess, sent>>

\* The user stops the command, or the connection breaks.
Close(c) ==
    /\ "close" \in traffic /\ cl[c] \in {"vouch", "eph", "hs", "open"}
    /\ cl' = [cl EXCEPT ![c] = "closed"]
    /\ Says(c, [t |-> "close"])
    /\ UNCHANGED <<server, fixed, past, want, peerEph, sess, sent, rcvd, down>>

-----------------------------------------------------------------------------
Handler(c) ==
    \/ LookupFingerprint(c) \/ Register(c) \/ Vouching(c)
    \/ ResolvePeer(c) \/ Forward(c) \/ SeeClose(c) \/ Teardown(c) \/ Tell(c)
Pump(c) == PumpEnds(c) \/ SocketDrops(c)
Listen(c) == HearVouch(c) \/ HearKey(c) \/ HearHandshake(c) \/ HearData(c)

Next ==
    \/ Offer \/ Sweep
    \/ \E x \in Side : Rotate(x)
    \/ \E c \in Conn : Connect(c) \/ Handler(c) \/ Pump(c) \/ Listen(c)
                       \/ SendData(c) \/ Close(c)

\* The tasks of the server and of a running client are scheduled.
Fairness == \A c \in Conn : WF_vars(Handler(c)) /\ WF_vars(Pump(c)) /\ WF_vars(Listen(c))

Spec == Init /\ [][Next]_vars /\ Fairness

-----------------------------------------------------------------------------
(* Properties *)

\* Each side attached once, with a fingerprint found, and has its first
\* certificate still.
Undisturbed ==
    /\ \A c, d \in attached : side[c] = side[d] => c = d
    /\ \A c \in attached : fp[c] # 0
    /\ \A x \in Side : gen[x] = 1

\* Whoever has a session has it with a connection of the other side that holds
\* the vouched certificate, and that connection, if it has a session, has it
\* with this one, although frames of an earlier and a later attachment mix.
Agreement ==
    TypeOK /\ \A c \in Conn : LET p == sess[c] IN
        p # NoConn =>
            /\ side[p] # side[c] /\ cert[p] = want[c]
            /\ sess[p] \in {c, NoConn}
            /\ rcvd[c] <= sent[p]

\* As long as each side attaches once, no certificate is replaced and the lookup
\* of its fingerprint succeeds, no client meets a protocol error: the vouch comes
\* before the peer's key and no frame is lost, whichever side attaches first.
\* A lookup that fails is vouched for as the empty fingerprint, and the peer
\* then fails on the handshake.
NoProtocolError ==
    Undisturbed => \A c \in Conn : cl[c] # "failed"

\* When one of a pair ends, the other is told, unless a side attached again.
\* The server sees the end of a connection, by a close or by a failing read.
PeerLearns ==
    \A c \in Conn :
        mate[c] # NoConn /\ Ended(mate[c])
            ~> Ended(c) \/ \E d, e \in attached : d # e /\ side[d] = side[e]
=============================================================================
