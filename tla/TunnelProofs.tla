---------------------------- MODULE TunnelProofs ----------------------------
(***************************************************************************)
(* Proofs about Tunnel, for any number of attachments, frames and          *)
(* certificates: two clients agree on their session (Agreement), and a     *)
(* pair left alone meets no protocol error (NoProtocolError).              *)
(***************************************************************************)
EXTENDS Tunnel, TLAPS

-----------------------------------------------------------------------------
(* Queues *)

\* The first element of a queue and the rest of it.
LEMMA TailFacts ==
    ASSUME NEW S, NEW q \in Seq(S), q # <<>>
    PROVE  /\ Tail(q) \in Seq(S) /\ Len(q) \in Nat /\ Len(q) > 0
           /\ Len(Tail(q)) = Len(q) - 1
           /\ \A i \in 1..(Len(q) - 1) : Tail(q)[i] = q[i + 1]
           /\ Head(q) = q[1] /\ q[1] \in S
  OBVIOUS

\* A queue with one more element at its end.
LEMMA AppendFacts ==
    ASSUME NEW S, NEW q \in Seq(S), NEW e \in S
    PROVE  /\ Append(q, e) \in Seq(S) /\ Len(q) \in Nat
           /\ Len(Append(q, e)) = Len(q) + 1
           /\ \A i \in 1..Len(q) : Append(q, e)[i] = q[i]
           /\ Append(q, e)[Len(q) + 1] = e
  OBVIOUS

-----------------------------------------------------------------------------
(* The tunnel: messages and queues *)

\* What a message is made of.
LEMMA MsgShape ==
    ASSUME NEW m \in Msg
    PROVE  /\ m.t \in {"vouch", "eph", "hs", "data", "gone", "close"}
           /\ m.t = "vouch" => m.fp \in Gens
           /\ m.t \in {"eph", "hs", "data"} => m.of \in Conn
           /\ m.t = "hs" => m.from \in Side /\ m.fp \in Gens /\ m.over \in Conn
           /\ m.t = "data" => m.key \in SUBSET Conn /\ m.n \in Nat
  BY DEF Msg

\* The messages that are sent.
LEMMA MsgMade ==
    /\ \A f \in Gens : [t |-> "vouch", fp |-> f] \in Msg
    /\ \A c \in Conn : [t |-> "eph", of |-> c] \in Msg
    /\ \A c \in Conn, x \in Side, f \in Gens, k \in Conn :
          [t |-> "hs", of |-> c, from |-> x, fp |-> f, over |-> k] \in Msg
    /\ \A c \in Conn, k \in SUBSET Conn, n \in Nat :
          [t |-> "data", of |-> c, key |-> k, n |-> n] \in Msg
    /\ [t |-> "gone"] \in Msg /\ [t |-> "close"] \in Msg
<1>1. \A f \in Gens : [t |-> "vouch", fp |-> f] \in Msg
  BY DEF Msg
<1>2. \A c \in Conn : [t |-> "eph", of |-> c] \in Msg
  BY DEF Msg
<1>3. \A c \in Conn, x \in Side, f \in Gens, k \in Conn :
          [t |-> "hs", of |-> c, from |-> x, fp |-> f, over |-> k] \in Msg
  BY DEF Msg
<1>4. \A c \in Conn, k \in SUBSET Conn, n \in Nat :
          [t |-> "data", of |-> c, key |-> k, n |-> n] \in Msg
  BY DEF Msg
<1>5. [t |-> "gone"] \in Msg /\ [t |-> "close"] \in Msg
  BY DEF Msg
<1> QED BY <1>1, <1>2, <1>3, <1>4, <1>5

\* There are two sides, each the other's other.
LEMMA SideFacts ==
    /\ "offerer" \in Side /\ "answerer" \in Side
    /\ \A x \in Side : Other(x) \in Side /\ Other(x) # x /\ Other(Other(x)) = x
    /\ \A x, y \in Side : y # x => y = Other(x)
  BY DEF Side, Other

\* r is q without its first message.
Popped(q, r) ==
    /\ Len(q) \in Nat /\ Len(q) # 0 /\ Len(r) \in Nat /\ Len(r) = Len(q) - 1
    /\ \A i \in 1..Len(r) : i + 1 \in 1..Len(q) /\ r[i] = q[i + 1]
    /\ \A i \in 1..Len(q) : i = 1 \/ (i - 1 \in 1..Len(r) /\ r[i - 1] = q[i])

\* r is q with one more message at its end.
Pushed(q, r, m) ==
    /\ Len(q) \in Nat /\ Len(r) \in Nat /\ Len(r) = Len(q) + 1 /\ r[Len(r)] = m
    /\ \A i \in 1..Len(q) : i \in 1..Len(r) /\ r[i] = q[i]
    /\ \A i \in 1..Len(r) : i = Len(r) \/ (i \in 1..Len(q) /\ r[i] = q[i])

Queues == [Conn -> Seq(Msg)]

\* A message is taken from a queue.
LEMMA TailPopped ==
    ASSUME NEW q \in Seq(Msg), q # <<>>
    PROVE  /\ Tail(q) \in Seq(Msg) /\ Popped(q, Tail(q))
           /\ Head(q) = q[1] /\ q[1] \in Msg /\ 1 \in 1..Len(q)
<1>1. /\ Tail(q) \in Seq(Msg) /\ Len(q) \in Nat /\ Len(q) > 0
      /\ Len(Tail(q)) = Len(q) - 1
      /\ \A i \in 1..(Len(q) - 1) : Tail(q)[i] = q[i + 1]
      /\ Head(q) = q[1] /\ q[1] \in Msg
  BY TailFacts
<1>2. Len(Tail(q)) \in Nat
  BY <1>1
<1>3. ASSUME NEW i \in 1..Len(Tail(q))
      PROVE  i + 1 \in 1..Len(q) /\ Tail(q)[i] = q[i + 1]
  BY <1>1
<1>4. ASSUME NEW i \in 1..Len(q), i # 1
      PROVE  i - 1 \in 1..Len(Tail(q)) /\ Tail(q)[i - 1] = q[i]
  <2>1. i - 1 \in 1..Len(Tail(q)) /\ (i - 1) + 1 = i
    BY <1>1, <1>4
  <2> QED BY <2>1, <1>3
<1> QED BY <1>1, <1>2, <1>3, <1>4 DEF Popped

\* A message is put at the end of a queue.
LEMMA AppendPushed ==
    ASSUME NEW q \in Seq(Msg), NEW m \in Msg
    PROVE  Append(q, m) \in Seq(Msg) /\ Pushed(q, Append(q, m), m)
<1>1. /\ Append(q, m) \in Seq(Msg) /\ Len(q) \in Nat
      /\ Len(Append(q, m)) = Len(q) + 1
      /\ \A i \in 1..Len(q) : Append(q, m)[i] = q[i]
      /\ Append(q, m)[Len(q) + 1] = m
  BY AppendFacts
<1> QED BY <1>1 DEF Pushed

-----------------------------------------------------------------------------
(* The tunnel: the inductive invariant *)

Early == {"new", "fp", "register"}
Vouches == {"vouch_me", "vouch_peer"}
Leaving == {"teardown", "tell", "done"}
Handled == Early \cup Vouches \cup Leaving \cup {"run"}
Phases == {"none", "vouch", "eph", "hs", "open", "failed", "closed"}
Past(c) == cl[c] \in {"open", "failed", "closed"}

TunnelTypes ==
    /\ hub \in Entry \cup {NoTunnel} /\ offered \in BOOLEAN /\ traffic \in Traffics
    /\ gen \in [Side -> Gens] /\ side \in [Conn -> Side] /\ cert \in [Conn -> Gens]
    /\ pc \in [Conn -> Handled]
    /\ fp \in [Conn -> Gens] /\ peer \in [Conn -> Conns] /\ rx \in [Conn -> BOOLEAN]
    /\ cl \in [Conn -> Phases]
    /\ want \in [Conn -> Gens] /\ peerEph \in [Conn -> Conns] /\ sess \in [Conn -> Conns]
    /\ sent \in [Conn -> 0..MaxData] /\ rcvd \in [Conn -> 0..MaxData]
    /\ down \in Queues /\ up \in Queues
    /\ attached \in SUBSET Conn /\ mate \in [Conn -> Conns]

\* The types the proofs use give the invariant the run checks.
LEMMA TypesImplyTypeOK == ASSUME TunnelTypes PROVE TypeOK
<1>1. \A c \in Conn : \A i \in DOMAIN down[c] : down[c][i] \in Msg
  BY DEF TunnelTypes, Queues
<1>2. \A c \in Conn : \A i \in DOMAIN up[c] : up[c][i] \in Msg
  BY DEF TunnelTypes, Queues
<1> QED BY <1>1, <1>2 DEF TunnelTypes, TypeOK, Handled, Early, Vouches, Leaving, Phases

\* The types hold at first.
LEMMA InitTunnelTypes == ASSUME Init PROVE TunnelTypes
<1>1. 0 \in Gens /\ 1 \in Gens /\ 0 \in 0..MaxData /\ NoConn \in Conns
  BY TunnelAssumption DEF Gens, Conns
<1>2. <<>> \in Seq(Msg)
  OBVIOUS
<1>3. down \in Queues /\ up \in Queues
  BY <1>2 DEF Init, Queues
<1>4. /\ pc \in [Conn -> Handled] /\ cl \in [Conn -> Phases] /\ side \in [Conn -> Side]
      /\ rx \in [Conn -> BOOLEAN]
  BY SideFacts DEF Init, Handled, Early, Phases
<1>5. /\ gen \in [Side -> Gens] /\ cert \in [Conn -> Gens] /\ fp \in [Conn -> Gens]
      /\ want \in [Conn -> Gens] /\ sent \in [Conn -> 0..MaxData]
      /\ rcvd \in [Conn -> 0..MaxData]
  BY <1>1 DEF Init
<1>6. /\ peer \in [Conn -> Conns] /\ peerEph \in [Conn -> Conns] /\ sess \in [Conn -> Conns]
      /\ mate \in [Conn -> Conns]
  BY <1>1 DEF Init
<1> QED BY <1>3, <1>4, <1>5, <1>6 DEF Init, TunnelTypes

Holds(q, t) == \E i \in 1..Len(q) : q[i].t = t
OnlyCloses(q) == \A i \in 1..Len(q) : q[i].t = "close"

\* What the hub and the handlers know: whom an entry or a handler points to has
\* attached, and on the other side; who has not attached after all found the
\* tunnel gone.
HubInv ==
    /\ \A c \in Conn : pc[c] # "new" => offered
    /\ hub # NoTunnel => offered
    /\ hub # NoTunnel => \A x \in Side : hub.to[x] # NoConn =>
          side[hub.to[x]] = x /\ hub.to[x] \in attached
    /\ \A c \in Conn : peer[c] # NoConn =>
          peer[c] \in attached /\ c \in attached /\ side[peer[c]] # side[c]
    /\ \A c \in attached : pc[c] \notin Early
    /\ \A c \in Conn : pc[c] \notin Early /\ c \notin attached => hub = NoTunnel
    /\ \A c \in Conn : pc[c] \in Vouches => peer[c] # NoConn

\* Once both sides have attached the entry holds both, or is gone for good.
PairedInv ==
    hub # NoTunnel => \A c \in attached : hub.to[side[c]] # NoConn

\* Nothing is sent to or by a connection nobody of the other side can reach.
Alone(c) == c \notin attached \/ \A d \in attached : side[d] = side[c]
AloneInv == \A c \in Conn : Alone(c) =>
    /\ down[c] = <<>> /\ OnlyCloses(up[c]) /\ cl[c] \in {"none", "vouch", "closed"}

\* How far a client is and what it has by then.
ClientOf(c) ==
    /\ pc[c] = "new" <=> cl[c] = "none"
    /\ cl[c] \in {"none", "vouch", "eph"} => peerEph[c] = NoConn
    /\ peerEph[c] # NoConn => peerEph[c] \in attached /\ side[peerEph[c]] # side[c]
    /\ cl[c] = "open" => sess[c] # NoConn
    /\ sess[c] = NoConn => rcvd[c] = 0 /\ sent[c] = 0
    /\ sess[c] # NoConn => Past(c)
    /\ ~rx[c] => down[c] = <<>>
    /\ Holds(up[c], "close") => Ended(c)
ClientInv == \A c \in Conn : ClientOf(c)

\* What a message says is so: a handshake names its sender's certificate and
\* the key the sender received, a data frame was sealed by its sender's session.
Honest(m) ==
    /\ m.t = "hs" => /\ m.from = side[m.of] /\ m.fp = cert[m.of]
                     /\ m.over = peerEph[m.of]
    /\ m.t = "data" => /\ m.n < sent[m.of] /\ sess[m.of] # NoConn
                       /\ m.key = {m.of, sess[m.of]}
Inbound(c, m) ==
    /\ Honest(m) /\ m.t # "close"
    /\ m.t \in {"eph", "hs", "data"} => m.of \in attached /\ side[m.of] # side[c]
Outbound(c, m) ==
    /\ Honest(m) /\ m.t \in {"eph", "hs", "data", "close"}
    /\ m.t # "close" => m.of = c
FrameInv == \A c \in Conn :
    /\ \A i \in 1..Len(down[c]) : Inbound(c, down[c][i])
    /\ \A i \in 1..Len(up[c]) : Outbound(c, up[c][i])

\* The ephemeral key of c has left it, and will come before whatever c sends
\* next: it is with the peer or on the way there, the peer is past it, or
\* nothing of c is forwarded any more.
KeyAt(q, c) == \E i \in 1..Len(q) : q[i].t = "eph" /\ q[i].of = c
Got(p, c) == ~rx[p] \/ Past(p) \/ peerEph[p] = c \/ KeyAt(down[p], c)
KeyOut(c) ==
    \/ pc[c] \in Leaving
    \/ pc[c] = "run" /\ peer[c] = NoConn /\ hub = NoTunnel /\ offered
    \/ pc[c] = "run" /\ peer[c] # NoConn /\ Got(peer[c], c)

\* A handshake never overtakes the key of the same sender.
KeyFirst(q, i) == \E j \in 1..(i - 1) : q[j].t = "eph" /\ q[j].of = q[i].of
KeySent(c) == cl[c] = "eph" => KeyAt(up[c], c) \/ KeyOut(c)
KeyLeads(c) ==
    \A i \in 1..Len(up[c]) : up[c][i].t = "hs" => KeyOut(c) \/ KeyFirst(up[c], i)
KeyArrives(c) ==
    ~Past(c) => \A i \in 1..Len(down[c]) : down[c][i].t = "hs" =>
                   peerEph[c] = down[c][i].of \/ KeyFirst(down[c], i)
KeyInv == \A c \in Conn : KeySent(c) /\ KeyLeads(c) /\ KeyArrives(c)

\* A session is with the connection whose key was received, and that one
\* received this one's.
SessInv == \A c \in Conn : sess[c] # NoConn =>
    /\ peerEph[c] = sess[c] /\ peerEph[sess[c]] = c
    /\ cert[sess[c]] = want[c] /\ rcvd[c] <= sent[sess[c]]

TunnelIInv == TunnelTypes /\ HubInv /\ PairedInv /\ AloneInv /\ ClientInv /\ FrameInv /\ KeyInv
              /\ SessInv

-----------------------------------------------------------------------------
(* The tunnel: what the steps do to the queues *)

\* A message for a connection, lost when its receiver is gone.
LEMMA SentQueue ==
    ASSUME TunnelTypes, NEW c \in Conn, NEW m \in Msg
    PROVE  /\ Sent(c, m) \in Queues
           /\ \A d \in Conn : d # c => Sent(c, m)[d] = down[d]
           /\ rx[c] => Pushed(down[c], Sent(c, m)[c], m)
           /\ ~rx[c] => Sent(c, m)[c] = down[c]
<1>1. down \in Queues /\ down[c] \in Seq(Msg)
  BY DEF TunnelTypes, Queues
<1>2. Append(down[c], m) \in Seq(Msg) /\ Pushed(down[c], Append(down[c], m), m)
  BY <1>1, AppendPushed
<1> QED BY <1>1, <1>2 DEF Sent, Queues

\* A client takes a message.
LEMMA TakesQueue ==
    ASSUME TunnelTypes, NEW c \in Conn, NEW l, Takes(c, l)
    PROVE  /\ down' \in Queues /\ Popped(down[c], down'[c])
           /\ \A d \in Conn : d # c => down'[d] = down[d]
           /\ Head(down[c]) = down[c][1] /\ down[c][1] \in Msg /\ 1 \in 1..Len(down[c])
           /\ down[c][1].t # "gone" /\ cl[c] = l /\ down[c] # <<>>
<1>1. down \in Queues /\ down[c] \in Seq(Msg)
  BY DEF TunnelTypes, Queues
<1>2. down' = [down EXCEPT ![c] = Tail(@)] /\ down[c] # <<>> /\ cl[c] = l
  BY DEF Takes
<1>3. Head(down[c]).t # "gone"
  BY DEF Takes
<1>4. /\ Tail(down[c]) \in Seq(Msg) /\ Popped(down[c], Tail(down[c]))
      /\ Head(down[c]) = down[c][1] /\ down[c][1] \in Msg /\ 1 \in 1..Len(down[c])
  BY <1>1, <1>2, TailPopped
<1> QED BY <1>1, <1>2, <1>3, <1>4 DEF Queues

\* A client sends a message.
LEMMA SaysQueue ==
    ASSUME TunnelTypes, NEW c \in Conn, NEW m \in Msg, Says(c, m)
    PROVE  /\ up' \in Queues /\ Pushed(up[c], up'[c], m)
           /\ \A d \in Conn : d # c => up'[d] = up[d]
<1>1. up \in Queues /\ up[c] \in Seq(Msg)
  BY DEF TunnelTypes, Queues
<1>2. Append(up[c], m) \in Seq(Msg) /\ Pushed(up[c], Append(up[c], m), m)
  BY <1>1, AppendPushed
<1> QED BY <1>1, <1>2 DEF Says, Queues

\* The inbound pump takes a frame.
LEMMA PumpedQueue ==
    ASSUME TunnelTypes, NEW c \in Conn, up[c] # <<>>, up' = [up EXCEPT ![c] = Tail(@)]
    PROVE  /\ up' \in Queues /\ Popped(up[c], up'[c])
           /\ \A d \in Conn : d # c => up'[d] = up[d]
           /\ Head(up[c]) = up[c][1] /\ up[c][1] \in Msg /\ 1 \in 1..Len(up[c])
<1>1. up \in Queues /\ up[c] \in Seq(Msg)
  BY DEF TunnelTypes, Queues
<1>2. /\ Tail(up[c]) \in Seq(Msg) /\ Popped(up[c], Tail(up[c]))
      /\ Head(up[c]) = up[c][1] /\ up[c][1] \in Msg /\ 1 \in 1..Len(up[c])
  BY <1>1, TailPopped
<1> QED BY <1>1, <1>2 DEF Queues

\* A client that fails hangs up and does nothing else.
LEMMA FailsFacts ==
    ASSUME TunnelTypes, NEW c \in Conn, Fails(c)
    PROVE  /\ up' \in Queues /\ Pushed(up[c], up'[c], [t |-> "close"])
           /\ \A d \in Conn : d # c => up'[d] = up[d]
           /\ cl' = [cl EXCEPT ![c] = "failed"]
  BY SaysQueue, MsgMade DEF Fails

\* The effects of the steps, queue by queue.
PopDown(c) ==
    /\ down' \in Queues /\ Popped(down[c], down'[c])
    /\ \A d \in Conn : d # c => down'[d] = down[d]
    /\ down[c][1] \in Msg /\ 1 \in 1..Len(down[c]) /\ down[c][1].t # "gone"
PushUp(c, m) ==
    /\ up' \in Queues /\ Pushed(up[c], up'[c], m) /\ m \in Msg
    /\ \A d \in Conn : d # c => up'[d] = up[d]
PopUp(c) ==
    /\ up' \in Queues /\ Popped(up[c], up'[c])
    /\ \A d \in Conn : d # c => up'[d] = up[d]
    /\ up[c][1] \in Msg /\ 1 \in 1..Len(up[c])
PushDown(c, m) ==
    /\ down' \in Queues /\ m \in Msg
    /\ \A d \in Conn : d # c => down'[d] = down[d]
    /\ rx[c] => Pushed(down[c], down'[c], m)
    /\ ~rx[c] => down'[c] = down[c]

ClientSame == UNCHANGED <<cl, want, peerEph, sess, sent, rcvd>>
TableSame == UNCHANGED <<traffic, offered, gen, side, cert, attached, mate>>
ServerSame == TableSame /\ UNCHANGED <<hub, pc, fp, peer, rx>>

\* The client rejects a message and closes.
FailStep(c) ==
    /\ PopDown(c) /\ PushUp(c, [t |-> "close"]) /\ ServerSame
    /\ cl[c] \in {"vouch", "eph", "hs", "open"} /\ cl' = [cl EXCEPT ![c] = "failed"]
    /\ UNCHANGED <<want, peerEph, sess, sent, rcvd>>
    /\ cl[c] = "vouch" => down[c][1].t # "vouch"
    /\ cl[c] = "eph" => down[c][1].t # "eph"
    /\ cl[c] = "hs" => ~Completes(c, down[c][1])
    /\ cl[c] = "open" => down[c][1].t # "vouch" /\ ~Opens(c, down[c][1])
TakeVouch(c) ==
    /\ PopDown(c) /\ PushUp(c, [t |-> "eph", of |-> c]) /\ ServerSame
    /\ cl[c] = "vouch" /\ cl' = [cl EXCEPT ![c] = "eph"] /\ down[c][1].t = "vouch"
    /\ want' = [want EXCEPT ![c] = down[c][1].fp]
    /\ UNCHANGED <<peerEph, sess, sent, rcvd>>
TakeKey(c) ==
    /\ PopDown(c) /\ PushUp(c, Signed(c, down[c][1].of)) /\ ServerSame
    /\ cl[c] = "eph" /\ cl' = [cl EXCEPT ![c] = "hs"] /\ down[c][1].t = "eph"
    /\ peerEph' = [peerEph EXCEPT ![c] = down[c][1].of]
    /\ UNCHANGED <<want, sess, sent, rcvd>>
TakeHandshake(c) ==
    /\ PopDown(c) /\ up' = up /\ ServerSame
    /\ cl[c] = "hs" /\ cl' = [cl EXCEPT ![c] = "open"] /\ Completes(c, down[c][1])
    /\ sess' = [sess EXCEPT ![c] = down[c][1].of]
    /\ UNCHANGED <<want, peerEph, sent, rcvd>>
TakeData(c) ==
    /\ PopDown(c) /\ up' = up /\ ServerSame
    /\ cl[c] = "open" /\ cl' = cl /\ Opens(c, down[c][1])
    /\ rcvd' = [rcvd EXCEPT ![c] = @ + 1]
    /\ UNCHANGED <<want, peerEph, sess, sent>>
SkipVouch(c) ==
    /\ PopDown(c) /\ up' = up /\ ServerSame /\ ClientSame
    /\ cl[c] = "open" /\ down[c][1].t = "vouch"
DataStep(c) ==
    /\ down' = down /\ ServerSame /\ cl[c] = "open" /\ sent[c] < MaxData
    /\ PushUp(c, [t |-> "data", of |-> c, key |-> {c, sess[c]}, n |-> sent[c]])
    /\ sent' = [sent EXCEPT ![c] = @ + 1]
    /\ UNCHANGED <<cl, want, peerEph, sess, rcvd>>
CloseStep(c) ==
    /\ down' = down /\ ServerSame /\ PushUp(c, [t |-> "close"])
    /\ cl[c] \in {"vouch", "eph", "hs", "open"} /\ cl' = [cl EXCEPT ![c] = "closed"]
    /\ UNCHANGED <<want, peerEph, sess, sent, rcvd>>

\* A client that waits for the vouch takes it or fails.
LEMMA HearVouchCases ==
    ASSUME TunnelTypes, NEW c \in Conn, HearVouch(c)
    PROVE  FailStep(c) \/ TakeVouch(c)
<1>1. PopDown(c) /\ Head(down[c]) = down[c][1] /\ cl[c] = "vouch"
  BY TakesQueue DEF HearVouch, PopDown
<1>2. ServerSame /\ UNCHANGED <<peerEph, sess, sent, rcvd>>
  BY DEF HearVouch, ServerSame, TableSame, server, fixed, past
<1>3. CASE down[c][1].t = "vouch"
  <2>1. /\ want' = [want EXCEPT ![c] = down[c][1].fp] /\ cl' = [cl EXCEPT ![c] = "eph"]
        /\ Says(c, [t |-> "eph", of |-> c])
    BY <1>1, <1>3 DEF HearVouch
  <2>2. [t |-> "eph", of |-> c] \in Msg
    BY MsgMade
  <2>3. PushUp(c, [t |-> "eph", of |-> c])
    BY <2>1, <2>2, SaysQueue DEF PushUp
  <2> QED BY <1>1, <1>2, <1>3, <2>1, <2>3 DEF TakeVouch
<1>4. CASE down[c][1].t # "vouch"
  <2>1. Fails(c) /\ want' = want
    BY <1>1, <1>4 DEF HearVouch
  <2>2. PushUp(c, [t |-> "close"]) /\ cl' = [cl EXCEPT ![c] = "failed"]
    BY <2>1, FailsFacts, MsgMade DEF PushUp
  <2> QED BY <1>1, <1>2, <1>4, <2>1, <2>2 DEF FailStep
<1> QED BY <1>3, <1>4

\* A client that waits for the peer's key takes it or fails.
LEMMA HearKeyCases ==
    ASSUME TunnelTypes, NEW c \in Conn, HearKey(c)
    PROVE  FailStep(c) \/ TakeKey(c)
<1>1. PopDown(c) /\ Head(down[c]) = down[c][1] /\ cl[c] = "eph"
  BY TakesQueue DEF HearKey, PopDown
<1>2. ServerSame /\ UNCHANGED <<want, sess, sent, rcvd>>
  BY DEF HearKey, ServerSame, TableSame, server, fixed, past
<1>3. CASE down[c][1].t = "eph"
  <2>1. /\ peerEph' = [peerEph EXCEPT ![c] = down[c][1].of] /\ cl' = [cl EXCEPT ![c] = "hs"]
        /\ Says(c, Signed(c, down[c][1].of))
    BY <1>1, <1>3 DEF HearKey
  <2>2. Signed(c, down[c][1].of) \in Msg
    <3>1. down[c][1].of \in Conn /\ side[c] \in Side /\ cert[c] \in Gens
      BY <1>1, <1>3, MsgShape DEF PopDown, TunnelTypes
    <3> QED BY <3>1, MsgMade DEF Signed
  <2>3. PushUp(c, Signed(c, down[c][1].of))
    BY <2>1, <2>2, SaysQueue DEF PushUp
  <2> QED BY <1>1, <1>2, <1>3, <2>1, <2>3 DEF TakeKey
<1>4. CASE down[c][1].t # "eph"
  <2>1. Fails(c) /\ peerEph' = peerEph
    BY <1>1, <1>4 DEF HearKey
  <2>2. PushUp(c, [t |-> "close"]) /\ cl' = [cl EXCEPT ![c] = "failed"]
    BY <2>1, FailsFacts, MsgMade DEF PushUp
  <2> QED BY <1>1, <1>2, <1>4, <2>1, <2>2 DEF FailStep
<1> QED BY <1>3, <1>4

\* A client that waits for the handshake takes it or fails.
LEMMA HearHandshakeCases ==
    ASSUME TunnelTypes, NEW c \in Conn, HearHandshake(c)
    PROVE  FailStep(c) \/ TakeHandshake(c)
<1>1. PopDown(c) /\ Head(down[c]) = down[c][1] /\ cl[c] = "hs"
  BY TakesQueue DEF HearHandshake, PopDown
<1>2. ServerSame /\ UNCHANGED <<want, peerEph, sent, rcvd>>
  BY DEF HearHandshake, ServerSame, TableSame, server, fixed, past
<1>3. CASE Completes(c, down[c][1])
  <2>1. /\ sess' = [sess EXCEPT ![c] = down[c][1].of] /\ cl' = [cl EXCEPT ![c] = "open"]
        /\ up' = up
    BY <1>1, <1>3 DEF HearHandshake
  <2> QED BY <1>1, <1>2, <1>3, <2>1 DEF TakeHandshake
<1>4. CASE ~Completes(c, down[c][1])
  <2>1. Fails(c) /\ sess' = sess
    BY <1>1, <1>4 DEF HearHandshake
  <2>2. PushUp(c, [t |-> "close"]) /\ cl' = [cl EXCEPT ![c] = "failed"]
    BY <2>1, FailsFacts, MsgMade DEF PushUp
  <2> QED BY <1>1, <1>2, <1>4, <2>1, <2>2 DEF FailStep
<1> QED BY <1>3, <1>4

\* An open client takes the data, skips a late vouch, or fails.
LEMMA HearDataCases ==
    ASSUME TunnelTypes, NEW c \in Conn, HearData(c)
    PROVE  FailStep(c) \/ TakeData(c) \/ SkipVouch(c)
<1>1. PopDown(c) /\ Head(down[c]) = down[c][1] /\ cl[c] = "open"
  BY TakesQueue DEF HearData, PopDown
<1>2. ServerSame /\ UNCHANGED <<want, peerEph, sess, sent>>
  BY DEF HearData, ServerSame, TableSame, server, fixed, past
<1>3. CASE down[c][1].t = "vouch"
  <2>1. cl' = cl /\ up' = up /\ rcvd' = rcvd
    BY <1>1, <1>3 DEF HearData
  <2> QED BY <1>1, <1>2, <1>3, <2>1 DEF SkipVouch, ClientSame
<1>4. CASE down[c][1].t # "vouch" /\ Opens(c, down[c][1])
  <2>1. rcvd' = [rcvd EXCEPT ![c] = @ + 1] /\ cl' = cl /\ up' = up
    BY <1>1, <1>4 DEF HearData
  <2> QED BY <1>1, <1>2, <1>4, <2>1 DEF TakeData
<1>5. CASE down[c][1].t # "vouch" /\ ~Opens(c, down[c][1])
  <2>1. Fails(c) /\ rcvd' = rcvd
    BY <1>1, <1>5 DEF HearData
  <2>2. PushUp(c, [t |-> "close"]) /\ cl' = [cl EXCEPT ![c] = "failed"]
    BY <2>1, FailsFacts, MsgMade DEF PushUp
  <2> QED BY <1>1, <1>2, <1>5, <2>1, <2>2 DEF FailStep
<1> QED BY <1>3, <1>4, <1>5

\* An open client that sends puts one frame under its session key.
LEMMA SendDataCase ==
    ASSUME TunnelTypes, ClientInv, NEW c \in Conn, SendData(c)
    PROVE  DataStep(c)
<1>1. cl[c] = "open" /\ sent[c] < MaxData
  BY DEF SendData
<1>2. sess[c] \in Conn /\ sent[c] \in Nat
  BY <1>1 DEF ClientInv, ClientOf, TunnelTypes, Conns
<1>3. [t |-> "data", of |-> c, key |-> {c, sess[c]}, n |-> sent[c]] \in Msg
  BY <1>2, MsgMade
<1>4. PushUp(c, [t |-> "data", of |-> c, key |-> {c, sess[c]}, n |-> sent[c]])
  <2>1. Says(c, [t |-> "data", of |-> c, key |-> {c, sess[c]}, n |-> sent[c]])
    BY DEF SendData
  <2> QED BY <1>3, <2>1, SaysQueue DEF PushUp
<1>5. /\ ServerSame /\ down' = down /\ sent' = [sent EXCEPT ![c] = @ + 1]
      /\ UNCHANGED <<cl, want, peerEph, sess, rcvd>>
  BY DEF SendData, ServerSame, TableSame, server, fixed, past
<1> QED BY <1>1, <1>4, <1>5 DEF DataStep

\* A client that closes hangs up.
LEMMA CloseCase ==
    ASSUME TunnelTypes, NEW c \in Conn, Close(c)
    PROVE  CloseStep(c)
<1>1. PushUp(c, [t |-> "close"])
  BY SaysQueue, MsgMade DEF PushUp, Close
<1> QED BY <1>1 DEF Close, CloseStep, ServerSame, TableSame, server, fixed, past

PeerInHub(c) == hub.to[Other(side[c])]
QueuesSame == down' = down /\ up' = up

RegisterStep(c) ==
    /\ pc[c] = "register" /\ hub \in Entry /\ hub # NoTunnel /\ hub' \in Entry
    /\ hub'.to = [hub.to EXCEPT ![side[c]] = c] /\ hub'.fp = [hub.fp EXCEPT ![side[c]] = fp[c]]
    /\ attached' = attached \cup {c} /\ peer' = [peer EXCEPT ![c] = PeerInHub(c)]
    /\ PeerInHub(c) \in Conns /\ mate' \in [Conn -> Conns]
    /\ pc' = [pc EXCEPT ![c] = IF PeerInHub(c) = NoConn THEN "run" ELSE "vouch_me"]
    /\ ClientSame /\ QueuesSame /\ UNCHANGED <<fp, rx, traffic, offered, gen, side, cert>>
TooLateStep(c) ==
    /\ pc[c] = "register" /\ hub = NoTunnel /\ peer' = [peer EXCEPT ![c] = NoConn]
    /\ pc' = [pc EXCEPT ![c] = "run"]
    /\ ClientSame /\ QueuesSame /\ TableSame /\ UNCHANGED <<hub, fp, rx>>
VouchMeStep(c) ==
    /\ pc[c] = "vouch_me" /\ pc' = [pc EXCEPT ![c] = "vouch_peer"]
    /\ peer[c] \in Conn /\ peer[c] # NoConn /\ PushDown(c, VouchOf(peer[c]))
    /\ ClientSame /\ up' = up /\ TableSame /\ UNCHANGED <<hub, fp, peer, rx>>
VouchPeerStep(c) ==
    /\ pc[c] = "vouch_peer" /\ pc' = [pc EXCEPT ![c] = "run"]
    /\ peer[c] \in Conn /\ peer[c] # NoConn /\ PushDown(peer[c], VouchOf(c))
    /\ ClientSame /\ up' = up /\ TableSame /\ UNCHANGED <<hub, fp, peer, rx>>
DropStep(c) ==
    /\ pc[c] = "run" /\ peer[c] = NoConn /\ PopUp(c) /\ up[c][1].t # "close"
    /\ hub = NoTunnel \/ PeerInHub(c) = NoConn
    /\ ClientSame /\ down' = down /\ ServerSame
FindStep(c) ==
    /\ pc[c] = "run" /\ peer[c] = NoConn /\ hub # NoTunnel /\ PeerInHub(c) # NoConn
    /\ PeerInHub(c) \in Conn /\ peer' = [peer EXCEPT ![c] = PeerInHub(c)]
    /\ 1 \in 1..Len(up[c]) /\ up[c][1].t # "close" /\ up[c][1] \in Msg
    /\ ClientSame /\ QueuesSame /\ TableSame /\ UNCHANGED <<hub, fp, pc, rx>>
ForwardStep(c) ==
    /\ pc[c] = "run" /\ peer[c] \in Conn /\ peer[c] # NoConn /\ PopUp(c) /\ up[c][1].t # "close"
    /\ rx[peer[c]] /\ PushDown(peer[c], up[c][1])
    /\ ClientSame /\ ServerSame
ForwardFails(c) ==
    /\ pc[c] = "run" /\ peer[c] \in Conn /\ peer[c] # NoConn /\ PopUp(c) /\ up[c][1].t # "close"
    /\ ~rx[peer[c]] /\ down' = down
    /\ pc' = [pc EXCEPT ![c] = "teardown"]
    /\ ClientSame /\ TableSame /\ UNCHANGED <<hub, fp, peer, rx>>
SeeCloseStep(c) ==
    /\ pc[c] = "run" /\ pc' = [pc EXCEPT ![c] = "teardown"]
    /\ 1 \in 1..Len(up[c]) /\ up[c][1].t = "close" /\ up[c][1] \in Msg
    /\ up' \in Queues /\ up'[c] = <<>> /\ \A d \in Conn : d # c => up'[d] = up[d]
    /\ ClientSame /\ down' = down /\ TableSame /\ UNCHANGED <<hub, fp, peer, rx>>
TeardownStep(c) ==
    /\ pc[c] = "teardown" /\ pc' = [pc EXCEPT ![c] = "tell"] /\ hub' = NoTunnel
    /\ peer' = [peer EXCEPT ![c] = IF hub = NoTunnel THEN NoConn ELSE PeerInHub(c)]
    /\ hub # NoTunnel => PeerInHub(c) \in Conns
    /\ ClientSame /\ QueuesSame /\ TableSame /\ UNCHANGED <<fp, rx>>
TellStep(c) ==
    /\ pc[c] = "tell" /\ pc' = [pc EXCEPT ![c] = "done"]
    /\ \/ peer[c] = NoConn /\ down' = down
       \/ peer[c] \in Conn /\ peer[c] # NoConn /\ PushDown(peer[c], [t |-> "gone"])
    /\ ClientSame /\ up' = up /\ TableSame /\ UNCHANGED <<hub, fp, peer, rx>>
\* The outbound pump ends, and with it the client if it has not ended before.
PumpStep(c) ==
    /\ rx[c] /\ rx' = [rx EXCEPT ![c] = FALSE]
    /\ down' \in Queues /\ down'[c] = <<>> /\ \A d \in Conn : d # c => down'[d] = down[d]
    /\ \/ cl' = cl /\ up' = up
       \/ /\ ~Ended(c) /\ down[c] # <<>> /\ PushUp(c, [t |-> "close"])
          /\ cl' = [cl EXCEPT ![c] = "closed"]
    /\ UNCHANGED <<want, peerEph, sess, sent, rcvd, hub, pc, fp, peer>> /\ TableSame

\* The peer the hub names is a connection or nobody.
LEMMA PeerInHubType ==
    ASSUME TunnelTypes, NEW c \in Conn, hub # NoTunnel
    PROVE  hub \in Entry /\ side[c] \in Side /\ PeerInHub(c) \in Conns
<1>1. hub \in Entry /\ side[c] \in Side /\ Other(side[c]) \in Side
  BY SideFacts DEF TunnelTypes
<1>2. hub.to \in [Side -> Conns]
  BY <1>1 DEF Entry
<1> QED BY <1>1, <1>2 DEF PeerInHub

\* A handler registers with the hub or finds its tunnel gone.
LEMMA RegisterCases ==
    ASSUME TunnelTypes, NEW c \in Conn, Register(c)
    PROVE  RegisterStep(c) \/ TooLateStep(c)
<1>1. pc[c] = "register" /\ ClientSame /\ QueuesSame
      /\ UNCHANGED <<fp, rx, traffic, offered, gen, side, cert>>
  BY DEF Register, ClientSame, QueuesSame, client, fixed
<1>2. CASE hub = NoTunnel
  <2>1. /\ hub' = hub /\ attached' = attached /\ peer' = [peer EXCEPT ![c] = NoConn]
        /\ pc' = [pc EXCEPT ![c] = "run"] /\ mate' = mate
    BY <1>2 DEF Register, Goto
  <2> QED BY <1>1, <1>2, <2>1 DEF TooLateStep, TableSame
<1>3. CASE hub # NoTunnel
  <2>1. hub \in Entry /\ side[c] \in Side /\ PeerInHub(c) \in Conns
    BY <1>3, PeerInHubType
  <2>2. fp[c] \in Gens /\ c \in Conns
    BY DEF TunnelTypes, Conns
  <2>3. /\ hub' = [hub EXCEPT !.to[side[c]] = c, !.fp[side[c]] = fp[c]]
        /\ attached' = attached \cup {c} /\ peer' = [peer EXCEPT ![c] = PeerInHub(c)]
    BY <1>3 DEF Register, Registered, PeerInHub
  <2>4. /\ hub' \in Entry
        /\ hub'.to = [hub.to EXCEPT ![side[c]] = c] /\ hub'.fp = [hub.fp EXCEPT ![side[c]] = fp[c]]
    <3>1. PICK h \in Entry, x \in Side, f \in Gens : h = hub /\ x = side[c] /\ f = fp[c]
      BY <2>1, <2>2
    <3>2. [h EXCEPT !.to[x] = c, !.fp[x] = f] = hub'
      BY <2>3, <3>1
    <3>3. /\ [h EXCEPT !.to[x] = c, !.fp[x] = f] \in Entry
          /\ [h EXCEPT !.to[x] = c, !.fp[x] = f].to = [h.to EXCEPT ![x] = c]
          /\ [h EXCEPT !.to[x] = c, !.fp[x] = f].fp = [h.fp EXCEPT ![x] = f]
      BY <2>2 DEF Entry
    <3> QED BY <3>1, <3>2, <3>3
  <2>5. CASE PeerInHub(c) = NoConn
    <3>1. pc' = [pc EXCEPT ![c] = "run"] /\ mate' = mate
      BY <1>3, <2>5 DEF Register, PeerInHub, Goto
    <3>2. mate' \in [Conn -> Conns]
      BY <3>1 DEF TunnelTypes
    <3> QED BY <1>1, <1>3, <2>1, <2>3, <2>4, <2>5, <3>1, <3>2 DEF RegisterStep
  <2>6. CASE PeerInHub(c) # NoConn
    <3>1. /\ pc' = [pc EXCEPT ![c] = "vouch_me"]
          /\ mate' = [mate EXCEPT ![c] = PeerInHub(c),
                                  ![PeerInHub(c)] = IF @ = NoConn THEN c ELSE @]
      BY <1>3, <2>6 DEF Register, PeerInHub, Goto
    <3>2. mate' \in [Conn -> Conns]
      BY <3>1, <2>1, <2>2, <2>6 DEF TunnelTypes, Conns
    <3> QED BY <1>1, <1>3, <2>1, <2>3, <2>4, <2>6, <3>1, <3>2 DEF RegisterStep
  <2> QED BY <2>5, <2>6
<1> QED BY <1>2, <1>3

\* A handler that vouches does so to its own client or to the peer.
LEMMA VouchingCases ==
    ASSUME TunnelTypes, HubInv, NEW c \in Conn, Vouching(c)
    PROVE  VouchMeStep(c) \/ VouchPeerStep(c)
<1>1. pc[c] \in Vouches /\ peer[c] \in Conn /\ peer[c] # NoConn
  BY DEF Vouching, Vouches, HubInv, TunnelTypes, Conns
<1>2. VouchOf(c) \in Msg /\ VouchOf(peer[c]) \in Msg
  BY <1>1, MsgMade DEF VouchOf, TunnelTypes
<1>3. /\ ClientSame /\ up' = up /\ TableSame /\ UNCHANGED <<hub, fp, peer, rx>>
  BY DEF Vouching, ClientSame, TableSame, client, fixed, past
<1>4. CASE pc[c] = "vouch_me"
  <2>1. down' = Sent(c, VouchOf(peer[c])) /\ pc' = [pc EXCEPT ![c] = "vouch_peer"]
    BY <1>4 DEF Vouching, Goto
  <2>2. PushDown(c, VouchOf(peer[c]))
    BY <2>1, <1>2, SentQueue DEF PushDown
  <2> QED BY <1>1, <1>3, <1>4, <2>1, <2>2 DEF VouchMeStep
<1>5. CASE pc[c] = "vouch_peer"
  <2>1. down' = Sent(peer[c], VouchOf(c)) /\ pc' = [pc EXCEPT ![c] = "run"]
    BY <1>5 DEF Vouching, Goto
  <2>2. PushDown(peer[c], VouchOf(c))
    BY <2>1, <1>1, <1>2, SentQueue DEF PushDown
  <2> QED BY <1>1, <1>3, <1>5, <2>1, <2>2 DEF VouchPeerStep
<1> QED BY <1>1, <1>4, <1>5 DEF Vouches

\* A handler that looks for its peer finds it or drops the frame.
LEMMA ResolvePeerCases ==
    ASSUME TunnelTypes, NEW c \in Conn, ResolvePeer(c)
    PROVE  DropStep(c) \/ FindStep(c)
<1>1. /\ pc[c] = "run" /\ peer[c] = NoConn /\ up[c] # <<>> /\ Head(up[c]).t # "close"
      /\ ClientSame /\ down' = down /\ TableSame /\ UNCHANGED <<hub, fp, pc, rx>>
  BY DEF ResolvePeer, ClientSame, TableSame, client, fixed, past
<1>2. CASE hub = NoTunnel \/ PeerInHub(c) = NoConn
  <2>1. peer' = [peer EXCEPT ![c] = NoConn] /\ up' = [up EXCEPT ![c] = Tail(@)]
    BY <1>2 DEF ResolvePeer, PeerInHub
  <2>2. peer' = peer
    BY <1>1, <2>1 DEF TunnelTypes
  <2>3. PopUp(c) /\ up[c][1].t # "close"
    BY <1>1, <2>1, PumpedQueue DEF PopUp
  <2> QED BY <1>1, <1>2, <2>2, <2>3 DEF DropStep, ServerSame
<1>3. CASE hub # NoTunnel /\ PeerInHub(c) # NoConn
  <2>1. peer' = [peer EXCEPT ![c] = PeerInHub(c)] /\ up' = up
    BY <1>3 DEF ResolvePeer, PeerInHub
  <2>2. PeerInHub(c) \in Conn
    BY <1>3, PeerInHubType DEF Conns
  <2>3. 1 \in 1..Len(up[c]) /\ up[c][1].t # "close" /\ up[c][1] \in Msg
    <3>1. up[c] \in Seq(Msg)
      BY DEF TunnelTypes, Queues
    <3> QED BY <3>1, <1>1, TailPopped
  <2> QED BY <1>1, <1>3, <2>1, <2>2, <2>3 DEF FindStep, QueuesSame
<1> QED BY <1>2, <1>3

\* A handler forwards a frame or learns that the peer's pump has ended.
LEMMA ForwardCases ==
    ASSUME TunnelTypes, NEW c \in Conn, Forward(c)
    PROVE  ForwardStep(c) \/ ForwardFails(c)
<1>1. /\ pc[c] = "run" /\ peer[c] # NoConn /\ up[c] # <<>> /\ Head(up[c]).t # "close"
      /\ down' = Sent(peer[c], Head(up[c])) /\ up' = [up EXCEPT ![c] = Tail(@)]
      /\ ClientSame /\ TableSame /\ UNCHANGED <<hub, fp, peer, rx>>
  BY DEF Forward, ClientSame, TableSame, client, fixed, past
<1>2. peer[c] \in Conn
  BY <1>1 DEF TunnelTypes, Conns
<1>3. PopUp(c) /\ up[c][1].t # "close" /\ Head(up[c]) = up[c][1] /\ up[c][1] \in Msg
  BY <1>1, PumpedQueue DEF PopUp
<1>4. PushDown(peer[c], up[c][1])
  BY <1>1, <1>2, <1>3, SentQueue DEF PushDown
<1>5. CASE rx[peer[c]]
  <2>1. pc' = pc
    BY <1>5 DEF Forward
  <2> QED BY <1>1, <1>2, <1>3, <1>4, <1>5, <2>1 DEF ForwardStep, ServerSame
<1>6. CASE ~rx[peer[c]]
  <2>1. pc' = [pc EXCEPT ![c] = "teardown"]
    BY <1>6 DEF Forward, Goto
  <2>2. down' = down
    BY <1>1, <1>6 DEF Sent
  <2> QED BY <1>1, <1>2, <1>3, <1>6, <2>1, <2>2 DEF ForwardFails
<1> QED BY <1>5, <1>6

\* A handler that sees its client hang up goes on to the teardown.
LEMMA SeeCloseCase ==
    ASSUME TunnelTypes, NEW c \in Conn, SeeClose(c)
    PROVE  SeeCloseStep(c)
<1>1. up \in Queues /\ up[c] \in Seq(Msg)
  BY DEF TunnelTypes, Queues
<1>2. /\ pc[c] = "run" /\ up[c] # <<>> /\ Head(up[c]).t = "close" /\ up' = [up EXCEPT ![c] = <<>>]
      /\ pc' = [pc EXCEPT ![c] = "teardown"] /\ down' = down
      /\ ClientSame /\ TableSame /\ UNCHANGED <<hub, fp, peer, rx>>
  BY DEF SeeClose, ClientSame, TableSame, client, fixed, past, Goto
<1>3. 1 \in 1..Len(up[c]) /\ up[c][1].t = "close" /\ up[c][1] \in Msg
  BY <1>1, <1>2, TailPopped
<1>4. up' \in Queues /\ up'[c] = <<>> /\ \A d \in Conn : d # c => up'[d] = up[d]
  BY <1>1, <1>2 DEF Queues
<1> QED BY <1>2, <1>3, <1>4 DEF SeeCloseStep

\* The teardown removes the tunnel and remembers the peer to tell.
LEMMA TeardownCase ==
    ASSUME TunnelTypes, NEW c \in Conn, Teardown(c)
    PROVE  TeardownStep(c)
<1>1. hub # NoTunnel => PeerInHub(c) \in Conns
  BY PeerInHubType
<1> QED BY <1>1 DEF Teardown, TeardownStep, PeerInHub, ClientSame, QueuesSame, TableSame, client,
           fixed, past, Goto

\* A handler that has torn down tells the peer or has nobody to tell.
LEMMA TellCase ==
    ASSUME TunnelTypes, NEW c \in Conn, Tell(c)
    PROVE  TellStep(c)
<1>1. /\ pc[c] = "tell" /\ pc' = [pc EXCEPT ![c] = "done"]
      /\ down' = IF peer[c] = NoConn THEN down ELSE Sent(peer[c], [t |-> "gone"])
      /\ ClientSame /\ up' = up /\ TableSame /\ UNCHANGED <<hub, fp, peer, rx>>
  BY DEF Tell, ClientSame, TableSame, client, fixed, past, Goto
<1>2. CASE peer[c] = NoConn
  BY <1>1, <1>2 DEF TellStep
<1>3. CASE peer[c] # NoConn
  <2>1. peer[c] \in Conn /\ down' = Sent(peer[c], [t |-> "gone"]) /\ [t |-> "gone"] \in Msg
    BY <1>1, <1>3, MsgMade DEF TunnelTypes, Conns
  <2>2. PushDown(peer[c], [t |-> "gone"])
    BY <2>1, SentQueue DEF PushDown
  <2> QED BY <1>1, <1>3, <2>1, <2>2 DEF TellStep
<1> QED BY <1>2, <1>3

\* A pump that ends leaves its client unable to hear.
LEMMA PumpEndsCase ==
    ASSUME TunnelTypes, NEW c \in Conn, PumpEnds(c)
    PROVE  PumpStep(c)
<1>1. /\ rx[c] /\ rx' = [rx EXCEPT ![c] = FALSE] /\ down' = [down EXCEPT ![c] = <<>>]
      /\ UNCHANGED <<want, peerEph, sess, sent, rcvd, hub, pc, fp, peer>> /\ TableSame
  BY DEF PumpEnds, TableSame, fixed, past
<1>2. down' \in Queues /\ down'[c] = <<>> /\ \A d \in Conn : d # c => down'[d] = down[d]
  BY <1>1 DEF TunnelTypes, Queues
<1>3. CASE Ended(c) \/ down[c] = <<>>
  <2>1. cl' = cl /\ up' = up
    BY <1>3 DEF PumpEnds
  <2> QED BY <1>1, <1>2, <2>1 DEF PumpStep
<1>4. CASE ~Ended(c) /\ down[c] # <<>>
  <2>1. cl' = [cl EXCEPT ![c] = "closed"] /\ Says(c, [t |-> "close"])
    BY <1>4 DEF PumpEnds, Says
  <2>2. PushUp(c, [t |-> "close"])
    BY <2>1, SaysQueue, MsgMade DEF PushUp
  <2> QED BY <1>1, <1>2, <1>4, <2>1, <2>2 DEF PumpStep
<1> QED BY <1>3, <1>4

TunnelStep(c) ==
    \/ Connect(c) \/ LookupFingerprint(c) \/ RegisterStep(c) \/ TooLateStep(c)
    \/ VouchMeStep(c) \/ VouchPeerStep(c) \/ DropStep(c) \/ FindStep(c)
    \/ ForwardStep(c) \/ ForwardFails(c) \/ SeeCloseStep(c) \/ TeardownStep(c) \/ TellStep(c)
    \/ PumpStep(c) \/ SocketDrops(c) \/ FailStep(c) \/ TakeVouch(c) \/ TakeKey(c)
    \/ TakeHandshake(c) \/ TakeData(c) \/ SkipVouch(c) \/ DataStep(c) \/ CloseStep(c)

\* Every step of the tunnel is one of these.
LEMMA StepCases ==
    ASSUME TunnelTypes, HubInv, ClientInv, Next
    PROVE  Offer \/ Sweep \/ (\E x \in Side : Rotate(x)) \/ (\E c \in Conn : TunnelStep(c))
<1>1. CASE Offer \/ Sweep \/ \E x \in Side : Rotate(x)
  BY <1>1
<1>2. ASSUME NEW c \in Conn, Connect(c) \/ Handler(c) \/ Pump(c) \/ Listen(c) \/ SendData(c) \/ Close(c)
      PROVE  TunnelStep(c)
  <2>1. CASE Connect(c)
    BY <2>1 DEF TunnelStep
  <2>2. CASE LookupFingerprint(c)
    BY <2>2 DEF TunnelStep
  <2>3. CASE Register(c)
    BY <2>3, RegisterCases DEF TunnelStep
  <2>4. CASE Vouching(c)
    BY <2>4, VouchingCases DEF TunnelStep
  <2>5. CASE ResolvePeer(c)
    BY <2>5, ResolvePeerCases DEF TunnelStep
  <2>6. CASE Forward(c)
    BY <2>6, ForwardCases DEF TunnelStep
  <2>7. CASE SeeClose(c)
    BY <2>7, SeeCloseCase DEF TunnelStep
  <2>8. CASE Teardown(c)
    BY <2>8, TeardownCase DEF TunnelStep
  <2>9. CASE Tell(c)
    BY <2>9, TellCase DEF TunnelStep
  <2>10. CASE PumpEnds(c)
    BY <2>10, PumpEndsCase DEF TunnelStep
  <2>11. CASE SocketDrops(c)
    BY <2>11 DEF TunnelStep
  <2>12. CASE HearVouch(c)
    BY <2>12, HearVouchCases DEF TunnelStep
  <2>13. CASE HearKey(c)
    BY <2>13, HearKeyCases DEF TunnelStep
  <2>14. CASE HearHandshake(c)
    BY <2>14, HearHandshakeCases DEF TunnelStep
  <2>15. CASE HearData(c)
    BY <2>15, HearDataCases DEF TunnelStep
  <2>16. CASE SendData(c)
    BY <2>16, SendDataCase DEF TunnelStep
  <2>17. CASE Close(c)
    BY <2>17, CloseCase DEF TunnelStep
  <2> QED BY <1>2, <2>1, <2>2, <2>3, <2>4, <2>5, <2>6, <2>7, <2>8, <2>9, <2>10, <2>11, <2>12,
     <2>13,
             <2>14, <2>15, <2>16, <2>17 DEF Handler, Pump, Listen
<1> QED BY <1>1, <1>2 DEF Next

\* A step keeps the types.
LEMMA NextTunnelTypes ==
    ASSUME TunnelTypes, HubInv, ClientInv, FrameInv, Next
    PROVE  TunnelTypes'
<1>1. CASE Offer
  <2>1. hub' \in Entry
    BY <1>1, TunnelAssumption DEF Offer, Entry, TunnelTypes, Gens, Conns
  <2> QED BY <1>1, <2>1 DEF TunnelTypes, Offer, client, past
<1>2. CASE Sweep
  BY <1>2 DEF TunnelTypes, Sweep, client, past, fixed
<1>3. ASSUME NEW x \in Side, Rotate(x) PROVE TunnelTypes'
  <2>1. gen[x] + 1 \in Gens
    BY <1>3, TunnelAssumption DEF Rotate, TunnelTypes, Gens
  <2> QED BY <1>3, <2>1 DEF TunnelTypes, Rotate, client, past, server
<1>4. ASSUME NEW c \in Conn, TunnelStep(c) PROVE TunnelTypes'
  <2>1. CASE Connect(c)
    BY <2>1 DEF TunnelTypes, Connect, client, past, server, Goto, Handled, Early, Leaving,
       Phases
  <2>2. CASE LookupFingerprint(c)
    <3>1. 0 \in Gens /\ gen[side[c]] \in Gens
      BY TunnelAssumption DEF TunnelTypes, Gens
    <3>2. PICK f \in Gens : fp' = [fp EXCEPT ![c] = f]
      BY <2>2, <3>1 DEF LookupFingerprint, Fingerprints
    <3> QED BY <2>2, <3>2
            DEF TunnelTypes, LookupFingerprint, client, past, fixed, Goto, Handled, Early
  <2>3. CASE RegisterStep(c)
    BY <2>3 DEF TunnelTypes, RegisterStep, PopDown, PushUp, PopUp, PushDown, ClientSame,
       TableSame, ServerSame, QueuesSame, Handled, Early, Vouches, Leaving, Phases, Conns
  <2>4. CASE TooLateStep(c)
    BY <2>4 DEF TunnelTypes, TooLateStep, PopDown, PushUp, PopUp, PushDown, ClientSame,
       TableSame, ServerSame, QueuesSame, Handled, Early, Vouches, Leaving, Phases, Conns
  <2>5. CASE VouchMeStep(c)
    BY <2>5 DEF TunnelTypes, VouchMeStep, PopDown, PushUp, PopUp, PushDown, ClientSame,
       TableSame, ServerSame, QueuesSame, Handled, Early, Vouches, Leaving, Phases, Conns
  <2>6. CASE VouchPeerStep(c)
    BY <2>6 DEF TunnelTypes, VouchPeerStep, PopDown, PushUp, PopUp, PushDown, ClientSame,
       TableSame, ServerSame, QueuesSame, Handled, Early, Vouches, Leaving, Phases, Conns
  <2>7. CASE DropStep(c)
    BY <2>7 DEF TunnelTypes, DropStep, PopDown, PushUp, PopUp, PushDown, ClientSame, TableSame,
       ServerSame, QueuesSame, Handled, Early, Vouches, Leaving, Phases, Conns
  <2>8. CASE FindStep(c)
    BY <2>8 DEF TunnelTypes, FindStep, PopDown, PushUp, PopUp, PushDown, ClientSame, TableSame,
       ServerSame, QueuesSame, Handled, Early, Vouches, Leaving, Phases, Conns
  <2>9. CASE ForwardStep(c)
    BY <2>9 DEF TunnelTypes, ForwardStep, PopDown, PushUp, PopUp, PushDown, ClientSame,
       TableSame, ServerSame, QueuesSame, Handled, Early, Vouches, Leaving, Phases, Conns
  <2>10. CASE ForwardFails(c)
    BY <2>10 DEF TunnelTypes, ForwardFails, PopDown, PushUp, PopUp, PushDown, ClientSame,
       TableSame, ServerSame, QueuesSame, Handled, Early, Vouches, Leaving, Phases, Conns
  <2>11. CASE SeeCloseStep(c)
    BY <2>11 DEF TunnelTypes, SeeCloseStep, PopDown, PushUp, PopUp, PushDown, ClientSame,
       TableSame, ServerSame, QueuesSame, Handled, Early, Vouches, Leaving, Phases, Conns
  <2>12. CASE TeardownStep(c)
    BY <2>12 DEF TunnelTypes, TeardownStep, PopDown, PushUp, PopUp, PushDown, ClientSame,
       TableSame, ServerSame, QueuesSame, Handled, Early, Vouches, Leaving, Phases, Conns
  <2>13. CASE TellStep(c)
    BY <2>13 DEF TunnelTypes, TellStep, PopDown, PushUp, PopUp, PushDown, ClientSame, TableSame,
       ServerSame, QueuesSame, Handled, Early, Vouches, Leaving, Phases, Conns
  <2>14. CASE PumpStep(c)
    BY <2>14 DEF TunnelTypes, PumpStep, PopDown, PushUp, PopUp, PushDown, ClientSame, TableSame,
       ServerSame, QueuesSame, Handled, Early, Vouches, Leaving, Phases, Conns
  <2>15. CASE SocketDrops(c)
    BY <2>15 DEF TunnelTypes, SocketDrops, client, past, fixed, server, Phases
  <2>16. CASE FailStep(c)
    BY <2>16 DEF TunnelTypes, FailStep, PopDown, PushUp, PopUp, PushDown, ClientSame, TableSame,
       ServerSame, QueuesSame, Handled, Early, Vouches, Leaving, Phases, Conns
  <2>17. CASE TakeVouch(c)
    BY <2>17, MsgShape DEF TunnelTypes, TakeVouch, PopDown, PushUp, PopUp, PushDown, ClientSame,
       TableSame, ServerSame, QueuesSame, Phases
  <2>18. CASE TakeKey(c)
    BY <2>18, MsgShape DEF TunnelTypes, TakeKey, PopDown, PushUp, PopUp, PushDown, ClientSame,
       TableSame, ServerSame, QueuesSame, Phases, Conns
  <2>19. CASE TakeHandshake(c)
    BY <2>19, MsgShape DEF TunnelTypes, TakeHandshake, Completes, PopDown, PushUp, PopUp,
       PushDown, ClientSame, TableSame, ServerSame, QueuesSame, Phases, Conns
  <2>20. CASE TakeData(c)
    <3>1. down[c][1].t = "data" /\ down[c][1].of \in Conn /\ down[c][1].n = rcvd[c]
      BY <2>20, MsgShape DEF TakeData, Opens, PopDown
    <3>2. down[c][1].n < sent[down[c][1].of]
      BY <2>20, <3>1 DEF TakeData, PopDown, FrameInv, Inbound, Honest
    <3>3. rcvd[c] + 1 \in 0..MaxData
      <4>1. sent[down[c][1].of] \in 0..MaxData /\ rcvd[c] \in 0..MaxData
        BY <3>1 DEF TunnelTypes
      <4> QED BY <3>1, <3>2, <4>1, TunnelAssumption
    <3> QED BY <2>20, <3>3 DEF TunnelTypes, TakeData, PopDown, PushUp, PopUp, PushDown,
       ClientSame, TableSame, ServerSame, QueuesSame
  <2>21. CASE SkipVouch(c)
    BY <2>21 DEF TunnelTypes, SkipVouch, PopDown, PushUp, PopUp, PushDown, ClientSame,
       TableSame, ServerSame, QueuesSame, Handled, Early, Vouches, Leaving, Phases, Conns
  <2>22. CASE DataStep(c)
    <3>1. sent[c] + 1 \in 0..MaxData
      BY <2>22, TunnelAssumption DEF TunnelTypes, DataStep
    <3> QED BY <2>22, <3>1 DEF TunnelTypes, DataStep, PopDown, PushUp, PopUp, PushDown,
       ClientSame, TableSame, ServerSame, QueuesSame
  <2>23. CASE CloseStep(c)
    BY <2>23 DEF TunnelTypes, CloseStep, PopDown, PushUp, PopUp, PushDown, ClientSame,
       TableSame, ServerSame, QueuesSame, Handled, Early, Vouches, Leaving, Phases, Conns
  <2> QED BY <1>4, <2>1, <2>2, <2>3, <2>4, <2>5, <2>6, <2>7, <2>8, <2>9, <2>10, <2>11, <2>12,
     <2>13, <2>14, <2>15, <2>16, <2>17, <2>18, <2>19, <2>20, <2>21, <2>22, <2>23 DEF TunnelStep
<1> QED BY <1>1, <1>2, <1>3, <1>4, StepCases

\* What the hub and the handlers know stays true.
LEMMA NextHubInv ==
    ASSUME TunnelTypes, HubInv, ClientInv, Next
    PROVE  HubInv'
<1>1. CASE Offer
  <2>1. hub' = [fp |-> [x \in Side |-> IF x = "offerer" THEN gen[x] ELSE 0],
                  to |-> [x \in Side |-> NoConn]]
    BY <1>1 DEF Offer
  <2>2. \A x \in Side : hub'.to[x] = NoConn
    BY <2>1
  <2>3. /\ offered' /\ ~offered /\ UNCHANGED <<pc, side, attached, peer>>
    BY <1>1 DEF Offer, past
  <2>4. \A c \in Conn : pc[c] = "new"
    BY <2>3 DEF HubInv
  <2> QED BY <2>2, <2>3, <2>4 DEF HubInv, Early
<1>2. CASE Sweep
  BY <1>2 DEF Sweep, past, fixed, HubInv
<1>3. ASSUME NEW x \in Side, Rotate(x) PROVE HubInv'
  BY <1>3 DEF Rotate, past, server, HubInv
<1>4. ASSUME NEW c \in Conn, TunnelStep(c) PROVE HubInv'
  <2>1. CASE DropStep(c) \/ ForwardStep(c) \/ PumpStep(c) \/ SocketDrops(c) \/ FailStep(c)
             \/ TakeVouch(c) \/ TakeKey(c) \/ TakeHandshake(c) \/ TakeData(c) \/ SkipVouch(c)
             \/ DataStep(c) \/ CloseStep(c)
    <3>1. UNCHANGED <<pc, offered, hub, side, attached, peer>>
      BY <2>1 DEF DropStep, ForwardStep, PumpStep, SocketDrops, FailStep, TakeVouch, TakeKey,
         TakeHandshake, TakeData, SkipVouch, DataStep, CloseStep, ServerSame, TableSame, server,
         fixed, past
    <3> QED BY <3>1 DEF HubInv
  <2>2. CASE Connect(c)
    <3>1. c \notin attached /\ offered /\ hub' = hub /\ peer' = peer /\ attached' = attached
      BY <2>2 DEF Connect, past, HubInv, Early
    <3>2. /\ \A d \in Conn : d # c => side'[d] = side[d] /\ pc'[d] = pc[d]
          /\ pc'[c] = IF hub # NoTunnel THEN "fp" ELSE "done"
      BY <2>2 DEF Connect, Goto, TunnelTypes
    <3>3. attached \subseteq Conn /\ offered' /\ hub' = hub
      BY <2>2 DEF Connect, TunnelTypes
    <3>4. peer[c] = NoConn
      BY <3>1 DEF HubInv
    <3>5. hub # NoTunnel => \A x \in Side : hub.to[x] # c /\ hub.to[x] \in Conns
      BY <3>1, TunnelAssumption DEF HubInv, TunnelTypes, Entry, Conns
    <3>6. \A d \in Conn : peer[d] # c /\ peer[d] \in Conns
      BY <3>1, TunnelAssumption DEF HubInv, TunnelTypes
    <3>7. \A d \in Conn : peer[d] # NoConn => peer[d] \in Conn
      BY <3>6 DEF Conns
    <3>8. hub # NoTunnel => \A x \in Side : hub.to[x] # NoConn => hub.to[x] \in Conn
      BY <3>5 DEF Conns
    <3> QED BY <3>1, <3>2, <3>3, <3>4, <3>5, <3>6, <3>7, <3>8 DEF HubInv, Early, Vouches
  <2>3. CASE LookupFingerprint(c)
    BY <2>3 DEF LookupFingerprint, Goto, past, fixed, TunnelTypes, HubInv, Early, Vouches,
       Leaving, Handled
  <2>4. CASE RegisterStep(c)
    <3>1. side[c] \in Side /\ Other(side[c]) \in Side /\ Other(side[c]) # side[c]
      BY SideFacts DEF TunnelTypes
    <3>2. hub.to \in [Side -> Conns] /\ hub' # NoTunnel => offered
      BY <2>4 DEF RegisterStep, Entry, HubInv
    <3>3. ASSUME NEW x \in Side, hub'.to[x] # NoConn
          PROVE  side[hub'.to[x]] = x /\ hub'.to[x] \in attached'
      BY <2>4, <3>1, <3>2, <3>3 DEF RegisterStep, HubInv
    <3>4. PeerInHub(c) # NoConn => PeerInHub(c) \in attached /\ side[PeerInHub(c)] # side[c]
      BY <2>4, <3>1 DEF RegisterStep, PeerInHub, HubInv
    <3> QED BY <2>4, <3>2, <3>3, <3>4 DEF RegisterStep, TunnelTypes, HubInv, Early, Vouches,
       Leaving, Handled
  <2>5. CASE TooLateStep(c)
    BY <2>5 DEF TooLateStep, TableSame, TunnelTypes, HubInv, Early, Vouches, Leaving, Handled
  <2>6. CASE VouchMeStep(c)
    BY <2>6 DEF VouchMeStep, TableSame, TunnelTypes, HubInv, Early, Vouches, Leaving, Handled
  <2>7. CASE VouchPeerStep(c)
    BY <2>7 DEF VouchPeerStep, TableSame, TunnelTypes, HubInv, Early, Vouches, Leaving, Handled
  <2>8. CASE FindStep(c)
    <3>1. side[c] \in Side /\ Other(side[c]) \in Side /\ Other(side[c]) # side[c]
      BY SideFacts DEF TunnelTypes
    <3>2. PeerInHub(c) \in attached /\ side[PeerInHub(c)] # side[c] /\ c \in attached
      BY <2>8, <3>1 DEF FindStep, PeerInHub, HubInv, Early
    <3> QED BY <2>8, <3>2 DEF FindStep, TableSame, TunnelTypes, HubInv, Early, Vouches, Leaving,
       Handled
  <2>9. CASE ForwardFails(c)
    BY <2>9 DEF ForwardFails, TableSame, TunnelTypes, HubInv, Early, Vouches, Leaving, Handled
  <2>10. CASE SeeCloseStep(c)
    BY <2>10 DEF SeeCloseStep, TableSame, TunnelTypes, HubInv, Early, Vouches, Leaving, Handled
  <2>11. CASE TeardownStep(c)
    <3>1. side[c] \in Side /\ Other(side[c]) \in Side /\ Other(side[c]) # side[c]
      BY SideFacts DEF TunnelTypes
    <3>2. hub # NoTunnel /\ PeerInHub(c) # NoConn =>
             PeerInHub(c) \in attached /\ side[PeerInHub(c)] # side[c] /\ c \in attached
      BY <2>11, <3>1 DEF TeardownStep, PeerInHub, HubInv, Early
    <3> QED BY <2>11, <3>2 DEF TeardownStep, TableSame, TunnelTypes, HubInv, Early, Vouches,
       Leaving, Handled
  <2>12. CASE TellStep(c)
    BY <2>12 DEF TellStep, TableSame, TunnelTypes, HubInv, Early, Vouches, Leaving, Handled
  <2> QED BY <1>4, <2>1, <2>2, <2>3, <2>4, <2>5, <2>6, <2>7, <2>8, <2>9, <2>10, <2>11, <2>12 DEF
     TunnelStep
<1> QED BY <1>1, <1>2, <1>3, <1>4, StepCases

\* An entry with both sides keeps them.
LEMMA NextPairedInv ==
    ASSUME TunnelTypes, HubInv, ClientInv, PairedInv, Next
    PROVE  PairedInv'
<1>1. CASE Offer
  <2>1. attached' = attached /\ \A c \in Conn : pc[c] = "new"
    BY <1>1 DEF Offer, past, HubInv
  <2>2. attached = {}
    BY <2>1 DEF HubInv, Early, TunnelTypes
  <2> QED BY <2>1, <2>2 DEF PairedInv
<1>2. CASE Sweep
  BY <1>2 DEF Sweep, past, fixed, PairedInv
<1>3. ASSUME NEW x \in Side, Rotate(x) PROVE PairedInv'
  BY <1>3 DEF Rotate, past, server, PairedInv
<1>4. ASSUME NEW c \in Conn, TunnelStep(c) PROVE PairedInv'
  <2>1. CASE TooLateStep(c) \/ VouchMeStep(c) \/ VouchPeerStep(c) \/ DropStep(c)
             \/ FindStep(c) \/ ForwardStep(c) \/ ForwardFails(c) \/ SeeCloseStep(c)
             \/ TellStep(c) \/ PumpStep(c) \/ SocketDrops(c) \/ FailStep(c) \/ TakeVouch(c)
             \/ TakeKey(c) \/ TakeHandshake(c) \/ TakeData(c) \/ SkipVouch(c) \/ DataStep(c)
             \/ CloseStep(c) \/ LookupFingerprint(c)
    <3>1. UNCHANGED <<hub, side, attached>>
      BY <2>1 DEF TooLateStep, VouchMeStep, VouchPeerStep, DropStep, FindStep, ForwardStep,
         ForwardFails, SeeCloseStep, TellStep, PumpStep, SocketDrops, FailStep, TakeVouch,
         TakeKey, TakeHandshake, TakeData, SkipVouch, DataStep, CloseStep, LookupFingerprint,
         ServerSame, TableSame, server, fixed, past
    <3> QED BY <3>1 DEF PairedInv
  <2>2. CASE Connect(c)
    <3>1. c \notin attached /\ hub' = hub /\ attached' = attached /\ attached \subseteq Conn
      BY <2>2 DEF Connect, past, HubInv, Early, TunnelTypes
    <3>2. \A d \in Conn : d # c => side'[d] = side[d]
      BY <2>2 DEF Connect, TunnelTypes
    <3> QED BY <3>1, <3>2 DEF PairedInv
  <2>3. CASE RegisterStep(c)
    <3>1. hub.to \in [Side -> Conns] /\ c # NoConn /\ side \in [Conn -> Side] /\ attached \subseteq Conn
      BY <2>3, TunnelAssumption DEF RegisterStep, Entry, TunnelTypes
    <3> QED BY <2>3, <3>1 DEF RegisterStep, PairedInv
  <2>4. CASE TeardownStep(c)
    BY <2>4 DEF TeardownStep, PairedInv
  <2> QED BY <1>4, <2>1, <2>2, <2>3, <2>4 DEF TunnelStep
<1> QED BY <1>1, <1>2, <1>3, <1>4, StepCases

\* Who is alone was alone before.
LEMMA AloneShrinks ==
    ASSUME attached \subseteq attached', side' = side, NEW d \in Conn, Alone(d)'
    PROVE  Alone(d)
  BY DEF Alone

\* A handler with a peer is not alone, nor is its peer.
LEMMA PeersNotAlone ==
    ASSUME TunnelTypes, HubInv, NEW c \in Conn, peer[c] # NoConn
    PROVE  ~Alone(c) /\ ~Alone(peer[c]) /\ c \in attached /\ peer[c] \in attached
  BY DEF Alone, HubInv

\* Nothing reaches or leaves a connection that is alone.
LEMMA NextAloneInv ==
    ASSUME TunnelTypes, HubInv, ClientInv, AloneInv, Next
    PROVE  AloneInv'
<1>1. CASE Offer
  <2>1. attached' = attached /\ side' = side /\ UNCHANGED <<down, up, cl>>
    BY <1>1 DEF Offer, client, server, fixed, past
  <2> QED BY <2>1 DEF AloneInv, Alone, OnlyCloses
<1>2. CASE Sweep
  <2>1. attached' = attached /\ side' = side /\ UNCHANGED <<down, up, cl>>
    BY <1>2 DEF Sweep, client, server, fixed, past
  <2> QED BY <2>1 DEF AloneInv, Alone, OnlyCloses
<1>3. ASSUME NEW x \in Side, Rotate(x) PROVE AloneInv'
  <2>1. attached' = attached /\ side' = side /\ UNCHANGED <<down, up, cl>>
    BY <1>3 DEF Rotate, client, server, fixed, past
  <2> QED BY <2>1 DEF AloneInv, Alone, OnlyCloses
<1>4. ASSUME NEW c \in Conn, TunnelStep(c) PROVE AloneInv'
  <2>1. CASE LookupFingerprint(c) \/ RegisterStep(c) \/ TooLateStep(c) \/ FindStep(c)
             \/ TeardownStep(c)
    <3> SUFFICES ASSUME NEW d \in Conn, Alone(d)'
                 PROVE  /\ down'[d] = <<>> /\ OnlyCloses(up'[d])
                        /\ cl'[d] \in {"none", "vouch", "closed"}
      BY DEF AloneInv, OnlyCloses
    <3>1. attached \subseteq attached' /\ side' = side /\ UNCHANGED <<down, up, cl>>
      BY <2>1 DEF LookupFingerprint, RegisterStep, TooLateStep, FindStep, TeardownStep,
         ServerSame, TableSame, ClientSame, QueuesSame, client, server, fixed, past
    <3>2. Alone(d)
      BY <3>1, AloneShrinks
    <3>3. down[d] = <<>> /\ OnlyCloses(up[d]) /\ cl[d] \in {"none", "vouch", "closed"}
      BY <3>2 DEF AloneInv
    <3> QED BY <3>1, <3>3
  <2>2. CASE Connect(c)
    <3> SUFFICES ASSUME NEW d \in Conn, Alone(d)'
                 PROVE  /\ down'[d] = <<>> /\ OnlyCloses(up'[d])
                        /\ cl'[d] \in {"none", "vouch", "closed"}
      BY DEF AloneInv, OnlyCloses
    <3>1. c \notin attached /\ attached' = attached /\ attached \subseteq Conn /\ UNCHANGED <<down, up>>
      BY <2>2 DEF Connect, past, HubInv, Early, TunnelTypes
    <3>2. \A e \in Conn : e # c => side'[e] = side[e] /\ cl'[e] = cl[e]
      BY <2>2 DEF Connect, TunnelTypes
    <3>3. Alone(d)
      BY <3>1, <3>2 DEF Alone
    <3>4. down[d] = <<>> /\ OnlyCloses(up[d]) /\ cl[d] \in {"none", "vouch", "closed"}
      BY <3>3 DEF AloneInv
    <3>5. cl'[c] \in {"vouch", "closed"}
      BY <2>2 DEF Connect, TunnelTypes
    <3> QED BY <3>1, <3>2, <3>4, <3>5
  <2>3. CASE VouchMeStep(c)
    <3> SUFFICES ASSUME NEW d \in Conn, Alone(d)'
                 PROVE  /\ down'[d] = <<>> /\ OnlyCloses(up'[d])
                        /\ cl'[d] \in {"none", "vouch", "closed"}
      BY DEF AloneInv, OnlyCloses
    <3>1. attached \subseteq attached' /\ side' = side /\ cl' = cl
      BY <2>3 DEF VouchMeStep, ServerSame, TableSame, ClientSame, QueuesSame, client, server,
         fixed, past
    <3>2. Alone(d)
      BY <3>1, AloneShrinks
    <3>3. down[d] = <<>> /\ OnlyCloses(up[d]) /\ cl[d] \in {"none", "vouch", "closed"}
      BY <3>2 DEF AloneInv
    <3>4. (d # peer[c] /\ d # c) \/ peer[c] = NoConn
      BY <3>2, PeersNotAlone
    <3>5. down'[d] = down[d] /\ up'[d] = up[d]
      BY <2>3, <3>4 DEF VouchMeStep, PushDown, PopUp
    <3> QED BY <3>1, <3>3, <3>5
  <2>4. CASE VouchPeerStep(c)
    <3> SUFFICES ASSUME NEW d \in Conn, Alone(d)'
                 PROVE  /\ down'[d] = <<>> /\ OnlyCloses(up'[d])
                        /\ cl'[d] \in {"none", "vouch", "closed"}
      BY DEF AloneInv, OnlyCloses
    <3>1. attached \subseteq attached' /\ side' = side /\ cl' = cl
      BY <2>4 DEF VouchPeerStep, ServerSame, TableSame, ClientSame, QueuesSame, client, server,
         fixed, past
    <3>2. Alone(d)
      BY <3>1, AloneShrinks
    <3>3. down[d] = <<>> /\ OnlyCloses(up[d]) /\ cl[d] \in {"none", "vouch", "closed"}
      BY <3>2 DEF AloneInv
    <3>4. (d # peer[c] /\ d # c) \/ peer[c] = NoConn
      BY <3>2, PeersNotAlone
    <3>5. down'[d] = down[d] /\ up'[d] = up[d]
      BY <2>4, <3>4 DEF VouchPeerStep, PushDown, PopUp
    <3> QED BY <3>1, <3>3, <3>5
  <2>5. CASE DropStep(c)
    <3> SUFFICES ASSUME NEW d \in Conn, Alone(d)'
                 PROVE  /\ down'[d] = <<>> /\ OnlyCloses(up'[d])
                        /\ cl'[d] \in {"none", "vouch", "closed"}
      BY DEF AloneInv, OnlyCloses
    <3>1. attached \subseteq attached' /\ side' = side /\ down' = down /\ cl' = cl
      BY <2>5 DEF DropStep, ServerSame, TableSame, ClientSame, QueuesSame, client, server,
         fixed, past
    <3>2. Alone(d)
      BY <3>1, AloneShrinks
    <3>3. down[d] = <<>> /\ OnlyCloses(up[d]) /\ cl[d] \in {"none", "vouch", "closed"}
      BY <3>2 DEF AloneInv
    <3>4. OnlyCloses(up'[d])
      <4>1. CASE d = c
        BY <2>5, <3>3, <4>1 DEF DropStep, PopUp, OnlyCloses
      <4>2. CASE d # c
        BY <2>5, <3>3, <4>2 DEF DropStep, PopUp
      <4> QED BY <4>1, <4>2
    <3> QED BY <3>1, <3>3, <3>4
  <2>6. CASE ForwardStep(c)
    <3> SUFFICES ASSUME NEW d \in Conn, Alone(d)'
                 PROVE  /\ down'[d] = <<>> /\ OnlyCloses(up'[d])
                        /\ cl'[d] \in {"none", "vouch", "closed"}
      BY DEF AloneInv, OnlyCloses
    <3>1. attached \subseteq attached' /\ side' = side /\ cl' = cl
      BY <2>6 DEF ForwardStep, ServerSame, TableSame, ClientSame, QueuesSame, client, server,
         fixed, past
    <3>2. Alone(d)
      BY <3>1, AloneShrinks
    <3>3. down[d] = <<>> /\ OnlyCloses(up[d]) /\ cl[d] \in {"none", "vouch", "closed"}
      BY <3>2 DEF AloneInv
    <3>4. (d # peer[c] /\ d # c) \/ peer[c] = NoConn
      BY <3>2, PeersNotAlone
    <3>5. down'[d] = down[d] /\ up'[d] = up[d]
      BY <2>6, <3>4 DEF ForwardStep, PushDown, PopUp
    <3> QED BY <3>1, <3>3, <3>5
  <2>7. CASE ForwardFails(c)
    <3> SUFFICES ASSUME NEW d \in Conn, Alone(d)'
                 PROVE  /\ down'[d] = <<>> /\ OnlyCloses(up'[d])
                        /\ cl'[d] \in {"none", "vouch", "closed"}
      BY DEF AloneInv, OnlyCloses
    <3>1. attached \subseteq attached' /\ side' = side /\ down' = down /\ cl' = cl
      BY <2>7 DEF ForwardFails, ServerSame, TableSame, ClientSame, QueuesSame, client, server,
         fixed, past
    <3>2. Alone(d)
      BY <3>1, AloneShrinks
    <3>3. down[d] = <<>> /\ OnlyCloses(up[d]) /\ cl[d] \in {"none", "vouch", "closed"}
      BY <3>2 DEF AloneInv
    <3>4. OnlyCloses(up'[d])
      <4>1. CASE d = c
        BY <2>7, <3>3, <4>1 DEF ForwardFails, PopUp, OnlyCloses
      <4>2. CASE d # c
        BY <2>7, <3>3, <4>2 DEF ForwardFails, PopUp
      <4> QED BY <4>1, <4>2
    <3> QED BY <3>1, <3>3, <3>4
  <2>8. CASE SeeCloseStep(c)
    <3> SUFFICES ASSUME NEW d \in Conn, Alone(d)'
                 PROVE  /\ down'[d] = <<>> /\ OnlyCloses(up'[d])
                        /\ cl'[d] \in {"none", "vouch", "closed"}
      BY DEF AloneInv, OnlyCloses
    <3>1. attached \subseteq attached' /\ side' = side /\ down' = down /\ cl' = cl
      BY <2>8 DEF SeeCloseStep, ServerSame, TableSame, ClientSame, QueuesSame, client, server,
         fixed, past
    <3>2. Alone(d)
      BY <3>1, AloneShrinks
    <3>3. down[d] = <<>> /\ OnlyCloses(up[d]) /\ cl[d] \in {"none", "vouch", "closed"}
      BY <3>2 DEF AloneInv
    <3>4. OnlyCloses(up'[d])
      <4>1. CASE d = c
        BY <2>8, <3>3, <4>1 DEF SeeCloseStep, PopUp, OnlyCloses
      <4>2. CASE d # c
        BY <2>8, <3>3, <4>2 DEF SeeCloseStep, PopUp
      <4> QED BY <4>1, <4>2
    <3> QED BY <3>1, <3>3, <3>4
  <2>9. CASE TellStep(c)
    <3> SUFFICES ASSUME NEW d \in Conn, Alone(d)'
                 PROVE  /\ down'[d] = <<>> /\ OnlyCloses(up'[d])
                        /\ cl'[d] \in {"none", "vouch", "closed"}
      BY DEF AloneInv, OnlyCloses
    <3>1. attached \subseteq attached' /\ side' = side /\ cl' = cl
      BY <2>9 DEF TellStep, ServerSame, TableSame, ClientSame, QueuesSame, client, server,
         fixed, past
    <3>2. Alone(d)
      BY <3>1, AloneShrinks
    <3>3. down[d] = <<>> /\ OnlyCloses(up[d]) /\ cl[d] \in {"none", "vouch", "closed"}
      BY <3>2 DEF AloneInv
    <3>4. (d # peer[c] /\ d # c) \/ peer[c] = NoConn
      BY <3>2, PeersNotAlone
    <3>5. down'[d] = down[d] /\ up'[d] = up[d]
      BY <2>9, <3>4 DEF TellStep, PushDown, PopUp
    <3> QED BY <3>1, <3>3, <3>5
  <2>10. CASE PumpStep(c)
    <3> SUFFICES ASSUME NEW d \in Conn, Alone(d)'
                 PROVE  /\ down'[d] = <<>> /\ OnlyCloses(up'[d])
                        /\ cl'[d] \in {"none", "vouch", "closed"}
      BY DEF AloneInv, OnlyCloses
    <3>1. attached \subseteq attached' /\ side' = side
      BY <2>10 DEF PumpStep, ServerSame, TableSame, ClientSame, QueuesSame, client, server,
         fixed, past
    <3>2. Alone(d)
      BY <3>1, AloneShrinks
    <3>3. down[d] = <<>> /\ OnlyCloses(up[d]) /\ cl[d] \in {"none", "vouch", "closed"}
      BY <3>2 DEF AloneInv
    <3>4. cl'[d] \in {"none", "vouch", "closed"} /\ down'[d] = <<>>
      BY <2>10, <3>3 DEF PumpStep, TunnelTypes
    <3>5. d = c => up' = up
      BY <2>10, <3>3 DEF PumpStep
    <3>6. up'[d] = up[d]
      BY <2>10, <3>5 DEF PumpStep, PushUp
    <3> QED BY <3>3, <3>4, <3>6
  <2>11. CASE SocketDrops(c)
    <3> SUFFICES ASSUME NEW d \in Conn, Alone(d)'
                 PROVE  /\ down'[d] = <<>> /\ OnlyCloses(up'[d])
                        /\ cl'[d] \in {"none", "vouch", "closed"}
      BY DEF AloneInv, OnlyCloses
    <3>1. attached \subseteq attached' /\ side' = side /\ down' = down /\ up' = up
      BY <2>11 DEF SocketDrops, ServerSame, TableSame, ClientSame, QueuesSame, client, server,
         fixed, past
    <3>2. Alone(d)
      BY <3>1, AloneShrinks
    <3>3. down[d] = <<>> /\ OnlyCloses(up[d]) /\ cl[d] \in {"none", "vouch", "closed"}
      BY <3>2 DEF AloneInv
    <3>4. cl'[d] \in {"none", "vouch", "closed"}
      BY <2>11, <3>3 DEF SocketDrops, TunnelTypes
    <3> QED BY <3>1, <3>3, <3>4
  <2>12. CASE FailStep(c)
    <3> SUFFICES ASSUME NEW d \in Conn, Alone(d)'
                 PROVE  /\ down'[d] = <<>> /\ OnlyCloses(up'[d])
                        /\ cl'[d] \in {"none", "vouch", "closed"}
      BY DEF AloneInv, OnlyCloses
    <3>1. attached \subseteq attached' /\ side' = side /\ 1 \in 1..Len(down[c])
      BY <2>12 DEF FailStep, PopDown, ServerSame, TableSame, ClientSame, QueuesSame, client,
         server, fixed, past
    <3>2. Alone(d)
      BY <3>1, AloneShrinks
    <3>3. down[d] = <<>> /\ OnlyCloses(up[d]) /\ cl[d] \in {"none", "vouch", "closed"}
      BY <3>2 DEF AloneInv
    <3>4. d # c
      BY <3>1, <3>3
    <3>5. down'[d] = down[d] /\ up'[d] = up[d] /\ cl'[d] = cl[d]
      BY <2>12, <3>4 DEF FailStep, PopDown, PushUp, ClientSame, TunnelTypes
    <3> QED BY <3>3, <3>5
  <2>13. CASE TakeVouch(c)
    <3> SUFFICES ASSUME NEW d \in Conn, Alone(d)'
                 PROVE  /\ down'[d] = <<>> /\ OnlyCloses(up'[d])
                        /\ cl'[d] \in {"none", "vouch", "closed"}
      BY DEF AloneInv, OnlyCloses
    <3>1. attached \subseteq attached' /\ side' = side /\ 1 \in 1..Len(down[c])
      BY <2>13 DEF TakeVouch, PopDown, ServerSame, TableSame, ClientSame, QueuesSame, client,
         server, fixed, past
    <3>2. Alone(d)
      BY <3>1, AloneShrinks
    <3>3. down[d] = <<>> /\ OnlyCloses(up[d]) /\ cl[d] \in {"none", "vouch", "closed"}
      BY <3>2 DEF AloneInv
    <3>4. d # c
      BY <3>1, <3>3
    <3>5. down'[d] = down[d] /\ up'[d] = up[d] /\ cl'[d] = cl[d]
      BY <2>13, <3>4 DEF TakeVouch, PopDown, PushUp, ClientSame, TunnelTypes
    <3> QED BY <3>3, <3>5
  <2>14. CASE TakeKey(c)
    <3> SUFFICES ASSUME NEW d \in Conn, Alone(d)'
                 PROVE  /\ down'[d] = <<>> /\ OnlyCloses(up'[d])
                        /\ cl'[d] \in {"none", "vouch", "closed"}
      BY DEF AloneInv, OnlyCloses
    <3>1. attached \subseteq attached' /\ side' = side /\ 1 \in 1..Len(down[c])
      BY <2>14 DEF TakeKey, PopDown, ServerSame, TableSame, ClientSame, QueuesSame, client,
         server, fixed, past
    <3>2. Alone(d)
      BY <3>1, AloneShrinks
    <3>3. down[d] = <<>> /\ OnlyCloses(up[d]) /\ cl[d] \in {"none", "vouch", "closed"}
      BY <3>2 DEF AloneInv
    <3>4. d # c
      BY <3>1, <3>3
    <3>5. down'[d] = down[d] /\ up'[d] = up[d] /\ cl'[d] = cl[d]
      BY <2>14, <3>4 DEF TakeKey, PopDown, PushUp, ClientSame, TunnelTypes
    <3> QED BY <3>3, <3>5
  <2>15. CASE TakeHandshake(c)
    <3> SUFFICES ASSUME NEW d \in Conn, Alone(d)'
                 PROVE  /\ down'[d] = <<>> /\ OnlyCloses(up'[d])
                        /\ cl'[d] \in {"none", "vouch", "closed"}
      BY DEF AloneInv, OnlyCloses
    <3>1. attached \subseteq attached' /\ side' = side /\ 1 \in 1..Len(down[c])
      BY <2>15 DEF TakeHandshake, PopDown, ServerSame, TableSame, ClientSame, QueuesSame,
         client, server, fixed, past
    <3>2. Alone(d)
      BY <3>1, AloneShrinks
    <3>3. down[d] = <<>> /\ OnlyCloses(up[d]) /\ cl[d] \in {"none", "vouch", "closed"}
      BY <3>2 DEF AloneInv
    <3>4. d # c
      BY <3>1, <3>3
    <3>5. down'[d] = down[d] /\ up'[d] = up[d] /\ cl'[d] = cl[d]
      BY <2>15, <3>4 DEF TakeHandshake, PopDown, PushUp, ClientSame, TunnelTypes
    <3> QED BY <3>3, <3>5
  <2>16. CASE TakeData(c)
    <3> SUFFICES ASSUME NEW d \in Conn, Alone(d)'
                 PROVE  /\ down'[d] = <<>> /\ OnlyCloses(up'[d])
                        /\ cl'[d] \in {"none", "vouch", "closed"}
      BY DEF AloneInv, OnlyCloses
    <3>1. attached \subseteq attached' /\ side' = side /\ 1 \in 1..Len(down[c])
      BY <2>16 DEF TakeData, PopDown, ServerSame, TableSame, ClientSame, QueuesSame, client,
         server, fixed, past
    <3>2. Alone(d)
      BY <3>1, AloneShrinks
    <3>3. down[d] = <<>> /\ OnlyCloses(up[d]) /\ cl[d] \in {"none", "vouch", "closed"}
      BY <3>2 DEF AloneInv
    <3>4. d # c
      BY <3>1, <3>3
    <3>5. down'[d] = down[d] /\ up'[d] = up[d] /\ cl'[d] = cl[d]
      BY <2>16, <3>4 DEF TakeData, PopDown, PushUp, ClientSame, TunnelTypes
    <3> QED BY <3>3, <3>5
  <2>17. CASE SkipVouch(c)
    <3> SUFFICES ASSUME NEW d \in Conn, Alone(d)'
                 PROVE  /\ down'[d] = <<>> /\ OnlyCloses(up'[d])
                        /\ cl'[d] \in {"none", "vouch", "closed"}
      BY DEF AloneInv, OnlyCloses
    <3>1. attached \subseteq attached' /\ side' = side /\ 1 \in 1..Len(down[c])
      BY <2>17 DEF SkipVouch, PopDown, ServerSame, TableSame, ClientSame, QueuesSame, client,
         server, fixed, past
    <3>2. Alone(d)
      BY <3>1, AloneShrinks
    <3>3. down[d] = <<>> /\ OnlyCloses(up[d]) /\ cl[d] \in {"none", "vouch", "closed"}
      BY <3>2 DEF AloneInv
    <3>4. d # c
      BY <3>1, <3>3
    <3>5. down'[d] = down[d] /\ up'[d] = up[d] /\ cl'[d] = cl[d]
      BY <2>17, <3>4 DEF SkipVouch, PopDown, PushUp, ClientSame, TunnelTypes
    <3> QED BY <3>3, <3>5
  <2>18. CASE DataStep(c)
    <3> SUFFICES ASSUME NEW d \in Conn, Alone(d)'
                 PROVE  /\ down'[d] = <<>> /\ OnlyCloses(up'[d])
                        /\ cl'[d] \in {"none", "vouch", "closed"}
      BY DEF AloneInv, OnlyCloses
    <3>1. attached \subseteq attached' /\ side' = side /\ cl[c] = "open" /\ down' = down /\ cl' = cl
      BY <2>18 DEF DataStep, ServerSame, TableSame, ClientSame, QueuesSame, client, server,
         fixed, past
    <3>2. Alone(d)
      BY <3>1, AloneShrinks
    <3>3. down[d] = <<>> /\ OnlyCloses(up[d]) /\ cl[d] \in {"none", "vouch", "closed"}
      BY <3>2 DEF AloneInv
    <3>4. d # c
      BY <3>1, <3>3
    <3>5. up'[d] = up[d]
      BY <2>18, <3>4 DEF DataStep, PushUp
    <3> QED BY <3>1, <3>3, <3>5
  <2>19. CASE CloseStep(c)
    <3> SUFFICES ASSUME NEW d \in Conn, Alone(d)'
                 PROVE  /\ down'[d] = <<>> /\ OnlyCloses(up'[d])
                        /\ cl'[d] \in {"none", "vouch", "closed"}
      BY DEF AloneInv, OnlyCloses
    <3>1. attached \subseteq attached' /\ side' = side /\ down' = down
      BY <2>19 DEF CloseStep, ServerSame, TableSame, ClientSame, QueuesSame, client, server,
         fixed, past
    <3>2. Alone(d)
      BY <3>1, AloneShrinks
    <3>3. down[d] = <<>> /\ OnlyCloses(up[d]) /\ cl[d] \in {"none", "vouch", "closed"}
      BY <3>2 DEF AloneInv
    <3>4. cl'[d] \in {"none", "vouch", "closed"}
      BY <2>19, <3>3 DEF CloseStep, TunnelTypes
    <3>5. OnlyCloses(up'[d])
      <4>1. CASE d = c
        BY <2>19, <3>3, <4>1 DEF CloseStep, PushUp, Pushed, OnlyCloses
      <4>2. CASE d # c
        BY <2>19, <3>3, <4>2 DEF CloseStep, PushUp
      <4> QED BY <4>1, <4>2
    <3> QED BY <3>1, <3>3, <3>4, <3>5
  <2> QED BY <1>4, <2>1, <2>2, <2>3, <2>4, <2>5, <2>6, <2>7, <2>8, <2>9, <2>10, <2>11, <2>12,
     <2>13, <2>14, <2>15, <2>16, <2>17, <2>18, <2>19 DEF TunnelStep
<1> QED BY <1>1, <1>2, <1>3, <1>4, StepCases

\* Taking messages out of a queue, emptying it and putting others in.
LEMMA HoldsFacts ==
    ASSUME NEW q, NEW r
    PROVE  /\ Popped(q, r) => \A t : Holds(r, t) => Holds(q, t)
           /\ \A m : Pushed(q, r, m) => \A t : Holds(r, t) => Holds(q, t) \/ m.t = t
           /\ r = <<>> => \A t : ~Holds(r, t)
<1>1. Popped(q, r) => \A t : Holds(r, t) => Holds(q, t)
  BY DEF Popped, Holds
<1>2. ASSUME NEW m, Pushed(q, r, m), NEW t, Holds(r, t) PROVE Holds(q, t) \/ m.t = t
  BY <1>2 DEF Pushed, Holds
<1>3. r = <<>> => \A t : ~Holds(r, t)
  BY DEF Holds
<1> QED BY <1>1, <1>2, <1>3

\* A queue holds no more kinds than it did and the one pushed.
LEMMA HoldsPushed ==
    ASSUME NEW q, NEW r, NEW m, NEW t, Pushed(q, r, m), ~Holds(q, t), m.t # t
    PROVE  ~Holds(r, t)
  BY DEF Pushed, Holds

\* A client has what its phase calls for.
LEMMA NextClientInv ==
    ASSUME TunnelTypes, HubInv, AloneInv, ClientInv, FrameInv, Next
    PROVE  ClientInv'
<1>1. CASE Offer
  <2>1. attached' = attached /\ side' = side /\ UNCHANGED <<down, up, cl, pc, rx, peerEph, sess, sent, rcvd>>
    BY <1>1 DEF Offer, client, server, fixed, past
  <2> QED BY <2>1 DEF ClientInv, ClientOf, Past, Ended
<1>2. CASE Sweep
  <2>1. attached' = attached /\ side' = side /\ UNCHANGED <<down, up, cl, pc, rx, peerEph, sess, sent, rcvd>>
    BY <1>2 DEF Sweep, client, server, fixed, past
  <2> QED BY <2>1 DEF ClientInv, ClientOf, Past, Ended
<1>3. ASSUME NEW x \in Side, Rotate(x) PROVE ClientInv'
  <2>1. attached' = attached /\ side' = side /\ UNCHANGED <<down, up, cl, pc, rx, peerEph, sess, sent, rcvd>>
    BY <1>3 DEF Rotate, client, server, fixed, past
  <2> QED BY <2>1 DEF ClientInv, ClientOf, Past, Ended
<1>4. ASSUME NEW c \in Conn, TunnelStep(c) PROVE ClientInv'
  <2>1. CASE Connect(c)
    <3> SUFFICES ASSUME NEW d \in Conn PROVE ClientOf(d)'
      BY DEF ClientInv
    <3>0. ClientOf(d)
      BY DEF ClientInv
    <3>1. c \notin attached /\ attached' = attached /\ attached \subseteq Conn
      BY <2>1 DEF Connect, past, HubInv, Early, TunnelTypes
    <3>2. /\ UNCHANGED <<down, up, rx, peerEph, sess, sent, rcvd>>
          /\ \A e \in Conn : e # c => side'[e] = side[e] /\ cl'[e] = cl[e] /\ pc'[e] = pc[e]
          /\ pc'[c] # "new" /\ cl'[c] \in {"vouch", "closed"} /\ pc[c] = "new"
      BY <2>1 DEF Connect, past, TunnelTypes, Goto
    <3>3. CASE d = c
      <4>1. Alone(c)
        BY <3>1 DEF Alone
      <4>2. down[c] = <<>> /\ OnlyCloses(up[c]) /\ cl[c] = "none" /\ peerEph[c] = NoConn /\ sess[c] = NoConn
        BY <3>0, <3>2, <3>3, <4>1 DEF AloneInv, ClientOf, Past
      <4>3. ~Holds(up[c], "close")
        BY <3>0, <3>3, <4>2 DEF ClientOf, Ended
      <4> QED BY <3>0, <3>2, <3>3, <4>2, <4>3 DEF ClientOf, Past
    <3>4. CASE d # c
      <4>1. peerEph[d] # NoConn => peerEph[d] # c /\ peerEph[d] \in Conn
        BY <3>0, <3>1 DEF ClientOf
      <4> QED BY <3>0, <3>1, <3>2, <3>4, <4>1 DEF ClientOf, Past, Ended
    <3> QED BY <3>3, <3>4
  <2>2. CASE LookupFingerprint(c)
    <3> SUFFICES ASSUME NEW d \in Conn PROVE ClientOf(d)'
      BY DEF ClientInv
    <3>0. ClientOf(d)
      BY DEF ClientInv
    <3>1. /\ attached \subseteq attached' /\ side' = side /\ rx' = rx
          /\ UNCHANGED <<down, up, cl, peerEph, sess, sent, rcvd>>
      BY <2>2 DEF LookupFingerprint, ServerSame, TableSame, ClientSame, QueuesSame, client,
         server, fixed, past
    <3>2. pc'[d] = "new" <=> pc[d] = "new"
      BY <2>2 DEF LookupFingerprint, TableSame, TunnelTypes, Goto
    <3> QED BY <3>0, <3>1, <3>2 DEF ClientOf, Past, Ended
  <2>3. CASE RegisterStep(c)
    <3> SUFFICES ASSUME NEW d \in Conn PROVE ClientOf(d)'
      BY DEF ClientInv
    <3>0. ClientOf(d)
      BY DEF ClientInv
    <3>1. /\ attached \subseteq attached' /\ side' = side /\ rx' = rx
          /\ UNCHANGED <<down, up, cl, peerEph, sess, sent, rcvd>>
      BY <2>3 DEF RegisterStep, ServerSame, TableSame, ClientSame, QueuesSame, client, server,
         fixed, past
    <3>2. pc'[d] = "new" <=> pc[d] = "new"
      BY <2>3 DEF RegisterStep, TableSame, TunnelTypes, Goto
    <3> QED BY <3>0, <3>1, <3>2 DEF ClientOf, Past, Ended
  <2>4. CASE TooLateStep(c)
    <3> SUFFICES ASSUME NEW d \in Conn PROVE ClientOf(d)'
      BY DEF ClientInv
    <3>0. ClientOf(d)
      BY DEF ClientInv
    <3>1. /\ attached \subseteq attached' /\ side' = side /\ rx' = rx
          /\ UNCHANGED <<down, up, cl, peerEph, sess, sent, rcvd>>
      BY <2>4 DEF TooLateStep, ServerSame, TableSame, ClientSame, QueuesSame, client, server,
         fixed, past
    <3>2. pc'[d] = "new" <=> pc[d] = "new"
      BY <2>4 DEF TooLateStep, TableSame, TunnelTypes, Goto
    <3> QED BY <3>0, <3>1, <3>2 DEF ClientOf, Past, Ended
  <2>5. CASE VouchMeStep(c)
    <3> SUFFICES ASSUME NEW d \in Conn PROVE ClientOf(d)'
      BY DEF ClientInv
    <3>0. ClientOf(d)
      BY DEF ClientInv
    <3>1. /\ attached' = attached /\ side' = side /\ rx' = rx
          /\ UNCHANGED <<up, cl, peerEph, sess, sent, rcvd>>
      BY <2>5 DEF VouchMeStep, ServerSame, TableSame, ClientSame, QueuesSame, client, server,
         fixed, past
    <3>2. pc'[d] = "new" <=> pc[d] = "new"
      BY <2>5 DEF VouchMeStep, TunnelTypes
    <3>3. ~rx[d] => down'[d] = down[d]
      BY <2>5 DEF VouchMeStep, PushDown
    <3> QED BY <3>0, <3>1, <3>2, <3>3 DEF ClientOf, Past, Ended
  <2>6. CASE VouchPeerStep(c)
    <3> SUFFICES ASSUME NEW d \in Conn PROVE ClientOf(d)'
      BY DEF ClientInv
    <3>0. ClientOf(d)
      BY DEF ClientInv
    <3>1. /\ attached' = attached /\ side' = side /\ rx' = rx
          /\ UNCHANGED <<up, cl, peerEph, sess, sent, rcvd>>
      BY <2>6 DEF VouchPeerStep, ServerSame, TableSame, ClientSame, QueuesSame, client, server,
         fixed, past
    <3>2. pc'[d] = "new" <=> pc[d] = "new"
      BY <2>6 DEF VouchPeerStep, TunnelTypes
    <3>3. ~rx[d] => down'[d] = down[d]
      BY <2>6 DEF VouchPeerStep, PushDown
    <3> QED BY <3>0, <3>1, <3>2, <3>3 DEF ClientOf, Past, Ended
  <2>7. CASE DropStep(c)
    <3> SUFFICES ASSUME NEW d \in Conn PROVE ClientOf(d)'
      BY DEF ClientInv
    <3>0. ClientOf(d)
      BY DEF ClientInv
    <3>1. /\ attached' = attached /\ side' = side /\ rx' = rx
          /\ UNCHANGED <<cl, peerEph, sess, sent, rcvd>>
      BY <2>7 DEF DropStep, ServerSame, TableSame, ClientSame, QueuesSame, client, server,
         fixed, past
    <3>2. pc'[d] = "new" <=> pc[d] = "new"
      BY <2>7 DEF DropStep, ServerSame, TunnelTypes
    <3>3. ~rx[d] => down'[d] = down[d]
      BY <2>7 DEF DropStep, PushDown
    <3>4. Holds(up'[d], "close") => Holds(up[d], "close")
      BY <2>7, HoldsFacts DEF DropStep, PopUp
    <3> QED BY <3>0, <3>1, <3>2, <3>3, <3>4 DEF ClientOf, Past, Ended
  <2>8. CASE FindStep(c)
    <3> SUFFICES ASSUME NEW d \in Conn PROVE ClientOf(d)'
      BY DEF ClientInv
    <3>0. ClientOf(d)
      BY DEF ClientInv
    <3>1. /\ attached \subseteq attached' /\ side' = side /\ rx' = rx
          /\ UNCHANGED <<down, up, cl, peerEph, sess, sent, rcvd>>
      BY <2>8 DEF FindStep, ServerSame, TableSame, ClientSame, QueuesSame, client, server,
         fixed, past
    <3>2. pc'[d] = "new" <=> pc[d] = "new"
      BY <2>8 DEF FindStep, TableSame, TunnelTypes, Goto
    <3> QED BY <3>0, <3>1, <3>2 DEF ClientOf, Past, Ended
  <2>9. CASE ForwardStep(c)
    <3> SUFFICES ASSUME NEW d \in Conn PROVE ClientOf(d)'
      BY DEF ClientInv
    <3>0. ClientOf(d)
      BY DEF ClientInv
    <3>1. /\ attached' = attached /\ side' = side /\ rx' = rx
          /\ UNCHANGED <<cl, peerEph, sess, sent, rcvd>>
      BY <2>9 DEF ForwardStep, ServerSame, TableSame, ClientSame, QueuesSame, client, server,
         fixed, past
    <3>2. pc'[d] = "new" <=> pc[d] = "new"
      BY <2>9 DEF ForwardStep, ServerSame, TunnelTypes
    <3>3. ~rx[d] => down'[d] = down[d]
      BY <2>9 DEF ForwardStep, PushDown
    <3>4. Holds(up'[d], "close") => Holds(up[d], "close")
      BY <2>9, HoldsFacts DEF ForwardStep, PopUp
    <3> QED BY <3>0, <3>1, <3>2, <3>3, <3>4 DEF ClientOf, Past, Ended
  <2>10. CASE ForwardFails(c)
    <3> SUFFICES ASSUME NEW d \in Conn PROVE ClientOf(d)'
      BY DEF ClientInv
    <3>0. ClientOf(d)
      BY DEF ClientInv
    <3>1. /\ attached' = attached /\ side' = side /\ rx' = rx
          /\ UNCHANGED <<cl, peerEph, sess, sent, rcvd>>
      BY <2>10 DEF ForwardFails, ServerSame, TableSame, ClientSame, QueuesSame, client, server,
         fixed, past
    <3>2. pc'[d] = "new" <=> pc[d] = "new"
      BY <2>10 DEF ForwardFails, ServerSame, TunnelTypes
    <3>3. ~rx[d] => down'[d] = down[d]
      BY <2>10 DEF ForwardFails, PushDown
    <3>4. Holds(up'[d], "close") => Holds(up[d], "close")
      BY <2>10, HoldsFacts DEF ForwardFails, PopUp
    <3> QED BY <3>0, <3>1, <3>2, <3>3, <3>4 DEF ClientOf, Past, Ended
  <2>11. CASE SeeCloseStep(c)
    <3> SUFFICES ASSUME NEW d \in Conn PROVE ClientOf(d)'
      BY DEF ClientInv
    <3>0. ClientOf(d)
      BY DEF ClientInv
    <3>1. /\ attached' = attached /\ side' = side /\ rx' = rx
          /\ UNCHANGED <<cl, peerEph, sess, sent, rcvd>>
      BY <2>11 DEF SeeCloseStep, ServerSame, TableSame, ClientSame, QueuesSame, client, server,
         fixed, past
    <3>2. pc'[d] = "new" <=> pc[d] = "new"
      BY <2>11 DEF SeeCloseStep, ServerSame, TunnelTypes
    <3>3. ~rx[d] => down'[d] = down[d]
      BY <2>11 DEF SeeCloseStep, PushDown
    <3>4. Holds(up'[d], "close") => Holds(up[d], "close")
      BY <2>11, HoldsFacts DEF SeeCloseStep, PopUp
    <3> QED BY <3>0, <3>1, <3>2, <3>3, <3>4 DEF ClientOf, Past, Ended
  <2>12. CASE TeardownStep(c)
    <3> SUFFICES ASSUME NEW d \in Conn PROVE ClientOf(d)'
      BY DEF ClientInv
    <3>0. ClientOf(d)
      BY DEF ClientInv
    <3>1. /\ attached \subseteq attached' /\ side' = side /\ rx' = rx
          /\ UNCHANGED <<down, up, cl, peerEph, sess, sent, rcvd>>
      BY <2>12 DEF TeardownStep, ServerSame, TableSame, ClientSame, QueuesSame, client, server,
         fixed, past
    <3>2. pc'[d] = "new" <=> pc[d] = "new"
      BY <2>12 DEF TeardownStep, TableSame, TunnelTypes, Goto
    <3> QED BY <3>0, <3>1, <3>2 DEF ClientOf, Past, Ended
  <2>13. CASE TellStep(c)
    <3> SUFFICES ASSUME NEW d \in Conn PROVE ClientOf(d)'
      BY DEF ClientInv
    <3>0. ClientOf(d)
      BY DEF ClientInv
    <3>1. /\ attached' = attached /\ side' = side /\ rx' = rx
          /\ UNCHANGED <<up, cl, peerEph, sess, sent, rcvd>>
      BY <2>13 DEF TellStep, ServerSame, TableSame, ClientSame, QueuesSame, client, server,
         fixed, past
    <3>2. pc'[d] = "new" <=> pc[d] = "new"
      BY <2>13 DEF TellStep, TunnelTypes
    <3>3. ~rx[d] => down'[d] = down[d]
      BY <2>13 DEF TellStep, PushDown
    <3> QED BY <3>0, <3>1, <3>2, <3>3 DEF ClientOf, Past, Ended
  <2>14. CASE PumpStep(c)
    <3> SUFFICES ASSUME NEW d \in Conn PROVE ClientOf(d)'
      BY DEF ClientInv
    <3>0. ClientOf(d)
      BY DEF ClientInv
    <3>1. /\ attached' = attached /\ side' = side /\ pc' = pc
          /\ UNCHANGED <<peerEph, sess, sent, rcvd>>
      BY <2>14 DEF PumpStep, ServerSame, TableSame, ClientSame, QueuesSame, client, server,
         fixed, past
    <3>2. d # c => cl'[d] = cl[d] /\ up'[d] = up[d] /\ down'[d] = down[d] /\ (rx'[d] <=> rx[d])
      BY <2>14 DEF PumpStep, PushUp, TunnelTypes
    <3>3. down'[c] = <<>>
      BY <2>14 DEF PumpStep
    <3>4. CASE cl' = cl /\ up' = up
      BY <3>0, <3>1, <3>2, <3>3, <3>4 DEF ClientOf, Past, Ended
    <3>5. CASE ~Ended(c) /\ down[c] # <<>> /\ cl' = [cl EXCEPT ![c] = "closed"]
      <4>1. ~Alone(c)
        BY <3>5 DEF AloneInv
      <4>2. pc[c] # "new"
        BY <4>1 DEF Alone, HubInv, Early
      <4>3. cl'[c] = "closed"
        BY <3>5 DEF TunnelTypes
      <4> QED BY <3>0, <3>1, <3>2, <3>3, <4>2, <4>3 DEF ClientOf, Past, Ended
    <3> QED BY <2>14, <3>4, <3>5 DEF PumpStep
  <2>15. CASE SocketDrops(c)
    <3> SUFFICES ASSUME NEW d \in Conn PROVE ClientOf(d)'
      BY DEF ClientInv
    <3>0. ClientOf(d)
      BY DEF ClientInv
    <3>1. /\ attached' = attached /\ side' = side /\ pc' = pc /\ rx' = rx /\ down' = down /\ up' = up
          /\ UNCHANGED <<peerEph, sess, sent, rcvd>> /\ pc[c] = "done"
      BY <2>15 DEF SocketDrops, ServerSame, TableSame, ClientSame, QueuesSame, client, server,
         fixed, past
    <3>2. cl'[d] = IF d = c THEN "closed" ELSE cl[d]
      BY <2>15 DEF SocketDrops, TunnelTypes
    <3> QED BY <3>0, <3>1, <3>2 DEF ClientOf, Past, Ended
  <2>16. CASE FailStep(c)
    <3> SUFFICES ASSUME NEW d \in Conn PROVE ClientOf(d)'
      BY DEF ClientInv
    <3>0. ClientOf(d)
      BY DEF ClientInv
    <3>1. attached' = attached /\ side' = side /\ pc' = pc /\ rx' = rx
      BY <2>16 DEF FailStep, ServerSame, TableSame, ClientSame, QueuesSame, client, server,
         fixed, past
    <3>2. d # c => /\ cl'[d] = cl[d] /\ up'[d] = up[d] /\ down'[d] = down[d]
                   /\ peerEph'[d] = peerEph[d] /\ sess'[d] = sess[d] /\ sent'[d] = sent[d]
                   /\ rcvd'[d] = rcvd[d]
      BY <2>16 DEF FailStep, PopDown, PushUp, TunnelTypes, ClientSame
    <3>3. CASE d # c
      BY <3>0, <3>1, <3>2, <3>3 DEF ClientOf, Past, Ended
    <3>4. CASE d = c
      <4>1. rx[c]
        BY <2>16, <3>0, <3>4 DEF FailStep, PopDown, ClientOf
      <4>2. cl'[c] = "failed" /\ UNCHANGED <<peerEph, sess, sent, rcvd>>
        BY <2>16 DEF FailStep, TunnelTypes
      <4>3. cl[c] \in {"vouch", "eph", "hs", "open"}
        BY <2>16 DEF FailStep
      <4> QED BY <3>0, <3>1, <3>4, <4>1, <4>2, <4>3 DEF ClientOf, Past, Ended
    <3> QED BY <3>3, <3>4
  <2>17. CASE TakeVouch(c)
    <3> SUFFICES ASSUME NEW d \in Conn PROVE ClientOf(d)'
      BY DEF ClientInv
    <3>0. ClientOf(d)
      BY DEF ClientInv
    <3>1. attached' = attached /\ side' = side /\ pc' = pc /\ rx' = rx
      BY <2>17 DEF TakeVouch, ServerSame, TableSame, ClientSame, QueuesSame, client, server,
         fixed, past
    <3>2. d # c => /\ cl'[d] = cl[d] /\ up'[d] = up[d] /\ down'[d] = down[d]
                   /\ peerEph'[d] = peerEph[d] /\ sess'[d] = sess[d] /\ sent'[d] = sent[d]
                   /\ rcvd'[d] = rcvd[d]
      BY <2>17 DEF TakeVouch, PopDown, PushUp, TunnelTypes, ClientSame
    <3>3. CASE d # c
      BY <3>0, <3>1, <3>2, <3>3 DEF ClientOf, Past, Ended
    <3>4. CASE d = c
      <4>1. rx[c]
        BY <2>17, <3>0, <3>4 DEF TakeVouch, PopDown, ClientOf
      <4>2. cl'[c] = "eph" /\ cl[c] = "vouch" /\ UNCHANGED <<peerEph, sess, sent, rcvd>>
        BY <2>17 DEF TakeVouch, TunnelTypes
      <4>3. ~Holds(up'[c], "close")
        <5>1. ~Holds(up[c], "close")
          BY <3>0, <3>4, <4>2 DEF ClientOf, Ended
        <5>3. PICK m : m = [t |-> "eph", of |-> c]
          OBVIOUS
        <5>4. m.t # "close"
          BY <5>3 DEF Signed
        <5>5. Pushed(up[c], up'[c], m)
          BY <2>17, <5>3 DEF TakeVouch, PushUp
        <5> QED BY <5>1, <5>4, <5>5, HoldsPushed
      <4> QED BY <3>0, <3>1, <3>4, <4>1, <4>2, <4>3 DEF ClientOf, Past, Ended
    <3> QED BY <3>3, <3>4
  <2>18. CASE TakeKey(c)
    <3> SUFFICES ASSUME NEW d \in Conn PROVE ClientOf(d)'
      BY DEF ClientInv
    <3>0. ClientOf(d)
      BY DEF ClientInv
    <3>1. attached' = attached /\ side' = side /\ pc' = pc /\ rx' = rx
      BY <2>18 DEF TakeKey, ServerSame, TableSame, ClientSame, QueuesSame, client, server,
         fixed, past
    <3>2. d # c => /\ cl'[d] = cl[d] /\ up'[d] = up[d] /\ down'[d] = down[d]
                   /\ peerEph'[d] = peerEph[d] /\ sess'[d] = sess[d] /\ sent'[d] = sent[d]
                   /\ rcvd'[d] = rcvd[d]
      BY <2>18 DEF TakeKey, PopDown, PushUp, TunnelTypes, ClientSame
    <3>3. CASE d # c
      BY <3>0, <3>1, <3>2, <3>3 DEF ClientOf, Past, Ended
    <3>4. CASE d = c
      <4>1. rx[c]
        BY <2>18, <3>0, <3>4 DEF TakeKey, PopDown, ClientOf
      <4>2. /\ cl'[c] = "hs" /\ cl[c] = "eph" /\ UNCHANGED <<sess, sent, rcvd>>
            /\ peerEph'[c] = down[c][1].of
        BY <2>18 DEF TakeKey, TunnelTypes
      <4>3. ~Holds(up'[c], "close")
        <5>1. ~Holds(up[c], "close")
          BY <3>0, <3>4, <4>2 DEF ClientOf, Ended
        <5>3. PICK m : m = Signed(c, down[c][1].of)
          OBVIOUS
        <5>4. m.t # "close"
          BY <5>3 DEF Signed
        <5>5. Pushed(up[c], up'[c], m)
          BY <2>18, <5>3 DEF TakeKey, PushUp
        <5> QED BY <5>1, <5>4, <5>5, HoldsPushed
      <4>4. down[c][1].of \in attached /\ side[down[c][1].of] # side[c]
        BY <2>18 DEF TakeKey, PopDown, FrameInv, Inbound
      <4> QED BY <3>0, <3>1, <3>4, <4>1, <4>2, <4>3, <4>4 DEF ClientOf, Past, Ended
    <3> QED BY <3>3, <3>4
  <2>19. CASE TakeHandshake(c)
    <3> SUFFICES ASSUME NEW d \in Conn PROVE ClientOf(d)'
      BY DEF ClientInv
    <3>0. ClientOf(d)
      BY DEF ClientInv
    <3>1. attached' = attached /\ side' = side /\ pc' = pc /\ rx' = rx
      BY <2>19 DEF TakeHandshake, ServerSame, TableSame, ClientSame, QueuesSame, client, server,
         fixed, past
    <3>2. d # c => /\ cl'[d] = cl[d] /\ up'[d] = up[d] /\ down'[d] = down[d]
                   /\ peerEph'[d] = peerEph[d] /\ sess'[d] = sess[d] /\ sent'[d] = sent[d]
                   /\ rcvd'[d] = rcvd[d]
      BY <2>19 DEF TakeHandshake, PopDown, PushUp, TunnelTypes, ClientSame
    <3>3. CASE d # c
      BY <3>0, <3>1, <3>2, <3>3 DEF ClientOf, Past, Ended
    <3>4. CASE d = c
      <4>1. rx[c]
        BY <2>19, <3>0, <3>4 DEF TakeHandshake, PopDown, ClientOf
      <4>2. /\ cl'[c] = "open" /\ cl[c] = "hs" /\ UNCHANGED <<peerEph, sent, rcvd, up>>
            /\ sess'[c] = down[c][1].of
        BY <2>19 DEF TakeHandshake, TunnelTypes
      <4>3. down[c][1].of \in Conn /\ down[c][1].of # NoConn
        BY <2>19, MsgShape, TunnelAssumption DEF TakeHandshake, PopDown, Completes
      <4> QED BY <3>0, <3>1, <3>4, <4>1, <4>2, <4>3 DEF ClientOf, Past, Ended
    <3> QED BY <3>3, <3>4
  <2>20. CASE TakeData(c)
    <3> SUFFICES ASSUME NEW d \in Conn PROVE ClientOf(d)'
      BY DEF ClientInv
    <3>0. ClientOf(d)
      BY DEF ClientInv
    <3>1. attached' = attached /\ side' = side /\ pc' = pc /\ rx' = rx
      BY <2>20 DEF TakeData, ServerSame, TableSame, ClientSame, QueuesSame, client, server,
         fixed, past
    <3>2. d # c => /\ cl'[d] = cl[d] /\ up'[d] = up[d] /\ down'[d] = down[d]
                   /\ peerEph'[d] = peerEph[d] /\ sess'[d] = sess[d] /\ sent'[d] = sent[d]
                   /\ rcvd'[d] = rcvd[d]
      BY <2>20 DEF TakeData, PopDown, PushUp, TunnelTypes, ClientSame
    <3>3. CASE d # c
      BY <3>0, <3>1, <3>2, <3>3 DEF ClientOf, Past, Ended
    <3>4. CASE d = c
      <4>1. rx[c]
        BY <2>20, <3>0, <3>4 DEF TakeData, PopDown, ClientOf
      <4>2. cl' = cl /\ cl[c] = "open" /\ UNCHANGED <<peerEph, sess, sent, up>>
        BY <2>20 DEF TakeData, TunnelTypes
      <4> QED BY <3>0, <3>1, <3>4, <4>1, <4>2 DEF ClientOf, Past, Ended
    <3> QED BY <3>3, <3>4
  <2>21. CASE SkipVouch(c)
    <3> SUFFICES ASSUME NEW d \in Conn PROVE ClientOf(d)'
      BY DEF ClientInv
    <3>0. ClientOf(d)
      BY DEF ClientInv
    <3>1. attached' = attached /\ side' = side /\ pc' = pc /\ rx' = rx
      BY <2>21 DEF SkipVouch, ServerSame, TableSame, ClientSame, QueuesSame, client, server,
         fixed, past
    <3>2. d # c => /\ cl'[d] = cl[d] /\ up'[d] = up[d] /\ down'[d] = down[d]
                   /\ peerEph'[d] = peerEph[d] /\ sess'[d] = sess[d] /\ sent'[d] = sent[d]
                   /\ rcvd'[d] = rcvd[d]
      BY <2>21 DEF SkipVouch, PopDown, PushUp, TunnelTypes, ClientSame
    <3>3. CASE d # c
      BY <3>0, <3>1, <3>2, <3>3 DEF ClientOf, Past, Ended
    <3>4. CASE d = c
      <4>1. rx[c]
        BY <2>21, <3>0, <3>4 DEF SkipVouch, PopDown, ClientOf
      <4>2. cl' = cl /\ cl[c] = "open" /\ UNCHANGED <<peerEph, sess, sent, rcvd, up>>
        BY <2>21 DEF SkipVouch, ClientSame
      <4> QED BY <3>0, <3>1, <3>4, <4>1, <4>2 DEF ClientOf, Past, Ended
    <3> QED BY <3>3, <3>4
  <2>22. CASE DataStep(c)
    <3> SUFFICES ASSUME NEW d \in Conn PROVE ClientOf(d)'
      BY DEF ClientInv
    <3>0. ClientOf(d)
      BY DEF ClientInv
    <3>1. attached' = attached /\ side' = side /\ pc' = pc /\ rx' = rx
      BY <2>22 DEF DataStep, ServerSame, TableSame, ClientSame, QueuesSame, client, server,
         fixed, past
    <3>2. d # c => /\ cl'[d] = cl[d] /\ up'[d] = up[d] /\ down'[d] = down[d]
                   /\ peerEph'[d] = peerEph[d] /\ sess'[d] = sess[d] /\ sent'[d] = sent[d]
                   /\ rcvd'[d] = rcvd[d]
      BY <2>22 DEF DataStep, PopDown, PushUp, TunnelTypes, ClientSame
    <3>3. CASE d # c
      BY <3>0, <3>1, <3>2, <3>3 DEF ClientOf, Past, Ended
    <3>4. CASE d = c
      <4>2. cl' = cl /\ cl[c] = "open" /\ UNCHANGED <<peerEph, sess, rcvd, down>>
        BY <2>22 DEF DataStep
      <4>3. ~Holds(up'[c], "close")
        <5>1. ~Holds(up[c], "close")
          BY <3>0, <3>4, <4>2 DEF ClientOf, Ended
        <5>3. PICK m : m = [t |-> "data", of |-> c, key |-> {c, sess[c]}, n |-> sent[c]]
          OBVIOUS
        <5>4. m.t # "close"
          BY <5>3 DEF Signed
        <5>5. Pushed(up[c], up'[c], m)
          BY <2>22, <5>3 DEF DataStep, PushUp
        <5> QED BY <5>1, <5>4, <5>5, HoldsPushed
      <4> QED BY <3>0, <3>1, <3>4, <4>2, <4>3 DEF ClientOf, Past, Ended
    <3> QED BY <3>3, <3>4
  <2>23. CASE CloseStep(c)
    <3> SUFFICES ASSUME NEW d \in Conn PROVE ClientOf(d)'
      BY DEF ClientInv
    <3>0. ClientOf(d)
      BY DEF ClientInv
    <3>1. attached' = attached /\ side' = side /\ pc' = pc /\ rx' = rx
      BY <2>23 DEF CloseStep, ServerSame, TableSame, ClientSame, QueuesSame, client, server,
         fixed, past
    <3>2. d # c => /\ cl'[d] = cl[d] /\ up'[d] = up[d] /\ down'[d] = down[d]
                   /\ peerEph'[d] = peerEph[d] /\ sess'[d] = sess[d] /\ sent'[d] = sent[d]
                   /\ rcvd'[d] = rcvd[d]
      BY <2>23 DEF CloseStep, PopDown, PushUp, TunnelTypes, ClientSame
    <3>3. CASE d # c
      BY <3>0, <3>1, <3>2, <3>3 DEF ClientOf, Past, Ended
    <3>4. CASE d = c
      <4>2. cl'[c] = "closed" /\ UNCHANGED <<peerEph, sess, sent, rcvd, down>>
        BY <2>23 DEF CloseStep, TunnelTypes
      <4>3. cl[c] \in {"vouch", "eph", "hs", "open"}
        BY <2>23 DEF CloseStep
      <4> QED BY <3>0, <3>1, <3>4, <4>2, <4>3 DEF ClientOf, Past, Ended
    <3> QED BY <3>3, <3>4
  <2> QED BY <1>4, <2>1, <2>2, <2>3, <2>4, <2>5, <2>6, <2>7, <2>8, <2>9, <2>10, <2>11, <2>12,
     <2>13, <2>14, <2>15, <2>16, <2>17, <2>18, <2>19, <2>20, <2>21, <2>22, <2>23 DEF TunnelStep
<1> QED BY <1>1, <1>2, <1>3, <1>4, StepCases

\* What no step takes back: attachments, received keys, sessions.
Steady ==
    /\ attached \subseteq attached' /\ \A q \in attached : side'[q] = side[q]
    /\ \A q \in Conn : peerEph[q] # NoConn =>
          peerEph'[q] = peerEph[q] /\ side'[q] = side[q] /\ cert'[q] = cert[q]
    /\ \A q \in Conn : sess[q] # NoConn => sess'[q] = sess[q]
    /\ \A q \in Conn : sent[q] <= sent'[q]

\* No step takes back what Steady lists.
LEMMA NextSteady ==
    ASSUME TunnelTypes, HubInv, ClientInv, Next
    PROVE  Steady
<1>0. \A q \in Conn : sent[q] \in Nat /\ sent[q] <= sent[q] /\ sent[q] <= sent[q] + 1
  BY TunnelAssumption DEF TunnelTypes
<1>1. CASE Offer
  <2>1. UNCHANGED <<attached, side, cert, peerEph, sess, sent>>
    BY <1>1 DEF Offer, client, server, fixed, past
  <2> QED BY <2>1, <1>0 DEF Steady
<1>2. CASE Sweep
  <2>1. UNCHANGED <<attached, side, cert, peerEph, sess, sent>>
    BY <1>2 DEF Sweep, client, server, fixed, past
  <2> QED BY <2>1, <1>0 DEF Steady
<1>3. ASSUME NEW x \in Side, Rotate(x) PROVE Steady
  <2>1. UNCHANGED <<attached, side, cert, peerEph, sess, sent>>
    BY <1>3 DEF Rotate, client, server, fixed, past
  <2> QED BY <2>1, <1>0 DEF Steady
<1>4. ASSUME NEW c \in Conn, TunnelStep(c) PROVE Steady
  <2>1. CASE LookupFingerprint(c) \/ TooLateStep(c) \/ VouchMeStep(c) \/ VouchPeerStep(c)
             \/ DropStep(c) \/ FindStep(c) \/ ForwardStep(c) \/ ForwardFails(c)
             \/ SeeCloseStep(c) \/ TeardownStep(c) \/ TellStep(c) \/ PumpStep(c)
             \/ SocketDrops(c) \/ FailStep(c) \/ TakeVouch(c) \/ TakeData(c) \/ SkipVouch(c)
             \/ CloseStep(c)
    <3>1. UNCHANGED <<attached, side, cert, peerEph, sess, sent>>
      BY <2>1 DEF LookupFingerprint, TooLateStep, VouchMeStep, VouchPeerStep, DropStep,
         FindStep, ForwardStep, ForwardFails, SeeCloseStep, TeardownStep, TellStep, PumpStep,
         SocketDrops, FailStep, TakeVouch, TakeData, SkipVouch, CloseStep, ServerSame,
         TableSame, ClientSame, QueuesSame, client, server, fixed, past
    <3> QED BY <1>0, <3>1 DEF Steady
  <2>2. CASE Connect(c)
    <3>1. /\ UNCHANGED <<attached, peerEph, sess, sent>> /\ pc[c] = "new"
          /\ \A q \in Conn : q # c => side'[q] = side[q] /\ cert'[q] = cert[q]
      BY <2>2 DEF Connect, past, TunnelTypes
    <3>2. c \notin attached /\ peerEph[c] = NoConn /\ attached \subseteq Conn
      BY <3>1 DEF HubInv, Early, ClientInv, ClientOf, TunnelTypes
    <3> QED BY <1>0, <3>1, <3>2 DEF Steady
  <2>3. CASE RegisterStep(c)
    BY <2>3, <1>0 DEF RegisterStep, ClientSame, Steady
  <2>4. CASE TakeKey(c)
    <3>1. /\ UNCHANGED <<attached, side, cert, sess, sent>> /\ cl[c] = "eph"
          /\ \A q \in Conn : q # c => peerEph'[q] = peerEph[q]
      BY <2>4 DEF TakeKey, TunnelTypes, ServerSame, TableSame, ClientSame, QueuesSame, client,
         server, fixed, past
    <3>2. peerEph[c] = NoConn
      BY <3>1 DEF ClientInv, ClientOf
    <3> QED BY <1>0, <3>1, <3>2 DEF Steady
  <2>5. CASE TakeHandshake(c)
    <3>1. /\ UNCHANGED <<attached, side, cert, peerEph, sent>> /\ cl[c] = "hs"
          /\ \A q \in Conn : q # c => sess'[q] = sess[q]
      BY <2>5 DEF TakeHandshake, TunnelTypes, ServerSame, TableSame, ClientSame, QueuesSame,
         client, server, fixed, past
    <3>2. sess[c] = NoConn
      BY <3>1 DEF ClientInv, ClientOf, Past
    <3> QED BY <1>0, <3>1, <3>2 DEF Steady
  <2>6. CASE DataStep(c)
    <3>1. UNCHANGED <<attached, side, cert, peerEph, sess>>
      BY <2>6 DEF DataStep, ServerSame, TableSame, ClientSame, QueuesSame, client, server,
         fixed, past
    <3>2. \A q \in Conn : sent'[q] = sent[q] \/ sent'[q] = sent[q] + 1
      BY <2>6 DEF DataStep, TunnelTypes
    <3> QED BY <1>0, <3>1, <3>2 DEF Steady
  <2> QED BY <1>4, <2>1, <2>2, <2>3, <2>4, <2>5, <2>6 DEF TunnelStep
<1> QED BY <1>1, <1>2, <1>3, <1>4, StepCases

\* A frame that is honest stays so.
LEMMA HonestStable ==
    ASSUME TunnelTypes, TunnelTypes', Steady, NEW m \in Msg, Honest(m)
    PROVE  Honest(m)'
<1>1. CASE m.t = "hs"
  <2>1. m.of \in Conn /\ m.over \in Conn /\ m.over = peerEph[m.of] /\ m.over # NoConn
    BY <1>1, MsgShape, TunnelAssumption DEF Honest
  <2>2. peerEph'[m.of] = peerEph[m.of] /\ side'[m.of] = side[m.of] /\ cert'[m.of] = cert[m.of]
    BY <2>1 DEF Steady
  <2> QED BY <1>1, <2>1, <2>2 DEF Honest
<1>2. CASE m.t = "data"
  <2>1. m.of \in Conn /\ m.n \in Nat
    BY <1>2, MsgShape
  <2>2. sess'[m.of] = sess[m.of] /\ sent[m.of] <= sent'[m.of]
    BY <1>2, <2>1 DEF Steady, Honest
  <2>3. sent[m.of] \in Nat /\ sent'[m.of] \in Nat
    BY <2>1, TunnelAssumption DEF TunnelTypes
  <2> QED BY <1>2, <2>1, <2>2, <2>3 DEF Honest
<1> QED BY <1>1, <1>2 DEF Honest

\* Messages that were in a queue stay what they are.
LEMMA OldInbound ==
    ASSUME TunnelTypes, TunnelTypes', AloneInv, Steady, FrameInv, NEW d \in Conn,
           NEW i \in 1..Len(down[d]), NEW m, m = down[d][i]
    PROVE  Inbound(d, m)'
<1>1. m \in Msg /\ down[d] # <<>>
  BY DEF TunnelTypes, Queues
<1>2. Inbound(d, m)
  BY DEF FrameInv
<1>3. d \in attached
  BY <1>1 DEF AloneInv, Alone
<1>4. Honest(m)'
  BY <1>1, <1>2, HonestStable DEF Inbound
<1>5. m.t \in {"eph", "hs", "data"} => m.of \in attached' /\ side'[m.of] # side'[d]
  BY <1>2, <1>3 DEF Inbound, Steady
<1> QED BY <1>2, <1>4, <1>5 DEF Inbound

\* A frame already on its way to the server stays as it was.
LEMMA OldOutbound ==
    ASSUME TunnelTypes, TunnelTypes', Steady, FrameInv, NEW d \in Conn,
           NEW i \in 1..Len(up[d]), NEW m, m = up[d][i]
    PROVE  Outbound(d, m)'
<1>1. m \in Msg
  BY DEF TunnelTypes, Queues
<1>2. Outbound(d, m)
  BY DEF FrameInv
<1>3. Honest(m)'
  BY <1>1, <1>2, HonestStable DEF Outbound
<1> QED BY <1>2, <1>3 DEF Outbound

\* A queue towards a client that is as before, shorter, or longer by a message
\* of which the same holds.
LEMMA InboundQueue ==
    ASSUME TunnelTypes, TunnelTypes', AloneInv, Steady, FrameInv, NEW d \in Conn,
           \/ down'[d] = down[d] \/ down'[d] = <<>> \/ Popped(down[d], down'[d])
           \/ \E m : Pushed(down[d], down'[d], m) /\ Inbound(d, m)'
    PROVE  \A i \in 1..Len(down'[d]) : Inbound(d, down[d][i])'
<1> SUFFICES ASSUME NEW i \in 1..Len(down'[d]), NEW n, n = down'[d][i] PROVE Inbound(d, n)'
  OBVIOUS
<1>1. CASE down'[d] = down[d]
  BY <1>1, OldInbound
<1>2. CASE down'[d] = <<>>
  BY <1>2
<1>3. CASE Popped(down[d], down'[d])
  <2>1. i + 1 \in 1..Len(down[d]) /\ n = down[d][i + 1]
    BY <1>3 DEF Popped
  <2> QED BY <2>1, OldInbound
<1>4. ASSUME NEW m, Pushed(down[d], down'[d], m), Inbound(d, m)' PROVE Inbound(d, n)'
  <2>1. n = m \/ (i \in 1..Len(down[d]) /\ n = down[d][i])
    BY <1>4 DEF Pushed
  <2>2. CASE n = m
    BY <1>4, <2>2
  <2>3. CASE i \in 1..Len(down[d]) /\ n = down[d][i]
    BY <2>3, OldInbound
  <2> QED BY <2>1, <2>2, <2>3
<1> QED BY <1>1, <1>2, <1>3, <1>4

\* The frames on their way to the server after a step that adds at most an honest one.
LEMMA OutboundQueue ==
    ASSUME TunnelTypes, TunnelTypes', Steady, FrameInv, NEW d \in Conn,
           \/ up'[d] = up[d] \/ up'[d] = <<>> \/ Popped(up[d], up'[d])
           \/ \E m : Pushed(up[d], up'[d], m) /\ Outbound(d, m)'
    PROVE  \A i \in 1..Len(up'[d]) : Outbound(d, up[d][i])'
<1> SUFFICES ASSUME NEW i \in 1..Len(up'[d]), NEW n, n = up'[d][i] PROVE Outbound(d, n)'
  OBVIOUS
<1>1. CASE up'[d] = up[d]
  BY <1>1, OldOutbound
<1>2. CASE up'[d] = <<>>
  BY <1>2
<1>3. CASE Popped(up[d], up'[d])
  <2>1. i + 1 \in 1..Len(up[d]) /\ n = up[d][i + 1]
    BY <1>3 DEF Popped
  <2> QED BY <2>1, OldOutbound
<1>4. ASSUME NEW m, Pushed(up[d], up'[d], m), Outbound(d, m)' PROVE Outbound(d, n)'
  <2>1. n = m \/ (i \in 1..Len(up[d]) /\ n = up[d][i])
    BY <1>4 DEF Pushed
  <2>2. CASE n = m
    BY <1>4, <2>2
  <2>3. CASE i \in 1..Len(up[d]) /\ n = up[d][i]
    BY <2>3, OldOutbound
  <2> QED BY <2>1, <2>2, <2>3
<1> QED BY <1>1, <1>2, <1>3, <1>4

\* Messages tell the truth and reach only the other side.
LEMMA NextFrameInv ==
    ASSUME TunnelTypes, HubInv, AloneInv, ClientInv, FrameInv, Next
    PROVE  FrameInv'
<1>0. TunnelTypes' /\ Steady
  BY NextTunnelTypes, NextSteady
<1>1. CASE Offer
  <2>1. UNCHANGED <<down, up>>
    BY <1>1 DEF Offer, client, server, fixed, past
  <2> SUFFICES ASSUME NEW d \in Conn
               PROVE  /\ \A i \in 1..Len(down'[d]) : Inbound(d, down[d][i])'
                      /\ \A i \in 1..Len(up'[d]) : Outbound(d, up[d][i])'
    BY DEF FrameInv
  <2> QED BY <2>1, <1>0, InboundQueue, OutboundQueue
<1>2. CASE Sweep
  <2>1. UNCHANGED <<down, up>>
    BY <1>2 DEF Sweep, client, server, fixed, past
  <2> SUFFICES ASSUME NEW d \in Conn
               PROVE  /\ \A i \in 1..Len(down'[d]) : Inbound(d, down[d][i])'
                      /\ \A i \in 1..Len(up'[d]) : Outbound(d, up[d][i])'
    BY DEF FrameInv
  <2> QED BY <2>1, <1>0, InboundQueue, OutboundQueue
<1>3. ASSUME NEW x \in Side, Rotate(x) PROVE FrameInv'
  <2>1. UNCHANGED <<down, up>>
    BY <1>3 DEF Rotate, client, server, fixed, past
  <2> SUFFICES ASSUME NEW d \in Conn
               PROVE  /\ \A i \in 1..Len(down'[d]) : Inbound(d, down[d][i])'
                      /\ \A i \in 1..Len(up'[d]) : Outbound(d, up[d][i])'
    BY DEF FrameInv
  <2> QED BY <2>1, <1>0, InboundQueue, OutboundQueue
<1>4. ASSUME NEW c \in Conn, TunnelStep(c) PROVE FrameInv'
  <2>1. CASE Connect(c) \/ LookupFingerprint(c) \/ RegisterStep(c) \/ TooLateStep(c)
             \/ FindStep(c) \/ TeardownStep(c) \/ SocketDrops(c)
    <3> SUFFICES ASSUME NEW d \in Conn
                 PROVE  /\ \A i \in 1..Len(down'[d]) : Inbound(d, down[d][i])'
                        /\ \A i \in 1..Len(up'[d]) : Outbound(d, up[d][i])'
      BY DEF FrameInv
    <3>1. \/ down'[d] = down[d] \/ down'[d] = <<>> \/ Popped(down[d], down'[d])
          \/ \E m : Pushed(down[d], down'[d], m) /\ Inbound(d, m)'
      BY <2>1 DEF Connect, LookupFingerprint, RegisterStep, TooLateStep, FindStep, TeardownStep,
         SocketDrops, ServerSame, TableSame, ClientSame, QueuesSame, client, server, fixed, past
    <3>2. \/ up'[d] = up[d] \/ up'[d] = <<>> \/ Popped(up[d], up'[d])
          \/ \E m : Pushed(up[d], up'[d], m) /\ Outbound(d, m)'
      BY <2>1 DEF Connect, LookupFingerprint, RegisterStep, TooLateStep, FindStep, TeardownStep,
         SocketDrops, ServerSame, TableSame, ClientSame, QueuesSame, client, server, fixed, past
    <3>3. \A i \in 1..Len(down'[d]) : Inbound(d, down[d][i])'
      BY <3>1, <1>0, InboundQueue
    <3>4. \A i \in 1..Len(up'[d]) : Outbound(d, up[d][i])'
      BY <3>2, <1>0, OutboundQueue
    <3> QED BY <3>3, <3>4
  <2>2. CASE VouchMeStep(c)
    <3> SUFFICES ASSUME NEW d \in Conn
                 PROVE  /\ \A i \in 1..Len(down'[d]) : Inbound(d, down[d][i])'
                        /\ \A i \in 1..Len(up'[d]) : Outbound(d, up[d][i])'
      BY DEF FrameInv
    <3>1. \/ down'[d] = down[d] \/ down'[d] = <<>> \/ Popped(down[d], down'[d])
          \/ \E m : Pushed(down[d], down'[d], m) /\ Inbound(d, m)'
      <4>1. PICK m : m = VouchOf(peer[c])
        OBVIOUS
      <4>2. d # c => down'[d] = down[d]
        BY <2>2 DEF VouchMeStep, PushDown
      <4>3. d = c => down'[d] = down[d] \/ Pushed(down[d], down'[d], m)
        BY <2>2, <4>1 DEF VouchMeStep, PushDown
      <4>4. d = c => Inbound(d, m)'
        BY <4>1 DEF Inbound, Honest, VouchOf
      <4> QED BY <4>2, <4>3, <4>4
    <3>2. \/ up'[d] = up[d] \/ up'[d] = <<>> \/ Popped(up[d], up'[d])
          \/ \E m : Pushed(up[d], up'[d], m) /\ Outbound(d, m)'
      BY <2>2 DEF VouchMeStep, PopUp, PopDown, ServerSame, TableSame, ClientSame, QueuesSame,
         client, server, fixed, past
    <3>3. \A i \in 1..Len(down'[d]) : Inbound(d, down[d][i])'
      BY <3>1, <1>0, InboundQueue
    <3>4. \A i \in 1..Len(up'[d]) : Outbound(d, up[d][i])'
      BY <3>2, <1>0, OutboundQueue
    <3> QED BY <3>3, <3>4
  <2>3. CASE VouchPeerStep(c)
    <3> SUFFICES ASSUME NEW d \in Conn
                 PROVE  /\ \A i \in 1..Len(down'[d]) : Inbound(d, down[d][i])'
                        /\ \A i \in 1..Len(up'[d]) : Outbound(d, up[d][i])'
      BY DEF FrameInv
    <3>1. \/ down'[d] = down[d] \/ down'[d] = <<>> \/ Popped(down[d], down'[d])
          \/ \E m : Pushed(down[d], down'[d], m) /\ Inbound(d, m)'
      <4>1. PICK m : m = VouchOf(c)
        OBVIOUS
      <4>2. d # peer[c] => down'[d] = down[d]
        BY <2>3 DEF VouchPeerStep, PushDown
      <4>3. d = peer[c] => down'[d] = down[d] \/ Pushed(down[d], down'[d], m)
        BY <2>3, <4>1 DEF VouchPeerStep, PushDown
      <4>4. d = peer[c] => Inbound(d, m)'
        BY <4>1 DEF Inbound, Honest, VouchOf
      <4> QED BY <4>2, <4>3, <4>4
    <3>2. \/ up'[d] = up[d] \/ up'[d] = <<>> \/ Popped(up[d], up'[d])
          \/ \E m : Pushed(up[d], up'[d], m) /\ Outbound(d, m)'
      BY <2>3 DEF VouchPeerStep, PopUp, PopDown, ServerSame, TableSame, ClientSame, QueuesSame,
         client, server, fixed, past
    <3>3. \A i \in 1..Len(down'[d]) : Inbound(d, down[d][i])'
      BY <3>1, <1>0, InboundQueue
    <3>4. \A i \in 1..Len(up'[d]) : Outbound(d, up[d][i])'
      BY <3>2, <1>0, OutboundQueue
    <3> QED BY <3>3, <3>4
  <2>4. CASE DropStep(c)
    <3> SUFFICES ASSUME NEW d \in Conn
                 PROVE  /\ \A i \in 1..Len(down'[d]) : Inbound(d, down[d][i])'
                        /\ \A i \in 1..Len(up'[d]) : Outbound(d, up[d][i])'
      BY DEF FrameInv
    <3>1. \/ down'[d] = down[d] \/ down'[d] = <<>> \/ Popped(down[d], down'[d])
          \/ \E m : Pushed(down[d], down'[d], m) /\ Inbound(d, m)'
      BY <2>4 DEF DropStep, PopUp, PopDown, ServerSame, TableSame, ClientSame, QueuesSame,
         client, server, fixed, past
    <3>2. \/ up'[d] = up[d] \/ up'[d] = <<>> \/ Popped(up[d], up'[d])
          \/ \E m : Pushed(up[d], up'[d], m) /\ Outbound(d, m)'
      BY <2>4 DEF DropStep, PopUp, PopDown, ServerSame, TableSame, ClientSame, QueuesSame,
         client, server, fixed, past
    <3>3. \A i \in 1..Len(down'[d]) : Inbound(d, down[d][i])'
      BY <3>1, <1>0, InboundQueue
    <3>4. \A i \in 1..Len(up'[d]) : Outbound(d, up[d][i])'
      BY <3>2, <1>0, OutboundQueue
    <3> QED BY <3>3, <3>4
  <2>5. CASE ForwardStep(c)
    <3> SUFFICES ASSUME NEW d \in Conn
                 PROVE  /\ \A i \in 1..Len(down'[d]) : Inbound(d, down[d][i])'
                        /\ \A i \in 1..Len(up'[d]) : Outbound(d, up[d][i])'
      BY DEF FrameInv
    <3>1. \/ down'[d] = down[d] \/ down'[d] = <<>> \/ Popped(down[d], down'[d])
          \/ \E m : Pushed(down[d], down'[d], m) /\ Inbound(d, m)'
      <4>1. PICK m : m = up[c][1]
        OBVIOUS
      <4>2. d # peer[c] => down'[d] = down[d]
        BY <2>5 DEF ForwardStep, PushDown
      <4>3. d = peer[c] => down'[d] = down[d] \/ Pushed(down[d], down'[d], m)
        BY <2>5, <4>1 DEF ForwardStep, PushDown
      <4>4. d = peer[c] => Inbound(d, m)'
        <5>1. m \in Msg /\ m.t # "close" /\ 1 \in 1..Len(up[c])
          BY <2>5, <4>1 DEF ForwardStep, PopUp
        <5>2. Outbound(c, m) /\ Outbound(c, m)'
          BY <5>1, <4>1, <1>0, OldOutbound DEF FrameInv
        <5>3. c \in attached' /\ side'[c] # side'[peer[c]]
          BY <2>5 DEF ForwardStep, HubInv, ServerSame, TableSame, ClientSame, QueuesSame,
             client, server, fixed, past
        <5> QED BY <5>1, <5>2, <5>3 DEF Inbound, Outbound
      <4> QED BY <4>2, <4>3, <4>4
    <3>2. \/ up'[d] = up[d] \/ up'[d] = <<>> \/ Popped(up[d], up'[d])
          \/ \E m : Pushed(up[d], up'[d], m) /\ Outbound(d, m)'
      BY <2>5 DEF ForwardStep, PopUp, PopDown, ServerSame, TableSame, ClientSame, QueuesSame,
         client, server, fixed, past
    <3>3. \A i \in 1..Len(down'[d]) : Inbound(d, down[d][i])'
      BY <3>1, <1>0, InboundQueue
    <3>4. \A i \in 1..Len(up'[d]) : Outbound(d, up[d][i])'
      BY <3>2, <1>0, OutboundQueue
    <3> QED BY <3>3, <3>4
  <2>6. CASE ForwardFails(c)
    <3> SUFFICES ASSUME NEW d \in Conn
                 PROVE  /\ \A i \in 1..Len(down'[d]) : Inbound(d, down[d][i])'
                        /\ \A i \in 1..Len(up'[d]) : Outbound(d, up[d][i])'
      BY DEF FrameInv
    <3>1. \/ down'[d] = down[d] \/ down'[d] = <<>> \/ Popped(down[d], down'[d])
          \/ \E m : Pushed(down[d], down'[d], m) /\ Inbound(d, m)'
      BY <2>6 DEF ForwardFails, PopUp, PopDown, ServerSame, TableSame, ClientSame, QueuesSame,
         client, server, fixed, past
    <3>2. \/ up'[d] = up[d] \/ up'[d] = <<>> \/ Popped(up[d], up'[d])
          \/ \E m : Pushed(up[d], up'[d], m) /\ Outbound(d, m)'
      BY <2>6 DEF ForwardFails, PopUp, PopDown, ServerSame, TableSame, ClientSame, QueuesSame,
         client, server, fixed, past
    <3>3. \A i \in 1..Len(down'[d]) : Inbound(d, down[d][i])'
      BY <3>1, <1>0, InboundQueue
    <3>4. \A i \in 1..Len(up'[d]) : Outbound(d, up[d][i])'
      BY <3>2, <1>0, OutboundQueue
    <3> QED BY <3>3, <3>4
  <2>7. CASE SeeCloseStep(c)
    <3> SUFFICES ASSUME NEW d \in Conn
                 PROVE  /\ \A i \in 1..Len(down'[d]) : Inbound(d, down[d][i])'
                        /\ \A i \in 1..Len(up'[d]) : Outbound(d, up[d][i])'
      BY DEF FrameInv
    <3>1. \/ down'[d] = down[d] \/ down'[d] = <<>> \/ Popped(down[d], down'[d])
          \/ \E m : Pushed(down[d], down'[d], m) /\ Inbound(d, m)'
      BY <2>7 DEF SeeCloseStep, PopUp, PopDown, ServerSame, TableSame, ClientSame, QueuesSame,
         client, server, fixed, past
    <3>2. \/ up'[d] = up[d] \/ up'[d] = <<>> \/ Popped(up[d], up'[d])
          \/ \E m : Pushed(up[d], up'[d], m) /\ Outbound(d, m)'
      BY <2>7 DEF SeeCloseStep, PopUp, PopDown, ServerSame, TableSame, ClientSame, QueuesSame,
         client, server, fixed, past
    <3>3. \A i \in 1..Len(down'[d]) : Inbound(d, down[d][i])'
      BY <3>1, <1>0, InboundQueue
    <3>4. \A i \in 1..Len(up'[d]) : Outbound(d, up[d][i])'
      BY <3>2, <1>0, OutboundQueue
    <3> QED BY <3>3, <3>4
  <2>8. CASE TellStep(c)
    <3> SUFFICES ASSUME NEW d \in Conn
                 PROVE  /\ \A i \in 1..Len(down'[d]) : Inbound(d, down[d][i])'
                        /\ \A i \in 1..Len(up'[d]) : Outbound(d, up[d][i])'
      BY DEF FrameInv
    <3>1. \/ down'[d] = down[d] \/ down'[d] = <<>> \/ Popped(down[d], down'[d])
          \/ \E m : Pushed(down[d], down'[d], m) /\ Inbound(d, m)'
      <4>0. CASE peer[c] = NoConn
        BY <2>8, <4>0, TunnelAssumption DEF TellStep
      <4>5. CASE peer[c] # NoConn
      <5>1. PICK m : m = [t |-> "gone"]
          OBVIOUS
        <5>2. d # peer[c] => down'[d] = down[d]
          BY <2>8, <4>5 DEF TellStep, PushDown
        <5>3. d = peer[c] => down'[d] = down[d] \/ Pushed(down[d], down'[d], m)
          BY <2>8, <4>5, <5>1 DEF TellStep, PushDown
        <5>4. d = peer[c] => Inbound(d, m)'
          BY <5>1 DEF Inbound, Honest
        <5> QED BY <5>2, <5>3, <5>4
      <4> QED BY <4>0, <4>5
    <3>2. \/ up'[d] = up[d] \/ up'[d] = <<>> \/ Popped(up[d], up'[d])
          \/ \E m : Pushed(up[d], up'[d], m) /\ Outbound(d, m)'
      BY <2>8 DEF TellStep, PopUp, PopDown, ServerSame, TableSame, ClientSame, QueuesSame,
         client, server, fixed, past
    <3>3. \A i \in 1..Len(down'[d]) : Inbound(d, down[d][i])'
      BY <3>1, <1>0, InboundQueue
    <3>4. \A i \in 1..Len(up'[d]) : Outbound(d, up[d][i])'
      BY <3>2, <1>0, OutboundQueue
    <3> QED BY <3>3, <3>4
  <2>9. CASE PumpStep(c)
    <3> SUFFICES ASSUME NEW d \in Conn
                 PROVE  /\ \A i \in 1..Len(down'[d]) : Inbound(d, down[d][i])'
                        /\ \A i \in 1..Len(up'[d]) : Outbound(d, up[d][i])'
      BY DEF FrameInv
    <3>1. \/ down'[d] = down[d] \/ down'[d] = <<>> \/ Popped(down[d], down'[d])
          \/ \E m : Pushed(down[d], down'[d], m) /\ Inbound(d, m)'
      BY <2>9 DEF PumpStep, PopUp, PopDown, ServerSame, TableSame, ClientSame, QueuesSame,
         client, server, fixed, past
    <3>2. \/ up'[d] = up[d] \/ up'[d] = <<>> \/ Popped(up[d], up'[d])
          \/ \E m : Pushed(up[d], up'[d], m) /\ Outbound(d, m)'
      <4>0. CASE up' = up
        BY <4>0
      <4>1. CASE PushUp(c, [t |-> "close"])
        <5>1. PICK m : m = [t |-> "close"]
          OBVIOUS
        <5>2. d # c => up'[d] = up[d]
          BY <4>1 DEF PushUp
        <5>3. d = c => Pushed(up[d], up'[d], m)
          BY <4>1, <5>1 DEF PushUp
        <5>4. Outbound(d, m)'
          BY <5>1 DEF Outbound, Honest
        <5> QED BY <5>2, <5>3, <5>4
      <4> QED BY <2>9, <4>0, <4>1 DEF PumpStep
    <3>3. \A i \in 1..Len(down'[d]) : Inbound(d, down[d][i])'
      BY <3>1, <1>0, InboundQueue
    <3>4. \A i \in 1..Len(up'[d]) : Outbound(d, up[d][i])'
      BY <3>2, <1>0, OutboundQueue
    <3> QED BY <3>3, <3>4
  <2>10. CASE FailStep(c)
    <3> SUFFICES ASSUME NEW d \in Conn
                 PROVE  /\ \A i \in 1..Len(down'[d]) : Inbound(d, down[d][i])'
                        /\ \A i \in 1..Len(up'[d]) : Outbound(d, up[d][i])'
      BY DEF FrameInv
    <3>1. \/ down'[d] = down[d] \/ down'[d] = <<>> \/ Popped(down[d], down'[d])
          \/ \E m : Pushed(down[d], down'[d], m) /\ Inbound(d, m)'
      BY <2>10 DEF FailStep, PopUp, PopDown, ServerSame, TableSame, ClientSame, QueuesSame,
         client, server, fixed, past
    <3>2. \/ up'[d] = up[d] \/ up'[d] = <<>> \/ Popped(up[d], up'[d])
          \/ \E m : Pushed(up[d], up'[d], m) /\ Outbound(d, m)'
      <4>1. PICK m : m = [t |-> "close"]
        OBVIOUS
      <4>2. d # c => up'[d] = up[d]
        BY <2>10 DEF FailStep, PushUp
      <4>3. d = c => Pushed(up[d], up'[d], m)
        BY <2>10, <4>1 DEF FailStep, PushUp
      <4>4. d = c => Outbound(d, m)'
        BY <4>1 DEF Outbound, Honest
      <4> QED BY <4>2, <4>3, <4>4
    <3>3. \A i \in 1..Len(down'[d]) : Inbound(d, down[d][i])'
      BY <3>1, <1>0, InboundQueue
    <3>4. \A i \in 1..Len(up'[d]) : Outbound(d, up[d][i])'
      BY <3>2, <1>0, OutboundQueue
    <3> QED BY <3>3, <3>4
  <2>11. CASE TakeVouch(c)
    <3> SUFFICES ASSUME NEW d \in Conn
                 PROVE  /\ \A i \in 1..Len(down'[d]) : Inbound(d, down[d][i])'
                        /\ \A i \in 1..Len(up'[d]) : Outbound(d, up[d][i])'
      BY DEF FrameInv
    <3>1. \/ down'[d] = down[d] \/ down'[d] = <<>> \/ Popped(down[d], down'[d])
          \/ \E m : Pushed(down[d], down'[d], m) /\ Inbound(d, m)'
      BY <2>11 DEF TakeVouch, PopUp, PopDown, ServerSame, TableSame, ClientSame, QueuesSame,
         client, server, fixed, past
    <3>2. \/ up'[d] = up[d] \/ up'[d] = <<>> \/ Popped(up[d], up'[d])
          \/ \E m : Pushed(up[d], up'[d], m) /\ Outbound(d, m)'
      <4>1. PICK m : m = [t |-> "eph", of |-> c]
        OBVIOUS
      <4>2. d # c => up'[d] = up[d]
        BY <2>11 DEF TakeVouch, PushUp
      <4>3. d = c => Pushed(up[d], up'[d], m)
        BY <2>11, <4>1 DEF TakeVouch, PushUp
      <4>4. d = c => Outbound(d, m)'
        BY <4>1 DEF Outbound, Honest
      <4> QED BY <4>2, <4>3, <4>4
    <3>3. \A i \in 1..Len(down'[d]) : Inbound(d, down[d][i])'
      BY <3>1, <1>0, InboundQueue
    <3>4. \A i \in 1..Len(up'[d]) : Outbound(d, up[d][i])'
      BY <3>2, <1>0, OutboundQueue
    <3> QED BY <3>3, <3>4
  <2>12. CASE TakeKey(c)
    <3> SUFFICES ASSUME NEW d \in Conn
                 PROVE  /\ \A i \in 1..Len(down'[d]) : Inbound(d, down[d][i])'
                        /\ \A i \in 1..Len(up'[d]) : Outbound(d, up[d][i])'
      BY DEF FrameInv
    <3>1. \/ down'[d] = down[d] \/ down'[d] = <<>> \/ Popped(down[d], down'[d])
          \/ \E m : Pushed(down[d], down'[d], m) /\ Inbound(d, m)'
      BY <2>12 DEF TakeKey, PopUp, PopDown, ServerSame, TableSame, ClientSame, QueuesSame,
         client, server, fixed, past
    <3>2. \/ up'[d] = up[d] \/ up'[d] = <<>> \/ Popped(up[d], up'[d])
          \/ \E m : Pushed(up[d], up'[d], m) /\ Outbound(d, m)'
      <4>1. PICK m : m = Signed(c, down[c][1].of)
        OBVIOUS
      <4>2. d # c => up'[d] = up[d]
        BY <2>12 DEF TakeKey, PushUp
      <4>3. d = c => Pushed(up[d], up'[d], m)
        BY <2>12, <4>1 DEF TakeKey, PushUp
      <4>4. d = c => Outbound(d, m)'
        <5>1. /\ m.t = "hs" /\ m.of = c /\ m.from = side[c] /\ m.fp = cert[c]
              /\ m.over = down[c][1].of
          BY <4>1 DEF Signed
        <5>2. /\ side'[c] = side[c] /\ cert'[c] = cert[c] /\ peerEph'[c] = down[c][1].of
          BY <2>12 DEF TakeKey, TunnelTypes, ServerSame, TableSame, ClientSame, QueuesSame,
             client, server, fixed, past
        <5> QED BY <5>1, <5>2 DEF Outbound, Honest
      <4> QED BY <4>2, <4>3, <4>4
    <3>3. \A i \in 1..Len(down'[d]) : Inbound(d, down[d][i])'
      BY <3>1, <1>0, InboundQueue
    <3>4. \A i \in 1..Len(up'[d]) : Outbound(d, up[d][i])'
      BY <3>2, <1>0, OutboundQueue
    <3> QED BY <3>3, <3>4
  <2>13. CASE TakeHandshake(c)
    <3> SUFFICES ASSUME NEW d \in Conn
                 PROVE  /\ \A i \in 1..Len(down'[d]) : Inbound(d, down[d][i])'
                        /\ \A i \in 1..Len(up'[d]) : Outbound(d, up[d][i])'
      BY DEF FrameInv
    <3>1. \/ down'[d] = down[d] \/ down'[d] = <<>> \/ Popped(down[d], down'[d])
          \/ \E m : Pushed(down[d], down'[d], m) /\ Inbound(d, m)'
      BY <2>13 DEF TakeHandshake, PopUp, PopDown, ServerSame, TableSame, ClientSame, QueuesSame,
         client, server, fixed, past
    <3>2. \/ up'[d] = up[d] \/ up'[d] = <<>> \/ Popped(up[d], up'[d])
          \/ \E m : Pushed(up[d], up'[d], m) /\ Outbound(d, m)'
      BY <2>13 DEF TakeHandshake, PopUp, PopDown, ServerSame, TableSame, ClientSame, QueuesSame,
         client, server, fixed, past
    <3>3. \A i \in 1..Len(down'[d]) : Inbound(d, down[d][i])'
      BY <3>1, <1>0, InboundQueue
    <3>4. \A i \in 1..Len(up'[d]) : Outbound(d, up[d][i])'
      BY <3>2, <1>0, OutboundQueue
    <3> QED BY <3>3, <3>4
  <2>14. CASE TakeData(c)
    <3> SUFFICES ASSUME NEW d \in Conn
                 PROVE  /\ \A i \in 1..Len(down'[d]) : Inbound(d, down[d][i])'
                        /\ \A i \in 1..Len(up'[d]) : Outbound(d, up[d][i])'
      BY DEF FrameInv
    <3>1. \/ down'[d] = down[d] \/ down'[d] = <<>> \/ Popped(down[d], down'[d])
          \/ \E m : Pushed(down[d], down'[d], m) /\ Inbound(d, m)'
      BY <2>14 DEF TakeData, PopUp, PopDown, ServerSame, TableSame, ClientSame, QueuesSame,
         client, server, fixed, past
    <3>2. \/ up'[d] = up[d] \/ up'[d] = <<>> \/ Popped(up[d], up'[d])
          \/ \E m : Pushed(up[d], up'[d], m) /\ Outbound(d, m)'
      BY <2>14 DEF TakeData, PopUp, PopDown, ServerSame, TableSame, ClientSame, QueuesSame,
         client, server, fixed, past
    <3>3. \A i \in 1..Len(down'[d]) : Inbound(d, down[d][i])'
      BY <3>1, <1>0, InboundQueue
    <3>4. \A i \in 1..Len(up'[d]) : Outbound(d, up[d][i])'
      BY <3>2, <1>0, OutboundQueue
    <3> QED BY <3>3, <3>4
  <2>15. CASE SkipVouch(c)
    <3> SUFFICES ASSUME NEW d \in Conn
                 PROVE  /\ \A i \in 1..Len(down'[d]) : Inbound(d, down[d][i])'
                        /\ \A i \in 1..Len(up'[d]) : Outbound(d, up[d][i])'
      BY DEF FrameInv
    <3>1. \/ down'[d] = down[d] \/ down'[d] = <<>> \/ Popped(down[d], down'[d])
          \/ \E m : Pushed(down[d], down'[d], m) /\ Inbound(d, m)'
      BY <2>15 DEF SkipVouch, PopUp, PopDown, ServerSame, TableSame, ClientSame, QueuesSame,
         client, server, fixed, past
    <3>2. \/ up'[d] = up[d] \/ up'[d] = <<>> \/ Popped(up[d], up'[d])
          \/ \E m : Pushed(up[d], up'[d], m) /\ Outbound(d, m)'
      BY <2>15 DEF SkipVouch, PopUp, PopDown, ServerSame, TableSame, ClientSame, QueuesSame,
         client, server, fixed, past
    <3>3. \A i \in 1..Len(down'[d]) : Inbound(d, down[d][i])'
      BY <3>1, <1>0, InboundQueue
    <3>4. \A i \in 1..Len(up'[d]) : Outbound(d, up[d][i])'
      BY <3>2, <1>0, OutboundQueue
    <3> QED BY <3>3, <3>4
  <2>16. CASE DataStep(c)
    <3> SUFFICES ASSUME NEW d \in Conn
                 PROVE  /\ \A i \in 1..Len(down'[d]) : Inbound(d, down[d][i])'
                        /\ \A i \in 1..Len(up'[d]) : Outbound(d, up[d][i])'
      BY DEF FrameInv
    <3>1. \/ down'[d] = down[d] \/ down'[d] = <<>> \/ Popped(down[d], down'[d])
          \/ \E m : Pushed(down[d], down'[d], m) /\ Inbound(d, m)'
      BY <2>16 DEF DataStep, PopUp, PopDown, ServerSame, TableSame, ClientSame, QueuesSame,
         client, server, fixed, past
    <3>2. \/ up'[d] = up[d] \/ up'[d] = <<>> \/ Popped(up[d], up'[d])
          \/ \E m : Pushed(up[d], up'[d], m) /\ Outbound(d, m)'
      <4>1. PICK m : m = [t |-> "data", of |-> c, key |-> {c, sess[c]}, n |-> sent[c]]
        OBVIOUS
      <4>2. d # c => up'[d] = up[d]
        BY <2>16 DEF DataStep, PushUp
      <4>3. d = c => Pushed(up[d], up'[d], m)
        BY <2>16, <4>1 DEF DataStep, PushUp
      <4>4. d = c => Outbound(d, m)'
        <5>1. /\ m.t = "data" /\ m.of = c /\ m.key = {c, sess[c]} /\ m.n = sent[c]
          BY <4>1
        <5>2. /\ sess'[c] = sess[c] /\ sent'[c] = sent[c] + 1 /\ sent[c] \in Nat
          BY <2>16, TunnelAssumption DEF DataStep, TunnelTypes
        <5>3. sess[c] # NoConn
          BY <2>16 DEF DataStep, ClientInv, ClientOf
        <5> QED BY <5>1, <5>2, <5>3 DEF Outbound, Honest
      <4> QED BY <4>2, <4>3, <4>4
    <3>3. \A i \in 1..Len(down'[d]) : Inbound(d, down[d][i])'
      BY <3>1, <1>0, InboundQueue
    <3>4. \A i \in 1..Len(up'[d]) : Outbound(d, up[d][i])'
      BY <3>2, <1>0, OutboundQueue
    <3> QED BY <3>3, <3>4
  <2>17. CASE CloseStep(c)
    <3> SUFFICES ASSUME NEW d \in Conn
                 PROVE  /\ \A i \in 1..Len(down'[d]) : Inbound(d, down[d][i])'
                        /\ \A i \in 1..Len(up'[d]) : Outbound(d, up[d][i])'
      BY DEF FrameInv
    <3>1. \/ down'[d] = down[d] \/ down'[d] = <<>> \/ Popped(down[d], down'[d])
          \/ \E m : Pushed(down[d], down'[d], m) /\ Inbound(d, m)'
      BY <2>17 DEF CloseStep, PopUp, PopDown, ServerSame, TableSame, ClientSame, QueuesSame,
         client, server, fixed, past
    <3>2. \/ up'[d] = up[d] \/ up'[d] = <<>> \/ Popped(up[d], up'[d])
          \/ \E m : Pushed(up[d], up'[d], m) /\ Outbound(d, m)'
      <4>1. PICK m : m = [t |-> "close"]
        OBVIOUS
      <4>2. d # c => up'[d] = up[d]
        BY <2>17 DEF CloseStep, PushUp
      <4>3. d = c => Pushed(up[d], up'[d], m)
        BY <2>17, <4>1 DEF CloseStep, PushUp
      <4>4. d = c => Outbound(d, m)'
        BY <4>1 DEF Outbound, Honest
      <4> QED BY <4>2, <4>3, <4>4
    <3>3. \A i \in 1..Len(down'[d]) : Inbound(d, down[d][i])'
      BY <3>1, <1>0, InboundQueue
    <3>4. \A i \in 1..Len(up'[d]) : Outbound(d, up[d][i])'
      BY <3>2, <1>0, OutboundQueue
    <3> QED BY <3>3, <3>4
  <2> QED BY <1>4, <2>1, <2>2, <2>3, <2>4, <2>5, <2>6, <2>7, <2>8, <2>9, <2>10, <2>11, <2>12,
     <2>13, <2>14, <2>15, <2>16, <2>17 DEF TunnelStep
<1> QED BY <1>1, <1>2, <1>3, <1>4, StepCases

\* Keys in a queue that grows or shrinks.
LEMMA KeyAtFacts ==
    ASSUME NEW q, NEW r, NEW c, KeyAt(q, c)
    PROVE  /\ Popped(q, r) => KeyAt(r, c) \/ (q[1].t = "eph" /\ q[1].of = c)
           /\ \A m : Pushed(q, r, m) => KeyAt(r, c)
<1>1. PICK i \in 1..Len(q) : q[i].t = "eph" /\ q[i].of = c
  BY DEF KeyAt
<1>2. ASSUME Popped(q, r) PROVE KeyAt(r, c) \/ (q[1].t = "eph" /\ q[1].of = c)
  BY <1>1, <1>2 DEF Popped, KeyAt
<1>3. ASSUME NEW m, Pushed(q, r, m) PROVE KeyAt(r, c)
  BY <1>1, <1>3 DEF Pushed, KeyAt
<1> QED BY <1>2, <1>3

\* A frame behind its key in a queue is behind it still when another is taken.
LEMMA KeyFirstPopped ==
    ASSUME NEW q, NEW r, Popped(q, r), NEW i \in 1..Len(r), KeyFirst(q, i + 1)
    PROVE  KeyFirst(r, i) \/ (q[1].t = "eph" /\ q[1].of = r[i].of)
<1>1. Len(r) \in Nat /\ r[i] = q[i + 1] /\ i \in Nat
  BY DEF Popped
<1>2. PICK j \in 1..i : q[j].t = "eph" /\ q[j].of = q[i + 1].of
  BY <1>1 DEF KeyFirst
<1>3. CASE j = 1
  BY <1>1, <1>2, <1>3
<1>4. CASE j # 1
  <2>1. j \in 1..Len(q) /\ j - 1 \in 1..(i - 1)
    BY <1>1, <1>2, <1>4 DEF Popped
  <2>2. r[j - 1] = q[j]
    BY <2>1, <1>4 DEF Popped
  <2> QED BY <1>1, <1>2, <2>1, <2>2 DEF KeyFirst
<1> QED BY <1>3, <1>4

\* A frame behind its key in a queue is behind it still when another is added.
LEMMA KeyFirstPushed ==
    ASSUME NEW q, NEW r, NEW m, Pushed(q, r, m), NEW i \in 1..Len(q), KeyFirst(q, i)
    PROVE  KeyFirst(r, i)
<1>1. PICK j \in 1..(i - 1) : q[j].t = "eph" /\ q[j].of = q[i].of
  BY DEF KeyFirst
<1>2. j \in 1..Len(q) /\ r[j] = q[j] /\ r[i] = q[i]
  BY <1>1 DEF Pushed
<1> QED BY <1>1, <1>2 DEF KeyFirst

\* A frame added to a queue that holds its key is behind it.
LEMMA KeyFirstLast ==
    ASSUME NEW q, NEW r, NEW m, Pushed(q, r, m), KeyAt(q, m.of)
    PROVE  KeyFirst(r, Len(r))
<1>1. PICK j \in 1..Len(q) : q[j].t = "eph" /\ q[j].of = m.of
  BY DEF KeyAt
<1>2. j \in 1..(Len(r) - 1) /\ r[j] = q[j] /\ r[Len(r)] = m
  BY <1>1 DEF Pushed
<1> QED BY <1>1, <1>2 DEF KeyFirst

\* A client that has the key of a connection, or is past it, stays so.
LEMMA GotKept ==
    ASSUME NEW p \in Conn, NEW k \in Conn, Got(p, k),
           ~rx[p] => ~rx'[p], Past(p) => Past(p)', peerEph[p] = k => peerEph'[p] = k,
           \/ down'[p] = down[p] \/ ~rx'[p]
           \/ \E m : Pushed(down[p], down'[p], m)
           \/ /\ Popped(down[p], down'[p])
              /\ down[p][1].t = "eph" => Past(p)' \/ peerEph'[p] = down[p][1].of
    PROVE  Got(p, k)'
<1>1. CASE ~rx[p] \/ Past(p) \/ peerEph[p] = k
  BY <1>1 DEF Got
<1>2. CASE KeyAt(down[p], k)
  <2>1. CASE down'[p] = down[p]
    BY <1>2, <2>1 DEF Got
  <2>2. CASE ~rx'[p]
    BY <2>2 DEF Got
  <2>3. ASSUME NEW m, Pushed(down[p], down'[p], m) PROVE Got(p, k)'
    BY <1>2, <2>3, KeyAtFacts DEF Got
  <2>4. CASE /\ Popped(down[p], down'[p])
             /\ down[p][1].t = "eph" => Past(p)' \/ peerEph'[p] = down[p][1].of
    BY <1>2, <2>4, KeyAtFacts DEF Got
  <2> QED BY <2>1, <2>2, <2>3, <2>4
<1> QED BY <1>1, <1>2 DEF Got

\* No step of the tunnel takes a received key back.
LEMMA GotStable ==
    ASSUME TunnelTypes, HubInv, ClientInv, NEW p \in Conn, NEW k \in Conn, Got(p, k), Next
    PROVE  Got(p, k)'
<1>0. peerEph[p] = k => peerEph'[p] = k
  BY NextSteady, TunnelAssumption DEF Steady
<1>1. CASE Offer
  <2>1. UNCHANGED <<down, rx, cl, peerEph>>
    BY <1>1 DEF Offer, client, server, fixed, past
  <2> QED BY <2>1 DEF Got, Past, KeyAt
<1>2. CASE Sweep
  <2>1. UNCHANGED <<down, rx, cl, peerEph>>
    BY <1>2 DEF Sweep, client, server, fixed, past
  <2> QED BY <2>1 DEF Got, Past, KeyAt
<1>3. ASSUME NEW x \in Side, Rotate(x) PROVE Got(p, k)'
  <2>1. UNCHANGED <<down, rx, cl, peerEph>>
    BY <1>3 DEF Rotate, client, server, fixed, past
  <2> QED BY <2>1 DEF Got, Past, KeyAt
<1>4. ASSUME NEW c \in Conn, TunnelStep(c) PROVE Got(p, k)'
  <2>1. CASE Connect(c)
    <3>1. rx'[p] <=> rx[p]
      BY <2>1 DEF Connect, ServerSame, TableSame, ClientSame, QueuesSame, client, server, fixed,
         past
    <3>2. Past(p) => Past(p)'
      BY <2>1 DEF Connect, Past, ClientInv, ClientOf, TunnelTypes, ServerSame, TableSame,
         ClientSame, QueuesSame, client, server, fixed, past
    <3>3. \/ down'[p] = down[p] \/ ~rx'[p]
          \/ \E m : Pushed(down[p], down'[p], m)
          \/ /\ Popped(down[p], down'[p])
             /\ down[p][1].t = "eph" => Past(p)' \/ peerEph'[p] = down[p][1].of
      BY <2>1 DEF Connect, PushDown, ServerSame, TableSame, ClientSame, QueuesSame, client,
         server, fixed, past
    <3> QED BY <3>1, <3>2, <3>3, <1>0, GotKept
  <2>2. CASE LookupFingerprint(c)
    <3>1. rx'[p] <=> rx[p]
      BY <2>2 DEF LookupFingerprint, ServerSame, TableSame, ClientSame, QueuesSame, client,
         server, fixed, past
    <3>2. Past(p) => Past(p)'
      BY <2>2 DEF LookupFingerprint, Past, TunnelTypes, ServerSame, TableSame, ClientSame,
         QueuesSame, client, server, fixed, past
    <3>3. \/ down'[p] = down[p] \/ ~rx'[p]
          \/ \E m : Pushed(down[p], down'[p], m)
          \/ /\ Popped(down[p], down'[p])
             /\ down[p][1].t = "eph" => Past(p)' \/ peerEph'[p] = down[p][1].of
      BY <2>2 DEF LookupFingerprint, PushDown, ServerSame, TableSame, ClientSame, QueuesSame,
         client, server, fixed, past
    <3> QED BY <3>1, <3>2, <3>3, <1>0, GotKept
  <2>3. CASE RegisterStep(c)
    <3>1. rx'[p] <=> rx[p]
      BY <2>3 DEF RegisterStep, ServerSame, TableSame, ClientSame, QueuesSame, client, server,
         fixed, past
    <3>2. Past(p) => Past(p)'
      BY <2>3 DEF RegisterStep, Past, TunnelTypes, ServerSame, TableSame, ClientSame,
         QueuesSame, client, server, fixed, past
    <3>3. \/ down'[p] = down[p] \/ ~rx'[p]
          \/ \E m : Pushed(down[p], down'[p], m)
          \/ /\ Popped(down[p], down'[p])
             /\ down[p][1].t = "eph" => Past(p)' \/ peerEph'[p] = down[p][1].of
      BY <2>3 DEF RegisterStep, PushDown, ServerSame, TableSame, ClientSame, QueuesSame, client,
         server, fixed, past
    <3> QED BY <3>1, <3>2, <3>3, <1>0, GotKept
  <2>4. CASE TooLateStep(c)
    <3>1. rx'[p] <=> rx[p]
      BY <2>4 DEF TooLateStep, ServerSame, TableSame, ClientSame, QueuesSame, client, server,
         fixed, past
    <3>2. Past(p) => Past(p)'
      BY <2>4 DEF TooLateStep, Past, TunnelTypes, ServerSame, TableSame, ClientSame, QueuesSame,
         client, server, fixed, past
    <3>3. \/ down'[p] = down[p] \/ ~rx'[p]
          \/ \E m : Pushed(down[p], down'[p], m)
          \/ /\ Popped(down[p], down'[p])
             /\ down[p][1].t = "eph" => Past(p)' \/ peerEph'[p] = down[p][1].of
      BY <2>4 DEF TooLateStep, PushDown, ServerSame, TableSame, ClientSame, QueuesSame, client,
         server, fixed, past
    <3> QED BY <3>1, <3>2, <3>3, <1>0, GotKept
  <2>5. CASE VouchMeStep(c)
    <3>1. rx'[p] <=> rx[p]
      BY <2>5 DEF VouchMeStep, ServerSame, TableSame, ClientSame, QueuesSame, client, server,
         fixed, past
    <3>2. Past(p) => Past(p)'
      BY <2>5 DEF VouchMeStep, Past, TunnelTypes, ServerSame, TableSame, ClientSame, QueuesSame,
         client, server, fixed, past
    <3>3. \/ down'[p] = down[p] \/ ~rx'[p]
          \/ \E m : Pushed(down[p], down'[p], m)
          \/ /\ Popped(down[p], down'[p])
             /\ down[p][1].t = "eph" => Past(p)' \/ peerEph'[p] = down[p][1].of
      BY <2>5 DEF VouchMeStep, PushDown, ServerSame, TableSame, ClientSame, QueuesSame, client,
         server, fixed, past
    <3> QED BY <3>1, <3>2, <3>3, <1>0, GotKept
  <2>6. CASE VouchPeerStep(c)
    <3>1. rx'[p] <=> rx[p]
      BY <2>6 DEF VouchPeerStep, ServerSame, TableSame, ClientSame, QueuesSame, client, server,
         fixed, past
    <3>2. Past(p) => Past(p)'
      BY <2>6 DEF VouchPeerStep, Past, TunnelTypes, ServerSame, TableSame, ClientSame,
         QueuesSame, client, server, fixed, past
    <3>3. \/ down'[p] = down[p] \/ ~rx'[p]
          \/ \E m : Pushed(down[p], down'[p], m)
          \/ /\ Popped(down[p], down'[p])
             /\ down[p][1].t = "eph" => Past(p)' \/ peerEph'[p] = down[p][1].of
      BY <2>6 DEF VouchPeerStep, PushDown, ServerSame, TableSame, ClientSame, QueuesSame,
         client, server, fixed, past
    <3> QED BY <3>1, <3>2, <3>3, <1>0, GotKept
  <2>7. CASE DropStep(c)
    <3>1. rx'[p] <=> rx[p]
      BY <2>7 DEF DropStep, ServerSame, TableSame, ClientSame, QueuesSame, client, server,
         fixed, past
    <3>2. Past(p) => Past(p)'
      BY <2>7 DEF DropStep, Past, TunnelTypes, ServerSame, TableSame, ClientSame, QueuesSame,
         client, server, fixed, past
    <3>3. \/ down'[p] = down[p] \/ ~rx'[p]
          \/ \E m : Pushed(down[p], down'[p], m)
          \/ /\ Popped(down[p], down'[p])
             /\ down[p][1].t = "eph" => Past(p)' \/ peerEph'[p] = down[p][1].of
      BY <2>7 DEF DropStep, PushDown, ServerSame, TableSame, ClientSame, QueuesSame, client,
         server, fixed, past
    <3> QED BY <3>1, <3>2, <3>3, <1>0, GotKept
  <2>8. CASE FindStep(c)
    <3>1. rx'[p] <=> rx[p]
      BY <2>8 DEF FindStep, ServerSame, TableSame, ClientSame, QueuesSame, client, server,
         fixed, past
    <3>2. Past(p) => Past(p)'
      BY <2>8 DEF FindStep, Past, TunnelTypes, ServerSame, TableSame, ClientSame, QueuesSame,
         client, server, fixed, past
    <3>3. \/ down'[p] = down[p] \/ ~rx'[p]
          \/ \E m : Pushed(down[p], down'[p], m)
          \/ /\ Popped(down[p], down'[p])
             /\ down[p][1].t = "eph" => Past(p)' \/ peerEph'[p] = down[p][1].of
      BY <2>8 DEF FindStep, PushDown, ServerSame, TableSame, ClientSame, QueuesSame, client,
         server, fixed, past
    <3> QED BY <3>1, <3>2, <3>3, <1>0, GotKept
  <2>9. CASE ForwardStep(c)
    <3>1. rx'[p] <=> rx[p]
      BY <2>9 DEF ForwardStep, ServerSame, TableSame, ClientSame, QueuesSame, client, server,
         fixed, past
    <3>2. Past(p) => Past(p)'
      BY <2>9 DEF ForwardStep, Past, TunnelTypes, ServerSame, TableSame, ClientSame, QueuesSame,
         client, server, fixed, past
    <3>3. \/ down'[p] = down[p] \/ ~rx'[p]
          \/ \E m : Pushed(down[p], down'[p], m)
          \/ /\ Popped(down[p], down'[p])
             /\ down[p][1].t = "eph" => Past(p)' \/ peerEph'[p] = down[p][1].of
      BY <2>9 DEF ForwardStep, PushDown, ServerSame, TableSame, ClientSame, QueuesSame, client,
         server, fixed, past
    <3> QED BY <3>1, <3>2, <3>3, <1>0, GotKept
  <2>10. CASE ForwardFails(c)
    <3>1. rx'[p] <=> rx[p]
      BY <2>10 DEF ForwardFails, ServerSame, TableSame, ClientSame, QueuesSame, client, server,
         fixed, past
    <3>2. Past(p) => Past(p)'
      BY <2>10 DEF ForwardFails, Past, TunnelTypes, ServerSame, TableSame, ClientSame,
         QueuesSame, client, server, fixed, past
    <3>3. \/ down'[p] = down[p] \/ ~rx'[p]
          \/ \E m : Pushed(down[p], down'[p], m)
          \/ /\ Popped(down[p], down'[p])
             /\ down[p][1].t = "eph" => Past(p)' \/ peerEph'[p] = down[p][1].of
      BY <2>10 DEF ForwardFails, PushDown, ServerSame, TableSame, ClientSame, QueuesSame,
         client, server, fixed, past
    <3> QED BY <3>1, <3>2, <3>3, <1>0, GotKept
  <2>11. CASE SeeCloseStep(c)
    <3>1. rx'[p] <=> rx[p]
      BY <2>11 DEF SeeCloseStep, ServerSame, TableSame, ClientSame, QueuesSame, client, server,
         fixed, past
    <3>2. Past(p) => Past(p)'
      BY <2>11 DEF SeeCloseStep, Past, TunnelTypes, ServerSame, TableSame, ClientSame,
         QueuesSame, client, server, fixed, past
    <3>3. \/ down'[p] = down[p] \/ ~rx'[p]
          \/ \E m : Pushed(down[p], down'[p], m)
          \/ /\ Popped(down[p], down'[p])
             /\ down[p][1].t = "eph" => Past(p)' \/ peerEph'[p] = down[p][1].of
      BY <2>11 DEF SeeCloseStep, PushDown, ServerSame, TableSame, ClientSame, QueuesSame,
         client, server, fixed, past
    <3> QED BY <3>1, <3>2, <3>3, <1>0, GotKept
  <2>12. CASE TeardownStep(c)
    <3>1. rx'[p] <=> rx[p]
      BY <2>12 DEF TeardownStep, ServerSame, TableSame, ClientSame, QueuesSame, client, server,
         fixed, past
    <3>2. Past(p) => Past(p)'
      BY <2>12 DEF TeardownStep, Past, TunnelTypes, ServerSame, TableSame, ClientSame,
         QueuesSame, client, server, fixed, past
    <3>3. \/ down'[p] = down[p] \/ ~rx'[p]
          \/ \E m : Pushed(down[p], down'[p], m)
          \/ /\ Popped(down[p], down'[p])
             /\ down[p][1].t = "eph" => Past(p)' \/ peerEph'[p] = down[p][1].of
      BY <2>12 DEF TeardownStep, PushDown, ServerSame, TableSame, ClientSame, QueuesSame,
         client, server, fixed, past
    <3> QED BY <3>1, <3>2, <3>3, <1>0, GotKept
  <2>13. CASE TellStep(c)
    <3>1. rx'[p] <=> rx[p]
      BY <2>13 DEF TellStep, ServerSame, TableSame, ClientSame, QueuesSame, client, server,
         fixed, past
    <3>2. Past(p) => Past(p)'
      BY <2>13 DEF TellStep, Past, TunnelTypes, ServerSame, TableSame, ClientSame, QueuesSame,
         client, server, fixed, past
    <3>3. \/ down'[p] = down[p] \/ ~rx'[p]
          \/ \E m : Pushed(down[p], down'[p], m)
          \/ /\ Popped(down[p], down'[p])
             /\ down[p][1].t = "eph" => Past(p)' \/ peerEph'[p] = down[p][1].of
      BY <2>13 DEF TellStep, PushDown, ServerSame, TableSame, ClientSame, QueuesSame, client,
         server, fixed, past
    <3> QED BY <3>1, <3>2, <3>3, <1>0, GotKept
  <2>14. CASE PumpStep(c)
    <3>1. ~rx[p] => ~rx'[p]
      BY <2>14 DEF PumpStep, TunnelTypes
    <3>2. Past(p) => Past(p)'
      BY <2>14 DEF PumpStep, Past, TunnelTypes
    <3>3. down'[p] = down[p] \/ ~rx'[p]
      BY <2>14 DEF PumpStep, TunnelTypes
    <3> QED BY <3>1, <3>2, <3>3, <1>0, GotKept
  <2>15. CASE SocketDrops(c)
    <3>1. rx'[p] <=> rx[p]
      BY <2>15 DEF SocketDrops, ServerSame, TableSame, ClientSame, QueuesSame, client, server,
         fixed, past
    <3>2. Past(p) => Past(p)'
      BY <2>15 DEF SocketDrops, Past, TunnelTypes, ServerSame, TableSame, ClientSame,
         QueuesSame, client, server, fixed, past
    <3>3. \/ down'[p] = down[p] \/ ~rx'[p]
          \/ \E m : Pushed(down[p], down'[p], m)
          \/ /\ Popped(down[p], down'[p])
             /\ down[p][1].t = "eph" => Past(p)' \/ peerEph'[p] = down[p][1].of
      BY <2>15 DEF SocketDrops, PushDown, ServerSame, TableSame, ClientSame, QueuesSame, client,
         server, fixed, past
    <3> QED BY <3>1, <3>2, <3>3, <1>0, GotKept
  <2>16. CASE FailStep(c)
    <3>1. rx'[p] <=> rx[p]
      BY <2>16 DEF FailStep, ServerSame, TableSame, ClientSame, QueuesSame, client, server,
         fixed, past
    <3>2. Past(p) => Past(p)'
      BY <2>16 DEF FailStep, Past, TunnelTypes, ServerSame, TableSame, ClientSame, QueuesSame,
         client, server, fixed, past
    <3>3. \/ down'[p] = down[p] \/ ~rx'[p]
          \/ \E m : Pushed(down[p], down'[p], m)
          \/ /\ Popped(down[p], down'[p])
             /\ down[p][1].t = "eph" => Past(p)' \/ peerEph'[p] = down[p][1].of
      <4>1. CASE p # c
        BY <2>16, <4>1 DEF FailStep, PopDown
      <4>2. CASE p = c
        BY <2>16, <4>2 DEF FailStep, PopDown, Past, TunnelTypes
      <4> QED BY <4>1, <4>2
    <3> QED BY <3>1, <3>2, <3>3, <1>0, GotKept
  <2>17. CASE TakeVouch(c)
    <3>1. rx'[p] <=> rx[p]
      BY <2>17 DEF TakeVouch, ServerSame, TableSame, ClientSame, QueuesSame, client, server,
         fixed, past
    <3>2. Past(p) => Past(p)'
      BY <2>17 DEF TakeVouch, Past, TunnelTypes, ServerSame, TableSame, ClientSame, QueuesSame,
         client, server, fixed, past
    <3>3. \/ down'[p] = down[p] \/ ~rx'[p]
          \/ \E m : Pushed(down[p], down'[p], m)
          \/ /\ Popped(down[p], down'[p])
             /\ down[p][1].t = "eph" => Past(p)' \/ peerEph'[p] = down[p][1].of
      <4>1. CASE p # c
        BY <2>17, <4>1 DEF TakeVouch, PopDown
      <4>2. CASE p = c
        BY <2>17, <4>2 DEF TakeVouch, PopDown, Past, TunnelTypes
      <4> QED BY <4>1, <4>2
    <3> QED BY <3>1, <3>2, <3>3, <1>0, GotKept
  <2>18. CASE TakeKey(c)
    <3>1. rx'[p] <=> rx[p]
      BY <2>18 DEF TakeKey, ServerSame, TableSame, ClientSame, QueuesSame, client, server,
         fixed, past
    <3>2. Past(p) => Past(p)'
      BY <2>18 DEF TakeKey, Past, TunnelTypes, ServerSame, TableSame, ClientSame, QueuesSame,
         client, server, fixed, past
    <3>3. \/ down'[p] = down[p] \/ ~rx'[p]
          \/ \E m : Pushed(down[p], down'[p], m)
          \/ /\ Popped(down[p], down'[p])
             /\ down[p][1].t = "eph" => Past(p)' \/ peerEph'[p] = down[p][1].of
      <4>1. CASE p # c
        BY <2>18, <4>1 DEF TakeKey, PopDown
      <4>2. CASE p = c
        BY <2>18, <4>2 DEF TakeKey, PopDown, Past, TunnelTypes
      <4> QED BY <4>1, <4>2
    <3> QED BY <3>1, <3>2, <3>3, <1>0, GotKept
  <2>19. CASE TakeHandshake(c)
    <3>1. rx'[p] <=> rx[p]
      BY <2>19 DEF TakeHandshake, ServerSame, TableSame, ClientSame, QueuesSame, client, server,
         fixed, past
    <3>2. Past(p) => Past(p)'
      BY <2>19 DEF TakeHandshake, Past, TunnelTypes, ServerSame, TableSame, ClientSame,
         QueuesSame, client, server, fixed, past
    <3>3. \/ down'[p] = down[p] \/ ~rx'[p]
          \/ \E m : Pushed(down[p], down'[p], m)
          \/ /\ Popped(down[p], down'[p])
             /\ down[p][1].t = "eph" => Past(p)' \/ peerEph'[p] = down[p][1].of
      <4>1. CASE p # c
        BY <2>19, <4>1 DEF TakeHandshake, PopDown
      <4>2. CASE p = c
        BY <2>19, <4>2 DEF TakeHandshake, PopDown, Past, TunnelTypes, Completes
      <4> QED BY <4>1, <4>2
    <3> QED BY <3>1, <3>2, <3>3, <1>0, GotKept
  <2>20. CASE TakeData(c)
    <3>1. rx'[p] <=> rx[p]
      BY <2>20 DEF TakeData, ServerSame, TableSame, ClientSame, QueuesSame, client, server,
         fixed, past
    <3>2. Past(p) => Past(p)'
      BY <2>20 DEF TakeData, Past, TunnelTypes, ServerSame, TableSame, ClientSame, QueuesSame,
         client, server, fixed, past
    <3>3. \/ down'[p] = down[p] \/ ~rx'[p]
          \/ \E m : Pushed(down[p], down'[p], m)
          \/ /\ Popped(down[p], down'[p])
             /\ down[p][1].t = "eph" => Past(p)' \/ peerEph'[p] = down[p][1].of
      <4>1. CASE p # c
        BY <2>20, <4>1 DEF TakeData, PopDown
      <4>2. CASE p = c
        BY <2>20, <4>2 DEF TakeData, PopDown, Past, TunnelTypes, Opens
      <4> QED BY <4>1, <4>2
    <3> QED BY <3>1, <3>2, <3>3, <1>0, GotKept
  <2>21. CASE SkipVouch(c)
    <3>1. rx'[p] <=> rx[p]
      BY <2>21 DEF SkipVouch, ServerSame, TableSame, ClientSame, QueuesSame, client, server,
         fixed, past
    <3>2. Past(p) => Past(p)'
      BY <2>21 DEF SkipVouch, Past, TunnelTypes, ServerSame, TableSame, ClientSame, QueuesSame,
         client, server, fixed, past
    <3>3. \/ down'[p] = down[p] \/ ~rx'[p]
          \/ \E m : Pushed(down[p], down'[p], m)
          \/ /\ Popped(down[p], down'[p])
             /\ down[p][1].t = "eph" => Past(p)' \/ peerEph'[p] = down[p][1].of
      <4>1. CASE p # c
        BY <2>21, <4>1 DEF SkipVouch, PopDown
      <4>2. CASE p = c
        BY <2>21, <4>2 DEF SkipVouch, PopDown, Past, TunnelTypes
      <4> QED BY <4>1, <4>2
    <3> QED BY <3>1, <3>2, <3>3, <1>0, GotKept
  <2>22. CASE DataStep(c)
    <3>1. rx'[p] <=> rx[p]
      BY <2>22 DEF DataStep, ServerSame, TableSame, ClientSame, QueuesSame, client, server,
         fixed, past
    <3>2. Past(p) => Past(p)'
      BY <2>22 DEF DataStep, Past, TunnelTypes, ServerSame, TableSame, ClientSame, QueuesSame,
         client, server, fixed, past
    <3>3. \/ down'[p] = down[p] \/ ~rx'[p]
          \/ \E m : Pushed(down[p], down'[p], m)
          \/ /\ Popped(down[p], down'[p])
             /\ down[p][1].t = "eph" => Past(p)' \/ peerEph'[p] = down[p][1].of
      BY <2>22 DEF DataStep, PushDown, ServerSame, TableSame, ClientSame, QueuesSame, client,
         server, fixed, past
    <3> QED BY <3>1, <3>2, <3>3, <1>0, GotKept
  <2>23. CASE CloseStep(c)
    <3>1. rx'[p] <=> rx[p]
      BY <2>23 DEF CloseStep, ServerSame, TableSame, ClientSame, QueuesSame, client, server,
         fixed, past
    <3>2. Past(p) => Past(p)'
      BY <2>23 DEF CloseStep, Past, TunnelTypes, ServerSame, TableSame, ClientSame, QueuesSame,
         client, server, fixed, past
    <3>3. \/ down'[p] = down[p] \/ ~rx'[p]
          \/ \E m : Pushed(down[p], down'[p], m)
          \/ /\ Popped(down[p], down'[p])
             /\ down[p][1].t = "eph" => Past(p)' \/ peerEph'[p] = down[p][1].of
      BY <2>23 DEF CloseStep, PushDown, ServerSame, TableSame, ClientSame, QueuesSame, client,
         server, fixed, past
    <3> QED BY <3>1, <3>2, <3>3, <1>0, GotKept
  <2> QED BY <1>4, <2>1, <2>2, <2>3, <2>4, <2>5, <2>6, <2>7, <2>8, <2>9, <2>10, <2>11, <2>12,
     <2>13, <2>14, <2>15, <2>16, <2>17, <2>18, <2>19, <2>20, <2>21, <2>22, <2>23 DEF TunnelStep
<1> QED BY <1>1, <1>2, <1>3, <1>4, StepCases

\* A key that has left stays ahead.
LEMMA KeyOutStable ==
    ASSUME TunnelTypes, HubInv, ClientInv, NEW k \in Conn, KeyOut(k), Next
    PROVE  KeyOut(k)'
<1>0. ASSUME NEW p \in Conn, Got(p, k) PROVE Got(p, k)'
  BY <1>0, GotStable
<1>5. peer[k] \in Conns
  BY DEF TunnelTypes
<1>1. CASE Offer
  <2>1. UNCHANGED <<pc, peer>> /\ (offered => offered' /\ (hub = NoTunnel => hub' = NoTunnel))
    BY <1>1 DEF Offer, client, server, fixed, past
  <2> QED BY <2>1, <1>0, <1>5 DEF KeyOut, Conns
<1>2. CASE Sweep
  <2>1. UNCHANGED <<pc, peer>> /\ (offered => offered' /\ (hub = NoTunnel => hub' = NoTunnel))
    BY <1>2 DEF Sweep, client, server, fixed, past
  <2> QED BY <2>1, <1>0, <1>5 DEF KeyOut, Conns
<1>3. ASSUME NEW x \in Side, Rotate(x) PROVE KeyOut(k)'
  <2>1. UNCHANGED <<pc, peer>> /\ (offered => offered' /\ (hub = NoTunnel => hub' = NoTunnel))
    BY <1>3 DEF Rotate, client, server, fixed, past
  <2> QED BY <2>1, <1>0, <1>5 DEF KeyOut, Conns
<1>4. ASSUME NEW c \in Conn, TunnelStep(c) PROVE KeyOut(k)'
  <2>1. CASE Connect(c)
    <3>1. pc[k] \in Leaving => pc'[k] \in Leaving
      BY <2>1 DEF Connect, TunnelTypes, Goto, Leaving, ServerSame, TableSame, ClientSame,
         QueuesSame, client, server, fixed, past
    <3>2. pc[k] = "run" /\ peer[k] = NoConn /\ hub = NoTunnel /\ offered =>
             \/ pc'[k] \in Leaving
             \/ pc'[k] = "run" /\ peer'[k] = NoConn /\ hub' = NoTunnel /\ offered'
      BY <2>1 DEF Connect, TunnelTypes, Goto, Leaving, ServerSame, TableSame, ClientSame,
         QueuesSame, client, server, fixed, past
    <3>3. pc[k] = "run" /\ peer[k] # NoConn =>
             pc'[k] \in Leaving \/ (pc'[k] = "run" /\ peer'[k] = peer[k])
      BY <2>1 DEF Connect, TunnelTypes, Goto, Leaving, ServerSame, TableSame, ClientSame,
         QueuesSame, client, server, fixed, past
    <3> QED BY <3>1, <3>2, <3>3, <1>0, <1>5 DEF KeyOut, Conns
  <2>2. CASE LookupFingerprint(c)
    <3>1. pc[k] \in Leaving => pc'[k] \in Leaving
      BY <2>2 DEF LookupFingerprint, TunnelTypes, Goto, Leaving, ServerSame, TableSame,
         ClientSame, QueuesSame, client, server, fixed, past
    <3>2. pc[k] = "run" /\ peer[k] = NoConn /\ hub = NoTunnel /\ offered =>
             \/ pc'[k] \in Leaving
             \/ pc'[k] = "run" /\ peer'[k] = NoConn /\ hub' = NoTunnel /\ offered'
      BY <2>2 DEF LookupFingerprint, TunnelTypes, Goto, Leaving, ServerSame, TableSame,
         ClientSame, QueuesSame, client, server, fixed, past
    <3>3. pc[k] = "run" /\ peer[k] # NoConn =>
             pc'[k] \in Leaving \/ (pc'[k] = "run" /\ peer'[k] = peer[k])
      BY <2>2 DEF LookupFingerprint, TunnelTypes, Goto, Leaving, ServerSame, TableSame,
         ClientSame, QueuesSame, client, server, fixed, past
    <3> QED BY <3>1, <3>2, <3>3, <1>0, <1>5 DEF KeyOut, Conns
  <2>3. CASE RegisterStep(c)
    <3>1. pc[k] \in Leaving => pc'[k] \in Leaving
      BY <2>3 DEF RegisterStep, TunnelTypes, Goto, Leaving, ServerSame, TableSame, ClientSame,
         QueuesSame, client, server, fixed, past
    <3>2. pc[k] = "run" /\ peer[k] = NoConn /\ hub = NoTunnel /\ offered =>
             \/ pc'[k] \in Leaving
             \/ pc'[k] = "run" /\ peer'[k] = NoConn /\ hub' = NoTunnel /\ offered'
      BY <2>3 DEF RegisterStep, TunnelTypes, Goto, Leaving, ServerSame, TableSame, ClientSame,
         QueuesSame, client, server, fixed, past
    <3>3. pc[k] = "run" /\ peer[k] # NoConn =>
             pc'[k] \in Leaving \/ (pc'[k] = "run" /\ peer'[k] = peer[k])
      BY <2>3 DEF RegisterStep, TunnelTypes, Goto, Leaving, ServerSame, TableSame, ClientSame,
         QueuesSame, client, server, fixed, past
    <3> QED BY <3>1, <3>2, <3>3, <1>0, <1>5 DEF KeyOut, Conns
  <2>4. CASE TooLateStep(c)
    <3>1. pc[k] \in Leaving => pc'[k] \in Leaving
      BY <2>4 DEF TooLateStep, TunnelTypes, Goto, Leaving, ServerSame, TableSame, ClientSame,
         QueuesSame, client, server, fixed, past
    <3>2. pc[k] = "run" /\ peer[k] = NoConn /\ hub = NoTunnel /\ offered =>
             \/ pc'[k] \in Leaving
             \/ pc'[k] = "run" /\ peer'[k] = NoConn /\ hub' = NoTunnel /\ offered'
      BY <2>4 DEF TooLateStep, TunnelTypes, Goto, Leaving, ServerSame, TableSame, ClientSame,
         QueuesSame, client, server, fixed, past
    <3>3. pc[k] = "run" /\ peer[k] # NoConn =>
             pc'[k] \in Leaving \/ (pc'[k] = "run" /\ peer'[k] = peer[k])
      BY <2>4 DEF TooLateStep, TunnelTypes, Goto, Leaving, ServerSame, TableSame, ClientSame,
         QueuesSame, client, server, fixed, past
    <3> QED BY <3>1, <3>2, <3>3, <1>0, <1>5 DEF KeyOut, Conns
  <2>5. CASE VouchMeStep(c)
    <3>1. pc[k] \in Leaving => pc'[k] \in Leaving
      BY <2>5 DEF VouchMeStep, TunnelTypes, Goto, Leaving, ServerSame, TableSame, ClientSame,
         QueuesSame, client, server, fixed, past
    <3>2. pc[k] = "run" /\ peer[k] = NoConn /\ hub = NoTunnel /\ offered =>
             \/ pc'[k] \in Leaving
             \/ pc'[k] = "run" /\ peer'[k] = NoConn /\ hub' = NoTunnel /\ offered'
      BY <2>5 DEF VouchMeStep, TunnelTypes, Goto, Leaving, ServerSame, TableSame, ClientSame,
         QueuesSame, client, server, fixed, past
    <3>3. pc[k] = "run" /\ peer[k] # NoConn =>
             pc'[k] \in Leaving \/ (pc'[k] = "run" /\ peer'[k] = peer[k])
      BY <2>5 DEF VouchMeStep, TunnelTypes, Goto, Leaving, ServerSame, TableSame, ClientSame,
         QueuesSame, client, server, fixed, past
    <3> QED BY <3>1, <3>2, <3>3, <1>0, <1>5 DEF KeyOut, Conns
  <2>6. CASE VouchPeerStep(c)
    <3>1. pc[k] \in Leaving => pc'[k] \in Leaving
      BY <2>6 DEF VouchPeerStep, TunnelTypes, Goto, Leaving, ServerSame, TableSame, ClientSame,
         QueuesSame, client, server, fixed, past
    <3>2. pc[k] = "run" /\ peer[k] = NoConn /\ hub = NoTunnel /\ offered =>
             \/ pc'[k] \in Leaving
             \/ pc'[k] = "run" /\ peer'[k] = NoConn /\ hub' = NoTunnel /\ offered'
      BY <2>6 DEF VouchPeerStep, TunnelTypes, Goto, Leaving, ServerSame, TableSame, ClientSame,
         QueuesSame, client, server, fixed, past
    <3>3. pc[k] = "run" /\ peer[k] # NoConn =>
             pc'[k] \in Leaving \/ (pc'[k] = "run" /\ peer'[k] = peer[k])
      BY <2>6 DEF VouchPeerStep, TunnelTypes, Goto, Leaving, ServerSame, TableSame, ClientSame,
         QueuesSame, client, server, fixed, past
    <3> QED BY <3>1, <3>2, <3>3, <1>0, <1>5 DEF KeyOut, Conns
  <2>7. CASE DropStep(c)
    <3>1. pc[k] \in Leaving => pc'[k] \in Leaving
      BY <2>7 DEF DropStep, TunnelTypes, Goto, Leaving, ServerSame, TableSame, ClientSame,
         QueuesSame, client, server, fixed, past
    <3>2. pc[k] = "run" /\ peer[k] = NoConn /\ hub = NoTunnel /\ offered =>
             \/ pc'[k] \in Leaving
             \/ pc'[k] = "run" /\ peer'[k] = NoConn /\ hub' = NoTunnel /\ offered'
      BY <2>7 DEF DropStep, TunnelTypes, Goto, Leaving, ServerSame, TableSame, ClientSame,
         QueuesSame, client, server, fixed, past
    <3>3. pc[k] = "run" /\ peer[k] # NoConn =>
             pc'[k] \in Leaving \/ (pc'[k] = "run" /\ peer'[k] = peer[k])
      BY <2>7 DEF DropStep, TunnelTypes, Goto, Leaving, ServerSame, TableSame, ClientSame,
         QueuesSame, client, server, fixed, past
    <3> QED BY <3>1, <3>2, <3>3, <1>0, <1>5 DEF KeyOut, Conns
  <2>8. CASE FindStep(c)
    <3>1. pc[k] \in Leaving => pc'[k] \in Leaving
      BY <2>8 DEF FindStep, TunnelTypes, Goto, Leaving, ServerSame, TableSame, ClientSame,
         QueuesSame, client, server, fixed, past
    <3>2. pc[k] = "run" /\ peer[k] = NoConn /\ hub = NoTunnel /\ offered =>
             \/ pc'[k] \in Leaving
             \/ pc'[k] = "run" /\ peer'[k] = NoConn /\ hub' = NoTunnel /\ offered'
      BY <2>8 DEF FindStep, TunnelTypes, Goto, Leaving, ServerSame, TableSame, ClientSame,
         QueuesSame, client, server, fixed, past
    <3>3. pc[k] = "run" /\ peer[k] # NoConn =>
             pc'[k] \in Leaving \/ (pc'[k] = "run" /\ peer'[k] = peer[k])
      BY <2>8 DEF FindStep, TunnelTypes, Goto, Leaving, ServerSame, TableSame, ClientSame,
         QueuesSame, client, server, fixed, past
    <3> QED BY <3>1, <3>2, <3>3, <1>0, <1>5 DEF KeyOut, Conns
  <2>9. CASE ForwardStep(c)
    <3>1. pc[k] \in Leaving => pc'[k] \in Leaving
      BY <2>9 DEF ForwardStep, TunnelTypes, Goto, Leaving, ServerSame, TableSame, ClientSame,
         QueuesSame, client, server, fixed, past
    <3>2. pc[k] = "run" /\ peer[k] = NoConn /\ hub = NoTunnel /\ offered =>
             \/ pc'[k] \in Leaving
             \/ pc'[k] = "run" /\ peer'[k] = NoConn /\ hub' = NoTunnel /\ offered'
      BY <2>9 DEF ForwardStep, TunnelTypes, Goto, Leaving, ServerSame, TableSame, ClientSame,
         QueuesSame, client, server, fixed, past
    <3>3. pc[k] = "run" /\ peer[k] # NoConn =>
             pc'[k] \in Leaving \/ (pc'[k] = "run" /\ peer'[k] = peer[k])
      BY <2>9 DEF ForwardStep, TunnelTypes, Goto, Leaving, ServerSame, TableSame, ClientSame,
         QueuesSame, client, server, fixed, past
    <3> QED BY <3>1, <3>2, <3>3, <1>0, <1>5 DEF KeyOut, Conns
  <2>10. CASE ForwardFails(c)
    <3>1. pc[k] \in Leaving => pc'[k] \in Leaving
      BY <2>10 DEF ForwardFails, TunnelTypes, Goto, Leaving, ServerSame, TableSame, ClientSame,
         QueuesSame, client, server, fixed, past
    <3>2. pc[k] = "run" /\ peer[k] = NoConn /\ hub = NoTunnel /\ offered =>
             \/ pc'[k] \in Leaving
             \/ pc'[k] = "run" /\ peer'[k] = NoConn /\ hub' = NoTunnel /\ offered'
      BY <2>10 DEF ForwardFails, TunnelTypes, Goto, Leaving, ServerSame, TableSame, ClientSame,
         QueuesSame, client, server, fixed, past
    <3>3. pc[k] = "run" /\ peer[k] # NoConn =>
             pc'[k] \in Leaving \/ (pc'[k] = "run" /\ peer'[k] = peer[k])
      BY <2>10 DEF ForwardFails, TunnelTypes, Goto, Leaving, ServerSame, TableSame, ClientSame,
         QueuesSame, client, server, fixed, past
    <3> QED BY <3>1, <3>2, <3>3, <1>0, <1>5 DEF KeyOut, Conns
  <2>11. CASE SeeCloseStep(c)
    <3>1. pc[k] \in Leaving => pc'[k] \in Leaving
      BY <2>11 DEF SeeCloseStep, TunnelTypes, Goto, Leaving, ServerSame, TableSame, ClientSame,
         QueuesSame, client, server, fixed, past
    <3>2. pc[k] = "run" /\ peer[k] = NoConn /\ hub = NoTunnel /\ offered =>
             \/ pc'[k] \in Leaving
             \/ pc'[k] = "run" /\ peer'[k] = NoConn /\ hub' = NoTunnel /\ offered'
      BY <2>11 DEF SeeCloseStep, TunnelTypes, Goto, Leaving, ServerSame, TableSame, ClientSame,
         QueuesSame, client, server, fixed, past
    <3>3. pc[k] = "run" /\ peer[k] # NoConn =>
             pc'[k] \in Leaving \/ (pc'[k] = "run" /\ peer'[k] = peer[k])
      BY <2>11 DEF SeeCloseStep, TunnelTypes, Goto, Leaving, ServerSame, TableSame, ClientSame,
         QueuesSame, client, server, fixed, past
    <3> QED BY <3>1, <3>2, <3>3, <1>0, <1>5 DEF KeyOut, Conns
  <2>12. CASE TeardownStep(c)
    <3>1. pc[k] \in Leaving => pc'[k] \in Leaving
      BY <2>12 DEF TeardownStep, TunnelTypes, Goto, Leaving, ServerSame, TableSame, ClientSame,
         QueuesSame, client, server, fixed, past
    <3>2. pc[k] = "run" /\ peer[k] = NoConn /\ hub = NoTunnel /\ offered =>
             \/ pc'[k] \in Leaving
             \/ pc'[k] = "run" /\ peer'[k] = NoConn /\ hub' = NoTunnel /\ offered'
      BY <2>12 DEF TeardownStep, TunnelTypes, Goto, Leaving, ServerSame, TableSame, ClientSame,
         QueuesSame, client, server, fixed, past
    <3>3. pc[k] = "run" /\ peer[k] # NoConn =>
             pc'[k] \in Leaving \/ (pc'[k] = "run" /\ peer'[k] = peer[k])
      BY <2>12 DEF TeardownStep, TunnelTypes, Goto, Leaving, ServerSame, TableSame, ClientSame,
         QueuesSame, client, server, fixed, past
    <3> QED BY <3>1, <3>2, <3>3, <1>0, <1>5 DEF KeyOut, Conns
  <2>13. CASE TellStep(c)
    <3>1. pc[k] \in Leaving => pc'[k] \in Leaving
      BY <2>13 DEF TellStep, TunnelTypes, Goto, Leaving, ServerSame, TableSame, ClientSame,
         QueuesSame, client, server, fixed, past
    <3>2. pc[k] = "run" /\ peer[k] = NoConn /\ hub = NoTunnel /\ offered =>
             \/ pc'[k] \in Leaving
             \/ pc'[k] = "run" /\ peer'[k] = NoConn /\ hub' = NoTunnel /\ offered'
      BY <2>13 DEF TellStep, TunnelTypes, Goto, Leaving, ServerSame, TableSame, ClientSame,
         QueuesSame, client, server, fixed, past
    <3>3. pc[k] = "run" /\ peer[k] # NoConn =>
             pc'[k] \in Leaving \/ (pc'[k] = "run" /\ peer'[k] = peer[k])
      BY <2>13 DEF TellStep, TunnelTypes, Goto, Leaving, ServerSame, TableSame, ClientSame,
         QueuesSame, client, server, fixed, past
    <3> QED BY <3>1, <3>2, <3>3, <1>0, <1>5 DEF KeyOut, Conns
  <2>14. CASE PumpStep(c)
    <3>1. pc[k] \in Leaving => pc'[k] \in Leaving
      BY <2>14 DEF PumpStep, TunnelTypes, Goto, Leaving, ServerSame, TableSame, ClientSame,
         QueuesSame, client, server, fixed, past
    <3>2. pc[k] = "run" /\ peer[k] = NoConn /\ hub = NoTunnel /\ offered =>
             \/ pc'[k] \in Leaving
             \/ pc'[k] = "run" /\ peer'[k] = NoConn /\ hub' = NoTunnel /\ offered'
      BY <2>14 DEF PumpStep, TunnelTypes, Goto, Leaving, ServerSame, TableSame, ClientSame,
         QueuesSame, client, server, fixed, past
    <3>3. pc[k] = "run" /\ peer[k] # NoConn =>
             pc'[k] \in Leaving \/ (pc'[k] = "run" /\ peer'[k] = peer[k])
      BY <2>14 DEF PumpStep, TunnelTypes, Goto, Leaving, ServerSame, TableSame, ClientSame,
         QueuesSame, client, server, fixed, past
    <3> QED BY <3>1, <3>2, <3>3, <1>0, <1>5 DEF KeyOut, Conns
  <2>15. CASE SocketDrops(c)
    <3>1. pc[k] \in Leaving => pc'[k] \in Leaving
      BY <2>15 DEF SocketDrops, TunnelTypes, Goto, Leaving, ServerSame, TableSame, ClientSame,
         QueuesSame, client, server, fixed, past
    <3>2. pc[k] = "run" /\ peer[k] = NoConn /\ hub = NoTunnel /\ offered =>
             \/ pc'[k] \in Leaving
             \/ pc'[k] = "run" /\ peer'[k] = NoConn /\ hub' = NoTunnel /\ offered'
      BY <2>15 DEF SocketDrops, TunnelTypes, Goto, Leaving, ServerSame, TableSame, ClientSame,
         QueuesSame, client, server, fixed, past
    <3>3. pc[k] = "run" /\ peer[k] # NoConn =>
             pc'[k] \in Leaving \/ (pc'[k] = "run" /\ peer'[k] = peer[k])
      BY <2>15 DEF SocketDrops, TunnelTypes, Goto, Leaving, ServerSame, TableSame, ClientSame,
         QueuesSame, client, server, fixed, past
    <3> QED BY <3>1, <3>2, <3>3, <1>0, <1>5 DEF KeyOut, Conns
  <2>16. CASE FailStep(c)
    <3>1. pc[k] \in Leaving => pc'[k] \in Leaving
      BY <2>16 DEF FailStep, TunnelTypes, Goto, Leaving, ServerSame, TableSame, ClientSame,
         QueuesSame, client, server, fixed, past
    <3>2. pc[k] = "run" /\ peer[k] = NoConn /\ hub = NoTunnel /\ offered =>
             \/ pc'[k] \in Leaving
             \/ pc'[k] = "run" /\ peer'[k] = NoConn /\ hub' = NoTunnel /\ offered'
      BY <2>16 DEF FailStep, TunnelTypes, Goto, Leaving, ServerSame, TableSame, ClientSame,
         QueuesSame, client, server, fixed, past
    <3>3. pc[k] = "run" /\ peer[k] # NoConn =>
             pc'[k] \in Leaving \/ (pc'[k] = "run" /\ peer'[k] = peer[k])
      BY <2>16 DEF FailStep, TunnelTypes, Goto, Leaving, ServerSame, TableSame, ClientSame,
         QueuesSame, client, server, fixed, past
    <3> QED BY <3>1, <3>2, <3>3, <1>0, <1>5 DEF KeyOut, Conns
  <2>17. CASE TakeVouch(c)
    <3>1. pc[k] \in Leaving => pc'[k] \in Leaving
      BY <2>17 DEF TakeVouch, TunnelTypes, Goto, Leaving, ServerSame, TableSame, ClientSame,
         QueuesSame, client, server, fixed, past
    <3>2. pc[k] = "run" /\ peer[k] = NoConn /\ hub = NoTunnel /\ offered =>
             \/ pc'[k] \in Leaving
             \/ pc'[k] = "run" /\ peer'[k] = NoConn /\ hub' = NoTunnel /\ offered'
      BY <2>17 DEF TakeVouch, TunnelTypes, Goto, Leaving, ServerSame, TableSame, ClientSame,
         QueuesSame, client, server, fixed, past
    <3>3. pc[k] = "run" /\ peer[k] # NoConn =>
             pc'[k] \in Leaving \/ (pc'[k] = "run" /\ peer'[k] = peer[k])
      BY <2>17 DEF TakeVouch, TunnelTypes, Goto, Leaving, ServerSame, TableSame, ClientSame,
         QueuesSame, client, server, fixed, past
    <3> QED BY <3>1, <3>2, <3>3, <1>0, <1>5 DEF KeyOut, Conns
  <2>18. CASE TakeKey(c)
    <3>1. pc[k] \in Leaving => pc'[k] \in Leaving
      BY <2>18 DEF TakeKey, TunnelTypes, Goto, Leaving, ServerSame, TableSame, ClientSame,
         QueuesSame, client, server, fixed, past
    <3>2. pc[k] = "run" /\ peer[k] = NoConn /\ hub = NoTunnel /\ offered =>
             \/ pc'[k] \in Leaving
             \/ pc'[k] = "run" /\ peer'[k] = NoConn /\ hub' = NoTunnel /\ offered'
      BY <2>18 DEF TakeKey, TunnelTypes, Goto, Leaving, ServerSame, TableSame, ClientSame,
         QueuesSame, client, server, fixed, past
    <3>3. pc[k] = "run" /\ peer[k] # NoConn =>
             pc'[k] \in Leaving \/ (pc'[k] = "run" /\ peer'[k] = peer[k])
      BY <2>18 DEF TakeKey, TunnelTypes, Goto, Leaving, ServerSame, TableSame, ClientSame,
         QueuesSame, client, server, fixed, past
    <3> QED BY <3>1, <3>2, <3>3, <1>0, <1>5 DEF KeyOut, Conns
  <2>19. CASE TakeHandshake(c)
    <3>1. pc[k] \in Leaving => pc'[k] \in Leaving
      BY <2>19 DEF TakeHandshake, TunnelTypes, Goto, Leaving, ServerSame, TableSame, ClientSame,
         QueuesSame, client, server, fixed, past
    <3>2. pc[k] = "run" /\ peer[k] = NoConn /\ hub = NoTunnel /\ offered =>
             \/ pc'[k] \in Leaving
             \/ pc'[k] = "run" /\ peer'[k] = NoConn /\ hub' = NoTunnel /\ offered'
      BY <2>19 DEF TakeHandshake, TunnelTypes, Goto, Leaving, ServerSame, TableSame, ClientSame,
         QueuesSame, client, server, fixed, past
    <3>3. pc[k] = "run" /\ peer[k] # NoConn =>
             pc'[k] \in Leaving \/ (pc'[k] = "run" /\ peer'[k] = peer[k])
      BY <2>19 DEF TakeHandshake, TunnelTypes, Goto, Leaving, ServerSame, TableSame, ClientSame,
         QueuesSame, client, server, fixed, past
    <3> QED BY <3>1, <3>2, <3>3, <1>0, <1>5 DEF KeyOut, Conns
  <2>20. CASE TakeData(c)
    <3>1. pc[k] \in Leaving => pc'[k] \in Leaving
      BY <2>20 DEF TakeData, TunnelTypes, Goto, Leaving, ServerSame, TableSame, ClientSame,
         QueuesSame, client, server, fixed, past
    <3>2. pc[k] = "run" /\ peer[k] = NoConn /\ hub = NoTunnel /\ offered =>
             \/ pc'[k] \in Leaving
             \/ pc'[k] = "run" /\ peer'[k] = NoConn /\ hub' = NoTunnel /\ offered'
      BY <2>20 DEF TakeData, TunnelTypes, Goto, Leaving, ServerSame, TableSame, ClientSame,
         QueuesSame, client, server, fixed, past
    <3>3. pc[k] = "run" /\ peer[k] # NoConn =>
             pc'[k] \in Leaving \/ (pc'[k] = "run" /\ peer'[k] = peer[k])
      BY <2>20 DEF TakeData, TunnelTypes, Goto, Leaving, ServerSame, TableSame, ClientSame,
         QueuesSame, client, server, fixed, past
    <3> QED BY <3>1, <3>2, <3>3, <1>0, <1>5 DEF KeyOut, Conns
  <2>21. CASE SkipVouch(c)
    <3>1. pc[k] \in Leaving => pc'[k] \in Leaving
      BY <2>21 DEF SkipVouch, TunnelTypes, Goto, Leaving, ServerSame, TableSame, ClientSame,
         QueuesSame, client, server, fixed, past
    <3>2. pc[k] = "run" /\ peer[k] = NoConn /\ hub = NoTunnel /\ offered =>
             \/ pc'[k] \in Leaving
             \/ pc'[k] = "run" /\ peer'[k] = NoConn /\ hub' = NoTunnel /\ offered'
      BY <2>21 DEF SkipVouch, TunnelTypes, Goto, Leaving, ServerSame, TableSame, ClientSame,
         QueuesSame, client, server, fixed, past
    <3>3. pc[k] = "run" /\ peer[k] # NoConn =>
             pc'[k] \in Leaving \/ (pc'[k] = "run" /\ peer'[k] = peer[k])
      BY <2>21 DEF SkipVouch, TunnelTypes, Goto, Leaving, ServerSame, TableSame, ClientSame,
         QueuesSame, client, server, fixed, past
    <3> QED BY <3>1, <3>2, <3>3, <1>0, <1>5 DEF KeyOut, Conns
  <2>22. CASE DataStep(c)
    <3>1. pc[k] \in Leaving => pc'[k] \in Leaving
      BY <2>22 DEF DataStep, TunnelTypes, Goto, Leaving, ServerSame, TableSame, ClientSame,
         QueuesSame, client, server, fixed, past
    <3>2. pc[k] = "run" /\ peer[k] = NoConn /\ hub = NoTunnel /\ offered =>
             \/ pc'[k] \in Leaving
             \/ pc'[k] = "run" /\ peer'[k] = NoConn /\ hub' = NoTunnel /\ offered'
      BY <2>22 DEF DataStep, TunnelTypes, Goto, Leaving, ServerSame, TableSame, ClientSame,
         QueuesSame, client, server, fixed, past
    <3>3. pc[k] = "run" /\ peer[k] # NoConn =>
             pc'[k] \in Leaving \/ (pc'[k] = "run" /\ peer'[k] = peer[k])
      BY <2>22 DEF DataStep, TunnelTypes, Goto, Leaving, ServerSame, TableSame, ClientSame,
         QueuesSame, client, server, fixed, past
    <3> QED BY <3>1, <3>2, <3>3, <1>0, <1>5 DEF KeyOut, Conns
  <2>23. CASE CloseStep(c)
    <3>1. pc[k] \in Leaving => pc'[k] \in Leaving
      BY <2>23 DEF CloseStep, TunnelTypes, Goto, Leaving, ServerSame, TableSame, ClientSame,
         QueuesSame, client, server, fixed, past
    <3>2. pc[k] = "run" /\ peer[k] = NoConn /\ hub = NoTunnel /\ offered =>
             \/ pc'[k] \in Leaving
             \/ pc'[k] = "run" /\ peer'[k] = NoConn /\ hub' = NoTunnel /\ offered'
      BY <2>23 DEF CloseStep, TunnelTypes, Goto, Leaving, ServerSame, TableSame, ClientSame,
         QueuesSame, client, server, fixed, past
    <3>3. pc[k] = "run" /\ peer[k] # NoConn =>
             pc'[k] \in Leaving \/ (pc'[k] = "run" /\ peer'[k] = peer[k])
      BY <2>23 DEF CloseStep, TunnelTypes, Goto, Leaving, ServerSame, TableSame, ClientSame,
         QueuesSame, client, server, fixed, past
    <3> QED BY <3>1, <3>2, <3>3, <1>0, <1>5 DEF KeyOut, Conns
  <2> QED BY <1>4, <2>1, <2>2, <2>3, <2>4, <2>5, <2>6, <2>7, <2>8, <2>9, <2>10, <2>11, <2>12,
     <2>13, <2>14, <2>15, <2>16, <2>17, <2>18, <2>19, <2>20, <2>21, <2>22, <2>23 DEF TunnelStep
<1> QED BY <1>1, <1>2, <1>3, <1>4, StepCases

\* What a step may do to the queue from a client, and to the one towards it, with
\* the keys staying first.
UpMoves(d) ==
    \/ up'[d] = up[d]
    \/ \E m : /\ Pushed(up[d], up'[d], m)
              /\ m.t = "hs" => m.of = d /\ cl[d] = "eph"
    \/ KeyOut(d)'
    \/ Popped(up[d], up'[d]) /\ up[d][1].t # "eph"
DownMoves(d) ==
    \/ down'[d] = down[d] \/ down'[d] = <<>> \/ Past(d)'
    \/ \E m \in Msg : /\ Pushed(down[d], down'[d], m)
                      /\ m.t = "hs" => Past(d)' \/ peerEph[d] = m.of \/ KeyAt(down[d], m.of)
    \/ /\ Popped(down[d], down'[d])
       /\ down[d][1].t = "eph" => peerEph'[d] = down[d][1].of

\* The queue from a client, its key first.
LEMMA UpKeys ==
    ASSUME TunnelTypes, TunnelTypes', NEW d \in Conn, KeySent(d), KeyLeads(d), KeyOut(d) => KeyOut(d)',
           cl'[d] = "eph" => cl[d] = "eph" \/ KeyAt(up'[d], d),
           UpMoves(d)
    PROVE  KeySent(d)' /\ KeyLeads(d)'
<1> USE DEF UpMoves
<1>1. KeySent(d)'
  <2> SUFFICES ASSUME cl'[d] = "eph", ~KeyOut(d)', ~KeyAt(up'[d], d) PROVE FALSE
    BY DEF KeySent, KeyAt
  <2>1. KeyAt(up[d], d)
    BY DEF KeySent
  <2>2. ~Popped(up[d], up'[d]) \/ up[d][1].t = "eph"
    BY <2>1, KeyAtFacts
  <2>3. \A m : ~Pushed(up[d], up'[d], m)
    BY <2>1, KeyAtFacts
  <2> QED BY <2>1, <2>2, <2>3
<1>2. KeyLeads(d)'
  <2> SUFFICES ASSUME NEW i \in 1..Len(up'[d]), up'[d][i].t = "hs", ~KeyOut(d)'
               PROVE  KeyFirst(up'[d], i)
    BY DEF KeyLeads, KeyFirst
  <2>1. \A j \in 1..Len(up[d]) : up[d][j].t = "hs" => KeyFirst(up[d], j)
    BY DEF KeyLeads
  <2>2. CASE up'[d] = up[d]
    BY <2>1, <2>2
  <2>3. ASSUME NEW m, Pushed(up[d], up'[d], m), m.t = "hs" => m.of = d /\ cl[d] = "eph"
        PROVE  KeyFirst(up'[d], i)
    <3>1. CASE i \in 1..Len(up[d]) /\ up'[d][i] = up[d][i]
      BY <2>1, <2>3, <3>1, KeyFirstPushed
    <3>2. CASE i = Len(up'[d])
      <4>1. m.t = "hs"
        BY <2>3, <3>2 DEF Pushed
      <4>2. KeyAt(up[d], m.of)
        BY <2>3, <4>1 DEF KeySent
      <4> QED BY <2>3, <3>2, <4>2, KeyFirstLast
    <3> QED BY <2>3, <3>1, <3>2 DEF Pushed
  <2>4. CASE Popped(up[d], up'[d]) /\ up[d][1].t # "eph"
    <3>1. i + 1 \in 1..Len(up[d]) /\ up'[d][i] = up[d][i + 1]
      BY <2>4 DEF Popped
    <3>2. KeyFirst(up[d], i + 1)
      BY <2>1, <3>1
    <3> QED BY <2>4, <3>2, KeyFirstPopped
  <2> QED BY <2>2, <2>3, <2>4
<1> QED BY <1>1, <1>2

\* The queue towards a client, each handshake behind its key.
LEMMA DownKeys ==
    ASSUME TunnelTypes, NEW d \in Conn, KeyArrives(d), Past(d) => Past(d)',
           peerEph[d] # NoConn => peerEph'[d] = peerEph[d],
           DownMoves(d)
    PROVE  KeyArrives(d)'
<1> USE DEF DownMoves
<1> SUFFICES ASSUME ~Past(d)', NEW i \in 1..Len(down'[d]), down'[d][i].t = "hs"
             PROVE  peerEph'[d] = down'[d][i].of \/ KeyFirst(down'[d], i)
  BY DEF KeyArrives, KeyFirst
<1>1. ASSUME NEW j \in 1..Len(down[d]), down[d][j].t = "hs"
      PROVE  (peerEph[d] = down[d][j].of /\ peerEph'[d] = down[d][j].of) \/ KeyFirst(down[d], j)
  <2>1. down[d][j] \in Msg
    BY DEF TunnelTypes, Queues
  <2>2. down[d][j].of # NoConn
    BY <1>1, <2>1, MsgShape, TunnelAssumption
  <2> QED BY <1>1, <2>2 DEF KeyArrives
<1>2. CASE down'[d] = down[d]
  BY <1>1, <1>2
<1>3. CASE down'[d] = <<>>
  BY <1>3
<1>4. ASSUME NEW m \in Msg, Pushed(down[d], down'[d], m),
             m.t = "hs" => peerEph[d] = m.of \/ KeyAt(down[d], m.of)
      PROVE  peerEph'[d] = down'[d][i].of \/ KeyFirst(down'[d], i)
  <2>1. CASE i \in 1..Len(down[d]) /\ down'[d][i] = down[d][i]
    BY <1>1, <1>4, <2>1, KeyFirstPushed
  <2>2. CASE i = Len(down'[d])
    <3>1. down'[d][i] = m /\ m.t = "hs"
      BY <1>4, <2>2 DEF Pushed
    <3>2. CASE peerEph[d] = m.of
      <4>1. m.of # NoConn
        BY <3>1, MsgShape, TunnelAssumption
      <4> QED BY <3>1, <3>2, <4>1
    <3>3. CASE KeyAt(down[d], m.of)
      BY <1>4, <2>2, <3>3, KeyFirstLast
    <3> QED BY <1>4, <3>1, <3>2, <3>3
  <2> QED BY <1>4, <2>1, <2>2 DEF Pushed
<1>5. CASE /\ Popped(down[d], down'[d])
           /\ down[d][1].t = "eph" => peerEph'[d] = down[d][1].of
  <2>1. i + 1 \in 1..Len(down[d]) /\ down'[d][i] = down[d][i + 1]
    BY <1>5 DEF Popped
  <2>2. CASE KeyFirst(down[d], i + 1)
    BY <1>5, <2>1, <2>2, KeyFirstPopped
  <2> QED BY <1>1, <2>1, <2>2
<1>6. CASE \E m \in Msg : /\ Pushed(down[d], down'[d], m)
                          /\ m.t = "hs" => Past(d)' \/ peerEph[d] = m.of \/ KeyAt(down[d], m.of)
  <2>1. PICK m \in Msg : /\ Pushed(down[d], down'[d], m)
                         /\ m.t = "hs" => Past(d)' \/ peerEph[d] = m.of \/ KeyAt(down[d], m.of)
    BY <1>6
  <2>2. m.t = "hs" => peerEph[d] = m.of \/ KeyAt(down[d], m.of)
    BY <2>1
  <2> QED BY <1>4, <2>1, <2>2
<1>7. CASE Past(d)'
  BY <1>7
<1> QED BY <1>7, <1>2, <1>3, <1>5, <1>6

\* Keys stay ahead of the handshakes.
LEMMA NextKeyInv ==
    ASSUME TunnelTypes, HubInv, PairedInv, AloneInv, ClientInv, FrameInv, KeyInv, Next
    PROVE  KeyInv'
<1> USE DEF UpMoves, DownMoves
<1>0. TunnelTypes' /\ Steady
  BY NextTunnelTypes, NextSteady
<1>1. CASE Offer
  <2>1. UNCHANGED <<down, up, cl, peerEph>>
    BY <1>1 DEF Offer, client, server, fixed, past
  <2> SUFFICES ASSUME NEW d \in Conn PROVE KeySent(d)' /\ KeyLeads(d)' /\ KeyArrives(d)'
    BY DEF KeyInv
  <2>2. KeySent(d) /\ KeyLeads(d) /\ KeyArrives(d)
    BY DEF KeyInv
  <2>3. KeyOut(d) => KeyOut(d)'
    BY KeyOutStable
  <2> QED BY <2>1, <2>2, <2>3 DEF KeySent, KeyLeads, KeyArrives, Past, KeyAt, KeyFirst
<1>2. CASE Sweep
  <2>1. UNCHANGED <<down, up, cl, peerEph>>
    BY <1>2 DEF Sweep, client, server, fixed, past
  <2> SUFFICES ASSUME NEW d \in Conn PROVE KeySent(d)' /\ KeyLeads(d)' /\ KeyArrives(d)'
    BY DEF KeyInv
  <2>2. KeySent(d) /\ KeyLeads(d) /\ KeyArrives(d)
    BY DEF KeyInv
  <2>3. KeyOut(d) => KeyOut(d)'
    BY KeyOutStable
  <2> QED BY <2>1, <2>2, <2>3 DEF KeySent, KeyLeads, KeyArrives, Past, KeyAt, KeyFirst
<1>3. ASSUME NEW x \in Side, Rotate(x) PROVE KeyInv'
  <2>1. UNCHANGED <<down, up, cl, peerEph>>
    BY <1>3 DEF Rotate, client, server, fixed, past
  <2> SUFFICES ASSUME NEW d \in Conn PROVE KeySent(d)' /\ KeyLeads(d)' /\ KeyArrives(d)'
    BY DEF KeyInv
  <2>2. KeySent(d) /\ KeyLeads(d) /\ KeyArrives(d)
    BY DEF KeyInv
  <2>3. KeyOut(d) => KeyOut(d)'
    BY KeyOutStable
  <2> QED BY <2>1, <2>2, <2>3 DEF KeySent, KeyLeads, KeyArrives, Past, KeyAt, KeyFirst
<1>4. ASSUME NEW c \in Conn, TunnelStep(c) PROVE KeyInv'
  <2>1. CASE Connect(c)
    <3> SUFFICES ASSUME NEW d \in Conn PROVE KeySent(d)' /\ KeyLeads(d)' /\ KeyArrives(d)'
      BY DEF KeyInv
    <3>0. KeySent(d) /\ KeyLeads(d) /\ KeyArrives(d)
      BY DEF KeyInv
    <3>1. KeyOut(d) => KeyOut(d)'
      BY KeyOutStable
    <3>2. peerEph[d] # NoConn => peerEph'[d] = peerEph[d]
      BY <1>0 DEF Steady
    <3>3. Past(d) => Past(d)'
      BY <2>1 DEF Connect, Past, TunnelTypes, ServerSame, TableSame, ClientSame, QueuesSame,
         client, server, fixed, past, ClientInv, ClientOf
    <3>4. cl'[d] = "eph" => cl[d] = "eph" \/ KeyAt(up'[d], d)
      BY <2>1 DEF Connect, TunnelTypes, ServerSame, TableSame, ClientSame, QueuesSame, client,
         server, fixed, past
    <3>5. UpMoves(d)
      BY <2>1 DEF Connect, PopDown, PushUp, ServerSame, TableSame, ClientSame, QueuesSame,
         client, server, fixed, past
    <3>6. DownMoves(d)
      BY <2>1 DEF Connect, PopDown, PushUp, ServerSame, TableSame, ClientSame, QueuesSame,
         client, server, fixed, past
    <3>7. KeySent(d)' /\ KeyLeads(d)'
      BY <3>0, <3>1, <3>4, <3>5, <1>0, UpKeys
    <3>8. KeyArrives(d)'
      BY <3>0, <3>2, <3>3, <3>6, DownKeys
    <3> QED BY <3>7, <3>8
  <2>2. CASE LookupFingerprint(c)
    <3> SUFFICES ASSUME NEW d \in Conn PROVE KeySent(d)' /\ KeyLeads(d)' /\ KeyArrives(d)'
      BY DEF KeyInv
    <3>0. KeySent(d) /\ KeyLeads(d) /\ KeyArrives(d)
      BY DEF KeyInv
    <3>1. KeyOut(d) => KeyOut(d)'
      BY KeyOutStable
    <3>2. peerEph[d] # NoConn => peerEph'[d] = peerEph[d]
      BY <1>0 DEF Steady
    <3>3. Past(d) => Past(d)'
      BY <2>2 DEF LookupFingerprint, Past, TunnelTypes, ServerSame, TableSame, ClientSame,
         QueuesSame, client, server, fixed, past
    <3>4. cl'[d] = "eph" => cl[d] = "eph" \/ KeyAt(up'[d], d)
      BY <2>2 DEF LookupFingerprint, TunnelTypes, ServerSame, TableSame, ClientSame, QueuesSame,
         client, server, fixed, past
    <3>5. UpMoves(d)
      BY <2>2 DEF LookupFingerprint, PopDown, PushUp, ServerSame, TableSame, ClientSame,
         QueuesSame, client, server, fixed, past
    <3>6. DownMoves(d)
      BY <2>2 DEF LookupFingerprint, PopDown, PushUp, ServerSame, TableSame, ClientSame,
         QueuesSame, client, server, fixed, past
    <3>7. KeySent(d)' /\ KeyLeads(d)'
      BY <3>0, <3>1, <3>4, <3>5, <1>0, UpKeys
    <3>8. KeyArrives(d)'
      BY <3>0, <3>2, <3>3, <3>6, DownKeys
    <3> QED BY <3>7, <3>8
  <2>3. CASE RegisterStep(c)
    <3> SUFFICES ASSUME NEW d \in Conn PROVE KeySent(d)' /\ KeyLeads(d)' /\ KeyArrives(d)'
      BY DEF KeyInv
    <3>0. KeySent(d) /\ KeyLeads(d) /\ KeyArrives(d)
      BY DEF KeyInv
    <3>1. KeyOut(d) => KeyOut(d)'
      BY KeyOutStable
    <3>2. peerEph[d] # NoConn => peerEph'[d] = peerEph[d]
      BY <1>0 DEF Steady
    <3>3. Past(d) => Past(d)'
      BY <2>3 DEF RegisterStep, Past, TunnelTypes, ServerSame, TableSame, ClientSame,
         QueuesSame, client, server, fixed, past
    <3>4. cl'[d] = "eph" => cl[d] = "eph" \/ KeyAt(up'[d], d)
      BY <2>3 DEF RegisterStep, TunnelTypes, ServerSame, TableSame, ClientSame, QueuesSame,
         client, server, fixed, past
    <3>5. UpMoves(d)
      BY <2>3 DEF RegisterStep, PopDown, PushUp, ServerSame, TableSame, ClientSame, QueuesSame,
         client, server, fixed, past
    <3>6. DownMoves(d)
      BY <2>3 DEF RegisterStep, PopDown, PushUp, ServerSame, TableSame, ClientSame, QueuesSame,
         client, server, fixed, past
    <3>7. KeySent(d)' /\ KeyLeads(d)'
      BY <3>0, <3>1, <3>4, <3>5, <1>0, UpKeys
    <3>8. KeyArrives(d)'
      BY <3>0, <3>2, <3>3, <3>6, DownKeys
    <3> QED BY <3>7, <3>8
  <2>4. CASE TooLateStep(c)
    <3> SUFFICES ASSUME NEW d \in Conn PROVE KeySent(d)' /\ KeyLeads(d)' /\ KeyArrives(d)'
      BY DEF KeyInv
    <3>0. KeySent(d) /\ KeyLeads(d) /\ KeyArrives(d)
      BY DEF KeyInv
    <3>1. KeyOut(d) => KeyOut(d)'
      BY KeyOutStable
    <3>2. peerEph[d] # NoConn => peerEph'[d] = peerEph[d]
      BY <1>0 DEF Steady
    <3>3. Past(d) => Past(d)'
      BY <2>4 DEF TooLateStep, Past, TunnelTypes, ServerSame, TableSame, ClientSame, QueuesSame,
         client, server, fixed, past
    <3>4. cl'[d] = "eph" => cl[d] = "eph" \/ KeyAt(up'[d], d)
      BY <2>4 DEF TooLateStep, TunnelTypes, ServerSame, TableSame, ClientSame, QueuesSame,
         client, server, fixed, past
    <3>5. UpMoves(d)
      BY <2>4 DEF TooLateStep, PopDown, PushUp, ServerSame, TableSame, ClientSame, QueuesSame,
         client, server, fixed, past
    <3>6. DownMoves(d)
      BY <2>4 DEF TooLateStep, PopDown, PushUp, ServerSame, TableSame, ClientSame, QueuesSame,
         client, server, fixed, past
    <3>7. KeySent(d)' /\ KeyLeads(d)'
      BY <3>0, <3>1, <3>4, <3>5, <1>0, UpKeys
    <3>8. KeyArrives(d)'
      BY <3>0, <3>2, <3>3, <3>6, DownKeys
    <3> QED BY <3>7, <3>8
  <2>5. CASE VouchMeStep(c)
    <3> SUFFICES ASSUME NEW d \in Conn PROVE KeySent(d)' /\ KeyLeads(d)' /\ KeyArrives(d)'
      BY DEF KeyInv
    <3>0. KeySent(d) /\ KeyLeads(d) /\ KeyArrives(d)
      BY DEF KeyInv
    <3>1. KeyOut(d) => KeyOut(d)'
      BY KeyOutStable
    <3>2. peerEph[d] # NoConn => peerEph'[d] = peerEph[d]
      BY <1>0 DEF Steady
    <3>3. Past(d) => Past(d)'
      BY <2>5 DEF VouchMeStep, Past, TunnelTypes, ServerSame, TableSame, ClientSame, QueuesSame,
         client, server, fixed, past
    <3>4. cl'[d] = "eph" => cl[d] = "eph" \/ KeyAt(up'[d], d)
      BY <2>5 DEF VouchMeStep, TunnelTypes, ServerSame, TableSame, ClientSame, QueuesSame,
         client, server, fixed, past
    <3>5. UpMoves(d)
      BY <2>5 DEF VouchMeStep, PopDown, PushUp, ServerSame, TableSame, ClientSame, QueuesSame,
         client, server, fixed, past
    <3>6. DownMoves(d)
      <4>1. PICK m : m = VouchOf(peer[c])
        OBVIOUS
      <4>2. d # c => down'[d] = down[d]
        BY <2>5 DEF VouchMeStep, PushDown
      <4>3. d = c => m \in Msg /\ (down'[d] = down[d] \/ Pushed(down[d], down'[d], m))
        BY <2>5, <4>1 DEF VouchMeStep, PushDown
      <4>4. d = c /\ m.t = "hs" => Past(d)' \/ peerEph[d] = m.of \/ KeyAt(down[d], m.of)
        BY <4>1 DEF VouchOf
      <4> QED BY <4>2, <4>3, <4>4
    <3>7. KeySent(d)' /\ KeyLeads(d)'
      BY <3>0, <3>1, <3>4, <3>5, <1>0, UpKeys
    <3>8. KeyArrives(d)'
      BY <3>0, <3>2, <3>3, <3>6, DownKeys
    <3> QED BY <3>7, <3>8
  <2>6. CASE VouchPeerStep(c)
    <3> SUFFICES ASSUME NEW d \in Conn PROVE KeySent(d)' /\ KeyLeads(d)' /\ KeyArrives(d)'
      BY DEF KeyInv
    <3>0. KeySent(d) /\ KeyLeads(d) /\ KeyArrives(d)
      BY DEF KeyInv
    <3>1. KeyOut(d) => KeyOut(d)'
      BY KeyOutStable
    <3>2. peerEph[d] # NoConn => peerEph'[d] = peerEph[d]
      BY <1>0 DEF Steady
    <3>3. Past(d) => Past(d)'
      BY <2>6 DEF VouchPeerStep, Past, TunnelTypes, ServerSame, TableSame, ClientSame,
         QueuesSame, client, server, fixed, past
    <3>4. cl'[d] = "eph" => cl[d] = "eph" \/ KeyAt(up'[d], d)
      BY <2>6 DEF VouchPeerStep, TunnelTypes, ServerSame, TableSame, ClientSame, QueuesSame,
         client, server, fixed, past
    <3>5. UpMoves(d)
      BY <2>6 DEF VouchPeerStep, PopDown, PushUp, ServerSame, TableSame, ClientSame, QueuesSame,
         client, server, fixed, past
    <3>6. DownMoves(d)
      <4>1. PICK m : m = VouchOf(c)
        OBVIOUS
      <4>2. d # peer[c] => down'[d] = down[d]
        BY <2>6 DEF VouchPeerStep, PushDown
      <4>3. d = peer[c] => m \in Msg /\ (down'[d] = down[d] \/ Pushed(down[d], down'[d], m))
        BY <2>6, <4>1 DEF VouchPeerStep, PushDown
      <4>4. d = peer[c] /\ m.t = "hs" => Past(d)' \/ peerEph[d] = m.of \/ KeyAt(down[d], m.of)
        BY <4>1 DEF VouchOf
      <4> QED BY <4>2, <4>3, <4>4
    <3>7. KeySent(d)' /\ KeyLeads(d)'
      BY <3>0, <3>1, <3>4, <3>5, <1>0, UpKeys
    <3>8. KeyArrives(d)'
      BY <3>0, <3>2, <3>3, <3>6, DownKeys
    <3> QED BY <3>7, <3>8
  <2>7. CASE DropStep(c)
    <3> SUFFICES ASSUME NEW d \in Conn PROVE KeySent(d)' /\ KeyLeads(d)' /\ KeyArrives(d)'
      BY DEF KeyInv
    <3>0. KeySent(d) /\ KeyLeads(d) /\ KeyArrives(d)
      BY DEF KeyInv
    <3>1. KeyOut(d) => KeyOut(d)'
      BY KeyOutStable
    <3>2. peerEph[d] # NoConn => peerEph'[d] = peerEph[d]
      BY <1>0 DEF Steady
    <3>3. Past(d) => Past(d)'
      BY <2>7 DEF DropStep, Past, TunnelTypes, ServerSame, TableSame, ClientSame, QueuesSame,
         client, server, fixed, past
    <3>4. cl'[d] = "eph" => cl[d] = "eph" \/ KeyAt(up'[d], d)
      BY <2>7 DEF DropStep, TunnelTypes, ServerSame, TableSame, ClientSame, QueuesSame, client,
         server, fixed, past
    <3>5. UpMoves(d)
      <4>1. CASE d # c
        BY <2>7, <4>1 DEF DropStep, PopUp
      <4>2. CASE d = c
        <5>1. Popped(up[c], up'[c]) /\ up[c][1].t # "close" /\ 1 \in 1..Len(up[c])
          BY <2>7 DEF DropStep, PopUp
        <5>2. ~Alone(c)
          BY <5>1 DEF AloneInv, OnlyCloses
        <5>3. PICK e \in attached : side[e] # side[c]
          BY <5>2 DEF Alone
        <5>4. side[e] = Other(side[c])
          BY <5>3, SideFacts DEF TunnelTypes
        <5>5. hub = NoTunnel
          BY <2>7, <5>3, <5>4 DEF DropStep, PairedInv, PeerInHub
        <5>6. offered
          BY <2>7 DEF DropStep, HubInv
        <5>7. KeyOut(c)'
          BY <2>7, <5>5, <5>6 DEF DropStep, KeyOut, ServerSame, TableSame
        <5> QED BY <4>2, <5>7
      <4> QED BY <4>1, <4>2
    <3>6. DownMoves(d)
      BY <2>7 DEF DropStep, PopDown, PushUp, ServerSame, TableSame, ClientSame, QueuesSame,
         client, server, fixed, past
    <3>7. KeySent(d)' /\ KeyLeads(d)'
      BY <3>0, <3>1, <3>4, <3>5, <1>0, UpKeys
    <3>8. KeyArrives(d)'
      BY <3>0, <3>2, <3>3, <3>6, DownKeys
    <3> QED BY <3>7, <3>8
  <2>8. CASE FindStep(c)
    <3> SUFFICES ASSUME NEW d \in Conn PROVE KeySent(d)' /\ KeyLeads(d)' /\ KeyArrives(d)'
      BY DEF KeyInv
    <3>0. KeySent(d) /\ KeyLeads(d) /\ KeyArrives(d)
      BY DEF KeyInv
    <3>1. KeyOut(d) => KeyOut(d)'
      BY KeyOutStable
    <3>2. peerEph[d] # NoConn => peerEph'[d] = peerEph[d]
      BY <1>0 DEF Steady
    <3>3. Past(d) => Past(d)'
      BY <2>8 DEF FindStep, Past, TunnelTypes, ServerSame, TableSame, ClientSame, QueuesSame,
         client, server, fixed, past
    <3>4. cl'[d] = "eph" => cl[d] = "eph" \/ KeyAt(up'[d], d)
      BY <2>8 DEF FindStep, TunnelTypes, ServerSame, TableSame, ClientSame, QueuesSame, client,
         server, fixed, past
    <3>5. UpMoves(d)
      BY <2>8 DEF FindStep, PopDown, PushUp, ServerSame, TableSame, ClientSame, QueuesSame,
         client, server, fixed, past
    <3>6. DownMoves(d)
      BY <2>8 DEF FindStep, PopDown, PushUp, ServerSame, TableSame, ClientSame, QueuesSame,
         client, server, fixed, past
    <3>7. KeySent(d)' /\ KeyLeads(d)'
      BY <3>0, <3>1, <3>4, <3>5, <1>0, UpKeys
    <3>8. KeyArrives(d)'
      BY <3>0, <3>2, <3>3, <3>6, DownKeys
    <3> QED BY <3>7, <3>8
  <2>9. CASE ForwardStep(c)
    <3> SUFFICES ASSUME NEW d \in Conn PROVE KeySent(d)' /\ KeyLeads(d)' /\ KeyArrives(d)'
      BY DEF KeyInv
    <3>0. KeySent(d) /\ KeyLeads(d) /\ KeyArrives(d)
      BY DEF KeyInv
    <3>1. KeyOut(d) => KeyOut(d)'
      BY KeyOutStable
    <3>2. peerEph[d] # NoConn => peerEph'[d] = peerEph[d]
      BY <1>0 DEF Steady
    <3>3. Past(d) => Past(d)'
      BY <2>9 DEF ForwardStep, Past, TunnelTypes, ServerSame, TableSame, ClientSame, QueuesSame,
         client, server, fixed, past
    <3>4. cl'[d] = "eph" => cl[d] = "eph" \/ KeyAt(up'[d], d)
      BY <2>9 DEF ForwardStep, TunnelTypes, ServerSame, TableSame, ClientSame, QueuesSame,
         client, server, fixed, past
    <3>5. UpMoves(d)
      <4>1. CASE d # c
        BY <2>9, <4>1 DEF ForwardStep, PopUp
      <4>2. CASE d = c /\ up[c][1].t # "eph"
        BY <2>9, <4>2 DEF ForwardStep, PopUp
      <4>3. CASE d = c /\ up[c][1].t = "eph"
        <5>1. up[c][1].of = c
          BY <2>9, <4>3 DEF ForwardStep, PopUp, FrameInv, Outbound
        <5>2. KeyAt(down'[peer[c]], c)
          <6>1. PICK m : m = up[c][1]
            OBVIOUS
          <6>2. Pushed(down[peer[c]], down'[peer[c]], m)
            BY <2>9, <6>1 DEF ForwardStep, PushDown
          <6> QED BY <4>3, <5>1, <6>1, <6>2 DEF Pushed, KeyAt
        <5>3. KeyOut(c)'
          BY <2>9, <5>2 DEF ForwardStep, KeyOut, Got, ServerSame
        <5> QED BY <4>3, <5>3
      <4> QED BY <4>1, <4>2, <4>3
    <3>6. DownMoves(d)
      <4>1. PICK m : m = up[c][1]
        OBVIOUS
      <4>2. d # peer[c] => down'[d] = down[d]
        BY <2>9 DEF ForwardStep, PushDown
      <4>3. d = peer[c] => m \in Msg /\ (down'[d] = down[d] \/ Pushed(down[d], down'[d], m))
        BY <2>9, <4>1 DEF ForwardStep, PushDown
      <4>4. d = peer[c] /\ m.t = "hs" => Past(d)' \/ peerEph[d] = m.of \/ KeyAt(down[d], m.of)
        <5> SUFFICES ASSUME d = peer[c], m.t = "hs", ~Past(d)'
                     PROVE  peerEph[d] = m.of \/ KeyAt(down[d], m.of)
          OBVIOUS
        <5>1. 1 \in 1..Len(up[c]) /\ m.of = c
          BY <2>9, <4>1 DEF ForwardStep, PopUp, FrameInv, Outbound
        <5>2. ~KeyFirst(up[c], 1)
          BY DEF KeyFirst
        <5>3. KeyOut(c)
          BY <5>1, <5>2, <4>1 DEF KeyInv, KeyLeads
        <5>4. Got(d, c) /\ rx[d] /\ ~Past(d)
          BY <2>9, <3>3, <5>3 DEF KeyOut, ForwardStep, Leaving
        <5> QED BY <5>1, <5>4 DEF Got
      <4> QED BY <4>2, <4>3, <4>4
    <3>7. KeySent(d)' /\ KeyLeads(d)'
      BY <3>0, <3>1, <3>4, <3>5, <1>0, UpKeys
    <3>8. KeyArrives(d)'
      BY <3>0, <3>2, <3>3, <3>6, DownKeys
    <3> QED BY <3>7, <3>8
  <2>10. CASE ForwardFails(c)
    <3> SUFFICES ASSUME NEW d \in Conn PROVE KeySent(d)' /\ KeyLeads(d)' /\ KeyArrives(d)'
      BY DEF KeyInv
    <3>0. KeySent(d) /\ KeyLeads(d) /\ KeyArrives(d)
      BY DEF KeyInv
    <3>1. KeyOut(d) => KeyOut(d)'
      BY KeyOutStable
    <3>2. peerEph[d] # NoConn => peerEph'[d] = peerEph[d]
      BY <1>0 DEF Steady
    <3>3. Past(d) => Past(d)'
      BY <2>10 DEF ForwardFails, Past, TunnelTypes, ServerSame, TableSame, ClientSame,
         QueuesSame, client, server, fixed, past
    <3>4. cl'[d] = "eph" => cl[d] = "eph" \/ KeyAt(up'[d], d)
      BY <2>10 DEF ForwardFails, TunnelTypes, ServerSame, TableSame, ClientSame, QueuesSame,
         client, server, fixed, past
    <3>5. UpMoves(d)
      <4>1. d = c => KeyOut(d)'
        BY <2>10 DEF ForwardFails, KeyOut, Leaving, TunnelTypes
      <4> QED BY <2>10, <4>1 DEF ForwardFails, PopUp
    <3>6. DownMoves(d)
      BY <2>10 DEF ForwardFails, PopDown, PushUp, ServerSame, TableSame, ClientSame, QueuesSame,
         client, server, fixed, past
    <3>7. KeySent(d)' /\ KeyLeads(d)'
      BY <3>0, <3>1, <3>4, <3>5, <1>0, UpKeys
    <3>8. KeyArrives(d)'
      BY <3>0, <3>2, <3>3, <3>6, DownKeys
    <3> QED BY <3>7, <3>8
  <2>11. CASE SeeCloseStep(c)
    <3> SUFFICES ASSUME NEW d \in Conn PROVE KeySent(d)' /\ KeyLeads(d)' /\ KeyArrives(d)'
      BY DEF KeyInv
    <3>0. KeySent(d) /\ KeyLeads(d) /\ KeyArrives(d)
      BY DEF KeyInv
    <3>1. KeyOut(d) => KeyOut(d)'
      BY KeyOutStable
    <3>2. peerEph[d] # NoConn => peerEph'[d] = peerEph[d]
      BY <1>0 DEF Steady
    <3>3. Past(d) => Past(d)'
      BY <2>11 DEF SeeCloseStep, Past, TunnelTypes, ServerSame, TableSame, ClientSame,
         QueuesSame, client, server, fixed, past
    <3>4. cl'[d] = "eph" => cl[d] = "eph" \/ KeyAt(up'[d], d)
      BY <2>11 DEF SeeCloseStep, TunnelTypes, ServerSame, TableSame, ClientSame, QueuesSame,
         client, server, fixed, past
    <3>5. UpMoves(d)
      <4>1. d = c => KeyOut(d)'
        BY <2>11 DEF SeeCloseStep, KeyOut, Leaving, TunnelTypes
      <4> QED BY <2>11, <4>1 DEF SeeCloseStep
    <3>6. DownMoves(d)
      BY <2>11 DEF SeeCloseStep, PopDown, PushUp, ServerSame, TableSame, ClientSame, QueuesSame,
         client, server, fixed, past
    <3>7. KeySent(d)' /\ KeyLeads(d)'
      BY <3>0, <3>1, <3>4, <3>5, <1>0, UpKeys
    <3>8. KeyArrives(d)'
      BY <3>0, <3>2, <3>3, <3>6, DownKeys
    <3> QED BY <3>7, <3>8
  <2>12. CASE TeardownStep(c)
    <3> SUFFICES ASSUME NEW d \in Conn PROVE KeySent(d)' /\ KeyLeads(d)' /\ KeyArrives(d)'
      BY DEF KeyInv
    <3>0. KeySent(d) /\ KeyLeads(d) /\ KeyArrives(d)
      BY DEF KeyInv
    <3>1. KeyOut(d) => KeyOut(d)'
      BY KeyOutStable
    <3>2. peerEph[d] # NoConn => peerEph'[d] = peerEph[d]
      BY <1>0 DEF Steady
    <3>3. Past(d) => Past(d)'
      BY <2>12 DEF TeardownStep, Past, TunnelTypes, ServerSame, TableSame, ClientSame,
         QueuesSame, client, server, fixed, past
    <3>4. cl'[d] = "eph" => cl[d] = "eph" \/ KeyAt(up'[d], d)
      BY <2>12 DEF TeardownStep, TunnelTypes, ServerSame, TableSame, ClientSame, QueuesSame,
         client, server, fixed, past
    <3>5. UpMoves(d)
      BY <2>12 DEF TeardownStep, PopDown, PushUp, ServerSame, TableSame, ClientSame, QueuesSame,
         client, server, fixed, past
    <3>6. DownMoves(d)
      BY <2>12 DEF TeardownStep, PopDown, PushUp, ServerSame, TableSame, ClientSame, QueuesSame,
         client, server, fixed, past
    <3>7. KeySent(d)' /\ KeyLeads(d)'
      BY <3>0, <3>1, <3>4, <3>5, <1>0, UpKeys
    <3>8. KeyArrives(d)'
      BY <3>0, <3>2, <3>3, <3>6, DownKeys
    <3> QED BY <3>7, <3>8
  <2>13. CASE TellStep(c)
    <3> SUFFICES ASSUME NEW d \in Conn PROVE KeySent(d)' /\ KeyLeads(d)' /\ KeyArrives(d)'
      BY DEF KeyInv
    <3>0. KeySent(d) /\ KeyLeads(d) /\ KeyArrives(d)
      BY DEF KeyInv
    <3>1. KeyOut(d) => KeyOut(d)'
      BY KeyOutStable
    <3>2. peerEph[d] # NoConn => peerEph'[d] = peerEph[d]
      BY <1>0 DEF Steady
    <3>3. Past(d) => Past(d)'
      BY <2>13 DEF TellStep, Past, TunnelTypes, ServerSame, TableSame, ClientSame, QueuesSame,
         client, server, fixed, past
    <3>4. cl'[d] = "eph" => cl[d] = "eph" \/ KeyAt(up'[d], d)
      BY <2>13 DEF TellStep, TunnelTypes, ServerSame, TableSame, ClientSame, QueuesSame, client,
         server, fixed, past
    <3>5. UpMoves(d)
      BY <2>13 DEF TellStep, PopDown, PushUp, ServerSame, TableSame, ClientSame, QueuesSame,
         client, server, fixed, past
    <3>6. DownMoves(d)
      <4>0. CASE peer[c] = NoConn
        BY <2>13, <4>0, TunnelAssumption DEF TellStep
      <4>5. CASE peer[c] # NoConn
        <5>1. PICK m : m = [t |-> "gone"]
          OBVIOUS
        <5>2. d # peer[c] => down'[d] = down[d]
          BY <2>13, <4>5 DEF TellStep, PushDown
        <5>3. d = peer[c] => m \in Msg /\ (down'[d] = down[d] \/ Pushed(down[d], down'[d], m))
          BY <2>13, <4>5, <5>1 DEF TellStep, PushDown
        <5>4. d = peer[c] /\ m.t = "hs" => Past(d)' \/ peerEph[d] = m.of \/ KeyAt(down[d], m.of)
          BY <5>1
        <5> QED BY <5>2, <5>3, <5>4
      <4> QED BY <4>0, <4>5
    <3>7. KeySent(d)' /\ KeyLeads(d)'
      BY <3>0, <3>1, <3>4, <3>5, <1>0, UpKeys
    <3>8. KeyArrives(d)'
      BY <3>0, <3>2, <3>3, <3>6, DownKeys
    <3> QED BY <3>7, <3>8
  <2>14. CASE PumpStep(c)
    <3> SUFFICES ASSUME NEW d \in Conn PROVE KeySent(d)' /\ KeyLeads(d)' /\ KeyArrives(d)'
      BY DEF KeyInv
    <3>0. KeySent(d) /\ KeyLeads(d) /\ KeyArrives(d)
      BY DEF KeyInv
    <3>1. KeyOut(d) => KeyOut(d)'
      BY KeyOutStable
    <3>2. peerEph[d] # NoConn => peerEph'[d] = peerEph[d]
      BY <1>0 DEF Steady
    <3>3. Past(d) => Past(d)'
      BY <2>14 DEF PumpStep, Ended, Past, TunnelTypes, ServerSame, TableSame, ClientSame,
         QueuesSame, client, server, fixed, past
    <3>4. cl'[d] = "eph" => cl[d] = "eph" \/ KeyAt(up'[d], d)
      BY <2>14 DEF PumpStep, TunnelTypes, ServerSame, TableSame, ClientSame, QueuesSame, client,
         server, fixed, past
    <3>5. UpMoves(d)
      <4>1. CASE up' = up
        BY <4>1
      <4>2. CASE PushUp(c, [t |-> "close"])
        <5>1. PICK m : m = [t |-> "close"]
          OBVIOUS
        <5>2. d # c => up'[d] = up[d]
          BY <4>2 DEF PushUp
        <5>3. d = c => Pushed(up[d], up'[d], m)
          BY <4>2, <5>1 DEF PushUp
        <5>4. m.t # "hs"
          BY <5>1
        <5> QED BY <5>2, <5>3, <5>4
      <4> QED BY <2>14, <4>1, <4>2 DEF PumpStep
    <3>6. DownMoves(d)
      BY <2>14 DEF PumpStep
    <3>7. KeySent(d)' /\ KeyLeads(d)'
      BY <3>0, <3>1, <3>4, <3>5, <1>0, UpKeys
    <3>8. KeyArrives(d)'
      BY <3>0, <3>2, <3>3, <3>6, DownKeys
    <3> QED BY <3>7, <3>8
  <2>15. CASE SocketDrops(c)
    <3> SUFFICES ASSUME NEW d \in Conn PROVE KeySent(d)' /\ KeyLeads(d)' /\ KeyArrives(d)'
      BY DEF KeyInv
    <3>0. KeySent(d) /\ KeyLeads(d) /\ KeyArrives(d)
      BY DEF KeyInv
    <3>1. KeyOut(d) => KeyOut(d)'
      BY KeyOutStable
    <3>2. peerEph[d] # NoConn => peerEph'[d] = peerEph[d]
      BY <1>0 DEF Steady
    <3>3. Past(d) => Past(d)'
      BY <2>15 DEF SocketDrops, Past, TunnelTypes, ServerSame, TableSame, ClientSame,
         QueuesSame, client, server, fixed, past
    <3>4. cl'[d] = "eph" => cl[d] = "eph" \/ KeyAt(up'[d], d)
      BY <2>15 DEF SocketDrops, TunnelTypes, ServerSame, TableSame, ClientSame, QueuesSame,
         client, server, fixed, past
    <3>5. UpMoves(d)
      BY <2>15 DEF SocketDrops, PopDown, PushUp, ServerSame, TableSame, ClientSame, QueuesSame,
         client, server, fixed, past
    <3>6. DownMoves(d)
      BY <2>15 DEF SocketDrops, PopDown, PushUp, ServerSame, TableSame, ClientSame, QueuesSame,
         client, server, fixed, past
    <3>7. KeySent(d)' /\ KeyLeads(d)'
      BY <3>0, <3>1, <3>4, <3>5, <1>0, UpKeys
    <3>8. KeyArrives(d)'
      BY <3>0, <3>2, <3>3, <3>6, DownKeys
    <3> QED BY <3>7, <3>8
  <2>16. CASE FailStep(c)
    <3> SUFFICES ASSUME NEW d \in Conn PROVE KeySent(d)' /\ KeyLeads(d)' /\ KeyArrives(d)'
      BY DEF KeyInv
    <3>0. KeySent(d) /\ KeyLeads(d) /\ KeyArrives(d)
      BY DEF KeyInv
    <3>1. KeyOut(d) => KeyOut(d)'
      BY KeyOutStable
    <3>2. peerEph[d] # NoConn => peerEph'[d] = peerEph[d]
      BY <1>0 DEF Steady
    <3>3. Past(d) => Past(d)'
      BY <2>16 DEF FailStep, Past, TunnelTypes, ServerSame, TableSame, ClientSame, QueuesSame,
         client, server, fixed, past
    <3>4. cl'[d] = "eph" => cl[d] = "eph" \/ KeyAt(up'[d], d)
      BY <2>16 DEF FailStep, TunnelTypes, ServerSame, TableSame, ClientSame, QueuesSame, client,
         server, fixed, past
    <3>5. UpMoves(d)
      <4>1. PICK m : m = [t |-> "close"]
        OBVIOUS
      <4>2. d # c => up'[d] = up[d]
        BY <2>16 DEF FailStep, PushUp
      <4>3. d = c => Pushed(up[d], up'[d], m)
        BY <2>16, <4>1 DEF FailStep, PushUp
      <4>4. d = c /\ m.t = "hs" => m.of = d /\ cl[d] = "eph"
        BY <4>1
      <4> QED BY <4>2, <4>3, <4>4
    <3>6. DownMoves(d)
      <4>1. CASE d # c
        BY <2>16, <4>1 DEF FailStep, PopDown
      <4>2. CASE d = c
        BY <2>16, <4>2 DEF FailStep, PopDown, Past, TunnelTypes
      <4> QED BY <4>1, <4>2
    <3>7. KeySent(d)' /\ KeyLeads(d)'
      BY <3>0, <3>1, <3>4, <3>5, <1>0, UpKeys
    <3>8. KeyArrives(d)'
      BY <3>0, <3>2, <3>3, <3>6, DownKeys
    <3> QED BY <3>7, <3>8
  <2>17. CASE TakeVouch(c)
    <3> SUFFICES ASSUME NEW d \in Conn PROVE KeySent(d)' /\ KeyLeads(d)' /\ KeyArrives(d)'
      BY DEF KeyInv
    <3>0. KeySent(d) /\ KeyLeads(d) /\ KeyArrives(d)
      BY DEF KeyInv
    <3>1. KeyOut(d) => KeyOut(d)'
      BY KeyOutStable
    <3>2. peerEph[d] # NoConn => peerEph'[d] = peerEph[d]
      BY <1>0 DEF Steady
    <3>3. Past(d) => Past(d)'
      BY <2>17 DEF TakeVouch, Past, TunnelTypes, ServerSame, TableSame, ClientSame, QueuesSame,
         client, server, fixed, past
    <3>4. cl'[d] = "eph" => cl[d] = "eph" \/ KeyAt(up'[d], d)
      <4>1. d # c => cl'[d] = cl[d]
        BY <2>17 DEF TakeVouch, TunnelTypes
      <4>2. PICK m : m = [t |-> "eph", of |-> c]
        OBVIOUS
      <4>3. Pushed(up[c], up'[c], m) /\ m.t = "eph" /\ m.of = c
        BY <2>17, <4>2 DEF TakeVouch, PushUp
      <4>4. KeyAt(up'[c], c)
        BY <4>3 DEF Pushed, KeyAt
      <4> QED BY <4>1, <4>4
    <3>5. UpMoves(d)
      <4>1. PICK m : m = [t |-> "eph", of |-> c]
        OBVIOUS
      <4>2. d # c => up'[d] = up[d]
        BY <2>17 DEF TakeVouch, PushUp
      <4>3. d = c => Pushed(up[d], up'[d], m)
        BY <2>17, <4>1 DEF TakeVouch, PushUp
      <4>4. d = c /\ m.t = "hs" => m.of = d /\ cl[d] = "eph"
        BY <4>1
      <4> QED BY <4>2, <4>3, <4>4
    <3>6. DownMoves(d)
      <4>1. CASE d # c
        BY <2>17, <4>1 DEF TakeVouch, PopDown
      <4>2. CASE d = c
        BY <2>17, <4>2 DEF TakeVouch, PopDown, Past, TunnelTypes
      <4> QED BY <4>1, <4>2
    <3>7. KeySent(d)' /\ KeyLeads(d)'
      BY <3>0, <3>1, <3>4, <3>5, <1>0, UpKeys
    <3>8. KeyArrives(d)'
      BY <3>0, <3>2, <3>3, <3>6, DownKeys
    <3> QED BY <3>7, <3>8
  <2>18. CASE TakeKey(c)
    <3> SUFFICES ASSUME NEW d \in Conn PROVE KeySent(d)' /\ KeyLeads(d)' /\ KeyArrives(d)'
      BY DEF KeyInv
    <3>0. KeySent(d) /\ KeyLeads(d) /\ KeyArrives(d)
      BY DEF KeyInv
    <3>1. KeyOut(d) => KeyOut(d)'
      BY KeyOutStable
    <3>2. peerEph[d] # NoConn => peerEph'[d] = peerEph[d]
      BY <1>0 DEF Steady
    <3>3. Past(d) => Past(d)'
      BY <2>18 DEF TakeKey, Past, TunnelTypes, ServerSame, TableSame, ClientSame, QueuesSame,
         client, server, fixed, past
    <3>4. cl'[d] = "eph" => cl[d] = "eph" \/ KeyAt(up'[d], d)
      BY <2>18 DEF TakeKey, TunnelTypes, ServerSame, TableSame, ClientSame, QueuesSame, client,
         server, fixed, past
    <3>5. UpMoves(d)
      <4>1. PICK m : m = Signed(c, down[c][1].of)
        OBVIOUS
      <4>2. d # c => up'[d] = up[d]
        BY <2>18 DEF TakeKey, PushUp
      <4>3. d = c => Pushed(up[d], up'[d], m)
        BY <2>18, <4>1 DEF TakeKey, PushUp
      <4>4. d = c /\ m.t = "hs" => m.of = d /\ cl[d] = "eph"
        BY <2>18, <4>1 DEF Signed, TakeKey
      <4> QED BY <4>2, <4>3, <4>4
    <3>6. DownMoves(d)
      <4>1. CASE d # c
        BY <2>18, <4>1 DEF TakeKey, PopDown
      <4>2. CASE d = c
        BY <2>18, <4>2 DEF TakeKey, PopDown, Past, TunnelTypes
      <4> QED BY <4>1, <4>2
    <3>7. KeySent(d)' /\ KeyLeads(d)'
      BY <3>0, <3>1, <3>4, <3>5, <1>0, UpKeys
    <3>8. KeyArrives(d)'
      BY <3>0, <3>2, <3>3, <3>6, DownKeys
    <3> QED BY <3>7, <3>8
  <2>19. CASE TakeHandshake(c)
    <3> SUFFICES ASSUME NEW d \in Conn PROVE KeySent(d)' /\ KeyLeads(d)' /\ KeyArrives(d)'
      BY DEF KeyInv
    <3>0. KeySent(d) /\ KeyLeads(d) /\ KeyArrives(d)
      BY DEF KeyInv
    <3>1. KeyOut(d) => KeyOut(d)'
      BY KeyOutStable
    <3>2. peerEph[d] # NoConn => peerEph'[d] = peerEph[d]
      BY <1>0 DEF Steady
    <3>3. Past(d) => Past(d)'
      BY <2>19 DEF TakeHandshake, Past, TunnelTypes, ServerSame, TableSame, ClientSame,
         QueuesSame, client, server, fixed, past
    <3>4. cl'[d] = "eph" => cl[d] = "eph" \/ KeyAt(up'[d], d)
      BY <2>19 DEF TakeHandshake, TunnelTypes, ServerSame, TableSame, ClientSame, QueuesSame,
         client, server, fixed, past
    <3>5. UpMoves(d)
      BY <2>19 DEF TakeHandshake, PopDown, PushUp, ServerSame, TableSame, ClientSame,
         QueuesSame, client, server, fixed, past
    <3>6. DownMoves(d)
      <4>1. CASE d # c
        BY <2>19, <4>1 DEF TakeHandshake, PopDown
      <4>2. CASE d = c
        BY <2>19, <4>2 DEF TakeHandshake, PopDown, Past, TunnelTypes
      <4> QED BY <4>1, <4>2
    <3>7. KeySent(d)' /\ KeyLeads(d)'
      BY <3>0, <3>1, <3>4, <3>5, <1>0, UpKeys
    <3>8. KeyArrives(d)'
      BY <3>0, <3>2, <3>3, <3>6, DownKeys
    <3> QED BY <3>7, <3>8
  <2>20. CASE TakeData(c)
    <3> SUFFICES ASSUME NEW d \in Conn PROVE KeySent(d)' /\ KeyLeads(d)' /\ KeyArrives(d)'
      BY DEF KeyInv
    <3>0. KeySent(d) /\ KeyLeads(d) /\ KeyArrives(d)
      BY DEF KeyInv
    <3>1. KeyOut(d) => KeyOut(d)'
      BY KeyOutStable
    <3>2. peerEph[d] # NoConn => peerEph'[d] = peerEph[d]
      BY <1>0 DEF Steady
    <3>3. Past(d) => Past(d)'
      BY <2>20 DEF TakeData, Past, TunnelTypes, ServerSame, TableSame, ClientSame, QueuesSame,
         client, server, fixed, past
    <3>4. cl'[d] = "eph" => cl[d] = "eph" \/ KeyAt(up'[d], d)
      BY <2>20 DEF TakeData, TunnelTypes, ServerSame, TableSame, ClientSame, QueuesSame, client,
         server, fixed, past
    <3>5. UpMoves(d)
      BY <2>20 DEF TakeData, PopDown, PushUp, ServerSame, TableSame, ClientSame, QueuesSame,
         client, server, fixed, past
    <3>6. DownMoves(d)
      <4>1. CASE d # c
        BY <2>20, <4>1 DEF TakeData, PopDown
      <4>2. CASE d = c
        BY <2>20, <4>2 DEF TakeData, PopDown, Past, TunnelTypes
      <4> QED BY <4>1, <4>2
    <3>7. KeySent(d)' /\ KeyLeads(d)'
      BY <3>0, <3>1, <3>4, <3>5, <1>0, UpKeys
    <3>8. KeyArrives(d)'
      BY <3>0, <3>2, <3>3, <3>6, DownKeys
    <3> QED BY <3>7, <3>8
  <2>21. CASE SkipVouch(c)
    <3> SUFFICES ASSUME NEW d \in Conn PROVE KeySent(d)' /\ KeyLeads(d)' /\ KeyArrives(d)'
      BY DEF KeyInv
    <3>0. KeySent(d) /\ KeyLeads(d) /\ KeyArrives(d)
      BY DEF KeyInv
    <3>1. KeyOut(d) => KeyOut(d)'
      BY KeyOutStable
    <3>2. peerEph[d] # NoConn => peerEph'[d] = peerEph[d]
      BY <1>0 DEF Steady
    <3>3. Past(d) => Past(d)'
      BY <2>21 DEF SkipVouch, Past, TunnelTypes, ServerSame, TableSame, ClientSame, QueuesSame,
         client, server, fixed, past
    <3>4. cl'[d] = "eph" => cl[d] = "eph" \/ KeyAt(up'[d], d)
      BY <2>21 DEF SkipVouch, TunnelTypes, ServerSame, TableSame, ClientSame, QueuesSame,
         client, server, fixed, past
    <3>5. UpMoves(d)
      BY <2>21 DEF SkipVouch, PopDown, PushUp, ServerSame, TableSame, ClientSame, QueuesSame,
         client, server, fixed, past
    <3>6. DownMoves(d)
      <4>1. CASE d # c
        BY <2>21, <4>1 DEF SkipVouch, PopDown
      <4>2. CASE d = c
        BY <2>21, <4>2 DEF SkipVouch, PopDown, Past, TunnelTypes, ClientSame
      <4> QED BY <4>1, <4>2
    <3>7. KeySent(d)' /\ KeyLeads(d)'
      BY <3>0, <3>1, <3>4, <3>5, <1>0, UpKeys
    <3>8. KeyArrives(d)'
      BY <3>0, <3>2, <3>3, <3>6, DownKeys
    <3> QED BY <3>7, <3>8
  <2>22. CASE DataStep(c)
    <3> SUFFICES ASSUME NEW d \in Conn PROVE KeySent(d)' /\ KeyLeads(d)' /\ KeyArrives(d)'
      BY DEF KeyInv
    <3>0. KeySent(d) /\ KeyLeads(d) /\ KeyArrives(d)
      BY DEF KeyInv
    <3>1. KeyOut(d) => KeyOut(d)'
      BY KeyOutStable
    <3>2. peerEph[d] # NoConn => peerEph'[d] = peerEph[d]
      BY <1>0 DEF Steady
    <3>3. Past(d) => Past(d)'
      BY <2>22 DEF DataStep, Past, TunnelTypes, ServerSame, TableSame, ClientSame, QueuesSame,
         client, server, fixed, past
    <3>4. cl'[d] = "eph" => cl[d] = "eph" \/ KeyAt(up'[d], d)
      BY <2>22 DEF DataStep, TunnelTypes, ServerSame, TableSame, ClientSame, QueuesSame, client,
         server, fixed, past
    <3>5. UpMoves(d)
      <4>1. PICK m : m = [t |-> "data", of |-> c, key |-> {c, sess[c]}, n |-> sent[c]]
        OBVIOUS
      <4>2. d # c => up'[d] = up[d]
        BY <2>22 DEF DataStep, PushUp
      <4>3. d = c => Pushed(up[d], up'[d], m)
        BY <2>22, <4>1 DEF DataStep, PushUp
      <4>4. d = c /\ m.t = "hs" => m.of = d /\ cl[d] = "eph"
        BY <4>1
      <4> QED BY <4>2, <4>3, <4>4
    <3>6. DownMoves(d)
      BY <2>22 DEF DataStep, PopDown, PushUp, ServerSame, TableSame, ClientSame, QueuesSame,
         client, server, fixed, past
    <3>7. KeySent(d)' /\ KeyLeads(d)'
      BY <3>0, <3>1, <3>4, <3>5, <1>0, UpKeys
    <3>8. KeyArrives(d)'
      BY <3>0, <3>2, <3>3, <3>6, DownKeys
    <3> QED BY <3>7, <3>8
  <2>23. CASE CloseStep(c)
    <3> SUFFICES ASSUME NEW d \in Conn PROVE KeySent(d)' /\ KeyLeads(d)' /\ KeyArrives(d)'
      BY DEF KeyInv
    <3>0. KeySent(d) /\ KeyLeads(d) /\ KeyArrives(d)
      BY DEF KeyInv
    <3>1. KeyOut(d) => KeyOut(d)'
      BY KeyOutStable
    <3>2. peerEph[d] # NoConn => peerEph'[d] = peerEph[d]
      BY <1>0 DEF Steady
    <3>3. Past(d) => Past(d)'
      BY <2>23 DEF CloseStep, Past, TunnelTypes, ServerSame, TableSame, ClientSame, QueuesSame,
         client, server, fixed, past
    <3>4. cl'[d] = "eph" => cl[d] = "eph" \/ KeyAt(up'[d], d)
      BY <2>23 DEF CloseStep, TunnelTypes, ServerSame, TableSame, ClientSame, QueuesSame,
         client, server, fixed, past
    <3>5. UpMoves(d)
      <4>1. PICK m : m = [t |-> "close"]
        OBVIOUS
      <4>2. d # c => up'[d] = up[d]
        BY <2>23 DEF CloseStep, PushUp
      <4>3. d = c => Pushed(up[d], up'[d], m)
        BY <2>23, <4>1 DEF CloseStep, PushUp
      <4>4. d = c /\ m.t = "hs" => m.of = d /\ cl[d] = "eph"
        BY <4>1
      <4> QED BY <4>2, <4>3, <4>4
    <3>6. DownMoves(d)
      BY <2>23 DEF CloseStep, PopDown, PushUp, ServerSame, TableSame, ClientSame, QueuesSame,
         client, server, fixed, past
    <3>7. KeySent(d)' /\ KeyLeads(d)'
      BY <3>0, <3>1, <3>4, <3>5, <1>0, UpKeys
    <3>8. KeyArrives(d)'
      BY <3>0, <3>2, <3>3, <3>6, DownKeys
    <3> QED BY <3>7, <3>8
  <2> QED BY <1>4, <2>1, <2>2, <2>3, <2>4, <2>5, <2>6, <2>7, <2>8, <2>9, <2>10, <2>11, <2>12,
     <2>13, <2>14, <2>15, <2>16, <2>17, <2>18, <2>19, <2>20, <2>21, <2>22, <2>23 DEF TunnelStep
<1> QED BY <1>1, <1>2, <1>3, <1>4, StepCases

\* Sessions agree, and stay in agreement.
LEMMA NextSessInv ==
    ASSUME TunnelTypes, HubInv, ClientInv, FrameInv, KeyInv, SessInv, Next
    PROVE  SessInv'
<1>0. TunnelTypes' /\ Steady
  BY NextTunnelTypes, NextSteady
<1>1. ASSUME NEW d \in Conn, sess[d] # NoConn
      PROVE  /\ peerEph[d] = sess[d] /\ peerEph'[d] = peerEph[d] /\ sess'[d] = sess[d]
             /\ sess[d] \in Conn /\ peerEph[sess[d]] = d /\ peerEph'[sess[d]] = d
             /\ cert'[sess[d]] = cert[sess[d]] /\ cert[sess[d]] = want[d]
             /\ rcvd[d] <= sent[sess[d]] /\ sent[sess[d]] <= sent'[sess[d]]
             /\ rcvd[d] \in Nat /\ sent[sess[d]] \in Nat /\ sent'[sess[d]] \in Nat
             /\ Past(d)
  <2>1. /\ peerEph[d] = sess[d] /\ peerEph[sess[d]] = d /\ cert[sess[d]] = want[d]
        /\ rcvd[d] <= sent[sess[d]]
    BY <1>1 DEF SessInv
  <2>2. sess[d] \in Conn /\ d # NoConn
    BY <1>1, TunnelAssumption DEF TunnelTypes, Conns
  <2>3. PICK p \in Conn : p = sess[d]
    BY <2>2
  <2>4. /\ peerEph'[d] = peerEph[d] /\ sess'[d] = sess[d] /\ peerEph'[p] = d
        /\ cert'[p] = cert[p] /\ sent[p] <= sent'[p]
    BY <1>0, <1>1, <2>1, <2>2, <2>3 DEF Steady
  <2>5. rcvd[d] \in Nat /\ sent[p] \in Nat /\ sent'[p] \in Nat
    BY <1>0, TunnelAssumption DEF TunnelTypes
  <2>6. Past(d)
    BY <1>1 DEF ClientInv, ClientOf
  <2> QED BY <2>1, <2>2, <2>3, <2>4, <2>5, <2>6
\* A session that was there, with nothing taken from it or promised to it.
<1>2. ASSUME NEW d \in Conn, sess[d] # NoConn, want'[d] = want[d], rcvd'[d] = rcvd[d]
      PROVE  /\ peerEph'[d] = sess'[d] /\ peerEph'[sess'[d]] = d
             /\ cert'[sess'[d]] = want'[d] /\ rcvd'[d] <= sent'[sess'[d]]
  <2>1. PICK p \in Conn : p = sess[d]
    BY <1>1, <1>2
  <2>2. /\ peerEph'[d] = p /\ sess'[d] = p /\ peerEph'[p] = d /\ cert'[p] = want[d]
        /\ rcvd[d] <= sent[p] /\ sent[p] <= sent'[p]
        /\ rcvd[d] \in Nat /\ sent[p] \in Nat /\ sent'[p] \in Nat
    BY <1>1, <1>2, <2>1
  <2> QED BY <1>2, <2>2
<1>3. ASSUME UNCHANGED <<sess, rcvd>>, \A d \in Conn : Past(d) => want'[d] = want[d]
      PROVE  SessInv'
  BY <1>1, <1>2, <1>3 DEF SessInv
<1>4. CASE Offer \/ Sweep \/ \E x \in Side : Rotate(x)
  BY <1>3, <1>4 DEF Offer, Sweep, Rotate, client, server, fixed, past
<1>5. ASSUME NEW c \in Conn, TunnelStep(c) PROVE SessInv'
  <2>1. CASE LookupFingerprint(c) \/ TooLateStep(c) \/ VouchMeStep(c) \/ VouchPeerStep(c)
             \/ DropStep(c) \/ FindStep(c) \/ ForwardStep(c) \/ ForwardFails(c)
             \/ SeeCloseStep(c) \/ TeardownStep(c) \/ TellStep(c) \/ PumpStep(c)
             \/ SocketDrops(c) \/ FailStep(c) \/ SkipVouch(c) \/ CloseStep(c)
             \/ Connect(c) \/ RegisterStep(c) \/ TakeKey(c) \/ DataStep(c)
    <3>1. UNCHANGED <<sess, rcvd, want>>
      BY <2>1 DEF LookupFingerprint, TooLateStep, VouchMeStep, VouchPeerStep, DropStep,
         FindStep, ForwardStep, ForwardFails, SeeCloseStep, TeardownStep, TellStep, PumpStep,
         SocketDrops, FailStep, SkipVouch, CloseStep, Connect, RegisterStep, TakeKey, DataStep,
         ServerSame, TableSame, ClientSame, QueuesSame, client, server, fixed, past
    <3> QED BY <1>3, <3>1
  <2>2. CASE TakeVouch(c)
    <3>1. UNCHANGED <<sess, rcvd>> /\ cl[c] = "vouch" /\ \A d \in Conn : d # c => want'[d] = want[d]
      BY <2>2 DEF TakeVouch, TunnelTypes
    <3>2. ~Past(c)
      BY <3>1 DEF Past
    <3> QED BY <1>3, <3>1, <3>2
  <2>3. CASE TakeHandshake(c)
    <3>1. PICK m \in Msg : m = down[c][1]
      BY <2>3 DEF TakeHandshake, PopDown
    <3>2. /\ Completes(c, m) /\ cl[c] = "hs" /\ 1 \in 1..Len(down[c])
          /\ UNCHANGED <<want, rcvd, peerEph, cert, sent>>
          /\ sess'[c] = m.of /\ \A d \in Conn : d # c => sess'[d] = sess[d]
      BY <2>3, <3>1 DEF TakeHandshake, PopDown, TunnelTypes, ServerSame, TableSame
    <3>3. m.t = "hs" /\ m.fp = want[c] /\ m.over = c
      BY <3>2 DEF Completes
    <3>4. m.of \in Conn /\ m.fp = cert[m.of] /\ m.over = peerEph[m.of]
      BY <3>1, <3>2, <3>3, MsgShape DEF FrameInv, Inbound, Honest
    <3>5. ~KeyFirst(down[c], 1)
      BY DEF KeyFirst
    <3>6. peerEph[c] = m.of
      BY <3>1, <3>2, <3>3, <3>5 DEF KeyInv, KeyArrives, Past
    <3>7. rcvd[c] = 0 /\ sent[m.of] \in Nat
      <4>1. ~Past(c)
        BY <3>2 DEF Past
      <4>2. rcvd[c] = 0
        BY <4>1 DEF ClientInv, ClientOf
      <4>3. sent[m.of] \in Nat
        BY <3>4, TunnelAssumption DEF TunnelTypes
      <4> QED BY <4>2, <4>3
    <3>8. PICK p \in Conn : p = m.of
      BY <3>4
    <3>9. /\ peerEph'[c] = p /\ sess'[c] = p /\ peerEph'[p] = c /\ cert'[p] = want'[c]
          /\ rcvd'[c] <= sent'[p]
      BY <3>2, <3>3, <3>4, <3>6, <3>7, <3>8
    <3> SUFFICES ASSUME NEW d \in Conn, sess'[d] # NoConn
                 PROVE  /\ peerEph'[d] = sess'[d] /\ peerEph'[sess'[d]] = d
                        /\ cert'[sess'[d]] = want'[d] /\ rcvd'[d] <= sent'[sess'[d]]
      BY DEF SessInv
    <3>10. CASE d = c
      BY <3>9, <3>10
    <3>11. CASE d # c
      BY <1>2, <3>2, <3>11
    <3> QED BY <3>10, <3>11
  <2>4. CASE TakeData(c)
    <3>1. PICK m \in Msg : m = down[c][1]
      BY <2>4 DEF TakeData, PopDown
    <3>2. /\ Opens(c, m) /\ cl[c] = "open" /\ 1 \in 1..Len(down[c])
          /\ UNCHANGED <<want, sess, sent>> /\ rcvd'[c] = rcvd[c] + 1
          /\ \A d \in Conn : d # c => rcvd'[d] = rcvd[d]
      BY <2>4, <3>1 DEF TakeData, PopDown, TunnelTypes, ServerSame, TableSame
    <3>3. m.t = "data" /\ m.of = sess[c] /\ m.n = rcvd[c]
      BY <3>2 DEF Opens
    <3>4. sess[c] # NoConn
      BY <3>2 DEF ClientInv, ClientOf
    <3>5. PICK p \in Conn : p = sess[c]
      BY <1>1, <3>4
    <3>6. m.n < sent[p]
      BY <3>1, <3>2, <3>3, <3>5 DEF FrameInv, Inbound, Honest
    <3>7. rcvd'[c] <= sent'[p]
      BY <1>1, <3>2, <3>3, <3>4, <3>5, <3>6
    <3>8. /\ peerEph'[c] = p /\ sess'[c] = p /\ peerEph'[p] = c /\ cert'[p] = want'[c]
      BY <1>1, <3>2, <3>4, <3>5
    <3> SUFFICES ASSUME NEW d \in Conn, sess'[d] # NoConn
                 PROVE  /\ peerEph'[d] = sess'[d] /\ peerEph'[sess'[d]] = d
                        /\ cert'[sess'[d]] = want'[d] /\ rcvd'[d] <= sent'[sess'[d]]
      BY DEF SessInv
    <3>10. CASE d = c
      BY <3>7, <3>8, <3>10
    <3>11. CASE d # c
      BY <1>2, <3>2, <3>11
    <3> QED BY <3>10, <3>11
  <2> QED BY <1>5, <2>1, <2>2, <2>3, <2>4 DEF TunnelStep
<1> QED BY <1>4, <1>5, StepCases

-----------------------------------------------------------------------------
(* The tunnel: the theorems *)

\* Nothing has happened yet.
LEMMA InitTunnelIInv == ASSUME Init PROVE TunnelIInv
<1>1. TunnelTypes
  BY InitTunnelTypes
<1>2. HubInv /\ PairedInv
  BY TunnelAssumption DEF Init, HubInv, PairedInv, Early, Vouches
<1>3. \A c \in Conn : down[c] = <<>> /\ up[c] = <<>> /\ Len(down[c]) = 0 /\ Len(up[c]) = 0
  BY DEF Init
<1>4. AloneInv
  BY <1>3 DEF Init, AloneInv, OnlyCloses
<1>5. ClientInv
  BY <1>3 DEF Init, ClientInv, ClientOf, Holds, Past
<1>6. FrameInv
  BY <1>3 DEF FrameInv
<1>7. KeyInv
  BY <1>3 DEF Init, KeyInv, KeySent, KeyLeads, KeyArrives
<1>8. SessInv
  BY DEF Init, SessInv
<1> QED BY <1>1, <1>2, <1>4, <1>5, <1>6, <1>7, <1>8 DEF TunnelIInv

\* A step that changes nothing.
LEMMA SameTunnelIInv == ASSUME TunnelIInv, UNCHANGED vars PROVE TunnelIInv'
<1>1. UNCHANGED <<hub, pc, fp, peer, rx, cl, want, peerEph, sess, sent, rcvd, traffic, offered,
                  gen, side, cert, attached, mate, down, up>>
  BY DEF vars, server, client, fixed, past
<1>2. TunnelTypes'
  BY <1>1 DEF TunnelIInv, TunnelTypes
<1>3. HubInv' /\ PairedInv'
  BY <1>1 DEF TunnelIInv, HubInv, PairedInv
<1>4. AloneInv'
  BY <1>1 DEF TunnelIInv, AloneInv, Alone
<1>5. ClientInv'
  BY <1>1 DEF TunnelIInv, ClientInv, ClientOf, Past, Ended
<1>6. FrameInv'
  BY <1>1 DEF TunnelIInv, FrameInv, Inbound, Outbound, Honest
<1>7. KeyInv'
  BY <1>1 DEF TunnelIInv, KeyInv, KeySent, KeyLeads, KeyArrives, KeyOut, Got, Past
<1>8. SessInv'
  BY <1>1 DEF TunnelIInv, SessInv
<1> QED BY <1>2, <1>3, <1>4, <1>5, <1>6, <1>7, <1>8 DEF TunnelIInv

\* The invariant of the tunnel, whatever the attachments, the rotations, the
\* sweeps and the closes (tunnel_ws, handshake, complete, open).
THEOREM TunnelInvariance == Spec => []TunnelIInv
<1>1. Init => TunnelIInv
  BY InitTunnelIInv
<1>2. TunnelIInv /\ [Next]_vars => TunnelIInv'
  <2> SUFFICES ASSUME TunnelIInv, [Next]_vars PROVE TunnelIInv'
    OBVIOUS
  <2>1. CASE Next
    <3>1. TunnelTypes' /\ HubInv' /\ PairedInv'
      BY <2>1, NextTunnelTypes, NextHubInv, NextPairedInv DEF TunnelIInv
    <3>2. AloneInv' /\ ClientInv'
      BY <2>1, NextAloneInv, NextClientInv DEF TunnelIInv
    <3>3. FrameInv' /\ KeyInv' /\ SessInv'
      BY <2>1, NextFrameInv, NextKeyInv, NextSessInv DEF TunnelIInv
    <3> QED BY <3>1, <3>2, <3>3 DEF TunnelIInv
  <2>2. CASE UNCHANGED vars
    BY <2>2, SameTunnelIInv
  <2> QED BY <2>1, <2>2
<1> QED BY <1>1, <1>2, PTL DEF Spec

\* Whoever has a session has it with a connection of the other side that holds
\* the vouched certificate and has, if any, its session with this one, for any
\* number of attachments per side, certificates and data frames (complete,
\* open).
THEOREM TunnelAgreement == Spec => []Agreement
<1>1. TunnelIInv => Agreement
  <2> SUFFICES ASSUME TunnelIInv PROVE Agreement
    OBVIOUS
  <2>1. TypeOK
    BY TypesImplyTypeOK DEF TunnelIInv
  <2>2. ASSUME NEW c \in Conn, sess[c] # NoConn
        PROVE  /\ side[sess[c]] # side[c] /\ cert[sess[c]] = want[c]
               /\ sess[sess[c]] \in {c, NoConn} /\ rcvd[c] <= sent[sess[c]]
    <3>1. PICK p \in Conn : p = sess[c]
      BY <2>2 DEF TunnelIInv, TunnelTypes, Conns
    <3>2. peerEph[c] = p /\ peerEph[p] = c /\ cert[p] = want[c] /\ rcvd[c] <= sent[p]
      BY <2>2, <3>1 DEF TunnelIInv, SessInv
    <3>3. side[p] # side[c]
      BY <2>2, <3>1, <3>2 DEF TunnelIInv, ClientInv, ClientOf
    <3>4. sess[p] # NoConn => peerEph[p] = sess[p]
      BY DEF TunnelIInv, SessInv
    <3> QED BY <3>1, <3>2, <3>3, <3>4
  <2> QED BY <2>1, <2>2 DEF Agreement
<1> QED BY <1>1, TunnelInvariance, PTL

-----------------------------------------------------------------------------
(* The tunnel: no protocol error while nothing disturbs it *)

\* A frame's place in the stream of its sender, behind the vouch.
Order(m) == IF m.t = "vouch" THEN 0 ELSE IF m.t = "eph" THEN 1 ELSE IF m.t = "hs" THEN 2
            ELSE 3 + m.n
\* The place of what a client waits for, and of what it sends next.
Waits(c) == IF cl[c] = "vouch" THEN 0 ELSE IF cl[c] = "eph" THEN 1 ELSE IF cl[c] = "hs" THEN 2
            ELSE 3 + rcvd[c]
Speaks(c) == IF cl[c] = "vouch" THEN 1 ELSE IF cl[c] = "eph" THEN 2 ELSE 3 + sent[c]
\* The place of the next frame of the peer, with what is on the way counted.
Due(c) == IF Waits(c) + Len(down[c]) = 0 THEN 1 ELSE Waits(c) + Len(down[c])

Listening(c) == rx[c] /\ ~Ended(c) /\ ~Holds(down[c], "gone")
Told(c) == ~rx[c] \/ cl[c] # "vouch" \/ Len(down[c]) # 0
\* What p sends reaches c.
Linked(p, c) ==
    /\ pc[p] \in Vouches \cup {"run"}
    /\ peer[p] = c \/ (peer[p] = NoConn /\ hub # NoTunnel /\ hub.to[side[c]] = c)

\* Every certificate is the first one; a lookup that has just been made may have
\* failed.
CertOf(c) ==
    /\ pc[c] # "new" => cert[c] = 1
    /\ pc[c] = "register" => fp[c] \in {0, 1}
    /\ c \in attached => fp[c] = 1
    /\ cl[c] \in {"eph", "hs", "open"} => want[c] = 1
    /\ \A i \in 1..Len(down[c]) : down[c][i].t = "vouch" => down[c][i].fp = 1
CertInv == \A c \in Conn : CertOf(c)

\* Towards a client, up to the notice that the peer is gone: what it waits for,
\* without a gap.
Untold(q, i) == \A j \in 1..i : q[j].t # "gone"
InOrder(c) == ~Ended(c) =>
    \A i \in 1..Len(down[c]) : Untold(down[c], i) => Order(down[c][i]) = Waits(c) + i - 1
DownOrder == \A c \in Conn : InOrder(c)

\* From a client: what is due at the other, without a gap.
Continues(p, c) == Linked(p, c) /\ Listening(c) =>
    /\ \A i \in 1..Len(up[p]) : up[p][i].t # "close" => Order(up[p][i]) = Due(c) + i - 1
    /\ ~Ended(p) => Speaks(p) = Due(c) + Len(up[p])
UpOrder == \A p, c \in attached : side[p] # side[c] => Continues(p, c)

\* Which of the two vouches has been given.
Silent(c) == cl[c] \in {"vouch", "failed", "closed"} /\ OnlyCloses(up[c])
Vouched(p, c) ==
    /\ pc[c] \notin Vouches /\ pc[p] \notin Vouches => Told(c)
    /\ pc[c] = "vouch_peer" => Told(c)
    /\ pc[c] \in Vouches => /\ pc[p] \notin Vouches /\ peer[c] = p
                            /\ Silent(p) /\ Len(down[p]) = 0
    /\ pc[c] = "vouch_me" => /\ Silent(c)
                             /\ \A i \in 1..Len(down[c]) : down[c][i].t = "gone"
VouchInv == \A p, c \in attached : side[p] # side[c] => Vouched(p, c)

NoneFailed == \A c \in Conn : cl[c] # "failed"

QuietInv ==
    /\ \A x \in Side : gen[x] # 0
    /\ Undisturbed => CertInv /\ DownOrder /\ UpOrder /\ VouchInv /\ NoneFailed

-----------------------------------------------------------------------------
(* The tunnel: a pair that is left alone *)

\* No certificate is taken back.
LEMMA NextGens ==
    ASSUME TunnelTypes, HubInv, ClientInv, Next, \A x \in Side : gen[x] # 0
    PROVE  /\ \A x \in Side : gen'[x] # 0
           /\ (\A x \in Side : gen'[x] = 1) => gen' = gen
<1>0. gen \in [Side -> Gens] /\ \A x \in Side : gen[x] \in Nat
  BY TunnelAssumption DEF TunnelTypes, Gens
<1>1. CASE Offer \/ Sweep
  BY <1>1 DEF Offer, Sweep, fixed
<1>2. ASSUME NEW x \in Side, Rotate(x)
      PROVE  /\ \A y \in Side : gen'[y] # 0
             /\ (\A y \in Side : gen'[y] = 1) => gen' = gen
  <2>1. gen' = [gen EXCEPT ![x] = @ + 1]
    BY <1>2 DEF Rotate
  <2>2. gen'[x] = gen[x] + 1 /\ gen'[x] # 0 /\ gen'[x] # 1
    BY <2>1, <1>0
  <2> QED BY <2>1, <2>2, <1>0
<1>3. ASSUME NEW c \in Conn, TunnelStep(c)
      PROVE  gen' = gen
  BY <1>3 DEF TunnelStep, Connect, LookupFingerprint, RegisterStep, TooLateStep, VouchMeStep,
     VouchPeerStep, DropStep, FindStep, ForwardStep, ForwardFails, SeeCloseStep, TeardownStep,
     TellStep, PumpStep, SocketDrops, FailStep, TakeVouch, TakeKey, TakeHandshake, TakeData,
     SkipVouch, DataStep, CloseStep, ServerSame, TableSame, fixed
<1> QED BY <1>1, <1>2, <1>3, StepCases

\* The fingerprint of who has attached stays.
LEMMA NextFingerprints ==
    ASSUME TunnelTypes, HubInv, ClientInv, Next, NEW q \in attached
    PROVE  fp'[q] = fp[q]
<1>1. CASE Offer \/ Sweep \/ \E x \in Side : Rotate(x)
  BY <1>1 DEF Offer, Sweep, Rotate, server
<1>2. ASSUME NEW c \in Conn, TunnelStep(c) PROVE fp'[q] = fp[q]
  <2>1. CASE LookupFingerprint(c)
    <3>1. c # q
      BY <2>1 DEF LookupFingerprint, HubInv, Early
    <3> QED BY <2>1, <3>1 DEF LookupFingerprint, TunnelTypes
  <2>2. CASE ~LookupFingerprint(c)
    BY <1>2, <2>2 DEF TunnelStep, Connect, RegisterStep, TooLateStep, VouchMeStep,
       VouchPeerStep, DropStep, FindStep, ForwardStep, ForwardFails, SeeCloseStep, TeardownStep,
       TellStep, PumpStep, SocketDrops, FailStep, TakeVouch, TakeKey, TakeHandshake, TakeData,
       SkipVouch, DataStep, CloseStep, ServerSame, server
  <2> QED BY <2>1, <2>2
<1> QED BY <1>1, <1>2, StepCases

\* What is undisturbed has never been disturbed.
LEMMA UndisturbedBefore ==
    ASSUME TunnelTypes, HubInv, ClientInv, Next, \A x \in Side : gen[x] # 0, Undisturbed'
    PROVE  Undisturbed /\ gen' = gen
<1>1. gen' = gen
  BY NextGens DEF Undisturbed
<1>2. attached \subseteq attached' /\ \A q \in attached : side'[q] = side[q]
  BY NextSteady DEF Steady
<1>3. \A q \in attached : fp'[q] = fp[q]
  BY NextFingerprints
<1> QED BY <1>1, <1>2, <1>3 DEF Undisturbed

\* Two of different sides are all there is.
LEMMA PairOnly ==
    ASSUME TunnelTypes, Undisturbed, NEW p \in attached, NEW c \in attached, side[p] # side[c],
           NEW d \in attached
    PROVE  d = p \/ d = c
<1>1. side[p] \in Side /\ side[c] \in Side /\ side[d] \in Side
  BY DEF TunnelTypes
<1>2. side[d] = side[p] \/ side[d] = side[c]
  BY <1>1 DEF Side
<1> QED BY <1>2 DEF Undisturbed

\* Who is on the other side of an attached connection is determined.
LEMMA OtherOnly ==
    ASSUME TunnelTypes, Undisturbed, NEW p \in attached, NEW c \in attached, side[p] # side[c],
           NEW d \in attached, side[d] # side[c]
    PROVE  d = p
  BY PairOnly

\* What a client that has not ended may see at the head of its queue.
LEMMA HeadIsDue ==
    ASSUME TunnelTypes, FrameInv, AloneInv, NEW c \in Conn, InOrder(c), ~Ended(c),
           1 \in 1..Len(down[c]), down[c][1].t # "gone"
    PROVE  /\ Order(down[c][1]) = Waits(c) /\ down[c][1].t \in {"vouch", "eph", "hs", "data"}
           /\ down[c][1] \in Msg /\ c \in attached /\ Inbound(c, down[c][1])
<1>1. PICK m \in Msg : m = down[c][1]
  BY DEF TunnelTypes, Queues
<1>2. Inbound(c, m) /\ m.t # "close"
  BY <1>1 DEF FrameInv, Inbound
<1>3. Untold(down[c], 1)
  BY DEF Untold
<1>4. Waits(c) \in Nat
  BY TunnelAssumption DEF Waits, TunnelTypes
<1>5. Order(m) = Waits(c)
  BY <1>1, <1>3, <1>4 DEF InOrder
<1>6. c \in attached
  BY DEF AloneInv, Alone
<1> QED BY <1>1, <1>2, <1>5, <1>6, MsgShape

\* A message of a place is of one kind only.
LEMMA OrderKinds ==
    ASSUME NEW m \in Msg, m.t \in {"vouch", "eph", "hs", "data"}
    PROVE  /\ Order(m) = 0 <=> m.t = "vouch"
           /\ Order(m) = 1 <=> m.t = "eph"
           /\ Order(m) = 2 <=> m.t = "hs"
           /\ m.t = "data" => Order(m) = 3 + m.n /\ m.n \in Nat
           /\ Order(m) \in Nat
  BY MsgShape DEF Order

\* No client of an undisturbed pair meets a protocol error, or a second vouch.
LEMMA NoError ==
    ASSUME TunnelIInv, Undisturbed, CertInv, DownOrder, NEW c \in Conn
    PROVE  ~FailStep(c) /\ ~SkipVouch(c)
<1> USE DEF TunnelIInv
<1> SUFFICES ASSUME FailStep(c) \/ SkipVouch(c) PROVE FALSE
  OBVIOUS
<1>1. /\ cl[c] \in {"vouch", "eph", "hs", "open"} /\ 1 \in 1..Len(down[c])
      /\ down[c][1].t # "gone"
  BY DEF FailStep, SkipVouch, PopDown
<1>2. ~Ended(c)
  BY <1>1 DEF Ended
<1>3. PICK m \in Msg : m = down[c][1]
  BY <1>1 DEF TunnelTypes, Queues
<1>4. /\ Order(m) = Waits(c) /\ m.t \in {"vouch", "eph", "hs", "data"}
      /\ c \in attached /\ Inbound(c, m)
  BY <1>1, <1>2, <1>3, HeadIsDue DEF DownOrder
<1>5. /\ Order(m) = 0 <=> m.t = "vouch"
      /\ Order(m) = 1 <=> m.t = "eph"
      /\ Order(m) = 2 <=> m.t = "hs"
      /\ m.t = "data" => Order(m) = 3 + m.n /\ m.n \in Nat
  BY <1>4, OrderKinds
<1>6. rcvd[c] \in Nat
  BY TunnelAssumption DEF TunnelTypes
<1>7. CASE cl[c] = "vouch"
  <2>1. m.t = "vouch"
    BY <1>4, <1>5, <1>7 DEF Waits
  <2> QED BY <2>1, <1>3, <1>7 DEF FailStep, SkipVouch
<1>8. CASE cl[c] = "eph"
  <2>1. m.t = "eph"
    BY <1>4, <1>5, <1>8 DEF Waits
  <2> QED BY <2>1, <1>3, <1>8 DEF FailStep, SkipVouch
\* Whom the sender of m has, by its key or its session, is c.
<1>9. ASSUME m.t \in {"hs", "data"}
      PROVE  /\ m.of \in Conn /\ m.of \in attached /\ side[m.of] # side[c]
             /\ peerEph[m.of] # NoConn => peerEph[m.of] = c
  <2>1. m.of \in Conn /\ m.of \in attached /\ side[m.of] # side[c]
    BY <1>4, <1>9, MsgShape DEF Inbound
  <2>2. PICK p \in attached : p = m.of
    BY <2>1
  <2>3. peerEph[p] # NoConn => peerEph[p] \in attached /\ side[peerEph[p]] # side[p]
    BY <2>1, <2>2 DEF ClientInv, ClientOf
  <2>4. peerEph[p] # NoConn => peerEph[p] = c
    BY <2>1, <2>2, <2>3, <1>4, OtherOnly
  <2> QED BY <2>1, <2>2, <2>4
<1>10. CASE cl[c] = "hs"
  <2>1. m.t = "hs"
    BY <1>4, <1>5, <1>10 DEF Waits
  <2>2. m.from = side[m.of] /\ m.fp = cert[m.of] /\ m.over = peerEph[m.of] /\ m.over \in Conn
    BY <2>1, <1>4, MsgShape DEF Inbound, Honest
  <2>3. m.over = c
    BY <2>1, <2>2, <1>9, TunnelAssumption
  <2>4. side[m.of] = Other(side[c])
    BY <2>1, <1>9, SideFacts DEF TunnelTypes
  <2>5. pc[m.of] # "new"
    BY <2>1, <1>9 DEF HubInv, Early
  <2>6. cert[m.of] = 1 /\ want[c] = 1
    BY <2>1, <2>5, <1>9, <1>10 DEF CertInv, CertOf
  <2>7. Completes(c, m)
    BY <2>1, <2>2, <2>3, <2>4, <2>6 DEF Completes
  <2> QED BY <2>7, <1>3, <1>10 DEF FailStep, SkipVouch
<1>11. CASE cl[c] = "open"
  <2>1. Waits(c) = 3 + rcvd[c]
    BY <1>11 DEF Waits
  <2>2. m.t = "data" /\ m.n = rcvd[c]
    BY <2>1, <1>4, <1>5, <1>6
  <2>3. PICK p \in attached : p = m.of /\ side[p] # side[c] /\ p \in Conn
    BY <2>2, <1>9
  <2>4. sess[c] # NoConn /\ sess[c] = peerEph[c] /\ peerEph[c] \in attached /\ side[peerEph[c]] # side[c]
    BY <1>11 DEF ClientInv, ClientOf, SessInv
  <2>5. sess[c] = p
    BY <2>3, <2>4, <1>4, OtherOnly
  <2>6. sess[p] # NoConn /\ m.key = {p, sess[p]}
    BY <2>2, <2>3, <1>4 DEF Inbound, Honest
  <2>7. sess[p] = peerEph[p]
    BY <2>3, <2>6 DEF SessInv
  <2>8. sess[p] = c
    BY <2>2, <2>3, <2>6, <2>7, <1>9
  <2>9. Opens(c, m)
    BY <2>2, <2>3, <2>5, <2>6, <2>8 DEF Opens
  <2> QED BY <2>2, <2>9, <1>3, <1>11 DEF FailStep, SkipVouch
<1> QED BY <1>1, <1>7, <1>8, <1>10, <1>11

\* What a step may do to the queue towards a client, the vouches being for the
\* first certificate.
VouchesFirst(d) ==
    \/ down'[d] = down[d] \/ down'[d] = <<>> \/ Popped(down[d], down'[d])
    \/ \E m : Pushed(down[d], down'[d], m) /\ (m.t = "vouch" => m.fp = 1)

\* The vouches on their way are for the first certificate after such a step.
LEMMA VouchQueue ==
    ASSUME NEW d \in Conn, CertOf(d), VouchesFirst(d)
    PROVE  \A i \in 1..Len(down'[d]) : down'[d][i].t = "vouch" => down'[d][i].fp = 1
<1>1. \A i \in 1..Len(down[d]) : down[d][i].t = "vouch" => down[d][i].fp = 1
  BY DEF CertOf
<1>2. CASE down'[d] = down[d] \/ down'[d] = <<>>
  BY <1>1, <1>2
<1>3. CASE Popped(down[d], down'[d])
  <2> SUFFICES ASSUME NEW i \in 1..Len(down'[d]), down'[d][i].t = "vouch"
               PROVE  down'[d][i].fp = 1
    OBVIOUS
  <2>1. i + 1 \in 1..Len(down[d]) /\ down'[d][i] = down[d][i + 1]
    BY <1>3 DEF Popped
  <2> QED BY <1>1, <2>1
<1>4. ASSUME NEW m, Pushed(down[d], down'[d], m), m.t = "vouch" => m.fp = 1
      PROVE  \A i \in 1..Len(down'[d]) : down'[d][i].t = "vouch" => down'[d][i].fp = 1
  BY <1>1, <1>4 DEF Pushed
<1> QED BY <1>2, <1>3, <1>4 DEF VouchesFirst

\* A connection that only ever met the first certificate still has.
LEMMA CertKept ==
    ASSUME NEW d \in Conn, CertOf(d), VouchesFirst(d),
           pc'[d] # "new" => cert'[d] = 1,
           pc'[d] = "register" => fp'[d] \in {0, 1}, d \in attached' => fp'[d] = 1,
           cl'[d] \in {"eph", "hs", "open"} => want'[d] = 1
    PROVE  CertOf(d)'
<1>1. \A i \in 1..Len(down'[d]) : down'[d][i].t = "vouch" => down'[d][i].fp = 1
  BY VouchQueue
<1> QED BY <1>1 DEF CertOf

\* While no certificate is replaced every one is the first.
LEMMA NextCertInv ==
    ASSUME TunnelTypes, HubInv, AloneInv, ClientInv, FrameInv, CertInv, gen' = gen,
           \A x \in Side : gen[x] = 1, \A q \in attached' : fp'[q] # 0, Next
    PROVE  CertInv'
<1>1. CASE Offer
  BY <1>1 DEF Offer, CertInv, CertOf, client, server, fixed, past
<1>2. CASE Sweep
  BY <1>2 DEF Sweep, CertInv, CertOf, client, server, fixed, past
<1>3. ASSUME NEW x \in Side, Rotate(x) PROVE CertInv'
  BY <1>3 DEF Rotate, TunnelTypes
<1>4. ASSUME NEW c \in Conn, TunnelStep(c) PROVE CertInv'
  <2>1. CASE Connect(c)
    <3> SUFFICES ASSUME NEW d \in Conn PROVE CertOf(d)'
      BY DEF CertInv
    <3>1. /\ CertOf(d) /\ (pc[d] # "new" => cert[d] = 1)
          /\ (pc[d] = "register" => fp[d] \in {0, 1}) /\ (d \in attached => fp[d] = 1)
          /\ (cl[d] \in {"eph", "hs", "open"} => want[d] = 1)
      BY DEF CertInv, CertOf
    <3>6. c \notin attached /\ \A x \in Side : gen[x] = 1
      BY <2>1 DEF Connect, HubInv, Early
    <3>7. cl'[c] \in {"vouch", "closed"} /\ \A q \in Conn : q # c => cl'[q] = cl[q]
      <4>1. CASE hub # NoTunnel
        BY <2>1, <4>1 DEF Connect, TunnelTypes
      <4>2. CASE hub = NoTunnel
        BY <2>1, <4>2 DEF Connect, TunnelTypes
      <4> QED BY <4>1, <4>2
    <3>2. VouchesFirst(d)
      BY <2>1 DEF VouchesFirst, Connect, PopDown, ServerSame, TableSame, ClientSame, QueuesSame,
         client, server, fixed, past
    <3>3. pc'[d] # "new" => cert'[d] = 1
      BY <2>1, <3>1, <3>6 DEF Connect, ServerSame, TableSame, ClientSame, QueuesSame, client,
         server, fixed, past, TunnelTypes, Goto
    <3>4. (pc'[d] = "register" => fp'[d] \in {0, 1}) /\ (d \in attached' => fp'[d] = 1)
      BY <2>1, <3>1, <3>6 DEF Connect, ServerSame, TableSame, ClientSame, QueuesSame, client,
         server, fixed, past, TunnelTypes, Goto
    <3>5. cl'[d] \in {"eph", "hs", "open"} => want'[d] = 1
      BY <2>1, <3>1, <3>7 DEF Connect, ServerSame, TableSame, ClientSame, QueuesSame, client,
         server, fixed, past, TunnelTypes, Goto
    <3> QED BY <3>1, <3>2, <3>3, <3>4, <3>5, CertKept
  <2>2. CASE LookupFingerprint(c)
    <3> SUFFICES ASSUME NEW d \in Conn PROVE CertOf(d)'
      BY DEF CertInv
    <3>1. /\ CertOf(d) /\ (pc[d] # "new" => cert[d] = 1)
          /\ (pc[d] = "register" => fp[d] \in {0, 1}) /\ (d \in attached => fp[d] = 1)
          /\ (cl[d] \in {"eph", "hs", "open"} => want[d] = 1)
      BY DEF CertInv, CertOf
    <3>6. gen[side[c]] = 1 /\ c \notin attached
      BY <2>2 DEF TunnelTypes, LookupFingerprint, HubInv, Early
    <3>7. PICK f \in {0, 1} : fp' = [fp EXCEPT ![c] = f]
      BY <2>2, <3>6 DEF LookupFingerprint, Fingerprints
    <3>2. VouchesFirst(d)
      BY <2>2 DEF VouchesFirst, LookupFingerprint, PopDown, ServerSame, TableSame, ClientSame,
         QueuesSame, client, server, fixed, past
    <3>3. pc'[d] # "new" => cert'[d] = 1
      BY <2>2, <3>1 DEF LookupFingerprint, ServerSame, TableSame, ClientSame, QueuesSame,
         client, server, fixed, past, TunnelTypes, Goto
    <3>4. (pc'[d] = "register" => fp'[d] \in {0, 1}) /\ (d \in attached' => fp'[d] = 1)
      BY <2>2, <3>1, <3>6, <3>7 DEF LookupFingerprint, TunnelTypes, Goto, past
    <3>5. cl'[d] \in {"eph", "hs", "open"} => want'[d] = 1
      BY <2>2, <3>1 DEF LookupFingerprint, ServerSame, TableSame, ClientSame, QueuesSame,
         client, server, fixed, past, TunnelTypes, Goto
    <3> QED BY <3>1, <3>2, <3>3, <3>4, <3>5, CertKept
  <2>3. CASE RegisterStep(c)
    <3> SUFFICES ASSUME NEW d \in Conn PROVE CertOf(d)'
      BY DEF CertInv
    <3>1. /\ CertOf(d) /\ (pc[d] # "new" => cert[d] = 1)
          /\ (pc[d] = "register" => fp[d] \in {0, 1}) /\ (d \in attached => fp[d] = 1)
          /\ (cl[d] \in {"eph", "hs", "open"} => want[d] = 1)
      BY DEF CertInv, CertOf
    <3>2. VouchesFirst(d)
      BY <2>3 DEF VouchesFirst, RegisterStep, PopDown, ServerSame, TableSame, ClientSame,
         QueuesSame, client, server, fixed, past
    <3>3. pc'[d] # "new" => cert'[d] = 1
      BY <2>3, <3>1 DEF RegisterStep, ServerSame, TableSame, ClientSame, QueuesSame, client,
         server, fixed, past, TunnelTypes, Goto
    <3>4. (pc'[d] = "register" => fp'[d] \in {0, 1}) /\ (d \in attached' => fp'[d] = 1)
      BY <2>3, <3>1 DEF RegisterStep, ServerSame, TableSame, ClientSame, QueuesSame, client,
         server, fixed, past, TunnelTypes, Goto
    <3>5. cl'[d] \in {"eph", "hs", "open"} => want'[d] = 1
      BY <2>3, <3>1 DEF RegisterStep, ServerSame, TableSame, ClientSame, QueuesSame, client,
         server, fixed, past, TunnelTypes, Goto
    <3> QED BY <3>1, <3>2, <3>3, <3>4, <3>5, CertKept
  <2>4. CASE TooLateStep(c)
    <3> SUFFICES ASSUME NEW d \in Conn PROVE CertOf(d)'
      BY DEF CertInv
    <3>1. /\ CertOf(d) /\ (pc[d] # "new" => cert[d] = 1)
          /\ (pc[d] = "register" => fp[d] \in {0, 1}) /\ (d \in attached => fp[d] = 1)
          /\ (cl[d] \in {"eph", "hs", "open"} => want[d] = 1)
      BY DEF CertInv, CertOf
    <3>2. VouchesFirst(d)
      BY <2>4 DEF VouchesFirst, TooLateStep, PopDown, ServerSame, TableSame, ClientSame,
         QueuesSame, client, server, fixed, past
    <3>3. pc'[d] # "new" => cert'[d] = 1
      BY <2>4, <3>1 DEF TooLateStep, ServerSame, TableSame, ClientSame, QueuesSame, client,
         server, fixed, past, TunnelTypes, Goto
    <3>4. (pc'[d] = "register" => fp'[d] \in {0, 1}) /\ (d \in attached' => fp'[d] = 1)
      BY <2>4, <3>1 DEF TooLateStep, ServerSame, TableSame, ClientSame, QueuesSame, client,
         server, fixed, past, TunnelTypes, Goto
    <3>5. cl'[d] \in {"eph", "hs", "open"} => want'[d] = 1
      BY <2>4, <3>1 DEF TooLateStep, ServerSame, TableSame, ClientSame, QueuesSame, client,
         server, fixed, past, TunnelTypes, Goto
    <3> QED BY <3>1, <3>2, <3>3, <3>4, <3>5, CertKept
  <2>5. CASE VouchMeStep(c)
    <3> SUFFICES ASSUME NEW d \in Conn PROVE CertOf(d)'
      BY DEF CertInv
    <3>1. /\ CertOf(d) /\ (pc[d] # "new" => cert[d] = 1)
          /\ (pc[d] = "register" => fp[d] \in {0, 1}) /\ (d \in attached => fp[d] = 1)
          /\ (cl[d] \in {"eph", "hs", "open"} => want[d] = 1)
      BY DEF CertInv, CertOf
    <3>2. VouchesFirst(d)
      <4>1. PICK m : m = VouchOf(peer[c])
        OBVIOUS
      <4>2. d # c => down'[d] = down[d]
        BY <2>5 DEF VouchMeStep, PushDown
      <4>3. d = c => down'[d] = down[d] \/ Pushed(down[d], down'[d], m)
        BY <2>5, <4>1 DEF VouchMeStep, PushDown
      <4>4. m.t = "vouch" => m.fp = 1
        <5>1. peer[c] \in Conn /\ peer[c] \in attached
          BY <2>5 DEF VouchMeStep, HubInv
        <5> QED BY <4>1, <5>1 DEF CertInv, CertOf, VouchOf
      <4> QED BY <4>2, <4>3, <4>4 DEF VouchesFirst
    <3>3. pc'[d] # "new" => cert'[d] = 1
      BY <2>5, <3>1 DEF VouchMeStep, ServerSame, TableSame, ClientSame, QueuesSame, client,
         server, fixed, past, TunnelTypes, Goto
    <3>4. (pc'[d] = "register" => fp'[d] \in {0, 1}) /\ (d \in attached' => fp'[d] = 1)
      BY <2>5, <3>1 DEF VouchMeStep, ServerSame, TableSame, ClientSame, QueuesSame, client,
         server, fixed, past, TunnelTypes, Goto
    <3>5. cl'[d] \in {"eph", "hs", "open"} => want'[d] = 1
      BY <2>5, <3>1 DEF VouchMeStep, ServerSame, TableSame, ClientSame, QueuesSame, client,
         server, fixed, past, TunnelTypes, Goto
    <3> QED BY <3>1, <3>2, <3>3, <3>4, <3>5, CertKept
  <2>6. CASE VouchPeerStep(c)
    <3> SUFFICES ASSUME NEW d \in Conn PROVE CertOf(d)'
      BY DEF CertInv
    <3>1. /\ CertOf(d) /\ (pc[d] # "new" => cert[d] = 1)
          /\ (pc[d] = "register" => fp[d] \in {0, 1}) /\ (d \in attached => fp[d] = 1)
          /\ (cl[d] \in {"eph", "hs", "open"} => want[d] = 1)
      BY DEF CertInv, CertOf
    <3>2. VouchesFirst(d)
      <4>1. PICK m : m = VouchOf(c)
        OBVIOUS
      <4>2. d # peer[c] => down'[d] = down[d]
        BY <2>6 DEF VouchPeerStep, PushDown
      <4>3. d = peer[c] => down'[d] = down[d] \/ Pushed(down[d], down'[d], m)
        BY <2>6, <4>1 DEF VouchPeerStep, PushDown
      <4>4. m.t = "vouch" => m.fp = 1
        <5>1. c \in attached
          BY <2>6 DEF VouchPeerStep, HubInv
        <5> QED BY <4>1, <5>1 DEF CertInv, CertOf, VouchOf
      <4> QED BY <4>2, <4>3, <4>4 DEF VouchesFirst
    <3>3. pc'[d] # "new" => cert'[d] = 1
      BY <2>6, <3>1 DEF VouchPeerStep, ServerSame, TableSame, ClientSame, QueuesSame, client,
         server, fixed, past, TunnelTypes, Goto
    <3>4. (pc'[d] = "register" => fp'[d] \in {0, 1}) /\ (d \in attached' => fp'[d] = 1)
      BY <2>6, <3>1 DEF VouchPeerStep, ServerSame, TableSame, ClientSame, QueuesSame, client,
         server, fixed, past, TunnelTypes, Goto
    <3>5. cl'[d] \in {"eph", "hs", "open"} => want'[d] = 1
      BY <2>6, <3>1 DEF VouchPeerStep, ServerSame, TableSame, ClientSame, QueuesSame, client,
         server, fixed, past, TunnelTypes, Goto
    <3> QED BY <3>1, <3>2, <3>3, <3>4, <3>5, CertKept
  <2>7. CASE DropStep(c)
    <3> SUFFICES ASSUME NEW d \in Conn PROVE CertOf(d)'
      BY DEF CertInv
    <3>1. /\ CertOf(d) /\ (pc[d] # "new" => cert[d] = 1)
          /\ (pc[d] = "register" => fp[d] \in {0, 1}) /\ (d \in attached => fp[d] = 1)
          /\ (cl[d] \in {"eph", "hs", "open"} => want[d] = 1)
      BY DEF CertInv, CertOf
    <3>2. VouchesFirst(d)
      BY <2>7 DEF VouchesFirst, DropStep, PopDown, ServerSame, TableSame, ClientSame,
         QueuesSame, client, server, fixed, past
    <3>3. pc'[d] # "new" => cert'[d] = 1
      BY <2>7, <3>1 DEF DropStep, ServerSame, TableSame, ClientSame, QueuesSame, client, server,
         fixed, past, TunnelTypes, Goto
    <3>4. (pc'[d] = "register" => fp'[d] \in {0, 1}) /\ (d \in attached' => fp'[d] = 1)
      BY <2>7, <3>1 DEF DropStep, ServerSame, TableSame, ClientSame, QueuesSame, client, server,
         fixed, past, TunnelTypes, Goto
    <3>5. cl'[d] \in {"eph", "hs", "open"} => want'[d] = 1
      BY <2>7, <3>1 DEF DropStep, ServerSame, TableSame, ClientSame, QueuesSame, client, server,
         fixed, past, TunnelTypes, Goto
    <3> QED BY <3>1, <3>2, <3>3, <3>4, <3>5, CertKept
  <2>8. CASE FindStep(c)
    <3> SUFFICES ASSUME NEW d \in Conn PROVE CertOf(d)'
      BY DEF CertInv
    <3>1. /\ CertOf(d) /\ (pc[d] # "new" => cert[d] = 1)
          /\ (pc[d] = "register" => fp[d] \in {0, 1}) /\ (d \in attached => fp[d] = 1)
          /\ (cl[d] \in {"eph", "hs", "open"} => want[d] = 1)
      BY DEF CertInv, CertOf
    <3>2. VouchesFirst(d)
      BY <2>8 DEF VouchesFirst, FindStep, PopDown, ServerSame, TableSame, ClientSame,
         QueuesSame, client, server, fixed, past
    <3>3. pc'[d] # "new" => cert'[d] = 1
      BY <2>8, <3>1 DEF FindStep, ServerSame, TableSame, ClientSame, QueuesSame, client, server,
         fixed, past, TunnelTypes, Goto
    <3>4. (pc'[d] = "register" => fp'[d] \in {0, 1}) /\ (d \in attached' => fp'[d] = 1)
      BY <2>8, <3>1 DEF FindStep, ServerSame, TableSame, ClientSame, QueuesSame, client, server,
         fixed, past, TunnelTypes, Goto
    <3>5. cl'[d] \in {"eph", "hs", "open"} => want'[d] = 1
      BY <2>8, <3>1 DEF FindStep, ServerSame, TableSame, ClientSame, QueuesSame, client, server,
         fixed, past, TunnelTypes, Goto
    <3> QED BY <3>1, <3>2, <3>3, <3>4, <3>5, CertKept
  <2>9. CASE ForwardStep(c)
    <3> SUFFICES ASSUME NEW d \in Conn PROVE CertOf(d)'
      BY DEF CertInv
    <3>1. /\ CertOf(d) /\ (pc[d] # "new" => cert[d] = 1)
          /\ (pc[d] = "register" => fp[d] \in {0, 1}) /\ (d \in attached => fp[d] = 1)
          /\ (cl[d] \in {"eph", "hs", "open"} => want[d] = 1)
      BY DEF CertInv, CertOf
    <3>2. VouchesFirst(d)
      <4>1. PICK m : m = up[c][1]
        OBVIOUS
      <4>2. d # peer[c] => down'[d] = down[d]
        BY <2>9 DEF ForwardStep, PushDown
      <4>3. d = peer[c] => down'[d] = down[d] \/ Pushed(down[d], down'[d], m)
        BY <2>9, <4>1 DEF ForwardStep, PushDown
      <4>4. m.t = "vouch" => m.fp = 1
        BY <2>9, <4>1 DEF ForwardStep, PopUp, FrameInv, Outbound
      <4> QED BY <4>2, <4>3, <4>4 DEF VouchesFirst
    <3>3. pc'[d] # "new" => cert'[d] = 1
      BY <2>9, <3>1 DEF ForwardStep, ServerSame, TableSame, ClientSame, QueuesSame, client,
         server, fixed, past, TunnelTypes, Goto
    <3>4. (pc'[d] = "register" => fp'[d] \in {0, 1}) /\ (d \in attached' => fp'[d] = 1)
      BY <2>9, <3>1 DEF ForwardStep, ServerSame, TableSame, ClientSame, QueuesSame, client,
         server, fixed, past, TunnelTypes, Goto
    <3>5. cl'[d] \in {"eph", "hs", "open"} => want'[d] = 1
      BY <2>9, <3>1 DEF ForwardStep, ServerSame, TableSame, ClientSame, QueuesSame, client,
         server, fixed, past, TunnelTypes, Goto
    <3> QED BY <3>1, <3>2, <3>3, <3>4, <3>5, CertKept
  <2>10. CASE ForwardFails(c)
    <3> SUFFICES ASSUME NEW d \in Conn PROVE CertOf(d)'
      BY DEF CertInv
    <3>1. /\ CertOf(d) /\ (pc[d] # "new" => cert[d] = 1)
          /\ (pc[d] = "register" => fp[d] \in {0, 1}) /\ (d \in attached => fp[d] = 1)
          /\ (cl[d] \in {"eph", "hs", "open"} => want[d] = 1)
      BY DEF CertInv, CertOf
    <3>2. VouchesFirst(d)
      BY <2>10 DEF VouchesFirst, ForwardFails, PopDown, ServerSame, TableSame, ClientSame,
         QueuesSame, client, server, fixed, past
    <3>3. pc'[d] # "new" => cert'[d] = 1
      BY <2>10, <3>1 DEF ForwardFails, ServerSame, TableSame, ClientSame, QueuesSame, client,
         server, fixed, past, TunnelTypes, Goto
    <3>4. (pc'[d] = "register" => fp'[d] \in {0, 1}) /\ (d \in attached' => fp'[d] = 1)
      BY <2>10, <3>1 DEF ForwardFails, ServerSame, TableSame, ClientSame, QueuesSame, client,
         server, fixed, past, TunnelTypes, Goto
    <3>5. cl'[d] \in {"eph", "hs", "open"} => want'[d] = 1
      BY <2>10, <3>1 DEF ForwardFails, ServerSame, TableSame, ClientSame, QueuesSame, client,
         server, fixed, past, TunnelTypes, Goto
    <3> QED BY <3>1, <3>2, <3>3, <3>4, <3>5, CertKept
  <2>11. CASE SeeCloseStep(c)
    <3> SUFFICES ASSUME NEW d \in Conn PROVE CertOf(d)'
      BY DEF CertInv
    <3>1. /\ CertOf(d) /\ (pc[d] # "new" => cert[d] = 1)
          /\ (pc[d] = "register" => fp[d] \in {0, 1}) /\ (d \in attached => fp[d] = 1)
          /\ (cl[d] \in {"eph", "hs", "open"} => want[d] = 1)
      BY DEF CertInv, CertOf
    <3>2. VouchesFirst(d)
      BY <2>11 DEF VouchesFirst, SeeCloseStep, PopDown, ServerSame, TableSame, ClientSame,
         QueuesSame, client, server, fixed, past
    <3>3. pc'[d] # "new" => cert'[d] = 1
      BY <2>11, <3>1 DEF SeeCloseStep, ServerSame, TableSame, ClientSame, QueuesSame, client,
         server, fixed, past, TunnelTypes, Goto
    <3>4. (pc'[d] = "register" => fp'[d] \in {0, 1}) /\ (d \in attached' => fp'[d] = 1)
      BY <2>11, <3>1 DEF SeeCloseStep, ServerSame, TableSame, ClientSame, QueuesSame, client,
         server, fixed, past, TunnelTypes, Goto
    <3>5. cl'[d] \in {"eph", "hs", "open"} => want'[d] = 1
      BY <2>11, <3>1 DEF SeeCloseStep, ServerSame, TableSame, ClientSame, QueuesSame, client,
         server, fixed, past, TunnelTypes, Goto
    <3> QED BY <3>1, <3>2, <3>3, <3>4, <3>5, CertKept
  <2>12. CASE TeardownStep(c)
    <3> SUFFICES ASSUME NEW d \in Conn PROVE CertOf(d)'
      BY DEF CertInv
    <3>1. /\ CertOf(d) /\ (pc[d] # "new" => cert[d] = 1)
          /\ (pc[d] = "register" => fp[d] \in {0, 1}) /\ (d \in attached => fp[d] = 1)
          /\ (cl[d] \in {"eph", "hs", "open"} => want[d] = 1)
      BY DEF CertInv, CertOf
    <3>2. VouchesFirst(d)
      BY <2>12 DEF VouchesFirst, TeardownStep, PopDown, ServerSame, TableSame, ClientSame,
         QueuesSame, client, server, fixed, past
    <3>3. pc'[d] # "new" => cert'[d] = 1
      BY <2>12, <3>1 DEF TeardownStep, ServerSame, TableSame, ClientSame, QueuesSame, client,
         server, fixed, past, TunnelTypes, Goto
    <3>4. (pc'[d] = "register" => fp'[d] \in {0, 1}) /\ (d \in attached' => fp'[d] = 1)
      BY <2>12, <3>1 DEF TeardownStep, ServerSame, TableSame, ClientSame, QueuesSame, client,
         server, fixed, past, TunnelTypes, Goto
    <3>5. cl'[d] \in {"eph", "hs", "open"} => want'[d] = 1
      BY <2>12, <3>1 DEF TeardownStep, ServerSame, TableSame, ClientSame, QueuesSame, client,
         server, fixed, past, TunnelTypes, Goto
    <3> QED BY <3>1, <3>2, <3>3, <3>4, <3>5, CertKept
  <2>13. CASE TellStep(c)
    <3> SUFFICES ASSUME NEW d \in Conn PROVE CertOf(d)'
      BY DEF CertInv
    <3>1. /\ CertOf(d) /\ (pc[d] # "new" => cert[d] = 1)
          /\ (pc[d] = "register" => fp[d] \in {0, 1}) /\ (d \in attached => fp[d] = 1)
          /\ (cl[d] \in {"eph", "hs", "open"} => want[d] = 1)
      BY DEF CertInv, CertOf
    <3>2. VouchesFirst(d)
      <4>1. PICK m : m = [t |-> "gone"]
        OBVIOUS
      <4>2. down'[d] = down[d] \/ Pushed(down[d], down'[d], m)
        BY <2>13, <4>1 DEF TellStep, PushDown
      <4>3. m.t # "vouch"
        BY <4>1
      <4> QED BY <4>2, <4>3 DEF VouchesFirst
    <3>3. pc'[d] # "new" => cert'[d] = 1
      BY <2>13, <3>1 DEF TellStep, ServerSame, TableSame, ClientSame, QueuesSame, client,
         server, fixed, past, TunnelTypes, Goto
    <3>4. (pc'[d] = "register" => fp'[d] \in {0, 1}) /\ (d \in attached' => fp'[d] = 1)
      BY <2>13, <3>1 DEF TellStep, ServerSame, TableSame, ClientSame, QueuesSame, client,
         server, fixed, past, TunnelTypes, Goto
    <3>5. cl'[d] \in {"eph", "hs", "open"} => want'[d] = 1
      BY <2>13, <3>1 DEF TellStep, ServerSame, TableSame, ClientSame, QueuesSame, client,
         server, fixed, past, TunnelTypes, Goto
    <3> QED BY <3>1, <3>2, <3>3, <3>4, <3>5, CertKept
  <2>14. CASE PumpStep(c)
    <3> SUFFICES ASSUME NEW d \in Conn PROVE CertOf(d)'
      BY DEF CertInv
    <3>1. /\ CertOf(d) /\ (pc[d] # "new" => cert[d] = 1)
          /\ (pc[d] = "register" => fp[d] \in {0, 1}) /\ (d \in attached => fp[d] = 1)
          /\ (cl[d] \in {"eph", "hs", "open"} => want[d] = 1)
      BY DEF CertInv, CertOf
    <3>2. VouchesFirst(d)
      BY <2>14 DEF PumpStep, VouchesFirst
    <3>3. pc'[d] # "new" => cert'[d] = 1
      BY <2>14, <3>1 DEF PumpStep, ServerSame, TableSame, ClientSame, QueuesSame, client,
         server, fixed, past, TunnelTypes, Goto
    <3>4. (pc'[d] = "register" => fp'[d] \in {0, 1}) /\ (d \in attached' => fp'[d] = 1)
      BY <2>14, <3>1 DEF PumpStep, ServerSame, TableSame, ClientSame, QueuesSame, client,
         server, fixed, past, TunnelTypes, Goto
    <3>5. cl'[d] \in {"eph", "hs", "open"} => want'[d] = 1
      BY <2>14, <3>1 DEF PumpStep, ServerSame, TableSame, ClientSame, QueuesSame, client,
         server, fixed, past, TunnelTypes, Goto
    <3> QED BY <3>1, <3>2, <3>3, <3>4, <3>5, CertKept
  <2>15. CASE SocketDrops(c)
    <3> SUFFICES ASSUME NEW d \in Conn PROVE CertOf(d)'
      BY DEF CertInv
    <3>1. /\ CertOf(d) /\ (pc[d] # "new" => cert[d] = 1)
          /\ (pc[d] = "register" => fp[d] \in {0, 1}) /\ (d \in attached => fp[d] = 1)
          /\ (cl[d] \in {"eph", "hs", "open"} => want[d] = 1)
      BY DEF CertInv, CertOf
    <3>2. VouchesFirst(d)
      BY <2>15 DEF VouchesFirst, SocketDrops, PopDown, ServerSame, TableSame, ClientSame,
         QueuesSame, client, server, fixed, past
    <3>3. pc'[d] # "new" => cert'[d] = 1
      BY <2>15, <3>1 DEF SocketDrops, ServerSame, TableSame, ClientSame, QueuesSame, client,
         server, fixed, past, TunnelTypes, Goto
    <3>4. (pc'[d] = "register" => fp'[d] \in {0, 1}) /\ (d \in attached' => fp'[d] = 1)
      BY <2>15, <3>1 DEF SocketDrops, ServerSame, TableSame, ClientSame, QueuesSame, client,
         server, fixed, past, TunnelTypes, Goto
    <3>5. cl'[d] \in {"eph", "hs", "open"} => want'[d] = 1
      BY <2>15, <3>1 DEF SocketDrops, ServerSame, TableSame, ClientSame, QueuesSame, client,
         server, fixed, past, TunnelTypes, Goto
    <3> QED BY <3>1, <3>2, <3>3, <3>4, <3>5, CertKept
  <2>16. CASE FailStep(c)
    <3> SUFFICES ASSUME NEW d \in Conn PROVE CertOf(d)'
      BY DEF CertInv
    <3>1. /\ CertOf(d) /\ (pc[d] # "new" => cert[d] = 1)
          /\ (pc[d] = "register" => fp[d] \in {0, 1}) /\ (d \in attached => fp[d] = 1)
          /\ (cl[d] \in {"eph", "hs", "open"} => want[d] = 1)
      BY DEF CertInv, CertOf
    <3>2. VouchesFirst(d)
      BY <2>16 DEF VouchesFirst, FailStep, PopDown, ServerSame, TableSame, ClientSame,
         QueuesSame, client, server, fixed, past
    <3>3. pc'[d] # "new" => cert'[d] = 1
      BY <2>16, <3>1 DEF FailStep, ServerSame, TableSame, ClientSame, QueuesSame, client,
         server, fixed, past, TunnelTypes, Goto
    <3>4. (pc'[d] = "register" => fp'[d] \in {0, 1}) /\ (d \in attached' => fp'[d] = 1)
      BY <2>16, <3>1 DEF FailStep, ServerSame, TableSame, ClientSame, QueuesSame, client,
         server, fixed, past, TunnelTypes, Goto
    <3>5. cl'[d] \in {"eph", "hs", "open"} => want'[d] = 1
      BY <2>16, <3>1 DEF FailStep, ServerSame, TableSame, ClientSame, QueuesSame, client,
         server, fixed, past, TunnelTypes, Goto
    <3> QED BY <3>1, <3>2, <3>3, <3>4, <3>5, CertKept
  <2>17. CASE TakeVouch(c)
    <3> SUFFICES ASSUME NEW d \in Conn PROVE CertOf(d)'
      BY DEF CertInv
    <3>1. /\ CertOf(d) /\ (pc[d] # "new" => cert[d] = 1)
          /\ (pc[d] = "register" => fp[d] \in {0, 1}) /\ (d \in attached => fp[d] = 1)
          /\ (cl[d] \in {"eph", "hs", "open"} => want[d] = 1)
      BY DEF CertInv, CertOf
    <3>6. down[c][1].fp = 1
      BY <2>17 DEF TakeVouch, PopDown, CertInv, CertOf
    <3>2. VouchesFirst(d)
      BY <2>17 DEF VouchesFirst, TakeVouch, PopDown, ServerSame, TableSame, ClientSame,
         QueuesSame, client, server, fixed, past
    <3>3. pc'[d] # "new" => cert'[d] = 1
      BY <2>17, <3>1 DEF TakeVouch, ServerSame, TableSame, ClientSame, QueuesSame, client,
         server, fixed, past, TunnelTypes, Goto
    <3>4. (pc'[d] = "register" => fp'[d] \in {0, 1}) /\ (d \in attached' => fp'[d] = 1)
      BY <2>17, <3>1 DEF TakeVouch, ServerSame, TableSame, ClientSame, QueuesSame, client,
         server, fixed, past, TunnelTypes, Goto
    <3>5. cl'[d] \in {"eph", "hs", "open"} => want'[d] = 1
      BY <2>17, <3>1, <3>6 DEF TakeVouch, ServerSame, TableSame, ClientSame, QueuesSame, client,
         server, fixed, past, TunnelTypes, Goto
    <3> QED BY <3>1, <3>2, <3>3, <3>4, <3>5, CertKept
  <2>18. CASE TakeKey(c)
    <3> SUFFICES ASSUME NEW d \in Conn PROVE CertOf(d)'
      BY DEF CertInv
    <3>1. /\ CertOf(d) /\ (pc[d] # "new" => cert[d] = 1)
          /\ (pc[d] = "register" => fp[d] \in {0, 1}) /\ (d \in attached => fp[d] = 1)
          /\ (cl[d] \in {"eph", "hs", "open"} => want[d] = 1)
      BY DEF CertInv, CertOf
    <3>2. VouchesFirst(d)
      BY <2>18 DEF VouchesFirst, TakeKey, PopDown, ServerSame, TableSame, ClientSame,
         QueuesSame, client, server, fixed, past
    <3>3. pc'[d] # "new" => cert'[d] = 1
      BY <2>18, <3>1 DEF TakeKey, ServerSame, TableSame, ClientSame, QueuesSame, client, server,
         fixed, past, TunnelTypes, Goto
    <3>4. (pc'[d] = "register" => fp'[d] \in {0, 1}) /\ (d \in attached' => fp'[d] = 1)
      BY <2>18, <3>1 DEF TakeKey, ServerSame, TableSame, ClientSame, QueuesSame, client, server,
         fixed, past, TunnelTypes, Goto
    <3>5. cl'[d] \in {"eph", "hs", "open"} => want'[d] = 1
      BY <2>18, <3>1 DEF TakeKey, ServerSame, TableSame, ClientSame, QueuesSame, client, server,
         fixed, past, TunnelTypes, Goto
    <3> QED BY <3>1, <3>2, <3>3, <3>4, <3>5, CertKept
  <2>19. CASE TakeHandshake(c)
    <3> SUFFICES ASSUME NEW d \in Conn PROVE CertOf(d)'
      BY DEF CertInv
    <3>1. /\ CertOf(d) /\ (pc[d] # "new" => cert[d] = 1)
          /\ (pc[d] = "register" => fp[d] \in {0, 1}) /\ (d \in attached => fp[d] = 1)
          /\ (cl[d] \in {"eph", "hs", "open"} => want[d] = 1)
      BY DEF CertInv, CertOf
    <3>2. VouchesFirst(d)
      BY <2>19 DEF VouchesFirst, TakeHandshake, PopDown, ServerSame, TableSame, ClientSame,
         QueuesSame, client, server, fixed, past
    <3>3. pc'[d] # "new" => cert'[d] = 1
      BY <2>19, <3>1 DEF TakeHandshake, ServerSame, TableSame, ClientSame, QueuesSame, client,
         server, fixed, past, TunnelTypes, Goto
    <3>4. (pc'[d] = "register" => fp'[d] \in {0, 1}) /\ (d \in attached' => fp'[d] = 1)
      BY <2>19, <3>1 DEF TakeHandshake, ServerSame, TableSame, ClientSame, QueuesSame, client,
         server, fixed, past, TunnelTypes, Goto
    <3>5. cl'[d] \in {"eph", "hs", "open"} => want'[d] = 1
      BY <2>19, <3>1 DEF TakeHandshake, ServerSame, TableSame, ClientSame, QueuesSame, client,
         server, fixed, past, TunnelTypes, Goto
    <3> QED BY <3>1, <3>2, <3>3, <3>4, <3>5, CertKept
  <2>20. CASE TakeData(c)
    <3> SUFFICES ASSUME NEW d \in Conn PROVE CertOf(d)'
      BY DEF CertInv
    <3>1. /\ CertOf(d) /\ (pc[d] # "new" => cert[d] = 1)
          /\ (pc[d] = "register" => fp[d] \in {0, 1}) /\ (d \in attached => fp[d] = 1)
          /\ (cl[d] \in {"eph", "hs", "open"} => want[d] = 1)
      BY DEF CertInv, CertOf
    <3>2. VouchesFirst(d)
      BY <2>20 DEF VouchesFirst, TakeData, PopDown, ServerSame, TableSame, ClientSame,
         QueuesSame, client, server, fixed, past
    <3>3. pc'[d] # "new" => cert'[d] = 1
      BY <2>20, <3>1 DEF TakeData, ServerSame, TableSame, ClientSame, QueuesSame, client,
         server, fixed, past, TunnelTypes, Goto
    <3>4. (pc'[d] = "register" => fp'[d] \in {0, 1}) /\ (d \in attached' => fp'[d] = 1)
      BY <2>20, <3>1 DEF TakeData, ServerSame, TableSame, ClientSame, QueuesSame, client,
         server, fixed, past, TunnelTypes, Goto
    <3>5. cl'[d] \in {"eph", "hs", "open"} => want'[d] = 1
      BY <2>20, <3>1 DEF TakeData, ServerSame, TableSame, ClientSame, QueuesSame, client,
         server, fixed, past, TunnelTypes, Goto
    <3> QED BY <3>1, <3>2, <3>3, <3>4, <3>5, CertKept
  <2>21. CASE SkipVouch(c)
    <3> SUFFICES ASSUME NEW d \in Conn PROVE CertOf(d)'
      BY DEF CertInv
    <3>1. /\ CertOf(d) /\ (pc[d] # "new" => cert[d] = 1)
          /\ (pc[d] = "register" => fp[d] \in {0, 1}) /\ (d \in attached => fp[d] = 1)
          /\ (cl[d] \in {"eph", "hs", "open"} => want[d] = 1)
      BY DEF CertInv, CertOf
    <3>2. VouchesFirst(d)
      BY <2>21 DEF VouchesFirst, SkipVouch, PopDown, ServerSame, TableSame, ClientSame,
         QueuesSame, client, server, fixed, past
    <3>3. pc'[d] # "new" => cert'[d] = 1
      BY <2>21, <3>1 DEF SkipVouch, ServerSame, TableSame, ClientSame, QueuesSame, client,
         server, fixed, past, TunnelTypes, Goto
    <3>4. (pc'[d] = "register" => fp'[d] \in {0, 1}) /\ (d \in attached' => fp'[d] = 1)
      BY <2>21, <3>1 DEF SkipVouch, ServerSame, TableSame, ClientSame, QueuesSame, client,
         server, fixed, past, TunnelTypes, Goto
    <3>5. cl'[d] \in {"eph", "hs", "open"} => want'[d] = 1
      BY <2>21, <3>1 DEF SkipVouch, ServerSame, TableSame, ClientSame, QueuesSame, client,
         server, fixed, past, TunnelTypes, Goto
    <3> QED BY <3>1, <3>2, <3>3, <3>4, <3>5, CertKept
  <2>22. CASE DataStep(c)
    <3> SUFFICES ASSUME NEW d \in Conn PROVE CertOf(d)'
      BY DEF CertInv
    <3>1. /\ CertOf(d) /\ (pc[d] # "new" => cert[d] = 1)
          /\ (pc[d] = "register" => fp[d] \in {0, 1}) /\ (d \in attached => fp[d] = 1)
          /\ (cl[d] \in {"eph", "hs", "open"} => want[d] = 1)
      BY DEF CertInv, CertOf
    <3>2. VouchesFirst(d)
      BY <2>22 DEF VouchesFirst, DataStep, PopDown, ServerSame, TableSame, ClientSame,
         QueuesSame, client, server, fixed, past
    <3>3. pc'[d] # "new" => cert'[d] = 1
      BY <2>22, <3>1 DEF DataStep, ServerSame, TableSame, ClientSame, QueuesSame, client,
         server, fixed, past, TunnelTypes, Goto
    <3>4. (pc'[d] = "register" => fp'[d] \in {0, 1}) /\ (d \in attached' => fp'[d] = 1)
      BY <2>22, <3>1 DEF DataStep, ServerSame, TableSame, ClientSame, QueuesSame, client,
         server, fixed, past, TunnelTypes, Goto
    <3>5. cl'[d] \in {"eph", "hs", "open"} => want'[d] = 1
      BY <2>22, <3>1 DEF DataStep, ServerSame, TableSame, ClientSame, QueuesSame, client,
         server, fixed, past, TunnelTypes, Goto
    <3> QED BY <3>1, <3>2, <3>3, <3>4, <3>5, CertKept
  <2>23. CASE CloseStep(c)
    <3> SUFFICES ASSUME NEW d \in Conn PROVE CertOf(d)'
      BY DEF CertInv
    <3>1. /\ CertOf(d) /\ (pc[d] # "new" => cert[d] = 1)
          /\ (pc[d] = "register" => fp[d] \in {0, 1}) /\ (d \in attached => fp[d] = 1)
          /\ (cl[d] \in {"eph", "hs", "open"} => want[d] = 1)
      BY DEF CertInv, CertOf
    <3>2. VouchesFirst(d)
      BY <2>23 DEF VouchesFirst, CloseStep, PopDown, ServerSame, TableSame, ClientSame,
         QueuesSame, client, server, fixed, past
    <3>3. pc'[d] # "new" => cert'[d] = 1
      BY <2>23, <3>1 DEF CloseStep, ServerSame, TableSame, ClientSame, QueuesSame, client,
         server, fixed, past, TunnelTypes, Goto
    <3>4. (pc'[d] = "register" => fp'[d] \in {0, 1}) /\ (d \in attached' => fp'[d] = 1)
      BY <2>23, <3>1 DEF CloseStep, ServerSame, TableSame, ClientSame, QueuesSame, client,
         server, fixed, past, TunnelTypes, Goto
    <3>5. cl'[d] \in {"eph", "hs", "open"} => want'[d] = 1
      BY <2>23, <3>1 DEF CloseStep, ServerSame, TableSame, ClientSame, QueuesSame, client,
         server, fixed, past, TunnelTypes, Goto
    <3> QED BY <3>1, <3>2, <3>3, <3>4, <3>5, CertKept
  <2> QED BY <1>4, <2>1, <2>2, <2>3, <2>4, <2>5, <2>6, <2>7, <2>8, <2>9, <2>10, <2>11, <2>12,
     <2>13, <2>14, <2>15, <2>16, <2>17, <2>18, <2>19, <2>20, <2>21, <2>22, <2>23 DEF TunnelStep
<1> QED BY <1>1, <1>2, <1>3, <1>4, StepCases

-----------------------------------------------------------------------------
(* The tunnel: the two vouches come first *)

Gones(q) == \A i \in 1..Len(q) : q[i].t = "gone"

\* A queue of notices that holds none is empty.
LEMMA NoGones ==
    ASSUME NEW q, Len(q) \in Nat, Gones(q), ~Holds(q, "gone")
    PROVE  Len(q) = 0
<1>1. \A i \in 1..Len(q) : FALSE
  BY DEF Gones, Holds
<1> QED BY <1>1

\* A queue of closes is one with another close.
LEMMA ClosesPushed ==
    ASSUME NEW q, NEW r, NEW m, Pushed(q, r, m), OnlyCloses(q), m.t = "close"
    PROVE  OnlyCloses(r)
  BY DEF Pushed, OnlyCloses

\* A queue of closes is one when its first is taken.
LEMMA ClosesPopped ==
    ASSUME NEW q, NEW r, Popped(q, r), OnlyCloses(q)
    PROVE  OnlyCloses(r)
  BY DEF Popped, OnlyCloses

\* Where a handler that vouches goes.
LEMMA VouchesLeave ==
    ASSUME TunnelTypes, HubInv, ClientInv, Next, NEW d \in attached
    PROVE  /\ pc'[d] \in Vouches => pc[d] \in Vouches /\ peer'[d] = peer[d]
           /\ pc'[d] = "vouch_me" => pc[d] = "vouch_me"
           /\ pc[d] \in Vouches /\ pc'[d] \notin Vouches => VouchPeerStep(d)
           /\ pc[d] = "vouch_me" /\ pc'[d] = "vouch_peer" => VouchMeStep(d)
<1> DEFINE G == /\ pc'[d] \in Vouches => pc[d] \in Vouches /\ peer'[d] = peer[d]
                /\ pc'[d] = "vouch_me" => pc[d] = "vouch_me"
                /\ pc[d] \in Vouches /\ pc'[d] \notin Vouches => VouchPeerStep(d)
                /\ pc[d] = "vouch_me" /\ pc'[d] = "vouch_peer" => VouchMeStep(d)
<1>0. d \in Conn /\ pc[d] \notin Early
  BY DEF TunnelTypes, HubInv
<1>1. CASE Offer \/ Sweep \/ \E x \in Side : Rotate(x)
  BY <1>1 DEF Offer, Sweep, Rotate, server
<1>2. ASSUME NEW c \in Conn, TunnelStep(c) PROVE G
  <2>1. CASE Connect(c)
    BY <1>0, <2>1 DEF Connect, ServerSame, TableSame, ClientSame, QueuesSame, client, server,
       fixed, past, TunnelTypes, Vouches, Early, Goto
  <2>2. CASE LookupFingerprint(c)
    BY <1>0, <2>2 DEF LookupFingerprint, ServerSame, TableSame, ClientSame, QueuesSame, client,
       server, fixed, past, TunnelTypes, Vouches, Early, Goto
  <2>3. CASE RegisterStep(c)
    BY <1>0, <2>3 DEF RegisterStep, ServerSame, TableSame, ClientSame, QueuesSame, client,
       server, fixed, past, TunnelTypes, Vouches, Early, Goto
  <2>4. CASE TooLateStep(c)
    BY <1>0, <2>4 DEF TooLateStep, ServerSame, TableSame, ClientSame, QueuesSame, client,
       server, fixed, past, TunnelTypes, Vouches, Early, Goto
  <2>5. CASE VouchMeStep(c)
    BY <1>0, <2>5 DEF VouchMeStep, ServerSame, TableSame, ClientSame, QueuesSame, client,
       server, fixed, past, TunnelTypes, Vouches, Early, Goto
  <2>6. CASE VouchPeerStep(c)
    BY <1>0, <2>6 DEF VouchPeerStep, ServerSame, TableSame, ClientSame, QueuesSame, client,
       server, fixed, past, TunnelTypes, Vouches, Early, Goto
  <2>7. CASE DropStep(c)
    BY <1>0, <2>7 DEF DropStep, ServerSame, TableSame, ClientSame, QueuesSame, client, server,
       fixed, past, TunnelTypes, Vouches, Early, Goto
  <2>8. CASE FindStep(c)
    BY <1>0, <2>8 DEF FindStep, ServerSame, TableSame, ClientSame, QueuesSame, client, server,
       fixed, past, TunnelTypes, Vouches, Early, Goto
  <2>9. CASE ForwardStep(c)
    BY <1>0, <2>9 DEF ForwardStep, ServerSame, TableSame, ClientSame, QueuesSame, client,
       server, fixed, past, TunnelTypes, Vouches, Early, Goto
  <2>10. CASE ForwardFails(c)
    BY <1>0, <2>10 DEF ForwardFails, ServerSame, TableSame, ClientSame, QueuesSame, client,
       server, fixed, past, TunnelTypes, Vouches, Early, Goto
  <2>11. CASE SeeCloseStep(c)
    BY <1>0, <2>11 DEF SeeCloseStep, ServerSame, TableSame, ClientSame, QueuesSame, client,
       server, fixed, past, TunnelTypes, Vouches, Early, Goto
  <2>12. CASE TeardownStep(c)
    BY <1>0, <2>12 DEF TeardownStep, ServerSame, TableSame, ClientSame, QueuesSame, client,
       server, fixed, past, TunnelTypes, Vouches, Early, Goto
  <2>13. CASE TellStep(c)
    BY <1>0, <2>13 DEF TellStep, ServerSame, TableSame, ClientSame, QueuesSame, client, server,
       fixed, past, TunnelTypes, Vouches, Early, Goto
  <2>14. CASE PumpStep(c)
    BY <1>0, <2>14 DEF PumpStep, ServerSame, TableSame, ClientSame, QueuesSame, client, server,
       fixed, past, TunnelTypes, Vouches, Early, Goto
  <2>15. CASE SocketDrops(c)
    BY <1>0, <2>15 DEF SocketDrops, ServerSame, TableSame, ClientSame, QueuesSame, client,
       server, fixed, past, TunnelTypes, Vouches, Early, Goto
  <2>16. CASE FailStep(c)
    BY <1>0, <2>16 DEF FailStep, ServerSame, TableSame, ClientSame, QueuesSame, client, server,
       fixed, past, TunnelTypes, Vouches, Early, Goto
  <2>17. CASE TakeVouch(c)
    BY <1>0, <2>17 DEF TakeVouch, ServerSame, TableSame, ClientSame, QueuesSame, client, server,
       fixed, past, TunnelTypes, Vouches, Early, Goto
  <2>18. CASE TakeKey(c)
    BY <1>0, <2>18 DEF TakeKey, ServerSame, TableSame, ClientSame, QueuesSame, client, server,
       fixed, past, TunnelTypes, Vouches, Early, Goto
  <2>19. CASE TakeHandshake(c)
    BY <1>0, <2>19 DEF TakeHandshake, ServerSame, TableSame, ClientSame, QueuesSame, client,
       server, fixed, past, TunnelTypes, Vouches, Early, Goto
  <2>20. CASE TakeData(c)
    BY <1>0, <2>20 DEF TakeData, ServerSame, TableSame, ClientSame, QueuesSame, client, server,
       fixed, past, TunnelTypes, Vouches, Early, Goto
  <2>21. CASE SkipVouch(c)
    BY <1>0, <2>21 DEF SkipVouch, ServerSame, TableSame, ClientSame, QueuesSame, client, server,
       fixed, past, TunnelTypes, Vouches, Early, Goto
  <2>22. CASE DataStep(c)
    BY <1>0, <2>22 DEF DataStep, ServerSame, TableSame, ClientSame, QueuesSame, client, server,
       fixed, past, TunnelTypes, Vouches, Early, Goto
  <2>23. CASE CloseStep(c)
    BY <1>0, <2>23 DEF CloseStep, ServerSame, TableSame, ClientSame, QueuesSame, client, server,
       fixed, past, TunnelTypes, Vouches, Early, Goto
  <2> QED BY <1>2, <2>1, <2>2, <2>3, <2>4, <2>5, <2>6, <2>7, <2>8, <2>9, <2>10, <2>11, <2>12,
     <2>13, <2>14, <2>15, <2>16, <2>17, <2>18, <2>19, <2>20, <2>21, <2>22, <2>23 DEF TunnelStep
<1> QED BY <1>1, <1>2, StepCases

\* A client that has been told of its peer stays told.
LEMMA ToldStable ==
    ASSUME TunnelTypes, HubInv, AloneInv, ClientInv, FrameInv, Next,
           NEW d \in attached, Told(d)
    PROVE  Told(d)'
<1>0. d \in Conn /\ pc[d] \notin Early
  BY DEF TunnelTypes, HubInv
<1>1. CASE Offer
  BY <1>1 DEF Offer, Told, client, server, fixed, past
<1>2. CASE Sweep
  BY <1>2 DEF Sweep, Told, client, server, fixed, past
<1>3. ASSUME NEW x \in Side, Rotate(x) PROVE Told(d)'
  BY <1>3 DEF Rotate, Told, client, server, fixed, past
<1>4. ASSUME NEW c \in Conn, TunnelStep(c) PROVE Told(d)'
  <2>1. CASE Connect(c)
    <3>1. c # d
      BY <1>0, <2>1 DEF Connect, Early
    <3>2. cl'[d] = cl[d]
      <4>1. CASE hub # NoTunnel
        BY <2>1, <4>1, <3>1 DEF Connect, TunnelTypes
      <4>2. CASE hub = NoTunnel
        BY <2>1, <4>2, <3>1 DEF Connect, TunnelTypes
      <4> QED BY <4>1, <4>2
    <3> QED BY <2>1, <3>2 DEF Told, Connect
  <2>2. CASE LookupFingerprint(c)
    BY <1>0, <2>2 DEF Told, LookupFingerprint, ServerSame, TableSame, ClientSame, QueuesSame,
       client, server, fixed, past
  <2>3. CASE RegisterStep(c)
    BY <1>0, <2>3 DEF Told, RegisterStep, ServerSame, TableSame, ClientSame, QueuesSame, client,
       server, fixed, past
  <2>4. CASE TooLateStep(c)
    BY <1>0, <2>4 DEF Told, TooLateStep, ServerSame, TableSame, ClientSame, QueuesSame, client,
       server, fixed, past
  <2>5. CASE VouchMeStep(c)
    <3>1. PICK m : m = VouchOf(peer[c])
      OBVIOUS
    <3>2. cl' = cl /\ rx' = rx
      BY <2>5 DEF VouchMeStep, ServerSame, TableSame, ClientSame, QueuesSame, client, server,
         fixed, past
    <3>3. d # c => down'[d] = down[d]
      BY <2>5, <1>0 DEF VouchMeStep, PushDown
    <3>4. d = c /\ rx[d] => Pushed(down[d], down'[d], m)
      BY <2>5, <3>1 DEF VouchMeStep, PushDown
    <3> QED BY <3>2, <3>3, <3>4 DEF Told, Pushed
  <2>6. CASE VouchPeerStep(c)
    <3>1. PICK m : m = VouchOf(c)
      OBVIOUS
    <3>2. cl' = cl /\ rx' = rx
      BY <2>6 DEF VouchPeerStep, ServerSame, TableSame, ClientSame, QueuesSame, client, server,
         fixed, past
    <3>3. d # peer[c] => down'[d] = down[d]
      BY <2>6, <1>0 DEF VouchPeerStep, PushDown
    <3>4. d = peer[c] /\ rx[d] => Pushed(down[d], down'[d], m)
      BY <2>6, <3>1 DEF VouchPeerStep, PushDown
    <3> QED BY <3>2, <3>3, <3>4 DEF Told, Pushed
  <2>7. CASE DropStep(c)
    BY <1>0, <2>7 DEF Told, DropStep, ServerSame, TableSame, ClientSame, QueuesSame, client,
       server, fixed, past
  <2>8. CASE FindStep(c)
    BY <1>0, <2>8 DEF Told, FindStep, ServerSame, TableSame, ClientSame, QueuesSame, client,
       server, fixed, past
  <2>9. CASE ForwardStep(c)
    <3>1. PICK m : m = up[c][1]
      OBVIOUS
    <3>2. cl' = cl /\ rx' = rx
      BY <2>9 DEF ForwardStep, ServerSame, TableSame, ClientSame, QueuesSame, client, server,
         fixed, past
    <3>3. d # peer[c] => down'[d] = down[d]
      BY <2>9, <1>0 DEF ForwardStep, PushDown
    <3>4. d = peer[c] /\ rx[d] => Pushed(down[d], down'[d], m)
      BY <2>9, <3>1 DEF ForwardStep, PushDown
    <3> QED BY <3>2, <3>3, <3>4 DEF Told, Pushed
  <2>10. CASE ForwardFails(c)
    BY <1>0, <2>10 DEF Told, ForwardFails, ServerSame, TableSame, ClientSame, QueuesSame,
       client, server, fixed, past
  <2>11. CASE SeeCloseStep(c)
    BY <1>0, <2>11 DEF Told, SeeCloseStep, ServerSame, TableSame, ClientSame, QueuesSame,
       client, server, fixed, past
  <2>12. CASE TeardownStep(c)
    BY <1>0, <2>12 DEF Told, TeardownStep, ServerSame, TableSame, ClientSame, QueuesSame,
       client, server, fixed, past
  <2>13. CASE TellStep(c)
    <3>1. PICK m : m = [t |-> "gone"]
      OBVIOUS
    <3>2. cl' = cl /\ rx' = rx
      BY <2>13 DEF TellStep, ServerSame, TableSame, ClientSame, QueuesSame, client, server,
         fixed, past
    <3>3. down'[d] = down[d] \/ Pushed(down[d], down'[d], m)
      BY <2>13, <3>1, <1>0 DEF TellStep, PushDown
    <3> QED BY <3>2, <3>3 DEF Told, Pushed
  <2>14. CASE PumpStep(c)
    <3>1. CASE d = c
      BY <2>14, <3>1 DEF PumpStep, Told, TunnelTypes
    <3>2. CASE d # c
      BY <2>14, <3>2, <1>0 DEF PumpStep, Told, TunnelTypes
    <3> QED BY <3>1, <3>2
  <2>15. CASE SocketDrops(c)
    <3>1. rx' = rx /\ down' = down /\ cl' = [cl EXCEPT ![c] = "closed"]
      BY <2>15 DEF SocketDrops, ServerSame, TableSame, ClientSame, QueuesSame, client, server,
         fixed, past
    <3> QED BY <3>1, <1>0 DEF Told, TunnelTypes
  <2>16. CASE FailStep(c)
    <3>1. /\ rx' = rx /\ cl'[c] # "vouch" /\ \A q \in Conn : q # c => cl'[q] = cl[q]
          /\ \A q \in Conn : q # c => down'[q] = down[q]
      BY <2>16 DEF FailStep, PopDown, TunnelTypes, ServerSame, TableSame, ClientSame,
         QueuesSame, client, server, fixed, past
    <3>2. CASE d = c
      BY <3>1, <3>2 DEF Told
    <3>3. CASE d # c
      BY <3>1, <3>3, <1>0 DEF Told
    <3> QED BY <3>2, <3>3
  <2>17. CASE TakeVouch(c)
    <3>1. /\ rx' = rx /\ cl'[c] # "vouch" /\ \A q \in Conn : q # c => cl'[q] = cl[q]
          /\ \A q \in Conn : q # c => down'[q] = down[q]
      BY <2>17 DEF TakeVouch, PopDown, TunnelTypes, ServerSame, TableSame, ClientSame,
         QueuesSame, client, server, fixed, past
    <3>2. CASE d = c
      BY <3>1, <3>2 DEF Told
    <3>3. CASE d # c
      BY <3>1, <3>3, <1>0 DEF Told
    <3> QED BY <3>2, <3>3
  <2>18. CASE TakeKey(c)
    <3>1. /\ rx' = rx /\ cl'[c] # "vouch" /\ \A q \in Conn : q # c => cl'[q] = cl[q]
          /\ \A q \in Conn : q # c => down'[q] = down[q]
      BY <2>18 DEF TakeKey, PopDown, TunnelTypes, ServerSame, TableSame, ClientSame, QueuesSame,
         client, server, fixed, past
    <3>2. CASE d = c
      BY <3>1, <3>2 DEF Told
    <3>3. CASE d # c
      BY <3>1, <3>3, <1>0 DEF Told
    <3> QED BY <3>2, <3>3
  <2>19. CASE TakeHandshake(c)
    <3>1. /\ rx' = rx /\ cl'[c] # "vouch" /\ \A q \in Conn : q # c => cl'[q] = cl[q]
          /\ \A q \in Conn : q # c => down'[q] = down[q]
      BY <2>19 DEF TakeHandshake, PopDown, TunnelTypes, ServerSame, TableSame, ClientSame,
         QueuesSame, client, server, fixed, past
    <3>2. CASE d = c
      BY <3>1, <3>2 DEF Told
    <3>3. CASE d # c
      BY <3>1, <3>3, <1>0 DEF Told
    <3> QED BY <3>2, <3>3
  <2>20. CASE TakeData(c)
    <3>1. /\ rx' = rx /\ cl'[c] # "vouch" /\ \A q \in Conn : q # c => cl'[q] = cl[q]
          /\ \A q \in Conn : q # c => down'[q] = down[q]
      BY <2>20 DEF TakeData, PopDown, TunnelTypes, ServerSame, TableSame, ClientSame,
         QueuesSame, client, server, fixed, past
    <3>2. CASE d = c
      BY <3>1, <3>2 DEF Told
    <3>3. CASE d # c
      BY <3>1, <3>3, <1>0 DEF Told
    <3> QED BY <3>2, <3>3
  <2>21. CASE SkipVouch(c)
    <3>1. /\ rx' = rx /\ cl'[c] # "vouch" /\ \A q \in Conn : q # c => cl'[q] = cl[q]
          /\ \A q \in Conn : q # c => down'[q] = down[q]
      BY <2>21 DEF SkipVouch, PopDown, TunnelTypes, ServerSame, TableSame, ClientSame,
         QueuesSame, client, server, fixed, past
    <3>2. CASE d = c
      BY <3>1, <3>2 DEF Told
    <3>3. CASE d # c
      BY <3>1, <3>3, <1>0 DEF Told
    <3> QED BY <3>2, <3>3
  <2>22. CASE DataStep(c)
    BY <1>0, <2>22 DEF Told, DataStep, ServerSame, TableSame, ClientSame, QueuesSame, client,
       server, fixed, past
  <2>23. CASE CloseStep(c)
    <3>1. rx' = rx /\ down' = down /\ cl' = [cl EXCEPT ![c] = "closed"]
      BY <2>23 DEF CloseStep, ServerSame, TableSame, ClientSame, QueuesSame, client, server,
         fixed, past
    <3> QED BY <3>1, <1>0 DEF Told, TunnelTypes
  <2> QED BY <1>4, <2>1, <2>2, <2>3, <2>4, <2>5, <2>6, <2>7, <2>8, <2>9, <2>10, <2>11, <2>12,
     <2>13, <2>14, <2>15, <2>16, <2>17, <2>18, <2>19, <2>20, <2>21, <2>22, <2>23 DEF TunnelStep
<1> QED BY <1>1, <1>2, <1>3, <1>4, StepCases

\* A client that has heard of nothing but the end of its peer says nothing.
LEMMA SilentStable ==
    ASSUME TunnelTypes, HubInv, AloneInv, ClientInv, FrameInv, Next,
           NEW d \in attached, Silent(d), Gones(down[d])
    PROVE  Silent(d)'
<1>0. d \in Conn /\ pc[d] \notin Early
  BY DEF TunnelTypes, HubInv
<1>1. CASE Offer
  BY <1>1 DEF Offer, Silent, OnlyCloses, client, server, fixed, past
<1>2. CASE Sweep
  BY <1>2 DEF Sweep, Silent, OnlyCloses, client, server, fixed, past
<1>3. ASSUME NEW x \in Side, Rotate(x) PROVE Silent(d)'
  BY <1>3 DEF Rotate, Silent, OnlyCloses, client, server, fixed, past
<1>4. ASSUME NEW c \in Conn, TunnelStep(c) PROVE Silent(d)'
  <2>1. CASE Connect(c)
    <3>1. c # d
      BY <1>0, <2>1 DEF Connect, Early
    <3>2. cl'[d] = cl[d]
      <4>1. CASE hub # NoTunnel
        BY <2>1, <4>1, <3>1 DEF Connect, TunnelTypes
      <4>2. CASE hub = NoTunnel
        BY <2>1, <4>2, <3>1 DEF Connect, TunnelTypes
      <4> QED BY <4>1, <4>2
    <3> QED BY <2>1, <3>2 DEF Silent, OnlyCloses, Connect
  <2>2. CASE LookupFingerprint(c)
    BY <1>0, <2>2 DEF Silent, OnlyCloses, LookupFingerprint, ServerSame, TableSame, ClientSame,
       QueuesSame, client, server, fixed, past
  <2>3. CASE RegisterStep(c)
    BY <1>0, <2>3 DEF Silent, OnlyCloses, RegisterStep, ServerSame, TableSame, ClientSame,
       QueuesSame, client, server, fixed, past
  <2>4. CASE TooLateStep(c)
    BY <1>0, <2>4 DEF Silent, OnlyCloses, TooLateStep, ServerSame, TableSame, ClientSame,
       QueuesSame, client, server, fixed, past
  <2>5. CASE VouchMeStep(c)
    BY <1>0, <2>5 DEF Silent, OnlyCloses, VouchMeStep, ServerSame, TableSame, ClientSame,
       QueuesSame, client, server, fixed, past
  <2>6. CASE VouchPeerStep(c)
    BY <1>0, <2>6 DEF Silent, OnlyCloses, VouchPeerStep, ServerSame, TableSame, ClientSame,
       QueuesSame, client, server, fixed, past
  <2>7. CASE DropStep(c)
    <3>1. cl' = cl /\ (d # c => up'[d] = up[d]) /\ Popped(up[c], up'[c])
      BY <2>7, <1>0 DEF DropStep, PopUp, ServerSame, TableSame, ClientSame, QueuesSame, client,
         server, fixed, past
    <3>2. OnlyCloses(up'[d])
      BY <3>1, ClosesPopped DEF Silent
    <3> QED BY <3>1, <3>2 DEF Silent
  <2>8. CASE FindStep(c)
    BY <1>0, <2>8 DEF Silent, OnlyCloses, FindStep, ServerSame, TableSame, ClientSame,
       QueuesSame, client, server, fixed, past
  <2>9. CASE ForwardStep(c)
    <3>1. cl' = cl /\ (d # c => up'[d] = up[d]) /\ Popped(up[c], up'[c])
      BY <2>9, <1>0 DEF ForwardStep, PopUp, ServerSame, TableSame, ClientSame, QueuesSame,
         client, server, fixed, past
    <3>2. OnlyCloses(up'[d])
      BY <3>1, ClosesPopped DEF Silent
    <3> QED BY <3>1, <3>2 DEF Silent
  <2>10. CASE ForwardFails(c)
    <3>1. cl' = cl /\ (d # c => up'[d] = up[d]) /\ Popped(up[c], up'[c])
      BY <2>10, <1>0 DEF ForwardFails, PopUp, ServerSame, TableSame, ClientSame, QueuesSame,
         client, server, fixed, past
    <3>2. OnlyCloses(up'[d])
      BY <3>1, ClosesPopped DEF Silent
    <3> QED BY <3>1, <3>2 DEF Silent
  <2>11. CASE SeeCloseStep(c)
    <3>1. cl' = cl /\ (d # c => up'[d] = up[d]) /\ up'[c] = <<>>
      BY <2>11, <1>0 DEF SeeCloseStep, ServerSame, TableSame, ClientSame, QueuesSame, client,
         server, fixed, past
    <3> QED BY <3>1 DEF Silent, OnlyCloses
  <2>12. CASE TeardownStep(c)
    BY <1>0, <2>12 DEF Silent, OnlyCloses, TeardownStep, ServerSame, TableSame, ClientSame,
       QueuesSame, client, server, fixed, past
  <2>13. CASE TellStep(c)
    BY <1>0, <2>13 DEF Silent, OnlyCloses, TellStep, ServerSame, TableSame, ClientSame,
       QueuesSame, client, server, fixed, past
  <2>14. CASE PumpStep(c)
    <3>1. PICK m : m = [t |-> "close"]
      OBVIOUS
    <3>2. /\ up'[d] = up[d] \/ Pushed(up[d], up'[d], m)
          /\ cl'[d] = cl[d] \/ cl'[d] = "closed" \/ cl'[d] = "failed"
      BY <2>14, <1>0, <3>1 DEF PumpStep, PushUp, TunnelTypes
    <3> QED BY <3>1, <3>2, ClosesPushed DEF Silent
  <2>15. CASE SocketDrops(c)
    <3>1. up' = up /\ (cl'[d] = cl[d] \/ cl'[d] = "closed")
      BY <2>15, <1>0 DEF SocketDrops, TunnelTypes
    <3> QED BY <3>1 DEF Silent, OnlyCloses
  <2>16. CASE FailStep(c)
    <3>1. PICK m : m = [t |-> "close"]
      OBVIOUS
    <3>2. /\ up'[d] = up[d] \/ Pushed(up[d], up'[d], m)
          /\ cl'[d] = cl[d] \/ cl'[d] = "closed" \/ cl'[d] = "failed"
      BY <2>16, <1>0, <3>1 DEF FailStep, PushUp, TunnelTypes
    <3> QED BY <3>1, <3>2, ClosesPushed DEF Silent
  <2>17. CASE TakeVouch(c)
    <3>1. c # d
      BY <2>17 DEF TakeVouch, PopDown, Gones
    <3>2. up'[d] = up[d] /\ cl'[d] = cl[d]
      BY <2>17, <3>1, <1>0 DEF TakeVouch, PushUp, TunnelTypes
    <3> QED BY <3>2 DEF Silent, OnlyCloses
  <2>18. CASE TakeKey(c)
    <3>1. c # d
      BY <2>18 DEF TakeKey, PopDown, Gones
    <3>2. up'[d] = up[d] /\ cl'[d] = cl[d]
      BY <2>18, <3>1, <1>0 DEF TakeKey, PushUp, TunnelTypes
    <3> QED BY <3>2 DEF Silent, OnlyCloses
  <2>19. CASE TakeHandshake(c)
    <3>1. c # d
      BY <2>19 DEF TakeHandshake, PopDown, Gones
    <3>2. up'[d] = up[d] /\ cl'[d] = cl[d]
      BY <2>19, <3>1, <1>0 DEF TakeHandshake, TunnelTypes
    <3> QED BY <3>2 DEF Silent, OnlyCloses
  <2>20. CASE TakeData(c)
    BY <1>0, <2>20 DEF Silent, OnlyCloses, TakeData, ServerSame, TableSame, ClientSame,
       QueuesSame, client, server, fixed, past
  <2>21. CASE SkipVouch(c)
    BY <1>0, <2>21 DEF Silent, OnlyCloses, SkipVouch, ServerSame, TableSame, ClientSame,
       QueuesSame, client, server, fixed, past
  <2>22. CASE DataStep(c)
    <3>1. c # d
      BY <2>22 DEF DataStep, Silent
    <3>2. up'[d] = up[d] /\ cl'[d] = cl[d]
      BY <2>22, <3>1, <1>0 DEF DataStep, PushUp
    <3> QED BY <3>2 DEF Silent, OnlyCloses
  <2>23. CASE CloseStep(c)
    <3>1. PICK m : m = [t |-> "close"]
      OBVIOUS
    <3>2. /\ up'[d] = up[d] \/ Pushed(up[d], up'[d], m)
          /\ cl'[d] = cl[d] \/ cl'[d] = "closed" \/ cl'[d] = "failed"
      BY <2>23, <1>0, <3>1 DEF CloseStep, PushUp, TunnelTypes
    <3> QED BY <3>1, <3>2, ClosesPushed DEF Silent
  <2> QED BY <1>4, <2>1, <2>2, <2>3, <2>4, <2>5, <2>6, <2>7, <2>8, <2>9, <2>10, <2>11, <2>12,
     <2>13, <2>14, <2>15, <2>16, <2>17, <2>18, <2>19, <2>20, <2>21, <2>22, <2>23 DEF TunnelStep
<1> QED BY <1>1, <1>2, <1>3, <1>4, StepCases

\* While one handler vouches for both nothing reaches its peer, nor, before its own
\* vouch, anything but the end of the peer itself.
LEMMA VouchingQueues ==
    ASSUME TunnelTypes, HubInv, AloneInv, ClientInv, FrameInv, Undisturbed, VouchInv, Next,
           NEW p \in attached, NEW d \in attached, side[p] # side[d],
           pc[d] \in Vouches, pc'[d] \in Vouches
    PROVE  Len(down'[p]) = 0 /\ (pc'[d] = "vouch_me" => Gones(down'[d]))
<1>0. /\ p \in Conn /\ d \in Conn /\ p # d /\ \A q \in attached : q = p \/ q = d
      /\ pc[d] \in Vouches /\ pc'[d] \in Vouches /\ pc'[d] = "vouch_me" => pc[d] = "vouch_me"
      /\ pc[p] \notin Vouches /\ Silent(p) /\ Len(down[p]) = 0
      /\ pc[d] = "vouch_me" => Gones(down[d])
  <2>1. p \in Conn /\ d \in Conn /\ p # d /\ \A q \in attached : q = p \/ q = d
    BY PairOnly DEF TunnelTypes
  <2>2. pc'[d] = "vouch_me" => pc[d] = "vouch_me"
    BY VouchesLeave
  <2>3. Vouched(p, d)
    BY DEF VouchInv
  <2> QED BY <2>1, <2>2, <2>3 DEF Vouched, Gones
<1>1. CASE Offer
  BY <1>1, <1>0 DEF Offer, client, server, fixed, past
<1>2. CASE Sweep
  BY <1>2, <1>0 DEF Sweep, client, server, fixed, past
<1>3. ASSUME NEW x \in Side, Rotate(x) PROVE Len(down'[p]) = 0 /\ (pc'[d] = "vouch_me" => Gones(down'[d]))
  BY <1>3, <1>0 DEF Rotate, client, server, fixed, past
<1>4. ASSUME NEW c \in Conn, TunnelStep(c) PROVE Len(down'[p]) = 0 /\ (pc'[d] = "vouch_me" => Gones(down'[d]))
  <2>1. CASE Connect(c)
    BY <1>0, <2>1 DEF Connect, ServerSame, TableSame, ClientSame, QueuesSame, client, server,
       fixed, past
  <2>2. CASE LookupFingerprint(c)
    BY <1>0, <2>2 DEF LookupFingerprint, ServerSame, TableSame, ClientSame, QueuesSame, client,
       server, fixed, past
  <2>3. CASE RegisterStep(c)
    BY <1>0, <2>3 DEF RegisterStep, ServerSame, TableSame, ClientSame, QueuesSame, client,
       server, fixed, past
  <2>4. CASE TooLateStep(c)
    BY <1>0, <2>4 DEF TooLateStep, ServerSame, TableSame, ClientSame, QueuesSame, client,
       server, fixed, past
  <2>5. CASE VouchMeStep(c)
    <3>1. c \in attached /\ pc[c] = "vouch_me"
      BY <2>5 DEF VouchMeStep, HubInv
    <3>2. c = d
      BY <3>1, <1>0 DEF Vouches
    <3>3. pc'[d] = "vouch_peer" /\ down'[p] = down[p]
      BY <2>5, <3>2, <1>0 DEF VouchMeStep, PushDown, TunnelTypes
    <3> QED BY <3>3, <1>0
  <2>6. CASE VouchPeerStep(c)
    <3>1. c \in attached /\ pc[c] = "vouch_peer"
      BY <2>6 DEF VouchPeerStep, HubInv
    <3>2. c = d
      BY <3>1, <1>0 DEF Vouches
    <3>3. pc'[d] = "run"
      BY <2>6, <3>2, <1>0 DEF VouchPeerStep, TunnelTypes
    <3> QED BY <3>3 DEF Vouches
  <2>7. CASE DropStep(c)
    BY <1>0, <2>7 DEF DropStep, ServerSame, TableSame, ClientSame, QueuesSame, client, server,
       fixed, past
  <2>8. CASE FindStep(c)
    BY <1>0, <2>8 DEF FindStep, ServerSame, TableSame, ClientSame, QueuesSame, client, server,
       fixed, past
  <2>9. CASE ForwardStep(c)
    <3>1. c \in attached /\ pc[c] = "run" /\ 1 \in 1..Len(up[c]) /\ up[c][1].t # "close"
      BY <2>9 DEF ForwardStep, PopUp, HubInv
    <3>2. c = p
      BY <3>1, <1>0 DEF Vouches
    <3> QED BY <3>1, <3>2, <1>0 DEF Silent, OnlyCloses
  <2>10. CASE ForwardFails(c)
    BY <1>0, <2>10 DEF ForwardFails, ServerSame, TableSame, ClientSame, QueuesSame, client,
       server, fixed, past
  <2>11. CASE SeeCloseStep(c)
    BY <1>0, <2>11 DEF SeeCloseStep, ServerSame, TableSame, ClientSame, QueuesSame, client,
       server, fixed, past
  <2>12. CASE TeardownStep(c)
    BY <1>0, <2>12 DEF TeardownStep, ServerSame, TableSame, ClientSame, QueuesSame, client,
       server, fixed, past
  <2>13. CASE TellStep(c)
    <3>1. CASE peer[c] = NoConn
      BY <2>13, <3>1, <1>0, TunnelAssumption DEF TellStep, TunnelTypes
    <3>2. CASE peer[c] # NoConn
      <4>1. c \in attached /\ pc[c] = "tell" /\ peer[c] \in attached /\ side[peer[c]] # side[c]
        BY <2>13, <3>2 DEF TellStep, HubInv
      <4>2. c = p /\ peer[c] # p
        BY <4>1, <1>0 DEF Vouches
      <4>3. PICK m : m = [t |-> "gone"]
        OBVIOUS
      <4>4. down'[p] = down[p] /\ (down'[d] = down[d] \/ Pushed(down[d], down'[d], m))
        BY <2>13, <3>2, <4>2, <4>3, <1>0 DEF TellStep, PushDown
      <4>5. Gones(down[d]) => Gones(down'[d])
        BY <4>3, <4>4 DEF Gones, Pushed
      <4>6. pc'[d] = pc[d]
        BY <2>13, <4>2, <1>0 DEF TellStep, TunnelTypes
      <4> QED BY <4>4, <4>5, <4>6, <1>0
    <3> QED BY <3>1, <3>2
  <2>14. CASE PumpStep(c)
    <3>1. /\ pc' = pc /\ (down'[p] = down[p] \/ down'[p] = <<>>)
          /\ down'[d] = down[d] \/ down'[d] = <<>>
      BY <2>14, <1>0 DEF PumpStep
    <3> QED BY <3>1, <1>0 DEF Gones
  <2>15. CASE SocketDrops(c)
    BY <1>0, <2>15 DEF SocketDrops, ServerSame, TableSame, ClientSame, QueuesSame, client,
       server, fixed, past
  <2>16. CASE FailStep(c)
    <3>1. /\ pc' = pc /\ 1 \in 1..Len(down[c]) /\ down[c][1].t # "gone"
          /\ \A q \in Conn : q # c => down'[q] = down[q]
      BY <2>16 DEF FailStep, PopDown, ServerSame
    <3>2. c # p
      BY <3>1, <1>0
    <3>3. pc[d] = "vouch_me" => c # d
      BY <3>1, <1>0 DEF Gones
    <3> QED BY <3>1, <3>2, <3>3, <1>0
  <2>17. CASE TakeVouch(c)
    <3>1. /\ pc' = pc /\ 1 \in 1..Len(down[c]) /\ down[c][1].t # "gone"
          /\ \A q \in Conn : q # c => down'[q] = down[q]
      BY <2>17 DEF TakeVouch, PopDown, ServerSame
    <3>2. c # p
      BY <3>1, <1>0
    <3>3. pc[d] = "vouch_me" => c # d
      BY <3>1, <1>0 DEF Gones
    <3> QED BY <3>1, <3>2, <3>3, <1>0
  <2>18. CASE TakeKey(c)
    <3>1. /\ pc' = pc /\ 1 \in 1..Len(down[c]) /\ down[c][1].t # "gone"
          /\ \A q \in Conn : q # c => down'[q] = down[q]
      BY <2>18 DEF TakeKey, PopDown, ServerSame
    <3>2. c # p
      BY <3>1, <1>0
    <3>3. pc[d] = "vouch_me" => c # d
      BY <3>1, <1>0 DEF Gones
    <3> QED BY <3>1, <3>2, <3>3, <1>0
  <2>19. CASE TakeHandshake(c)
    <3>1. /\ pc' = pc /\ 1 \in 1..Len(down[c]) /\ down[c][1].t # "gone"
          /\ \A q \in Conn : q # c => down'[q] = down[q]
      BY <2>19 DEF TakeHandshake, PopDown, ServerSame
    <3>2. c # p
      BY <3>1, <1>0
    <3>3. pc[d] = "vouch_me" => c # d
      BY <3>1, <1>0 DEF Gones
    <3> QED BY <3>1, <3>2, <3>3, <1>0
  <2>20. CASE TakeData(c)
    <3>1. /\ pc' = pc /\ 1 \in 1..Len(down[c]) /\ down[c][1].t # "gone"
          /\ \A q \in Conn : q # c => down'[q] = down[q]
      BY <2>20 DEF TakeData, PopDown, ServerSame
    <3>2. c # p
      BY <3>1, <1>0
    <3>3. pc[d] = "vouch_me" => c # d
      BY <3>1, <1>0 DEF Gones
    <3> QED BY <3>1, <3>2, <3>3, <1>0
  <2>21. CASE SkipVouch(c)
    <3>1. /\ pc' = pc /\ 1 \in 1..Len(down[c]) /\ down[c][1].t # "gone"
          /\ \A q \in Conn : q # c => down'[q] = down[q]
      BY <2>21 DEF SkipVouch, PopDown, ServerSame
    <3>2. c # p
      BY <3>1, <1>0
    <3>3. pc[d] = "vouch_me" => c # d
      BY <3>1, <1>0 DEF Gones
    <3> QED BY <3>1, <3>2, <3>3, <1>0
  <2>22. CASE DataStep(c)
    BY <1>0, <2>22 DEF DataStep, ServerSame, TableSame, ClientSame, QueuesSame, client, server,
       fixed, past
  <2>23. CASE CloseStep(c)
    BY <1>0, <2>23 DEF CloseStep, ServerSame, TableSame, ClientSame, QueuesSame, client, server,
       fixed, past
  <2> QED BY <1>4, <2>1, <2>2, <2>3, <2>4, <2>5, <2>6, <2>7, <2>8, <2>9, <2>10, <2>11, <2>12,
     <2>13, <2>14, <2>15, <2>16, <2>17, <2>18, <2>19, <2>20, <2>21, <2>22, <2>23 DEF TunnelStep
<1> QED BY <1>1, <1>2, <1>3, <1>4, StepCases

\* Who registers has heard and said nothing.
LEMMA RegisterSelf ==
    ASSUME TunnelTypes, HubInv, AloneInv, ClientInv, NEW c \in Conn, RegisterStep(c)
    PROVE  Silent(c) /\ down[c] = <<>> /\ c \notin attached
<1>1. pc[c] = "register" /\ c \notin attached
  BY DEF RegisterStep, HubInv, Early
<1>2. Alone(c) /\ cl[c] # "none"
  BY <1>1 DEF Alone, ClientInv, ClientOf
<1> QED BY <1>1, <1>2 DEF AloneInv, Silent

\* Before the second side registers there was only the one, and nothing had been
\* sent to it.
LEMMA RegisterPeer ==
    ASSUME TunnelTypes, HubInv, PairedInv, AloneInv, ClientInv, Undisturbed, Undisturbed',
           NEW c \in Conn, RegisterStep(c), NEW o \in attached, side[o] # side[c]
    PROVE  /\ o \in Conn /\ o # c /\ PeerInHub(c) = o /\ pc[o] \notin Vouches
           /\ Silent(o) /\ down[o] = <<>>
<1>0. attached' = attached \cup {c} /\ c \notin attached /\ hub # NoTunnel /\ side' = side
  BY DEF RegisterStep, HubInv, Early
<1>1. o \in Conn /\ o # c /\ side[o] \in Side /\ side[c] \in Side
  BY <1>0 DEF TunnelTypes
<1>2. \A q \in attached : side[q] # side[c]
  BY <1>0 DEF Undisturbed
<1>3. \A q \in attached : side[q] = side[o] /\ side[q] \in Side
  BY <1>1, <1>2 DEF Side, TunnelTypes
<1>4. side[o] = Other(side[c])
  BY <1>1, SideFacts
<1>5. PeerInHub(c) # NoConn /\ PeerInHub(c) \in attached
  BY <1>0, <1>1, <1>4 DEF PeerInHub, PairedInv, HubInv
<1>6. PeerInHub(c) = o
  BY <1>3, <1>5 DEF Undisturbed
<1>7. pc[o] \notin Vouches
  BY <1>1, <1>3 DEF HubInv
<1>8. Alone(o)
  BY <1>3 DEF Alone
<1>9. cl[o] # "none"
  BY <1>1 DEF ClientInv, ClientOf, HubInv, Early
<1> QED BY <1>1, <1>6, <1>7, <1>8, <1>9 DEF AloneInv, Silent

\* A new pair is the one with the connection that registers.
LEMMA RegisterPair ==
    ASSUME TunnelTypes, HubInv, Undisturbed', NEW c \in Conn, RegisterStep(c),
           NEW p \in attached', NEW d \in attached', side[p] # side[d]
    PROVE  p = c \/ d = c
<1>0. attached' = attached \cup {c} /\ c \notin attached /\ side' = side
  BY DEF RegisterStep, HubInv, Early
<1>1. CASE p \in attached /\ d \in attached
  <2>1. side[p] \in Side /\ side[d] \in Side /\ side[c] \in Side
    BY <1>1 DEF TunnelTypes
  <2>2. side[p] = side[c] \/ side[d] = side[c]
    BY <2>1 DEF Side
  <2> QED BY <1>0, <1>1, <2>2 DEF Undisturbed
<1> QED BY <1>0, <1>1

\* The vouches of a pair.
LEMMA NextVouchInv ==
    ASSUME TunnelTypes, HubInv, PairedInv, AloneInv, ClientInv, FrameInv, Undisturbed,
           Undisturbed', VouchInv, Next
    PROVE  VouchInv'
<1>1. ASSUME attached' = attached
      PROVE  VouchInv'
  <2> SUFFICES ASSUME NEW p \in attached, NEW d \in attached, side'[p] # side'[d]
               PROVE  Vouched(p, d)'
    BY <1>1 DEF VouchInv
  <2>1. side[p] # side[d] /\ p \in Conn /\ d \in Conn
    BY NextSteady DEF Steady, TunnelTypes
  <2>2. Vouched(p, d) /\ Vouched(d, p)
    BY <2>1 DEF VouchInv
  <2>3. /\ pc'[d] \in Vouches => pc[d] \in Vouches /\ peer'[d] = peer[d]
        /\ pc'[d] = "vouch_me" => pc[d] = "vouch_me"
        /\ pc[d] \in Vouches /\ pc'[d] \notin Vouches => VouchPeerStep(d)
        /\ pc[d] = "vouch_me" /\ pc'[d] = "vouch_peer" => VouchMeStep(d)
    BY VouchesLeave
  <2>4. /\ pc'[p] \in Vouches => pc[p] \in Vouches
        /\ pc[p] \in Vouches /\ pc'[p] \notin Vouches => VouchPeerStep(p)
    BY VouchesLeave
  <2>5. Told(d) => Told(d)'
    BY ToldStable
  <2>6. /\ Silent(p) /\ Gones(down[p]) => Silent(p)'
        /\ Silent(d) /\ Gones(down[d]) => Silent(d)'
    BY SilentStable
  <2>7. ASSUME pc'[d] \in Vouches
        PROVE  pc'[p] \notin Vouches /\ peer'[d] = p /\ Silent(p)' /\ Len(down'[p]) = 0
    <3>1. pc[d] \in Vouches /\ peer'[d] = peer[d]
      BY <2>3, <2>7
    <3>2. pc[p] \notin Vouches /\ peer[d] = p /\ Silent(p) /\ Len(down[p]) = 0
      BY <2>2, <3>1 DEF Vouched
    <3>3. Gones(down[p])
      BY <3>2 DEF Gones
    <3>4. Len(down'[p]) = 0
      BY <2>1, <2>7, <3>1, VouchingQueues
    <3> QED BY <2>4, <2>6, <3>1, <3>2, <3>3, <3>4
  <2>8. ASSUME pc'[d] = "vouch_me"
        PROVE  Silent(d)' /\ Gones(down'[d])
    <3>1. pc[d] = "vouch_me" /\ pc[d] \in Vouches /\ pc'[d] \in Vouches
      BY <2>3, <2>8 DEF Vouches
    <3>2. Silent(d) /\ Gones(down[d])
      BY <2>2, <3>1 DEF Vouched, Gones
    <3>3. Gones(down'[d])
      BY <2>1, <2>8, <3>1, VouchingQueues
    <3> QED BY <2>6, <3>2, <3>3
  <2>9. ASSUME pc'[d] = "vouch_peer"
        PROVE  Told(d)'
    <3>1. pc[d] \in Vouches
      BY <2>3, <2>9 DEF Vouches
    <3>2. CASE pc[d] = "vouch_peer"
      BY <2>2, <2>5, <3>2 DEF Vouched
    <3>3. CASE pc[d] = "vouch_me"
      <4>1. VouchMeStep(d)
        BY <2>3, <2>9, <3>3
      <4>2. PICK m : m = VouchOf(peer[d])
        OBVIOUS
      <4>3. rx' = rx /\ (rx[d] => Pushed(down[d], down'[d], m))
        BY <4>1, <4>2 DEF VouchMeStep, PushDown
      <4> QED BY <4>3 DEF Told, Pushed
    <3> QED BY <3>1, <3>2, <3>3 DEF Vouches
  <2>10. ASSUME pc'[d] \notin Vouches, pc'[p] \notin Vouches
         PROVE  Told(d)'
    <3>1. CASE pc[d] \in Vouches
      <4>1. pc[d] = "vouch_peer"
        BY <2>3, <2>10, <3>1 DEF VouchPeerStep
      <4> QED BY <2>2, <2>5, <4>1 DEF Vouched
    <3>2. CASE pc[p] \in Vouches
      <4>1. VouchPeerStep(p) /\ peer[p] = d
        BY <2>2, <2>4, <2>10, <3>2 DEF Vouched
      <4>2. PICK m : m = VouchOf(p)
        OBVIOUS
      <4>3. rx' = rx /\ (rx[d] => Pushed(down[d], down'[d], m))
        BY <4>1, <4>2 DEF VouchPeerStep, PushDown
      <4> QED BY <4>3 DEF Told, Pushed
    <3>3. CASE pc[d] \notin Vouches /\ pc[p] \notin Vouches
      BY <2>2, <2>5, <3>3 DEF Vouched
    <3> QED BY <3>1, <3>2, <3>3
  <2> QED BY <2>7, <2>8, <2>9, <2>10 DEF Vouched, Gones
<1>2. ASSUME NEW c \in Conn, RegisterStep(c)
      PROVE  VouchInv'
  <2>1. /\ attached' = attached \cup {c} /\ c \notin attached /\ hub # NoTunnel
        /\ pc[c] = "register" /\ \A q \in Conn : q # c => pc'[q] = pc[q] /\ peer'[q] = peer[q]
        /\ peer'[c] = PeerInHub(c) /\ PeerInHub(c) \in Conns
        /\ PeerInHub(c) # NoConn => pc'[c] = "vouch_me"
        /\ UNCHANGED <<cl, rx, down, up, side>>
    BY <1>2 DEF RegisterStep, ClientSame, QueuesSame, TunnelTypes, HubInv, Early
  <2> SUFFICES ASSUME NEW p \in attached', NEW d \in attached', side[p] # side[d]
               PROVE  Vouched(p, d)'
    BY <2>1 DEF VouchInv
  <2>2. ASSUME NEW o \in attached, side[o] # side[c]
        PROVE  /\ o \in Conn /\ o # c /\ PeerInHub(c) = o /\ pc[o] \notin Vouches
               /\ Silent(o) /\ down[o] = <<>>
    BY <1>2, <2>2, RegisterPeer
  <2>3. Silent(c) /\ down[c] = <<>>
    BY <1>2, RegisterSelf
  <2>4. p = c \/ d = c
    BY <1>2, RegisterPair
  <2>5. CASE d = c
    <3>1. /\ p \in attached /\ p \in Conn /\ p # c /\ PeerInHub(c) = p /\ pc[p] \notin Vouches
          /\ Silent(p) /\ down[p] = <<>>
      BY <2>1, <2>2, <2>5
    <3>2. /\ pc'[c] = "vouch_me" /\ peer'[c] = p /\ pc'[p] = pc[p]
          /\ Silent(p)' /\ Silent(c)' /\ down'[p] = <<>> /\ down'[c] = <<>>
      BY <2>1, <2>3, <3>1, TunnelAssumption DEF Silent
    <3> QED BY <2>5, <3>1, <3>2 DEF Vouched, Vouches
  <2>6. CASE p = c
    <3>1. /\ d \in attached /\ d \in Conn /\ d # c /\ PeerInHub(c) = d /\ pc[d] \notin Vouches
      BY <2>1, <2>2, <2>6
    <3>2. pc'[c] = "vouch_me" /\ pc'[d] = pc[d]
      BY <2>1, <3>1, TunnelAssumption
    <3> QED BY <2>6, <3>1, <3>2 DEF Vouched, Vouches
  <2> QED BY <2>4, <2>5, <2>6
<1>3. CASE attached' # attached
  <2>1. PICK c \in Conn : TunnelStep(c)
    BY <1>3, StepCases DEF Offer, Sweep, Rotate, past
  <2>2. RegisterStep(c)
    BY <1>3, <2>1 DEF TunnelStep, Connect, LookupFingerprint, TooLateStep, VouchMeStep,
       VouchPeerStep, DropStep, FindStep, ForwardStep, ForwardFails, SeeCloseStep, TeardownStep,
       TellStep, PumpStep, SocketDrops, FailStep, TakeVouch, TakeKey, TakeHandshake, TakeData,
       SkipVouch, DataStep, CloseStep, ServerSame, TableSame, past
  <2> QED BY <1>2, <2>2
<1> QED BY <1>1, <1>3

-----------------------------------------------------------------------------
(* The tunnel: frames in order *)

\* A queue that has more or fewer messages at its ends.
LEMMA GoneFacts ==
    ASSUME NEW q, NEW r
    PROVE  /\ Popped(q, r) /\ q[1].t # "gone" /\ Holds(q, "gone") => Holds(r, "gone")
           /\ \A m : Pushed(q, r, m) /\ (Holds(q, "gone") \/ m.t = "gone") => Holds(r, "gone")
<1>1. ASSUME Popped(q, r), q[1].t # "gone", Holds(q, "gone") PROVE Holds(r, "gone")
  <2>1. PICK i \in 1..Len(q) : q[i].t = "gone"
    BY <1>1 DEF Holds
  <2>2. i - 1 \in 1..Len(r) /\ r[i - 1] = q[i]
    BY <1>1, <2>1 DEF Popped
  <2> QED BY <2>1, <2>2 DEF Holds
<1>2. ASSUME NEW m, Pushed(q, r, m), Holds(q, "gone") \/ m.t = "gone" PROVE Holds(r, "gone")
  BY <1>2 DEF Pushed, Holds
<1> QED BY <1>1, <1>2

\* Who listens has always listened.
LEMMA ListeningBefore ==
    ASSUME TunnelTypes, HubInv, AloneInv, ClientInv, FrameInv, Next,
           NEW d \in attached, Listening(d)'
    PROVE  Listening(d)
<1>0. d \in Conn /\ pc[d] \notin Early
  BY DEF TunnelTypes, HubInv
<1>1. CASE Offer
  BY <1>1 DEF Offer, Listening, Ended, client, server, fixed, past
<1>2. CASE Sweep
  BY <1>2 DEF Sweep, Listening, Ended, client, server, fixed, past
<1>3. ASSUME NEW x \in Side, Rotate(x) PROVE Listening(d)
  BY <1>3 DEF Rotate, Listening, Ended, client, server, fixed, past
<1>4. ASSUME NEW c \in Conn, TunnelStep(c) PROVE Listening(d)
  <2>1. CASE Connect(c)
    <3>1. c # d
      BY <1>0, <2>1 DEF Connect, Early
    <3>2. cl'[d] = cl[d]
      <4>1. CASE hub # NoTunnel
        BY <2>1, <4>1, <3>1 DEF Connect, TunnelTypes
      <4>2. CASE hub = NoTunnel
        BY <2>1, <4>2, <3>1 DEF Connect, TunnelTypes
      <4> QED BY <4>1, <4>2
    <3> QED BY <2>1, <3>2 DEF Listening, Ended, Connect
  <2>2. CASE LookupFingerprint(c)
    BY <2>2, <1>0 DEF Listening, Ended, LookupFingerprint, ServerSame, TableSame, ClientSame,
       QueuesSame, client, server, fixed, past
  <2>3. CASE RegisterStep(c)
    BY <2>3, <1>0 DEF Listening, Ended, RegisterStep, ServerSame, TableSame, ClientSame,
       QueuesSame, client, server, fixed, past
  <2>4. CASE TooLateStep(c)
    BY <2>4, <1>0 DEF Listening, Ended, TooLateStep, ServerSame, TableSame, ClientSame,
       QueuesSame, client, server, fixed, past
  <2>5. CASE VouchMeStep(c)
    <3>1. PICK m : m = VouchOf(peer[c])
      OBVIOUS
    <3>2. cl' = cl /\ rx' = rx
      BY <2>5 DEF VouchMeStep, ServerSame, TableSame, ClientSame, QueuesSame, client, server,
         fixed, past
    <3>3. down'[d] = down[d] \/ Pushed(down[d], down'[d], m)
      BY <2>5, <3>1, <1>0 DEF VouchMeStep, PushDown
    <3>4. Holds(down[d], "gone") => Holds(down'[d], "gone")
      BY <3>3, GoneFacts
    <3> QED BY <3>2, <3>4 DEF Listening, Ended
  <2>6. CASE VouchPeerStep(c)
    <3>1. PICK m : m = VouchOf(c)
      OBVIOUS
    <3>2. cl' = cl /\ rx' = rx
      BY <2>6 DEF VouchPeerStep, ServerSame, TableSame, ClientSame, QueuesSame, client, server,
         fixed, past
    <3>3. down'[d] = down[d] \/ Pushed(down[d], down'[d], m)
      BY <2>6, <3>1, <1>0 DEF VouchPeerStep, PushDown
    <3>4. Holds(down[d], "gone") => Holds(down'[d], "gone")
      BY <3>3, GoneFacts
    <3> QED BY <3>2, <3>4 DEF Listening, Ended
  <2>7. CASE DropStep(c)
    BY <2>7, <1>0 DEF Listening, Ended, DropStep, ServerSame, TableSame, ClientSame, QueuesSame,
       client, server, fixed, past
  <2>8. CASE FindStep(c)
    BY <2>8, <1>0 DEF Listening, Ended, FindStep, ServerSame, TableSame, ClientSame, QueuesSame,
       client, server, fixed, past
  <2>9. CASE ForwardStep(c)
    <3>1. PICK m : m = up[c][1]
      OBVIOUS
    <3>2. cl' = cl /\ rx' = rx
      BY <2>9 DEF ForwardStep, ServerSame, TableSame, ClientSame, QueuesSame, client, server,
         fixed, past
    <3>3. down'[d] = down[d] \/ Pushed(down[d], down'[d], m)
      BY <2>9, <3>1, <1>0 DEF ForwardStep, PushDown
    <3>4. Holds(down[d], "gone") => Holds(down'[d], "gone")
      BY <3>3, GoneFacts
    <3> QED BY <3>2, <3>4 DEF Listening, Ended
  <2>10. CASE ForwardFails(c)
    BY <2>10, <1>0 DEF Listening, Ended, ForwardFails, ServerSame, TableSame, ClientSame,
       QueuesSame, client, server, fixed, past
  <2>11. CASE SeeCloseStep(c)
    BY <2>11, <1>0 DEF Listening, Ended, SeeCloseStep, ServerSame, TableSame, ClientSame,
       QueuesSame, client, server, fixed, past
  <2>12. CASE TeardownStep(c)
    BY <2>12, <1>0 DEF Listening, Ended, TeardownStep, ServerSame, TableSame, ClientSame,
       QueuesSame, client, server, fixed, past
  <2>13. CASE TellStep(c)
    <3>1. PICK m : m = [t |-> "gone"]
      OBVIOUS
    <3>2. cl' = cl /\ rx' = rx
      BY <2>13 DEF TellStep, ServerSame, TableSame, ClientSame, QueuesSame, client, server,
         fixed, past
    <3>3. down'[d] = down[d] \/ Pushed(down[d], down'[d], m)
      BY <2>13, <3>1, <1>0 DEF TellStep, PushDown
    <3>4. Holds(down[d], "gone") => Holds(down'[d], "gone")
      BY <3>3, GoneFacts
    <3> QED BY <3>2, <3>4 DEF Listening, Ended
  <2>14. CASE PumpStep(c)
    <3>1. CASE d = c
      BY <2>14, <3>1 DEF PumpStep, Listening, TunnelTypes
    <3>2. CASE d # c
      BY <2>14, <3>2, <1>0 DEF PumpStep, Listening, Ended, TunnelTypes
    <3> QED BY <3>1, <3>2
  <2>15. CASE SocketDrops(c)
    <3>1. rx' = rx /\ down' = down /\ cl' = [cl EXCEPT ![c] = "closed"]
      BY <2>15 DEF SocketDrops, ServerSame, TableSame, ClientSame, QueuesSame, client, server,
         fixed, past
    <3> QED BY <3>1, <1>0 DEF Listening, Ended, TunnelTypes
  <2>16. CASE FailStep(c)
    <3>1. /\ rx' = rx /\ ~Ended(c) /\ \A q \in Conn : q # c => cl'[q] = cl[q]
          /\ \A q \in Conn : q # c => down'[q] = down[q]
          /\ Popped(down[c], down'[c]) /\ down[c][1].t # "gone"
      BY <2>16 DEF FailStep, PopDown, Ended, TunnelTypes, ServerSame, TableSame, ClientSame,
         QueuesSame, client, server, fixed, past
    <3>2. Holds(down[c], "gone") => Holds(down'[c], "gone")
      BY <3>1, GoneFacts
    <3>3. CASE d = c
      BY <3>1, <3>2, <3>3 DEF Listening
    <3>4. CASE d # c
      BY <3>1, <3>4, <1>0 DEF Listening, Ended
    <3> QED BY <3>3, <3>4
  <2>17. CASE TakeVouch(c)
    <3>1. /\ rx' = rx /\ ~Ended(c) /\ \A q \in Conn : q # c => cl'[q] = cl[q]
          /\ \A q \in Conn : q # c => down'[q] = down[q]
          /\ Popped(down[c], down'[c]) /\ down[c][1].t # "gone"
      BY <2>17 DEF TakeVouch, PopDown, Ended, TunnelTypes, ServerSame, TableSame, ClientSame,
         QueuesSame, client, server, fixed, past
    <3>2. Holds(down[c], "gone") => Holds(down'[c], "gone")
      BY <3>1, GoneFacts
    <3>3. CASE d = c
      BY <3>1, <3>2, <3>3 DEF Listening
    <3>4. CASE d # c
      BY <3>1, <3>4, <1>0 DEF Listening, Ended
    <3> QED BY <3>3, <3>4
  <2>18. CASE TakeKey(c)
    <3>1. /\ rx' = rx /\ ~Ended(c) /\ \A q \in Conn : q # c => cl'[q] = cl[q]
          /\ \A q \in Conn : q # c => down'[q] = down[q]
          /\ Popped(down[c], down'[c]) /\ down[c][1].t # "gone"
      BY <2>18 DEF TakeKey, PopDown, Ended, TunnelTypes, ServerSame, TableSame, ClientSame,
         QueuesSame, client, server, fixed, past
    <3>2. Holds(down[c], "gone") => Holds(down'[c], "gone")
      BY <3>1, GoneFacts
    <3>3. CASE d = c
      BY <3>1, <3>2, <3>3 DEF Listening
    <3>4. CASE d # c
      BY <3>1, <3>4, <1>0 DEF Listening, Ended
    <3> QED BY <3>3, <3>4
  <2>19. CASE TakeHandshake(c)
    <3>1. /\ rx' = rx /\ ~Ended(c) /\ \A q \in Conn : q # c => cl'[q] = cl[q]
          /\ \A q \in Conn : q # c => down'[q] = down[q]
          /\ Popped(down[c], down'[c]) /\ down[c][1].t # "gone"
      BY <2>19 DEF TakeHandshake, PopDown, Ended, TunnelTypes, ServerSame, TableSame,
         ClientSame, QueuesSame, client, server, fixed, past
    <3>2. Holds(down[c], "gone") => Holds(down'[c], "gone")
      BY <3>1, GoneFacts
    <3>3. CASE d = c
      BY <3>1, <3>2, <3>3 DEF Listening
    <3>4. CASE d # c
      BY <3>1, <3>4, <1>0 DEF Listening, Ended
    <3> QED BY <3>3, <3>4
  <2>20. CASE TakeData(c)
    <3>1. /\ rx' = rx /\ ~Ended(c) /\ \A q \in Conn : q # c => cl'[q] = cl[q]
          /\ \A q \in Conn : q # c => down'[q] = down[q]
          /\ Popped(down[c], down'[c]) /\ down[c][1].t # "gone"
      BY <2>20 DEF TakeData, PopDown, Ended, TunnelTypes, ServerSame, TableSame, ClientSame,
         QueuesSame, client, server, fixed, past
    <3>2. Holds(down[c], "gone") => Holds(down'[c], "gone")
      BY <3>1, GoneFacts
    <3>3. CASE d = c
      BY <3>1, <3>2, <3>3 DEF Listening
    <3>4. CASE d # c
      BY <3>1, <3>4, <1>0 DEF Listening, Ended
    <3> QED BY <3>3, <3>4
  <2>21. CASE SkipVouch(c)
    <3>1. /\ rx' = rx /\ ~Ended(c) /\ \A q \in Conn : q # c => cl'[q] = cl[q]
          /\ \A q \in Conn : q # c => down'[q] = down[q]
          /\ Popped(down[c], down'[c]) /\ down[c][1].t # "gone"
      BY <2>21 DEF SkipVouch, PopDown, Ended, TunnelTypes, ServerSame, TableSame, ClientSame,
         QueuesSame, client, server, fixed, past
    <3>2. Holds(down[c], "gone") => Holds(down'[c], "gone")
      BY <3>1, GoneFacts
    <3>3. CASE d = c
      BY <3>1, <3>2, <3>3 DEF Listening
    <3>4. CASE d # c
      BY <3>1, <3>4, <1>0 DEF Listening, Ended
    <3> QED BY <3>3, <3>4
  <2>22. CASE DataStep(c)
    BY <2>22, <1>0 DEF Listening, Ended, DataStep, ServerSame, TableSame, ClientSame,
       QueuesSame, client, server, fixed, past
  <2>23. CASE CloseStep(c)
    <3>1. rx' = rx /\ down' = down /\ cl' = [cl EXCEPT ![c] = "closed"]
      BY <2>23 DEF CloseStep, ServerSame, TableSame, ClientSame, QueuesSame, client, server,
         fixed, past
    <3> QED BY <3>1, <1>0 DEF Listening, Ended, TunnelTypes
  <2> QED BY <1>4, <2>1, <2>2, <2>3, <2>4, <2>5, <2>6, <2>7, <2>8, <2>9, <2>10, <2>11, <2>12,
     <2>13, <2>14, <2>15, <2>16, <2>17, <2>18, <2>19, <2>20, <2>21, <2>22, <2>23 DEF TunnelStep
<1> QED BY <1>1, <1>2, <1>3, <1>4, StepCases

\* What a connection sends goes where it always went.
LEMMA LinkedBefore ==
    ASSUME TunnelTypes, HubInv, ClientInv, Next, attached' = attached,
           NEW p \in attached, NEW d \in attached, side[p] # side[d], Linked(p, d)'
    PROVE  Linked(p, d)
<1>0. /\ p \in Conn /\ d \in Conn /\ p # NoConn /\ d # NoConn /\ pc[p] \notin Early /\ offered
      /\ side'[d] = side[d] /\ side[p] # side[d] /\ \A q \in attached : pc[q] \notin Early
      /\ attached' = attached
  <2>1. p \in Conn /\ d \in Conn /\ pc[p] \notin Early /\ \A q \in attached : pc[q] \notin Early
    BY DEF TunnelTypes, HubInv
  <2>2. offered
    BY <2>1 DEF HubInv, Early
  <2>3. side'[d] = side[d]
    BY NextSteady DEF Steady
  <2> QED BY <2>1, <2>2, <2>3, TunnelAssumption
<1>1. CASE Offer
  BY <1>1, <1>0 DEF Offer, Early
<1>2. CASE Sweep
  BY <1>2, <1>0 DEF Sweep, Linked, client, server, fixed, past
<1>3. ASSUME NEW x \in Side, Rotate(x) PROVE Linked(p, d)
  BY <1>3, <1>0 DEF Rotate, Linked, client, server, fixed, past
<1>4. ASSUME NEW c \in Conn, TunnelStep(c) PROVE Linked(p, d)
  <2>1. CASE Connect(c)
    <3>1. c # p
      BY <1>0, <2>1 DEF Connect, Early
    <3>2. pc'[p] = pc[p] /\ peer'[p] = peer[p] /\ hub' = hub
      BY <3>1, <1>0, <2>1 DEF Connect, Goto, TunnelTypes
    <3> QED BY <3>2, <1>0 DEF Linked
  <2>2. CASE LookupFingerprint(c)
    <3>1. c # p
      BY <1>0, <2>2 DEF LookupFingerprint, Early
    <3>2. pc'[p] = pc[p] /\ peer'[p] = peer[p] /\ hub' = hub
      BY <3>1, <1>0, <2>2 DEF LookupFingerprint, Goto, TunnelTypes
    <3> QED BY <3>2, <1>0 DEF Linked
  <2>3. CASE RegisterStep(c)
    BY <2>3, <1>0 DEF RegisterStep, Early
  <2>4. CASE TooLateStep(c)
    <3>1. c # p
      BY <1>0, <2>4 DEF TooLateStep, Early
    <3>2. pc'[p] = pc[p] /\ peer'[p] = peer[p] /\ hub' = hub
      BY <3>1, <1>0, <2>4 DEF TooLateStep, Goto, TunnelTypes
    <3> QED BY <3>2, <1>0 DEF Linked
  <2>5. CASE VouchMeStep(c)
    BY <2>5, <1>0 DEF Linked, VouchMeStep, Vouches, TunnelTypes, ServerSame, TableSame,
       ClientSame, QueuesSame, client, server, fixed, past
  <2>6. CASE VouchPeerStep(c)
    BY <2>6, <1>0 DEF Linked, VouchPeerStep, Vouches, TunnelTypes, ServerSame, TableSame,
       ClientSame, QueuesSame, client, server, fixed, past
  <2>7. CASE DropStep(c)
    BY <2>7, <1>0 DEF Linked, DropStep, Vouches, TunnelTypes, ServerSame, TableSame, ClientSame,
       QueuesSame, client, server, fixed, past
  <2>8. CASE FindStep(c)
    <3>1. /\ pc' = pc /\ hub' = hub /\ hub # NoTunnel /\ peer[c] = NoConn
          /\ peer' = [peer EXCEPT ![c] = hub.to[Other(side[c])]]
      BY <2>8 DEF FindStep, PeerInHub
    <3>2. Other(side[p]) = side[d]
      BY <1>0, SideFacts DEF TunnelTypes
    <3> QED BY <3>1, <3>2, <1>0 DEF Linked, TunnelTypes
  <2>9. CASE ForwardStep(c)
    BY <2>9, <1>0 DEF Linked, ForwardStep, Vouches, TunnelTypes, ServerSame, TableSame,
       ClientSame, QueuesSame, client, server, fixed, past
  <2>10. CASE ForwardFails(c)
    BY <2>10, <1>0 DEF Linked, ForwardFails, Vouches, TunnelTypes, ServerSame, TableSame,
       ClientSame, QueuesSame, client, server, fixed, past
  <2>11. CASE SeeCloseStep(c)
    BY <2>11, <1>0 DEF Linked, SeeCloseStep, Vouches, TunnelTypes, ServerSame, TableSame,
       ClientSame, QueuesSame, client, server, fixed, past
  <2>12. CASE TeardownStep(c)
    <3>1. /\ pc' = [pc EXCEPT ![c] = "tell"] /\ hub' = NoTunnel
          /\ p # c => peer'[p] = peer[p]
      BY <2>12, <1>0 DEF TeardownStep, TunnelTypes
    <3> QED BY <3>1, <1>0 DEF Linked, Vouches, TunnelTypes
  <2>13. CASE TellStep(c)
    BY <2>13, <1>0 DEF Linked, TellStep, Vouches, TunnelTypes, ServerSame, TableSame,
       ClientSame, QueuesSame, client, server, fixed, past
  <2>14. CASE PumpStep(c)
    BY <2>14, <1>0 DEF Linked, PumpStep, Vouches, TunnelTypes, ServerSame, TableSame,
       ClientSame, QueuesSame, client, server, fixed, past
  <2>15. CASE SocketDrops(c)
    BY <2>15, <1>0 DEF Linked, SocketDrops, Vouches, TunnelTypes, ServerSame, TableSame,
       ClientSame, QueuesSame, client, server, fixed, past
  <2>16. CASE FailStep(c)
    BY <2>16, <1>0 DEF Linked, FailStep, Vouches, TunnelTypes, ServerSame, TableSame,
       ClientSame, QueuesSame, client, server, fixed, past
  <2>17. CASE TakeVouch(c)
    BY <2>17, <1>0 DEF Linked, TakeVouch, Vouches, TunnelTypes, ServerSame, TableSame,
       ClientSame, QueuesSame, client, server, fixed, past
  <2>18. CASE TakeKey(c)
    BY <2>18, <1>0 DEF Linked, TakeKey, Vouches, TunnelTypes, ServerSame, TableSame, ClientSame,
       QueuesSame, client, server, fixed, past
  <2>19. CASE TakeHandshake(c)
    BY <2>19, <1>0 DEF Linked, TakeHandshake, Vouches, TunnelTypes, ServerSame, TableSame,
       ClientSame, QueuesSame, client, server, fixed, past
  <2>20. CASE TakeData(c)
    BY <2>20, <1>0 DEF Linked, TakeData, Vouches, TunnelTypes, ServerSame, TableSame,
       ClientSame, QueuesSame, client, server, fixed, past
  <2>21. CASE SkipVouch(c)
    BY <2>21, <1>0 DEF Linked, SkipVouch, Vouches, TunnelTypes, ServerSame, TableSame,
       ClientSame, QueuesSame, client, server, fixed, past
  <2>22. CASE DataStep(c)
    BY <2>22, <1>0 DEF Linked, DataStep, Vouches, TunnelTypes, ServerSame, TableSame,
       ClientSame, QueuesSame, client, server, fixed, past
  <2>23. CASE CloseStep(c)
    BY <2>23, <1>0 DEF Linked, CloseStep, Vouches, TunnelTypes, ServerSame, TableSame,
       ClientSame, QueuesSame, client, server, fixed, past
  <2> QED BY <1>4, <2>1, <2>2, <2>3, <2>4, <2>5, <2>6, <2>7, <2>8, <2>9, <2>10, <2>11, <2>12,
     <2>13, <2>14, <2>15, <2>16, <2>17, <2>18, <2>19, <2>20, <2>21, <2>22, <2>23 DEF TunnelStep
<1> QED BY <1>1, <1>2, <1>3, <1>4, StepCases

\* The places are numbers, and with a client that has been told they add up.
LEMMA WaitsType ==
    ASSUME TunnelTypes, NEW c \in Conn
    PROVE  /\ Waits(c) \in Nat /\ Speaks(c) \in Nat /\ Due(c) \in Nat /\ Len(down[c]) \in Nat
           /\ Len(up[c]) \in Nat /\ (cl[c] # "vouch" => Waits(c) # 0)
           /\ (Waits(c) # 0 \/ Len(down[c]) # 0 => Due(c) = Waits(c) + Len(down[c]))
<1>1. rcvd[c] \in Nat /\ sent[c] \in Nat /\ Len(down[c]) \in Nat /\ Len(up[c]) \in Nat
  BY TunnelAssumption DEF TunnelTypes, Queues
<1>2. Waits(c) \in Nat /\ Speaks(c) \in Nat /\ (cl[c] # "vouch" => Waits(c) # 0)
  BY <1>1 DEF Waits, Speaks
<1> QED BY <1>1, <1>2 DEF Due

\* What a step may do to the queue towards a client, in order.
OrderMoves(d) ==
    \/ Ended(d)' \/ down'[d] = <<>>
    \/ down'[d] = down[d] /\ Waits(d)' = Waits(d)
    \/ /\ Popped(down[d], down'[d]) /\ down[d][1].t # "gone"
       /\ Waits(d)' = Waits(d) + 1
    \/ /\ Waits(d)' = Waits(d)
       /\ \E m : /\ Pushed(down[d], down'[d], m)
                 /\ \/ m.t = "gone" \/ Holds(down[d], "gone")
                    \/ Order(m) = Waits(d) + Len(down[d])

\* The frames to a client stay in order when its queue moves in order.
LEMMA OrderKept ==
    ASSUME TunnelTypes, NEW d \in Conn, InOrder(d), OrderMoves(d), Ended(d) => Ended(d)'
    PROVE  InOrder(d)'
<1> DEFINE W == Waits(d)
           V == Waits(d)'
           q == down[d]
           r == down'[d]
<1>0. W \in Nat /\ Len(q) \in Nat
  BY WaitsType
<1> SUFFICES ASSUME ~Ended(d)', NEW i \in 1..Len(r), Untold(r, i)
             PROVE  Order(r[i]) = V + i - 1
  BY DEF InOrder, Untold
<1>1. \A j \in 1..Len(q) : Untold(q, j) => Order(q[j]) = W + j - 1
  BY DEF InOrder
<1>2. CASE r = <<>>
  BY <1>2
<1>3. CASE r = q /\ V = W
  BY <1>1, <1>3
<1>4. CASE /\ Popped(q, r) /\ q[1].t # "gone" /\ V = W + 1
  <2>1. i + 1 \in 1..Len(q) /\ r[i] = q[i + 1]
    BY <1>4 DEF Popped
  <2>2. ASSUME NEW j \in 1..(i + 1) PROVE q[j].t # "gone"
    <3>1. CASE j = 1
      BY <1>4, <3>1
    <3>2. CASE j # 1
      <4>1. j \in 1..Len(q)
        BY <2>1, <1>0
      <4>2. r[j - 1] = q[j] /\ j - 1 \in 1..i
        BY <1>4, <3>2, <4>1 DEF Popped
      <4> QED BY <4>2 DEF Untold
    <3> QED BY <3>1, <3>2
  <2>3. Order(q[i + 1]) = W + (i + 1) - 1
    BY <1>1, <2>1, <2>2 DEF Untold
  <2> QED BY <1>0, <1>4, <2>1, <2>3
<1>5. ASSUME V = W, NEW m, Pushed(q, r, m),
             m.t = "gone" \/ Holds(q, "gone") \/ Order(m) = W + Len(q)
      PROVE  Order(r[i]) = V + i - 1
  <2>1. \A j \in 1..Len(q) : j \in 1..Len(r) /\ r[j] = q[j]
    BY <1>5 DEF Pushed
  <2>2. CASE i \in 1..Len(q)
    <3>1. \A j \in 1..i : j \in 1..Len(q) /\ q[j] = r[j]
      BY <1>0, <2>1, <2>2
    <3>2. Untold(q, i)
      BY <3>1 DEF Untold
    <3> QED BY <1>1, <1>5, <2>1, <2>2, <3>2
  <2>3. CASE i = Len(r)
    <3>1. r[i] = m /\ Len(r) = Len(q) + 1
      BY <1>5, <2>3 DEF Pushed
    <3>2. m.t # "gone"
      BY <3>1 DEF Untold
    <3>3. ~Holds(q, "gone")
      <4>1. SUFFICES ASSUME NEW j \in 1..Len(q), q[j].t = "gone" PROVE FALSE
        BY DEF Holds
      <4>2. j \in 1..i /\ r[j] = q[j]
        BY <1>0, <2>1, <2>3, <3>1
      <4> QED BY <4>1, <4>2 DEF Untold
    <3> QED BY <1>0, <1>5, <2>3, <3>1, <3>2, <3>3
  <2> QED BY <1>5, <2>2, <2>3 DEF Pushed
<1> QED BY <1>2, <1>3, <1>4, <1>5 DEF OrderMoves

\* A frame is forwarded to a client that has been told of the peer.
LEMMA ToldBeforeFrames ==
    ASSUME TunnelTypes, VouchInv, NEW p \in attached, NEW d \in attached, side[p] # side[d],
           pc[p] = "run", 1 \in 1..Len(up[p]), up[p][1].t # "close"
    PROVE  Told(d)
<1>1. Vouched(p, d)
  BY DEF VouchInv
<1>2. ~Silent(p)
  BY DEF Silent, OnlyCloses
<1>3. pc[p] \notin Vouches
  BY DEF Vouches
<1> QED BY <1>1, <1>2, <1>3 DEF Vouched, Vouches

\* The frame at the head of the queue from a client is the one that is due.
LEMMA ForwardIsDue ==
    ASSUME TunnelTypes, HubInv, VouchInv, UpOrder, NEW c \in Conn, ForwardStep(c),
           NEW d \in Conn, d = peer[c], Listening(d)
    PROVE  /\ Told(d) /\ c \in attached /\ d \in attached /\ side[c] # side[d]
           /\ Order(up[c][1]) = Waits(d) + Len(down[d]) /\ Due(d) = Waits(d) + Len(down[d])
<1>1. /\ pc[c] = "run" /\ 1 \in 1..Len(up[c]) /\ up[c][1].t # "close" /\ peer[c] # NoConn
  BY DEF ForwardStep, PopUp
<1>2. c \in attached /\ d \in attached /\ side[c] # side[d]
  BY <1>1 DEF HubInv
<1>3. Told(d)
  BY <1>1, <1>2, ToldBeforeFrames
<1>4. Linked(c, d)
  BY <1>1 DEF Linked
<1>5. Due(d) \in Nat /\ Waits(d) \in Nat
  BY WaitsType
<1>6. Order(up[c][1]) = Due(d)
  BY <1>1, <1>2, <1>4, <1>5 DEF UpOrder, Continues
<1>7. Due(d) = Waits(d) + Len(down[d])
  BY <1>3, WaitsType DEF Told, Listening
<1> QED BY <1>2, <1>3, <1>6, <1>7

\* The queue towards a client stays in order.
LEMMA NextDownOrder ==
    ASSUME TunnelIInv, Undisturbed, CertInv, VouchInv, DownOrder, UpOrder, Next
    PROVE  DownOrder'
<1> USE DEF TunnelIInv
<1>0. \A c \in Conn : ~FailStep(c) /\ ~SkipVouch(c)
  BY NoError
<1>1. CASE Offer
  BY <1>1 DEF Offer, DownOrder, InOrder, Ended, Waits, client, server, fixed, past
<1>2. CASE Sweep
  BY <1>2 DEF Sweep, DownOrder, InOrder, Ended, Waits, client, server, fixed, past
<1>3. ASSUME NEW x \in Side, Rotate(x) PROVE DownOrder'
  BY <1>3 DEF Rotate, DownOrder, InOrder, Ended, Waits, client, server, fixed, past
<1>4. ASSUME NEW c \in Conn, TunnelStep(c) PROVE DownOrder'
  <2>1. CASE Connect(c)
    <3> SUFFICES ASSUME NEW d \in Conn PROVE OrderMoves(d) /\ (Ended(d) => Ended(d)')
      BY OrderKept DEF DownOrder
    <3>1. /\ down' = down /\ rcvd' = rcvd /\ \A q \in Conn : q # c => cl'[q] = cl[q]
          /\ pc[c] = "new"
      <4>1. CASE hub # NoTunnel
        BY <2>1, <4>1 DEF Connect, TunnelTypes
      <4>2. CASE hub = NoTunnel
        BY <2>1, <4>2 DEF Connect, TunnelTypes
      <4> QED BY <4>1, <4>2
    <3>2. down[c] = <<>> /\ ~Ended(c)
      BY <3>1 DEF AloneInv, Alone, HubInv, Early, ClientInv, ClientOf, Ended
    <3> QED BY <3>1, <3>2 DEF OrderMoves, Waits, Ended
  <2>2. CASE LookupFingerprint(c)
    <3> SUFFICES ASSUME NEW d \in Conn PROVE OrderMoves(d) /\ (Ended(d) => Ended(d)')
      BY OrderKept DEF DownOrder
    <3>1. UNCHANGED <<cl, rcvd, down>>
      BY <2>2 DEF LookupFingerprint, ServerSame, TableSame, ClientSame, QueuesSame, client,
         server, fixed, past
    <3> QED BY <3>1 DEF OrderMoves, Waits, Ended
  <2>3. CASE RegisterStep(c)
    <3> SUFFICES ASSUME NEW d \in Conn PROVE OrderMoves(d) /\ (Ended(d) => Ended(d)')
      BY OrderKept DEF DownOrder
    <3>1. UNCHANGED <<cl, rcvd, down>>
      BY <2>3 DEF RegisterStep, ServerSame, TableSame, ClientSame, QueuesSame, client, server,
         fixed, past
    <3> QED BY <3>1 DEF OrderMoves, Waits, Ended
  <2>4. CASE TooLateStep(c)
    <3> SUFFICES ASSUME NEW d \in Conn PROVE OrderMoves(d) /\ (Ended(d) => Ended(d)')
      BY OrderKept DEF DownOrder
    <3>1. UNCHANGED <<cl, rcvd, down>>
      BY <2>4 DEF TooLateStep, ServerSame, TableSame, ClientSame, QueuesSame, client, server,
         fixed, past
    <3> QED BY <3>1 DEF OrderMoves, Waits, Ended
  <2>5. CASE VouchMeStep(c)
    <3> SUFFICES ASSUME NEW d \in Conn PROVE OrderMoves(d) /\ (Ended(d) => Ended(d)')
      BY OrderKept DEF DownOrder
    <3>1. PICK m : m = VouchOf(peer[c])
      OBVIOUS
    <3>2. UNCHANGED <<cl, rcvd>>
      BY <2>5 DEF VouchMeStep, ServerSame, TableSame, ClientSame, QueuesSame, client, server,
         fixed, past
    <3>3. d # c => down'[d] = down[d]
      BY <2>5 DEF VouchMeStep, PushDown
    <3>4. d = c => down'[d] = down[d] \/ (Pushed(down[d], down'[d], m) /\ rx[d])
      BY <2>5, <3>1 DEF VouchMeStep, PushDown
    <3>5. d = c /\ rx[d] /\ ~Ended(d) /\ ~Holds(down[d], "gone") => m.t = "gone" \/ Order(m) = Waits(d) + Len(down[d])
      <4>1. c \in attached /\ peer[c] \in attached /\ side[peer[c]] # side[c] /\ pc[c] = "vouch_me"
        BY <2>5 DEF VouchMeStep, HubInv
      <4>2. PICK p \in attached : p = peer[c]
        BY <4>1
      <4>3. Vouched(p, c)
        BY <4>1, <4>2 DEF VouchInv
      <4>4. Silent(c) /\ \A i \in 1..Len(down[c]) : down[c][i].t = "gone"
        BY <4>1, <4>3 DEF Vouched
      <4>5. Order(m) = 0
        BY <3>1 DEF Order, VouchOf
      <4>6. ~Ended(c) => Waits(c) = 0
        BY <4>4 DEF Silent, Ended, Waits
      <4>7. ~Holds(down[c], "gone") => Len(down[c]) = 0
        BY <4>4, WaitsType DEF Holds
      <4> QED BY <4>5, <4>6, <4>7
    <3>6. Waits(d)' = Waits(d) /\ (Ended(d)' <=> Ended(d))
      BY <3>2 DEF Waits, Ended
    <3>7. CASE d = c /\ Pushed(down[d], down'[d], m) /\ rx[d] /\ ~Ended(d)
      BY <3>5, <3>6, <3>7 DEF OrderMoves
    <3> QED BY <3>3, <3>4, <3>6, <3>7 DEF OrderMoves
  <2>6. CASE VouchPeerStep(c)
    <3> SUFFICES ASSUME NEW d \in Conn PROVE OrderMoves(d) /\ (Ended(d) => Ended(d)')
      BY OrderKept DEF DownOrder
    <3>1. PICK m : m = VouchOf(c)
      OBVIOUS
    <3>2. UNCHANGED <<cl, rcvd>>
      BY <2>6 DEF VouchPeerStep, ServerSame, TableSame, ClientSame, QueuesSame, client, server,
         fixed, past
    <3>3. d # peer[c] => down'[d] = down[d]
      BY <2>6 DEF VouchPeerStep, PushDown
    <3>4. d = peer[c] => down'[d] = down[d] \/ (Pushed(down[d], down'[d], m) /\ rx[d])
      BY <2>6, <3>1 DEF VouchPeerStep, PushDown
    <3>5. d = peer[c] /\ rx[d] /\ ~Ended(d) /\ ~Holds(down[d], "gone") => m.t = "gone" \/ Order(m) = Waits(d) + Len(down[d])
      <4>1. c \in attached /\ peer[c] \in attached /\ side[peer[c]] # side[c] /\ pc[c] = "vouch_peer"
        BY <2>6 DEF VouchPeerStep, HubInv
      <4>2. PICK p \in attached : p = peer[c]
        BY <4>1
      <4>3. Vouched(p, c)
        BY <4>1, <4>2 DEF VouchInv
      <4>4. Silent(p) /\ Len(down[p]) = 0
        BY <4>1, <4>3 DEF Vouched, Vouches
      <4>5. Order(m) = 0
        BY <3>1 DEF Order, VouchOf
      <4>6. ~Ended(p) => Waits(p) = 0
        BY <4>4 DEF Silent, Ended, Waits
      <4> QED BY <4>2, <4>4, <4>5, <4>6
    <3>6. Waits(d)' = Waits(d) /\ (Ended(d)' <=> Ended(d))
      BY <3>2 DEF Waits, Ended
    <3>7. CASE d = peer[c] /\ Pushed(down[d], down'[d], m) /\ rx[d] /\ ~Ended(d)
      BY <3>5, <3>6, <3>7 DEF OrderMoves
    <3> QED BY <3>3, <3>4, <3>6, <3>7 DEF OrderMoves
  <2>7. CASE DropStep(c)
    <3> SUFFICES ASSUME NEW d \in Conn PROVE OrderMoves(d) /\ (Ended(d) => Ended(d)')
      BY OrderKept DEF DownOrder
    <3>1. UNCHANGED <<cl, rcvd, down>>
      BY <2>7 DEF DropStep, ServerSame, TableSame, ClientSame, QueuesSame, client, server,
         fixed, past
    <3> QED BY <3>1 DEF OrderMoves, Waits, Ended
  <2>8. CASE FindStep(c)
    <3> SUFFICES ASSUME NEW d \in Conn PROVE OrderMoves(d) /\ (Ended(d) => Ended(d)')
      BY OrderKept DEF DownOrder
    <3>1. UNCHANGED <<cl, rcvd, down>>
      BY <2>8 DEF FindStep, ServerSame, TableSame, ClientSame, QueuesSame, client, server,
         fixed, past
    <3> QED BY <3>1 DEF OrderMoves, Waits, Ended
  <2>9. CASE ForwardStep(c)
    <3> SUFFICES ASSUME NEW d \in Conn PROVE OrderMoves(d) /\ (Ended(d) => Ended(d)')
      BY OrderKept DEF DownOrder
    <3>1. PICK m : m = up[c][1]
      OBVIOUS
    <3>2. UNCHANGED <<cl, rcvd>>
      BY <2>9 DEF ForwardStep, ServerSame, TableSame, ClientSame, QueuesSame, client, server,
         fixed, past
    <3>3. d # peer[c] => down'[d] = down[d]
      BY <2>9 DEF ForwardStep, PushDown
    <3>4. d = peer[c] => down'[d] = down[d] \/ (Pushed(down[d], down'[d], m) /\ rx[d])
      BY <2>9, <3>1 DEF ForwardStep, PushDown
    <3>5. d = peer[c] /\ rx[d] /\ ~Ended(d) /\ ~Holds(down[d], "gone") => m.t = "gone" \/ Order(m) = Waits(d) + Len(down[d])
      <4>1. SUFFICES ASSUME d = peer[c], rx[d], ~Ended(d), ~Holds(down[d], "gone")
                PROVE  Order(m) = Waits(d) + Len(down[d])
        OBVIOUS
      <4>2. Listening(d)
        BY <4>1 DEF Listening
      <4> QED BY <2>9, <3>1, <4>1, <4>2, ForwardIsDue
    <3>6. Waits(d)' = Waits(d) /\ (Ended(d)' <=> Ended(d))
      BY <3>2 DEF Waits, Ended
    <3>7. CASE d = peer[c] /\ Pushed(down[d], down'[d], m) /\ rx[d] /\ ~Ended(d)
      BY <3>5, <3>6, <3>7 DEF OrderMoves
    <3> QED BY <3>3, <3>4, <3>6, <3>7 DEF OrderMoves
  <2>10. CASE ForwardFails(c)
    <3> SUFFICES ASSUME NEW d \in Conn PROVE OrderMoves(d) /\ (Ended(d) => Ended(d)')
      BY OrderKept DEF DownOrder
    <3>1. UNCHANGED <<cl, rcvd, down>>
      BY <2>10 DEF ForwardFails, ServerSame, TableSame, ClientSame, QueuesSame, client, server,
         fixed, past
    <3> QED BY <3>1 DEF OrderMoves, Waits, Ended
  <2>11. CASE SeeCloseStep(c)
    <3> SUFFICES ASSUME NEW d \in Conn PROVE OrderMoves(d) /\ (Ended(d) => Ended(d)')
      BY OrderKept DEF DownOrder
    <3>1. UNCHANGED <<cl, rcvd, down>>
      BY <2>11 DEF SeeCloseStep, ServerSame, TableSame, ClientSame, QueuesSame, client, server,
         fixed, past
    <3> QED BY <3>1 DEF OrderMoves, Waits, Ended
  <2>12. CASE TeardownStep(c)
    <3> SUFFICES ASSUME NEW d \in Conn PROVE OrderMoves(d) /\ (Ended(d) => Ended(d)')
      BY OrderKept DEF DownOrder
    <3>1. UNCHANGED <<cl, rcvd, down>>
      BY <2>12 DEF TeardownStep, ServerSame, TableSame, ClientSame, QueuesSame, client, server,
         fixed, past
    <3> QED BY <3>1 DEF OrderMoves, Waits, Ended
  <2>13. CASE TellStep(c)
    <3> SUFFICES ASSUME NEW d \in Conn PROVE OrderMoves(d) /\ (Ended(d) => Ended(d)')
      BY OrderKept DEF DownOrder
    <3>1. PICK m : m = [t |-> "gone"]
      OBVIOUS
    <3>2. UNCHANGED <<cl, rcvd>>
      BY <2>13 DEF TellStep, ServerSame, TableSame, ClientSame, QueuesSame, client, server,
         fixed, past
    <3>3. down'[d] = down[d] \/ Pushed(down[d], down'[d], m)
      BY <2>13, <3>1 DEF TellStep, PushDown
    <3>4. Waits(d)' = Waits(d) /\ (Ended(d)' <=> Ended(d)) /\ m.t = "gone"
      BY <3>1, <3>2 DEF Waits, Ended
    <3> QED BY <3>3, <3>4 DEF OrderMoves
  <2>14. CASE PumpStep(c)
    <3> SUFFICES ASSUME NEW d \in Conn PROVE OrderMoves(d) /\ (Ended(d) => Ended(d)')
      BY OrderKept DEF DownOrder
    <3>1. /\ rcvd' = rcvd /\ down'[c] = <<>> /\ (cl'[c] = cl[c] \/ cl'[c] = "closed")
          /\ \A q \in Conn : q # c => down'[q] = down[q] /\ cl'[q] = cl[q]
      BY <2>14 DEF PumpStep, TunnelTypes
    <3> QED BY <3>1 DEF OrderMoves, Waits, Ended
  <2>15. CASE SocketDrops(c)
    <3> SUFFICES ASSUME NEW d \in Conn PROVE OrderMoves(d) /\ (Ended(d) => Ended(d)')
      BY OrderKept DEF DownOrder
    <3>1. /\ rcvd' = rcvd /\ down' = down /\ cl' = [cl EXCEPT ![c] = "closed"]
      BY <2>15 DEF SocketDrops, ServerSame, TableSame, ClientSame, QueuesSame, client, server,
         fixed, past
    <3> QED BY <3>1 DEF OrderMoves, Waits, Ended, TunnelTypes
  <2>16. CASE FailStep(c)
    BY <2>16, <1>0
  <2>17. CASE TakeVouch(c)
    <3> SUFFICES ASSUME NEW d \in Conn PROVE OrderMoves(d) /\ (Ended(d) => Ended(d)')
      BY OrderKept DEF DownOrder
    <3>1. /\ \A q \in Conn : q # c => cl'[q] = cl[q] /\ rcvd'[q] = rcvd[q] /\ down'[q] = down[q]
          /\ Popped(down[c], down'[c]) /\ down[c][1].t # "gone" /\ ~Ended(c)
      BY <2>17 DEF TakeVouch, PopDown, Ended, TunnelTypes
    <3>2. rcvd[c] \in Nat
      BY TunnelAssumption DEF TunnelTypes
    <3>3. Waits(c)' = Waits(c) + 1
      BY <2>17, <3>2 DEF TakeVouch, Waits, TunnelTypes
    <3> QED BY <3>1, <3>3 DEF OrderMoves, Waits, Ended
  <2>18. CASE TakeKey(c)
    <3> SUFFICES ASSUME NEW d \in Conn PROVE OrderMoves(d) /\ (Ended(d) => Ended(d)')
      BY OrderKept DEF DownOrder
    <3>1. /\ \A q \in Conn : q # c => cl'[q] = cl[q] /\ rcvd'[q] = rcvd[q] /\ down'[q] = down[q]
          /\ Popped(down[c], down'[c]) /\ down[c][1].t # "gone" /\ ~Ended(c)
      BY <2>18 DEF TakeKey, PopDown, Ended, TunnelTypes
    <3>2. rcvd[c] \in Nat
      BY TunnelAssumption DEF TunnelTypes
    <3>3. Waits(c)' = Waits(c) + 1
      BY <2>18, <3>2 DEF TakeKey, Waits, TunnelTypes
    <3> QED BY <3>1, <3>3 DEF OrderMoves, Waits, Ended
  <2>19. CASE TakeHandshake(c)
    <3> SUFFICES ASSUME NEW d \in Conn PROVE OrderMoves(d) /\ (Ended(d) => Ended(d)')
      BY OrderKept DEF DownOrder
    <3>1. /\ \A q \in Conn : q # c => cl'[q] = cl[q] /\ rcvd'[q] = rcvd[q] /\ down'[q] = down[q]
          /\ Popped(down[c], down'[c]) /\ down[c][1].t # "gone" /\ ~Ended(c)
      BY <2>19 DEF TakeHandshake, PopDown, Ended, TunnelTypes
    <3>2. rcvd[c] = 0
      <4>1. ~Past(c)
        BY <2>19 DEF TakeHandshake, Past
      <4> QED BY <4>1 DEF ClientInv, ClientOf
    <3>3. Waits(c)' = Waits(c) + 1
      BY <2>19, <3>2 DEF TakeHandshake, Waits, TunnelTypes
    <3> QED BY <3>1, <3>3 DEF OrderMoves, Waits, Ended
  <2>20. CASE TakeData(c)
    <3> SUFFICES ASSUME NEW d \in Conn PROVE OrderMoves(d) /\ (Ended(d) => Ended(d)')
      BY OrderKept DEF DownOrder
    <3>1. /\ \A q \in Conn : q # c => cl'[q] = cl[q] /\ rcvd'[q] = rcvd[q] /\ down'[q] = down[q]
          /\ Popped(down[c], down'[c]) /\ down[c][1].t # "gone" /\ ~Ended(c)
      BY <2>20 DEF TakeData, PopDown, Ended, TunnelTypes
    <3>2. rcvd[c] \in Nat
      BY TunnelAssumption DEF TunnelTypes
    <3>3. Waits(c)' = Waits(c) + 1
      BY <2>20, <3>2 DEF TakeData, Waits, TunnelTypes
    <3> QED BY <3>1, <3>3 DEF OrderMoves, Waits, Ended
  <2>21. CASE SkipVouch(c)
    BY <2>21, <1>0
  <2>22. CASE DataStep(c)
    <3> SUFFICES ASSUME NEW d \in Conn PROVE OrderMoves(d) /\ (Ended(d) => Ended(d)')
      BY OrderKept DEF DownOrder
    <3>1. UNCHANGED <<cl, rcvd, down>>
      BY <2>22 DEF DataStep, ServerSame, TableSame, ClientSame, QueuesSame, client, server,
         fixed, past
    <3> QED BY <3>1 DEF OrderMoves, Waits, Ended
  <2>23. CASE CloseStep(c)
    <3> SUFFICES ASSUME NEW d \in Conn PROVE OrderMoves(d) /\ (Ended(d) => Ended(d)')
      BY OrderKept DEF DownOrder
    <3>1. /\ rcvd' = rcvd /\ down' = down /\ cl' = [cl EXCEPT ![c] = "closed"]
      BY <2>23 DEF CloseStep, ServerSame, TableSame, ClientSame, QueuesSame, client, server,
         fixed, past
    <3> QED BY <3>1 DEF OrderMoves, Waits, Ended, TunnelTypes
  <2> QED BY <1>4, <2>1, <2>2, <2>3, <2>4, <2>5, <2>6, <2>7, <2>8, <2>9, <2>10, <2>11, <2>12,
     <2>13, <2>14, <2>15, <2>16, <2>17, <2>18, <2>19, <2>20, <2>21, <2>22, <2>23 DEF TunnelStep
<1> QED BY <1>1, <1>2, <1>3, <1>4, StepCases

\* What a step may do to the queue from a client, in order.
FlowMoves(p, d) ==
    \/ /\ Due(d)' = Due(d) /\ up'[p] = up[p]
       /\ Ended(p)' \/ Speaks(p)' = Speaks(p)
    \/ /\ Due(d)' = Due(d)
       /\ \E m : /\ Pushed(up[p], up'[p], m)
                 /\ \/ m.t = "close" /\ Ended(p)'
                    \/ ~Ended(p) /\ Order(m) = Speaks(p) /\ Speaks(p)' = Speaks(p) + 1
    \/ /\ Due(d)' = Due(d) + 1 /\ Popped(up[p], up'[p]) /\ Speaks(p)' = Speaks(p)

\* The frames from a client stay in order when its queue moves in order.
LEMMA FlowKept ==
    ASSUME TunnelTypes, NEW p \in Conn, NEW d \in Conn, Continues(p, d), FlowMoves(p, d),
           Ended(p) => Ended(p)',
           Linked(p, d)' => Linked(p, d), Listening(d)' => Listening(d)
    PROVE  Continues(p, d)'
<1> DEFINE U == Due(d)
           V == Due(d)'
           q == up[p]
           r == up'[p]
<1>0. U \in Nat /\ Len(q) \in Nat /\ Speaks(p) \in Nat
  BY WaitsType
<1> SUFFICES ASSUME Linked(p, d), Listening(d)
             PROVE  /\ \A i \in 1..Len(r) : r[i].t # "close" => Order(r[i]) = V + i - 1
                    /\ ~Ended(p)' => Speaks(p)' = V + Len(r)
  BY DEF Continues
<1>1. \A i \in 1..Len(q) : q[i].t # "close" => Order(q[i]) = U + i - 1
  BY DEF Continues
<1>2. ~Ended(p) => Speaks(p) = U + Len(q)
  BY DEF Continues
<1>3. CASE V = U /\ r = q /\ (Ended(p)' \/ Speaks(p)' = Speaks(p))
  BY <1>1, <1>2, <1>3
<1>4. ASSUME V = U, NEW m, Pushed(q, r, m),
             \/ m.t = "close" /\ Ended(p)'
             \/ ~Ended(p) /\ Order(m) = Speaks(p) /\ Speaks(p)' = Speaks(p) + 1
      PROVE  /\ \A i \in 1..Len(r) : r[i].t # "close" => Order(r[i]) = V + i - 1
             /\ ~Ended(p)' => Speaks(p)' = V + Len(r)
  <2>1. Len(r) = Len(q) + 1 /\ r[Len(r)] = m
    BY <1>4 DEF Pushed
  <2>2. ASSUME NEW i \in 1..Len(r), r[i].t # "close"
        PROVE  Order(r[i]) = V + i - 1
    <3>1. CASE i \in 1..Len(q) /\ r[i] = q[i]
      BY <1>1, <1>4, <2>2, <3>1
    <3>2. CASE i = Len(r)
      BY <1>0, <1>2, <1>4, <2>1, <2>2, <3>2
    <3> QED BY <1>4, <3>1, <3>2 DEF Pushed
  <2>3. ~Ended(p)' => Speaks(p)' = V + Len(r)
    BY <1>0, <1>2, <1>4, <2>1
  <2> QED BY <2>2, <2>3
<1>5. CASE V = U + 1 /\ Popped(q, r) /\ Speaks(p)' = Speaks(p)
  <2>1. ASSUME NEW i \in 1..Len(r), r[i].t # "close"
        PROVE  Order(r[i]) = V + i - 1
    <3>1. i + 1 \in 1..Len(q) /\ r[i] = q[i + 1]
      BY <1>5 DEF Popped
    <3>2. Order(q[i + 1]) = U + (i + 1) - 1
      BY <1>1, <2>1, <3>1
    <3> QED BY <1>0, <1>5, <3>1, <3>2
  <2>2. Len(r) = Len(q) - 1 /\ Len(q) # 0
    BY <1>5 DEF Popped
  <2>3. ~Ended(p)' => Speaks(p)' = V + Len(r)
    BY <1>0, <1>2, <1>5, <2>2
  <2> QED BY <2>1, <2>3
<1> QED BY <1>3, <1>4, <1>5 DEF FlowMoves

\* A client that takes a message is owed the same as before.
LEMMA DueTaken ==
    ASSUME TunnelTypes, TunnelTypes', NEW d \in Conn, Popped(down[d], down'[d]),
           Waits(d)' = Waits(d) + 1
    PROVE  Due(d)' = Due(d)
<1>1. Waits(d) \in Nat /\ Len(down[d]) \in Nat /\ Len(down[d]) # 0
  BY WaitsType DEF Popped
<1>2. Len(down'[d]) = Len(down[d]) - 1
  BY DEF Popped
<1> QED BY <1>1, <1>2 DEF Due

\* Nothing that the pair's state is made of.
LEMMA DueSame ==
    ASSUME NEW d \in Conn, cl'[d] = cl[d], rcvd'[d] = rcvd[d], down'[d] = down[d]
    PROVE  Due(d)' = Due(d)
  BY DEF Due, Waits

\* A client that says nothing is at the same place of its script.
LEMMA SpeaksSame ==
    ASSUME NEW p \in Conn, cl'[p] = cl[p], sent'[p] = sent[p]
    PROVE  Speaks(p)' = Speaks(p) /\ (Ended(p)' <=> Ended(p))
  BY DEF Speaks, Ended

\* A step of a pair moves the queue from one to the other in order.
LEMMA NextFlow ==
    ASSUME TunnelIInv, TunnelTypes', Undisturbed, CertInv, VouchInv, DownOrder, UpOrder, Next,
           NEW p \in attached, NEW d \in attached, side[p] # side[d], attached' = attached,
           Linked(p, d)', Listening(d)'
    PROVE  FlowMoves(p, d) /\ (Ended(p) => Ended(p)')
<1> USE DEF TunnelIInv
<1>00. \A c \in Conn : ~FailStep(c) /\ ~SkipVouch(c)
  BY NoError
<1>0. /\ p \in Conn /\ d \in Conn /\ p # d /\ p # NoConn /\ d # NoConn /\ side[p] # side[d]
      /\ Linked(p, d)' /\ Linked(p, d) /\ Listening(d)' /\ Listening(d)
      /\ \A q \in attached : (q = p \/ q = d) /\ pc[q] \notin Early
      /\ p \in attached /\ d \in attached /\ attached' = attached
  <2>1. p \in Conn /\ d \in Conn /\ p # d /\ p # NoConn /\ d # NoConn
    BY TunnelAssumption DEF TunnelTypes
  <2>2. Linked(p, d) /\ Listening(d)
    BY LinkedBefore, ListeningBefore
  <2>3. \A q \in attached : q = p \/ q = d
    BY PairOnly
  <2>4. \A q \in attached : pc[q] \notin Early
    BY DEF HubInv
  <2> QED BY <2>1, <2>2, <2>3, <2>4
<1>1. CASE Offer
  <2>1. UNCHANGED <<cl, rcvd, sent, down, up>>
    BY <1>1 DEF Offer, client, server, fixed, past
  <2>2. Due(d)' = Due(d) /\ Speaks(p)' = Speaks(p) /\ (Ended(p)' <=> Ended(p))
    BY <2>1, <1>0, DueSame, SpeaksSame
  <2> QED BY <2>1, <2>2 DEF FlowMoves
<1>2. CASE Sweep
  <2>1. UNCHANGED <<cl, rcvd, sent, down, up>>
    BY <1>2 DEF Sweep, client, server, fixed, past
  <2>2. Due(d)' = Due(d) /\ Speaks(p)' = Speaks(p) /\ (Ended(p)' <=> Ended(p))
    BY <2>1, <1>0, DueSame, SpeaksSame
  <2> QED BY <2>1, <2>2 DEF FlowMoves
<1>3. ASSUME NEW x \in Side, Rotate(x) PROVE FlowMoves(p, d) /\ (Ended(p) => Ended(p)')
  <2>1. UNCHANGED <<cl, rcvd, sent, down, up>>
    BY <1>3 DEF Rotate, client, server, fixed, past
  <2>2. Due(d)' = Due(d) /\ Speaks(p)' = Speaks(p) /\ (Ended(p)' <=> Ended(p))
    BY <2>1, <1>0, DueSame, SpeaksSame
  <2> QED BY <2>1, <2>2 DEF FlowMoves
<1>4. ASSUME NEW c \in Conn, TunnelStep(c) PROVE FlowMoves(p, d) /\ (Ended(p) => Ended(p)')
  <2>1. CASE Connect(c)
    <3>1. c # p /\ c # d
      BY <2>1, <1>0 DEF Connect, Early
    <3>2. UNCHANGED <<rcvd, sent, down, up>> /\ cl'[p] = cl[p] /\ cl'[d] = cl[d]
      <4>1. CASE hub # NoTunnel
        BY <2>1, <4>1, <3>1, <1>0 DEF Connect, TunnelTypes
      <4>2. CASE hub = NoTunnel
        BY <2>1, <4>2, <3>1, <1>0 DEF Connect, TunnelTypes
      <4> QED BY <4>1, <4>2
    <3>3. Due(d)' = Due(d) /\ Speaks(p)' = Speaks(p) /\ (Ended(p)' <=> Ended(p))
      BY <3>2, <1>0, DueSame, SpeaksSame
    <3> QED BY <3>2, <3>3 DEF FlowMoves
  <2>2. CASE LookupFingerprint(c)
    <3>1. UNCHANGED <<cl, rcvd, sent, down, up>>
      BY <2>2 DEF LookupFingerprint, ServerSame, TableSame, ClientSame, QueuesSame, client,
         server, fixed, past
    <3>2. Due(d)' = Due(d) /\ Speaks(p)' = Speaks(p) /\ (Ended(p)' <=> Ended(p))
      BY <3>1, <1>0, DueSame, SpeaksSame
    <3> QED BY <3>1, <3>2 DEF FlowMoves
  <2>3. CASE RegisterStep(c)
    BY <2>3, <1>0 DEF RegisterStep, Early
  <2>4. CASE TooLateStep(c)
    <3>1. UNCHANGED <<cl, rcvd, sent, down, up>>
      BY <2>4 DEF TooLateStep, ServerSame, TableSame, ClientSame, QueuesSame, client, server,
         fixed, past
    <3>2. Due(d)' = Due(d) /\ Speaks(p)' = Speaks(p) /\ (Ended(p)' <=> Ended(p))
      BY <3>1, <1>0, DueSame, SpeaksSame
    <3> QED BY <3>1, <3>2 DEF FlowMoves
  <2>5. CASE VouchMeStep(c)
    <3>1. c \in attached /\ peer[c] \in attached /\ side[peer[c]] # side[c] /\ UNCHANGED <<cl, rcvd, sent, up>>
      BY <2>5 DEF VouchMeStep, HubInv, ClientSame
    <3>2. Speaks(p)' = Speaks(p) /\ (Ended(p)' <=> Ended(p)) /\ Waits(d)' = Waits(d)
      BY <3>1, <1>0, SpeaksSame DEF Waits
    <3>3. CASE d # c
      <4>1. down'[d] = down[d]
        BY <2>5, <3>3, <1>0 DEF VouchMeStep, PushDown
      <4> QED BY <3>1, <3>2, <4>1, <1>0, DueSame DEF FlowMoves
    <3>4. CASE d = c
      <4>1. Silent(d) /\ Len(down[d]) = 0
        <5>1. Vouched(p, d) /\ pc[d] = "vouch_me"
          BY <2>5, <3>4, <1>0 DEF VouchInv, VouchMeStep
        <5>2. Silent(d) /\ Gones(down[d])
          BY <5>1 DEF Vouched, Gones
        <5>3. Len(down[d]) \in Nat
          BY <1>0, WaitsType
        <5>4. ~Holds(down[d], "gone")
          BY <1>0 DEF Listening
        <5> QED BY <5>2, <5>3, <5>4, NoGones
      <4>2. cl[d] = "vouch" /\ rx[d]
        BY <4>1, <1>0 DEF Silent, Listening, Ended
      <4>3. PICK m : m = VouchOf(peer[c])
        OBVIOUS
      <4>4. Pushed(down[d], down'[d], m)
        BY <2>5, <3>4, <4>2, <4>3, <1>0 DEF VouchMeStep, PushDown
      <4>5. Waits(d) = 0 /\ Len(down'[d]) = 1
        BY <4>1, <4>2, <4>4 DEF Waits, Pushed
      <4>6. Due(d)' = Due(d)
        BY <3>2, <4>1, <4>5 DEF Due
      <4> QED BY <3>1, <3>2, <4>6 DEF FlowMoves
    <3> QED BY <3>3, <3>4
  <2>6. CASE VouchPeerStep(c)
    <3>1. c \in attached /\ peer[c] \in attached /\ side[peer[c]] # side[c] /\ UNCHANGED <<cl, rcvd, sent, up>>
      BY <2>6 DEF VouchPeerStep, HubInv, ClientSame
    <3>2. Speaks(p)' = Speaks(p) /\ (Ended(p)' <=> Ended(p)) /\ Waits(d)' = Waits(d)
      BY <3>1, <1>0, SpeaksSame DEF Waits
    <3>3. CASE d # peer[c]
      <4>1. down'[d] = down[d]
        BY <2>6, <3>3, <1>0 DEF VouchPeerStep, PushDown
      <4> QED BY <3>1, <3>2, <4>1, <1>0, DueSame DEF FlowMoves
    <3>4. CASE d = peer[c]
      <4>1. Silent(d) /\ Len(down[d]) = 0
        <5>1. c = p /\ pc[c] = "vouch_peer"
          BY <2>6, <3>1, <3>4, <1>0 DEF VouchPeerStep
        <5>2. Vouched(d, p)
          BY <1>0 DEF VouchInv
        <5> QED BY <5>1, <5>2 DEF Vouched, Vouches
      <4>2. cl[d] = "vouch" /\ rx[d]
        BY <4>1, <1>0 DEF Silent, Listening, Ended
      <4>3. PICK m : m = VouchOf(c)
        OBVIOUS
      <4>4. Pushed(down[d], down'[d], m)
        BY <2>6, <3>4, <4>2, <4>3, <1>0 DEF VouchPeerStep, PushDown
      <4>5. Waits(d) = 0 /\ Len(down'[d]) = 1
        BY <4>1, <4>2, <4>4 DEF Waits, Pushed
      <4>6. Due(d)' = Due(d)
        BY <3>2, <4>1, <4>5 DEF Due
      <4> QED BY <3>1, <3>2, <4>6 DEF FlowMoves
    <3> QED BY <3>3, <3>4
  <2>7. CASE DropStep(c)
    <3>1. c # p
      <4>1. SUFFICES ASSUME c = p PROVE FALSE
        OBVIOUS
      <4>2. peer[p] = NoConn /\ hub # NoTunnel => hub.to[Other(side[p])] = NoConn
        BY <2>7, <4>1 DEF DropStep, PeerInHub
      <4>3. Other(side[p]) = side[d]
        BY <1>0, SideFacts DEF TunnelTypes
      <4> QED BY <2>7, <4>1, <4>2, <4>3, <1>0 DEF Linked, DropStep
    <3>2. UNCHANGED <<cl, rcvd, sent, down>> /\ up'[p] = up[p]
      BY <2>7, <3>1, <1>0 DEF DropStep, PopUp, ClientSame
    <3>3. Due(d)' = Due(d) /\ Speaks(p)' = Speaks(p) /\ (Ended(p)' <=> Ended(p))
      BY <3>2, <1>0, DueSame, SpeaksSame
    <3> QED BY <3>2, <3>3 DEF FlowMoves
  <2>8. CASE FindStep(c)
    <3>1. UNCHANGED <<cl, rcvd, sent, down, up>>
      BY <2>8 DEF FindStep, ServerSame, TableSame, ClientSame, QueuesSame, client, server,
         fixed, past
    <3>2. Due(d)' = Due(d) /\ Speaks(p)' = Speaks(p) /\ (Ended(p)' <=> Ended(p))
      BY <3>1, <1>0, DueSame, SpeaksSame
    <3> QED BY <3>1, <3>2 DEF FlowMoves
  <2>9. CASE ForwardStep(c)
    <3>1. c \in attached /\ peer[c] \in attached /\ side[peer[c]] # side[c]
      BY <2>9 DEF ForwardStep, HubInv
    <3>2. UNCHANGED <<cl, rcvd, sent>>
      BY <2>9 DEF ForwardStep, ClientSame
    <3>3. Speaks(p)' = Speaks(p) /\ (Ended(p)' <=> Ended(p)) /\ Waits(d)' = Waits(d)
      BY <3>2, <1>0, SpeaksSame DEF Waits
    <3>4. CASE c = p
      <4>1. d = peer[c] /\ rx[d]
        BY <2>9, <3>4, <1>0 DEF Linked, ForwardStep
      <4>2. Popped(up[p], up'[p])
        BY <2>9, <3>4 DEF ForwardStep, PopUp
      <4>3. PICK m : m = up[c][1]
        OBVIOUS
      <4>4. Pushed(down[d], down'[d], m)
        BY <2>9, <4>1, <4>3 DEF ForwardStep, PushDown
      <4>5. Due(d) = Waits(d) + Len(down[d]) /\ Told(d)
        BY <2>9, <4>1, <1>0, ForwardIsDue
      <4>6. Waits(d) \in Nat /\ Len(down[d]) \in Nat /\ Len(down'[d]) = Len(down[d]) + 1
        BY <4>4, <1>0, WaitsType DEF Pushed
      <4>7. Due(d)' = Due(d) + 1
        BY <3>3, <4>5, <4>6 DEF Due
      <4> QED BY <3>3, <4>2, <4>7 DEF FlowMoves
    <3>5. CASE c # p
      <4>1. c = d /\ peer[c] # d
        BY <3>1, <3>5, <1>0
      <4>2. down'[d] = down[d] /\ up'[p] = up[p]
        BY <2>9, <4>1, <3>5, <1>0 DEF ForwardStep, PushDown, PopUp
      <4>3. Due(d)' = Due(d)
        BY <3>2, <4>2, <1>0, DueSame
      <4> QED BY <3>3, <4>2, <4>3 DEF FlowMoves
    <3> QED BY <3>4, <3>5
  <2>10. CASE ForwardFails(c)
    <3>1. c # p
      BY <2>10, <1>0 DEF ForwardFails, Linked, Vouches, TunnelTypes
    <3>2. UNCHANGED <<cl, rcvd, sent, down>> /\ up'[p] = up[p]
      BY <2>10, <3>1, <1>0 DEF ForwardFails, PopUp, ClientSame
    <3>3. Due(d)' = Due(d) /\ Speaks(p)' = Speaks(p) /\ (Ended(p)' <=> Ended(p))
      BY <3>2, <1>0, DueSame, SpeaksSame
    <3> QED BY <3>2, <3>3 DEF FlowMoves
  <2>11. CASE SeeCloseStep(c)
    <3>1. c # p
      BY <2>11, <1>0 DEF SeeCloseStep, Linked, Vouches, TunnelTypes
    <3>2. UNCHANGED <<cl, rcvd, sent, down>> /\ up'[p] = up[p]
      BY <2>11, <3>1, <1>0 DEF SeeCloseStep, PopUp, ClientSame
    <3>3. Due(d)' = Due(d) /\ Speaks(p)' = Speaks(p) /\ (Ended(p)' <=> Ended(p))
      BY <3>2, <1>0, DueSame, SpeaksSame
    <3> QED BY <3>2, <3>3 DEF FlowMoves
  <2>12. CASE TeardownStep(c)
    <3>1. UNCHANGED <<cl, rcvd, sent, down, up>>
      BY <2>12 DEF TeardownStep, ServerSame, TableSame, ClientSame, QueuesSame, client, server,
         fixed, past
    <3>2. Due(d)' = Due(d) /\ Speaks(p)' = Speaks(p) /\ (Ended(p)' <=> Ended(p))
      BY <3>1, <1>0, DueSame, SpeaksSame
    <3> QED BY <3>1, <3>2 DEF FlowMoves
  <2>13. CASE TellStep(c)
    <3>1. UNCHANGED <<cl, rcvd, sent, up, rx>>
      BY <2>13 DEF TellStep, ClientSame
    <3>2. PICK m : m = [t |-> "gone"]
      OBVIOUS
    <3>3. down'[d] = down[d] \/ Pushed(down[d], down'[d], m)
      BY <2>13, <3>2, <1>0 DEF TellStep, PushDown
    <3>4. ~Pushed(down[d], down'[d], m)
      BY <3>2, <1>0, GoneFacts DEF Listening
    <3>5. Due(d)' = Due(d) /\ Speaks(p)' = Speaks(p) /\ (Ended(p)' <=> Ended(p))
      BY <3>1, <3>3, <3>4, <1>0, DueSame, SpeaksSame
    <3> QED BY <3>1, <3>5 DEF FlowMoves
  <2>14. CASE PumpStep(c)
    <3>1. c # d
      BY <2>14, <1>0 DEF PumpStep, Listening, TunnelTypes
    <3>2. Due(d)' = Due(d)
      BY <2>14, <3>1, <1>0, DueSame DEF PumpStep, TunnelTypes
    <3>3. PICK m : m = [t |-> "close"]
      OBVIOUS
    <3>4. sent' = sent
      BY <2>14 DEF PumpStep
    <3>5. CASE cl'[p] = cl[p] /\ up'[p] = up[p]
      BY <3>2, <3>4, <3>5, <1>0, SpeaksSame DEF FlowMoves
    <3>6. CASE cl'[p] = "closed" /\ Pushed(up[p], up'[p], m)
      <4>1. Ended(p)' /\ m.t = "close"
        BY <3>3, <3>6 DEF Ended
      <4> QED BY <3>2, <3>6, <4>1 DEF FlowMoves
    <3>7. (cl'[p] = cl[p] /\ up'[p] = up[p]) \/ (cl'[p] = "closed" /\ Pushed(up[p], up'[p], m))
      BY <2>14, <3>3, <1>0 DEF PumpStep, PushUp, TunnelTypes
    <3> QED BY <3>5, <3>6, <3>7
  <2>15. CASE SocketDrops(c)
    <3>1. c # d
      BY <2>15, <1>0 DEF SocketDrops, Listening, Ended, TunnelTypes
    <3>2. UNCHANGED <<rcvd, sent, down, up>> /\ cl' = [cl EXCEPT ![c] = "closed"]
      BY <2>15 DEF SocketDrops
    <3>3. Due(d)' = Due(d)
      BY <3>1, <3>2, <1>0, DueSame DEF TunnelTypes
    <3>4. CASE c = p
      BY <3>2, <3>3, <3>4, <1>0 DEF FlowMoves, Ended, TunnelTypes
    <3>5. CASE c # p
      BY <3>2, <3>3, <3>5, <1>0, SpeaksSame DEF FlowMoves, TunnelTypes
    <3> QED BY <3>4, <3>5
  <2>16. CASE FailStep(c)
    BY <2>16, <1>00
  <2>17. CASE TakeVouch(c)
    <3>1. /\ \A q \in Conn : q # c => cl'[q] = cl[q] /\ rcvd'[q] = rcvd[q] /\ down'[q] = down[q]
          /\ Popped(down[c], down'[c]) /\ sent' = sent
      BY <2>17 DEF TakeVouch, PopDown, TunnelTypes
    <3>2. Due(d)' = Due(d)
      <4>1. CASE c # d
        BY <3>1, <4>1, <1>0, DueSame
      <4>2. CASE c = d
        <5>1. rcvd[c] \in Nat
          BY TunnelAssumption DEF TunnelTypes
        <5>2. Waits(c)' = Waits(c) + 1
          BY <2>17, <5>1 DEF TakeVouch, Waits, TunnelTypes
        <5> QED BY <3>1, <4>2, <5>2, <1>0, DueTaken
      <4> QED BY <4>1, <4>2
    <3>3. CASE c # p
      <4>1. up'[p] = up[p]
        BY <2>17, <3>3, <1>0 DEF TakeVouch, PushUp
      <4> QED BY <3>1, <3>2, <3>3, <4>1, <1>0, SpeaksSame DEF FlowMoves
    <3>4. CASE c = p
      <4>1. PICK m : m = [t |-> "eph", of |-> c]
        OBVIOUS
      <4>2. Pushed(up[p], up'[p], m)
        BY <2>17, <3>4, <4>1 DEF TakeVouch, PushUp
      <4>3. Order(m) = 1
        BY <4>1 DEF Order, Signed
      <4>4. Speaks(p) = 1 /\ Speaks(p)' = 2 /\ ~Ended(p)
        BY <2>17, <3>4 DEF TakeVouch, Speaks, Ended, TunnelTypes
      <4> QED BY <3>2, <4>2, <4>3, <4>4 DEF FlowMoves
    <3> QED BY <3>3, <3>4
  <2>18. CASE TakeKey(c)
    <3>1. /\ \A q \in Conn : q # c => cl'[q] = cl[q] /\ rcvd'[q] = rcvd[q] /\ down'[q] = down[q]
          /\ Popped(down[c], down'[c]) /\ sent' = sent
      BY <2>18 DEF TakeKey, PopDown, TunnelTypes
    <3>2. Due(d)' = Due(d)
      <4>1. CASE c # d
        BY <3>1, <4>1, <1>0, DueSame
      <4>2. CASE c = d
        <5>1. rcvd[c] \in Nat
          BY TunnelAssumption DEF TunnelTypes
        <5>2. Waits(c)' = Waits(c) + 1
          BY <2>18, <5>1 DEF TakeKey, Waits, TunnelTypes
        <5> QED BY <3>1, <4>2, <5>2, <1>0, DueTaken
      <4> QED BY <4>1, <4>2
    <3>3. CASE c # p
      <4>1. up'[p] = up[p]
        BY <2>18, <3>3, <1>0 DEF TakeKey, PushUp
      <4> QED BY <3>1, <3>2, <3>3, <4>1, <1>0, SpeaksSame DEF FlowMoves
    <3>4. CASE c = p
      <4>1. PICK m : m = Signed(c, down[c][1].of)
        OBVIOUS
      <4>2. Pushed(up[p], up'[p], m)
        BY <2>18, <3>4, <4>1 DEF TakeKey, PushUp
      <4>3. Order(m) = 2
        BY <4>1 DEF Order, Signed
      <4>5. ~Past(p) /\ cl[p] = "eph" /\ cl'[p] = "hs"
        BY <2>18, <3>4 DEF TakeKey, Past, TunnelTypes
      <4>6. sent[p] = 0
        BY <1>0, <4>5 DEF ClientInv, ClientOf
      <4>4. Speaks(p) = 2 /\ Speaks(p)' = 3 /\ ~Ended(p)
        BY <3>1, <4>5, <4>6 DEF Speaks, Ended
      <4> QED BY <3>2, <4>2, <4>3, <4>4 DEF FlowMoves
    <3> QED BY <3>3, <3>4
  <2>19. CASE TakeHandshake(c)
    <3>1. /\ \A q \in Conn : q # c => cl'[q] = cl[q] /\ rcvd'[q] = rcvd[q] /\ down'[q] = down[q]
          /\ Popped(down[c], down'[c]) /\ sent' = sent
      BY <2>19 DEF TakeHandshake, PopDown, TunnelTypes
    <3>2. Due(d)' = Due(d)
      <4>1. CASE c # d
        BY <3>1, <4>1, <1>0, DueSame
      <4>2. CASE c = d
        <5>1. rcvd[c] \in Nat /\ rcvd[c] = 0
          <6>1. ~Past(c)
            BY <2>19 DEF TakeHandshake, Past
          <6> QED BY <6>1 DEF ClientInv, ClientOf
        <5>2. Waits(c)' = Waits(c) + 1
          BY <2>19, <5>1 DEF TakeHandshake, Waits, TunnelTypes
        <5> QED BY <3>1, <4>2, <5>2, <1>0, DueTaken
      <4> QED BY <4>1, <4>2
    <3>3. CASE c # p
      <4>1. up'[p] = up[p]
        BY <2>19, <3>3, <1>0 DEF TakeHandshake, PushUp
      <4> QED BY <3>1, <3>2, <3>3, <4>1, <1>0, SpeaksSame DEF FlowMoves
    <3>4. CASE c = p
      <4>1. up' = up /\ Speaks(p)' = Speaks(p) /\ ~Ended(p)
        BY <2>19, <3>1, <3>4 DEF TakeHandshake, Speaks, Ended, TunnelTypes
      <4> QED BY <3>2, <4>1 DEF FlowMoves
    <3> QED BY <3>3, <3>4
  <2>20. CASE TakeData(c)
    <3>1. /\ \A q \in Conn : q # c => cl'[q] = cl[q] /\ rcvd'[q] = rcvd[q] /\ down'[q] = down[q]
          /\ Popped(down[c], down'[c]) /\ sent' = sent
      BY <2>20 DEF TakeData, PopDown, TunnelTypes
    <3>2. Due(d)' = Due(d)
      <4>1. CASE c # d
        BY <3>1, <4>1, <1>0, DueSame
      <4>2. CASE c = d
        <5>1. rcvd[c] \in Nat
          BY TunnelAssumption DEF TunnelTypes
        <5>2. Waits(c)' = Waits(c) + 1
          BY <2>20, <5>1 DEF TakeData, Waits, TunnelTypes
        <5> QED BY <3>1, <4>2, <5>2, <1>0, DueTaken
      <4> QED BY <4>1, <4>2
    <3>3. CASE c # p
      <4>1. up'[p] = up[p]
        BY <2>20, <3>3, <1>0 DEF TakeData, PushUp
      <4> QED BY <3>1, <3>2, <3>3, <4>1, <1>0, SpeaksSame DEF FlowMoves
    <3>4. CASE c = p
      <4>1. up' = up /\ Speaks(p)' = Speaks(p) /\ ~Ended(p)
        BY <2>20, <3>1, <3>4 DEF TakeData, Speaks, Ended, TunnelTypes
      <4> QED BY <3>2, <4>1 DEF FlowMoves
    <3> QED BY <3>3, <3>4
  <2>21. CASE SkipVouch(c)
    BY <2>21, <1>00
  <2>22. CASE DataStep(c)
    <3>1. UNCHANGED <<cl, rcvd, down>> /\ sent' = [sent EXCEPT ![c] = @ + 1] /\ cl[c] = "open"
      BY <2>22 DEF DataStep
    <3>2. Due(d)' = Due(d)
      BY <3>1, <1>0, DueSame
    <3>3. CASE c = p
      <4>1. PICK m : m = [t |-> "data", of |-> c, key |-> {c, sess[c]}, n |-> sent[c]]
        OBVIOUS
      <4>2. Pushed(up[p], up'[p], m)
        BY <2>22, <3>3, <4>1 DEF DataStep, PushUp
      <4>3. Order(m) = 3 + sent[p]
        BY <4>1, <3>3 DEF Order
      <4>4. Speaks(p) = 3 + sent[p] /\ Speaks(p)' = 3 + (sent[p] + 1) /\ ~Ended(p) /\ ~Ended(p)'
        BY <3>1, <3>3, <1>0 DEF Speaks, Ended, TunnelTypes
      <4>5. sent[p] \in Nat
        BY <1>0, TunnelAssumption DEF TunnelTypes
      <4> QED BY <3>2, <4>2, <4>3, <4>4, <4>5 DEF FlowMoves
    <3>4. CASE c # p
      <4>1. up'[p] = up[p] /\ sent'[p] = sent[p]
        BY <2>22, <3>1, <3>4, <1>0 DEF DataStep, PushUp, TunnelTypes
      <4> QED BY <3>1, <3>2, <4>1, <1>0, SpeaksSame DEF FlowMoves
    <3> QED BY <3>3, <3>4
  <2>23. CASE CloseStep(c)
    <3>1. c # d
      BY <2>23, <1>0 DEF CloseStep, Listening, Ended, TunnelTypes
    <3>2. UNCHANGED <<rcvd, sent, down>> /\ cl' = [cl EXCEPT ![c] = "closed"]
      BY <2>23 DEF CloseStep
    <3>3. Due(d)' = Due(d)
      BY <3>1, <3>2, <1>0, DueSame DEF TunnelTypes
    <3>4. CASE c = p
      <4>1. PICK m : m = [t |-> "close"]
        OBVIOUS
      <4>2. Pushed(up[p], up'[p], m) /\ m.t = "close"
        BY <2>23, <3>4, <4>1 DEF CloseStep, PushUp
      <4>3. Ended(p)'
        BY <3>2, <3>4, <1>0 DEF Ended, TunnelTypes
      <4> QED BY <3>3, <4>2, <4>3 DEF FlowMoves
    <3>5. CASE c # p
      <4>1. up'[p] = up[p]
        BY <2>23, <3>5, <1>0 DEF CloseStep, PushUp
      <4> QED BY <3>2, <3>3, <3>5, <4>1, <1>0, SpeaksSame DEF FlowMoves, TunnelTypes
    <3> QED BY <3>4, <3>5
  <2> QED BY <1>4, <2>1, <2>2, <2>3, <2>4, <2>5, <2>6, <2>7, <2>8, <2>9, <2>10, <2>11, <2>12,
     <2>13, <2>14, <2>15, <2>16, <2>17, <2>18, <2>19, <2>20, <2>21, <2>22, <2>23 DEF TunnelStep
<1> QED BY <1>1, <1>2, <1>3, <1>4, StepCases

\* The queues from the clients stay in order.
LEMMA NextUpOrder ==
    ASSUME TunnelIInv, TunnelTypes', Undisturbed, Undisturbed', CertInv, VouchInv, DownOrder,
           UpOrder, Next
    PROVE  UpOrder'
<1> USE DEF TunnelIInv
<1>1. ASSUME attached' = attached
      PROVE  UpOrder'
  <2> SUFFICES ASSUME NEW p \in attached, NEW d \in attached, side'[p] # side'[d]
               PROVE  Continues(p, d)'
    BY <1>1 DEF UpOrder
  <2>1. side[p] # side[d] /\ p \in Conn /\ d \in Conn
    BY NextSteady DEF Steady, TunnelTypes
  <2>2. Continues(p, d)
    BY <2>1 DEF UpOrder
  <2>3. CASE Linked(p, d)' /\ Listening(d)'
    <3>1. Linked(p, d) /\ Listening(d)
      BY <1>1, <2>1, <2>3, LinkedBefore, ListeningBefore
    <3>2. FlowMoves(p, d) /\ (Ended(p) => Ended(p)')
      BY <1>1, <2>1, <2>3, NextFlow
    <3> QED BY <2>1, <2>2, <2>3, <3>1, <3>2, FlowKept
  <2>4. CASE ~(Linked(p, d)' /\ Listening(d)')
    BY <2>4 DEF Continues
  <2> QED BY <2>3, <2>4
<1>2. ASSUME NEW c \in Conn, RegisterStep(c)
      PROVE  UpOrder'
  <2>1. /\ attached' = attached \cup {c}
        /\ UNCHANGED <<cl, rx, down, up, side, sent, rcvd>>
    BY <1>2 DEF RegisterStep, ClientSame, QueuesSame
  <2> SUFFICES ASSUME NEW p \in attached', NEW d \in attached', side[p] # side[d],
                      Listening(d)'
               PROVE  /\ \A i \in 1..Len(up'[p]) : up'[p][i].t # "close" =>
                            Order(up'[p][i]) = Due(d)' + i - 1
                      /\ ~Ended(p)' => Speaks(p)' = Due(d)' + Len(up'[p])
    BY <2>1 DEF UpOrder, Continues
  <2>2. p \in Conn /\ d \in Conn /\ Silent(p) /\ Silent(d) /\ down[d] = <<>>
    <3>1. Silent(c) /\ down[c] = <<>> /\ c \notin attached
      BY <1>2, RegisterSelf
    <3>2. \A o \in attached : side[o] # side[c] => o \in Conn /\ Silent(o) /\ down[o] = <<>>
      BY <1>2, RegisterPeer
    <3>3. p = c \/ d = c
      BY <1>2, RegisterPair
    <3> QED BY <2>1, <3>1, <3>2, <3>3
  <2>3. ~Ended(d) /\ cl[d] = "vouch" /\ Len(down[d]) = 0
    BY <2>1, <2>2 DEF Listening, Ended, Silent
  <2>4. Due(d)' = 1
    BY <2>1, <2>3 DEF Due, Waits
  <2>5. OnlyCloses(up'[p])
    BY <2>1, <2>2 DEF Silent
  <2>6. ASSUME ~Ended(p)'
        PROVE  Speaks(p)' = 1 /\ Len(up'[p]) = 0
    <3>1. ~Ended(p) /\ cl[p] = "vouch"
      BY <2>1, <2>2, <2>6 DEF Ended, Silent
    <3>2. ~Holds(up[p], "close")
      BY <2>2, <3>1 DEF ClientInv, ClientOf
    <3>3. Len(up[p]) \in Nat
      BY <2>2, WaitsType
    <3>4. Len(up[p]) = 0
      BY <2>2, <3>2, <3>3 DEF Silent, OnlyCloses, Holds
    <3> QED BY <2>1, <3>1, <3>4 DEF Speaks
  <2> QED BY <2>4, <2>5, <2>6 DEF OnlyCloses
<1>3. CASE attached' # attached
  <2>1. PICK c \in Conn : TunnelStep(c)
    BY <1>3, StepCases DEF Offer, Sweep, Rotate, past
  <2>2. RegisterStep(c)
    BY <1>3, <2>1 DEF TunnelStep, Connect, LookupFingerprint, TooLateStep, VouchMeStep,
       VouchPeerStep, DropStep, FindStep, ForwardStep, ForwardFails, SeeCloseStep, TeardownStep,
       TellStep, PumpStep, SocketDrops, FailStep, TakeVouch, TakeKey, TakeHandshake, TakeData,
       SkipVouch, DataStep, CloseStep, ServerSame, TableSame, past
  <2> QED BY <1>2, <2>2
<1> QED BY <1>1, <1>3

\* No client fails.
LEMMA NextNoneFailed ==
    ASSUME TunnelIInv, Undisturbed, CertInv, DownOrder, NoneFailed, Next
    PROVE  NoneFailed'
<1> USE DEF TunnelIInv
<1>1. CASE Offer \/ Sweep \/ \E x \in Side : Rotate(x)
  BY <1>1 DEF Offer, Sweep, Rotate, client, NoneFailed
<1>2. ASSUME NEW c \in Conn, TunnelStep(c)
      PROVE  NoneFailed'
  <2>1. ~FailStep(c)
    BY NoError
  <2>2. ASSUME NEW d \in Conn PROVE cl'[d] # "failed"
    <3>1. cl[d] # "failed"
      BY DEF NoneFailed
    <3>2. CASE Connect(c)
      <4>1. CASE hub # NoTunnel
        BY <3>1, <3>2, <4>1 DEF Connect, TunnelTypes
      <4>2. CASE hub = NoTunnel
        BY <3>1, <3>2, <4>2 DEF Connect, TunnelTypes
      <4> QED BY <4>1, <4>2
    <3>3. CASE LookupFingerprint(c) \/ RegisterStep(c) \/ TooLateStep(c) \/ VouchMeStep(c)
               \/ VouchPeerStep(c) \/ DropStep(c) \/ FindStep(c) \/ ForwardStep(c)
               \/ ForwardFails(c) \/ SeeCloseStep(c) \/ TeardownStep(c) \/ TellStep(c)
               \/ SkipVouch(c) \/ TakeData(c) \/ DataStep(c)
      BY <3>1, <3>3 DEF LookupFingerprint, RegisterStep, TooLateStep, VouchMeStep, VouchPeerStep,
         DropStep, FindStep, ForwardStep, ForwardFails, SeeCloseStep, TeardownStep, TellStep,
         SkipVouch, TakeData, DataStep, ClientSame, client
    <3>4. CASE PumpStep(c) \/ SocketDrops(c) \/ TakeVouch(c) \/ TakeKey(c) \/ TakeHandshake(c)
               \/ CloseStep(c)
      BY <3>1, <3>4 DEF PumpStep, SocketDrops, TakeVouch, TakeKey, TakeHandshake, CloseStep,
         TunnelTypes
    <3> QED BY <1>2, <2>1, <3>2, <3>3, <3>4 DEF TunnelStep
  <2> QED BY <2>2 DEF NoneFailed
<1> QED BY <1>1, <1>2, StepCases

-----------------------------------------------------------------------------
(* The tunnel: no protocol error *)

\* Nothing is on its way at the start.
LEMMA InitQuietInv == ASSUME Init PROVE QuietInv
<1>1. \A c \in Conn : Len(down[c]) = 0
  BY DEF Init
<1>2. \A x \in Side : gen[x] # 0
  BY DEF Init
<1>3. CertInv
  BY <1>1 DEF Init, CertInv, CertOf
<1>4. DownOrder
  BY <1>1 DEF DownOrder, InOrder
<1>5. UpOrder /\ VouchInv /\ NoneFailed
  BY DEF Init, UpOrder, VouchInv, NoneFailed
<1> QED BY <1>2, <1>3, <1>4, <1>5 DEF QuietInv

\* Every step of an undisturbed tunnel keeps its order.
LEMMA NextQuietInv ==
    ASSUME TunnelIInv, TunnelIInv', QuietInv, Next
    PROVE  QuietInv'
<1> USE DEF TunnelIInv
<1>1. \A x \in Side : gen[x] # 0 /\ gen'[x] # 0
  BY NextGens DEF QuietInv
<1>2. ASSUME Undisturbed'
      PROVE  CertInv' /\ DownOrder' /\ UpOrder' /\ VouchInv' /\ NoneFailed'
  <2>1. Undisturbed /\ gen' = gen
    BY <1>1, <1>2, UndisturbedBefore
  <2>2. CertInv /\ DownOrder /\ UpOrder /\ VouchInv /\ NoneFailed
    BY <2>1 DEF QuietInv
  <2>3. CertInv'
    BY <1>2, <2>1, <2>2, NextCertInv DEF Undisturbed
  <2>4. VouchInv'
    BY <1>2, <2>1, <2>2, NextVouchInv
  <2>5. DownOrder'
    BY <2>1, <2>2, NextDownOrder
  <2>6. UpOrder'
    BY <1>2, <2>1, <2>2, NextUpOrder
  <2>7. NoneFailed'
    BY <2>1, <2>2, NextNoneFailed
  <2> QED BY <2>3, <2>4, <2>5, <2>6, <2>7
<1> QED BY <1>1, <1>2 DEF QuietInv

\* A stuttering step keeps the invariant of undisturbed pairs.
LEMMA SameQuietInv == ASSUME QuietInv, UNCHANGED vars PROVE QuietInv'
<1>1. UNCHANGED <<hub, pc, fp, peer, rx, cl, want, peerEph, sess, sent, rcvd, traffic, offered,
                  gen, side, cert, attached, mate, down, up>>
  BY DEF vars, server, client, fixed, past
<1>2. (\A x \in Side : gen'[x] # 0) /\ (Undisturbed' <=> Undisturbed)
  BY <1>1 DEF QuietInv, Undisturbed
<1>3. (CertInv => CertInv') /\ (NoneFailed => NoneFailed')
  BY <1>1 DEF CertInv, CertOf, NoneFailed
<1>4. DownOrder => DownOrder'
  BY <1>1 DEF DownOrder, InOrder, Ended, Waits
<1>5. UpOrder => UpOrder'
  BY <1>1 DEF UpOrder, Continues, Linked, Listening, Ended, Due, Waits, Speaks
<1>6. VouchInv => VouchInv'
  BY <1>1 DEF VouchInv, Vouched, Told, Silent
<1> QED BY <1>2, <1>3, <1>4, <1>5, <1>6 DEF QuietInv

\* As long as each side attaches once and no certificate is replaced, no client
\* meets a protocol error, for any number of data frames and whatever is swept,
\* closed or torn down meanwhile (tunnel_ws, handshake, complete, open).
THEOREM TunnelNoProtocolError == Spec => []NoProtocolError
<1>1. Init => TunnelIInv /\ QuietInv
  BY InitTunnelIInv, InitQuietInv
<1>2. TunnelIInv /\ TunnelIInv' /\ QuietInv /\ [Next]_vars => QuietInv'
  BY NextQuietInv, SameQuietInv
<1>3. QuietInv => NoProtocolError
  BY DEF QuietInv, NoneFailed, NoProtocolError
<1> QED BY <1>1, <1>2, <1>3, TunnelInvariance, PTL DEF Spec
=============================================================================
