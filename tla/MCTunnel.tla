------------------------------ MODULE MCTunnel ------------------------------
(* Small instances of Tunnel for TLC. *)
EXTENDS Tunnel, TLC

\* A third attachment, or two with sweeping, closing, rotations, lookups that
\* fail, and data.
Mixes == {{"again", "data"}, {"sweep", "close", "data"}, {"close", "rotate"},
          {"sweep", "unknown", "data"}}
=============================================================================
