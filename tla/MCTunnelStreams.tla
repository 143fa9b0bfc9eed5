-------------------------- MODULE MCTunnelStreams --------------------------
(* Small instances of TunnelStreams for TLC. *)
EXTENDS TunnelStreams, TLC

\* One stream that says two chunks each way; two streams, one of them silent.
MCLoads == {<<2>>, <<1, 0>>}
=============================================================================
