---------------------------- MODULE MCSecretStore ----------------------------
(* Small instances of SecretStore and SecretStoreRefines for TLC. *)
EXTENDS SecretStoreRefines, TLC

Flag(m, d, n, p, g) ==
    [maxReads |-> m, deleteOnRead |-> d, noOverwrite |-> n,
     preserve |-> p, gated |-> g]

\* max_reads 2; delete_on_read with a max_reads it overrides.
CappedFlags == {Flag(2, FALSE, FALSE, FALSE, FALSE),
                Flag(2, TRUE, FALSE, FALSE, FALSE)}

\* One of each kind: uncapped, immutable and gated; one-shot; two reads and
\* preserved; delete_on_read; never readable.
MixedFlags == {Flag(NoMax, FALSE, TRUE, FALSE, TRUE),
               Flag(1, FALSE, FALSE, FALSE, FALSE),
               Flag(2, FALSE, FALSE, TRUE, FALSE),
               Flag(NoMax, TRUE, FALSE, FALSE, FALSE),
               Flag(0, FALSE, FALSE, FALSE, FALSE)}

ReadOnly == [u \in Rule |-> {"read"}]
OneUse == [u \in Rule |-> 1]

Symmetry == Permutations(Req) \cup Permutations(Id) \cup Permutations(Data)
=============================================================================
