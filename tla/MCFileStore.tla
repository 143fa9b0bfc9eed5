----------------------------- MODULE MCFileStore -----------------------------
(* Small instances of FileStore for TLC. *)
EXTENDS FileStore, TLC

Flag(m, d, t, n, p) ==
    [maxReads |-> m, deleteOnRead |-> d, rotateOnRead |-> t,
     noOverwrite |-> n, preserve |-> p]

\* Nothing that re-keys a file: immutable; one-shot; preserved; delete_on_read.
PlainFlags == {Flag(NoMax, FALSE, FALSE, TRUE, FALSE),
               Flag(2, FALSE, FALSE, FALSE, FALSE),
               Flag(1, FALSE, FALSE, FALSE, TRUE),
               Flag(NoMax, TRUE, FALSE, FALSE, FALSE)}
RotatingFlags == {Flag(2, FALSE, TRUE, FALSE, FALSE),
                  Flag(NoMax, TRUE, FALSE, FALSE, FALSE)}
CappedFlags == {Flag(2, FALSE, FALSE, FALSE, FALSE), Flag(NoMax, TRUE, FALSE, FALSE, FALSE)}

Traffic(h, f, k, e) == [handlers |-> h, flags |-> f, kinds |-> k, faults |-> e]

\* Overwrites and cleanups with faults; re-keying with
\* faults, with uploads and without; downloads alone.
Mixed == {Traffic({"upload", "download", "delete", "cleanup"}, PlainFlags,
                  {"normal", "external", "backed"}, TRUE),
          Traffic({"upload", "download", "delete", "rotate"}, RotatingFlags,
                  {"normal", "resident"}, TRUE),
          Traffic({"download", "delete", "rotate"}, RotatingFlags, {"normal"}, TRUE),
          Traffic({"download", "delete", "cleanup"}, CappedFlags,
                  {"normal", "external", "backed"}, FALSE)}

Symmetry == Permutations(Req) \cup Permutations(Data)
=============================================================================
