---------------------------- MODULE MCAppStreams ----------------------------
(* AppStreams for TLC: the windows are interchangeable.                    *)
EXTENDS AppStreams, TLC

WindowSymmetry == Permutations(Windows)

=============================================================================
