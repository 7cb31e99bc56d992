------------------------------ MODULE MCMonitor ------------------------------
(* Monitor with three threads, which are interchangeable. *)
EXTENDS Monitor, TLC

CONSTANTS t, u, v

MCThreads  == {t, u, v}
MCSymmetry == Permutations(MCThreads)

=============================================================================
