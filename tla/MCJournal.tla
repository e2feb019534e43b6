------------------------------ MODULE MCJournal ------------------------------
(* Values of the constants of Journal for TLC. *)
EXTENDS Journal, TLC

CONSTANTS w1, w2, p1, p2

TwoWorkers == {w1, w2}
OneProcess == {p1}
TwoProcesses == {p1, p2}

\* Every emitting thread is the only one of its process.
Apart == (w1 :> p1) @@ (w2 :> p2)
\* Two threads of the bridge's pool.
Together == (w1 :> p1) @@ (w2 :> p1)
=============================================================================
