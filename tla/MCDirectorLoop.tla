---------------------------- MODULE MCDirectorLoop ----------------------------
(* Values of the constants of DirectorLoop for TLC. *)
EXTENDS DirectorLoop

CONSTANTS c1, e1

OneClient == {c1}
OneFinding == {e1}

\* The calls of the Director and of the children it waits for.
DirectorCalls == {"start_job", "close_job", "cancel_research", "record_evidence", "submit", "freeze",
                  "create_committee", "record_analysis", "decide_wave", "finalize"}

\* Bound of the runs: every dossier leaves residuals, since the Director asks for a decision
\* only with a complete trio, which may authorize a wave whatever the dossier says.
OneVerdict == dossiers.latest # "drained"
=============================================================================
