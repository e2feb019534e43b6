--------------------------- MODULE MCResearchKernel ---------------------------
(* Values of the constants of ResearchKernel for TLC. *)
EXTENDS ResearchKernel, TLC

CONSTANTS c1, c2, e1, e2

OneClient == {c1}
TwoClients == {c1, c2}
OneFinding == {e1}
TwoFindings == {e1, e2}
Symmetry == Permutations(Client) \union Permutations(Evidence)

\* One wave through to its answer, by any order of the calls of the Director, of the
\* committee and of the command line, a bridge dying at any step of any call.
OneWaveCalls == {"retry_job", "run_research", "complete_job", "close_job", "record_evidence", "submit",
                 "freeze", "create_committee", "record_analysis", "decide_wave", "finalize"}

\* Bound of the one-wave run: jobs that end without a result.
TwoUnfinished == Cardinality({j \in Job : jobs[j].status \in {"failed", "cancelled"}}) <= 2

\* Two waves from the first finding to the answer.
TwoWaveCalls == {"start_job", "cancel_research", "record_evidence", "submit", "freeze", "create_committee",
                 "record_analysis", "decide_wave", "finalize"}

\* Bounds of the two-wave runs: one source job per wave, and wave 2 opens after wave 1 froze.
OneSourcePerWave ==
    /\ \A i, j \in Job : i < j /\ Row(i) /\ Row(j) /\ jobs[i].type = "source_agent" /\ jobs[j].type = "source_agent"
                         => jobs[i].wave # jobs[j].wave
    /\ \A j \in Job : Row(j) /\ jobs[j].wave > 1 => 1 \in session.frozen

\* What the bridges of one session run at the same time: the parallel tool calls
\* of a source agent, the Director, and the committee's recorded results.
RaceCalls == {"record_evidence", "submit", "touch_job", "freeze", "create_committee", "record_analysis"}

\* The parallel tool calls of one source agent: a submission and a heartbeat.
ReviveCalls == {"submit", "touch_job"}
=============================================================================
