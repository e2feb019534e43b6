--------------------------- MODULE SessionLifecycle ---------------------------
(***************************************************************************)
(* What a research session promises its user, whatever calls it is made of *)
(* (app/research/session.py TRANSITIONS, and the docstrings of service.py):*)
(* the status only follows the edges of the table and stops at a terminal  *)
(* one, the wave counter never falls, a frozen wave stays frozen, and an   *)
(* answer cites a frozen wave on which all three roles have been heard.    *)
(***************************************************************************)
EXTENDS Naturals

CONSTANTS Waves     \* the waves a session may freeze

VARIABLES
    status,     \* the session's status
    wave,       \* its current_wave
    frozen,     \* the waves it has frozen
    heard,      \* the frozen waves that have the analyses of the three roles
    answer      \* the wave its final result cites, 0 before there is one

lifecycle == <<status, wave, frozen, heard, answer>>

Terminal == {"completed", "failed", "cancelled"}

\* session.py TRANSITIONS.
Forward == {<<"created", "planning">>, <<"planning", "researching">>, <<"researching", "freezing">>,
            <<"freezing", "analyzing">>, <<"analyzing", "targeted_research">>, <<"analyzing", "synthesizing">>,
            <<"targeted_research", "freezing">>, <<"synthesizing", "completed">>}
Live == {edge[1] : edge \in Forward}
Edge == Forward \union (Live \X {"failed", "cancelled"})

LifecycleInit ==
    /\ status = "created" /\ wave = 0 /\ frozen = {} /\ heard = {} /\ answer = 0

\* Any edge but the two that have a condition of their own.
Walk ==
    /\ <<status, status'>> \in Edge
    /\ status' \notin {"freezing", "completed"}
    /\ wave' >= wave
    /\ UNCHANGED <<frozen, heard, answer>>

Advance == wave' > wave /\ UNCHANGED <<status, frozen, heard, answer>>

Freeze(w) ==
    /\ <<status, "freezing">> \in Edge /\ status' = "freezing"
    /\ frozen' = frozen \union {w}
    /\ UNCHANGED <<wave, heard, answer>>

\* The third analysis of a frozen wave is recorded.
Hear(w) ==
    /\ w \in frozen /\ heard' = heard \union {w}
    /\ status' = IF status = "freezing" THEN "analyzing" ELSE status
    /\ UNCHANGED <<wave, frozen, answer>>

Answer(w) ==
    /\ status \notin Terminal
    /\ w \in heard /\ answer' = w
    /\ UNCHANGED <<status, wave, frozen, heard>>

\* Only an answered session completes.
Complete ==
    /\ status = "synthesizing" /\ answer # 0
    /\ status' = "completed"
    /\ UNCHANGED <<wave, frozen, heard, answer>>

LifecycleNext ==
    \/ Walk \/ Advance \/ Complete
    \/ \E w \in Waves : Freeze(w) \/ Hear(w) \/ Answer(w)

LifecycleSpec == LifecycleInit /\ [][LifecycleNext]_lifecycle
=============================================================================
