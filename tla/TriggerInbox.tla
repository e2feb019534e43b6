---------------------------- MODULE TriggerInbox ----------------------------
(***************************************************************************)
(* What the monitor promises of a thesis' inbox: it grows by one trigger   *)
(* per canonical reference, never loses or reorders one, and each trigger  *)
(* is acknowledged at most once, by one run.                               *)
(***************************************************************************)
EXTENDS Naturals, Sequences

CONSTANTS Ref, Run, NoRun

VARIABLE triggers   \* sequence of [ref, by]: by is the acknowledging run

Init == triggers = <<>>

Add(ref) ==
    /\ \A i \in DOMAIN triggers : triggers[i].ref # ref
    /\ triggers' = Append(triggers, [ref |-> ref, by |-> NoRun])

Acknowledge(i, r) ==
    /\ triggers[i].by = NoRun
    /\ triggers' = [triggers EXCEPT ![i].by = r]

Next ==
    \/ \E ref \in Ref : Add(ref)
    \/ \E i \in DOMAIN triggers, r \in Run : Acknowledge(i, r)

Spec == Init /\ [][Next]_triggers
=============================================================================
