----------------------------- MODULE MCBridge -----------------------------
(* A small instance of Bridge for TLC.                                     *)
EXTENDS Bridge

CONSTANTS t1, t2, t3, note

ThreeTools == {t1, t2, t3}
OneNote    == {note}

\* The tool calls differ in nothing: they are made in this order.
InOrder ==
    /\ call[t2] # "new" => call[t1] # "new"
    /\ call[t3] # "new" => call[t2] # "new"

\* An event before the end only repeats what agent_start does.
LateNote == call[note] # "new" => call[End] # "new"
=============================================================================
