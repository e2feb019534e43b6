----------------------------- MODULE AppendOnlyLog -----------------------------
(***************************************************************************)
(* What the journal of a research session promises (the headers of         *)
(* app/research/journal.py and of ResearchRepository.save_event): events   *)
(* are only ever added, at the end, each once.                             *)
(***************************************************************************)
EXTENDS Sequences, Naturals

CONSTANT Entry      \* the events that may be recorded

VARIABLE log        \* the events recorded, in sequence order

LogInit == log = <<>>

Record(e) ==
    /\ \A i \in DOMAIN log : log[i] # e
    /\ log' = Append(log, e)

LogNext == \E e \in Entry : Record(e)

LogSpec == LogInit /\ [][LogNext]_log
=============================================================================
