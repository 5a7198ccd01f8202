----------------------------- MODULE AppendLog -----------------------------
(***************************************************************************)
(* What the event log of one job promises its callers: a sequence that     *)
(* only ever grows, in which an event whose append has been acknowledged   *)
(* keeps its place for ever.  A crash of the machine may take events       *)
(* nobody was told about, and only from the end.                           *)
(***************************************************************************)
EXTENDS Naturals, Sequences

CONSTANT Event          \* what may be recorded

VARIABLES log,          \* the events of the job, in order
          acknowledged  \* how many of them are promised to survive

vars == <<log, acknowledged>>

Init == log = <<>> /\ acknowledged = 0

\* One event more, and it is the last.
AppendEvent == /\ log' # <<>>
               /\ log'[Len(log')] \in Event
               /\ log' = Append(log, log'[Len(log')])
               /\ UNCHANGED acknowledged

Acknowledge == /\ acknowledged' = Len(log)
               /\ UNCHANGED log

\* What is lost is a tail that was never acknowledged.
LoseTail == \E n \in acknowledged .. Len(log) :
               /\ log' = SubSeq(log, 1, n)
               /\ acknowledged' = n

Next == AppendEvent \/ Acknowledge \/ LoseTail

Spec == Init /\ [][Next]_vars
=============================================================================
