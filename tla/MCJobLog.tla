------------------------------ MODULE MCJobLog ------------------------------
(* JobLog on a small instance: one event of each kind that treats the fold   *)
(* differently, with every level and decision that matters to it.            *)
EXTENDS JobLog

Plain(k, h) == [kind |-> k, human |-> h, level |-> -1, decision |-> "none", to |-> 0]
At(k, h, l) == [Plain(k, h) EXCEPT !.level = l]

MCRecorded ==
    {Plain("created", FALSE), Plain("material-registered", FALSE),
     Plain("statement", TRUE), Plain("redaction-proposed", FALSE),
     Plain("halted", FALSE), Plain("closed-not-shared", TRUE),
     Plain("step-completed", FALSE), Plain("access-audited", TRUE),
     Plain("deposit-completed", TRUE), Plain("declaration-confirmed", TRUE),
     [Plain("redaction-decided", TRUE) EXCEPT !.decision = "classify-sensitive"]}
    \cup {At("declaration-confirmed", TRUE, l) : l \in 0 .. 2}
    \cup {At("classification-completed", FALSE, l) : l \in 0 .. 2}
=============================================================================
