------------------------------- MODULE JobLog -------------------------------
(***************************************************************************)
(* The state of a job as the projection of its event log                   *)
(* (state/projection.py), and rollback by compensation                     *)
(* (workflow/engine.py).  Every component of the system records what it    *)
(* does as an event and reads the job by folding the log, so what a kind   *)
(* of event does to the fold is the interface between them all.            *)
(*                                                                         *)
(* The log here is the one EventStore keeps: one sequence, append-only.    *)
(***************************************************************************)
EXTENDS Integers, Sequences

CONSTANTS Recorded,   \* the events components may record
          MaxLevel,   \* the most restrictive sensitivity class
          MaxLog      \* bound: the longest log explored

NoLevel == -1                       \* classification is None
Levels == 0 .. MaxLevel

\* Kinds that must name a person (HUMAN_ACTS), and kinds written when somebody
\* only looked at a job.
HumanActs == {"owner-added", "items-displayed", "declaration-confirmed",
              "redaction-decided", "metadata-approved", "deposit-completed"}
Readings == {"items-displayed", "access-audited"}

\* Kinds the fold lists as recorded without advancing the workflow.
Standing == {"owner-added", "metadata-drafted", "documentation-drafted",
             "items-displayed", "access-audited", "step-started",
             "step-completed", "step-failed", "step-reconciled"}

Kinds == HumanActs \cup Readings \cup Standing \cup
         {"created", "material-registered", "statement", "declaration-parsed",
          "classification-completed", "classification-contradicted",
          "redaction-proposed", "commitments-read", "discrepancy-flagged",
          "repository-selected", "metadata-generated", "validation-completed",
          "halted", "closed-not-shared", "compensated"}

\* `level` is the payload's sensitivity, `decision` a gate decision's answer,
\* `to` the sequence a compensation restores.
Event == [kind : Kinds, human : BOOLEAN, level : Levels \cup {NoLevel},
          decision : {"none", "approve", "classify-sensitive"}, to : Nat]

ASSUME LevelAssumption == MaxLevel \in Nat
ASSUME LogAssumption == MaxLog \in Nat \ {0}
ASSUME RecordedAssumption == Recorded \subseteq Event

VARIABLES log,     \* the events of the job
          states   \* states[n] is fold_to(log, n)

vars == <<log, states>>
-----------------------------------------------------------------------------
\* _STEP_FOR: the step an advancing kind leaves the job at.
StepAfter ==
    [k \in Kinds |->
       CASE k = "created" -> "created"
         [] k = "material-registered" -> "awaiting-declaration"
         [] k \in {"declaration-parsed", "classification-contradicted"}
              -> "awaiting-declaration-confirmation"
         [] k = "declaration-confirmed" -> "classification"
         [] k \in {"classification-completed", "redaction-decided"} -> "dmp"
         [] k = "redaction-proposed" -> "awaiting-redaction-decision"
         [] k = "commitments-read" -> "repository-selection"
         [] k = "discrepancy-flagged" -> "awaiting-discrepancy-review"
         [] k = "repository-selected" -> "metadata"
         [] k = "metadata-generated" -> "validation"
         [] k = "validation-completed" -> "awaiting-approval"
         [] k = "metadata-approved" -> "deposit"
         [] k = "deposit-completed" -> "complete"
         [] OTHER -> "unchanged"]

JobState == [step : {StepAfter[k] : k \in Kinds}, level : Levels \cup {NoLevel},
             material : Nat, confirmed : BOOLEAN, pending : BOOLEAN,
             statement : BOOLEAN, deposited : BOOLEAN,
             halted : BOOLEAN, terminal : BOOLEAN]

Fresh == [step |-> "created", level |-> NoLevel, material |-> 0,
          confirmed |-> FALSE, pending |-> FALSE, statement |-> FALSE,
          deposited |-> FALSE, halted |-> FALSE, terminal |-> FALSE]

\* Plausible bugs: a scan replaces the level in place of tightening it; a scan
\* is not folded in.
ScanReplaces(s, e) ==
    IF /\ e.level # NoLevel
       /\ \/ e.kind = "declaration-confirmed"
          \/ e.kind = "classification-completed" /\ s.level # NoLevel
    THEN e.level ELSE s.level

ScanIgnored(s, e) ==
    IF e.kind = "declaration-confirmed" /\ e.level # NoLevel THEN e.level ELSE s.level

\* The level after an event: a person's confirmation sets it, a scan only
\* raises one a person has set (Classification.tighten).
LevelAfter(s, e) ==
    IF e.kind = "declaration-confirmed" /\ e.level # NoLevel THEN e.level
    ELSE IF /\ e.kind = "classification-completed"
            /\ s.level # NoLevel /\ e.level > s.level THEN e.level
    ELSE s.level

\* _apply, the fields but the halt.  The event that clears a halt does not
\* advance the step.
Projected(s, e) ==
    [step |-> IF StepAfter[e.kind] # "unchanged" /\ ~s.halted
              THEN StepAfter[e.kind] ELSE s.step,
     level |-> LevelAfter(s, e),
     material |-> s.material + (IF e.kind = "material-registered" THEN 1 ELSE 0),
     confirmed |-> s.confirmed \/ e.kind = "declaration-confirmed",
     pending |-> \/ e.kind = "redaction-proposed"
                 \/ s.pending /\ e.kind # "redaction-decided",
     statement |-> s.statement \/ e.kind = "statement",
     deposited |-> s.deposited \/ e.kind = "deposit-completed",
     halted |-> s.halted,
     terminal |-> s.terminal \/ e.kind = "closed-not-shared"]

\* _apply: any event but a halt clears a halt.
Apply(s, e) == [Projected(s, e) EXCEPT !.halted = (e.kind = "halted")]

\* fold over the first n events.
StateAt(n) == IF n = 0 THEN Fresh ELSE states[n]
Current == StateAt(Len(log))

\* JobState.seen_kinds: taken from the whole log, compensated or not.
SeenKinds == {log[i].kind : i \in 1 .. Len(log)}

Init == log = <<>> /\ states = <<>>

\* A component records an event; the log starts with its creation.
Record(e) ==
    /\ Len(log) < MaxLog
    /\ e.kind # "compensated"
    /\ e.kind \in HumanActs => e.human
    /\ (e.kind = "created") <=> (log = <<>>)
    /\ log' = Append(log, e)
    /\ states' = Append(states, Apply(Current, e))

\* A plausible bug: the state before the named event is restored.
RestoreOneTooFew(n) ==
    /\ Len(log) < MaxLog
    /\ n \in 1 .. Len(log)
    /\ log' = Append(log, [kind |-> "compensated", human |-> TRUE, level |-> NoLevel,
                           decision |-> "none", to |-> n])
    /\ states' = Append(states, StateAt(n - 1))

\* WorkflowEngine.compensate, and the branch of fold() that replays it.
Compensate(n) ==
    /\ Len(log) < MaxLog
    /\ n \in 1 .. Len(log)
    /\ log' = Append(log, [kind |-> "compensated", human |-> TRUE, level |-> NoLevel,
                           decision |-> "none", to |-> n])
    /\ states' = Append(states, StateAt(n))

Next == \/ \E e \in Recorded : Record(e)
        \/ \E n \in 1 .. MaxLog : Compensate(n)

Spec == Init /\ [][Next]_vars
-----------------------------------------------------------------------------
TypeOK == /\ log \in Seq(Event)
          /\ states \in Seq(JobState)
          /\ Len(states) = Len(log)

\* Only a person makes material less restricted: when the level of a job goes
\* down, or stops being set, the event that did it names one (sensitivity.py:3,
\* "an automated component may raise the sensitivity of material, never lower it").
OnlyPeopleRelax ==
    [][Current'.level < Current.level => log'[Len(log')].human]_vars

\* No scan establishes a level nobody declared, whatever is rolled back: where
\* a level is in force, a person confirmed a declaration at that point or before.
LevelsAreDeclared ==
    \A n \in 1 .. Len(log) :
       states[n].level # NoLevel =>
          \E i \in 1 .. n : /\ log[i].kind = "declaration-confirmed"
                            /\ log[i].human /\ log[i].level # NoLevel

\* The events in force: what is left of the log when every compensation has
\* cut it back to the sequence it restores.
InForce ==
    LET kept[n \in 0 .. Len(log)] ==
          IF n = 0 THEN <<>>
          ELSE IF log[n].kind = "compensated" THEN kept[log[n].to]
          ELSE Append(kept[n - 1], log[n])
    IN kept[Len(log)]

\* Rollback leaves what a log that never held the undone events would: the
\* state is the plain left-to-right reading of the events in force.
RollbackIsErasure ==
    LET read[n \in 0 .. Len(InForce)] ==
          IF n = 0 THEN Fresh ELSE Apply(read[n - 1], InForce[n])
    IN Current = read[Len(InForce)]

\* Nothing found by a scan is forgotten while the declaration it tightened
\* stands: the level is the strictest of the last confirmation in force and
\* every scan in force since.
LevelCoversEveryScan ==
    \A c, i \in 1 .. Len(InForce) :
       /\ InForce[c].kind = "declaration-confirmed" /\ InForce[c].level # NoLevel
       /\ \A j \in c + 1 .. Len(InForce) :
             InForce[j].kind = "declaration-confirmed" => InForce[j].level = NoLevel
       /\ c <= i
       /\ InForce[i].kind \in {"declaration-confirmed", "classification-completed"}
       => Current.level >= InForce[i].level

\* A job is stopped exactly while its halt is the last thing in force: work
\* recorded after a halt resumes it, and rolling that work back stops it again.
HaltedWhileLast ==
    Current.halted <=> /\ InForce # <<>>
                       /\ InForce[Len(InForce)].kind = "halted"

\* What a visit leaves in the log changes nothing about the job (api/app.py:18,
\* "Reads never change anything").
ReadsChangeNothing ==
    [][log'[Len(log')].kind \in Readings => Current' = Current]_vars

\* Rolling back to a sequence undoes what ran after it, the record of which
\* kinds of event the job has seen included (projection.py:150, "the fold does
\* the undoing").
RollbackForgetsWhatRan ==
    log # <<>> /\ log[Len(log)].kind = "compensated" =>
       SeenKinds = {log[i].kind : i \in 1 .. log[Len(log)].to}

\* Every decision but an acknowledgement changes something (contracts
\* gate.py:90): a person who answers "treat the job as sensitive" gets that.
SensitiveDecisionCounts ==
    log # <<>> /\ log[Len(log)].decision = "classify-sensitive" =>
       Current.level = MaxLevel
=============================================================================
