----------------------------- MODULE Retention -----------------------------
(***************************************************************************)
(* The working directories of jobs, and what takes them away: `retention   *)
(* --apply`, which lists the directories, asks the repository about those  *)
(* published, marks the ones that survive there, and removes the ones      *)
(* whose mark is past its grace; and people who mark, unmark and order.    *)
(*                                                                         *)
(* A directory has the name of its job.  The days pass between any two     *)
(* steps, and jobs are worked on, published and closed meanwhile.          *)
(***************************************************************************)
EXTENDS Naturals

CONSTANTS
    Dirs,           \* the directories, numbered in the order of their names
    Sweeps,         \* commands, and scripts of a person who orders a removal
    Categories,     \* of candidates; see Category
    Grace,          \* the days of grace of each category
    IdleAfter,      \* IDLE_AFTER_DAYS
    Probed,         \* whether the sweeper can ask the repository
    NoMark,         \* no tombstone, or one that cannot be read
    Courses,        \* "late": people unmark any time
    MaxDay, MaxFaults

ASSUME RetentionAssumption ==
    /\ Dirs \subseteq Nat
    /\ Categories = {"released", "closed", "idle", "unattributed", "active"}
    /\ Grace \in [Categories -> Nat] /\ IdleAfter \in Nat
    /\ Probed \in BOOLEAN
    /\ MaxDay \in Nat /\ MaxFaults \in Nat

VARIABLES
    day,
    job,            \* what the log of each directory's job says of it, if any
    last,           \* the day of its last entry
    record,         \* the published record, at the repository
    held,           \* what is left of the directory
    mark,           \* the tombstone in it
    started,        \* removals begun, as <<log, directory>>; one key for each
    concluded,      \* those a log says completed or failed
    told,           \* what the record of a removal has digests of
    sweep, faults,
    found           \* history: the first day the repository had the record

jobs == <<job, last, record>>
logs == <<started, concluded, told>>
vars == <<day, jobs, held, mark, logs, sweep, faults, found>>

Jobs    == {"none", "live", "closed", "released"}
Amounts == {"whole", "partial", "gone"}
Never   == MaxDay + 1
Automatic == {"released"}       \* what a schedule may remove

Marks == [category : Categories, at : 0..MaxDay, after : Nat, ordered : BOOLEAN]

First(s) == CHOOSE d \in s : \A e \in s : d <= e

Idle == [pc |-> "idle", todo |-> {}, survives |-> {}, ordered |-> FALSE,
         category |-> [d \in Dirs |-> "active"],
         due |-> [d \in Dirs |-> NoMark], digests |-> "gone"]

Removing == {"removing", "concluding", "recording"}
Current(s) == First(sweep[s].todo)

\* The sweep s goes on from pc; without anything left to do it is over.
Going(s, pc, todo) ==
    sweep' = [sweep EXCEPT ![s] =
                IF todo = {} THEN Idle ELSE [@ EXCEPT !.pc = pc, !.todo = todo]]

Init ==
    /\ day = 0
    /\ job \in [Dirs -> {"none", "live"}]
    /\ last = [d \in Dirs |-> 0]
    /\ record = [d \in Dirs |-> "none"]
    /\ held = [d \in Dirs |-> "whole"]
    /\ mark = [d \in Dirs |-> NoMark]
    /\ started = {} /\ concluded = {}
    /\ told = [d \in Dirs |-> "nothing"]
    /\ sweep = [s \in Sweeps |-> Idle]
    /\ faults = 0
    /\ found = [d \in Dirs |-> Never]
-----------------------------------------------------------------------------
(* Finding and asking. *)

Category(d) ==
    CASE job[d] = "none"     -> "unattributed"
      [] job[d] = "released" -> "released"
      [] job[d] = "closed"   -> "closed"
      [] OTHER -> IF day - last[d] >= IdleAfter THEN "idle" ELSE "active"

\* A plausible bug: a command that finds nothing does not stop there.
CandidatesOrNone(s) ==
    /\ sweep[s].pc = "idle"
    /\ sweep' = [sweep EXCEPT ![s].pc = "asking",
                              ![s].todo = {d \in Dirs : held[d] # "gone"},
                              ![s].category = [d \in Dirs |-> Category(d)]]
    /\ UNCHANGED <<day, jobs, held, mark, logs, faults, found>>

Candidates(s) ==
    LET there == {d \in Dirs : held[d] # "gone"} IN
    /\ sweep[s].pc = "idle" /\ there # {}
    /\ sweep' = [sweep EXCEPT ![s].pc = "asking", ![s].todo = there,
                              ![s].category = [d \in Dirs |-> Category(d)]]
    /\ UNCHANGED <<day, jobs, held, mark, logs, faults, found>>

\* None where there is no way to ask, or no answer to be had.
Answers(d) ==
    {"unknown"} \cup
    (IF Probed THEN {IF record[d] = "public" THEN "survives" ELSE "lost"} ELSE {})

\* A plausible bug: a record that cannot be asked about is taken to be there.
DeletableUnlessLost(category, answer) ==
    category \in Automatic /\ answer # "lost"

Deletable(category, answer) == category \in Automatic /\ answer = "survives"

(* One candidate is asked about; after the last, those that may be removed *)
(* are marked.                                                             *)
CheckSurvival(s) ==
    LET d    == Current(s)
        left == sweep[s].todo \ {d}
    IN  /\ sweep[s].pc = "asking"
        /\ \E answer \in IF sweep[s].category[d] = "released" THEN Answers(d)
                                                             ELSE {"unasked"} :
              LET survives == sweep[s].survives \cup
                    (IF Deletable(sweep[s].category[d], answer) THEN {d} ELSE {})
              IN  /\ sweep' = [sweep EXCEPT
                        ![s].survives = survives,
                        ![s].todo = IF left = {} THEN survives ELSE left,
                        ![s].pc   = IF left = {} THEN "marking" ELSE "asking"]
                  /\ found' = IF answer = "survives" /\ found[d] = Never
                              THEN [found EXCEPT ![d] = day] ELSE found
        /\ UNCHANGED <<day, jobs, held, mark, logs, faults>>
-----------------------------------------------------------------------------
(* Marking. *)

\* A plausible bug: the mark is due on the day it is made.
MarkOfToday(category, ordered) ==
    [category |-> category, at |-> day, after |-> day, ordered |-> ordered]

MarkOf(category, ordered) ==
    [category |-> category, at |-> day, after |-> day + Grace[category],
     ordered |-> ordered]

(* The tombstone is written anew whether there is one or not.              *)
Mark(s) ==
    LET d == Current(s) IN
    /\ sweep[s].pc = "marking" /\ sweep[s].todo # {}
    /\ IF held[d] = "gone"
       THEN /\ sweep' = [sweep EXCEPT ![s] = Idle] /\ UNCHANGED mark
       ELSE /\ mark' = [mark EXCEPT ![d] = MarkOf(sweep[s].category[d], FALSE)]
            /\ sweep' = [sweep EXCEPT ![s].todo = @ \ {d}]
    /\ UNCHANGED <<day, jobs, held, logs, faults, found>>

\* A person who marks: anything but an active job, closed ones included.
OrderMark(d) ==
    /\ held[d] # "gone" /\ Category(d) # "active"
    /\ mark' = [mark EXCEPT ![d] = MarkOf(Category(d), TRUE)]
    /\ UNCHANGED <<day, jobs, held, logs, sweep, faults, found>>

Unmark(d) ==
    /\ mark[d] # NoMark
    /\ "late" \notin Courses => \A s \in Sweeps : sweep[s].pc = "idle"
    /\ mark' = [mark EXCEPT ![d] = NoMark]
    /\ UNCHANGED <<day, jobs, held, logs, sweep, faults, found>>
-----------------------------------------------------------------------------
(* Removing. *)

Due(s) ==
    LET due == {d \in Dirs : /\ held[d] # "gone" /\ mark[d] # NoMark
                             /\ mark[d].after <= day}
    IN  /\ sweep[s].pc = "marking" /\ sweep[s].todo = {}
        /\ sweep' = [sweep EXCEPT ![s] =
              IF due = {} THEN Idle
              ELSE [Idle EXCEPT !.pc = "deleting", !.todo = due,
                                !.due = [d \in Dirs |-> IF d \in due THEN mark[d]
                                                                     ELSE NoMark]]]
        /\ UNCHANGED <<day, jobs, held, mark, logs, faults, found>>

OrderDeletion(s, d) ==
    /\ sweep[s].pc = "idle" /\ held[d] # "gone" /\ mark[d] # NoMark
    /\ sweep' = [sweep EXCEPT ![s] = [Idle EXCEPT
                    !.pc = "deleting", !.todo = {d}, !.ordered = TRUE,
                    !.due[d] = mark[d]]]
    /\ UNCHANGED <<day, jobs, held, mark, logs, faults, found>>

Allowed(m, ordered) == m.category \in Automatic \/ ordered

\* A plausible bug: no intent for a directory that no job is known for.
RecorderOfJob(d, m) == IF m.category # "unattributed" THEN {d} ELSE {}

\* Where the removal of d is written: its job's log, or some job's, or none.
Recorder(d, m) ==
    IF m.category # "unattributed" THEN {d}
    ELSE LET known == {j \in Dirs : job[j] # "none"}
         IN  IF known = {} THEN {} ELSE {First(known)}

Log(s) == Recorder(Current(s), sweep[s].due[Current(s)])
Key(s) == Log(s) \X {Current(s)}
Written(s) == last' = [j \in Dirs |-> IF j \in Log(s) THEN day ELSE last[j]]

(* The intent, or the refusal, which ends the command and all it had left. *)
Delete(s) ==
    LET d == Current(s) IN
    /\ sweep[s].pc = "deleting"
    /\ IF Allowed(sweep[s].due[d], sweep[s].ordered)
       THEN /\ started' = started \cup Key(s) /\ Written(s)
            /\ sweep' = [sweep EXCEPT ![s].pc = "removing", ![s].digests = held[d]]
       ELSE /\ sweep' = [sweep EXCEPT ![s] = Idle] /\ UNCHANGED <<started, last>>
    /\ UNCHANGED <<day, job, record, held, mark, concluded, told, faults, found>>

(* A part of the directory goes, the tombstone with it or not; or all.     *)
RemoveSome(s) ==
    LET d == Current(s) IN
    /\ sweep[s].pc = "removing" /\ held[d] = "whole"
    /\ held' = [held EXCEPT ![d] = "partial"]
    /\ \E tombstone \in {mark[d], NoMark} : mark' = [mark EXCEPT ![d] = tombstone]
    /\ UNCHANGED <<day, jobs, logs, sweep, faults, found>>

RemoveRest(s) ==
    LET d == Current(s) IN
    /\ sweep[s].pc = "removing" /\ held[d] # "gone"
    /\ held' = [held EXCEPT ![d] = "gone"]
    /\ mark' = [mark EXCEPT ![d] = NoMark]
    /\ sweep' = [sweep EXCEPT ![s].pc = "concluding"]
    /\ UNCHANGED <<day, jobs, logs, faults, found>>

\* Another sweep has taken it away, or is about to.
Contested(s) ==
    LET d == Current(s) IN
    \/ held[d] = "gone"
    \/ \E o \in Sweeps \ {s} : sweep[o].pc = "removing" /\ Current(o) = d

(* A file cannot be removed, or is not there any more.  The failure is     *)
(* written, and ends the command.                                          *)
RemoveFails(s) ==
    /\ sweep[s].pc = "removing"
    /\ IF Contested(s) THEN UNCHANGED faults
                       ELSE faults < MaxFaults /\ faults' = faults + 1
    /\ concluded' = concluded \cup Key(s) /\ Written(s)
    /\ sweep' = [sweep EXCEPT ![s] = Idle]
    /\ UNCHANGED <<day, job, record, held, mark, started, told, found>>

Conclude(s) ==
    /\ sweep[s].pc = "concluding"
    /\ concluded' = concluded \cup Key(s) /\ Written(s)
    /\ sweep' = [sweep EXCEPT ![s].pc = "recording"]
    /\ UNCHANGED <<day, job, record, held, mark, started, told, faults, found>>

RecordDeletion(s) ==
    LET d == Current(s) IN
    /\ sweep[s].pc = "recording"
    /\ told' = IF Log(s) = {} THEN told ELSE [told EXCEPT ![d] = sweep[s].digests]
    /\ Written(s)
    /\ Going(s, "deleting", sweep[s].todo \ {d})
    /\ UNCHANGED <<day, job, record, held, mark, started, concluded, faults, found>>

Crash(s) ==
    /\ sweep[s].pc # "idle" /\ faults < MaxFaults
    /\ faults' = faults + 1
    /\ sweep' = [sweep EXCEPT ![s] = Idle]
    /\ UNCHANGED <<day, jobs, held, mark, logs, found>>
-----------------------------------------------------------------------------
(* Meanwhile. *)

Unfinished == started \ concluded

Appends(d, state) ==
    /\ job[d] = "live"
    /\ job' = [job EXCEPT ![d] = state]
    /\ last' = [last EXCEPT ![d] = day]
    /\ UNCHANGED <<day, held, mark, logs, sweep, faults, found>>

Work(d)  == last[d] < day /\ Appends(d, "live") /\ UNCHANGED record
Close(d) == Appends(d, "closed") /\ UNCHANGED record

\* An attempt that is not settled stands in the way of a deposit.
Publish(d) ==
    /\ held[d] = "whole"
    /\ \A e \in Dirs : <<d, e>> \notin Unfinished
    /\ Appends(d, "released")
    /\ record' = [record EXCEPT ![d] = "public"]

Withdraw(d) ==
    /\ record[d] = "public"
    /\ record' = [record EXCEPT ![d] = "withdrawn"]
    /\ UNCHANGED <<day, job, last, held, mark, logs, sweep, faults, found>>

Tick ==
    /\ day < MaxDay /\ day' = day + 1
    /\ UNCHANGED <<jobs, held, mark, logs, sweep, faults, found>>

Run(s) ==
    \/ CheckSurvival(s) \/ Mark(s) \/ Due(s) \/ Delete(s)
    \/ RemoveSome(s) \/ RemoveRest(s) \/ RemoveFails(s)
    \/ Conclude(s) \/ RecordDeletion(s)

Next ==
    \/ \E s \in Sweeps :
          \/ Candidates(s) \/ Run(s) \/ Crash(s)
          \/ \E d \in Dirs : OrderDeletion(s, d)
    \/ \E d \in Dirs :
          \/ OrderMark(d) \/ Unmark(d)
          \/ Work(d) \/ Close(d) \/ Publish(d) \/ Withdraw(d)
    \/ Tick

Spec == Init /\ [][Next]_vars
-----------------------------------------------------------------------------
SweepStates ==
    [pc : {"idle", "asking", "marking", "deleting"} \cup Removing,
     todo : SUBSET Dirs, survives : SUBSET Dirs, ordered : BOOLEAN,
     category : [Dirs -> Categories], due : [Dirs -> Marks \cup {NoMark}],
     digests : Amounts]

SweepOK(w) ==
    /\ w.pc \notin {"idle", "marking"} => w.todo # {}
    /\ w.pc \in {"deleting"} \cup Removing => \A d \in w.todo : w.due[d] \in Marks

TypeOK ==
    /\ day \in 0..MaxDay /\ faults \in 0..MaxFaults
    /\ job \in [Dirs -> Jobs] /\ last \in [Dirs -> 0..MaxDay]
    /\ record \in [Dirs -> {"none", "public", "withdrawn"}]
    /\ held \in [Dirs -> Amounts] /\ told \in [Dirs -> Amounts \cup {"nothing"}]
    /\ mark \in [Dirs -> Marks \cup {NoMark}]
    /\ started \subseteq Dirs \X Dirs /\ concluded \subseteq Dirs \X Dirs
    /\ found \in [Dirs -> 0..Never]
    /\ sweep \in [Sweeps -> SweepStates] /\ \A s \in Sweeps : SweepOK(sweep[s])

(* "Evidence, not belief", and "a grace period": what goes without an      *)
(* order given for it then is a published job's, marked the days of grace  *)
(* ago or more, and marked by a person or because the repository had said  *)
(* at least as long ago that it holds the record.  (sweeper.py)            *)
WithinItsRights(d, m) ==
    /\ job[d] = "released"
    /\ m.at + Grace["released"] <= day
    /\ m.ordered \/ found[d] + Grace["released"] <= day

RemovedByRight ==
    \A s \in Sweeps :
        sweep[s].pc \in Removing /\ ~sweep[s].ordered =>
            WithinItsRights(Current(s), sweep[s].due[Current(s)])

(* "a crash part-way through leaves a partially deleted directory that     *)
(* nothing would otherwise record": an attempt at what is left in part is  *)
(* on a log, where there is a log at all.  (sweeper.py:delete)             *)
Recorded(d) == (\E j \in Dirs : <<j, d>> \in started) \/ \A j \in Dirs : job[j] = "none"
HalfRemovedIsRecorded == \A d \in Dirs : held[d] = "partial" => Recorded(d)

(* "If the process dies inside the body, the log holds an intent with no   *)
(* outcome": a removal cut short is unfinished.  (workflow/effects.py)     *)
CutShortIsUnfinished ==
    [][\A s \in Sweeps :
          /\ sweep[s].pc = "removing" /\ sweep'[s].pc = "idle"
          /\ held[Current(s)] = "partial" /\ UNCHANGED concluded
          => Key(s) \subseteq Unfinished]_vars

(* "so the check is made rather than assumed": what a schedule begins to   *)
(* remove on its own mark is at the repository when it begins.             *)
RemovedOnEvidence ==
    [][\A s \in Sweeps :
          LET d == Current(s) IN
          /\ sweep[s].pc = "deleting" /\ sweep'[s].pc = "removing"
          /\ ~sweep[s].ordered /\ ~sweep[s].due[d].ordered
          => record[d] = "public"]_vars

(* "marked for deletion after the grace period": a directory with a mark,  *)
(* found safe to remove the days of grace ago and still so, is removed by  *)
(* the next run.  (cli.py, sweeper.py)                                     *)
GoesAfterGrace ==
    [][\A s \in Sweeps, d \in Dirs :
          /\ sweep[s].pc = "marking" /\ sweep[s].todo = {}
          /\ sweep'[s].pc # "marking"
          /\ held[d] = "whole" /\ mark[d] # NoMark /\ record[d] = "public"
          /\ found[d] + Grace["released"] <= day /\ UNCHANGED faults
          => d \in sweep'[s].todo]_vars

(* "remove this file and the deletion is cancelled."                       *)
CancelledIsKept ==
    [][\A s \in Sweeps :
          sweep[s].pc = "deleting" /\ sweep'[s].pc = "removing" =>
              mark[Current(s)] # NoMark]_vars

(* A job's log speaks of its own directory: no job is kept from publishing *)
(* by the removal of another's.                                            *)
OwnDirectoryOnly == \A p \in started : p[1] = p[2]

(* "a later question about what was deposited can still be answered": what *)
(* is gone and no longer worked on left digests of all of it.              *)
(* (C/retention.py)                                                        *)
GoneIsDescribed ==
    \A d \in Dirs :
        held[d] = "gone" /\ (\A s \in Sweeps : sweep[s].pc = "idle") =>
            told[d] = "whole"
=============================================================================
