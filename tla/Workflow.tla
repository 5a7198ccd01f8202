------------------------------ MODULE Workflow ------------------------------
(***************************************************************************)
(* One job on its way through the graph: which node runs next, what a run  *)
(* appends, what holds it back, how it fails, and what people do about it. *)
(*                                                                         *)
(* A process keeps nothing: each call reads the log, chooses, runs an      *)
(* agent, appends what it returned, entry by entry, and reads again.  job  *)
(* is therefore the fold of the log, and After(job, e) the fold of the log *)
(* with e at its end.  What a model writes is left out, but for what the   *)
(* graph and the gate make of it.  Every draft is a new text, so each has  *)
(* an item of its own (ReviewGate has the ones that repeat).               *)
(***************************************************************************)
EXTENDS Naturals, Sequences, FiniteSets

CONSTANTS
    Callers,        \* requests of the web service and commands of the CLI
    Submissions,    \* the submissions considered
    MaxAttempts,    \* max_attempts of the engine
    MaxFaults,      \* bound: failures of agents and calls that die
    MaxAgain,       \* bound: drafts, statements, confirmations made again
    Questions,      \* the questions agents may have for a person
    Courses         \* "unstaged": a call may die before it staged the material

Plans     == {"reference", "found", "ambiguous", "none"}
Levels    == {0, 1, 2}      \* none yet, below sensitive, sensitive

ASSUME WorkflowAssumption ==
    /\ Submissions \subseteq [images : BOOLEAN, plan : Plans]
    /\ MaxAttempts \in Nat \ {0}
    /\ Questions \subseteq {"plan", "choice", "file", "redaction"}
    /\ MaxFaults \in Nat /\ MaxAgain \in Nat

VARIABLES
    submission,     \* what the depositor handed over
    staged,         \* what of it the job's directory holds
    job,            \* the log of the job, folded
    call,           \* what each caller is at
    faults, again

vars == <<submission, staged, job, call, faults, again>>
-----------------------------------------------------------------------------
(* The graph. *)

Human     == {"confirm_declaration", "review", "deposit"}
Automatic == {"ingest", "dmp", "declaration", "classification", "media",
              "redaction", "metadata", "documentation", "validation",
              "repository"}
Nodes     == Automatic \cup Human
Places    == Nodes \cup {"start"}

Conditions == {"material", "confirmed", "images", "sensitive"}

(* The graph: what each place leads to by its edges, in their order, those *)
(* whose condition is not among the ones held left out.                    *)
When(condition, held, n) == IF condition \in held THEN <<n>> ELSE <<>>

\* A plausible bug: the edge to metadata stands before the one to media.
InspectionMetadataFirst(held) ==
    <<"metadata">> \o When("images", held, "media") \o When("sensitive", held, "redaction")

Inspection(held) ==
    When("images", held, "media") \o <<"metadata">> \o When("sensitive", held, "redaction")

Successors(held) ==
    [n \in Places |->
        CASE n = "start"               -> <<"ingest">>
          [] n = "ingest"              -> When("material", held, "dmp")
          [] n = "dmp"                 -> When("material", held, "declaration")
          [] n = "declaration"         -> <<"confirm_declaration">>
          [] n = "confirm_declaration" -> When("confirmed", held, "classification")
          [] n = "classification"      -> Inspection(held)
          [] n = "media"               -> <<"metadata">>
          [] n = "metadata"            -> <<"documentation">>
          [] n = "documentation"       -> <<"validation">>
          [] n = "validation"          -> <<"repository">>
          [] n \in {"redaction", "repository"} -> <<"review">>
          [] n = "review"              -> <<"deposit">>
          [] n = "deposit"             -> <<>>]

Produces ==
    [n \in Nodes |->
        CASE n = "ingest"              -> {"material"}
          [] n = "dmp"                 -> {"plan"}
          [] n = "declaration"         -> {"parsed"}
          [] n = "confirm_declaration" -> {"confirmed"}
          [] n = "classification"      -> {"classified"}
          [] n = "metadata"            -> {"drafted"}
          [] n = "documentation"       -> {"documented"}
          [] n = "validation"          -> {"validated"}
          [] n = "review"              -> {"decided"}
          [] n = "deposit"             -> {"deposited"}
          [] OTHER                     -> {}]

Requires(n, j) ==
    /\ n = "declaration" => j.said
    /\ n \in {"documentation", "validation"} => "drafted" \in j.seen

Holds(when, j) ==
    CASE when = "material"  -> "material" \in j.seen
      [] when = "confirmed" -> j.level # 0
      [] when = "images"    -> submission.images /\ "material" \in j.seen
      [] when = "sensitive" -> j.level = 2

Predecessors(reached) ==
    {n \in Nodes : \E i \in DOMAIN Successors(Conditions)[n] :
                      Successors(Conditions)[n][i] \in reached}

Ancestors ==
    LET Up[reached \in SUBSET Nodes] ==
            LET more == reached \cup Predecessors(reached)
            IN  IF more = reached THEN reached ELSE Up[more]
    IN  [n \in Nodes |-> Up[Predecessors({n})]]

(* The targets the walk examines, in its order: breadth first, over the    *)
(* edges whose condition holds, past every node whether done or not.  It   *)
(* goes on from a queue and the set of what was taken from it.             *)
Walks ==
    [held \in SUBSET Conditions |->
        LET W[at \in Seq(Places) \X SUBSET Places] ==
                LET first == Head(at[1])
                    next  == Successors(held)[first]
                IN  IF at[1] = <<>> THEN <<>>
                    ELSE IF first \in at[2] THEN W[<<Tail(at[1]), at[2]>>]
                    ELSE next \o W[<<Tail(at[1]) \o next, at[2] \cup {first}>>]
        IN  W[<< <<"start">>, {} >>]]

Walk(j) == Walks[{when \in Conditions : Holds(when, j)}]

\* A plausible bug, which the code once had: only what a node produced counts.
CompletedByEvents(j) ==
    {n \in Nodes : Produces[n] # {} /\ Produces[n] \subseteq j.seen}

Completed(j) ==
    j.completed \cup
    {n \in Nodes : Produces[n] # {} /\ Produces[n] \subseteq j.seen}

Takeable(j) == {n \in Automatic \ Completed(j) : Requires(n, j)}

FirstIn(s, wanted) ==
    IF \A i \in DOMAIN s : s[i] \notin wanted THEN "none"
    ELSE s[CHOOSE i \in DOMAIN s :
              s[i] \in wanted /\ \A k \in 1..(i - 1) : s[k] \notin wanted]

NextNode(j) == FirstIn(Walk(j), Takeable(j))

Blocking(j) == FirstIn(Walk(j), Human \ Completed(j))
-----------------------------------------------------------------------------
(* The log. *)

(* The agents whose model's prose is put to a person, and the kinds that   *)
(* carry it.                                                               *)
LlmOutput ==
    [dmp |-> {"plan"}, classification |-> {"classified"}, media |-> {"classified"},
     metadata |-> {"drafted"}, documentation |-> {"documented"}]
Drafting == DOMAIN LlmOutput

Of(kind)            == [kind |-> kind]
Plan(commitments)   == [kind |-> "plan", commitments |-> commitments]
Confirmed(level)    == [kind |-> "confirmed", level |-> level]
Classified(level)   == [kind |-> "classified", level |-> level]
StepCompleted(n)    == [kind |-> "step-completed", node |-> n]
Items(agents, asks) == [kind |-> "items", agents |-> agents, asks |-> asks]
Decided(item, upto) == [kind |-> "decided", item |-> item, upto |-> upto]

(* The kinds that the graph, the screens or the properties ask for; the    *)
(* others (said, contradicted, failed, ...) act when they come, or not.    *)
Kinds == {"created", "material", "plan", "parsed", "confirmed", "classified",
          "drafted", "documented", "validated", "decided", "deposited"}

EmptyLog ==
    [seen |-> {}, completed |-> {}, level |-> 0, said |-> FALSE,
     halted |-> FALSE, commitments |-> FALSE,
     raised |-> [a \in Drafting |-> 0], settled |-> [a \in Drafting |-> 0],
     asked |-> {}, answered |-> {}]

(* One more entry.  A decision about the item an agent raised upto-th also *)
(* supersedes those it raised before; one that asks again settles nothing. *)
After(j, e) ==
    LET n == [j EXCEPT !.seen = @ \cup ({e.kind} \cap Kinds),
                       !.halted = (e.kind = "halted")]
    IN  CASE e.kind = "said"       -> [n EXCEPT !.said = TRUE]
          [] e.kind = "plan"       -> [n EXCEPT !.commitments = e.commitments]
          [] e.kind = "confirmed"  -> [n EXCEPT !.level = e.level]
          [] e.kind = "classified" ->
                [n EXCEPT !.level = IF @ \in 1..(e.level - 1) THEN e.level ELSE @]
          [] e.kind = "step-completed" ->
                [n EXCEPT !.completed = @ \cup {e.node}]
          [] e.kind = "items" ->
                [n EXCEPT !.asked = @ \cup e.asks,
                          !.raised = [a \in Drafting |->
                              j.raised[a] + IF a \in e.agents THEN 1 ELSE 0]]
          [] e.kind = "decided" /\ e.item \in Drafting ->
                [n EXCEPT !.settled[e.item] = IF e.upto > @ THEN e.upto ELSE @]
          [] e.kind = "decided" /\ e.item \in Questions ->
                [n EXCEPT !.answered = @ \cup {e.item}]
          [] OTHER -> n

PendingAgents(j) == {a \in Drafting : j.settled[a] < j.raised[a]}
OpenQuestions(j) == j.asked \ j.answered

\* A plausible bug: a node waits for its own draft only.
HeldByItself(n, j) == n \in PendingAgents(j)

Held(n, j) == PendingAgents(j) \cap (Ancestors[n] \cup {n}) # {}

\* A plausible bug: the screen does not ask whether work remains.
ReadyWhenReviewed(j) ==
    /\ ~j.halted /\ "deposited" \notin j.seen
    /\ PendingAgents(j) = {} /\ OpenQuestions(j) = {}
    /\ Blocking(j) = "deposit"

ReadyToPublish(j) ==
    /\ ~j.halted /\ "deposited" \notin j.seen
    /\ PendingAgents(j) = {} /\ OpenQuestions(j) = {}
    /\ NextNode(j) = "none" /\ Blocking(j) = "deposit"
-----------------------------------------------------------------------------
(* What an agent may return: the entries it wants, the questions it has    *)
(* for a person, and whether it gives the decision record the engine asks  *)
(* of every step.                                                          *)

Outcome(entries, asks, decision) ==
    [entries |-> entries, asks |-> asks, decision |-> decision]

Ingestion ==
    IF "material" \in staged THEN {Outcome(<<Of("material")>>, {}, TRUE)}
                             ELSE {Outcome(<<>>, {}, FALSE)}

ReadPlan ==
    IF submission.plan = "ambiguous" THEN {Outcome(<<>>, Questions \cap {"plan"}, FALSE)}
    ELSE IF submission.plan = "found" \/ "plan" \in staged
    THEN {Outcome(<<Plan(some)>>, {}, TRUE) : some \in BOOLEAN}
    ELSE {Outcome(<<Plan(FALSE)>>, {}, FALSE)}

ReadStatement ==
    IF job.said THEN {Outcome(<<Of("parsed")>>, {}, TRUE)}
                ELSE {Outcome(<<>>, {}, FALSE)}

(* An assessment at the level or above it is recorded, one below it is     *)
(* only said to contradict, and an unreadable one is nothing.  A referral  *)
(* to somebody who may decide about the data may go with it.               *)
Classify ==
    [entries : {<<Classified(l)>> : l \in job.level..2} \cup {<<Of("contradicted")>>, <<>>},
     asks : SUBSET (Questions \cap {"choice"}), decision : {TRUE}]

InspectMedia ==
    {Outcome(<<>>, {}, TRUE)} \cup
    [entries : {<<Classified(l)>> : l \in 1..2},
     asks : SUBSET (Questions \cap {"file"}), decision : {TRUE}]

ProposeRedactions ==
    {Outcome(<<>>, asks, TRUE) : asks \in SUBSET (Questions \cap {"redaction"})}

DraftMetadata == {Outcome(<<Of("drafted")>>, {}, TRUE)}

\* A list of repositories, in the decision only.
Shortlist == {Outcome(<<>>, {}, TRUE)}

(* A README may fill fields the record has nothing for, in a new draft.    *)
Document ==
    {Outcome(<<Of("documented")>>, {}, TRUE),
     Outcome(<<Of("documented"), Of("drafted")>>, {}, TRUE)}

Validation ==
    IF "drafted" \in job.seen THEN {Outcome(<<Of("validated")>>, {}, TRUE)} ELSE {}

Outcomes(n) ==
    CASE n = "ingest"         -> Ingestion
      [] n = "dmp"            -> ReadPlan
      [] n = "declaration"    -> ReadStatement
      [] n = "classification" -> Classify
      [] n = "media"          -> InspectMedia
      [] n = "redaction"      -> ProposeRedactions
      [] n = "metadata"       -> DraftMetadata
      [] n = "documentation"  -> Document
      [] n = "validation"     -> Validation
      [] n = "repository"     -> Shortlist

(* The agents to be reviewed for an outcome of n: n, if its model wrote.   *)
ClaimedReview(n, out) ==
    {a \in {n} \cap Drafting :
        \E i \in DOMAIN out.entries : out.entries[i].kind \in LlmOutput[a]}

GateItemEvents(agents, asks) ==
    IF agents = {} /\ asks \subseteq job.asked THEN <<>>
    ELSE <<Items(agents, asks \ job.asked)>>
-----------------------------------------------------------------------------
(* Calls.  why says which function runs the node: the engine in a loop     *)
(* (advance), the engine once (rerun), ingest, or parse_declaration.       *)

Pcs == {"idle", "staging", "choosing", "running", "appending"}
Idle == [pc |-> "idle", why |-> "none", node |-> "start", todo |-> <<>>,
         then |-> "idle", tried |-> 0, ran |-> {}]
Calling(why, pc, node) == [Idle EXCEPT !.why = why, !.pc = pc, !.node = node]

Init ==
    /\ submission \in Submissions
    /\ staged = {}
    /\ job = EmptyLog
    /\ call = [c \in Callers |-> Idle]
    /\ faults = 0 /\ again = 0

Created == "created" \in job.seen

(* The call r with entries left to append, or on its way when there are    *)
(* none.                                                                   *)
Proceed(r, todo) ==
    IF todo # <<>> THEN [r EXCEPT !.pc = "appending", !.todo = todo]
    ELSE IF r.then = "idle" THEN Idle
    ELSE [r EXCEPT !.pc = r.then, !.todo = <<>>]

Ingest(c) ==
    /\ call[c] = Idle /\ ~Created
    /\ job' = After(job, Of("created"))
    /\ call' = [call EXCEPT ![c] = Calling("ingest", "staging", "ingest")]
    /\ UNCHANGED <<submission, staged, faults, again>>

StageSubmission(c) ==
    /\ call[c].pc = "staging"
    /\ staged' = staged \cup {"material"}
    /\ call' = [call EXCEPT ![c].pc = "running"]
    /\ UNCHANGED <<submission, job, faults, again>>

(* Choose the next step, or return: halted, nothing to take, a step that   *)
(* ran already in this call, or one behind a draft nobody has read.        *)
Choose(c) ==
    LET n == NextNode(job)
        stop == job.halted \/ n = "none" \/ n \in call[c].ran \/ Held(n, job)
    IN  /\ call[c].pc = "choosing"
        /\ call' = [call EXCEPT ![c] =
              IF stop THEN Idle
              ELSE [call[c] EXCEPT !.pc = "running", !.node = n, !.tried = 0,
                                   !.ran = @ \cup {n}]]
        /\ UNCHANGED <<submission, staged, job, faults, again>>

(* The agent runs and returns.  The engine appends its entries, the items  *)
(* and the completion, and then asks for the decision: without one the     *)
(* call ends there.  ingest goes on to the plan, whose prose it puts to    *)
(* nobody, and ends with the questions that arose.                         *)
RunEngine(c) ==
    LET n == call[c].node IN
    /\ call[c].pc = "running" /\ call[c].why \in {"advance", "rerun"}
    /\ \E out \in Outcomes(n) :
          LET goes == call[c].why = "advance" /\ out.decision
              r == [call[c] EXCEPT !.then = IF goes THEN "choosing" ELSE "idle"]
          IN  call' = [call EXCEPT ![c] =
                Proceed(r, out.entries \o GateItemEvents(ClaimedReview(n, out), out.asks)
                           \o <<StepCompleted(n)>>)]
    /\ UNCHANGED <<submission, staged, job, faults, again>>

ParseDeclaration(c) ==
    /\ call[c].pc = "running" /\ call[c].why = "parse"
    /\ \E out \in ReadStatement :
          call' = [call EXCEPT ![c] = Proceed(call[c], out.entries)]
    /\ UNCHANGED <<submission, staged, job, faults, again>>

IngestMaterial(c) ==
    /\ call[c].pc = "running" /\ call[c].why = "ingest" /\ call[c].node = "ingest"
    /\ \E out \in Ingestion :
          call' = [call EXCEPT ![c] =
             Proceed([call[c] EXCEPT !.node = "dmp", !.then = "running"], out.entries)]
    /\ staged' = staged \cup (IF submission.plan = "reference" THEN {"plan"} ELSE {})
    /\ UNCHANGED <<submission, job, faults, again>>

ResolveDmp(c) ==
    /\ call[c].pc = "running" /\ call[c].why = "ingest" /\ call[c].node = "dmp"
    /\ \E out \in ReadPlan, choice \in SUBSET (Questions \cap {"choice"}) :
          call' = [call EXCEPT ![c] =
             Proceed([call[c] EXCEPT !.then = "idle"],
                     out.entries \o GateItemEvents({}, out.asks \cup choice))]
    /\ UNCHANGED <<submission, staged, job, faults, again>>

AppendRun(c) ==
    /\ call[c].pc = "appending"
    /\ job' = After(job, Head(call[c].todo))
    /\ call' = [call EXCEPT ![c] = Proceed(@, Tail(@.todo))]
    /\ UNCHANGED <<submission, staged, faults, again>>
-----------------------------------------------------------------------------
(* Failures. *)

Fault == faults < MaxFaults /\ faults' = faults + 1

LastAttempt(tried) == tried + 1 >= MaxAttempts

(* The nodes that ask a model or another service; the list of repositories *)
(* does too, and does without it when it fails.                            *)
Remote == Automatic \ {"ingest", "validation", "repository"}

(* An external service fails: the engine tries again, and halts when the   *)
(* attempts are used up.                                                   *)
ServiceFails(c) ==
    LET last == LastAttempt(call[c].tried) IN
    /\ call[c].pc = "running" /\ call[c].why = "advance" /\ Fault
    /\ call[c].node \in Remote
    /\ job' = After(job, Of(IF last THEN "halted" ELSE "failed"))
    /\ call' = [call EXCEPT ![c] = IF last THEN Idle
                                     ELSE [call[c] EXCEPT !.tried = @ + 1]]
    /\ UNCHANGED <<submission, staged, again>>

(* Any other exception of a step halts at once. *)
StepRaises(c) ==
    /\ call[c].pc = "running" /\ call[c].why = "advance" /\ Fault
    /\ job' = After(job, Of("halted"))
    /\ call' = [call EXCEPT ![c] = Idle]
    /\ UNCHANGED <<submission, staged, again>>

(* The process dies, an append finds the log locked, or an agent raises    *)
(* outside the engine's loop.                                              *)
Die(c) ==
    /\ call[c] # Idle /\ Fault
    /\ call[c].pc = "staging" => "unstaged" \in Courses
    /\ call' = [call EXCEPT ![c] = Idle]
    /\ UNCHANGED <<submission, staged, job, again>>
-----------------------------------------------------------------------------
(* People. *)

Again(repeated) ==
    IF repeated THEN again < MaxAgain /\ again' = again + 1 ELSE UNCHANGED again

RecordStatement(c) ==
    /\ call[c] = Idle /\ Created
    /\ Again(job.said)
    /\ job' = After(job, Of("said"))
    /\ call' = [call EXCEPT ![c] = Calling("parse", "running", "declaration")]
    /\ UNCHANGED <<submission, staged, faults>>

(* Whether advance has a plan and a record to compare.  Then it calls      *)
(* verify without the state, the commitments and the record, and the call  *)
(* ends in a TypeError, unless the plan cannot be read a second time.      *)
Compares(j) == j.commitments /\ "drafted" \in j.seen

Advance(c) ==
    /\ call[c] = Idle /\ Created
    /\ \/ /\ IF Compares(job) THEN Fault ELSE UNCHANGED faults
          /\ call' = [call EXCEPT ![c] = Calling("advance", "choosing", "start")]
       \/ Compares(job) /\ UNCHANGED <<call, faults>>
    /\ UNCHANGED <<submission, staged, job, again>>

\* A plausible bug: a person who chooses no level confirms none.
AssumedNothing(choice) == choice

\* Where a person chooses no level (0), the most restrictive is assumed.
Assumed(choice) == IF choice = 0 THEN 2 ELSE choice

ConfirmDeclaration(c, choice) ==
    /\ call[c] = Idle /\ Created
    /\ Again("confirmed" \in job.seen)
    /\ job' = After(job, Confirmed(Assumed(choice)))
    /\ call' = [call EXCEPT ![c] =
          IF Compares(job) THEN Idle ELSE Calling("advance", "choosing", "start")]
    /\ UNCHANGED <<submission, staged, faults>>

Validate(a, upto) ==
    /\ upto \in (job.settled[a] + 1)..job.raised[a]
    /\ job' = After(job, Decided(a, upto))
    /\ UNCHANGED <<submission, staged, call, faults, again>>

Resolve(q) ==
    /\ q \in OpenQuestions(job)
    /\ job' = After(job, Decided(q, 0))
    /\ UNCHANGED <<submission, staged, call, faults, again>>

(* Ask for another draft: the request is on the log, with its reason,      *)
(* before the agent runs.                                                  *)
RequestRerun(c, a) ==
    /\ call[c] = Idle /\ a \in PendingAgents(job)
    /\ Again(TRUE)
    /\ job' = After(After(job, Decided("again", 0)), Of("note"))
    /\ call' = [call EXCEPT ![c] = Calling("rerun", "running", a)]
    /\ UNCHANGED <<submission, staged, faults>>

(* Opening the gate screen with something to decide writes an entry.       *)
ShowGate ==
    /\ PendingAgents(job) # {} \/ OpenQuestions(job) # {}
    /\ job' = After(job, Of("displayed"))
    /\ UNCHANGED <<submission, staged, call, faults, again>>

(* The publication, as the screens offer it; its steps are in Deposit.     *)
Publish ==
    /\ ReadyToPublish(job)
    /\ job' = After(job, Of("deposited"))
    /\ UNCHANGED <<submission, staged, call, faults, again>>
-----------------------------------------------------------------------------
Work(c) == \/ StageSubmission(c) \/ Choose(c) \/ AppendRun(c)
           \/ RunEngine(c) \/ ParseDeclaration(c)
           \/ IngestMaterial(c) \/ ResolveDmp(c)

Next ==
    \/ \E c \in Callers :
          \/ Work(c) \/ Ingest(c) \/ Advance(c) \/ RecordStatement(c)
          \/ \E choice \in Levels : ConfirmDeclaration(c, choice)
          \/ \E a \in Drafting : RequestRerun(c, a)
          \/ ServiceFails(c) \/ StepRaises(c) \/ Die(c)
    \/ \E a \in Drafting : \E upto \in 1..job.raised[a] : Validate(a, upto)
    \/ \E q \in Questions : Resolve(q)
    \/ ShowGate \/ Publish

Spec == Init /\ [][Next]_vars

(* A call that runs goes on.  People submit, state, confirm once, press    *)
(* "Continue" and decide about what is put to them; they need not ask      *)
(* again, look at the gate, or change their minds.                         *)
Fairness ==
    /\ \A c \in Callers :
          /\ WF_vars(Work(c))
          /\ WF_vars(Ingest(c))
          /\ SF_vars(~job.said /\ RecordStatement(c))
          /\ SF_vars(job.level = 0 /\ \E l \in Levels : ConfirmDeclaration(c, l))
          /\ SF_vars(Advance(c))
    /\ WF_vars(\E a \in Drafting : Validate(a, job.raised[a]))
    /\ WF_vars(\E q \in Questions : Resolve(q))

FairSpec == Spec /\ Fairness
-----------------------------------------------------------------------------
TypeOK ==
    /\ submission \in Submissions
    /\ staged \subseteq {"material", "plan"}
    /\ job.seen \subseteq Kinds /\ job.completed \subseteq Automatic
    /\ job.level \in Levels
    /\ {job.said, job.halted, job.commitments} \subseteq BOOLEAN
    /\ \A a \in Drafting : job.settled[a] \in 0..job.raised[a]
    /\ job.answered \subseteq job.asked /\ job.asked \subseteq Questions
    /\ \A c \in Callers :
          /\ call[c].pc \in Pcs
          /\ call[c].then \in {"idle", "running", "choosing"}
          /\ call[c].node \in Automatic \cup {"start"}
          /\ call[c].ran \subseteq Automatic
          /\ call[c].tried \in 0..(MaxAttempts - 1)
          /\ (call[c].pc = "appending") = (call[c].todo # <<>>)
    /\ faults \in 0..MaxFaults /\ again \in 0..MaxAgain

\* The nodes the walk reaches.
OnOpenPath(j) == {Walk(j)[i] : i \in DOMAIN Walk(j)}

(* The engine starts a node only when nothing that could run stands before *)
(* it on an open path: no record is drafted before the images were looked  *)
(* at, none validated before it was documented.  next_node has no such     *)
(* test; it follows from the walk and the order of the edges.              *)
UpstreamFirst ==
    [][\A c \in Callers :
          call[c].pc = "choosing" /\ call'[c].pc = "running" =>
              Ancestors[call'[c].node] \cap OnOpenPath(job) \cap Takeable(job) = {}]_vars

(* "nothing downstream reads this until you validate it": while a person   *)
(* has prose of an agent to read, no step behind that agent is recorded as *)
(* completed and none behind it is started.  (gate/review.py)              *)
NothingBehindUnread ==
    [][/\ \A n \in job'.completed \ job.completed :
             PendingAgents(job) \cap Ancestors[n] = {}
       /\ \A c \in Callers : call[c].pc = "choosing" /\ call'[c].pc = "running" =>
             ~Held(call'[c].node, job)]_vars

(* "Nothing that reads the data runs before the depositor has said what it *)
(* is."  (workflow/definition.py)                                          *)
ConfirmedFirst ==
    \A n \in {"classification", "media", "redaction", "metadata", "documentation"} :
        \/ n \in Completed(job)
        \/ \E c \in Callers : call[c].node = n /\ call[c].pc = "running"
        => "confirmed" \in job.seen

(* The screen offers to publish only a job that has drafted, documented    *)
(* and validated a record, and looked for redactions when it is sensitive. *)
ReadyIsComplete ==
    ReadyToPublish(job) =>
        /\ {"confirmed", "drafted", "documented", "validated"} \subseteq job.seen
        /\ "repository" \in job.completed
        /\ job.level = 2 => "redaction" \in job.completed
        /\ submission.images => "media" \in job.completed

(* A job nobody works on and that is not published waits for something     *)
(* advance can name, a step to take or a person: but for one, that the     *)
(* engine ingested before its material was in its directory, since a step  *)
(* that is completed is not taken again.  (Pipeline.advance)               *)
NeverWaitsForNothing ==
    Created /\ (\A c \in Callers : call[c] = Idle) /\ "deposited" \notin job.seen =>
        \/ NextNode(job) # "none" \/ Blocking(job) # "none"
        \/ "ingest" \in job.completed /\ "material" \notin job.seen

\* The same, of every job.
AlwaysWaitsForSomething ==
    Created /\ (\A c \in Callers : call[c] = Idle) /\ "deposited" \notin job.seen =>
        NextNode(job) # "none" \/ Blocking(job) # "none"

(* A job whose people do their part is offered for publication, or stopped *)
(* with its reason on the log.                                             *)
OfferedAtLast ==
    <>(ReadyToPublish(job) \/ "deposited" \in job.seen \/ job.halted)

(* "Trying again is worth doing": a job that stopped goes on when a person *)
(* presses "Try again".  (web/templates/job.html)                          *)
TryAgainWorks == job.halted ~> ~job.halted

(* "Every model output, put in front of a person": what an agent wrote has *)
(* an item once the call that wrote it is over.  (gate/review.py)          *)
EveryDraftIsAsked ==
    (\A c \in Callers : call[c] = Idle) =>
        /\ job.commitments => job.raised["dmp"] > 0
        /\ \A a \in {"metadata", "documentation"} :
              LlmOutput[a] \subseteq job.seen => job.raised[a] > 0
=============================================================================
