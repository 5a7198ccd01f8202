------------------------------- MODULE Access -------------------------------
(***************************************************************************)
(* Who may see a job and who may act on it: ownership folded from the      *)
(* job's log, and the order in which the routes of the service look, ask   *)
(* and act.                                                                *)
(*                                                                         *)
(* Routes run in threads.  Each reads the log when it asks whose the job   *)
(* is, and appends to it when it acts; nothing holds the log in between.   *)
(***************************************************************************)
EXTENDS Callers, Naturals, Sequences, FiniteSets, Functions

CONSTANTS
    Auditors,
    Jobs,           \* names a job may have, or be mistaken to have
    NoOne,
    MaxLog          \* bound on a log

ASSUME AccessAssumption ==
    /\ Auditors \subseteq People /\ NoOne \notin People
    /\ MaxLog \in Nat

VARIABLES
    dir,            \* a job's directory: none, there, or damaged by other hands
    log,            \* its events: by whom, and for whom where one is granted
    request,
    shown,          \* history: what was shown, to a person who does not own it
    listed,         \* history: the same, in a list of jobs
    told            \* the last answer, and to whom, until something is asked

AccessVars == <<dir, log, request, shown, listed, told>>

\* A plausible bug: the human is left out of what is recorded.
EventOfTheService(kind, by, for) == [kind |-> kind, by |-> NoOne, for |-> for]

Event(kind, by, for) == [kind |-> kind, by |-> by, for |-> for]
Kinds == {"created", "owner", "audited", "displayed", "act", "command"}

(* The creator from the first event, and those whom people added.          *)
OwnersIn(events) ==
    {events[i].for : i \in {k \in DOMAIN events : events[k].kind \in {"created", "owner"}}}

Owners(j) == OwnersIn(log[j])
Visible(j, p) == p \in Owners(j) \/ p \in Auditors
-----------------------------------------------------------------------------
(* The routes: whether one looks for the job before it asks whose it is,   *)
(* what right it asks for, and what it then does.                          *)

Route(looks, right, does) == [looks |-> looks, right |-> right, does |-> does]
Routes == [looks : BOOLEAN, right : {"see", "act"},
           does : {"show", "display", "act", "grant"}]

See(does)     == Route(TRUE, "see", does)
Unlooked      == Route(FALSE, "see", "show")
OwnersOnly(does) == Route(TRUE, "act", does)

ApiJob  == [job |-> See("show"), events |-> Unlooked, provenance |-> Unlooked,
            owners |-> See("show"), addOwner |-> OwnersOnly("grant")]
ApiGate == [gate |-> See("show"), resolve |-> OwnersOnly("act")]
ApiActs == [confirm |-> OwnersOnly("act"), approve |-> OwnersOnly("act"),
            deposit |-> OwnersOnly("act")]

StatementPages == [advance |-> OwnersOnly("act"),
                   form |-> OwnersOnly("show"), submit |-> OwnersOnly("act"),
                   claims |-> OwnersOnly("show"), confirm |-> OwnersOnly("act")]
HistoryPage == [history |-> See("show")]
JobPages    == [job |-> See("show"), addOwner |-> OwnersOnly("grant")]
GatePages   == [gate |-> See("display"), resolve |-> OwnersOnly("act")]
PublishPages == [form |-> See("show"), deposit |-> OwnersOnly("act"),
                 record |-> See("show"), save |-> OwnersOnly("act")]

Offered == Range(ApiJob) \cup Range(ApiGate) \cup Range(ApiActs)
           \cup Range(StatementPages) \cup Range(HistoryPage) \cup Range(JobPages)
           \cup Range(GatePages) \cup Range(PublishPages)
-----------------------------------------------------------------------------
Told(to, code, absent) == [to |-> to, code |-> code, absent |-> absent]
Untold == Told("nobody", "ok", "ok")

Idle == [pc |-> "idle", who |-> NoOne, job |-> "none", route |-> Route(TRUE, "see", "show"),
         for |-> NoOne]

AccessInit ==
    /\ dir = [j \in Jobs |-> "none"] /\ log = [j \in Jobs |-> <<>>]
    /\ request = [c \in Requests |-> Idle]
    /\ shown = {} /\ listed = {} /\ told = Untold

Is(j, p) == IF p \in Owners(j) THEN "owner" ELSE IF p \in Auditors THEN "auditor"
            ELSE "stranger"

(* A job that is not there is reported in JSON by every route that looks   *)
(* for it; one that is not the caller's by the page of the interface, whose *)
(* handler takes the place of the API's in the one application both are.   *)
Codes == {"ok", "no such job", "hidden", "refused", "unusable", "failed", "internal"}

\* What a stranger is told on the route of a job that is not there.
Absent(route) == IF route.looks THEN "no such job" ELSE "hidden"

Reply(c, code) ==
    /\ told' = Told(Is(request[c].job, request[c].who), code, Absent(request[c].route))
    /\ request' = [request EXCEPT ![c] = Idle]

Goto(c, pc) == request' = [request EXCEPT ![c].pc = pc] /\ UNCHANGED told

(* An append makes the directory before it takes the lock, and reads the   *)
(* log under it; one that finds the lock taken, or the chain broken, has   *)
(* made the directory all the same.                                        *)
Made(j) == IF dir[j] = "none" THEN "there" ELSE dir[j]

Record(j, e) ==
    /\ dir[j] # "damaged" /\ Len(log[j]) < MaxLog
    /\ dir' = [dir EXCEPT ![j] = "there"]
    /\ log' = [log EXCEPT ![j] = Append(@, e)]

RecordFails(j) == dir' = [dir EXCEPT ![j] = Made(j)] /\ UNCHANGED log

(* An event is altered in the directory: the chain is for noticing it.     *)
Damage(j) ==
    /\ dir[j] = "there" /\ log[j] # <<>>
    /\ dir' = [dir EXCEPT ![j] = "damaged"]
    /\ UNCHANGED <<log, request, shown, listed, told>>

(* Every reading of the log verifies it; whoever reads a broken chain is   *)
(* answered with the error of the log, before anything is asked of them.   *)
Readable(c) == dir[request[c].job] # "damaged"

Unreadable(c) ==
    /\ request[c].pc \in {"looking", "asking", "acting", "granting"} /\ ~Readable(c)
    /\ Reply(c, "internal")
    /\ UNCHANGED <<dir, log, shown, listed>>
-----------------------------------------------------------------------------
(* A new job: its name is drawn, its directory made, and the first event   *)
(* names who owns it.                                                      *)
Create(c, p, j) ==
    /\ request[c].pc = "idle" /\ dir[j] = "none"
    /\ dir' = [dir EXCEPT ![j] = "there"]
    /\ request' = [request EXCEPT ![c] = [Idle EXCEPT !.pc = "creating", !.who = p, !.job = j]]
    /\ told' = Untold
    /\ UNCHANGED <<log, shown, listed>>

Created(c) ==
    LET r == request[c] IN
    /\ r.pc = "creating"
    /\ Record(r.job, Event("created", r.who, r.who))
    /\ request' = [request EXCEPT ![c] = Idle]
    /\ UNCHANGED <<shown, listed, told>>

(* A request for a job by its name, from a person who is signed in.        *)
Ask(c, p, j, route) ==
    /\ request[c].pc = "idle"
    /\ \E other \in IF route.does = "grant" THEN People ELSE {NoOne} :
          request' = [request EXCEPT ![c] = [pc |-> IF route.looks THEN "looking" ELSE "asking",
                                     who |-> p, job |-> j, route |-> route, for |-> other]]
    /\ told' = Untold
    /\ UNCHANGED <<dir, log, shown, listed>>

Look(c) ==
    /\ request[c].pc = "looking" /\ Readable(c)
    /\ IF log[request[c].job] = <<>> THEN Reply(c, "no such job") ELSE Goto(c, "asking")
    /\ UNCHANGED <<dir, log, shown, listed>>

\* A plausible bug: whoever may see a job may act on it.
MayActWhenVisible(j, p) == Visible(j, p)

MayAct(j, p) == p \in Owners(j)

RequireActor(c) ==
    LET r == request[c] IN
    /\ r.pc = "asking" /\ r.route.right = "act" /\ Readable(c)
    /\ IF MayAct(r.job, r.who) THEN Goto(c, "acting")
       ELSE IF r.who \in Auditors THEN Reply(c, "refused")
       ELSE Reply(c, "hidden")
    /\ UNCHANGED <<dir, log, shown, listed>>

\* A plausible bug: a stranger is told that the job is not theirs.
TellsStrangers(j, p) == log[j] # <<>>

Tells(j, p) == Visible(j, p)

\* A plausible bug: a job that nobody owns needs no audit.
AuditIfOwned(j, p) ==
    IF Owners(j) = {} THEN UNCHANGED <<dir, log>> ELSE Record(j, Event("audited", p, NoOne))

Audit(j, p) == Record(j, Event("audited", p, NoOne))

(* An auditor's reading is recorded before anything is read.               *)
RequireVisible(c) ==
    LET r == request[c] IN
    /\ r.pc = "asking" /\ r.route.right = "see" /\ Readable(c)
    /\ \/ r.who \in Owners(r.job) /\ Goto(c, "acting") /\ UNCHANGED <<dir, log>>
       \/ /\ r.who \notin Owners(r.job) /\ r.who \in Auditors
          /\ \/ Audit(r.job, r.who) /\ Goto(c, "acting")
             \/ RecordFails(r.job) /\ Reply(c, "failed")
       \/ /\ ~Visible(r.job, r.who)
          /\ Reply(c, IF Tells(r.job, r.who) THEN "refused" ELSE "hidden")
          /\ UNCHANGED <<dir, log>>
    /\ UNCHANGED <<shown, listed>>

(* What is shown is read now, from the log as it has become; the page on   *)
(* which a display is entered fails where that fails.                      *)
Show(c) ==
    LET r == request[c] IN
    /\ r.pc = "acting" /\ r.route.does \in {"show", "display"} /\ Readable(c)
    /\ shown' = IF r.who \in Owners(r.job) THEN shown
                ELSE shown \cup {[who |-> r.who, job |-> r.job]}
    /\ \/ Reply(c, "ok") /\ UNCHANGED <<dir, log>>
       \/ /\ r.route.does = "display" /\ MayAct(r.job, r.who)
          /\ \/ Record(r.job, Event("displayed", r.who, NoOne)) /\ Reply(c, "ok")
             \/ RecordFails(r.job) /\ Reply(c, "failed")
    /\ UNCHANGED listed

(* What the request says may be of no use, or unconfirmed; the act itself  *)
(* may be refused by a rule of the job, or fail, which some pages pass     *)
(* over.                                                                   *)
Act(c) ==
    LET r == request[c] IN
    /\ r.pc = "acting" /\ r.route.does = "act" /\ Readable(c)
    /\ \/ Record(r.job, Event("act", r.who, NoOne)) /\ Reply(c, "ok")
       \/ RecordFails(r.job) /\ \E code \in {"ok", "failed"} : Reply(c, code)
       \/ \E code \in {"unusable", "refused"} : Reply(c, code) /\ UNCHANGED <<dir, log>>
    /\ UNCHANGED <<shown, listed>>

(* Adding an owner asks again whose the job is; a person who owns it       *)
(* already is not added.                                                   *)
AddOwner(c) ==
    LET r == request[c] IN
    /\ r.pc = "acting" /\ r.route.does = "grant" /\ Readable(c)
    /\ IF r.for \in Owners(r.job) THEN Reply(c, "ok") ELSE Goto(c, "granting")
    /\ UNCHANGED <<dir, log, shown, listed>>

Grant(c) ==
    LET r == request[c] IN
    /\ r.pc = "granting" /\ Readable(c)
    /\ \/ Record(r.job, Event("owner", r.who, r.for)) /\ Reply(c, "ok")
       \/ RecordFails(r.job) /\ Reply(c, "failed")
    /\ UNCHANGED <<shown, listed>>
-----------------------------------------------------------------------------
(* A job whose log does not verify is passed over, unless all are listed.  *)
Listable(j) == dir[j] = "there"
JobsFor(p) == IF p \in Auditors THEN {j \in Jobs : dir[j] # "none"}
              ELSE {j \in Jobs : Listable(j) /\ p \in Owners(j)}
SoleOwnedBy(p) == {j \in Jobs : Listable(j) /\ Owners(j) = {p}}

(* A list has the state of each job, and a directory with no event has     *)
(* none, as a log that does not verify: then the whole list fails.         *)
Summarised(j) == log[j] # <<>> /\ Listable(j)

List(c, p) ==
    /\ request[c].pc = "idle"
    /\ \E jobs \in {JobsFor(p), SoleOwnedBy(p)} :
          IF \E j \in jobs : ~Summarised(j)
          THEN told' = Told("lister", "failed", "ok") /\ UNCHANGED listed
          ELSE /\ told' = Told("lister", "ok", "ok")
               /\ listed' = listed \cup {[who |-> p, job |-> j] :
                                         j \in {i \in jobs : p \notin Owners(i)}}
    /\ UNCHANGED <<dir, log, request, shown>>

(* The command line names who reviews, advances or was let in, and asks    *)
(* nothing of the job.                                                     *)
Command(p, j) ==
    /\ Record(j, Event("command", p, NoOne))
    /\ UNCHANGED <<request, shown, listed, told>>

Abandon(c) ==
    /\ request[c].pc # "idle"
    /\ request' = [request EXCEPT ![c] = Idle]
    /\ UNCHANGED <<dir, log, shown, listed, told>>

AccessNext ==
    \/ \E c \in Requests :
          \/ Created(c) \/ Look(c) \/ RequireActor(c) \/ RequireVisible(c) \/ Show(c)
          \/ Act(c) \/ AddOwner(c) \/ Grant(c) \/ Unreadable(c) \/ Abandon(c)
          \/ \E p \in People :
                \/ List(c, p)
                \/ \E j \in Jobs :
                      Create(c, p, j) \/ \E route \in Offered : Ask(c, p, j, route)
    \/ \E j \in Jobs : Damage(j) \/ \E p \in People : Command(p, j)

AccessSpec == AccessInit /\ [][AccessNext]_AccessVars
-----------------------------------------------------------------------------
Entries == [kind : Kinds, by : People, for : People \cup {NoOne}]

RequestStates ==
    [pc : {"idle", "creating", "looking", "asking", "acting", "granting"},
     who : People \cup {NoOne}, job : Jobs \cup {"none"}, route : Routes,
     for : People \cup {NoOne}]

CallOK(r) ==
    /\ r.pc # "idle" => r.who \in People /\ r.job \in Jobs
    /\ r.pc \notin {"idle", "creating"} /\ r.route.does = "grant" => r.for \in People

AccessTypeOK ==
    /\ dir \in [Jobs -> {"none", "there", "damaged"}] /\ log \in [Jobs -> Seq(Entries)]
    /\ request \in [Requests -> RequestStates] /\ \A c \in Requests : CallOK(request[c])
    /\ shown \subseteq [who : People, job : Jobs]
    /\ listed \subseteq [who : People, job : Jobs]
    /\ told.code \in Codes

(* "the right to extend access is part of ownership", and acting is the    *)
(* owners': whoever acted on a job, or added an owner to it, owned it      *)
(* already where that stands in the log.  (api/ownership.py)               *)
ActedAsOwner ==
    \A j \in Jobs : \A i \in DOMAIN log[j] :
        log[j][i].kind \in {"act", "owner", "displayed"} =>
            log[j][i].by \in OwnersIn(SubSeq(log[j], 1, i - 1))

(* "Their reading is recorded": a job was shown to someone who does not    *)
(* own it only after their reading was entered in its log.  (ownership.py) *)
ReadIsAudited ==
    \A s \in shown : \E i \in DOMAIN log[s.job] :
        log[s.job][i].kind = "audited" /\ log[s.job][i].by = s.who

(* Whatever a stranger asks for, and however owners and jobs come about    *)
(* meanwhile, nothing is done or shown: the answer is that there is no     *)
(* such job, or the error of a log that does not verify.  (ownership.py)   *)
StrangersGetNothing ==
    told.to = "stranger" => told.code \in {"no such job", "hidden", "internal"}

(* "A caller who does not own a job learns only that they have no job by   *)
(* that name": as long as its log can be read, a stranger is told of a job *)
(* what the route tells of one that is not there.  (api/app.py)            *)
StrangersLearnNothing ==
    told.to = "stranger" => told.code \in {told.absent, "internal"}

\* The same of any job.
StrangersNeverLearn == told.to = "stranger" => told.code = told.absent

(* Every job in a list is shown as well; and it is recorded as little.     *)
ListedIsAudited ==
    \A s \in listed : \E i \in DOMAIN log[s.job] :
        log[s.job][i].kind = "audited" /\ log[s.job][i].by = s.who

(* "Reads never change anything": a job has a log because somebody created *)
(* it.  (api/app.py)                                                       *)
JobsAreCreated == \A j \in Jobs : log[j] # <<>> => Head(log[j]).kind = "created"

(* What a command is given is held to what a request is: the person named  *)
(* may act on the job.                                                     *)
CommandedByOwner ==
    \A j \in Jobs : \A i \in DOMAIN log[j] :
        log[j][i].kind = "command" => log[j][i].by \in OwnersIn(SubSeq(log[j], 1, i - 1))

\* No list of jobs fails.
ListsWork == told.to = "lister" => told.code = "ok"

\* Nobody is added to a job twice.
AddedOnce ==
    \A j \in Jobs : \A i, k \in DOMAIN log[j] :
        log[j][i].kind = "owner" /\ log[j][k].kind = "owner" /\ log[j][i].for = log[j][k].for
            => i = k
=============================================================================
