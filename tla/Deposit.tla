------------------------------ MODULE Deposit ------------------------------
(***************************************************************************)
(* Publishing a job (api/service.py, agents/publication.py): the intent    *)
(* and the outcome written around the effect (workflow/effects.py), the    *)
(* Zenodo driver and its registry of depositions (repositories/zenodo.py). *)
(* Calls run in threads of the web service; any of them may die between    *)
(* two steps, and any answer of Zenodo may be lost on its way back.        *)
(*                                                                         *)
(* A call reads the gate, the record and the material in one step here:    *)
(* ReviewGate takes those reads apart, and EventStore the appends.  An     *)
(* append refused because another writer holds the lock ends a call where  *)
(* it stands, as Crash does.                                               *)
(*                                                                         *)
(* Courses says which courses of events an instance includes:              *)
(*   "double"        two calls about one job at once                       *)
(*   "together"      two calls at once, about two jobs                     *)
(*   "settled"       a person settles an interrupted attempt               *)
(*   "exclude-late"  a file excluded after an attempt has begun            *)
(*   "revise-late"   a record revised after an attempt has begun           *)
(***************************************************************************)
EXTENDS Integers, Sequences, FiniteSets

CONSTANTS Jobs, Callers,
          Material,    \* the registered artefacts of a job, in order
          BaseName,    \* the file name each is uploaded under
          Nothing,     \* no file of that name, no deposition, no .tmp file
          Courses,     \* the courses of events included
          MaxFaults,   \* bound: crashes, refusals and lost answers
          MaxRecord,   \* bound: records drafted
          MaxLog       \* bound: a call is received while the log is shorter

AllCourses == {"double", "together", "settled", "exclude-late", "revise-late"}
Paths == {Material[n] : n \in 1 .. Len(Material)}
Names == {BaseName[p] : p \in Paths}
Before(p, q) == \E m, n \in 1 .. Len(Material) : m <= n /\ Material[m] = p /\ Material[n] = q

ASSUME JobsAssumption == Jobs # {}
ASSUME CallersAssumption == IsFiniteSet(Callers)
ASSUME MaterialAssumption == /\ Material \in Seq(Paths) /\ Material # <<>>
                             /\ DOMAIN BaseName = Paths
ASSUME CoursesAssumption == Courses \subseteq AllCourses
ASSUME NothingAssumption == Nothing \notin Nat \cup Paths \cup [Jobs -> Nat \cup {Nothing}]
ASSUME BoundsAssumption == MaxFaults \in Nat /\ MaxRecord \in Nat \ {0} /\ MaxLog \in Nat

VARIABLES log,       \* what the log of each job says of its attempts
          excluded,  \* the artefacts a person excluded from the deposit
          record,    \* the newest record of each job
          registry,  \* depositions.json
          tmp,       \* the one .tmp file every put writes
          zenodo,    \* the depositions, in the order of their ids
          call,      \* where each call has got, and what it holds
          faults     \* how many things have gone wrong

vars == <<log, excluded, record, registry, tmp, zenodo, call, faults>>

Entry == [kind : {"started", "failed", "completed", "reconciled", "deposited", "closed"},
          pid : Nat]
Deposition == [job : Jobs, files : [Names -> Paths \cup {Nothing}],
               record : 0 .. MaxRecord, published : BOOLEAN]
Registry == [Jobs -> Nat \cup {Nothing}]
Empty == [j \in Jobs |-> Nothing]

Places == {"idle", "asked", "cleared", "begun", "creating", "created", "loaded",
           "written", "reading", "describing", "listing", "uploading", "failed",
           "receipted", "completed"}

\* files: to_upload, what this call is to publish; todo: what it still uploads.
Call == [pc : Places, job : Jobs, files : SUBSET Paths, todo : SUBSET Paths,
         record : 0 .. MaxRecord, id : Nat, data : Registry]
-----------------------------------------------------------------------------
Said(j, kinds) == \E n \in 1 .. Len(log[j]) : log[j][n].kind \in kinds

\* The attempts of a job share one idempotency key, and the keys concluded are
\* a set: an attempt is unfinished while no attempt has ever been concluded.
Unfinished(j) == /\ Said(j, {"started"})
                 /\ ~Said(j, {"completed", "failed", "reconciled"})

Logged(j, kind, pid) == log' = [log EXCEPT ![j] = Append(@, [kind |-> kind, pid |-> pid])]

At(c, place) == call[c].pc = place
Goes(c, place) == call' = [call EXCEPT ![c].pc = place]
Faulty(ok) == IF ok THEN faults' = faults
              ELSE faults < MaxFaults /\ faults' = faults + 1
The(c) == zenodo[call[c].id]

Idle == [pc |-> "idle", job |-> CHOOSE j \in Jobs : TRUE, files |-> {}, todo |-> {},
         record |-> 0, id |-> 0, data |-> Empty]

Init == /\ log = [j \in Jobs |-> <<>>]
        /\ excluded = [j \in Jobs |-> {}]
        /\ record = [j \in Jobs |-> 1]
        /\ registry = Empty
        /\ tmp = Nothing
        /\ zenodo = <<>>
        /\ call = [c \in Callers |-> Idle]
        /\ faults = 0
-----------------------------------------------------------------------------
(* What people do meanwhile.                                               *)

\* No attempt has begun, and none is on its way.
Untouched(j) == /\ ~Said(j, {"started"})
                /\ \A c \in Callers : call[c].job = j => At(c, "idle")

\* A decision to exclude, which nothing takes back.
Exclude(j, p) ==
    /\ p \notin excluded[j]
    /\ Untouched(j) \/ "exclude-late" \in Courses
    /\ excluded' = [excluded EXCEPT ![j] = @ \cup {p}]
    /\ UNCHANGED <<log, record, registry, tmp, zenodo, call, faults>>

Revise(j) ==
    /\ record[j] < MaxRecord
    /\ Untouched(j) \/ "revise-late" \in Courses
    /\ record' = [record EXCEPT ![j] = @ + 1]
    /\ UNCHANGED <<log, excluded, registry, tmp, zenodo, call, faults>>

\* settle: whatever the finding, it concludes the attempt.
Settle(j) ==
    /\ "settled" \in Courses
    /\ Unfinished(j)
    /\ \A c \in Callers : call[c].job = j => At(c, "idle")
    /\ Logged(j, "reconciled", 0)
    /\ UNCHANGED <<excluded, record, registry, tmp, zenodo, call, faults>>
-----------------------------------------------------------------------------
(* JobService.deposit and PublicationAgent.deposit.                        *)

\* artefacts_to_upload, over every form an exclusion can have.
ToUpload(j) == Paths \ excluded[j]

\* A job with a persistent identifier is answered from the log.
Receive(c, j) ==
    /\ At(c, "idle") /\ Len(log[j]) < MaxLog
    /\ ~Said(j, {"deposited"})
    /\ \A d \in Callers \ {c} : At(d, "idle") \/ (IF call[d].job = j THEN "double" \in Courses
                                                 ELSE "together" \in Courses)
    /\ call' = [call EXCEPT ![c] = [Idle EXCEPT !.pc = "asked", !.job = j,
                                        !.files = ToUpload(j), !.record = record[j]]]
    /\ UNCHANGED <<log, excluded, record, registry, tmp, zenodo, faults>>

\* ReconciliationRequired, before anything is written.
Refuse(c) ==
    /\ At(c, "asked") /\ Unfinished(call[c].job)
    /\ Goes(c, "idle")
    /\ UNCHANGED <<log, excluded, record, registry, tmp, zenodo, faults>>

\* NothingToDeposit: every artefact was excluded.
CloseUnshared(c) ==
    /\ At(c, "asked") /\ ~Unfinished(call[c].job)
    /\ call[c].files = {}
    /\ Logged(call[c].job, "closed", 0)
    /\ Goes(c, "idle")
    /\ UNCHANGED <<excluded, record, registry, tmp, zenodo, faults>>

Clear(c) ==
    /\ At(c, "asked") /\ ~Unfinished(call[c].job)
    /\ call[c].files # {}
    /\ Goes(c, "cleared")
    /\ UNCHANGED <<log, excluded, record, registry, tmp, zenodo, faults>>

\* EffectRecorder.attempt: the intent is on the log before the effect begins.
Start(c) ==
    /\ At(c, "cleared")
    /\ Logged(call[c].job, "started", 0)
    /\ Goes(c, "begun")
    /\ UNCHANGED <<excluded, record, registry, tmp, zenodo, faults>>

Fail(c) ==
    /\ At(c, "failed")
    /\ Logged(call[c].job, "failed", 0)
    /\ Goes(c, "idle")
    /\ UNCHANGED <<excluded, record, registry, tmp, zenodo, faults>>

Complete(c) ==
    /\ At(c, "receipted")
    /\ Logged(call[c].job, "completed", call[c].id)
    /\ Goes(c, "completed")
    /\ UNCHANGED <<excluded, record, registry, tmp, zenodo, faults>>

RecordDeposit(c) ==
    /\ At(c, "completed")
    /\ Logged(call[c].job, "deposited", call[c].id)
    /\ Goes(c, "idle")
    /\ UNCHANGED <<excluded, record, registry, tmp, zenodo, faults>>
-----------------------------------------------------------------------------
(* ZenodoDriver.deposit.                                                   *)

\* A plausible bug: what is created is remembered in memory only.
LookNowhere(c) ==
    /\ At(c, "begun")
    /\ Goes(c, "creating")
    /\ UNCHANGED <<log, excluded, record, registry, tmp, zenodo, faults>>

\* A plausible bug: the absence of an entry is taken for an entry.
LookUpTrusting(c) ==
    /\ At(c, "begun")
    /\ call' = [call EXCEPT ![c].pc = IF registry[call[c].job] = Nothing
                                    THEN "creating" ELSE "reading",
                            ![c].id = registry[call[c].job]]
    /\ UNCHANGED <<log, excluded, record, registry, tmp, zenodo, faults>>

\* begin: the registry is asked before Zenodo is.
LookUp(c) ==
    /\ At(c, "begun")
    /\ LET known == registry[call[c].job] IN
       call' = [call EXCEPT ![c].pc = IF known = Nothing THEN "creating" ELSE "reading",
                            ![c].id = IF known = Nothing THEN 0 ELSE known]
    /\ UNCHANGED <<log, excluded, record, registry, tmp, zenodo, faults>>

\* A plausible bug: the client repeats a request that got no answer.
CreateAgain(c, answered) ==
    /\ At(c, "creating") /\ Faulty(answered)
    /\ zenodo' = Append(zenodo, [job |-> call[c].job, files |-> [n \in Names |-> Nothing],
                                 record |-> 0, published |-> FALSE])
    /\ call' = [call EXCEPT ![c].pc = IF answered THEN "created" ELSE "creating",
                            ![c].id = IF answered THEN Len(zenodo') ELSE 0]
    /\ UNCHANGED <<log, excluded, record, registry, tmp>>

\* The answer names the deposition; without it nobody knows the id.
Create(c, answered) ==
    /\ At(c, "creating") /\ Faulty(answered)
    /\ zenodo' = Append(zenodo, [job |-> call[c].job, files |-> [n \in Names |-> Nothing],
                                 record |-> 0, published |-> FALSE])
    /\ call' = [call EXCEPT ![c].pc = IF answered THEN "created" ELSE "failed",
                            ![c].id = IF answered THEN Len(zenodo') ELSE 0]
    /\ UNCHANGED <<log, excluded, record, registry, tmp>>

\* put: what the file holds with the new entry, then .tmp, then over the file.
LoadRegistry(c) ==
    /\ At(c, "created")
    /\ call' = [call EXCEPT ![c].pc = "loaded",
                            ![c].data = [registry EXCEPT ![call[c].job] = call[c].id]]
    /\ UNCHANGED <<log, excluded, record, registry, tmp, zenodo, faults>>

WriteRegistry(c) ==
    /\ At(c, "loaded")
    /\ tmp' = call[c].data
    /\ Goes(c, "written")
    /\ UNCHANGED <<log, excluded, record, registry, zenodo, faults>>

\* The file another put moved away is not there to be moved.
ReplaceRegistry(c) ==
    /\ At(c, "written")
    /\ registry' = IF tmp = Nothing THEN registry ELSE tmp
    /\ tmp' = Nothing
    /\ Goes(c, IF tmp = Nothing THEN "failed" ELSE "reading")
    /\ UNCHANGED <<log, excluded, record, zenodo, faults>>

\* What is published already is not published again.
ReadDeposition(c) ==
    /\ At(c, "reading")
    /\ Goes(c, IF The(c).published THEN "receipted" ELSE "describing")
    /\ UNCHANGED <<log, excluded, record, registry, tmp, zenodo, faults>>

\* A published deposition refuses metadata and files.
Describe(c, answered) ==
    /\ At(c, "describing") /\ Faulty(answered)
    /\ zenodo' = IF The(c).published THEN zenodo
                 ELSE [zenodo EXCEPT ![call[c].id].record = call[c].record]
    /\ Goes(c, IF answered /\ ~The(c).published THEN "listing" ELSE "failed")
    /\ UNCHANGED <<log, excluded, record, registry, tmp>>

\* A plausible bug: a resumed attempt takes what is there for what is needed.
ListOnceForAll(c) ==
    /\ At(c, "listing")
    /\ call' = [call EXCEPT ![c].pc = "uploading",
         ![c].todo = IF \A n \in Names : The(c).files[n] = Nothing
                     THEN call[c].files ELSE {}]
    /\ UNCHANGED <<log, excluded, record, registry, tmp, zenodo, faults>>

\* The names there already are not sent again.
ListUploaded(c) ==
    /\ At(c, "listing")
    /\ call' = [call EXCEPT ![c].pc = "uploading",
         ![c].todo = {p \in call[c].files : The(c).files[BaseName[p]] = Nothing}]
    /\ UNCHANGED <<log, excluded, record, registry, tmp, zenodo, faults>>

\* In the order of registration.
Upload(c, p, answered) ==
    /\ At(c, "uploading") /\ Faulty(answered)
    /\ p \in call[c].todo /\ \A q \in call[c].todo : Before(p, q)
    /\ zenodo' = IF The(c).published THEN zenodo
                 ELSE [zenodo EXCEPT ![call[c].id].files[BaseName[p]] = p]
    /\ call' = [call EXCEPT
         ![c].pc = IF answered /\ ~The(c).published THEN "uploading" ELSE "failed",
         ![c].todo = @ \ {p}]
    /\ UNCHANGED <<log, excluded, record, registry, tmp>>

\* A plausible bug: no answer to the publish request is taken for an answer.
PublishUnanswered(c, answered) ==
    /\ At(c, "uploading") /\ Faulty(answered)
    /\ call[c].todo = {}
    /\ zenodo' = [zenodo EXCEPT ![call[c].id].published = answered \/ @]
    /\ Goes(c, "receipted")
    /\ UNCHANGED <<log, excluded, record, registry, tmp>>

\* 409, published already, is an answer like another.
Publish(c, answered) ==
    /\ At(c, "uploading") /\ Faulty(answered)
    /\ call[c].todo = {}
    /\ zenodo' = [zenodo EXCEPT ![call[c].id].published = TRUE]
    /\ Goes(c, IF answered THEN "receipted" ELSE "failed")
    /\ UNCHANGED <<log, excluded, record, registry, tmp>>

\* A request Zenodo refuses or never receives.
Unanswered(c) ==
    /\ call[c].pc \in {"creating", "reading", "describing", "listing", "uploading"}
    /\ Faulty(FALSE)
    /\ Goes(c, "failed")
    /\ UNCHANGED <<log, excluded, record, registry, tmp, zenodo>>

\* A call that dies; so does one whose next append meets a held lock.
Crash(c) ==
    /\ ~At(c, "idle")
    /\ Faulty(FALSE)
    /\ Goes(c, "idle")
    /\ UNCHANGED <<log, excluded, record, registry, tmp, zenodo>>
-----------------------------------------------------------------------------
Driver(c) == \/ LookUp(c)
             \/ LoadRegistry(c) \/ WriteRegistry(c) \/ ReplaceRegistry(c)
             \/ ReadDeposition(c) \/ ListUploaded(c)
             \/ \E answered \in BOOLEAN :
                   \/ Create(c, answered) \/ Describe(c, answered) \/ Publish(c, answered)
                   \/ \E p \in Paths : Upload(c, p, answered)
             \/ Unanswered(c)

Agent(c) == \/ Refuse(c) \/ CloseUnshared(c) \/ Clear(c) \/ Start(c)
            \/ Fail(c) \/ Complete(c) \/ RecordDeposit(c)

Next == \/ \E c \in Callers : \/ \E j \in Jobs : Receive(c, j)
                              \/ Agent(c) \/ Driver(c) \/ Crash(c)
        \/ \E j \in Jobs : \/ \E p \in Paths : Exclude(j, p)
                           \/ Revise(j) \/ Settle(j)

Spec == Init /\ [][Next]_vars

\* A call that runs goes on running, and a person whose job is not published
\* asks again.  That anybody settles an attempt is not to be counted on: no
\* route and no command calls settle.
FairSpec == /\ Spec
            /\ \A c \in Callers : WF_vars(Agent(c) \/ Driver(c))
            /\ \A j \in Jobs : SF_vars(\E c \in Callers : Receive(c, j))
-----------------------------------------------------------------------------
Depositions == 1 .. Len(zenodo)

TypeOK ==
    /\ log \in [Jobs -> Seq(Entry)]
    /\ excluded \in [Jobs -> SUBSET Paths]
    /\ record \in [Jobs -> 1 .. MaxRecord]
    /\ registry \in Registry /\ tmp \in Registry \cup {Nothing}
    /\ zenodo \in Seq(Deposition)
    /\ call \in [Callers -> Call]
    /\ faults \in 0 .. MaxFaults

\* A job has at most one published record, whatever was retried (zenodo.py:11,
\* "A retry after a network failure must not create a second record").
OneRecord ==
    \A m, n \in Depositions :
       zenodo[m].published /\ zenodo[n].published /\ zenodo[m].job = zenodo[n].job
       => m = n

\* A job has at most one deposition, published or not (zenodo.py:226, "a retry
\* after a crash between creation and recording cannot produce a second record").
OneDeposition == \A m, n \in Depositions : zenodo[m].job = zenodo[n].job => m = n

\* Zenodo holds no more depositions of a job than its log has intents, however
\* many calls race, die or lose an answer (effects.py:17, "an **intent** written
\* before the effect"): a log that has none is that of a job with nothing there.
Intents(j) == {n \in DOMAIN log[j] : log[j][n].kind = "started"}
Made(j) == {n \in Depositions : zenodo[n].job = j}

IntendedFirst == \A j \in Jobs : Cardinality(Made(j)) <= Cardinality(Intents(j))

\* A job that says it was deposited names a deposition of its own, published.
DepositedIsPublic ==
    \A j \in Jobs : \A n \in 1 .. Len(log[j]) :
       log[j][n].kind = "deposited" =>
          /\ log[j][n].pid \in Depositions
          /\ zenodo[log[j][n].pid].published
          /\ zenodo[log[j][n].pid].job = j

\* What a call says it deposited is what is public: the record it read, and the
\* files it was to upload, each under its name and no other beside them
\* (items.py:254, "what the deposit screen listed under \"what will not be
\* published\" is what the deposit leaves out").
DepositedAsReviewed ==
    [][\A c \in Callers : RecordDeposit(c) =>
          LET d == zenodo[call[c].id] IN
          /\ d.record = call[c].record
          /\ {d.files[n] : n \in Names} \ {Nothing} = call[c].files]_vars

\* Nothing becomes public that the call making it public was not to upload
\* (publication.py:10, "it will not upload an artefact a human excluded").
ExcludedIsNotPublished ==
    [][\A n \in Depositions : ~zenodo[n].published /\ zenodo'[n].published =>
          \E c \in Callers : /\ call[c].id = n /\ At(c, "uploading")
                             /\ {zenodo[n].files[m] : m \in Names} \ {Nothing}
                                   \subseteq call[c].files]_vars

\* A job closed as not shared has nothing public (service.py:318, "the client is
\* told nothing was published").
ClosedIsNotPublic ==
    \A j \in Jobs, n \in Depositions :
       Said(j, {"closed"}) /\ zenodo[n].job = j => ~zenodo[n].published

\* An attempt is begun over no other that was begun and has not been concluded
\* since (publication.py:80, "The attempt is settled first, or not at all").
NoAttemptOverAnother ==
    [][\A c \in Callers : Start(c) =>
          LET j == call[c].job IN
          log[j] = <<>> \/ log[j][Len(log[j])].kind # "started"]_vars

\* What has become public is on the log in the end, if people keep asking
\* (service.py:259, "a client that lost the response must be able to ask again").
PublicIsRecorded ==
    \A n \in 1 .. MaxFaults + 1 :
       (n \in Depositions /\ zenodo[n].published) ~>
          (\E j \in Jobs : Said(j, {"deposited"}))
=============================================================================
