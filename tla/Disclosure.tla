----------------------------- MODULE Disclosure -----------------------------
(***************************************************************************)
(* What of a job's material is shown to a model, which model it is, and    *)
(* what the exposure ledger says of it.                                    *)
(*                                                                         *)
(* Every call for a model goes through the policy enforcement point, which *)
(* one process keeps for all its jobs.  Probes, chunks of documents and    *)
(* images are checked against the budget, entered in the job's ledger, and *)
(* sent.  A process restarts between any two requests; its calls are       *)
(* threads.                                                                *)
(***************************************************************************)
EXTENDS Naturals, Sequences, FiniteSets

CONSTANTS
    Jobs, Callers,
    Backends, NoBackend,    \* the models configured, and none of them
    Policy,         \* backend_by_sensitivity: for each level, names in order
    Residence,      \* 0 on the premises, 1 in the jurisdiction, 2 beyond
    Seeing,         \* the backends that declare vision
    Preferences,    \* those depositors state, each a ceiling and names
    Documents, Images, Holds,       \* of which each job holds some
    Cost, Dearest,  \* the bytes of one release from an artefact, and the most
    MaxBytes, MaxArtefactBytes, MaxReleases,    \* ExposureBudget
    MaxChunks,      \* of a document that are read, of a document that has more
    Found,          \* whether the media agent looks where the images are
    Courses         \* "together": two calls on one job; "meanwhile": levels
                    \* change under a call

Levels     == 0 .. 2        \* public, internal, sensitive
NoLevel    == 3
Residences == 0 .. 2
Artefacts  == Documents \cup Images
Anywhere   == [ceiling |-> 2, names |-> <<>>]   \* no preference

ASSUME DisclosureAssumption ==
    /\ NoBackend \notin Backends
    /\ Policy \in [Levels -> Seq(Backends)]
    /\ Residence \in [Backends -> Residences]
    /\ Seeing \subseteq Backends
    /\ Anywhere \in Preferences
    /\ Preferences \subseteq [ceiling : Residences, names : Seq(Backends)]
    /\ Documents \cap Images = {} /\ Holds \in [Jobs -> SUBSET Artefacts]
    /\ Cost \in [Artefacts -> Nat] /\ Dearest \in Nat
    /\ \A a \in Artefacts : Cost[a] <= Dearest
    /\ {MaxBytes, MaxArtefactBytes, MaxReleases, MaxChunks} \subseteq Nat
    /\ MaxChunks > 0 /\ Found \in BOOLEAN
ASSUME CallersAssumption == IsFiniteSet(Callers) /\ Callers # {}

VARIABLES
    job,            \* how far its submission is, what its depositor asks, and
                    \* history: the ceilings stated since, in this process
    level,          \* its sensitivity on its log
    preference,     \* default_preference of the process
    ledger,         \* the job's exposures.jsonl, summed and listed
    call,
    sent            \* history: what was shown last and to which model, and
                    \* every image that was

vars == <<job, level, preference, ledger, call, sent>>
-----------------------------------------------------------------------------
(* The policy enforcement point. *)

InOrder(s) == {s[i] : i \in DOMAIN s}
Place(s, b) == CHOOSE i \in DOMAIN s : s[i] = b /\ \A k \in DOMAIN s : s[k] = b => i <= k

Permitted(l) == InOrder(Policy[l])

Capable(l, vision) == {b \in Permitted(l) : vision => b \in Seeing}

\* A plausible bug: a backend the depositor names is taken, permitted or not.
NarrowedToNames(backends, p) ==
    IF p.names # <<>> THEN InOrder(p.names)
    ELSE {b \in backends : Residence[b] <= p.ceiling}

(* What the depositor would rather: no further than the ceiling, and of    *)
(* that the backends named, when there are any.                            *)
Narrowed(backends, p) ==
    LET within == {b \in backends : Residence[b] <= p.ceiling}
        chosen == within \cap InOrder(p.names)
    IN  IF chosen = {} THEN within ELSE chosen

(* The most restrictive of what remains; among equals the depositor's      *)
(* order, or the policy's.                                                 *)
Precedes(l, p, b, o) ==
    \/ Residence[b] < Residence[o]
    \/ /\ Residence[b] = Residence[o]
       /\ LET order == IF b \in InOrder(p.names) THEN p.names ELSE Policy[l]
          IN  Place(order, b) <= Place(order, o)

ResolveBackend(l, vision) ==
    LET open == Narrowed(Capable(l, vision), preference)
    IN  IF open = {} THEN NoBackend
        ELSE CHOOSE b \in open : \A o \in open : Precedes(l, preference, b, o)

\* Without a confirmed level, the material counts as sensitive.
Current(l) == IF l = NoLevel THEN 2 ELSE l
-----------------------------------------------------------------------------
(* The ledger.  bytes and releases are what spent() and its kin sum up.    *)

Kinds == {"aggregate", "sample", "chunk", "image"}

Release(artefact, kind, backend) ==
    [artefact |-> artefact, kind |-> kind, backend |-> backend]
Releases == [artefact : Artefacts, kind : Kinds, backend : Backends]

EmptyLedger == [bytes |-> 0, of |-> [a \in Artefacts |-> 0], releases |-> 0,
                entries |-> {}]

Charge(r) == IF r.kind = "aggregate" THEN 0 ELSE Cost[r.artefact]

\* A plausible bug: what is asked for is not counted in.
WouldExceedAlready(j, r) ==
    \/ ledger[j].releases > MaxReleases
    \/ ledger[j].bytes > MaxBytes
    \/ ledger[j].of[r.artefact] > MaxArtefactBytes

WouldExceed(j, r) ==
    \/ ledger[j].releases + 1 > MaxReleases
    \/ ledger[j].bytes + Charge(r) > MaxBytes
    \/ ledger[j].of[r.artefact] + Charge(r) > MaxArtefactBytes

\* A whole artefact that leaves the premises; no caller has a name to give.
RequiresHumanAuthority(r) == r.kind = "image" /\ Residence[r.backend] # 0

\* A plausible bug: what costs nothing is not entered.
EnteredIfCharged(l, r) ==
    IF Charge(r) = 0 THEN l
    ELSE [l EXCEPT !.bytes = @ + Charge(r), !.of[r.artefact] = @ + Charge(r),
                   !.releases = @ + 1, !.entries = @ \cup {r}]

Entered(l, r) ==
    [l EXCEPT !.bytes = @ + Charge(r), !.of[r.artefact] = @ + Charge(r),
              !.releases = @ + 1, !.entries = @ \cup {r}]
-----------------------------------------------------------------------------
(* Calls: a classification, an inspection of the images, or of a document. *)
(* least is history: the lowest level its job had since the call began.    *)

Idle == [pc |-> "idle", why |-> "none", job |-> "none", level |-> 2,
         todo |-> {}, shown |-> {}, next |-> {}, worst |-> 0, alone |-> FALSE,
         read |-> 0, least |-> 2]

Init ==
    /\ job = [j \in Jobs |-> [pc |-> "new", asks |-> Anywhere, within |-> 2]]
    /\ level = [j \in Jobs |-> NoLevel]
    /\ preference = Anywhere
    /\ ledger = [j \in Jobs |-> EmptyLedger]
    /\ call = [c \in Callers |-> Idle]
    /\ sent = {}

(* permitted: by policy, at a level the job had while what is sent was     *)
(* prepared or at a stricter one; asked: no further than its depositor     *)
(* asked of the process that sends it, or one after them.                  *)
Sent(j, r, least) ==
    [job |-> j, artefact |-> r.artefact, kind |-> r.kind, backend |-> r.backend,
     permitted |-> \E l \in Levels : l >= least /\ r.backend \in Permitted(l),
     asked |-> Residence[r.backend] <= job[j].within]

Show(what) == sent' = {s \in sent : s.kind = "image"} \cup what

(* The depositor submits, with a preference or none.  The plan is read     *)
(* before the preference is kept, in one attribute for all jobs.           *)
Ingest(j) ==
    /\ job[j].pc = "new"
    /\ \E p \in Preferences :
          job' = [job EXCEPT ![j] = [pc |-> "creating", asks |-> p, within |-> 2]]
    /\ UNCHANGED <<level, preference, ledger, call, sent>>

(* What people say of the material, and what is known of its structure, is *)
(* no release: a model is shown it and no ledger is told.                  *)
Words(b) == Release("words", "words", b)

ShowWords(j, l) ==
    LET b == ResolveBackend(l, FALSE) IN
    /\ b # NoBackend
    /\ Show({Sent(j, Words(b), Current(level[j]))})
    /\ UNCHANGED <<job, level, preference, ledger, call>>

ResolveDmp(j) == job[j].pc = "creating" /\ ShowWords(j, 2)

\* The widest of two ceilings, where the later one was stated at all.
Widened(within, p) == IF p = Anywhere \/ p.ceiling <= within THEN within ELSE p.ceiling

RecordPreference(j) ==
    LET p == job[j].asks IN
    /\ job[j].pc = "creating"
    /\ job' = [i \in Jobs |->
                 IF i = j THEN [job[j] EXCEPT !.pc = "ready", !.within = p.ceiling]
                 ELSE [job[i] EXCEPT !.within = Widened(@, p)]]
    /\ preference' = IF p = Anywhere THEN preference ELSE p
    /\ UNCHANGED <<level, ledger, call, sent>>

(* So does that of a job that is not followed here, in the same process.  *)
RecordElsewhere(p) ==
    /\ p # Anywhere
    /\ job' = [i \in Jobs |-> [job[i] EXCEPT !.within = Widened(@, p)]]
    /\ preference' = p
    /\ UNCHANGED <<level, ledger, call, sent>>

Taken(j) == job[j].pc \in {"ready", "kept"}

\* At ingestion, where to and in what standard; then, what the material is.
ReadInstruction(j) == job[j].pc = "ready" /\ ShowWords(j, 2)
ReadStatement(j)   == Taken(j) /\ ShowWords(j, 2)

\* The drafting agents, at the level on the log.
DraftRecord(j)        == Taken(j) /\ ShowWords(j, Current(level[j]))
DraftDocumentation(j) == Taken(j) /\ ShowWords(j, Current(level[j]))
ProposeRedactions(j)  == Taken(j) /\ ShowWords(j, Current(level[j]))

Busy(j) == \E c \in Callers : call[c].pc # "idle" /\ call[c].job = j

\* The calls about a job, once its level is another.
Having(calls, j, l) ==
    [c \in Callers |->
        IF calls[c].job = j /\ Current(l) < calls[c].least
           /\ calls[c].pc \notin {"idle", "halted", "found"}
        THEN [calls[c] EXCEPT !.least = Current(l)] ELSE calls[c]]

ConfirmDeclaration(j, l) ==
    /\ Taken(j) /\ level[j] # l
    /\ Busy(j) => "meanwhile" \in Courses
    /\ level' = [level EXCEPT ![j] = l]
    /\ call' = Having(call, j, l)
    /\ UNCHANGED <<job, preference, ledger, sent>>

Begin(c, j, why, pc, todo) ==
    /\ call[c].pc = "idle" /\ Taken(j)
    /\ Busy(j) => "together" \in Courses
    /\ call' = [call EXCEPT ![c] = [Idle EXCEPT
                  !.pc = pc, !.why = why, !.job = j,
                  !.level = Current(level[j]), !.todo = todo,
                  !.least = Current(level[j])]]
    /\ UNCHANGED <<job, level, preference, ledger, sent>>

\* The call ends with an exception, and the job with a reason on its log.
Halt(c) == call' = [call EXCEPT ![c] = [Idle EXCEPT !.pc = "halted", !.job = call[c].job]]

Dismiss(c) ==
    /\ call[c].pc = "halted"
    /\ call' = [call EXCEPT ![c] = Idle]
    /\ UNCHANGED <<job, level, preference, ledger, sent>>

(* Record before return: a release that needs authority or exceeds the     *)
(* budget raises; what is checked is appended in a step of its own.        *)
Check(c, r, more) ==
    IF RequiresHumanAuthority(r) \/ WouldExceed(call[c].job, r) THEN Halt(c)
    ELSE call' = [call EXCEPT ![c] = [more EXCEPT !.pc = "recording", !.next = {r}]]

(* A value is then part of what the model will be shown; an image or a     *)
(* chunk is on its way.                                                    *)
AppendExposure(c) ==
    LET j == call[c].job IN
    /\ call[c].pc = "recording"
    /\ \E r \in call[c].next :
          ledger' = [ledger EXCEPT ![j] = Entered(@, r)]
    /\ call' = [call EXCEPT ![c] =
          IF call[c].why = "classify"
          THEN [call[c] EXCEPT !.pc = "probing", !.next = {},
                               !.shown = call[c].shown \cup call[c].next]
          ELSE [call[c] EXCEPT !.pc = "sending"]]
    /\ UNCHANGED <<job, level, preference, sent>>
-----------------------------------------------------------------------------
(* Classification: a model asks for probes, they are run, it interprets.   *)

ProposeProbes(c, j) == Begin(c, j, "classify", "proposing", {})

(* Any probes of documents the model may ask for; those it makes up are    *)
(* refused and dropped.                                                    *)
Probes(documents, b) ==
    [artefact : documents, kind : {"aggregate", "sample"}, backend : {b}]

\* A plausible bug: a document the model makes up is looked for.
AcceptedMadeUp(j, b) == Probes((Documents \cap Holds[j]) \cup {"made up"}, b)

Accepted(j, b) == Probes(Documents \cap Holds[j], b)

\* The backend that will be charged is resolved first.
RunProbes(c) ==
    LET b == ResolveBackend(call[c].level, FALSE) IN
    /\ call[c].pc = "proposing"
    /\ IF b = NoBackend THEN Halt(c)
       ELSE \E todo \in SUBSET Accepted(call[c].job, b) :
              call' = [call EXCEPT ![c].pc = "probing", ![c].todo = todo]
    /\ UNCHANGED <<job, level, preference, ledger, sent>>

RunProbe(c) ==
    /\ call[c].pc = "probing"
    /\ \E r \in call[c].todo : Check(c, r, [call[c] EXCEPT !.todo = @ \ {r}])
    /\ UNCHANGED <<job, level, preference, ledger, sent>>

\* A plausible bug: the model is asked at the level the job has by default.
LevelOfCallLax(c) == 0

LevelOfCall(c) == call[c].level

(* The results go to the backend resolved now.                             *)
Interpret(c) ==
    LET b == ResolveBackend(LevelOfCall(c), FALSE)
        j == call[c].job
    IN  /\ call[c].pc = "probing" /\ call[c].todo = {}
        /\ IF b = NoBackend THEN Halt(c) /\ UNCHANGED sent
           ELSE /\ Show({Sent(j, [r EXCEPT !.backend = b], call[c].least) : r \in call[c].shown})
                /\ \E worst \in Levels :
                      call' = [call EXCEPT ![c].pc = "concluding", ![c].worst = worst]
        /\ UNCHANGED <<job, level, preference, ledger>>

\* A plausible bug: a conclusion replaces the level whichever is higher.
TightenedOrNot(l, worst) == IF l = NoLevel THEN l ELSE worst

Tightened(l, worst) == IF l # NoLevel /\ worst > l THEN worst ELSE l

(* The conclusion is appended, and only ever tightens a level there is.    *)
Conclude(c) ==
    LET j == call[c].job IN
    /\ call[c].pc = "concluding"
    /\ level' = [level EXCEPT ![j] = Tightened(@, call[c].worst)]
    /\ call' = [call EXCEPT ![c] = Idle]
    /\ UNCHANGED <<job, preference, ledger, sent>>
-----------------------------------------------------------------------------
(* Images. *)

InspectAll(c, j) ==
    Images \cap Holds[j] # {} /\ Begin(c, j, "media", "looking", Images \cap Holds[j])

\* A plausible bug: an image nobody looked at has the level of its metadata.
PresumedInternal(seen) == IF seen > 1 THEN seen ELSE 1

Presumed(seen) == 2

(* Another image, or the end.  An image that is encrypted, too large, or   *)
(* that no permitted backend can see is not sent and counts as sensitive.  *)
Inspect(c) ==
    /\ call[c].pc = "looking"
    /\ IF call[c].todo = {} THEN call' = [call EXCEPT ![c].pc = "concluding"]
       ELSE LET a == CHOOSE i \in call[c].todo : TRUE
                rest == [call[c] EXCEPT !.todo = @ \ {a}]
            IN  \/ call' = [call EXCEPT ![c] = [rest EXCEPT !.worst = Presumed(@)]]
                \/ /\ ResolveBackend(call[c].level, TRUE) # NoBackend
                   /\ call' = [call EXCEPT ![c] = [rest EXCEPT !.pc = "reading",
                                                              !.next = {a}]]
    /\ UNCHANGED <<job, level, preference, ledger, sent>>

(* The backend is resolved again, and the file read.                       *)
InspectImage(c) ==
    LET b == ResolveBackend(call[c].level, TRUE) IN
    /\ call[c].pc = "reading"
    /\ IF b = NoBackend \/ ~Found THEN Halt(c)
       ELSE \E a \in call[c].next : Check(c, Release(a, "image", b), call[c])
    /\ UNCHANGED <<job, level, preference, ledger, sent>>

(* A reply that cannot be read, or that says an image with content in it   *)
(* is empty, is no inspection.                                             *)
SendImage(c) ==
    /\ call[c].pc = "sending" /\ call[c].why = "media"
    /\ Show({Sent(call[c].job, r, call[c].least) : r \in call[c].next})
    /\ \E found \in Levels \cup {NoLevel} :
          call' = [call EXCEPT ![c].pc = "looking", ![c].next = {},
                     ![c].worst = IF found = NoLevel THEN Presumed(@)
                                  ELSE IF found > @ THEN found ELSE @]
    /\ UNCHANGED <<job, level, preference, ledger>>
-----------------------------------------------------------------------------
(* Documents, chunk by chunk to one backend, and what is made of it.       *)

InspectContent(c, j, d) ==
    LET b == ResolveBackend(Current(level[j]), FALSE) IN
    b # NoBackend /\ Begin(c, j, "content", "chunking", {Release(d, "chunk", b)})

MoreToRead(c) == call[c].read < MaxChunks

ReadChunk(c) ==
    /\ call[c].pc = "chunking"
    /\ IF MoreToRead(c)
       THEN \E r \in call[c].todo : Check(c, r, call[c])
       ELSE call' = [call EXCEPT ![c].pc = "correlating"]
    /\ UNCHANGED <<job, level, preference, ledger, sent>>

(* worst is 1 once anything was observed in a chunk; alone, once a chunk   *)
(* was sensitive on its own.  A document ends where a chunk is the last.   *)
SendChunk(c) ==
    /\ call[c].pc = "sending" /\ call[c].why = "content"
    /\ Show({Sent(call[c].job, r, call[c].least) : r \in call[c].next})
    /\ \E observed, alone, last \in BOOLEAN :
          call' = [call EXCEPT ![c].pc = IF last THEN "correlating" ELSE "chunking",
                     ![c].read = @ + 1, ![c].next = {},
                     ![c].worst = IF observed THEN 1 ELSE @,
                     ![c].alone = @ \/ alone]
    /\ UNCHANGED <<job, level, preference, ledger>>

\* None where nothing was observed; else a chunk on its own settles it.
Verdicts(r) == IF r.worst = 0 THEN {NoLevel}
               ELSE IF r.alone THEN {2} ELSE Levels \cup {NoLevel}

Correlate(c) ==
    /\ call[c].pc = "correlating"
    /\ \E verdict \in Verdicts(call[c]) :
          call' = [call EXCEPT ![c] = [Idle EXCEPT !.pc = "found", !.job = call[c].job,
                                         !.worst = verdict, !.alone = call[c].alone]]
    /\ UNCHANGED <<job, level, preference, ledger, sent>>

Report(c) ==
    /\ call[c].pc = "found"
    /\ call' = [call EXCEPT ![c] = Idle]
    /\ UNCHANGED <<job, level, preference, ledger, sent>>
-----------------------------------------------------------------------------
(* A thread ends anywhere; or the process does, and what it kept with it.  *)
Die(c) ==
    /\ call[c].pc # "idle"
    /\ call' = [call EXCEPT ![c] = Idle]
    /\ UNCHANGED <<job, level, preference, ledger, sent>>

Restart ==
    /\ preference' = Anywhere
    /\ job' = [j \in Jobs |-> IF job[j].pc = "new" THEN job[j]
                              ELSE [job[j] EXCEPT !.pc = "kept", !.within = 2]]
    /\ call' = [c \in Callers |-> Idle]
    /\ UNCHANGED <<level, ledger, sent>>

Next ==
    \/ \E j \in Jobs :
          \/ Ingest(j) \/ ResolveDmp(j) \/ RecordPreference(j)
          \/ ReadInstruction(j) \/ ReadStatement(j)
          \/ DraftRecord(j) \/ DraftDocumentation(j) \/ ProposeRedactions(j)
          \/ \E l \in Levels : ConfirmDeclaration(j, l)
          \/ \E c \in Callers :
                \/ ProposeProbes(c, j) \/ InspectAll(c, j)
                \/ \E d \in Documents \cap Holds[j] : InspectContent(c, j, d)
    \/ \E c \in Callers :
          \/ RunProbes(c) \/ RunProbe(c) \/ AppendExposure(c) \/ Interpret(c)
          \/ Inspect(c) \/ InspectImage(c) \/ SendImage(c) \/ Conclude(c)
          \/ ReadChunk(c) \/ SendChunk(c) \/ Correlate(c) \/ Report(c)
          \/ Dismiss(c) \/ Die(c)
    \/ Restart
    \/ \E p \in Preferences : RecordElsewhere(p)

Spec == Init /\ [][Next]_vars
-----------------------------------------------------------------------------
Pcs == {"idle", "halted", "proposing", "probing", "recording", "concluding",
        "looking", "reading", "sending", "chunking", "correlating", "found"}

CallStates ==
    [pc : Pcs, why : {"none", "classify", "media", "content"},
     job : Jobs \cup {"none"}, level : Levels, todo : SUBSET (Releases \cup Images),
     shown : SUBSET Releases, next : SUBSET (Releases \cup Images),
     worst : Levels \cup {NoLevel}, alone : BOOLEAN, read : 0 .. MaxChunks,
     least : Levels]

CallOK(r) ==
    /\ r.pc # "idle" => r.job \in Jobs
    /\ r.pc \in {"proposing", "probing"} => r.why = "classify"
    /\ r.pc \in {"looking", "reading"} => r.why = "media"
    /\ r.pc = "chunking" => r.why = "content"
    /\ IF r.why = "media" THEN r.todo \subseteq Images ELSE r.todo \subseteq Releases
    /\ IF r.pc = "reading" THEN r.next \subseteq Images ELSE r.next \subseteq Releases
    /\ r.pc \in {"recording", "sending"} /\ r.why = "content" => r.read < MaxChunks

TypeOK ==
    /\ job \in [Jobs -> [pc : {"new", "creating", "ready", "kept"}, asks : Preferences,
                    within : Residences]]
    /\ level \in [Jobs -> Levels \cup {NoLevel}]
    /\ preference \in Preferences
    /\ ledger \in [Jobs -> [bytes : Nat, of : [Artefacts -> Nat], releases : Nat,
                            entries : SUBSET Releases]]
    /\ call \in [Callers -> CallStates] /\ \A c \in Callers : CallOK(call[c])

(* "Every release of class-1 material to a model is an exposure and is     *)
(* recorded": what a model was shown of what the job holds is in its       *)
(* ledger, under the name of that model.  (C/exposure.py)                  *)
SentIsRecorded ==
    \A s \in sent : s.kind \in Kinds =>
        Release(s.artefact, s.kind, s.backend) \in ledger[s.job].entries

(* The same, and no words that are not recorded either.                    *)
WordsAreRecorded == \A s \in sent : s.kind \in Kinds

(* "was any single job able to drain the dataset through repeated small    *)
(* reads?": what a job's ledger holds stays within each of its limits, but *)
(* for one release of each call that runs beside another.                  *)
(* (exposure/ledger.py, which checks and appends with no lock)             *)
Beside == Cardinality(Callers) - 1

BudgetKept ==
    \A j \in Jobs :
        /\ ledger[j].bytes <= MaxBytes + Beside * Dearest
        /\ ledger[j].releases <= MaxReleases + Beside
        /\ \A a \in Artefacts : ledger[j].of[a] <= MaxArtefactBytes + Beside * Cost[a]

\* The same, with no release beyond.
BudgetNeverExceeded ==
    \A j \in Jobs :
        /\ ledger[j].bytes <= MaxBytes /\ ledger[j].releases <= MaxReleases
        /\ \A a \in Artefacts : ledger[j].of[a] <= MaxArtefactBytes

(* Nothing is sent to a model that policy permits at none of the levels    *)
(* the job had while it was prepared, whoever changes the level meanwhile. *)
(* (policy/pep.py)                                                         *)
SentWasPermitted == \A s \in sent : s.permitted

(* The same, of the level the job has when it is sent.                     *)
SentIsPermitted ==
    [][\A s \in sent' \ sent : \E l \in Levels :
          l >= Current(level[s.job]) /\ s.backend \in Permitted(l)]_vars

(* "Silently ignoring 'keep this local' and sending the material abroad is *)
(* a worse outcome than stopping": nothing of a job goes further than its  *)
(* depositor asked of the process that sends it, or than one whose         *)
(* preference the process took after theirs.  (policy/pep.py)              *)
PreferenceHonoured == \A s \in sent : s.asked

(* The same, of whatever process sends it.                                 *)
PreferenceRemembered == \A s \in sent : Residence[s.backend] <= job[s.job].asks.ceiling

(* No image leaves the premises, since nobody authorises that.             *)
ImagesStay == \A s \in sent : s.kind = "image" => Residence[s.backend] = 0

(* "an image that cannot be inspected is not skipped": when the inspection *)
(* of a job's images ends, they were each sent to a model or the level is  *)
(* sensitive; and no conclusion lowers one.  (agents/media.py)             *)
UnseenIsSensitive ==
    [][\A c \in Callers : call[c].pc = "concluding" /\ Conclude(c) =>
          LET j == call[c].job IN
          /\ level[j] # NoLevel => level'[j] >= level[j]
          /\ call[c].why = "media" /\ level[j] # NoLevel =>
                \/ level'[j] = 2
                \/ \A a \in Images \cap Holds[j] : \E s \in sent :
                      s.job = j /\ s.artefact = a /\ s.kind = "image"]_vars

(* "the material cannot be inspected here and must be decided by a human   *)
(* at the approval gate": no image stops its job.  (policy/pep.py)         *)
ImagesNeverHalt ==
    [][\A c \in Callers :
          call'[c].pc = "halted" => call[c].pc # "reading"]_vars

(* "A chunk that was sensitive on its own settles the document".           *)
(* (content/inspector.py)                                                  *)
AloneSettles ==
    \A c \in Callers : call[c].pc = "found" /\ call[c].alone => call[c].worst = 2
=============================================================================
