--------------------------- MODULE DepositProofs ---------------------------
(***************************************************************************)
(* What a job says it deposited is published, and is its own: for any      *)
(* number of jobs and of concurrent calls, any crash, refusal or lost      *)
(* answer, and every course of events.                                     *)
(*                                                                         *)
(* The invariant behind it: every identifier held anywhere, in the         *)
(* registry, its .tmp file, a copy a call has loaded or a call itself, is  *)
(* that of a deposition made for the job it is held for, and a call with a *)
(* receipt holds a published one.  No step takes a deposition back.        *)
(*                                                                         *)
(* On it rest four more.  Covered, for every course of events: there are   *)
(* no more depositions than intents.  And for the courses each needs:      *)
(* Listed, the files of a call are those not excluded; OneInv, the         *)
(* registry names whatever is published while one call is made at a time;  *)
(* and Reviewed, what is at the repository fits what was reviewed.         *)
(***************************************************************************)
EXTENDS Deposit, FiniteSetTheorems, TLAPS

\* A registry that names, for each job, nothing or a deposition of that job.
Sound(r) == \A j \in Jobs : r[j] # Nothing =>
               r[j] \in Depositions /\ zenodo[r[j]].job = j

\* Calls that hold the identifier of a deposition.
Holding == {"created", "loaded", "written", "reading", "describing", "listing",
            "uploading", "receipted", "completed"}

CallSound(c) ==
    /\ At(c, "loaded") \/ At(c, "written") => Sound(call[c].data)
    /\ call[c].pc \in Holding =>
          call[c].id \in Depositions /\ zenodo[call[c].id].job = call[c].job
    /\ At(c, "receipted") \/ At(c, "completed") => zenodo[call[c].id].published

IInv == /\ TypeOK
        /\ Sound(registry)
        /\ tmp # Nothing => Sound(tmp)
        /\ \A c \in Callers : CallSound(c)
        /\ DepositedIsPublic

\* No step of anybody takes a deposition back.
Grows == /\ Len(zenodo) <= Len(zenodo')
         /\ \A n \in Depositions : /\ zenodo'[n].job = zenodo[n].job
                                   /\ zenodo[n].published => zenodo'[n].published
-----------------------------------------------------------------------------
\* The constants: no deposition is Nothing, and what is uploaded has a name.
LEMMA Constants == /\ \A n \in Nat : n # Nothing
                   /\ \A r \in Registry : r # Nothing
                   /\ \A p \in Paths : p # Nothing /\ BaseName[p] \in Names
  BY NothingAssumption, MaterialAssumption DEF Names, Registry

\* The state of a call between two calls.
LEMMA IdleTypes == Idle \in Call
  <1>1. (CHOOSE j \in Jobs : TRUE) \in Jobs
    BY JobsAssumption
  <1>2. Empty \in Registry
    BY DEF Empty, Registry
  <1> QED
    BY <1>1, <1>2, BoundsAssumption DEF Idle, Call, Places

LEMMA InitTypes == Init => TypeOK
  BY IdleTypes, BoundsAssumption DEF Init, TypeOK, Registry, Empty

\* Every step that changes a call leaves calls.
LEMMA GoesTypes == ASSUME TypeOK, NEW c \in Callers, NEW place \in Places, Goes(c, place)
                   PROVE  call' \in [Callers -> Call]
  BY DEF TypeOK, Goes, Call

LEMMA LoggedTypes == ASSUME TypeOK, NEW j \in Jobs, NEW pid \in Nat,
                            NEW kind \in {"started", "failed", "completed", "reconciled",
                                          "deposited", "closed"},
                            Logged(j, kind, pid)
                     PROVE  log' \in [Jobs -> Seq(Entry)]
  <1>1. [kind |-> kind, pid |-> pid] \in Entry
    BY DEF Entry
  <1>2. log[j] \in Seq(Entry)
    BY DEF TypeOK
  <1>3. Append(log[j], [kind |-> kind, pid |-> pid]) \in Seq(Entry)
    BY <1>1, <1>2
  <1> QED
    BY <1>3 DEF TypeOK, Logged

LEMMA FaultyTypes == ASSUME TypeOK, NEW ok \in BOOLEAN, Faulty(ok)
                     PROVE  faults' \in 0 .. MaxFaults
  BY BoundsAssumption DEF TypeOK, Faulty
-----------------------------------------------------------------------------
(* Type correctness, one step per action.                                  *)

LEMMA PeopleTypes == ASSUME TypeOK,
                            \E j \in Jobs : \/ \E p \in Paths : Exclude(j, p)
                                            \/ Revise(j) \/ Settle(j)
                     PROVE  TypeOK'
  <1>1. ASSUME NEW j \in Jobs, NEW p \in Paths, Exclude(j, p) PROVE TypeOK'
    BY <1>1 DEF TypeOK, Exclude
  <1>2. ASSUME NEW j \in Jobs, Revise(j) PROVE TypeOK'
    BY <1>2, BoundsAssumption DEF TypeOK, Revise
  <1>3. ASSUME NEW j \in Jobs, Settle(j) PROVE TypeOK'
    BY <1>3, LoggedTypes DEF TypeOK, Settle
  <1> QED
    BY <1>1, <1>2, <1>3

LEMMA AgentTypes == ASSUME TypeOK, NEW c \in Callers, Agent(c)
                    PROVE  TypeOK'
  <1>0. /\ call[c].job \in Jobs /\ call[c].id \in Nat
        /\ {"idle", "cleared", "begun", "completed"} \subseteq Places
    BY DEF TypeOK, Call, Places
  <1>1. CASE Refuse(c)
    BY <1>0, <1>1, GoesTypes DEF TypeOK, Refuse
  <1>2. CASE CloseUnshared(c)
    BY <1>0, <1>2, GoesTypes, LoggedTypes DEF TypeOK, CloseUnshared
  <1>3. CASE Clear(c)
    BY <1>0, <1>3, GoesTypes DEF TypeOK, Clear
  <1>4. CASE Start(c)
    BY <1>0, <1>4, GoesTypes, LoggedTypes DEF TypeOK, Start
  <1>5. CASE Fail(c)
    BY <1>0, <1>5, GoesTypes, LoggedTypes DEF TypeOK, Fail
  <1>6. CASE Complete(c)
    BY <1>0, <1>6, GoesTypes, LoggedTypes DEF TypeOK, Complete
  <1>7. CASE RecordDeposit(c)
    BY <1>0, <1>7, GoesTypes, LoggedTypes DEF TypeOK, RecordDeposit
  <1> QED
    BY <1>1, <1>2, <1>3, <1>4, <1>5, <1>6, <1>7 DEF Agent

LEMMA ReceiveTypes == ASSUME TypeOK, NEW c \in Callers, NEW j \in Jobs, Receive(c, j)
                      PROVE  TypeOK'
  <1>1. [Idle EXCEPT !.pc = "asked", !.job = j, !.files = ToUpload(j),
                     !.record = record[j]] \in Call
    <2>1. record[j] \in 0 .. MaxRecord
      BY BoundsAssumption DEF TypeOK
    <2>2. ToUpload(j) \in SUBSET Paths
      BY DEF ToUpload
    <2> QED
      BY <2>1, <2>2, IdleTypes DEF Call, Places
  <1> QED
    BY <1>1 DEF Receive, TypeOK

LEMMA RegistryTypes == ASSUME TypeOK, NEW c \in Callers,
                              \/ LookUp(c) \/ LoadRegistry(c) \/ WriteRegistry(c)
                              \/ ReplaceRegistry(c) \/ ReadDeposition(c)
                       PROVE  TypeOK'
  <1>0. /\ call[c] \in Call
        /\ {"creating", "loaded", "written", "reading", "failed", "receipted",
            "describing"} \subseteq Places
    BY DEF TypeOK, Places
  <1>1. CASE LookUp(c)
    <2>1. registry[call[c].job] \in Nat \cup {Nothing}
      BY <1>0 DEF TypeOK, Registry, Call
    <2> QED
      BY <1>0, <1>1, <2>1 DEF LookUp, TypeOK, Call
  <1>2. CASE LoadRegistry(c)
    <2>1. [registry EXCEPT ![call[c].job] = call[c].id] \in Registry
      BY <1>0 DEF TypeOK, Registry, Call
    <2> QED
      BY <1>0, <1>2, <2>1 DEF LoadRegistry, TypeOK, Call
  <1>3. CASE WriteRegistry(c)
    <2>1. call[c].data \in Registry
      BY <1>0 DEF Call
    <2> QED
      BY <1>0, <1>3, <2>1, GoesTypes DEF WriteRegistry, TypeOK
  <1>4. CASE ReplaceRegistry(c)
    BY <1>0, <1>4, GoesTypes DEF ReplaceRegistry, TypeOK
  <1>5. CASE ReadDeposition(c)
    BY <1>0, <1>5, GoesTypes DEF ReadDeposition, TypeOK
  <1> QED
    BY <1>1, <1>2, <1>3, <1>4, <1>5

\* Creating a deposition appends one that belongs to the caller's job.
LEMMA CreateTypes == ASSUME TypeOK, NEW c \in Callers, NEW ok \in BOOLEAN, Create(c, ok)
                     PROVE  TypeOK' /\ Grows /\ Len(zenodo') = Len(zenodo) + 1
                            /\ zenodo'[Len(zenodo')].job = call[c].job
  <1> DEFINE new == [job |-> call[c].job, files |-> [n \in Names |-> Nothing],
                     record |-> 0, published |-> FALSE]
  <1>0. call[c] \in Call /\ {"created", "failed"} \subseteq Places
    BY DEF TypeOK, Places
  <1>1. new \in Deposition
    BY <1>0, BoundsAssumption DEF Deposition, Call
  <1>2. /\ zenodo \in Seq(Deposition) /\ zenodo' = Append(zenodo, new)
        /\ zenodo' \in Seq(Deposition) /\ Len(zenodo') = Len(zenodo) + 1
        /\ Len(zenodo) \in Nat
        /\ \A n \in 1 .. Len(zenodo) : zenodo'[n] = zenodo[n]
        /\ zenodo'[Len(zenodo')] = new
    BY <1>1 DEF Create, TypeOK
  <1>3. call' \in [Callers -> Call]
    <2>1. (IF ok THEN Len(zenodo') ELSE 0) \in Nat
      BY <1>2
    <2> QED
      BY <1>0, <2>1 DEF Create, TypeOK, Call
  <1>4. TypeOK'
    BY <1>2, <1>3, FaultyTypes DEF Create, TypeOK
  <1>5. Grows
    BY <1>2 DEF Grows, Depositions
  <1> QED
    BY <1>2, <1>4, <1>5

\* A change to one deposition that leaves its job and does not unpublish it.
LEMMA ChangeTypes == ASSUME TypeOK, NEW i \in Depositions, NEW d \in Deposition,
                            d.job = zenodo[i].job,
                            zenodo[i].published => d.published,
                            zenodo' = [zenodo EXCEPT ![i] = d]
                     PROVE  zenodo' \in Seq(Deposition) /\ Grows
  BY DEF TypeOK, Grows, Depositions

LEMMA DescribeTypes == ASSUME TypeOK, NEW c \in Callers, NEW ok \in BOOLEAN,
                              Describe(c, ok), call[c].id \in Depositions
                       PROVE  TypeOK' /\ Grows
  <1>0. /\ call[c] \in Call /\ {"listing", "failed"} \subseteq Places
        /\ The(c) \in Deposition
    BY DEF TypeOK, Places, The, Depositions
  <1>1. zenodo' \in Seq(Deposition) /\ Grows
    <2>1. CASE The(c).published
      BY <2>1 DEF Describe, TypeOK, Grows, Depositions
    <2>2. CASE ~The(c).published
      <3> DEFINE d == [The(c) EXCEPT !.record = call[c].record]
      <3>1. d \in Deposition /\ d.job = The(c).job /\ d.published = The(c).published
        BY <1>0 DEF Deposition, Call
      <3>2. zenodo' = [zenodo EXCEPT ![call[c].id] = d]
        BY <2>2 DEF Describe, The
      <3> QED
        BY <3>1, <3>2, ChangeTypes DEF The
    <2> QED
      BY <2>1, <2>2
  <1> QED
    BY <1>0, <1>1, GoesTypes, FaultyTypes DEF Describe, TypeOK

LEMMA UploadTypes == ASSUME TypeOK, NEW c \in Callers, NEW p \in Paths, NEW ok \in BOOLEAN,
                            Upload(c, p, ok), call[c].id \in Depositions
                     PROVE  TypeOK' /\ Grows
  <1>0. /\ call[c] \in Call /\ {"uploading", "failed"} \subseteq Places
        /\ The(c) \in Deposition /\ BaseName[p] \in Names
    BY Constants DEF TypeOK, Places, The, Depositions
  <1>1. zenodo' \in Seq(Deposition) /\ Grows
    <2>1. CASE The(c).published
      BY <2>1 DEF Upload, TypeOK, Grows, Depositions
    <2>2. CASE ~The(c).published
      <3> DEFINE d == [The(c) EXCEPT !.files[BaseName[p]] = p]
      <3>1. d \in Deposition /\ d.job = The(c).job /\ d.published = The(c).published
        BY <1>0 DEF Deposition
      <3>2. zenodo' = [zenodo EXCEPT ![call[c].id] = d]
        BY <2>2 DEF Upload, The
      <3> QED
        BY <3>1, <3>2, ChangeTypes DEF The
    <2> QED
      BY <2>1, <2>2
  <1>2. call' \in [Callers -> Call]
    BY <1>0 DEF Upload, TypeOK, Call
  <1> QED
    BY <1>1, <1>2, FaultyTypes DEF Upload, TypeOK

LEMMA PublishTypes == ASSUME TypeOK, NEW c \in Callers, NEW ok \in BOOLEAN,
                             Publish(c, ok), call[c].id \in Depositions
                      PROVE  /\ TypeOK' /\ Grows
                             /\ zenodo'[call[c].id].published
  <1>0. /\ call[c] \in Call /\ {"receipted", "failed"} \subseteq Places
        /\ The(c) \in Deposition
    BY DEF TypeOK, Places, The, Depositions
  <1> DEFINE d == [The(c) EXCEPT !.published = TRUE]
  <1>1. d \in Deposition /\ d.job = The(c).job /\ d.published
    BY <1>0 DEF Deposition
  <1>2. zenodo' = [zenodo EXCEPT ![call[c].id] = d]
    BY DEF Publish, The
  <1>3. zenodo' \in Seq(Deposition) /\ Grows
    BY <1>1, <1>2, ChangeTypes DEF The
  <1>4. zenodo'[call[c].id].published
    BY <1>1, <1>2 DEF TypeOK, Depositions
  <1> QED
    BY <1>0, <1>3, <1>4, GoesTypes, FaultyTypes DEF Publish, TypeOK

LEMMA RestTypes == ASSUME TypeOK, NEW c \in Callers,
                          ListUploaded(c) \/ Unanswered(c) \/ Crash(c)
                   PROVE  TypeOK'
  <1>0. call[c] \in Call /\ {"uploading", "failed", "idle"} \subseteq Places
    BY DEF TypeOK, Places
  <1>1. CASE ListUploaded(c)
    BY <1>0, <1>1 DEF ListUploaded, TypeOK, Call
  <1>2. CASE Unanswered(c)
    BY <1>0, <1>2, GoesTypes, FaultyTypes DEF Unanswered, TypeOK
  <1>3. CASE Crash(c)
    BY <1>0, <1>3, GoesTypes, FaultyTypes DEF Crash, TypeOK
  <1> QED
    BY <1>1, <1>2, <1>3
-----------------------------------------------------------------------------
(* What a step keeps, given that it takes no deposition back.              *)

\* Sound(r) after the step, of a registry that is itself not primed.
SoundNext(r) == \A j \in Jobs : r[j] # Nothing =>
                   /\ r[j] \in 1 .. Len(zenodo')
                   /\ zenodo'[r[j]].job = j

\* A registry stays sound.
LEMMA SoundKept == ASSUME TypeOK, Grows
                   PROVE  \A r \in Registry : Sound(r) => SoundNext(r)
  <1>1. Len(zenodo) \in Nat /\ Depositions = 1 .. Len(zenodo)
    BY DEF TypeOK, Depositions
  <1>3. \A i \in Depositions : i \in 1 .. Len(zenodo')
    BY <1>1 DEF Grows
  <1> QED
    BY <1>1, <1>3 DEF Grows, Sound, SoundNext

\* A call that does nothing stays sound.
LEMMA CallKept == ASSUME TypeOK, Grows, NEW d \in Callers, CallSound(d),
                         call'[d] = call[d]
                  PROVE  CallSound(d)'
  <1>1. \A i \in Depositions : i \in Depositions'
    BY DEF TypeOK, Grows, Depositions
  <1>2. call[d].data \in Registry
    BY DEF TypeOK, Call
  <1>3. Sound(call[d].data) => SoundNext(call[d].data)
    BY <1>2, SoundKept
  <1> QED
    BY <1>1, <1>3 DEF CallSound, At, Holding, Grows, Sound, SoundNext, Depositions

\* What has been logged stays true while nothing is logged.
LEMMA LogKept == ASSUME TypeOK, Grows, DepositedIsPublic, log' = log
                 PROVE  DepositedIsPublic'
  <1>1. \A i \in Depositions : i \in Depositions'
    BY DEF TypeOK, Grows, Depositions
  <1> QED
    BY <1>1 DEF DepositedIsPublic, Grows

\* An entry about nothing public, or about something that is.
LEMMA LoggedKept ==
    ASSUME TypeOK, Grows, DepositedIsPublic, NEW j \in Jobs, NEW pid \in Nat,
           NEW kind \in {"started", "failed", "completed", "reconciled", "deposited",
                         "closed"},
           Logged(j, kind, pid),
           kind = "deposited" => /\ pid \in Depositions
                                 /\ zenodo[pid].published /\ zenodo[pid].job = j
    PROVE  DepositedIsPublic'
  <1> DEFINE e == [kind |-> kind, pid |-> pid]
  <1>1. \A i \in Depositions : i \in Depositions'
    BY DEF TypeOK, Grows, Depositions
  <1>2. /\ log[j] \in Seq(Entry) /\ e \in Entry
        /\ log' = [log EXCEPT ![j] = Append(log[j], e)] /\ j \in DOMAIN log
    BY DEF TypeOK, Logged, Entry
  <1>3. SUFFICES ASSUME NEW k \in Jobs, NEW n \in 1 .. Len(log'[k]),
                        log'[k][n].kind = "deposited"
                 PROVE  /\ log'[k][n].pid \in Depositions
                        /\ zenodo[log'[k][n].pid].published
                        /\ zenodo[log'[k][n].pid].job = k
    BY <1>1 DEF DepositedIsPublic, Grows
  <1>4. CASE k # j
    BY <1>2, <1>3, <1>4 DEF DepositedIsPublic, TypeOK
  <1>5. CASE k = j /\ n \in 1 .. Len(log[j])
    BY <1>2, <1>3, <1>5 DEF DepositedIsPublic
  <1>6. CASE k = j /\ n = Len(log[j]) + 1
    BY <1>2, <1>3, <1>6
  <1> QED
    BY <1>2, <1>4, <1>5, <1>6

\* A step that leaves the depositions alone takes none back.
LEMMA Unmoved == TypeOK /\ zenodo' = zenodo => Grows
  BY DEF TypeOK, Grows, Depositions

\* The parts of the invariant, put together for a step of one call.
LEMMA Together ==
    ASSUME IInv, TypeOK', Grows, NEW c \in Callers,
           \A d \in Callers \ {c} : call'[d] = call[d],
           CallSound(c)', DepositedIsPublic',
           registry' = registry \/ (tmp # Nothing /\ registry' = tmp),
           tmp' = tmp \/ tmp' = Nothing \/ (tmp' \in Registry /\ Sound(tmp'))
    PROVE  IInv'
  <1>1. \A r \in Registry : Sound(r) => SoundNext(r)
    BY SoundKept DEF IInv
  <1>2. Sound(registry)'
    <2>1. registry' \in Registry /\ Sound(registry')
      BY Constants DEF IInv, TypeOK
    <2> QED
      BY <1>1, <2>1 DEF Sound, SoundNext, Depositions
  <1>3. (tmp # Nothing => Sound(tmp))'
    <2>1. tmp' # Nothing => tmp' \in Registry /\ Sound(tmp')
      BY DEF IInv, TypeOK
    <2> QED
      BY <1>1, <2>1 DEF Sound, SoundNext, Depositions
  <1>4. (\A d \in Callers : CallSound(d))'
    BY CallKept DEF IInv
  <1> QED
    BY <1>2, <1>3, <1>4 DEF IInv
-----------------------------------------------------------------------------
(* Every step keeps the invariant.                                         *)

LEMMA PeopleKeep == ASSUME IInv,
                           \E j \in Jobs : \/ \E p \in Paths : Exclude(j, p)
                                           \/ Revise(j) \/ Settle(j)
                    PROVE  IInv'
  <1>1. TypeOK'
    BY PeopleTypes DEF IInv
  <1>2. UNCHANGED <<registry, tmp, zenodo, call>>
    BY DEF Exclude, Revise, Settle
  <1>3. Grows
    BY <1>2, Unmoved DEF IInv
  <1>4. DepositedIsPublic'
    <2>1. PICK j \in Jobs : (\E p \in Paths : Exclude(j, p)) \/ Revise(j) \/ Settle(j)
      OBVIOUS
    <2>2. CASE log' = log
      BY <1>3, <2>2, LogKept DEF IInv
    <2>3. CASE Settle(j)
      BY <1>3, <2>3, LoggedKept DEF IInv, Settle
    <2> QED
      BY <2>1, <2>2, <2>3 DEF Exclude, Revise
  <1>5. (\A d \in Callers : CallSound(d))'
    BY <1>2, <1>3, CallKept DEF IInv
  <1> QED
    BY <1>1, <1>2, <1>4, <1>5 DEF IInv, Sound, Depositions

LEMMA AgentKeeps == ASSUME IInv, NEW c \in Callers,
                           Agent(c) \/ \E j \in Jobs : Receive(c, j)
                    PROVE  IInv'
  <1>1. TypeOK'
    BY AgentTypes, ReceiveTypes DEF IInv
  <1>2. /\ UNCHANGED <<registry, tmp, zenodo>>
        /\ \A d \in Callers \ {c} : call'[d] = call[d]
    BY DEF IInv, TypeOK, Goes, Agent, Receive, Refuse, CloseUnshared, Clear, Start, Fail,
           Complete, RecordDeposit
  <1>3. Grows
    BY <1>2, Unmoved DEF IInv
  <1>4. DepositedIsPublic' /\ CallSound(c)'
    <2>0. /\ call[c].job \in Jobs /\ call[c].id \in Nat /\ c \in DOMAIN call
          /\ call[c] \in Call
      BY DEF IInv, TypeOK, Call
    <2>1. CASE \E j \in Jobs : Receive(c, j)
      <3>1. log' = log /\ call'[c].pc = "asked"
        <4>1. PICK j \in Jobs : Receive(c, j)
          BY <2>1
        <4>2. call'[c] = [Idle EXCEPT !.pc = "asked", !.job = j,
                                      !.files = ToUpload(j), !.record = record[j]]
          BY <2>0, <4>1 DEF Receive
        <4>3. log' = log
          BY <4>1 DEF Receive
        <4>4. Idle.pc = "idle" /\ DOMAIN Idle = {"pc", "job", "files", "todo", "record", "id", "data"}
          BY DEF Idle
        <4>5. call'[c].pc = "asked"
          BY <4>2, <4>4
        <4> QED
          BY <4>3, <4>5
      <3> QED
        BY <1>3, <3>1, LogKept DEF IInv, CallSound, At, Holding
    <2>2. CASE Refuse(c) \/ Clear(c)
      <3>1. log' = log /\ call'[c].pc \in {"idle", "cleared"}
        BY <2>0, <2>2 DEF Refuse, Clear, Goes, Call
      <3> QED
        BY <1>3, <3>1, LogKept DEF IInv, CallSound, At, Holding
    <2>3. CASE CloseUnshared(c) \/ Start(c) \/ Fail(c)
      <3>1. call'[c].pc \in {"idle", "begun"}
        BY <2>0, <2>3 DEF CloseUnshared, Start, Fail, Goes, Call
      <3>2. DepositedIsPublic'
        BY <1>3, <2>0, <2>3, LoggedKept DEF IInv, CloseUnshared, Start, Fail
      <3> QED
        BY <3>1, <3>2 DEF CallSound, At, Holding
    <2>4. CASE Complete(c)
      <3>1. /\ call'[c].pc = "completed" /\ call'[c].id = call[c].id
            /\ call'[c].job = call[c].job
        BY <2>0, <2>4 DEF Complete, Goes, Call
      <3>2. /\ call[c].id \in Depositions /\ zenodo[call[c].id].job = call[c].job
            /\ zenodo[call[c].id].published
        BY <2>4 DEF IInv, CallSound, Complete, At, Holding
      <3>3. DepositedIsPublic'
        BY <1>3, <2>0, <2>4, LoggedKept DEF IInv, Complete
      <3> QED
        BY <1>2, <3>1, <3>2, <3>3 DEF CallSound, At, Holding, Depositions
    <2>5. CASE RecordDeposit(c)
      <3>1. call'[c].pc = "idle"
        BY <2>0, <2>5 DEF RecordDeposit, Goes, Call
      <3>2. /\ call[c].id \in Depositions /\ zenodo[call[c].id].job = call[c].job
            /\ zenodo[call[c].id].published
        BY <2>5 DEF IInv, CallSound, RecordDeposit, At, Holding
      <3>3. DepositedIsPublic'
        BY <1>3, <2>0, <2>5, <3>2, LoggedKept DEF IInv, RecordDeposit
      <3> QED
        BY <3>1, <3>3 DEF CallSound, At, Holding
    <2> QED
      BY <2>1, <2>2, <2>3, <2>4, <2>5 DEF Agent
  <1> QED
    BY <1>1, <1>2, <1>3, <1>4, Together

LEMMA DriverKeeps == ASSUME IInv, NEW c \in Callers, Driver(c) \/ Crash(c)
                     PROVE  IInv'
  <1>0. /\ TypeOK /\ call[c] \in Call /\ c \in DOMAIN call /\ CallSound(c)
        /\ log' = log /\ \A d \in Callers \ {c} : call'[d] = call[d]
    BY DEF IInv, TypeOK, Goes, Driver, LookUp, LoadRegistry, WriteRegistry, ReplaceRegistry,
           ReadDeposition, ListUploaded, Create, Describe, Publish, Upload, Unanswered,
           Crash
  <1>1. CASE LookUp(c)
    <2>1. TypeOK' /\ Grows
      BY <1>0, <1>1, RegistryTypes, Unmoved DEF LookUp
    <2>2. CallSound(c)'
      <3> DEFINE known == registry[call[c].job]
      <3>1. CASE known = Nothing
        <4>1. call'[c].pc = "creating"
          BY <1>0, <1>1, <3>1 DEF LookUp, Call
        <4> QED
          BY <4>1 DEF CallSound, At, Holding
      <3>2. CASE known # Nothing
        <4>1. known \in Depositions /\ zenodo[known].job = call[c].job
          BY <1>0, <3>2 DEF IInv, Sound, Call
        <4>2. /\ call'[c].pc = "reading" /\ call'[c].id = known
              /\ call'[c].job = call[c].job /\ zenodo' = zenodo
          BY <1>0, <1>1, <3>2 DEF LookUp, Call
        <4> QED
          BY <4>1, <4>2 DEF CallSound, At, Holding, Depositions
      <3> QED
        BY <3>1, <3>2
    <2> QED
      BY <1>0, <1>1, <2>1, <2>2, LogKept, Together DEF IInv, LookUp
  <1>2. CASE \E ok \in BOOLEAN : Create(c, ok)
    <2>1. PICK ok \in BOOLEAN : Create(c, ok)
      BY <1>2
    <2>2. /\ TypeOK' /\ Grows /\ Len(zenodo') = Len(zenodo) + 1
          /\ zenodo'[Len(zenodo')].job = call[c].job
      BY <1>0, <2>1, CreateTypes
    <2>3. CallSound(c)'
      <3>1. CASE ok
        <4>1. /\ call'[c].pc = "created" /\ call'[c].id = Len(zenodo')
              /\ call'[c].job = call[c].job
          BY <1>0, <2>1, <3>1 DEF Create, Call
        <4>2. Len(zenodo') \in 1 .. Len(zenodo')
          BY <1>0, <2>2 DEF TypeOK
        <4> QED
          BY <2>2, <4>1, <4>2 DEF CallSound, At, Holding, Depositions
      <3>2. CASE ~ok
        <4>1. call'[c].pc = "failed"
          BY <1>0, <2>1, <3>2 DEF Create, Call
        <4> QED
          BY <4>1 DEF CallSound, At, Holding
      <3> QED
        BY <3>1, <3>2
    <2> QED
      BY <1>0, <2>1, <2>2, <2>3, LogKept, Together DEF IInv, Create
  <1>3. CASE LoadRegistry(c)
    <2>1. TypeOK' /\ Grows
      BY <1>0, <1>3, RegistryTypes, Unmoved DEF LoadRegistry
    <2>2. CallSound(c)'
      <3>1. call[c].id \in Depositions /\ zenodo[call[c].id].job = call[c].job
        BY <1>0, <1>3 DEF LoadRegistry, CallSound, At, Holding
      <3>2. /\ call'[c].pc = "loaded" /\ call'[c].id = call[c].id
            /\ call'[c].job = call[c].job /\ zenodo' = zenodo
            /\ call'[c].data = [registry EXCEPT ![call[c].job] = call[c].id]
        BY <1>0, <1>3 DEF LoadRegistry, Call
      <3>3. Sound(call'[c].data)
        BY <3>1, <3>2 DEF IInv, TypeOK, Registry, Sound
      <3> QED
        BY <3>1, <3>2, <3>3 DEF CallSound, At, Holding, Sound, Depositions
    <2> QED
      BY <1>0, <1>3, <2>1, <2>2, LogKept, Together DEF IInv, LoadRegistry
  <1>4. CASE WriteRegistry(c)
    <2>1. TypeOK' /\ Grows
      BY <1>0, <1>4, RegistryTypes, Unmoved DEF WriteRegistry
    <2>2. /\ call'[c] = [call[c] EXCEPT !.pc = "written"] /\ zenodo' = zenodo
          /\ tmp' = call[c].data /\ Sound(call[c].data) /\ At(c, "loaded")
      BY <1>0, <1>4 DEF WriteRegistry, Goes, CallSound
    <2>3. CallSound(c)'
      BY <1>0, <2>2 DEF CallSound, At, Holding, Sound, Depositions, Call
    <2>4. tmp' \in Registry /\ Sound(tmp')
      BY <1>0, <2>2 DEF Call
    <2> QED
      BY <1>0, <1>4, <2>1, <2>3, <2>4, LogKept, Together DEF IInv, WriteRegistry
  <1>5. CASE ReplaceRegistry(c)
    <2>1. TypeOK' /\ Grows
      BY <1>0, <1>5, RegistryTypes, Unmoved DEF ReplaceRegistry
    <2>2. /\ call'[c] = [call[c] EXCEPT !.pc = IF tmp = Nothing THEN "failed" ELSE "reading"]
          /\ zenodo' = zenodo /\ At(c, "written")
      BY <1>0, <1>5 DEF ReplaceRegistry, Goes
    <2>3. CallSound(c)'
      BY <1>0, <2>2 DEF CallSound, At, Holding, Depositions, Call
    <2> QED
      BY <1>0, <1>5, <2>1, <2>3, LogKept, Together DEF IInv, ReplaceRegistry
  <1>6. CASE ReadDeposition(c)
    <2>1. TypeOK' /\ Grows
      BY <1>0, <1>6, RegistryTypes, Unmoved DEF ReadDeposition
    <2>2. /\ call'[c] = [call[c] EXCEPT !.pc = IF zenodo[call[c].id].published
                                             THEN "receipted" ELSE "describing"]
          /\ zenodo' = zenodo /\ At(c, "reading")
      BY <1>0, <1>6 DEF ReadDeposition, Goes, The
    <2>3. CallSound(c)'
      BY <1>0, <2>2 DEF CallSound, At, Holding, Depositions, Call
    <2> QED
      BY <1>0, <1>6, <2>1, <2>3, LogKept, Together DEF IInv, ReadDeposition
  <1>7. CASE \E ok \in BOOLEAN : Describe(c, ok) \/ \E p \in Paths : Upload(c, p, ok)
    <2>1. PICK ok \in BOOLEAN : Describe(c, ok) \/ \E p \in Paths : Upload(c, p, ok)
      BY <1>7
    <2>2. call[c].id \in Depositions /\ zenodo[call[c].id].job = call[c].job
      BY <1>0, <2>1 DEF Describe, Upload, CallSound, At, Holding
    <2>3. TypeOK' /\ Grows
      BY <1>0, <2>1, <2>2, DescribeTypes, UploadTypes
    <2>4. /\ call'[c].pc \in {"listing", "uploading", "failed"}
          /\ call'[c].id = call[c].id /\ call'[c].job = call[c].job
      <3>1. CASE Describe(c, ok)
        <4>1. PICK place \in {"listing", "failed"} : call' = [call EXCEPT ![c].pc = place]
          BY <3>1 DEF Describe, Goes
        <4> QED
          BY <1>0, <4>1 DEF Call
      <3>2. CASE \E p \in Paths : Upload(c, p, ok)
        <4>1. PICK p \in Paths : Upload(c, p, ok)
          BY <3>2
        <4> DEFINE place == IF ok /\ ~The(c).published THEN "uploading" ELSE "failed"
                   rest == call[c].todo \ {p}
        <4>2. call' = [call EXCEPT ![c].pc = place, ![c].todo = rest]
          BY <4>1 DEF Upload
        <4>3. place \in {"uploading", "failed"}
          OBVIOUS
        <4> HIDE DEF place, rest
        <4>4. call'[c] = [call[c] EXCEPT !.pc = place, !.todo = rest]
          BY <1>0, <4>2
        <4> QED
          BY <1>0, <4>3, <4>4 DEF Call
      <3> QED
        BY <2>1, <3>1, <3>2
    <2>5. call[c].id \in 1 .. Len(zenodo')
      BY <1>0, <2>2, <2>3 DEF Grows, Depositions, TypeOK
    <2>6. CallSound(c)'
      BY <2>2, <2>3, <2>4, <2>5 DEF CallSound, At, Holding, Grows, Depositions
    <2>7. UNCHANGED <<registry, tmp>>
      BY <2>1 DEF Describe, Upload
    <2> QED
      BY <1>0, <2>3, <2>6, <2>7, LogKept, Together DEF IInv
  <1>8. CASE \E ok \in BOOLEAN : Publish(c, ok)
    <2>1. PICK ok \in BOOLEAN : Publish(c, ok)
      BY <1>8
    <2>2. call[c].id \in Depositions /\ zenodo[call[c].id].job = call[c].job
      BY <1>0, <2>1 DEF Publish, CallSound, At, Holding
    <2>3. TypeOK' /\ Grows /\ zenodo'[call[c].id].published
      BY <1>0, <2>1, <2>2, PublishTypes
    <2>4. /\ call'[c].pc \in {"receipted", "failed"}
          /\ call'[c].id = call[c].id /\ call'[c].job = call[c].job
      BY <1>0, <2>1 DEF Publish, Goes, Call
    <2>5. call[c].id \in 1 .. Len(zenodo')
      BY <1>0, <2>2, <2>3 DEF Grows, Depositions, TypeOK
    <2>6. CallSound(c)'
      BY <2>2, <2>3, <2>4, <2>5 DEF CallSound, At, Holding, Grows, Depositions
    <2>7. UNCHANGED <<registry, tmp>>
      BY <2>1 DEF Publish
    <2> QED
      BY <1>0, <2>3, <2>6, <2>7, LogKept, Together DEF IInv
  <1>9. CASE ListUploaded(c) \/ Unanswered(c) \/ Crash(c)
    <2>1. TypeOK' /\ Grows
      BY <1>0, <1>9, RestTypes, Unmoved DEF ListUploaded, Unanswered, Crash
    <2>2. /\ call'[c].pc \in {"failed", "idle"} \/ (At(c, "listing") /\ call'[c].pc = "uploading")
          /\ call'[c].id = call[c].id /\ call'[c].job = call[c].job /\ zenodo' = zenodo
      <3>1. CASE ListUploaded(c)
        <4>1. PICK rest : call' = [call EXCEPT ![c].pc = "uploading", ![c].todo = rest]
          BY <3>1 DEF ListUploaded
        <4>2. call'[c] = [call[c] EXCEPT !.pc = "uploading", !.todo = rest]
          BY <1>0, <4>1
        <4>3. At(c, "listing") /\ zenodo' = zenodo
          BY <3>1 DEF ListUploaded
        <4> QED
          BY <1>0, <4>2, <4>3 DEF Call
      <3>2. CASE Unanswered(c) \/ Crash(c)
        <4>1. PICK place \in {"failed", "idle"} : call' = [call EXCEPT ![c].pc = place]
          BY <3>2 DEF Unanswered, Crash, Goes
        <4>2. zenodo' = zenodo
          BY <3>2 DEF Unanswered, Crash
        <4> QED
          BY <1>0, <4>1, <4>2 DEF Call
      <3> QED
        BY <1>9, <3>1, <3>2
    <2>3. CallSound(c)'
      BY <1>0, <2>2 DEF CallSound, At, Holding, Depositions
    <2>4. UNCHANGED <<registry, tmp>>
      BY <1>9 DEF ListUploaded, Unanswered, Crash
    <2> QED
      BY <1>0, <2>1, <2>3, <2>4, LogKept, Together DEF IInv
  <1> QED
    BY <1>1, <1>2, <1>3, <1>4, <1>5, <1>6, <1>7, <1>8, <1>9 DEF Driver

LEMMA StutterKeeps == IInv /\ UNCHANGED vars => IInv'
  BY DEF vars, IInv, TypeOK, Sound, CallSound, At, DepositedIsPublic, Depositions
-----------------------------------------------------------------------------
\* The invariant holds in every reachable state of an instance of any size.
THEOREM Invariance == Spec => []IInv
  <1>1. Init => IInv
    <2> SUFFICES ASSUME Init PROVE IInv
      OBVIOUS
    <2>1. TypeOK
      BY InitTypes
    <2>2. Sound(registry) /\ tmp = Nothing
      BY DEF Init, Sound, Empty
    <2>3. ASSUME NEW c \in Callers PROVE CallSound(c)
      <3>1. call[c].pc = "idle"
        BY DEF Init, Idle
      <3> QED
        BY <3>1 DEF CallSound, At, Holding
    <2>4. DepositedIsPublic
      BY DEF Init, DepositedIsPublic
    <2> QED
      BY <2>1, <2>2, <2>3, <2>4 DEF IInv
  <1>2. IInv /\ [Next]_vars => IInv'
    BY PeopleKeep, AgentKeeps, DriverKeeps, StutterKeeps DEF Next
  <1> QED
    BY <1>1, <1>2, PTL DEF Spec

\* Every value is of its type, however many jobs and calls there are.
THEOREM TypeCorrect == Spec => []TypeOK
  BY Invariance, PTL DEF IInv

\* A job whose log says it was deposited names a deposition that is published
\* and that was made for this job, however calls, failures and retries interleave.
THEOREM DepositedIsSound == Spec => []DepositedIsPublic
  BY Invariance, PTL DEF IInv
-----------------------------------------------------------------------------
(* What a person decided and a call was asked to publish: the files a call *)
(* holds are those not excluded, as long as nothing is excluded once an    *)
(* attempt has begun.                                                      *)

Early == {"idle", "asked", "cleared"}

CallListed(c, j) ==
    call[c].job = j /\ ~At(c, "idle") =>
       /\ call[c].files = ToUpload(j)
       /\ ~At(c, "asked") => call[c].files # {}
       /\ call[c].pc \notin Early => Said(j, {"started"})

JobListed(j) ==
    /\ Said(j, {"started"}) => ToUpload(j) # {}
    /\ \A n \in Depositions : zenodo[n].job = j => Said(j, {"started"})
    /\ \A c \in Callers : CallListed(c, j)

Listed == \A j \in Jobs : JobListed(j)

\* What is on a log after an entry: what was, and the entry.
LEMMA SaidLogged ==
    ASSUME TypeOK, NEW j \in Jobs, NEW pid \in Nat,
           NEW kind \in {"started", "failed", "completed", "reconciled", "deposited",
                         "closed"},
           Logged(j, kind, pid)
    PROVE  \A k \in Jobs : \A kinds :
              Said(k, kinds)' <=> Said(k, kinds) \/ (k = j /\ kind \in kinds)
  <1> DEFINE e == [kind |-> kind, pid |-> pid]
  <1>1. /\ log[j] \in Seq(Entry) /\ e \in Entry /\ e.kind = kind
        /\ log' = [log EXCEPT ![j] = Append(log[j], e)] /\ j \in DOMAIN log
    BY DEF TypeOK, Logged, Entry
  <1> HIDE DEF e
  <1>2. /\ log'[j] = Append(log[j], e) /\ Len(log'[j]) = Len(log[j]) + 1
        /\ Len(log[j]) \in Nat /\ log'[j][Len(log[j]) + 1] = e
        /\ \A n \in 1 .. Len(log[j]) : log'[j][n] = log[j][n]
    BY <1>1
  <1> TAKE k \in Jobs
  <1> TAKE kinds
  <1>3. CASE k # j
    <2>1. log'[k] = log[k]
      BY <1>1, <1>3 DEF TypeOK
    <2> QED
      BY <1>3, <2>1 DEF Said
  <1>4. CASE k = j
    <2>1. Said(j, kinds)' => Said(j, kinds) \/ kind \in kinds
      BY <1>1, <1>2 DEF Said
    <2>2. Said(j, kinds) => Said(j, kinds)'
      BY <1>2 DEF Said
    <2>3. kind \in kinds => Said(j, kinds)'
      <3>1. Len(log[j]) + 1 \in 1 .. Len(log'[j])
        BY <1>2
      <3> QED
        BY <1>1, <1>2, <3>1 DEF Said
    <2> QED
      BY <1>4, <2>1, <2>2, <2>3
  <1> QED
    BY <1>3, <1>4

\* Where a step of the driver takes a call, and what the call holds then.
Moves(c, place, id, todo, data) ==
    call' = [call EXCEPT ![c] = [call[c] EXCEPT !.pc = place, !.id = id, !.todo = todo,
                                                !.data = data]]
Late == {"creating", "created", "loaded", "written", "reading", "describing", "listing",
         "uploading", "failed", "receipted"}

LEMMA DriverMoves ==
    ASSUME TypeOK, NEW c \in Callers, Driver(c) \/ Crash(c)
    PROVE  \E place \in Late \cup {"idle"} : \E id, todo, data :
              /\ Moves(c, place, id, todo, data)
              /\ place # "idle" => call[c].pc \in Late \cup {"begun"}
  <1>0. call[c] \in Call /\ c \in DOMAIN call
    BY DEF TypeOK
  <1>1. \A place : Goes(c, place) => Moves(c, place, call[c].id, call[c].todo, call[c].data)
    BY <1>0 DEF Goes, Call, Moves
  <1>2. CASE Crash(c)
    BY <1>1, <1>2 DEF Crash
  <1>3. CASE WriteRegistry(c) \/ ReplaceRegistry(c) \/ ReadDeposition(c) \/ Unanswered(c)
    <2>1. call[c].pc \in Late
      BY <1>3 DEF WriteRegistry, ReplaceRegistry, ReadDeposition, Unanswered, At, Late
    <2>2. \E place \in Late : Goes(c, place)
      BY <1>3 DEF WriteRegistry, ReplaceRegistry, ReadDeposition, Unanswered, Late
    <2> QED
      BY <1>1, <2>1, <2>2
  <1>4. CASE \E ok \in BOOLEAN : Describe(c, ok) \/ Publish(c, ok)
    <2>1. call[c].pc \in Late
      BY <1>4 DEF Describe, Publish, At, Late
    <2>2. \E place \in Late : Goes(c, place)
      BY <1>4 DEF Describe, Publish, Late
    <2> QED
      BY <1>1, <2>1, <2>2
  <1>5. CASE LookUp(c) \/ \E ok \in BOOLEAN : Create(c, ok)
    <2>1. call[c].pc \in Late \cup {"begun"}
      BY <1>5 DEF LookUp, Create, At, Late
    <2>2. \E place \in Late : \E id : call' = [call EXCEPT ![c].pc = place, ![c].id = id]
      BY <1>5 DEF LookUp, Create, Late
    <2>3. PICK place \in Late : \E id : call' = [call EXCEPT ![c].pc = place, ![c].id = id]
      BY <2>2
    <2>4. PICK id : call' = [call EXCEPT ![c].pc = place, ![c].id = id]
      BY <2>3
    <2>5. Moves(c, place, id, call[c].todo, call[c].data)
      BY <1>0, <2>4 DEF Moves, Call
    <2> QED
      BY <2>1, <2>5
  <1>6. CASE LoadRegistry(c)
    <2>1. call[c].pc \in Late /\ "loaded" \in Late
      BY <1>6 DEF LoadRegistry, At, Late
    <2>2. PICK data : call' = [call EXCEPT ![c].pc = "loaded", ![c].data = data]
      BY <1>6 DEF LoadRegistry
    <2>3. Moves(c, "loaded", call[c].id, call[c].todo, data)
      BY <1>0, <2>2 DEF Moves, Call
    <2> QED
      BY <2>1, <2>3
  <1>7. CASE ListUploaded(c) \/ \E ok \in BOOLEAN, p \in Paths : Upload(c, p, ok)
    <2>1. call[c].pc \in Late
      BY <1>7 DEF ListUploaded, Upload, At, Late
    <2>2. \E place \in Late : \E todo : call' = [call EXCEPT ![c].pc = place, ![c].todo = todo]
      BY <1>7 DEF ListUploaded, Upload, Late
    <2>3. PICK place \in Late :
             \E todo : call' = [call EXCEPT ![c].pc = place, ![c].todo = todo]
      BY <2>2
    <2>4. PICK todo : call' = [call EXCEPT ![c].pc = place, ![c].todo = todo]
      BY <2>3
    <2>5. Moves(c, place, call[c].id, todo, call[c].data)
      BY <1>0, <2>4 DEF Moves, Call
    <2> QED
      BY <2>1, <2>5
  <1> QED
    BY <1>2, <1>3, <1>4, <1>5, <1>6, <1>7 DEF Driver

\* The driver changes no log, nothing people decided, and of the call that
\* runs neither its job nor what it was asked to publish.
LEMMA DriverShape ==
    ASSUME TypeOK, NEW c \in Callers, Driver(c) \/ Crash(c)
    PROVE  /\ UNCHANGED <<log, excluded, record>>
           /\ \A d \in Callers \ {c} : call'[d] = call[d]
           /\ call'[c].job = call[c].job /\ call'[c].files = call[c].files
           /\ call'[c].record = call[c].record
           /\ call'[c].pc # "idle" => call[c].pc \notin Early /\ call'[c].pc \notin Early
  <1>1. UNCHANGED <<log, excluded, record>>
    BY DEF Driver, LookUp, LoadRegistry, WriteRegistry, ReplaceRegistry, ReadDeposition,
           ListUploaded, Create, Describe, Publish, Upload, Unanswered, Crash
  <1>2. PICK place \in Late \cup {"idle"} : \E id, todo, data :
           /\ Moves(c, place, id, todo, data)
           /\ place # "idle" => call[c].pc \in Late \cup {"begun"}
    BY DriverMoves
  <1>3. PICK id, todo, data : Moves(c, place, id, todo, data)
    BY <1>2
  <1>4. call[c] \in Call /\ c \in DOMAIN call
    BY DEF TypeOK
  <1>5. call'[c] = [call[c] EXCEPT !.pc = place, !.id = id, !.todo = todo, !.data = data]
    BY <1>3, <1>4 DEF Moves
  <1>6. /\ call'[c].job = call[c].job /\ call'[c].files = call[c].files
        /\ call'[c].record = call[c].record /\ call'[c].pc = place
    BY <1>4, <1>5 DEF Call
  <1>7. \A d \in Callers \ {c} : call'[d] = call[d]
    BY <1>3 DEF Moves, TypeOK
  <1> QED
    BY <1>1, <1>2, <1>6, <1>7 DEF Early, Late

\* What the driver does to the depositions: it makes one, or changes some.
Created(j) == [job |-> j, files |-> [n \in Names |-> Nothing], record |-> 0,
               published |-> FALSE]

LEMMA DriverGrows ==
    ASSUME IInv, NEW c \in Callers, Driver(c) \/ Crash(c)
    PROVE  /\ Grows
           /\ \/ Depositions' = Depositions
              \/ /\ At(c, "creating")
                 /\ zenodo' = Append(zenodo, Created(call[c].job))
  <1>0. TypeOK /\ CallSound(c) /\ DOMAIN zenodo = Depositions /\ Len(zenodo) \in Nat
    BY DEF IInv, TypeOK, Depositions
  <1>1. CASE \E ok \in BOOLEAN : Create(c, ok)
    BY <1>0, <1>1, CreateTypes DEF Create, Created
  <1>2. CASE \E ok \in BOOLEAN : \/ Describe(c, ok) \/ Publish(c, ok)
                                 \/ \E p \in Paths : Upload(c, p, ok)
    <2>1. PICK ok \in BOOLEAN : \/ Describe(c, ok) \/ Publish(c, ok)
                                \/ \E p \in Paths : Upload(c, p, ok)
      BY <1>2
    <2>2. call[c].id \in Depositions
      BY <1>0, <2>1 DEF CallSound, Describe, Publish, Upload, At, Holding
    <2>3. Grows
      BY <1>0, <2>1, <2>2, DescribeTypes, PublishTypes, UploadTypes
    <2>4. \E f : \E d : zenodo' = zenodo \/ zenodo' = [zenodo EXCEPT ![call[c].id] = d]
      <3>1. CASE Describe(c, ok)
        <4>1. zenodo' = zenodo \/ zenodo' = [zenodo EXCEPT ![call[c].id]
                                               = [zenodo[call[c].id] EXCEPT !.record = call[c].record]]
          BY <3>1 DEF Describe
        <4> QED
          BY <4>1
      <3>2. CASE Publish(c, ok)
        <4>1. zenodo' = [zenodo EXCEPT ![call[c].id]
                           = [zenodo[call[c].id] EXCEPT !.published = TRUE]]
          BY <3>2 DEF Publish
        <4> QED
          BY <4>1
      <3>3. CASE \E p \in Paths : Upload(c, p, ok)
        <4>1. PICK p \in Paths : Upload(c, p, ok)
          BY <3>3
        <4>2. zenodo' = zenodo \/ zenodo' = [zenodo EXCEPT ![call[c].id]
                                   = [zenodo[call[c].id] EXCEPT !.files[BaseName[p]] = p]]
          BY <4>1 DEF Upload
        <4> QED
          BY <4>2
      <3> QED
        BY <2>1, <3>1, <3>2, <3>3
    <2>5. Depositions' = Depositions
      BY <1>0, <2>4 DEF Depositions, IInv, TypeOK
    <2> QED
      BY <2>3, <2>5
  <1>3. CASE \/ LookUp(c) \/ LoadRegistry(c) \/ WriteRegistry(c) \/ ReplaceRegistry(c)
             \/ ReadDeposition(c) \/ ListUploaded(c) \/ Unanswered(c) \/ Crash(c)
    <2>1. zenodo' = zenodo
      BY <1>3 DEF LookUp, LoadRegistry, WriteRegistry, ReplaceRegistry, ReadDeposition,
                  ListUploaded, Unanswered, Crash
    <2> QED
      BY <1>0, <2>1, Unmoved DEF Depositions
  <1> QED
    BY <1>1, <1>2, <1>3 DEF Driver
-----------------------------------------------------------------------------
LEMMA MadeTypes ==
    ASSUME TypeOK
    PROVE  \A n \in Depositions : zenodo[n] \in Deposition /\ zenodo[n].job \in Jobs
  <1> TAKE n \in Depositions
  <1>1. zenodo[n] \in Deposition
    BY DEF TypeOK, Depositions
  <1> QED
    BY <1>1 DEF Deposition

\* A step that leaves the files of a job, and every call about it but one.
LEMMA ListedTogether ==
    ASSUME NEW j \in Jobs, JobListed(j), NEW c \in Callers, excluded'[j] = excluded[j],
           \A d \in Callers \ {c} : call'[d] = call[d],
           CallListed(c, j)',
           Said(j, {"started"}) => Said(j, {"started"})',
           Said(j, {"started"})' => ToUpload(j) # {},
           Depositions' = Depositions \/ Said(j, {"started"}) \/ ~\E n \in Depositions' :
                                                                 zenodo'[n].job = j,
           \A n \in Depositions : zenodo'[n].job = zenodo[n].job
    PROVE  JobListed(j)'
  <1>1. ToUpload(j)' = ToUpload(j)
    BY DEF ToUpload
  <1>2. \A d \in Callers \ {c} : CallListed(d, j)'
    BY <1>1 DEF JobListed, CallListed, At
  <1>3. \A n \in Depositions' : zenodo'[n].job = j => Said(j, {"started"})'
    BY DEF JobListed
  <1> QED
    BY <1>1, <1>2, <1>3 DEF JobListed

\* The files listed stay those not excluded, whatever step is taken.
LEMMA PeopleList ==
    ASSUME IInv, Listed, "exclude-late" \notin Courses,
           \E j \in Jobs : \/ \E p \in Paths : Exclude(j, p)
                           \/ Revise(j) \/ Settle(j)
    PROVE  Listed'
  <1>0. TypeOK
    BY DEF IInv
  <1>1. ASSUME NEW j \in Jobs, NEW p \in Paths, Exclude(j, p), NEW k \in Jobs
        PROVE  JobListed(k)'
    <2>1. /\ ~Said(j, {"started"}) /\ \A c \in Callers : call[c].job = j => At(c, "idle")
          /\ excluded' = [excluded EXCEPT ![j] = excluded[j] \cup {p}]
          /\ UNCHANGED <<log, zenodo, call>>
      BY <1>1 DEF Exclude, Untouched
    <2>2. /\ k # j => ToUpload(k)' = ToUpload(k)
          /\ k = j => ToUpload(k)' = ToUpload(k) \ {p}
      BY <1>0, <2>1 DEF ToUpload, TypeOK
    <2>3. \A kinds : Said(k, kinds)' <=> Said(k, kinds)
      BY <2>1 DEF Said
    <2>4. JobListed(k)
      BY DEF Listed
    <2>5. \A c \in Callers : CallListed(c, k)'
      BY <2>1, <2>2, <2>3, <2>4 DEF JobListed, CallListed, At
    <2> QED
      BY <2>1, <2>2, <2>3, <2>4, <2>5 DEF JobListed, Depositions
  <1>2. ASSUME NEW j \in Jobs, Revise(j) PROVE Listed'
    BY <1>2 DEF Revise, Listed, CallListed, JobListed, At, Said, ToUpload, Depositions
  <1>3. ASSUME NEW j \in Jobs, Settle(j), NEW k \in Jobs PROVE JobListed(k)'
    <2>1. /\ \A kinds : Said(k, kinds)' <=> Said(k, kinds) \/ (k = j /\ "reconciled" \in kinds)
          /\ UNCHANGED <<excluded, zenodo, call>>
      BY <1>0, <1>3, SaidLogged DEF Settle
    <2>2. (Said(k, {"started"})' <=> Said(k, {"started"})) /\ ToUpload(k)' = ToUpload(k)
      BY <2>1 DEF ToUpload
    <2>3. JobListed(k)
      BY DEF Listed
    <2> QED
      BY <2>1, <2>2, <2>3 DEF CallListed, JobListed, At, Depositions
  <1> QED
    BY <1>1, <1>2, <1>3 DEF Listed

LEMMA ReceiveLists ==
    ASSUME IInv, Listed, NEW c \in Callers, NEW i \in Jobs, Receive(c, i)
    PROVE  Listed'
  <1>0. TypeOK
    BY DEF IInv
  <1> SUFFICES ASSUME NEW j \in Jobs PROVE JobListed(j)'
    BY DEF Listed
  <1>1. /\ UNCHANGED <<log, excluded, zenodo>>
        /\ call' = [call EXCEPT ![c] = [Idle EXCEPT !.pc = "asked", !.job = i,
                                           !.files = ToUpload(i), !.record = record[i]]]
    BY DEF Receive
  <1>2. /\ call'[c].pc = "asked" /\ call'[c].job = i /\ call'[c].files = ToUpload(i)
        /\ \A d \in Callers \ {c} : call'[d] = call[d]
    BY <1>0, <1>1, IdleTypes DEF Call, TypeOK
  <1>3. \A kinds : Said(j, kinds)' <=> Said(j, kinds)
    BY <1>1 DEF Said
  <1>4. ToUpload(j)' = ToUpload(j) /\ Depositions' = Depositions
    BY <1>1 DEF ToUpload, Depositions
  <1>5. CallListed(c, j)'
    BY <1>2, <1>4 DEF CallListed, At, Early
  <1> QED
    BY <1>1, <1>2, <1>3, <1>4, <1>5, ListedTogether DEF Listed, JobListed

\* A step of the agent: what it logs, and where its call goes.
LEMMA AgentShape ==
    ASSUME TypeOK, NEW c \in Callers, Agent(c)
    PROVE  /\ UNCHANGED <<excluded, record, registry, tmp, zenodo>>
           /\ ~At(c, "idle")
           /\ \E place \in {"idle", "cleared", "begun", "completed"} :
                 /\ Goes(c, place)
                 /\ place = "cleared" => call[c].files # {}
                 /\ place # "idle" /\ At(c, "asked") => place = "cleared"
                 /\ \/ log' = log /\ (place = "idle" \/ place = "cleared")
                    \/ \E kind \in {"started", "failed", "completed", "deposited", "closed"} :
                          \E pid \in Nat :
                             /\ Logged(call[c].job, kind, pid)
                             /\ kind = "started" => At(c, "cleared")
                             /\ place # "idle" => kind = "started" \/ call[c].pc \notin Early
                             /\ place # "cleared"
  <1>0. call[c].id \in Nat
    BY DEF TypeOK, Call
  <1>1. CASE Refuse(c) \/ Clear(c)
    BY <1>1 DEF Refuse, Clear, At
  <1>2. CASE CloseUnshared(c)
    BY <1>2 DEF CloseUnshared, At
  <1>3. CASE Start(c)
    BY <1>3 DEF Start, At
  <1>4. CASE Fail(c)
    BY <1>4 DEF Fail, At
  <1>5. CASE Complete(c)
    BY <1>0, <1>5 DEF Complete, At, Early
  <1>6. CASE RecordDeposit(c)
    BY <1>0, <1>6 DEF RecordDeposit, At
  <1> QED
    BY <1>1, <1>2, <1>3, <1>4, <1>5, <1>6 DEF Agent

LEMMA AgentLists ==
    ASSUME IInv, Listed, NEW c \in Callers, Agent(c)
    PROVE  Listed'
  <1>0. TypeOK /\ c \in DOMAIN call /\ call[c] \in Call /\ call[c].job \in Jobs
    BY DEF IInv, TypeOK, Call
  <1>1. UNCHANGED <<excluded, zenodo>> /\ ~At(c, "idle")
    BY <1>0, AgentShape
  <1>2. PICK place \in {"idle", "cleared", "begun", "completed"} :
           /\ Goes(c, place)
           /\ place = "cleared" => call[c].files # {}
           /\ place # "idle" /\ At(c, "asked") => place = "cleared"
           /\ \/ log' = log /\ (place = "idle" \/ place = "cleared")
              \/ \E kind \in {"started", "failed", "completed", "deposited", "closed"} :
                    \E pid \in Nat :
                       /\ Logged(call[c].job, kind, pid)
                       /\ kind = "started" => At(c, "cleared")
                       /\ place # "idle" => kind = "started" \/ call[c].pc \notin Early
                       /\ place # "cleared"
    BY <1>0, AgentShape
  <1>3. /\ call'[c].pc = place /\ call'[c].job = call[c].job
        /\ call'[c].files = call[c].files
        /\ \A d \in Callers \ {c} : call'[d] = call[d]
    BY <1>0, <1>2 DEF Goes, Call, TypeOK
  <1> SUFFICES ASSUME NEW j \in Jobs PROVE JobListed(j)'
    BY DEF Listed
  <1>4. /\ ToUpload(j)' = ToUpload(j) /\ Depositions' = Depositions
        /\ JobListed(j) /\ CallListed(c, j)
    BY <1>1 DEF ToUpload, Depositions, Listed, JobListed
  <1>5. CASE log' = log /\ (place = "idle" \/ place = "cleared")
    <2>1. \A kinds : Said(j, kinds)' <=> Said(j, kinds)
      BY <1>5 DEF Said
    <2>2. CallListed(c, j)'
      BY <1>1, <1>2, <1>3, <1>4, <1>5 DEF CallListed, At, Early
    <2> QED
      BY <1>1, <1>3, <1>4, <2>1, <2>2, ListedTogether DEF JobListed
  <1>6. ASSUME NEW kind \in {"started", "failed", "completed", "deposited", "closed"},
               NEW pid \in Nat, Logged(call[c].job, kind, pid),
               kind = "started" => At(c, "cleared"),
               place # "idle" => kind = "started" \/ call[c].pc \notin Early,
               place # "cleared"
        PROVE  JobListed(j)'
    <2>1. \A kinds : Said(j, kinds)' <=> Said(j, kinds) \/ (j = call[c].job /\ kind \in kinds)
      BY <1>0, <1>6, SaidLogged
    <2>2. Said(j, {"started"})' <=>
                Said(j, {"started"}) \/ (j = call[c].job /\ kind = "started")
      BY <2>1
    <2>3. call[c].job = j => /\ call[c].files = ToUpload(j)
                             /\ ~At(c, "asked") => call[c].files # {}
                             /\ call[c].pc \notin Early => Said(j, {"started"})
      BY <1>1, <1>4 DEF CallListed
    <2>4. CallListed(c, j)'
      BY <1>2, <1>3, <1>4, <1>6, <2>2, <2>3 DEF CallListed, At, Early
    <2>5. Said(j, {"started"})' => ToUpload(j) # {}
      BY <1>4, <1>6, <2>2, <2>3 DEF JobListed, At
    <2> QED
      BY <1>1, <1>3, <1>4, <2>2, <2>4, <2>5, ListedTogether
  <1> QED
    BY <1>2, <1>5, <1>6

LEMMA DriverLists ==
    ASSUME IInv, Listed, NEW c \in Callers, Driver(c) \/ Crash(c)
    PROVE  Listed'
  <1>0. TypeOK
    BY DEF IInv
  <1>1. /\ UNCHANGED <<log, excluded>>
        /\ \A d \in Callers \ {c} : call'[d] = call[d]
        /\ call'[c].job = call[c].job /\ call'[c].files = call[c].files
        /\ call'[c].pc # "idle" => call[c].pc \notin Early /\ call'[c].pc \notin Early
    BY <1>0, DriverShape
  <1> SUFFICES ASSUME NEW j \in Jobs PROVE JobListed(j)'
    BY DEF Listed
  <1>2. \A kinds : Said(j, kinds)' <=> Said(j, kinds)
    BY <1>1 DEF Said
  <1>3. /\ ToUpload(j)' = ToUpload(j) /\ JobListed(j) /\ CallListed(c, j)
    BY <1>1 DEF ToUpload, Listed, JobListed
  <1>4. CallListed(c, j)'
    BY <1>1, <1>2, <1>3 DEF CallListed, At, Early
  <1>5. /\ Grows
        /\ \/ Depositions' = Depositions
           \/ /\ At(c, "creating")
              /\ zenodo' = Append(zenodo, Created(call[c].job))
    BY DriverGrows
  <1>6. Depositions' = Depositions \/ Said(j, {"started"}) \/ ~\E n \in Depositions' :
                                                                zenodo'[n].job = j
    <2>1. ASSUME At(c, "creating"), zenodo' = Append(zenodo, Created(call[c].job)),
                 NEW n \in Depositions', zenodo'[n].job = j
          PROVE  Said(j, {"started"})
      <3>1. zenodo \in Seq(Deposition) /\ Len(zenodo) \in Nat
        BY <1>0 DEF TypeOK
      <3>2. CASE n \in Depositions
        <4>1. zenodo[n].job = j
          BY <1>5, <2>1, <3>2 DEF Grows
        <4> QED
          BY <1>3, <3>2, <4>1 DEF JobListed
      <3>3. CASE n \notin Depositions
        <4>1. zenodo'[n] = Created(call[c].job)
          BY <2>1, <3>1, <3>3 DEF Depositions
        <4>2. Created(call[c].job).job = call[c].job
          BY DEF Created
        <4>3. call[c].job = j
          BY <2>1, <4>1, <4>2
        <4> QED
          BY <1>3, <2>1, <4>3 DEF CallListed, At, Early
      <3> QED
        BY <3>2, <3>3
    <2> QED
      BY <1>5, <2>1
  <1> QED
    BY <1>1, <1>2, <1>3, <1>4, <1>5, <1>6, ListedTogether DEF JobListed, Grows

LEMMA StutterLists == Listed /\ UNCHANGED vars => Listed'
  BY DEF vars, Listed, CallListed, JobListed, At, Said, ToUpload, Depositions

LEMMA ListedFirst == Init => Listed
  <1> SUFFICES ASSUME Init, NEW j \in Jobs PROVE JobListed(j)
    BY DEF Listed
  <1>1. \A c \in Callers : call[c].pc = "idle"
    BY DEF Init, Idle
  <1>2. Len(log[j]) = 0 /\ Depositions = {}
    BY DEF Init, Depositions
  <1> QED
    BY <1>1, <1>2 DEF CallListed, JobListed, At, Said

LEMMA ListedAlways == "exclude-late" \notin Courses => (Spec => []Listed)
  <1> SUFFICES ASSUME "exclude-late" \notin Courses PROVE Spec => []Listed
    OBVIOUS
  <1>1. IInv /\ Listed /\ [Next]_vars => Listed'
    BY PeopleList, ReceiveLists, AgentLists, DriverLists, StutterLists DEF Next
  <1> QED
    BY <1>1, ListedFirst, Invariance, PTL DEF Spec
-----------------------------------------------------------------------------
(* One call at a time leaves a job one record: the registry names every    *)
(* deposition that is published, and a call creates one only for a job the *)
(* registry names none for, until it has put its entry there.              *)

Serial == "double" \notin Courses /\ "together" \notin Courses

Alone == \A c, d \in Callers : c # d => At(c, "idle") \/ At(d, "idle")

Owned == \A n \in Depositions : zenodo[n].published => registry[zenodo[n].job] = n

\* What a call knows of the registry while it drives the repository.
CallOne(c) ==
    /\ call[c].pc \in {"creating", "created", "loaded", "written"} =>
          registry[call[c].job] = Nothing
    /\ At(c, "loaded") \/ At(c, "written") =>
          call[c].data = [registry EXCEPT ![call[c].job] = call[c].id]
    /\ At(c, "written") => tmp = call[c].data
    /\ call[c].pc \in {"reading", "describing", "listing", "uploading"} =>
          registry[call[c].job] = call[c].id

OneInv == Alone /\ Owned /\ \A c \in Callers : CallOne(c)

\* Only the publish request makes anything public.
LEMMA PublicKept ==
    ASSUME IInv, NEW c \in Callers, Driver(c) \/ Crash(c),
           ~\E ok \in BOOLEAN : Publish(c, ok)
    PROVE  \A n \in Depositions' : zenodo'[n].published =>
              /\ n \in Depositions /\ zenodo[n].published
              /\ zenodo'[n].job = zenodo[n].job
  <1>0. /\ TypeOK /\ CallSound(c) /\ Len(zenodo) \in Nat /\ zenodo \in Seq(Deposition)
        /\ \A n \in Depositions : zenodo[n] \in Deposition
    BY DEF IInv, TypeOK, Depositions
  <1>1. CASE \E ok \in BOOLEAN : Create(c, ok)
    <2>1. zenodo' = Append(zenodo, Created(call[c].job))
      BY <1>1 DEF Create, Created
    <2>2. Created(call[c].job).published = FALSE
      BY DEF Created
    <2>3. /\ \A n \in Depositions : zenodo'[n] = zenodo[n]
          /\ \A n \in Depositions' \ Depositions : zenodo'[n] = Created(call[c].job)
      BY <1>0, <2>1 DEF Depositions
    <2> QED
      BY <2>2, <2>3
  <1>2. CASE \E ok \in BOOLEAN : Describe(c, ok)
    <2>1. call[c].id \in Depositions
      BY <1>0, <1>2 DEF CallSound, Describe, At, Holding
    <2>2. \/ zenodo' = zenodo
          \/ zenodo' = [zenodo EXCEPT ![call[c].id]
                          = [zenodo[call[c].id] EXCEPT !.record = call[c].record]]
      BY <1>2 DEF Describe
    <2> DEFINE d == [zenodo[call[c].id] EXCEPT !.record = call[c].record]
    <2>3. d.published = zenodo[call[c].id].published /\ d.job = zenodo[call[c].id].job
      BY <1>0, <2>1 DEF Deposition
    <2>4. zenodo' = zenodo \/ zenodo' = [zenodo EXCEPT ![call[c].id] = d]
      BY <2>2
    <2> HIDE DEF d
    <2> QED
      BY <1>0, <2>1, <2>3, <2>4 DEF Depositions
  <1>3. CASE \E ok \in BOOLEAN, p \in Paths : Upload(c, p, ok)
    <2>1. PICK ok \in BOOLEAN, p \in Paths : Upload(c, p, ok)
      BY <1>3
    <2>2. call[c].id \in Depositions
      BY <1>0, <2>1 DEF CallSound, Upload, At, Holding
    <2> DEFINE d == [zenodo[call[c].id] EXCEPT !.files[BaseName[p]] = p]
    <2>3. d.published = zenodo[call[c].id].published /\ d.job = zenodo[call[c].id].job
      BY <1>0, <2>2 DEF Deposition
    <2>4. zenodo' = zenodo \/ zenodo' = [zenodo EXCEPT ![call[c].id] = d]
      BY <2>1 DEF Upload
    <2> HIDE DEF d
    <2> QED
      BY <1>0, <2>2, <2>3, <2>4 DEF Depositions
  <1>4. CASE \/ LookUp(c) \/ LoadRegistry(c) \/ WriteRegistry(c) \/ ReplaceRegistry(c)
             \/ ReadDeposition(c) \/ ListUploaded(c) \/ Unanswered(c) \/ Crash(c)
    <2>1. zenodo' = zenodo
      BY <1>4 DEF LookUp, LoadRegistry, WriteRegistry, ReplaceRegistry, ReadDeposition,
                  ListUploaded, Unanswered, Crash
    <2> QED
      BY <1>0, <2>1 DEF Depositions
  <1> QED
    BY <1>1, <1>2, <1>3, <1>4 DEF Driver

\* Where the two steps lead that set both the place and the identifier.
LEMMA CreatePlaces ==
    ASSUME TypeOK, NEW c \in Callers, \E ok \in BOOLEAN : Create(c, ok)
    PROVE  call'[c].pc \in {"created", "failed"} /\ call'[c].job = call[c].job
  <1>0. call[c] \in Call /\ c \in DOMAIN call
    BY DEF TypeOK
  <1>1. PICK ok \in BOOLEAN : Create(c, ok)
    OBVIOUS
  <1>2. \E place \in {"created", "failed"} : \E id :
           call' = [call EXCEPT ![c].pc = place, ![c].id = id]
    BY <1>1 DEF Create
  <1> QED
    BY <1>0, <1>2 DEF Call

LEMMA LookUpPlaces ==
    ASSUME TypeOK, NEW c \in Callers, LookUp(c)
    PROVE  /\ call'[c].pc \in {"creating", "reading"} /\ call'[c].job = call[c].job
           /\ registry[call[c].job] = Nothing => call'[c].pc = "creating"
           /\ registry[call[c].job] # Nothing =>
                 call'[c].pc = "reading" /\ call'[c].id = registry[call[c].job]
  <1>0. call[c] \in Call /\ c \in DOMAIN call
    BY DEF TypeOK
  <1>1. CASE registry[call[c].job] = Nothing
    <2>1. call' = [call EXCEPT ![c].pc = "creating", ![c].id = 0]
      BY <1>1 DEF LookUp
    <2> QED
      BY <1>0, <1>1, <2>1 DEF Call
  <1>2. CASE registry[call[c].job] # Nothing
    <2>1. call' = [call EXCEPT ![c].pc = "reading", ![c].id = registry[call[c].job]]
      BY <1>2 DEF LookUp
    <2> QED
      BY <1>0, <1>2, <2>1 DEF Call
  <1> QED
    BY <1>1, <1>2

\* One call has moved while the others do nothing.
LEMMA OneTogether ==
    ASSUME NEW c \in Callers, \A d \in Callers \ {c} : call'[d].pc = "idle",
           CallOne(c)', Owned'
    PROVE  OneInv'
  <1>1. \A d \in Callers \ {c} : CallOne(d)'
    BY DEF CallOne, At
  <1> QED
    BY <1>1 DEF OneInv, Alone, At

LEMMA PublishOwns ==
    ASSUME IInv, Owned, NEW c \in Callers, NEW ok \in BOOLEAN, Publish(c, ok), CallOne(c)
    PROVE  Owned'
  <1>0. /\ TypeOK /\ CallSound(c) /\ Len(zenodo) \in Nat /\ zenodo \in Seq(Deposition)
        /\ \A n \in Depositions : zenodo[n] \in Deposition
    BY DEF IInv, TypeOK, Depositions
  <1> DEFINE d == [zenodo[call[c].id] EXCEPT !.published = TRUE]
  <1>1. /\ call[c].id \in Depositions /\ zenodo[call[c].id].job = call[c].job
        /\ registry[call[c].job] = call[c].id /\ registry' = registry
    BY <1>0 DEF CallSound, CallOne, Publish, At, Holding
  <1>2. d.job = zenodo[call[c].id].job
    BY <1>0, <1>1 DEF Deposition
  <1>3. zenodo' = [zenodo EXCEPT ![call[c].id] = d]
    BY DEF Publish
  <1> HIDE DEF d
  <1>4. /\ Depositions' = Depositions /\ zenodo'[call[c].id] = d
        /\ \A n \in Depositions \ {call[c].id} : zenodo'[n] = zenodo[n]
    BY <1>0, <1>1, <1>3 DEF Depositions
  <1> QED
    BY <1>1, <1>2, <1>4 DEF Owned

LEMMA DriverOne ==
    ASSUME IInv, OneInv, NEW c \in Callers, Driver(c) \/ Crash(c)
    PROVE  CallOne(c)' /\ Owned'
  <1>0. /\ TypeOK /\ CallOne(c) /\ Owned /\ c \in DOMAIN call /\ call[c] \in Call
        /\ call[c].job \in Jobs /\ DOMAIN registry = Jobs /\ registry \in Registry
    BY DEF IInv, TypeOK, OneInv, Call, Registry
  <1>1. \A place : Goes(c, place) => /\ call'[c].pc = place /\ call'[c].job = call[c].job
                                     /\ call'[c].id = call[c].id
                                     /\ call'[c].data = call[c].data
    BY <1>0 DEF Goes, Call
  <1>2. \A n \in Depositions : zenodo[n].job \in Jobs /\ n # Nothing
    BY <1>0, MadeTypes, Constants DEF Depositions
  <1>3. ASSUME registry' = registry, ~\E ok \in BOOLEAN : Publish(c, ok) PROVE Owned'
    BY <1>0, <1>3, PublicKept DEF Owned
  <1>4. CASE LookUp(c)
    <2>1. /\ ~\E ok \in BOOLEAN : Publish(c, ok)
          /\ registry' = registry
      BY <1>4 DEF LookUp, Publish, At
    <2>2. /\ call'[c].job = call[c].job
          /\ registry[call[c].job] = Nothing => call'[c].pc = "creating"
          /\ registry[call[c].job] # Nothing =>
                call'[c].pc = "reading" /\ call'[c].id = registry[call[c].job]
      BY <1>0, <1>4, LookUpPlaces
    <2> QED
      BY <1>3, <2>1, <2>2 DEF CallOne, At
  <1>5. CASE \E ok \in BOOLEAN : Create(c, ok)
    <2>1. /\ ~\E ok \in BOOLEAN : Publish(c, ok)
          /\ registry' = registry /\ At(c, "creating")
      BY <1>5 DEF Create, Publish, At
    <2>2. call'[c].pc \in {"created", "failed"} /\ call'[c].job = call[c].job
      BY <1>0, <1>5, CreatePlaces
    <2> QED
      BY <1>0, <1>3, <2>1, <2>2 DEF CallOne, At
  <1>6. CASE LoadRegistry(c)
    <2>1. /\ ~\E ok \in BOOLEAN : Publish(c, ok)
          /\ registry' = registry /\ At(c, "created")
      BY <1>6 DEF LoadRegistry, Publish, At
    <2>2. /\ call'[c].pc = "loaded" /\ call'[c].job = call[c].job
          /\ call'[c].id = call[c].id
          /\ call'[c].data = [registry EXCEPT ![call[c].job] = call[c].id]
      BY <1>0, <1>6 DEF LoadRegistry, Call
    <2> QED
      BY <1>0, <1>3, <2>1, <2>2 DEF CallOne, At
  <1>7. CASE WriteRegistry(c)
    <2>1. /\ ~\E ok \in BOOLEAN : Publish(c, ok)
          /\ registry' = registry /\ At(c, "loaded") /\ tmp' = call[c].data
          /\ Goes(c, "written")
      BY <1>7 DEF WriteRegistry, Publish, At
    <2>2. /\ call'[c].pc = "written" /\ call'[c].job = call[c].job
          /\ call'[c].id = call[c].id /\ call'[c].data = call[c].data
      BY <1>1, <2>1
    <2>3. /\ registry[call[c].job] = Nothing
          /\ call[c].data = [registry EXCEPT ![call[c].job] = call[c].id]
      BY <1>0, <2>1 DEF CallOne, At
    <2>4. CallOne(c)'
      BY <2>1, <2>2, <2>3 DEF CallOne, At
    <2> QED
      BY <1>3, <2>1, <2>4
  <1>8. CASE ReplaceRegistry(c)
    <2>1. /\ tmp = [registry EXCEPT ![call[c].job] = call[c].id]
          /\ registry[call[c].job] = Nothing /\ tmp # Nothing
      <3>1. call[c].data \in Registry
        BY <1>0 DEF Call
      <3> QED
        BY <1>0, <1>8, <3>1, Constants DEF ReplaceRegistry, CallOne, At
    <2>2. registry' = tmp /\ Goes(c, "reading")
      BY <1>8, <2>1 DEF ReplaceRegistry
    <2>3. ~\E ok \in BOOLEAN : Publish(c, ok)
      BY <1>8 DEF ReplaceRegistry, Publish, At
    <2>4. /\ registry'[call[c].job] = call[c].id
          /\ \A j \in Jobs \ {call[c].job} : registry'[j] = registry[j]
      BY <1>0, <2>1, <2>2
    <2>5. Owned'
      BY <1>0, <1>2, <2>1, <2>3, <2>4, PublicKept DEF Owned
    <2> QED
      BY <1>1, <2>2, <2>4, <2>5 DEF CallOne, At
  <1>9. CASE ReadDeposition(c)
    <2>1. /\ ~\E ok \in BOOLEAN : Publish(c, ok)
          /\ registry' = registry /\ At(c, "reading")
          /\ Goes(c, "receipted") \/ Goes(c, "describing")
      BY <1>9 DEF ReadDeposition, Publish, At
    <2> QED
      BY <1>0, <1>1, <1>3, <2>1 DEF CallOne, At
  <1>10. CASE \E ok \in BOOLEAN : Describe(c, ok)
    <2>1. /\ ~\E ok \in BOOLEAN : Publish(c, ok)
          /\ registry' = registry /\ At(c, "describing")
          /\ Goes(c, "listing") \/ Goes(c, "failed")
      BY <1>10 DEF Describe, Publish, At
    <2> QED
      BY <1>0, <1>1, <1>3, <2>1 DEF CallOne, At
  <1>11. CASE ListUploaded(c)
    <2>1. /\ ~\E ok \in BOOLEAN : Publish(c, ok)
          /\ registry' = registry /\ At(c, "listing")
      BY <1>11 DEF ListUploaded, Publish, At
    <2>2. /\ call'[c].pc = "uploading" /\ call'[c].job = call[c].job
          /\ call'[c].id = call[c].id
      BY <1>0, <1>11 DEF ListUploaded, Call
    <2> QED
      BY <1>0, <1>3, <2>1, <2>2 DEF CallOne, At
  <1>12. CASE \E ok \in BOOLEAN, p \in Paths : Upload(c, p, ok)
    <2>1. PICK ok \in BOOLEAN, p \in Paths : Upload(c, p, ok)
      BY <1>12
    <2>2. registry' = registry /\ At(c, "uploading") /\ call[c].todo # {}
      BY <2>1 DEF Upload
    <2>3. /\ call'[c].pc \in {"uploading", "failed"} /\ call'[c].job = call[c].job
          /\ call'[c].id = call[c].id
      BY <1>0, <2>1 DEF Upload, Call
    <2>4. ~\E answered \in BOOLEAN : Publish(c, answered)
      BY <2>2 DEF Publish
    <2> QED
      BY <1>0, <1>3, <2>2, <2>3, <2>4 DEF CallOne, At
  <1>13. CASE \E ok \in BOOLEAN : Publish(c, ok)
    <2>1. PICK ok \in BOOLEAN : Publish(c, ok)
      BY <1>13
    <2>2. Goes(c, "receipted") \/ Goes(c, "failed")
      BY <2>1 DEF Publish
    <2>3. Owned'
      BY <1>0, <2>1, PublishOwns
    <2>4. call'[c].pc = "receipted" \/ call'[c].pc = "failed"
      BY <1>1, <2>2
    <2> QED
      BY <2>3, <2>4 DEF CallOne, At
  <1>14. CASE Unanswered(c) \/ Crash(c)
    <2>1. /\ registry' = registry /\ zenodo' = zenodo
          /\ Goes(c, "failed") \/ Goes(c, "idle")
      BY <1>14 DEF Unanswered, Crash
    <2>2. Owned'
      BY <1>0, <2>1 DEF Owned, Depositions
    <2> QED
      BY <1>1, <2>1, <2>2 DEF CallOne, At
  <1> QED
    BY <1>4, <1>5, <1>6, <1>7, <1>8, <1>9, <1>10, <1>11, <1>12, <1>13, <1>14 DEF Driver

LEMMA OneKept ==
    ASSUME Serial, IInv, OneInv, [Next]_vars
    PROVE  OneInv'
  <1>0. TypeOK
    BY DEF IInv
  <1>1. ASSUME NEW c \in Callers, ~At(c, "idle"),
               \A d \in Callers \ {c} : call'[d] = call[d],
               CallOne(c)', Owned'
        PROVE  OneInv'
    <2>1. \A d \in Callers \ {c} : call'[d].pc = "idle"
      BY <1>1 DEF OneInv, Alone, At
    <2> QED
      BY <1>1, <2>1, OneTogether
  <1>2. ASSUME registry' = registry, zenodo' = zenodo PROVE Owned'
    BY <1>2 DEF OneInv, Owned, Depositions
  <1>3. ASSUME NEW c \in Callers, NEW j \in Jobs, Receive(c, j) PROVE OneInv'
    <2>1. /\ \A d \in Callers \ {c} : At(d, "idle") /\ call'[d] = call[d]
          /\ UNCHANGED <<registry, zenodo>>
      BY <1>0, <1>3 DEF Receive, Serial, TypeOK
    <2>2. call'[c].pc = "asked"
      BY <1>0, <1>3, IdleTypes DEF Receive, TypeOK, Call
    <2>3. CallOne(c)'
      BY <2>2 DEF CallOne, At
    <2> QED
      BY <1>2, <2>1, <2>3, OneTogether DEF At
  <1>4. ASSUME NEW c \in Callers, Agent(c) PROVE OneInv'
    <2>1. PICK place \in {"idle", "cleared", "begun", "completed"} : Goes(c, place)
      BY <1>0, <1>4, AgentShape
    <2>2. UNCHANGED <<registry, zenodo>> /\ ~At(c, "idle")
      BY <1>0, <1>4, AgentShape
    <2>3. call'[c].pc = place /\ \A d \in Callers \ {c} : call'[d] = call[d]
      BY <1>0, <2>1 DEF Goes, TypeOK, Call
    <2>4. CallOne(c)'
      BY <2>3 DEF CallOne, At
    <2> QED
      BY <1>1, <1>2, <2>2, <2>3, <2>4
  <1>5. ASSUME NEW c \in Callers, Driver(c) \/ Crash(c) PROVE OneInv'
    <2>1. ~At(c, "idle")
      BY <1>5 DEF At, Driver, LookUp, LoadRegistry, WriteRegistry, ReplaceRegistry,
                  ReadDeposition, ListUploaded, Create, Describe, Publish, Upload,
                  Unanswered, Crash
    <2> QED
      BY <1>0, <1>1, <1>5, <2>1, DriverShape, DriverOne
  <1>6. CASE \/ \E j \in Jobs : \/ \E p \in Paths : Exclude(j, p)
                                \/ Revise(j) \/ Settle(j)
             \/ UNCHANGED vars
    <2>1. UNCHANGED <<call, registry, tmp, zenodo>>
      BY <1>6 DEF Exclude, Revise, Settle, vars
    <2> QED
      BY <1>2, <2>1 DEF OneInv, Alone, CallOne, At
  <1> QED
    BY <1>3, <1>4, <1>5, <1>6 DEF Next

\* A job has one published record and no more, whatever dies, is refused or goes
\* unanswered in between, and however often it is asked for: as long as one call
\* is made at a time.  Two at once are what the driver does not guard against.
THEOREM OneAtATime == Serial => (Spec => []OneRecord)
  <1> SUFFICES ASSUME Serial PROVE Spec => []OneRecord
    OBVIOUS
  <1>1. Init => OneInv
    <2> SUFFICES ASSUME Init PROVE OneInv
      OBVIOUS
    <2>1. \A c \in Callers : call[c].pc = "idle"
      BY DEF Init, Idle
    <2>2. Depositions = {}
      BY DEF Init, Depositions
    <2> QED
      BY <2>1, <2>2 DEF OneInv, Alone, Owned, CallOne, At
  <1>2. OneInv => OneRecord
    BY DEF OneInv, Owned, OneRecord
  <1> QED
    BY <1>1, <1>2, OneKept, Invariance, PTL DEF Spec
-----------------------------------------------------------------------------
(* What is reviewed is what is published: a deposition holds files of its  *)
(* job that are not excluded, each under its name, and a published one all *)
(* of them and the record of the job.                                      *)

\* Nothing a person decides changes once an attempt has begun, and no two
\* artefacts are uploaded under one name.
Settled == "exclude-late" \notin Courses /\ "revise-late" \notin Courses
NamesDiffer == \A p, q \in Paths : BaseName[p] = BaseName[q] => p = q

Fit(d, j) ==
    /\ \A m \in Names : d.files[m] # Nothing =>
          d.files[m] \in ToUpload(j) /\ BaseName[d.files[m]] = m
    /\ d.published => /\ d.record = record[j]
                      /\ \A p \in ToUpload(j) : d.files[BaseName[p]] # Nothing

\* A call holds the record of its job; what it describes has it, and what it
\* does not still upload is there.
CallReviewed(c, j) ==
    call[c].job = j =>
       /\ ~At(c, "idle") => call[c].record = record[j]
       /\ \A n \in Depositions : call[c].id = n =>
             /\ At(c, "listing") \/ At(c, "uploading") => zenodo[n].record = record[j]
             /\ At(c, "uploading") =>
                   /\ call[c].todo \subseteq call[c].files
                   /\ \A p \in call[c].files \ call[c].todo :
                         zenodo[n].files[BaseName[p]] # Nothing

JobReviewed(j) == /\ \A n \in Depositions : zenodo[n].job = j => Fit(zenodo[n], j)
                  /\ \A c \in Callers : CallReviewed(c, j)

Reviewed == \A j \in Jobs : JobReviewed(j)

\* What the edits of a deposition of a job leave of it.
LEMMA FitDescribed ==
    ASSUME NEW j \in Jobs, NEW d \in Deposition, Fit(d, j), ~d.published, NEW r
    PROVE  Fit([d EXCEPT !.record = r], j)
  BY DEF Deposition, Fit

LEMMA FitUploaded ==
    ASSUME NEW j \in Jobs, NEW d \in Deposition, Fit(d, j), ~d.published,
           NEW p \in ToUpload(j), NEW e, e = [d EXCEPT !.files[BaseName[p]] = p]
    PROVE  /\ Fit(e, j)
           /\ e.files[BaseName[p]] = p /\ e.record = d.record
           /\ \A m \in Names \ {BaseName[p]} : e.files[m] = d.files[m]
  <1>1. p \in Paths /\ BaseName[p] \in Names
    BY Constants DEF ToUpload
  <1>2. /\ e.published = d.published /\ e.record = d.record
        /\ e.files[BaseName[p]] = p
        /\ \A m \in Names \ {BaseName[p]} : e.files[m] = d.files[m]
    BY <1>1 DEF Deposition
  <1> QED
    BY <1>1, <1>2 DEF Fit

\* What no step of the driver undoes: a file that is there, and the record.
Keeps == \A n \in Depositions :
            /\ \A m \in Names : zenodo[n].files[m] # Nothing => zenodo'[n].files[m] # Nothing
            /\ zenodo[n].record = record[zenodo[n].job] =>
                  zenodo'[n].record = record[zenodo[n].job]

\* Depositions after a step each fit the job they belong to.
FitNext == \A n \in 1 .. Len(zenodo') : \A j \in Jobs :
              zenodo'[n].job = j => Fit(zenodo'[n], j)

LEMMA EditFits ==
    ASSUME TypeOK, Reviewed, NEW i \in Depositions, NEW e, e.job = zenodo[i].job,
           \A j \in Jobs : e.job = j => Fit(e, j),
           \A m \in Names : zenodo[i].files[m] # Nothing => e.files[m] # Nothing,
           zenodo[i].record = record[zenodo[i].job] => e.record = record[zenodo[i].job],
           Len(zenodo') = Len(zenodo), zenodo'[i] = e,
           \A n \in Depositions \ {i} : zenodo'[n] = zenodo[n]
    PROVE  FitNext /\ Keeps
  <1>2. FitNext
    BY DEF FitNext, Reviewed, JobReviewed, Depositions
  <1>3. Keeps
    BY DEF Keeps
  <1> QED
    BY <1>2, <1>3

LEMMA NoEditFits ==
    ASSUME Reviewed, zenodo' = zenodo
    PROVE  FitNext /\ Keeps
  BY DEF FitNext, Keeps, Reviewed, JobReviewed, Depositions

LEMMA CreateFits ==
    ASSUME TypeOK, Reviewed, NEW k \in Jobs, zenodo' = Append(zenodo, Created(k))
    PROVE  FitNext /\ Keeps
  <1>1. \A j \in Jobs : Fit(Created(k), j)
    BY DEF Fit, Created
  <1>2. zenodo \in Seq(Deposition) /\ Len(zenodo) \in Nat
    BY DEF TypeOK
  <1>3. /\ \A n \in Depositions : zenodo'[n] = zenodo[n]
        /\ \A n \in 1 .. Len(zenodo') : n \notin Depositions => zenodo'[n] = Created(k)
    BY <1>2 DEF Depositions
  <1>4. FitNext
    BY <1>1, <1>3 DEF FitNext, Reviewed, JobReviewed
  <1> QED
    BY <1>3, <1>4 DEF Keeps

LEMMA DriverFits ==
    ASSUME IInv, Listed, Reviewed, NEW c \in Callers, Driver(c) \/ Crash(c)
    PROVE  FitNext /\ Keeps
  <1>0. /\ TypeOK /\ CallSound(c) /\ call[c].job \in Jobs
        /\ \A n \in Depositions : zenodo[n] \in Deposition
    BY DEF IInv, TypeOK, Call, Depositions
  <1> DEFINE j == call[c].job
             i == call[c].id
  <1>1. ASSUME At(c, "describing") \/ At(c, "uploading")
        PROVE  /\ i \in Depositions /\ zenodo[i].job = j /\ zenodo[i] \in Deposition
               /\ Fit(zenodo[i], j) /\ call[c].files = ToUpload(j)
               /\ call[c].record = record[j]
               /\ At(c, "uploading") => zenodo[i].record = record[j]
    <2>1. i \in Depositions /\ zenodo[i].job = j /\ zenodo[i] \in Deposition
      BY <1>0, <1>1 DEF CallSound, At, Holding
    <2>2. CallListed(c, j) /\ CallReviewed(c, j) /\ Fit(zenodo[i], j)
      BY <1>0, <2>1 DEF Listed, JobListed, Reviewed, JobReviewed
    <2> QED
      BY <1>1, <2>1, <2>2 DEF CallListed, CallReviewed, At
  <1>2. CASE \E ok \in BOOLEAN : Create(c, ok)
    <2>1. zenodo' = Append(zenodo, Created(j))
      BY <1>2 DEF Create, Created
    <2> QED
      BY <1>0, <2>1, CreateFits
  <1>3. CASE \E ok \in BOOLEAN : Describe(c, ok)
    <2>1. \/ zenodo' = zenodo
          \/ /\ ~zenodo[i].published
             /\ zenodo' = [zenodo EXCEPT ![i] = [zenodo[i] EXCEPT !.record = call[c].record]]
      BY <1>3 DEF Describe, The
    <2>2. At(c, "describing")
      BY <1>3 DEF Describe
    <2>3. CASE /\ ~zenodo[i].published
               /\ zenodo' = [zenodo EXCEPT ![i] = [zenodo[i] EXCEPT !.record = call[c].record]]
      <3> DEFINE e == [zenodo[i] EXCEPT !.record = call[c].record]
      <3>1. e.job = zenodo[i].job /\ e.files = zenodo[i].files /\ e.record = record[j]
        BY <1>1, <2>2 DEF Deposition
      <3>2. Fit(e, j)
        BY <1>0, <1>1, <2>2, <2>3, FitDescribed
      <3>3. zenodo' = [zenodo EXCEPT ![i] = e]
        BY <2>3
      <3> HIDE DEF e
      <3>4. /\ \A k \in Jobs : e.job = k => Fit(e, k)
            /\ zenodo[i].record = record[zenodo[i].job] => e.record = record[zenodo[i].job]
        BY <1>1, <2>2, <3>1, <3>2
      <3>5. i \in Depositions /\ TypeOK
        BY <1>0, <1>1, <2>2
      <3>6. /\ Len(zenodo') = Len(zenodo) /\ zenodo'[i] = e
            /\ \A n \in Depositions \ {i} : zenodo'[n] = zenodo[n]
        BY <3>3, <3>5 DEF TypeOK, Depositions
      <3> QED
        BY <3>1, <3>4, <3>5, <3>6, EditFits
    <2> QED
      BY <2>1, <2>3, NoEditFits
  <1>4. CASE \E ok \in BOOLEAN, p \in Paths : Upload(c, p, ok)
    <2>1. PICK ok \in BOOLEAN, p \in Paths : Upload(c, p, ok)
      BY <1>4
    <2>2. At(c, "uploading") /\ p \in call[c].todo
      BY <2>1 DEF Upload
    <2>3. \/ zenodo' = zenodo
          \/ /\ ~zenodo[i].published
             /\ zenodo' = [zenodo EXCEPT ![i] = [zenodo[i] EXCEPT !.files[BaseName[p]] = p]]
      BY <2>1 DEF Upload, The
    <2>4. CASE /\ ~zenodo[i].published
               /\ zenodo' = [zenodo EXCEPT ![i] = [zenodo[i] EXCEPT !.files[BaseName[p]] = p]]
      <3> DEFINE e == [zenodo[i] EXCEPT !.files[BaseName[p]] = p]
      <3>1. e.job = zenodo[i].job
        BY <1>1, <2>2 DEF Deposition
      <3>2. p \in ToUpload(j) /\ p # Nothing
        BY <1>0, <1>1, <2>2, Constants DEF Reviewed, JobReviewed, CallReviewed
      <3>3. /\ Fit(e, j) /\ e.record = zenodo[i].record
            /\ \A m \in Names : zenodo[i].files[m] # Nothing => e.files[m] # Nothing
        BY <1>0, <1>1, <2>2, <2>4, <3>2, FitUploaded
      <3>4. zenodo' = [zenodo EXCEPT ![i] = e]
        BY <2>4
      <3> HIDE DEF e
      <3>5. /\ \A k \in Jobs : e.job = k => Fit(e, k)
            /\ zenodo[i].record = record[zenodo[i].job] => e.record = record[zenodo[i].job]
        BY <1>1, <2>2, <3>1, <3>3
      <3>6. i \in Depositions /\ TypeOK
        BY <1>0, <1>1, <2>2
      <3>7. /\ Len(zenodo') = Len(zenodo) /\ zenodo'[i] = e
            /\ \A n \in Depositions \ {i} : zenodo'[n] = zenodo[n]
        BY <3>4, <3>6 DEF TypeOK, Depositions
      <3> QED
        BY <3>1, <3>3, <3>5, <3>6, <3>7, EditFits
    <2> QED
      BY <2>3, <2>4, NoEditFits
  <1>5. CASE \E ok \in BOOLEAN : Publish(c, ok)
    <2>1. /\ At(c, "uploading") /\ call[c].todo = {}
          /\ zenodo' = [zenodo EXCEPT ![i] = [zenodo[i] EXCEPT !.published = TRUE]]
      BY <1>5 DEF Publish
    <2> DEFINE e == [zenodo[i] EXCEPT !.published = TRUE]
    <2>2. /\ e.job = zenodo[i].job /\ e.files = zenodo[i].files
          /\ e.record = zenodo[i].record
      BY <1>1, <2>1 DEF Deposition
    <2>3. \A p \in ToUpload(j) : zenodo[i].files[BaseName[p]] # Nothing
      BY <1>0, <1>1, <2>1 DEF Reviewed, JobReviewed, CallReviewed
    <2>4. Fit(e, j)
      BY <1>1, <2>1, <2>2, <2>3 DEF Fit
    <2>5. zenodo' = [zenodo EXCEPT ![i] = e]
      BY <2>1
    <2> HIDE DEF e
    <2>6. /\ \A k \in Jobs : e.job = k => Fit(e, k)
          /\ zenodo[i].record = record[zenodo[i].job] => e.record = record[zenodo[i].job]
      BY <1>1, <2>1, <2>2, <2>4
    <2>7. i \in Depositions /\ TypeOK
      BY <1>0, <1>1, <2>1
    <2>8. /\ Len(zenodo') = Len(zenodo) /\ zenodo'[i] = e
          /\ \A n \in Depositions \ {i} : zenodo'[n] = zenodo[n]
      BY <2>5, <2>7 DEF TypeOK, Depositions
    <2> QED
      BY <2>2, <2>6, <2>7, <2>8, EditFits
  <1>6. CASE \/ LookUp(c) \/ LoadRegistry(c) \/ WriteRegistry(c) \/ ReplaceRegistry(c)
             \/ ReadDeposition(c) \/ ListUploaded(c) \/ Unanswered(c) \/ Crash(c)
    <2>1. zenodo' = zenodo
      BY <1>6 DEF LookUp, LoadRegistry, WriteRegistry, ReplaceRegistry, ReadDeposition,
                  ListUploaded, Unanswered, Crash
    <2> QED
      BY <2>1, NoEditFits
  <1> QED
    BY <1>2, <1>3, <1>4, <1>5, <1>6 DEF Driver

\* A job nobody may revise or exclude from, and what is known of it.
LEMMA ReviewedTogether ==
    ASSUME NEW j \in Jobs, record'[j] = record[j], ToUpload(j)' = ToUpload(j),
           FitNext, \A c \in Callers : CallReviewed(c, j)'
    PROVE  JobReviewed(j)'
  <1>1. \A n \in Depositions' : zenodo'[n].job = j => Fit(zenodo[n], j)'
    BY DEF FitNext, Fit, Depositions
  <1> QED
    BY <1>1 DEF JobReviewed

\* A call that does nothing, while another changes depositions.
LEMMA WaiterReviewed ==
    ASSUME IInv, Reviewed, NEW j \in Jobs, NEW d \in Callers, call'[d] = call[d],
           record' = record, Grows, Keeps
    PROVE  CallReviewed(d, j)'
  <1>0. TypeOK /\ CallReviewed(d, j) /\ CallSound(d)
    BY DEF IInv, Reviewed, JobReviewed
  <1>1. SUFFICES ASSUME call[d].job = j, ~At(d, "idle"),
                        At(d, "listing") \/ At(d, "uploading")
                 PROVE  CallReviewed(d, j)'
    BY <1>0 DEF CallReviewed, At
  <1>2. PICK i \in Depositions : i = call[d].id /\ zenodo[i].job = j
    BY <1>0, <1>1 DEF CallSound, At, Holding
  <1>3. /\ zenodo[i].record = record[j] /\ call[d].record = record[j]
        /\ At(d, "uploading") =>
              /\ call[d].todo \subseteq call[d].files
              /\ \A p \in call[d].files \ call[d].todo : zenodo[i].files[BaseName[p]] # Nothing
    BY <1>0, <1>1, <1>2 DEF CallReviewed
  <1>4. call[d].files \subseteq Paths
    BY <1>0 DEF TypeOK, Call
  <1>5. /\ zenodo'[i].record = record[j]
        /\ \A p \in Paths : zenodo[i].files[BaseName[p]] # Nothing =>
              zenodo'[i].files[BaseName[p]] # Nothing
    BY <1>2, <1>3, Constants DEF Keeps
  <1> QED
    BY <1>2, <1>3, <1>4, <1>5 DEF CallReviewed, At

\* The call that a step of the driver moves.
LEMMA MoverReviewed ==
    ASSUME IInv, Listed, Reviewed, NEW j \in Jobs, NEW c \in Callers,
           Driver(c) \/ Crash(c), Keeps
    PROVE  CallReviewed(c, j)'
  <1>0. /\ TypeOK /\ CallReviewed(c, j) /\ CallSound(c) /\ CallListed(c, j)
        /\ c \in DOMAIN call /\ call[c] \in Call
        /\ zenodo \in Seq(Deposition) /\ Len(zenodo) \in Nat
        /\ \A n \in Depositions : zenodo[n] \in Deposition
    BY DEF IInv, TypeOK, Reviewed, JobReviewed, Listed, JobListed, Depositions
  <1>1. /\ UNCHANGED <<log, excluded, record>>
        /\ call'[c].job = call[c].job /\ call'[c].files = call[c].files
        /\ call'[c].record = call[c].record
        /\ call'[c].pc # "idle" => call[c].pc \notin Early
    BY <1>0, DriverShape
  <1>2. call'[c].pc # "idle" /\ call[c].job = j => call'[c].record = record'[j]
    BY <1>0, <1>1 DEF CallReviewed, At, Early
  <1>3. CASE call'[c].pc \notin {"listing", "uploading"}
    BY <1>1, <1>2, <1>3 DEF CallReviewed, At
  <1>4. CASE \E ok \in BOOLEAN : Describe(c, ok)
    <2>1. PICK ok \in BOOLEAN : Describe(c, ok)
      BY <1>4
    <2>2. PICK i \in Depositions : i = call[c].id
      BY <1>0, <2>1 DEF CallSound, Describe, At, Holding
    <2>3. /\ At(c, "describing")
          /\ \/ Goes(c, "failed")
             \/ /\ Goes(c, "listing")
                /\ zenodo' = [zenodo EXCEPT ![i] = [zenodo[i] EXCEPT !.record = call[c].record]]
      BY <2>1, <2>2 DEF Describe, The
    <2>4. Goes(c, "failed") => call'[c].pc = "failed"
      BY <1>0 DEF Goes, Call
    <2>5. CASE /\ Goes(c, "listing")
               /\ zenodo' = [zenodo EXCEPT ![i] = [zenodo[i] EXCEPT !.record = call[c].record]]
      <3>1. zenodo'[i].record = call[c].record
        BY <1>0, <2>2, <2>5 DEF Deposition, Depositions
      <3>2. call'[c].pc = "listing" /\ call'[c].id = i
        BY <1>0, <2>2, <2>5 DEF Goes, Call
      <3> QED
        BY <1>1, <1>2, <3>1, <3>2 DEF CallReviewed, At
    <2> QED
      BY <1>3, <2>3, <2>4, <2>5
  <1>5. CASE ListUploaded(c)
    <2>1. PICK i \in Depositions : i = call[c].id
      BY <1>0, <1>5 DEF CallSound, ListUploaded, At, Holding
    <2>2. /\ At(c, "listing") /\ zenodo' = zenodo
          /\ call' = [call EXCEPT ![c].pc = "uploading",
               ![c].todo = {p \in call[c].files : zenodo[i].files[BaseName[p]] = Nothing}]
      BY <1>5, <2>1 DEF ListUploaded, The
    <2>3. /\ call'[c].pc = "uploading" /\ call'[c].id = i
          /\ call'[c].todo = {p \in call[c].files : zenodo[i].files[BaseName[p]] = Nothing}
      BY <1>0, <2>1, <2>2 DEF Call
    <2>4. call[c].job = j => zenodo[i].record = record[j]
      BY <1>0, <2>1, <2>2 DEF CallReviewed
    <2> QED
      BY <1>1, <1>2, <2>2, <2>3, <2>4 DEF CallReviewed, At, Depositions
  <1>6. CASE \E ok \in BOOLEAN, p \in Paths : Upload(c, p, ok)
    <2>1. PICK ok \in BOOLEAN, p \in Paths : Upload(c, p, ok)
      BY <1>6
    <2>2. PICK i \in Depositions : i = call[c].id
      BY <1>0, <2>1 DEF CallSound, Upload, At, Holding
    <2>3. CASE call'[c].pc # "uploading"
      <3>1. call'[c].pc \in {"uploading", "failed"}
        BY <1>0, <2>1 DEF Upload, Call
      <3> QED
        BY <1>3, <2>3, <3>1
    <2>4. CASE call'[c].pc = "uploading"
      <3>1. /\ At(c, "uploading")
            /\ zenodo' = [zenodo EXCEPT ![i] = [zenodo[i] EXCEPT !.files[BaseName[p]] = p]]
            /\ call'[c].todo = call[c].todo \ {p} /\ call'[c].id = i
        BY <1>0, <2>1, <2>2, <2>4 DEF Upload, Call, The
      <3>2. /\ zenodo'[i].record = zenodo[i].record
            /\ zenodo'[i].files[BaseName[p]] = p /\ p # Nothing
        BY <1>0, <2>2, <3>1, Constants DEF Deposition, Depositions
      <3>3. /\ call[c].job = j =>
                  /\ zenodo[i].record = record[j]
                  /\ call[c].todo \subseteq call[c].files
                  /\ \A q \in call[c].files \ call[c].todo :
                        zenodo[i].files[BaseName[q]] # Nothing
            /\ call[c].files \subseteq Paths
        BY <1>0, <2>2, <3>1 DEF CallReviewed, Call
      <3>4. \A q \in Paths : zenodo[i].files[BaseName[q]] # Nothing =>
               zenodo'[i].files[BaseName[q]] # Nothing
        BY <2>2, Constants DEF Keeps
      <3> QED
        BY <1>1, <1>2, <2>4, <3>1, <3>2, <3>3, <3>4 DEF CallReviewed, At
    <2> QED
      BY <2>3, <2>4
  <1>7. ASSUME NEW place \in Places \ {"listing", "uploading"}, Goes(c, place)
        PROVE  CallReviewed(c, j)'
    <2>1. call'[c].pc = place
      BY <1>0, <1>7 DEF Goes, Call
    <2> QED
      BY <1>3, <1>7, <2>1
  <1>8. CASE LookUp(c) \/ LoadRegistry(c) \/ \E ok \in BOOLEAN : Create(c, ok)
    <2>1. LookUp(c) => call'[c].pc \in {"creating", "reading"}
      BY <1>0, LookUpPlaces
    <2>2. LoadRegistry(c) => call'[c].pc = "loaded"
      BY <1>0 DEF LoadRegistry, Call
    <2>3. (\E ok \in BOOLEAN : Create(c, ok)) => call'[c].pc \in {"created", "failed"}
      BY <1>0, CreatePlaces
    <2> QED
      BY <1>3, <1>8, <2>1, <2>2, <2>3
  <1>9. CASE \/ WriteRegistry(c) \/ ReplaceRegistry(c) \/ ReadDeposition(c)
             \/ Unanswered(c) \/ Crash(c) \/ \E ok \in BOOLEAN : Publish(c, ok)
    <2>1. \E place \in {"written", "failed", "reading", "receipted", "describing", "idle"} :
             Goes(c, place)
      BY <1>9 DEF WriteRegistry, ReplaceRegistry, ReadDeposition, Unanswered, Crash, Publish
    <2> QED
      BY <1>7, <2>1 DEF Places
  <1> QED
    BY <1>4, <1>5, <1>6, <1>8, <1>9 DEF Driver

LEMMA ReviewedKept ==
    ASSUME Settled, IInv, Listed, Reviewed, [Next]_vars
    PROVE  Reviewed'
  <1>0. TypeOK
    BY DEF IInv
  <1> SUFFICES ASSUME NEW j \in Jobs PROVE JobReviewed(j)'
    BY DEF Reviewed
  <1>1. /\ JobReviewed(j) /\ \A c \in Callers : CallReviewed(c, j) /\ CallListed(c, j)
        /\ JobListed(j)
    BY DEF Reviewed, JobReviewed, Listed, JobListed
  <1>2. ASSUME zenodo' = zenodo, record'[j] = record[j], excluded'[j] = excluded[j],
               \A c \in Callers : CallReviewed(c, j)'
        PROVE  JobReviewed(j)'
    BY <1>2, NoEditFits, ReviewedTogether DEF ToUpload
  <1>3. ASSUME NEW c \in Callers, zenodo' = zenodo, record' = record, call'[c] = call[c]
        PROVE  CallReviewed(c, j)'
    BY <1>1, <1>3 DEF CallReviewed, At, Depositions
  <1>4. ASSUME NEW c \in Callers, NEW i \in Jobs, Receive(c, i) PROVE JobReviewed(j)'
    <2>1. /\ UNCHANGED <<zenodo, record, excluded>>
          /\ \A d \in Callers \ {c} : call'[d] = call[d]
      BY <1>0, <1>4 DEF Receive, TypeOK
    <2>2. call'[c] = [Idle EXCEPT !.pc = "asked", !.job = i, !.files = ToUpload(i),
                                  !.record = record[i]]
      BY <1>0, <1>4 DEF Receive, TypeOK
    <2>3. call'[c].pc = "asked" /\ call'[c].job = i /\ call'[c].record = record[i]
      BY <2>2, IdleTypes DEF Call
    <2>4. CallReviewed(c, j)'
      BY <2>1, <2>3 DEF CallReviewed, At
    <2> QED
      BY <1>2, <1>3, <2>1, <2>4
  <1>5. ASSUME NEW c \in Callers, Agent(c) PROVE JobReviewed(j)'
    <2>1. UNCHANGED <<excluded, record, zenodo>> /\ ~At(c, "idle")
      BY <1>0, <1>5, AgentShape
    <2>2. PICK place \in {"idle", "cleared", "begun", "completed"} : Goes(c, place)
      BY <1>0, <1>5, AgentShape
    <2>3. /\ call'[c].pc = place /\ call'[c].job = call[c].job
          /\ call'[c].record = call[c].record
          /\ \A d \in Callers \ {c} : call'[d] = call[d]
      BY <1>0, <2>2 DEF Goes, TypeOK, Call
    <2>4. CallReviewed(c, j)'
      BY <1>1, <2>1, <2>3 DEF CallReviewed, At
    <2> QED
      BY <1>2, <1>3, <2>1, <2>3, <2>4
  <1>6. ASSUME NEW c \in Callers, Driver(c) \/ Crash(c) PROVE JobReviewed(j)'
    <2>1. /\ FitNext /\ Keeps /\ Grows
          /\ UNCHANGED <<log, excluded, record>>
          /\ \A d \in Callers \ {c} : call'[d] = call[d]
      BY <1>0, <1>6, DriverFits, DriverGrows, DriverShape
    <2>2. \A d \in Callers : CallReviewed(d, j)'
      BY <1>6, <2>1, MoverReviewed, WaiterReviewed
    <2>3. ToUpload(j)' = ToUpload(j)
      BY <2>1 DEF ToUpload
    <2> QED
      BY <2>1, <2>2, <2>3, ReviewedTogether
  <1>7. ASSUME NEW i \in Jobs, Revise(i) \/ \E p \in Paths : Exclude(i, p)
        PROVE  JobReviewed(j)'
    <2>1. /\ ~Said(i, {"started"}) /\ \A c \in Callers : call[c].job = i => At(c, "idle")
          /\ UNCHANGED <<call, zenodo>>
      BY <1>7 DEF Revise, Exclude, Untouched, Settled
    <2>2. i # j => record'[j] = record[j] /\ excluded'[j] = excluded[j]
      BY <1>0, <1>7 DEF Revise, Exclude, TypeOK
    <2>3. CASE i # j
      <3>1. \A c \in Callers : CallReviewed(c, j)'
        BY <1>1, <2>1, <2>2, <2>3 DEF CallReviewed, At, Depositions
      <3> QED
        BY <1>2, <2>1, <2>2, <2>3, <3>1
    <2>4. CASE i = j
      <3>1. \A n \in Depositions : zenodo[n].job # j
        BY <1>1, <2>1, <2>4 DEF JobListed
      <3>2. \A c \in Callers : CallReviewed(c, j)'
        BY <2>1, <2>4 DEF CallReviewed, At
      <3> QED
        BY <2>1, <3>1, <3>2 DEF JobReviewed, Depositions
    <2> QED
      BY <2>3, <2>4
  <1>8. CASE UNCHANGED vars \/ \E i \in Jobs : Settle(i)
    <2>1. UNCHANGED <<call, zenodo, record, excluded>>
      BY <1>8 DEF Settle, vars
    <2> QED
      BY <1>2, <1>3, <2>1
  <1> QED
    BY <1>4, <1>5, <1>6, <1>7, <1>8 DEF Next

LEMMA ReviewedAlways == Settled => (Spec => []Reviewed)
  <1> SUFFICES ASSUME Settled PROVE Spec => []Reviewed
    OBVIOUS
  <1>1. Init => Reviewed
    <2> SUFFICES ASSUME Init PROVE Reviewed
      OBVIOUS
    <2>1. \A c \in Callers : call[c].pc = "idle"
      BY DEF Init, Idle
    <2>2. Depositions = {}
      BY DEF Init, Depositions
    <2> QED
      BY <2>1, <2>2 DEF Reviewed, JobReviewed, CallReviewed, At
  <1>2. Spec => []Listed
    BY ListedAlways DEF Settled
  <1> QED
    BY <1>1, <1>2, ReviewedKept, Invariance, PTL DEF Spec

\* What a call says it deposited is the record it read and the files it was to
\* upload, each under its name: however many calls, whatever died halfway and
\* whatever an earlier attempt had left, if nothing reviewed changes once an
\* attempt has begun and no two artefacts have one file name.
THEOREM WhatIsReviewedIsDeposited ==
    Settled /\ NamesDiffer => (Spec => DepositedAsReviewed)
  <1> SUFFICES ASSUME Settled, NamesDiffer PROVE Spec => DepositedAsReviewed
    OBVIOUS
  <1>1. ASSUME IInv, Listed, Reviewed, NEW c \in Callers, RecordDeposit(c)
        PROVE  /\ zenodo[call[c].id].record = call[c].record
               /\ {zenodo[call[c].id].files[n] : n \in Names} \ {Nothing} = call[c].files
    <2>0. /\ TypeOK /\ CallSound(c) /\ At(c, "completed") /\ call[c].job \in Jobs
      BY <1>1 DEF IInv, TypeOK, Call, RecordDeposit
    <2>1. PICK j \in Jobs : j = call[c].job
      BY <2>0
    <2>2. PICK i \in Depositions : i = call[c].id
      BY <2>0 DEF CallSound, At, Holding
    <2>3. zenodo[i].job = j /\ zenodo[i].published
      BY <2>0, <2>1, <2>2 DEF CallSound, At, Holding
    <2>4. /\ Fit(zenodo[i], j) /\ call[c].files = ToUpload(j) /\ call[c].record = record[j]
      BY <1>1, <2>0, <2>1, <2>3
         DEF Reviewed, JobReviewed, CallReviewed, Listed, JobListed, CallListed, At
    <2>5. \A p \in ToUpload(j) : BaseName[p] \in Names /\ zenodo[i].files[BaseName[p]] = p
      <3> TAKE p \in ToUpload(j)
      <3>1. p \in Paths /\ BaseName[p] \in Names /\ ToUpload(j) \subseteq Paths
        BY Constants DEF ToUpload
      <3>2. zenodo[i].files[BaseName[p]] # Nothing
        BY <2>3, <2>4 DEF Fit
      <3>3. /\ zenodo[i].files[BaseName[p]] \in ToUpload(j)
            /\ BaseName[zenodo[i].files[BaseName[p]]] = BaseName[p]
        BY <2>4, <3>1, <3>2 DEF Fit
      <3> QED
        BY <3>1, <3>3 DEF NamesDiffer
    <2>6. \A p \in ToUpload(j) : p # Nothing
      BY Constants DEF ToUpload
    <2>7. \A n \in Names : zenodo[i].files[n] # Nothing => zenodo[i].files[n] \in ToUpload(j)
      BY <2>4 DEF Fit
    <2>8. {zenodo[i].files[n] : n \in Names} \ {Nothing} = ToUpload(j)
      BY <2>5, <2>6, <2>7
    <2> QED
      BY <2>2, <2>3, <2>4, <2>8 DEF Fit
  <1>2. IInv /\ Listed /\ Reviewed =>
           [\A c \in Callers : RecordDeposit(c) =>
               LET d == zenodo[call[c].id] IN
               /\ d.record = call[c].record
               /\ {d.files[n] : n \in Names} \ {Nothing} = call[c].files]_vars
    BY <1>1
  <1>3. Spec => []Listed
    BY ListedAlways DEF Settled
  <1>4. Spec => []Reviewed
    BY ReviewedAlways
  <1> QED
    BY <1>2, <1>3, <1>4, Invariance, PTL DEF DepositedAsReviewed
-----------------------------------------------------------------------------
(* No deposition without an intent: those of a job, and the calls about to *)
(* make one, are together no more than the intents on its log.             *)

Announced(j) == {c \in Callers : call[c].job = j /\ call[c].pc \in {"begun", "creating"}}

Covered(j) == Cardinality(Made(j)) + Cardinality(Announced(j)) <= Cardinality(Intents(j))

LEMMA CountsTypes ==
    ASSUME TypeOK, NEW j \in Jobs
    PROVE  /\ IsFiniteSet(Made(j)) /\ Cardinality(Made(j)) \in Nat
           /\ IsFiniteSet(Announced(j)) /\ Cardinality(Announced(j)) \in Nat
           /\ IsFiniteSet(Intents(j)) /\ Cardinality(Intents(j)) \in Nat
  <1>1. Len(zenodo) \in Nat /\ Len(log[j]) \in Nat /\ DOMAIN log[j] = 1 .. Len(log[j])
    BY DEF TypeOK
  <1>2. IsFiniteSet(1 .. Len(zenodo)) /\ IsFiniteSet(1 .. Len(log[j]))
    BY <1>1, FS_Interval
  <1>3. /\ Made(j) \subseteq 1 .. Len(zenodo) /\ Intents(j) \subseteq 1 .. Len(log[j])
        /\ Announced(j) \subseteq Callers
    BY <1>1 DEF Made, Intents, Announced, Depositions
  <1> QED
    BY <1>2, <1>3, CallersAssumption, FS_Subset, FS_CardinalityType

\* A step that makes nothing, announces nothing and takes no intent back.
LEMMA CoveredStill ==
    ASSUME TypeOK, TypeOK', NEW j \in Jobs, Covered(j), Made(j)' = Made(j),
           Announced(j)' \subseteq Announced(j), Intents(j) \subseteq Intents(j)'
    PROVE  Covered(j)'
  <1>1. /\ IsFiniteSet(Announced(j))
        /\ Cardinality(Made(j)) \in Nat /\ Cardinality(Announced(j)) \in Nat
        /\ Cardinality(Intents(j)) \in Nat
    BY CountsTypes
  <1>2. /\ Cardinality(Announced(j)') <= Cardinality(Announced(j))
        /\ Cardinality(Announced(j)') \in Nat
    BY <1>1, FS_Subset, FS_CardinalityType
  <1>3. IsFiniteSet(Intents(j)')
    <2>1. Len(log'[j]) \in Nat /\ DOMAIN log'[j] = 1 .. Len(log'[j])
      BY DEF TypeOK
    <2>2. IsFiniteSet(1 .. Len(log'[j])) /\ Intents(j)' \subseteq 1 .. Len(log'[j])
      BY <2>1, FS_Interval DEF Intents
    <2> QED
      BY <2>2, FS_Subset
  <1>4. /\ Cardinality(Intents(j)) <= Cardinality(Intents(j)')
        /\ Cardinality(Intents(j)') \in Nat
    BY <1>3, FS_Subset, FS_CardinalityType
  <1> QED
    BY <1>1, <1>2, <1>4 DEF Covered

\* The entry an append adds to the intents of its job, if it is one.
LEMMA IntentsLogged ==
    ASSUME TypeOK, NEW j \in Jobs, NEW pid \in Nat,
           NEW kind \in {"started", "failed", "completed", "reconciled", "deposited",
                         "closed"},
           Logged(j, kind, pid)
    PROVE  \A k \in Jobs :
              Intents(k)' = Intents(k) \cup (IF k = j /\ kind = "started"
                                             THEN {Len(log[j]) + 1} ELSE {})
  <1> DEFINE e == [kind |-> kind, pid |-> pid]
  <1>1. /\ log[j] \in Seq(Entry) /\ e \in Entry /\ e.kind = kind
        /\ log' = [log EXCEPT ![j] = Append(log[j], e)] /\ j \in DOMAIN log
    BY DEF TypeOK, Logged, Entry
  <1> HIDE DEF e
  <1>2. /\ log'[j] = Append(log[j], e) /\ Len(log[j]) \in Nat
        /\ log'[j][Len(log[j]) + 1] = e
        /\ \A n \in 1 .. Len(log[j]) : log'[j][n] = log[j][n]
        /\ DOMAIN log[j] = 1 .. Len(log[j])
        /\ DOMAIN log'[j] = 1 .. (Len(log[j]) + 1)
    BY <1>1
  <1> TAKE k \in Jobs
  <1>3. CASE k # j
    <2>1. log'[k] = log[k]
      BY <1>1, <1>3 DEF TypeOK
    <2> QED
      BY <1>3, <2>1 DEF Intents
  <1>4. CASE k = j
    <2>1. \A n : n \in DOMAIN log'[j] <=> n \in DOMAIN log[j] \/ n = Len(log[j]) + 1
      BY <1>2
    <2> QED
      BY <1>1, <1>2, <1>4, <2>1 DEF Intents
  <1> QED
    BY <1>3, <1>4

\* What a step of the driver that makes nothing leaves: a call about to make a
\* deposition was about to before.
LEMMA NotAnnounced ==
    ASSUME TypeOK, NEW c \in Callers, Driver(c) \/ Crash(c),
           call'[c].pc \in {"begun", "creating"}
    PROVE  call[c].pc \in {"begun", "creating"} /\ ~\E ok \in BOOLEAN : Create(c, ok)
  <1>0. call[c] \in Call /\ c \in DOMAIN call
    BY DEF TypeOK
  <1>1. CASE LookUp(c)
    BY <1>1 DEF LookUp, Create, At
  <1>2. CASE \E ok \in BOOLEAN : Create(c, ok)
    BY <1>2, CreatePlaces
  <1>3. CASE \/ WriteRegistry(c) \/ ReplaceRegistry(c) \/ ReadDeposition(c)
             \/ Unanswered(c) \/ Crash(c) \/ \E ok \in BOOLEAN : Describe(c, ok) \/ Publish(c, ok)
    <2>1. PICK place \in {"written", "failed", "reading", "receipted", "describing", "idle",
                          "listing"} : Goes(c, place)
      BY <1>3 DEF WriteRegistry, ReplaceRegistry, ReadDeposition, Unanswered, Crash,
                  Describe, Publish
    <2>2. call'[c].pc = place
      BY <1>0, <2>1 DEF Goes, Call
    <2> QED
      BY <2>2
  <1>4. CASE LoadRegistry(c)
    <2>1. PICK data : call' = [call EXCEPT ![c].pc = "loaded", ![c].data = data]
      BY <1>4 DEF LoadRegistry
    <2>2. call'[c].pc = "loaded"
      BY <1>0, <2>1 DEF Call
    <2> QED
      BY <2>2
  <1>5. CASE ListUploaded(c) \/ \E ok \in BOOLEAN, p \in Paths : Upload(c, p, ok)
    <2>1. \E place \in {"uploading", "failed"} :
             \E todo : call' = [call EXCEPT ![c].pc = place, ![c].todo = todo]
      BY <1>5 DEF ListUploaded, Upload
    <2>2. PICK place \in {"uploading", "failed"} :
             \E todo : call' = [call EXCEPT ![c].pc = place, ![c].todo = todo]
      BY <2>1
    <2>3. call'[c].pc = place
      BY <1>0, <2>2 DEF Call
    <2> QED
      BY <2>3
  <1> QED
    BY <1>1, <1>2, <1>3, <1>4, <1>5 DEF Driver

\* A creation uses up the announcement of its call.
LEMMA CreateCovered ==
    ASSUME IInv, TypeOK', NEW c \in Callers, NEW ok \in BOOLEAN, Create(c, ok),
           NEW j \in Jobs, Covered(j)
    PROVE  Covered(j)'
  <1>0. TypeOK /\ Len(zenodo) \in Nat /\ zenodo \in Seq(Deposition)
    BY DEF IInv, TypeOK
  <1>1. zenodo' = Append(zenodo, Created(call[c].job)) /\ At(c, "creating") /\ log' = log
    BY DEF Create, Created
  <1>2. /\ call'[c].pc \in {"created", "failed"} /\ call'[c].job = call[c].job
        /\ \A d \in Callers \ {c} : call'[d] = call[d]
    BY <1>0, CreatePlaces, DriverShape DEF Driver
  <1>3. Created(call[c].job).job = call[c].job
    BY DEF Created
  <1>4. /\ Depositions' = Depositions \cup {Len(zenodo) + 1}
        /\ zenodo'[Len(zenodo) + 1].job = call[c].job
        /\ \A n \in Depositions : zenodo'[n] = zenodo[n]
    BY <1>0, <1>1, <1>3 DEF Depositions
  <1>5. Intents(j)' = Intents(j)
    BY <1>1 DEF Intents
  <1>6. CASE call[c].job # j
    <2>1. Made(j)' = Made(j)
      BY <1>4, <1>6 DEF Made
    <2>2. Announced(j)' \subseteq Announced(j)
      BY <1>2 DEF Announced
    <2> QED
      BY <1>0, <1>5, <2>1, <2>2, CoveredStill
  <1>7. CASE call[c].job = j
    <2>1. Made(j)' = Made(j) \cup {Len(zenodo) + 1} /\ Len(zenodo) + 1 \notin Made(j)
      BY <1>0, <1>4, <1>7 DEF Made, Depositions
    <2>2. c \in Announced(j) /\ Announced(j)' = Announced(j) \ {c}
      BY <1>1, <1>2, <1>7 DEF Announced, At
    <2>3. /\ IsFiniteSet(Made(j)) /\ IsFiniteSet(Announced(j))
          /\ Cardinality(Made(j)) \in Nat /\ Cardinality(Announced(j)) \in Nat
          /\ Cardinality(Intents(j)) \in Nat
      BY <1>0, CountsTypes
    <2>4. Cardinality(Made(j)') = Cardinality(Made(j)) + 1
      BY <2>1, <2>3, FS_AddElement
    <2>5. Cardinality(Announced(j)') = Cardinality(Announced(j)) - 1
      BY <2>2, <2>3, FS_RemoveElement
    <2> QED
      BY <1>5, <2>3, <2>4, <2>5 DEF Covered
  <1> QED
    BY <1>6, <1>7

\* An intent announces one call.
LEMMA StartCovered ==
    ASSUME TypeOK, TypeOK', NEW c \in Callers, Start(c), NEW j \in Jobs, Covered(j)
    PROVE  Covered(j)'
  <1>0. /\ call[c] \in Call /\ c \in DOMAIN call /\ call[c].job \in Jobs
        /\ Len(log[call[c].job]) \in Nat
    BY DEF TypeOK, Call
  <1>1. /\ Logged(call[c].job, "started", 0) /\ Goes(c, "begun") /\ At(c, "cleared")
        /\ zenodo' = zenodo
    BY DEF Start
  <1>2. /\ call'[c].pc = "begun" /\ call'[c].job = call[c].job
        /\ \A d \in Callers \ {c} : call'[d] = call[d]
    BY <1>0, <1>1 DEF Goes, Call, TypeOK
  <1>3. Made(j)' = Made(j)
    BY <1>1 DEF Made, Depositions
  <1>4. Intents(j)' = Intents(j) \cup (IF j = call[c].job THEN {Len(log[call[c].job]) + 1}
                                       ELSE {})
    BY <1>0, <1>1, IntentsLogged
  <1>5. CASE call[c].job # j
    <2>1. Announced(j)' \subseteq Announced(j)
      BY <1>2, <1>5 DEF Announced
    <2> QED
      BY <1>3, <1>4, <1>5, <2>1, CoveredStill
  <1>6. CASE call[c].job = j
    <2>1. c \notin Announced(j) /\ Announced(j)' = Announced(j) \cup {c}
      BY <1>1, <1>2, <1>6 DEF Announced, At
    <2>2. Intents(j)' = Intents(j) \cup {Len(log[j]) + 1} /\ Len(log[j]) + 1 \notin Intents(j)
      <3>1. DOMAIN log[j] = 1 .. Len(log[j])
        BY DEF TypeOK
      <3>2. Len(log[j]) + 1 \notin Intents(j)
        BY <1>0, <1>6, <3>1 DEF Intents
      <3> QED
        BY <1>4, <1>6, <3>2
    <2>3. /\ IsFiniteSet(Intents(j)) /\ IsFiniteSet(Announced(j))
          /\ Cardinality(Made(j)) \in Nat /\ Cardinality(Announced(j)) \in Nat
          /\ Cardinality(Intents(j)) \in Nat
      BY CountsTypes
    <2>4. Cardinality(Announced(j)') = Cardinality(Announced(j)) + 1
      BY <2>1, <2>3, FS_AddElement
    <2>5. Cardinality(Intents(j)') = Cardinality(Intents(j)) + 1
      BY <2>2, <2>3, FS_AddElement
    <2> QED
      BY <1>3, <2>3, <2>4, <2>5 DEF Covered
  <1> QED
    BY <1>5, <1>6

\* Every other step makes nothing and announces nothing.
LEMMA OthersCovered ==
    ASSUME IInv, TypeOK', NEW j \in Jobs, Covered(j), [Next]_vars,
           ~\E c \in Callers : Start(c) \/ \E ok \in BOOLEAN : Create(c, ok)
    PROVE  Covered(j)'
  <1>0. TypeOK /\ \A c \in Callers : call[c] \in Call /\ c \in DOMAIN call
    BY DEF IInv, TypeOK
  <1>1. ASSUME NEW c \in Callers, Driver(c) \/ Crash(c) PROVE Covered(j)'
    <2>1. /\ log' = log /\ \A d \in Callers \ {c} : call'[d] = call[d]
          /\ call'[c].job = call[c].job
      BY <1>0, <1>1, DriverShape
    <2>2. call'[c].pc \in {"begun", "creating"} => call[c].pc \in {"begun", "creating"}
      BY <1>0, <1>1, NotAnnounced
    <2>3. Announced(j)' \subseteq Announced(j) /\ Intents(j)' = Intents(j)
      BY <2>1, <2>2 DEF Announced, Intents
    <2>4. Made(j)' = Made(j)
      <3>1. CASE Depositions' = Depositions
        BY <1>1, <3>1, DriverGrows DEF Grows, Made
      <3>2. CASE Depositions' # Depositions
        <4>1. zenodo' # zenodo /\ \A ok \in BOOLEAN : ~Create(c, ok)
          BY <3>2 DEF Depositions
        <4>2. At(c, "creating")
          BY <1>1, <3>2, DriverGrows
        <4>3. Unanswered(c) \/ Crash(c)
          BY <1>1, <4>1, <4>2 DEF Driver, At, LookUp, LoadRegistry, WriteRegistry,
             ReplaceRegistry, ReadDeposition, ListUploaded, Describe, Publish, Upload
        <4> QED
          BY <4>1, <4>3 DEF Unanswered, Crash
      <3> QED
        BY <3>1, <3>2
    <2> QED
      BY <1>0, <2>3, <2>4, CoveredStill
  <1>2. ASSUME NEW c \in Callers, Agent(c) PROVE Covered(j)'
    <2>1. zenodo' = zenodo
      BY <1>0, <1>2, AgentShape
    <2>2. call'[c].job = call[c].job /\ call'[c].pc \notin {"begun", "creating"}
      <3>1. PICK place \in {"idle", "cleared", "completed"} : Goes(c, place)
        BY <1>2 DEF Agent, Refuse, CloseUnshared, Clear, Fail, Complete, RecordDeposit
      <3> QED
        BY <1>0, <3>1 DEF Goes, Call
    <2>3. \A d \in Callers \ {c} : call'[d] = call[d]
      BY <1>0, <1>2 DEF Agent, Refuse, CloseUnshared, Clear, Start, Fail, Complete,
         RecordDeposit, Goes, TypeOK
    <2>4. Announced(j)' \subseteq Announced(j)
      BY <2>2, <2>3 DEF Announced
    <2>5. Intents(j) \subseteq Intents(j)'
      <3>1. call[c].job \in Jobs /\ call[c].id \in Nat
        BY <1>0 DEF Call
      <3>2. log' = log \/ \E kind \in {"failed", "completed", "deposited", "closed"} :
                             \E pid \in Nat : Logged(call[c].job, kind, pid)
        BY <1>2, <3>1 DEF Agent, Refuse, CloseUnshared, Clear, Fail, Complete, RecordDeposit
      <3>3. CASE log' = log
        BY <3>3 DEF Intents
      <3> QED
        BY <1>0, <3>1, <3>2, <3>3, IntentsLogged
    <2>6. Made(j)' = Made(j)
      BY <2>1 DEF Made, Depositions
    <2> QED
      BY <1>0, <2>4, <2>5, <2>6, CoveredStill
  <1>3. ASSUME NEW c \in Callers, NEW i \in Jobs, Receive(c, i) PROVE Covered(j)'
    <2>1. /\ log' = log /\ zenodo' = zenodo
          /\ call' = [call EXCEPT ![c] = [Idle EXCEPT !.pc = "asked", !.job = i,
                                             !.files = ToUpload(i), !.record = record[i]]]
      BY <1>3 DEF Receive
    <2>2. call'[c].pc = "asked" /\ \A d \in Callers \ {c} : call'[d] = call[d]
      BY <1>0, <2>1, IdleTypes DEF Call, TypeOK
    <2>3. /\ Announced(j)' \subseteq Announced(j) /\ Made(j)' = Made(j)
          /\ Intents(j)' = Intents(j)
      BY <2>1, <2>2 DEF Announced, Made, Intents, Depositions
    <2> QED
      BY <1>0, <2>3, CoveredStill
  <1>4. CASE UNCHANGED vars \/ \E i \in Jobs : Revise(i) \/ \E p \in Paths : Exclude(i, p)
    <2>1. UNCHANGED <<log, zenodo, call>>
      BY <1>4 DEF vars, Revise, Exclude
    <2>2. /\ Announced(j)' = Announced(j) /\ Made(j)' = Made(j)
          /\ Intents(j)' = Intents(j)
      BY <2>1 DEF Announced, Made, Intents, Depositions
    <2> QED
      BY <1>0, <2>2, CoveredStill
  <1>5. ASSUME NEW i \in Jobs, Settle(i) PROVE Covered(j)'
    <2>1. Logged(i, "reconciled", 0) /\ UNCHANGED <<zenodo, call>>
      BY <1>5 DEF Settle
    <2>2. Intents(j) \subseteq Intents(j)'
      BY <1>0, <2>1, IntentsLogged
    <2>3. Announced(j)' = Announced(j) /\ Made(j)' = Made(j)
      BY <2>1 DEF Announced, Made, Depositions
    <2> QED
      BY <1>0, <2>2, <2>3, CoveredStill
  <1> QED
    BY <1>1, <1>2, <1>3, <1>4, <1>5 DEF Next

\* However many calls race, die, lose an answer or are refused, and whatever
\* people exclude, revise or settle meanwhile: there are no more depositions of
\* a job than its log has intents.
THEOREM NothingUnintended == Spec => []IntendedFirst
  <1> DEFINE AllCovered == \A j \in Jobs : Covered(j)
  <1>1. Init => AllCovered
    <2> SUFFICES ASSUME Init, NEW j \in Jobs PROVE Covered(j)
      OBVIOUS
    <2>1. \A c \in Callers : call[c].pc = "idle"
      BY DEF Init, Idle
    <2>2. zenodo = <<>> /\ log[j] = <<>>
      BY DEF Init
    <2>3. Made(j) = {} /\ Announced(j) = {} /\ Intents(j) = {}
      BY <2>1, <2>2 DEF Made, Announced, Intents, Depositions
    <2>4. Cardinality({}) = 0
      BY FS_EmptySet
    <2> QED
      BY <2>3, <2>4 DEF Covered
  <1>2. IInv /\ IInv' /\ AllCovered /\ [Next]_vars => AllCovered'
    <2> SUFFICES ASSUME IInv, IInv', AllCovered, [Next]_vars, NEW j \in Jobs
                 PROVE  Covered(j)'
      OBVIOUS
    <2>1. TypeOK /\ TypeOK' /\ Covered(j)
      BY DEF IInv
    <2> QED
      BY <2>1, CreateCovered, StartCovered, OthersCovered
  <1>3. TypeOK /\ AllCovered => IntendedFirst
    <2> SUFFICES ASSUME TypeOK, AllCovered, NEW j \in Jobs
                 PROVE  Cardinality(Made(j)) <= Cardinality(Intents(j))
      BY DEF IntendedFirst
    <2>1. /\ Cardinality(Made(j)) \in Nat /\ Cardinality(Announced(j)) \in Nat
          /\ Cardinality(Intents(j)) \in Nat
      BY CountsTypes
    <2> QED
      BY <2>1 DEF Covered
  <1> HIDE DEF AllCovered
  <1>4. IInv => TypeOK
    BY DEF IInv
  <1> QED
    BY <1>1, <1>2, <1>3, <1>4, Invariance, PTL DEF Spec
=============================================================================
