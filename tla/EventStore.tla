----------------------------- MODULE EventStore -----------------------------
(***************************************************************************)
(* The append-only event log of one job (state/store.py), at the grain of  *)
(* the file-system calls its callers interleave on: threads of the web     *)
(* service and commands of the CLI append to and read from the same job    *)
(* directory.  A process may be killed between any two calls, and the      *)
(* machine may lose power.                                                 *)
(*                                                                         *)
(* A digest is an opaque value that identifies an event: hashing is taken  *)
(* to be free of collisions.  Nothing else writes to the directory.        *)
(***************************************************************************)
EXTENDS Integers, FiniteSets

CONSTANTS Procs,      \* threads and processes using the job directory
          Digests,    \* digests of events
          NoDigest,   \* the prev_digest of the first event
          Nobody,     \* the lock is free
          MaxEvents   \* bound: the longest log explored

ASSUME NobodyAssumption == Nobody \notin Procs
ASSUME DigestAssumption == NoDigest \notin Digests
ASSUME MaxEventsAssumption == MaxEvents \in Nat

VARIABLES files,      \* the event files a listing of the directory matches
          synced,     \* how many of them an fsync of the directory covered
          lock,       \* who holds the flock of the job's .lock file
          pc,         \* where each process is
          view,       \* what each process last listed
          tmp,        \* the temporary file each process last wrote
          outcome,    \* how each process's last call ended
          returned    \* history: the events append() has returned

vars == <<files, synced, lock, pc, view, tmp, outcome, returned>>

\* `whole` is FALSE while the JSON has not all been written and flushed.
Event == [seq : Nat \ {0}, prev : Digests \cup {NoDigest},
          digest : Digests, whole : BOOLEAN]

NoFile == [seq |-> 0, prev |-> NoDigest, digest |-> NoDigest, whole |-> FALSE]

Writing == {"locked", "loaded", "writing", "flushed", "renamed", "durable"}
-----------------------------------------------------------------------------
\* verify_chain, and the parse of every file that precedes it: positions are
\* 1, 2, 3, ... and each event names the digest of the one before it.
VerifyChain(fs) ==
    /\ \A e \in fs : e.whole
    /\ \A e \in fs : e.seq \in 1 .. Cardinality(fs)
    /\ \A e, f \in fs : e.seq = f.seq => e = f
    /\ \A e, f \in fs : f.seq = e.seq + 1 => f.prev = e.digest

\* existing[-1].digest() if existing else None
TailDigest(fs) ==
    IF fs = {} THEN NoDigest
    ELSE (CHOOSE e \in fs : e.seq = Cardinality(fs)).digest

\* A plausible bug: the listing matches temporary names too.
EventFilesAndTemporaries == files \cup {t \in {tmp[p] : p \in Procs} : t.seq > 0}

\* The files `_event_files` lists: temporary names are not matched.
EventFiles == files

Init == /\ files = {}
        /\ synced = 0
        /\ lock = Nobody
        /\ pc = [p \in Procs |-> "idle"]
        /\ view = [p \in Procs |-> {}]
        /\ tmp = [p \in Procs |-> NoFile]
        /\ outcome = [p \in Procs |-> "none"]
        /\ returned = {}

\* A plausible bug: the lock is opened and never tested.
LockUntested(p) ==
    /\ pc[p] = "idle"
    /\ Cardinality(files) < MaxEvents
    /\ lock' = p
    /\ pc' = [pc EXCEPT ![p] = "locked"]
    /\ outcome' = [outcome EXCEPT ![p] = "none"]
    /\ UNCHANGED <<files, synced, view, tmp, returned>>

\* _job_lock: LOCK_EX | LOCK_NB, so a held lock is an error and not a wait.
Lock(p) ==
    /\ pc[p] = "idle"
    /\ lock = Nobody
    /\ Cardinality(files) < MaxEvents
    /\ lock' = p
    /\ pc' = [pc EXCEPT ![p] = "locked"]
    /\ outcome' = [outcome EXCEPT ![p] = "none"]
    /\ UNCHANGED <<files, synced, view, tmp, returned>>

Refuse(p) ==
    /\ pc[p] = "idle"
    /\ lock # Nobody
    /\ outcome' = [outcome EXCEPT ![p] = "refused"]
    /\ UNCHANGED <<files, synced, lock, pc, view, tmp, returned>>

\* Under the lock: load() the whole log, and give up on one that is broken.
LoadTail(p) ==
    LET ok == VerifyChain(EventFiles) IN
    /\ pc[p] = "locked"
    /\ view' = [view EXCEPT ![p] = EventFiles]
    /\ pc' = [pc EXCEPT ![p] = IF ok THEN "loaded" ELSE "idle"]
    /\ lock' = IF ok THEN lock ELSE Nobody
    /\ outcome' = [outcome EXCEPT ![p] = IF ok THEN @ ELSE "broken"]
    /\ UNCHANGED <<files, synced, tmp, returned>>

\* The position and the predecessor come from what was listed under the lock.
WriteTmp(p) ==
    /\ pc[p] = "loaded"
    /\ \E d \in Digests \ {e.digest : e \in files} :
          tmp' = [tmp EXCEPT ![p] =
                    [seq |-> Cardinality(view[p]) + 1, prev |-> TailDigest(view[p]),
                     digest |-> d, whole |-> FALSE]]
    /\ pc' = [pc EXCEPT ![p] = "writing"]
    /\ UNCHANGED <<files, synced, lock, view, outcome, returned>>

FlushTmp(p) ==
    /\ pc[p] = "writing"
    /\ tmp' = [tmp EXCEPT ![p].whole = TRUE]
    /\ pc' = [pc EXCEPT ![p] = "flushed"]
    /\ UNCHANGED <<files, synced, lock, view, outcome, returned>>

\* A plausible bug: append() returns without the fsync of the directory.
RenameAndReturn(p) ==
    /\ pc[p] = "flushed"
    /\ files' = files \cup {tmp[p]}
    /\ pc' = [pc EXCEPT ![p] = "durable"]
    /\ UNCHANGED <<synced, lock, view, tmp, outcome, returned>>

Rename(p) ==
    /\ pc[p] = "flushed"
    /\ files' = files \cup {tmp[p]}
    /\ pc' = [pc EXCEPT ![p] = "renamed"]
    /\ UNCHANGED <<synced, lock, view, tmp, outcome, returned>>

\* Plausible bugs: the directory is synced before the rename, or counted wrong.
SyncBeforeRename(p) ==
    /\ pc[p] = "renamed"
    /\ synced' = Cardinality(view[p])
    /\ pc' = [pc EXCEPT ![p] = "durable"]
    /\ UNCHANGED <<files, lock, view, tmp, outcome, returned>>

SyncOneTooMany(p) ==
    /\ pc[p] = "renamed"
    /\ synced' = Cardinality(files) + 1
    /\ pc' = [pc EXCEPT ![p] = "durable"]
    /\ UNCHANGED <<files, lock, view, tmp, outcome, returned>>

SyncDirectory(p) ==
    /\ pc[p] = "renamed"
    /\ synced' = Cardinality(files)
    /\ pc' = [pc EXCEPT ![p] = "durable"]
    /\ UNCHANGED <<files, lock, view, tmp, outcome, returned>>

\* LOCK_UN on the way out, then append() returns the event it wrote.
Return(p) ==
    /\ pc[p] = "durable"
    /\ lock' = Nobody
    /\ pc' = [pc EXCEPT ![p] = "idle"]
    /\ outcome' = [outcome EXCEPT ![p] = "appended"]
    /\ returned' = returned \cup {tmp[p]}
    /\ UNCHANGED <<files, synced, view, tmp>>

\* load() outside an append takes no lock.
ListFiles(p) ==
    /\ pc[p] = "idle"
    /\ view' = [view EXCEPT ![p] = EventFiles]
    /\ pc' = [pc EXCEPT ![p] = "listed"]
    /\ outcome' = [outcome EXCEPT ![p] = "none"]
    /\ UNCHANGED <<files, synced, lock, tmp, returned>>

ReadFiles(p) ==
    /\ pc[p] = "listed"
    /\ pc' = [pc EXCEPT ![p] = "idle"]
    /\ outcome' = [outcome EXCEPT ![p] =
                     IF VerifyChain(view[p]) THEN "loaded" ELSE "broken"]
    /\ UNCHANGED <<files, synced, lock, view, tmp, returned>>

\* A plausible bug: a lock file that exists in place of a flock that is held.
CrashHoldingLock(p) ==
    /\ pc[p] # "idle"
    /\ pc' = [pc EXCEPT ![p] = "idle"]
    /\ view' = [view EXCEPT ![p] = {}]
    /\ outcome' = [outcome EXCEPT ![p] = "none"]
    /\ UNCHANGED <<files, synced, lock, tmp, returned>>

\* The kernel releases the flock of a process that dies; its temporary file stays.
Crash(p) ==
    /\ pc[p] # "idle"
    /\ lock' = IF lock = p THEN Nobody ELSE lock
    /\ pc' = [pc EXCEPT ![p] = "idle"]
    /\ view' = [view EXCEPT ![p] = {}]
    /\ outcome' = [outcome EXCEPT ![p] = "none"]
    /\ UNCHANGED <<files, synced, tmp, returned>>

\* Directory entries no fsync covered may be lost, latest first: the file
\* system journals its metadata in order.
PowerLoss ==
    /\ \E n \in synced .. Cardinality(files) :
          /\ files' = {e \in files : e.seq <= n}
          /\ synced' = n
    /\ lock' = Nobody
    /\ pc' = [p \in Procs |-> "idle"]
    /\ view' = [p \in Procs |-> {}]
    /\ outcome' = [p \in Procs |-> "none"]
    /\ UNCHANGED <<tmp, returned>>

AppendStep(p) == \/ Lock(p) \/ LoadTail(p) \/ WriteTmp(p) \/ FlushTmp(p)
                 \/ Rename(p) \/ SyncDirectory(p) \/ Return(p)

Next == \/ \E p \in Procs : \/ AppendStep(p) \/ Refuse(p)
                            \/ ListFiles(p) \/ ReadFiles(p) \/ Crash(p)
        \/ PowerLoss

Spec == Init /\ [][Next]_vars

\* A call that has begun runs on unless its process is killed.
Progress(p) == pc[p] # "idle" /\ (AppendStep(p) \/ ReadFiles(p))
FairSpec == Spec /\ \A p \in Procs : WF_vars(Progress(p))
-----------------------------------------------------------------------------
TypeOK ==
    /\ files \in SUBSET Event /\ IsFiniteSet(files)
    /\ synced \in 0 .. Cardinality(files)
    /\ lock \in Procs \cup {Nobody}
    /\ pc \in [Procs -> Writing \cup {"idle", "listed"}]
    /\ view \in [Procs -> SUBSET Event]
    /\ tmp \in [Procs -> Event \cup {NoFile}]
    /\ outcome \in [Procs -> {"none", "refused", "broken", "loaded", "appended"}]
    /\ returned \in SUBSET Event

\* Concurrent appends never fork the log, leave a gap in it or show a partly
\* written record: the directory verifies at every moment (store.py:118, "no
\* window in which a partial record is visible").
NeverForked == VerifyChain(files)

\* A caller of load() or append() never meets ChainIntegrityError because of
\* another caller: whatever a process listed, at whatever moment, verifies.
NeverSeenBroken == \A p \in Procs : outcome[p] # "broken" /\ VerifyChain(view[p])

\* An event append() has returned stays where it was put, through crashes of
\* processes and of the machine.
ReturnedSurvives == returned \subseteq files

\* Whoever holds the lock lets it go, by returning or by dying: no job is left
\* locked for ever.
LockIsReleased == \A p \in Procs : lock = p ~> lock # p

\* The log a directory stands for, and the promise it keeps.
LogOf(fs) == [i \in 1 .. Cardinality(fs) |-> CHOOSE e \in fs : e.seq = i]
Promise == INSTANCE AppendLog WITH log <- LogOf(files), acknowledged <- synced

\* The directory implements the append-only log of AppendLog.
KeepsPromise == Promise!Spec
=============================================================================
