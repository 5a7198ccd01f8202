-------------------------- MODULE EventStoreProofs --------------------------
(***************************************************************************)
(* Proofs about EventStore for any set of processes and any log length.    *)
(***************************************************************************)
EXTENDS EventStore, Sequences, FiniteSetTheorems, FunctionTheorems, TLAPS

USE NobodyAssumption, DigestAssumption, MaxEventsAssumption

\* The first n events of a directory.
UpTo(fs, n) == {e \in fs : e.seq <= n}
-----------------------------------------------------------------------------
(* Facts about a directory that verifies. *)

\* Every position up to the number of files is taken, so the file that
\* existing[-1] means is there.
LEMMA EveryPositionTaken ==
  ASSUME NEW fs \in SUBSET Event, IsFiniteSet(fs), VerifyChain(fs)
  PROVE  /\ Cardinality(fs) \in Nat
         /\ \A i \in 1 .. Cardinality(fs) : \E e \in fs : e.seq = i
<1> DEFINE C == Cardinality(fs)
           pos == [e \in fs |-> e.seq]
<1>1. C \in Nat
  BY FS_CardinalityType
<1>2. IsFiniteSet(1 .. C) /\ Cardinality(1 .. C) = C
  BY <1>1, FS_Interval
<1>3. pos \in Injection(fs, 1 .. C)
  <2>1. pos \in [fs -> 1 .. C]
    BY DEF VerifyChain
  <2>2. \A a, b \in fs : pos[a] = pos[b] => a = b
    BY DEF VerifyChain
  <2> QED BY <2>1, <2>2, Fun_IsInj
<1>4. pos \in Surjection(fs, 1 .. C)
  BY <1>2, <1>3, FS_Injection
<1>5. \A i \in 1 .. C : \E e \in fs : pos[e] = i
  BY <1>4 DEF Surjection
<1> QED BY <1>1, <1>5

\* A prefix of a directory that verifies has as many files as its last
\* position says, and verifies too.
LEMMA PrefixVerifies ==
  ASSUME NEW fs \in SUBSET Event, IsFiniteSet(fs), VerifyChain(fs),
         NEW n \in 0 .. Cardinality(fs)
  PROVE  /\ UpTo(fs, n) \in SUBSET Event
         /\ IsFiniteSet(UpTo(fs, n))
         /\ Cardinality(UpTo(fs, n)) = n
         /\ VerifyChain(UpTo(fs, n))
<1> DEFINE U == UpTo(fs, n)
           pos == [e \in U |-> e.seq]
<1>1. Cardinality(fs) \in Nat /\ n \in Nat
  BY EveryPositionTaken
<1>2. U \in SUBSET fs /\ IsFiniteSet(U)
  BY FS_Subset DEF UpTo
<1>3. pos \in [U -> 1 .. n]
  <2>1. \A e \in U : e.seq \in 1 .. n
    BY <1>1 DEF UpTo, VerifyChain
  <2> QED BY <2>1
<1>4. \A a, b \in U : pos[a] = pos[b] => a = b
  BY <1>2 DEF VerifyChain
<1>5. \A i \in 1 .. n : \E e \in U : pos[e] = i
  <2>1. \A i \in 1 .. n : \E e \in fs : e.seq = i
    BY <1>1, EveryPositionTaken
  <2>2. \A i \in 1 .. n : \E e \in U : e.seq = i
    BY <2>1, <1>1 DEF UpTo
  <2> QED BY <2>2
<1>6. pos \in Bijection(U, 1 .. n)
  BY <1>3, <1>4, <1>5, Fun_IsBij, Fun_IsInj, Fun_IsSurj
<1>7. ExistsBijection(U, 1 .. n)
  BY <1>6 DEF ExistsBijection
<1>8. Cardinality(U) = n
  <2>1. Cardinality(1 .. n) = Cardinality(U)
    BY <1>2, <1>7, FS_Bijection
  <2>2. Cardinality(1 .. n) = n
    BY <1>1, FS_Interval
  <2> QED BY <2>1, <2>2
<1>9. VerifyChain(U)
  <2>1. \A e \in U : e.whole /\ e.seq \in 1 .. n
    BY <1>2, <1>3 DEF VerifyChain
  <2>2. \A e, f \in U : /\ e.seq = f.seq => e = f
                        /\ f.seq = e.seq + 1 => f.prev = e.digest
    BY <1>2 DEF VerifyChain
  <2> QED BY <2>1, <2>2, <1>8 DEF VerifyChain
<1> QED BY <1>2, <1>8, <1>9

\* An event that takes the next position and names the digest of the last one
\* keeps a directory verified.
LEMMA NextEventVerifies ==
  ASSUME NEW fs \in SUBSET Event, IsFiniteSet(fs), VerifyChain(fs),
         NEW t \in Event, t.whole, t.seq = Cardinality(fs) + 1,
         \A e \in fs : e.seq = Cardinality(fs) => t.prev = e.digest
  PROVE  /\ IsFiniteSet(fs \cup {t})
         /\ Cardinality(fs \cup {t}) = Cardinality(fs) + 1
         /\ VerifyChain(fs \cup {t})
         /\ UpTo(fs \cup {t}, Cardinality(fs)) = fs
<1>1. Cardinality(fs) \in Nat /\ \A e \in fs : e.seq \in 1 .. Cardinality(fs)
  BY FS_CardinalityType DEF VerifyChain
<1>2. t \notin fs
  BY <1>1
<1>3. IsFiniteSet(fs \cup {t}) /\ Cardinality(fs \cup {t}) = Cardinality(fs) + 1
  BY <1>2, FS_AddElement
<1>4. UpTo(fs \cup {t}, Cardinality(fs)) = fs
  BY <1>1 DEF UpTo
<1>5. VerifyChain(fs \cup {t})
  <2>1. \A e \in fs \cup {t} : e.whole /\ e.seq \in 1 .. Cardinality(fs) + 1
    BY <1>1 DEF VerifyChain
  <2>2. \A e, f \in fs \cup {t} : e.seq = f.seq => e = f
    BY <1>1 DEF VerifyChain
  <2>3. \A e, f \in fs \cup {t} : f.seq = e.seq + 1 => f.prev = e.digest
    <3> SUFFICES ASSUME NEW e \in fs \cup {t}, NEW f \in fs \cup {t}, f.seq = e.seq + 1
                 PROVE  f.prev = e.digest
      OBVIOUS
    <3>1. CASE f \in fs
      BY <3>1, <1>1 DEF VerifyChain
    <3>2. CASE f = t
      BY <3>2, <1>1
    <3> QED BY <3>1, <3>2
  <2> QED BY <2>1, <2>2, <2>3, <1>3 DEF VerifyChain
<1> QED BY <1>3, <1>4, <1>5
-----------------------------------------------------------------------------
(* The inductive invariant: who may be inside an append, and what the file   *)
(* it is about to add looks like against the directory as it is now.         *)

HolderInv == \A p \in Procs : pc[p] \in Writing <=> lock = p

\* Nobody else can have appended since the holder listed the directory.
TailInv == \A p \in Procs :
              pc[p] \in {"loaded", "writing", "flushed"} => view[p] = files

TmpInv ==
    \A p \in Procs :
       /\ pc[p] \in {"writing", "flushed"} =>
             /\ tmp[p] \in Event
             /\ tmp[p].seq = Cardinality(files) + 1
             /\ \A e \in files : e.seq = Cardinality(files) => tmp[p].prev = e.digest
       /\ pc[p] = "flushed" => tmp[p].whole
       /\ pc[p] \in {"renamed", "durable"} => tmp[p] \in files
       /\ pc[p] = "durable" => synced = Cardinality(files)

\* What has been returned lies under the last fsync of the directory.
DurableInv == returned \subseteq UpTo(files, synced)

ViewInv == \A p \in Procs :
              \E n \in 0 .. Cardinality(files) : view[p] = UpTo(files, n)

CalmInv == \A p \in Procs : outcome[p] # "broken"

IInv == /\ TypeOK /\ NeverForked
        /\ HolderInv /\ TailInv /\ TmpInv
        /\ DurableInv /\ ViewInv /\ CalmInv

\* An empty directory verifies, and so starts the induction.
LEMMA InitInv == Init => IInv
<1> SUFFICES ASSUME Init PROVE IInv
  OBVIOUS
<1>1. IsFiniteSet({}) /\ Cardinality({}) = 0
  BY FS_EmptySet
<1>2. TypeOK
  BY <1>1 DEF Init, TypeOK, Writing
<1>3. NeverForked
  BY <1>1 DEF Init, NeverForked, VerifyChain
<1>4. HolderInv /\ TailInv /\ TmpInv /\ CalmInv
  BY DEF Init, HolderInv, TailInv, TmpInv, CalmInv, Writing
<1>5. DurableInv
  BY DEF Init, DurableInv, UpTo
<1>6. ViewInv
  BY <1>1 DEF Init, ViewInv, UpTo
<1> QED BY <1>2, <1>3, <1>4, <1>5, <1>6 DEF IInv

\* Steps that leave the directory and what is synced alone only move one
\* process; each of these lemmas has one step per part of the invariant.
LEMMA LockInv == ASSUME IInv, NEW p \in Procs, Lock(p) PROVE IInv'
<1> USE DEF Lock, IInv
<1>1. TypeOK'      BY DEF TypeOK, Writing
<1>2. NeverForked' BY DEF NeverForked, VerifyChain
<1>3. HolderInv'   BY DEF TypeOK, HolderInv, Writing
<1>4. TailInv' /\ TmpInv' BY DEF TypeOK, TailInv, TmpInv
<1>5. DurableInv' /\ ViewInv' BY DEF DurableInv, ViewInv, UpTo
<1>6. CalmInv'     BY DEF TypeOK, CalmInv
<1> QED BY <1>1, <1>2, <1>3, <1>4, <1>5, <1>6

LEMMA RefuseInv == ASSUME IInv, NEW p \in Procs, Refuse(p) PROVE IInv'
<1> USE DEF Refuse, IInv
<1>1. TypeOK'      BY DEF TypeOK, Writing
<1>2. NeverForked' BY DEF NeverForked, VerifyChain
<1>3. HolderInv'   BY DEF TypeOK, HolderInv
<1>4. TailInv' /\ TmpInv' BY DEF TypeOK, TailInv, TmpInv
<1>5. DurableInv' /\ ViewInv' BY DEF DurableInv, ViewInv, UpTo
<1>6. CalmInv'     BY DEF TypeOK, CalmInv
<1> QED BY <1>1, <1>2, <1>3, <1>4, <1>5, <1>6

\* The listing of a directory is its longest prefix.
LEMMA ListingIsPrefix ==
  ASSUME IInv
  PROVE  \E n \in 0 .. Cardinality(files) : files = UpTo(files, n)
<1>1. Cardinality(files) \in Nat
  BY FS_CardinalityType DEF IInv, TypeOK
<1>2. \A e \in files : e.seq <= Cardinality(files)
  BY <1>1 DEF IInv, NeverForked, VerifyChain
<1>3. files = UpTo(files, Cardinality(files))
  BY <1>2 DEF UpTo
<1> QED BY <1>1, <1>3

LEMMA LoadTailInv == ASSUME IInv, NEW p \in Procs, LoadTail(p) PROVE IInv'
<1> USE DEF LoadTail, IInv, EventFiles
<1>1. VerifyChain(files) /\ lock' = lock /\ pc' = [pc EXCEPT ![p] = "loaded"]
      /\ outcome' = [outcome EXCEPT ![p] = @]
  BY DEF NeverForked
<1>2. TypeOK'      BY <1>1 DEF TypeOK, Writing
<1>3. NeverForked' BY DEF NeverForked, VerifyChain
<1>4. HolderInv'   BY <1>1 DEF TypeOK, HolderInv, Writing
<1>5. TailInv'
  BY <1>1 DEF TypeOK, TailInv
<1>6. TmpInv'
  BY <1>1 DEF TypeOK, TmpInv
<1>7. DurableInv'  BY DEF DurableInv, UpTo
<1>8. ViewInv'
  BY ListingIsPrefix DEF TypeOK, ViewInv, UpTo
<1>9. CalmInv'     BY <1>1 DEF TypeOK, CalmInv
<1> QED BY <1>2, <1>3, <1>4, <1>5, <1>6, <1>7, <1>8, <1>9

LEMMA WriteTmpInv == ASSUME IInv, NEW p \in Procs, WriteTmp(p) PROVE IInv'
<1> USE DEF WriteTmp, IInv
<1>1. Cardinality(files) \in Nat /\ view[p] = files
  BY FS_CardinalityType DEF TypeOK, TailInv
<1>2. PICK d \in Digests :
        tmp' = [tmp EXCEPT ![p] =
                  [seq |-> Cardinality(files) + 1, prev |-> TailDigest(files),
                   digest |-> d, whole |-> FALSE]]
  BY <1>1
<1>3. /\ TailDigest(files) \in Digests \cup {NoDigest}
      /\ \A e \in files : e.seq = Cardinality(files) => TailDigest(files) = e.digest
  <2>1. CASE files = {}
    BY <2>1 DEF TailDigest
  <2>2. CASE files # {}
    <3>1. PICK e \in files : e.seq = Cardinality(files)
      <4>1. Cardinality(files) # 0
        BY <2>2, FS_EmptySet DEF TypeOK
      <4> QED BY <1>1, <4>1, EveryPositionTaken DEF TypeOK, NeverForked
    <3>2. \A f \in files : f.seq = Cardinality(files) => f = e
      BY <3>1 DEF NeverForked, VerifyChain
    <3>3. (CHOOSE f \in files : f.seq = Cardinality(files)) = e
      BY <3>1, <3>2
    <3>4. TailDigest(files) = e.digest
      BY <2>2, <3>3 DEF TailDigest
    <3>5. e.digest \in Digests
      BY <3>1 DEF TypeOK, Event
    <3> QED BY <3>2, <3>4, <3>5
  <2> QED BY <2>1, <2>2
<1>4. [seq |-> Cardinality(files) + 1, prev |-> TailDigest(files),
       digest |-> d, whole |-> FALSE] \in Event
  BY <1>1, <1>2, <1>3 DEF Event
<1>5. TypeOK'      BY <1>2, <1>4 DEF TypeOK, Writing
<1>6. NeverForked' BY DEF NeverForked, VerifyChain
<1>7. HolderInv'   BY DEF TypeOK, HolderInv, Writing
<1>8. TailInv'     BY <1>1 DEF TypeOK, TailInv
<1>9. TmpInv'
  <2>1. /\ tmp'[p].seq = Cardinality(files) + 1 /\ tmp'[p].prev = TailDigest(files)
        /\ tmp'[p] \in Event /\ pc'[p] = "writing" /\ files' = files
    BY <1>2, <1>4 DEF TypeOK
  <2>2. \A q \in Procs : q # p => tmp'[q] = tmp[q] /\ pc'[q] = pc[q]
    BY <1>2 DEF TypeOK
  <2> QED
    BY <1>3, <2>1, <2>2 DEF TmpInv
<1>10. DurableInv' /\ ViewInv' BY DEF DurableInv, ViewInv, UpTo
<1>11. CalmInv'    BY DEF CalmInv
<1> QED BY <1>5, <1>6, <1>7, <1>8, <1>9, <1>10, <1>11

LEMMA FlushTmpInv == ASSUME IInv, NEW p \in Procs, FlushTmp(p) PROVE IInv'
<1> USE DEF FlushTmp, IInv
<1>1. tmp[p] \in Event
  BY DEF TmpInv
<1>2. tmp'[p] \in Event /\ tmp'[p].whole /\ tmp'[p].seq = tmp[p].seq
      /\ tmp'[p].prev = tmp[p].prev
  BY <1>1 DEF TypeOK, Event
<1>3. \A q \in Procs : q # p => tmp'[q] = tmp[q]
  BY DEF TypeOK
<1>4. TypeOK'      BY <1>1, <1>2 DEF TypeOK, Writing, Event
<1>5. NeverForked' BY DEF NeverForked, VerifyChain
<1>6. HolderInv'   BY DEF TypeOK, HolderInv, Writing
<1>7. TailInv'     BY DEF TypeOK, TailInv
<1>8. TmpInv'      BY <1>2, <1>3 DEF TypeOK, TmpInv
<1>9. DurableInv' /\ ViewInv' BY DEF DurableInv, ViewInv, UpTo
<1>10. CalmInv'    BY DEF CalmInv
<1> QED BY <1>4, <1>5, <1>6, <1>7, <1>8, <1>9, <1>10

\* The one step that adds to the directory.
LEMMA RenameInv == ASSUME IInv, NEW p \in Procs, Rename(p) PROVE IInv'
<1> USE DEF Rename, IInv
<1>1. /\ tmp[p] \in Event /\ tmp[p].whole
      /\ tmp[p].seq = Cardinality(files) + 1
      /\ \A e \in files : e.seq = Cardinality(files) => tmp[p].prev = e.digest
  BY DEF TmpInv
<1>2. /\ IsFiniteSet(files') /\ Cardinality(files') = Cardinality(files) + 1
      /\ VerifyChain(files') /\ UpTo(files', Cardinality(files)) = files
  BY <1>1, NextEventVerifies DEF TypeOK, NeverForked
<1>3. Cardinality(files) \in Nat /\ synced \in 0 .. Cardinality(files)
  BY FS_CardinalityType DEF TypeOK
<1>4. lock = p /\ \A q \in Procs : pc[q] \in Writing => q = p
  BY DEF HolderInv, Writing
<1>5. TypeOK'      BY <1>1, <1>2, <1>3 DEF TypeOK, Writing
<1>6. NeverForked' BY <1>2 DEF NeverForked, VerifyChain
<1>7. HolderInv'   BY DEF TypeOK, HolderInv, Writing
<1>8. TailInv'     BY <1>4 DEF TypeOK, TailInv, Writing
<1>9. TmpInv'
  BY <1>1, <1>4 DEF TypeOK, TmpInv, Writing
<1>10. DurableInv' BY <1>2, <1>3 DEF DurableInv, UpTo
<1>11. ViewInv'
  <2> SUFFICES ASSUME NEW q \in Procs
               PROVE  \E n \in 0 .. Cardinality(files') : view[q] = UpTo(files', n)
    BY DEF ViewInv
  <2>1. PICK n \in 0 .. Cardinality(files) : view[q] = UpTo(files, n)
    BY DEF ViewInv
  <2>2. UpTo(files', n) = UpTo(files, n)
    BY <1>1, <1>3 DEF UpTo
  <2> QED BY <1>2, <1>3, <2>1, <2>2
<1>12. CalmInv'    BY DEF CalmInv
<1> QED BY <1>5, <1>6, <1>7, <1>8, <1>9, <1>10, <1>11, <1>12

LEMMA SyncDirectoryInv == ASSUME IInv, NEW p \in Procs, SyncDirectory(p) PROVE IInv'
<1> USE DEF SyncDirectory, IInv
<1>1. Cardinality(files) \in Nat
  BY FS_CardinalityType DEF TypeOK
<1>2. \A q \in Procs : pc[q] \in Writing => q = p
  BY DEF HolderInv, Writing
<1>3. TypeOK'      BY <1>1 DEF TypeOK, Writing
<1>4. NeverForked' BY DEF NeverForked, VerifyChain
<1>5. HolderInv'   BY DEF TypeOK, HolderInv, Writing
<1>6. TailInv'     BY DEF TypeOK, TailInv
<1>7. TmpInv'      BY <1>2 DEF TypeOK, TmpInv, Writing
<1>8. DurableInv'  BY <1>1 DEF TypeOK, DurableInv, UpTo, NeverForked, VerifyChain
<1>9. ViewInv'     BY DEF ViewInv, UpTo
<1>10. CalmInv'    BY DEF CalmInv
<1> QED BY <1>3, <1>4, <1>5, <1>6, <1>7, <1>8, <1>9, <1>10

\* An event is returned only once the directory has been synced behind it.
LEMMA ReturnInv == ASSUME IInv, NEW p \in Procs, Return(p) PROVE IInv'
<1> USE DEF Return, IInv
<1>1. Cardinality(files) \in Nat
  BY FS_CardinalityType DEF TypeOK
<1>2. tmp[p] \in files /\ synced = Cardinality(files)
  BY DEF TmpInv
<1>3. lock = p /\ \A q \in Procs : pc[q] \in Writing => q = p
  BY DEF HolderInv, Writing
<1>4. TypeOK'      BY <1>2 DEF TypeOK, Writing
<1>5. NeverForked' BY DEF NeverForked, VerifyChain
<1>6. HolderInv'   BY <1>3 DEF TypeOK, HolderInv, Writing
<1>7. TailInv'     BY DEF TypeOK, TailInv
<1>8. TmpInv'      BY DEF TypeOK, TmpInv
<1>9. DurableInv'
  <2>1. tmp[p] \in UpTo(files, synced)
    BY <1>1, <1>2 DEF UpTo, NeverForked, VerifyChain
  <2> QED BY <2>1 DEF DurableInv, UpTo
<1>10. ViewInv'    BY DEF ViewInv, UpTo
<1>11. CalmInv'    BY DEF TypeOK, CalmInv
<1> QED BY <1>4, <1>5, <1>6, <1>7, <1>8, <1>9, <1>10, <1>11

LEMMA ListFilesInv == ASSUME IInv, NEW p \in Procs, ListFiles(p) PROVE IInv'
<1> USE DEF ListFiles, IInv, EventFiles
<1>1. TypeOK'      BY DEF TypeOK, Writing
<1>2. NeverForked' BY DEF NeverForked, VerifyChain
<1>3. HolderInv'   BY DEF TypeOK, HolderInv, Writing
<1>4. TailInv'     BY DEF TypeOK, TailInv
<1>5. TmpInv'      BY DEF TypeOK, TmpInv
<1>6. DurableInv'  BY DEF DurableInv, UpTo
<1>7. ViewInv'     BY ListingIsPrefix DEF TypeOK, ViewInv, UpTo
<1>8. CalmInv'     BY DEF TypeOK, CalmInv
<1> QED BY <1>1, <1>2, <1>3, <1>4, <1>5, <1>6, <1>7, <1>8

\* Whatever a process listed, it verifies.
LEMMA ViewsVerify == ASSUME IInv, NEW p \in Procs PROVE VerifyChain(view[p])
  BY PrefixVerifies DEF IInv, TypeOK, NeverForked, ViewInv

LEMMA ReadFilesInv == ASSUME IInv, NEW p \in Procs, ReadFiles(p) PROVE IInv'
<1> USE DEF ReadFiles, IInv
<1>1. outcome' = [outcome EXCEPT ![p] = "loaded"]
  BY ViewsVerify
<1>2. TypeOK'      BY <1>1 DEF TypeOK, Writing
<1>3. NeverForked' BY DEF NeverForked, VerifyChain
<1>4. HolderInv'   BY DEF TypeOK, HolderInv, Writing
<1>5. TailInv'     BY DEF TypeOK, TailInv
<1>6. TmpInv'      BY DEF TypeOK, TmpInv
<1>7. DurableInv' /\ ViewInv' BY DEF DurableInv, ViewInv, UpTo
<1>8. CalmInv'     BY <1>1 DEF TypeOK, CalmInv
<1> QED BY <1>2, <1>3, <1>4, <1>5, <1>6, <1>7, <1>8

LEMMA CrashInv == ASSUME IInv, NEW p \in Procs, Crash(p) PROVE IInv'
<1> USE DEF Crash, IInv
<1>1. Cardinality(files) \in Nat
  BY FS_CardinalityType DEF TypeOK
<1>2. {} = UpTo(files, 0)
  BY <1>1 DEF UpTo, NeverForked, VerifyChain
<1>3. TypeOK'      BY DEF TypeOK, Writing
<1>4. NeverForked' BY DEF NeverForked, VerifyChain
<1>5. HolderInv'   BY DEF TypeOK, HolderInv, Writing
<1>6. TailInv'     BY DEF TypeOK, TailInv
<1>7. TmpInv'      BY DEF TypeOK, TmpInv
<1>8. DurableInv'  BY DEF DurableInv, UpTo
<1>9. ViewInv'     BY <1>1, <1>2 DEF TypeOK, ViewInv, UpTo
<1>10. CalmInv'    BY DEF TypeOK, CalmInv
<1> QED BY <1>3, <1>4, <1>5, <1>6, <1>7, <1>8, <1>9, <1>10

\* What a power failure leaves is a prefix that no returned event lies beyond.
LEMMA PowerLossInv == ASSUME IInv, PowerLoss PROVE IInv'
<1> USE DEF PowerLoss, IInv
<1>1. PICK n \in synced .. Cardinality(files) :
         files' = UpTo(files, n) /\ synced' = n
  BY DEF UpTo
<1>2. Cardinality(files) \in Nat /\ n \in 0 .. Cardinality(files) /\ synced \in Nat
  BY FS_CardinalityType DEF TypeOK
<1>3. /\ files' \in SUBSET Event /\ IsFiniteSet(files')
      /\ Cardinality(files') = n /\ VerifyChain(files')
  BY <1>1, <1>2, PrefixVerifies DEF TypeOK, NeverForked
<1>4. TypeOK'      BY <1>1, <1>2, <1>3 DEF TypeOK, Writing
<1>5. NeverForked' BY <1>3 DEF NeverForked, VerifyChain
<1>6. HolderInv'   BY DEF TypeOK, HolderInv, Writing
<1>7. TailInv'     BY DEF TypeOK, TailInv
<1>8. TmpInv'      BY DEF TypeOK, TmpInv
<1>9. DurableInv'
  <2>1. UpTo(files, synced) \subseteq UpTo(files', n)
    BY <1>1, <1>2 DEF UpTo, TypeOK, Event
  <2> QED BY <1>1, <2>1 DEF DurableInv
<1>10. ViewInv'
  <2>1. {} = UpTo(files', 0)
    BY <1>3 DEF UpTo, VerifyChain
  <2>2. 0 \in 0 .. Cardinality(files')
    BY <1>2, <1>3
  <2>3. \A q \in Procs : view'[q] = {}
    OBVIOUS
  <2>4. \A q \in Procs : view'[q] = UpTo(files', 0)
    BY <2>1, <2>3
  <2> QED BY <2>2, <2>4 DEF ViewInv
<1>11. CalmInv'    BY DEF CalmInv
<1> QED BY <1>4, <1>5, <1>6, <1>7, <1>8, <1>9, <1>10, <1>11

LEMMA StepInv == IInv /\ [Next]_vars => IInv'
<1> SUFFICES ASSUME IInv, [Next]_vars PROVE IInv'
  OBVIOUS
<1>1. CASE Next
  <2>1. CASE PowerLoss
    BY <2>1, PowerLossInv
  <2>2. ASSUME NEW p \in Procs, AppendStep(p) PROVE IInv'
    BY <2>2, LockInv, LoadTailInv, WriteTmpInv, FlushTmpInv, RenameInv,
       SyncDirectoryInv, ReturnInv DEF AppendStep
  <2>3. ASSUME NEW p \in Procs, Refuse(p) \/ ListFiles(p) \/ ReadFiles(p) \/ Crash(p)
        PROVE  IInv'
    BY <2>3, RefuseInv, ListFilesInv, ReadFilesInv, CrashInv
  <2> QED BY <1>1, <2>1, <2>2, <2>3 DEF Next
<1>2. CASE UNCHANGED vars
  BY <1>2 DEF vars, IInv, TypeOK, NeverForked, VerifyChain, HolderInv, TailInv, TmpInv,
              DurableInv, ViewInv, CalmInv, UpTo
<1> QED BY <1>1, <1>2

THEOREM Invariance == Spec => []IInv
  BY InitInv, StepInv, PTL DEF Spec

\* The variables keep their types, for any processes and any length of log.
THEOREM TypeCorrect == Spec => []TypeOK
  BY Invariance, PTL DEF IInv

\* However appends, listings, kills and power failures interleave, the
\* directory of a job verifies at every moment.
THEOREM LogNeverForks == Spec => []NeverForked
  BY Invariance, PTL DEF IInv

\* No caller of load() or append() is told that the log is broken.
THEOREM LogNeverSeenBroken == Spec => []NeverSeenBroken
<1>1. IInv => NeverSeenBroken
  BY ViewsVerify DEF IInv, CalmInv, NeverSeenBroken
<1> QED BY <1>1, Invariance, PTL

\* An event that append() returned is never lost.
THEOREM ReturnedNeverLost == Spec => []ReturnedSurvives
<1>1. IInv => ReturnedSurvives
  BY DEF IInv, DurableInv, UpTo, ReturnedSurvives
<1> QED BY <1>1, Invariance, PTL
-----------------------------------------------------------------------------
(* The directory implements AppendLog.                                       *)

\* LogOf gives the event at each position of a directory that verifies.
LEMMA LogOfPosition ==
  ASSUME NEW fs \in SUBSET Event, IsFiniteSet(fs), VerifyChain(fs)
  PROVE  /\ LogOf(fs) \in Seq(Event) /\ Len(LogOf(fs)) = Cardinality(fs)
         /\ \A e \in fs : e.seq \in 1 .. Cardinality(fs) /\ LogOf(fs)[e.seq] = e
<1>1. Cardinality(fs) \in Nat
  BY EveryPositionTaken
<1>2. \A i \in 1 .. Cardinality(fs) : \E e \in fs : e.seq = i
  BY EveryPositionTaken
<1>3. \A e \in fs : e.seq \in 1 .. Cardinality(fs) /\ (CHOOSE f \in fs : f.seq = e.seq) = e
  BY DEF VerifyChain
<1>4. \A i \in 1 .. Cardinality(fs) : (CHOOSE f \in fs : f.seq = i) \in fs
  BY <1>2
<1>5. LogOf(fs) \in [1 .. Cardinality(fs) -> Event]
  BY <1>4 DEF LogOf
<1>6. LogOf(fs) \in Seq(Event) /\ Len(LogOf(fs)) = Cardinality(fs)
  BY <1>1, <1>5
<1> QED BY <1>3, <1>6 DEF LogOf

LEMMA PromiseInit == Init => Promise!Init
<1> SUFFICES ASSUME Init PROVE Promise!Init
  OBVIOUS
<1>1. Cardinality(files) = 0
  BY FS_EmptySet DEF Init
<1>2. LogOf(files) = <<>>
  BY <1>1 DEF LogOf
<1> QED BY <1>2 DEF Init, Promise!Init

\* A rename appends.
LEMMA RenameAppends ==
  ASSUME IInv, NEW p \in Procs, Rename(p) PROVE Promise!AppendEvent
<1> USE DEF Rename, IInv
<1>1. /\ tmp[p] \in Event /\ tmp[p].whole
      /\ tmp[p].seq = Cardinality(files) + 1
      /\ \A e \in files : e.seq = Cardinality(files) => tmp[p].prev = e.digest
  BY DEF TmpInv
<1>2. /\ IsFiniteSet(files') /\ Cardinality(files') = Cardinality(files) + 1
      /\ VerifyChain(files') /\ files' \in SUBSET Event
  BY <1>1, NextEventVerifies DEF TypeOK, NeverForked
<1>3. Cardinality(files) \in Nat
  BY FS_CardinalityType DEF TypeOK
<1> DEFINE L == LogOf(files)
           M == LogOf(files')
<1>4. /\ L \in Seq(Event) /\ Len(L) = Cardinality(files)
      /\ \A e \in files : e.seq \in 1 .. Len(L) /\ L[e.seq] = e
  BY LogOfPosition DEF TypeOK, NeverForked
<1>5. /\ M \in Seq(Event) /\ Len(M) = Cardinality(files) + 1
      /\ \A e \in files' : e.seq \in 1 .. Len(M) /\ M[e.seq] = e
  BY <1>2, LogOfPosition
<1>6. M[Len(M)] = tmp[p]
  BY <1>1, <1>5
<1>7. \A i \in 1 .. Len(L) : M[i] = L[i]
  <2>1. \A i \in 1 .. Len(L) : \E e \in files : e.seq = i
    BY <1>4, EveryPositionTaken DEF TypeOK, NeverForked
  <2> HIDE DEF L, M
  <2> SUFFICES ASSUME NEW i \in 1 .. Len(L) PROVE M[i] = L[i]
    OBVIOUS
  <2>2. PICK e \in files : e.seq = i
    BY <2>1
  <2>3. e \in files'
    OBVIOUS
  <2> QED BY <2>2, <2>3, <1>4, <1>5
<1>8. M = Append(L, M[Len(M)])
  <2> HIDE DEF L, M
  <2> QED BY <1>1, <1>3, <1>4, <1>5, <1>6, <1>7
<1>9. M # <<>> /\ M[Len(M)] \in Event /\ synced' = synced
  <2> HIDE DEF L, M
  <2> QED BY <1>1, <1>3, <1>5, <1>6
<1> QED BY <1>8, <1>9 DEF Promise!AppendEvent

\* A power failure takes a tail that was never acknowledged.
LEMMA PowerLossTakesTail ==
  ASSUME IInv, PowerLoss PROVE Promise!LoseTail
<1> USE DEF PowerLoss, IInv
<1>1. PICK n \in synced .. Cardinality(files) :
         files' = UpTo(files, n) /\ synced' = n
  BY DEF UpTo
<1>2. Cardinality(files) \in Nat /\ n \in 0 .. Cardinality(files) /\ synced \in Nat
  BY FS_CardinalityType DEF TypeOK
<1>3. /\ files' \in SUBSET Event /\ IsFiniteSet(files')
      /\ Cardinality(files') = n /\ VerifyChain(files')
  BY <1>1, <1>2, PrefixVerifies DEF TypeOK, NeverForked
<1> DEFINE L == LogOf(files)
           M == LogOf(files')
<1>4. /\ L \in Seq(Event) /\ Len(L) = Cardinality(files)
      /\ \A e \in files : e.seq \in 1 .. Len(L) /\ L[e.seq] = e
  BY LogOfPosition DEF TypeOK, NeverForked
<1>5. /\ M \in Seq(Event) /\ Len(M) = n
      /\ \A e \in files' : e.seq \in 1 .. Len(M) /\ M[e.seq] = e
  BY <1>3, LogOfPosition
<1>6. \A i \in 1 .. n : M[i] = L[i]
  <2>1. \A i \in 1 .. n : \E e \in files' : e.seq = i
    BY <1>3, EveryPositionTaken
  <2>2. files' \subseteq files
    BY <1>1 DEF UpTo
  <2> HIDE DEF L, M
  <2> SUFFICES ASSUME NEW i \in 1 .. n PROVE M[i] = L[i]
    OBVIOUS
  <2>3. PICK e \in files' : e.seq = i
    BY <2>1
  <2> QED BY <2>2, <2>3, <1>4, <1>5
<1>7. M = SubSeq(L, 1, n)
  <2> HIDE DEF L, M
  <2> QED BY <1>2, <1>4, <1>5, <1>6
<1>8. n \in synced .. Len(L)
  BY <1>4
<1> QED BY <1>1, <1>7, <1>8 DEF Promise!LoseTail

LEMMA PromiseStep == IInv /\ [Next]_vars => [Promise!Next]_(Promise!vars)
<1> SUFFICES ASSUME IInv, [Next]_vars PROVE [Promise!Next]_(Promise!vars)
  OBVIOUS
<1>1. ASSUME NEW p \in Procs, SyncDirectory(p) PROVE Promise!Acknowledge
  <2>1. Len(LogOf(files)) = Cardinality(files)
    BY LogOfPosition DEF IInv, TypeOK, NeverForked
  <2> QED BY <1>1, <2>1 DEF SyncDirectory, Promise!Acknowledge
<1>2. ASSUME files' = files, synced' = synced PROVE UNCHANGED Promise!vars
  BY <1>2 DEF Promise!vars, LogOf
<1>3. CASE PowerLoss
  BY <1>3, PowerLossTakesTail DEF Promise!Next
<1>4. ASSUME NEW p \in Procs, Rename(p) PROVE Promise!Next
  BY <1>4, RenameAppends DEF Promise!Next
<1>5. ASSUME NEW p \in Procs,
             \/ Lock(p) \/ LoadTail(p) \/ WriteTmp(p) \/ FlushTmp(p) \/ Return(p)
             \/ Refuse(p) \/ ListFiles(p) \/ ReadFiles(p) \/ Crash(p)
      PROVE  files' = files /\ synced' = synced
  BY <1>5 DEF Lock, LoadTail, WriteTmp, FlushTmp, Return, Refuse, ListFiles, ReadFiles, Crash
<1>6. CASE UNCHANGED vars
  BY <1>6, <1>2 DEF vars
<1>7. CASE Next
  BY <1>1, <1>2, <1>3, <1>4, <1>5, <1>7 DEF Next, AppendStep, Promise!Next
<1> QED BY <1>6, <1>7

\* store.py's directory of files, with every crash it allows, implements the
\* append-only log whose acknowledged events are never lost.
THEOREM StoreImplementsLog == Spec => KeepsPromise
<1>1. Init => Promise!Init
  BY PromiseInit
<1>2. IInv /\ [Next]_vars => [Promise!Next]_(Promise!vars)
  BY PromiseStep
<1> QED BY <1>1, <1>2, Invariance, PTL DEF Spec, KeepsPromise, Promise!Spec
=============================================================================
