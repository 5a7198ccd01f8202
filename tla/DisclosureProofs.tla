-------------------------- MODULE DisclosureProofs --------------------------
(***************************************************************************)
(* What holds of disclosure for any models, policy, preferences, budget    *)
(* and material, and any number of jobs and calls.                         *)
(***************************************************************************)
EXTENDS Disclosure, FiniteSetTheorems, WellFoundedInduction, TLAPS

USE DisclosureAssumption

-----------------------------------------------------------------------------
(* The model that is chosen. *)

LEMMA Least ==
  ASSUME NEW S, S # {}, NEW f \in [S -> Nat]
  PROVE  \E x \in S : \A y \in S : f[x] <= f[y]
<1> DEFINE R == {p \in Nat \X Nat : p[1] < p[2]}
           T == {f[x] : x \in S}
<1>1. T \subseteq Nat /\ T # {}  OBVIOUS
<1>2. IsWellFoundedOn(R, Nat)  BY NatLessThanWellFounded DEF OpToRel
<1>3. PICK n \in T : \A m \in T : <<m, n>> \notin R
  <2> HIDE DEF R, T
  <2> QED  BY <1>1, <1>2, WFMin
<1>4. \A m \in T : n <= m
  <2> TAKE m \in T
  <2>1. m \in Nat /\ n \in Nat /\ <<m, n>> \in Nat \X Nat  BY <1>1
  <2>2. ~ (<<m, n>>[1] < <<m, n>>[2])  BY <1>3, <2>1
  <2> QED  BY <2>1, <2>2
<1>5. PICK x \in S : n = f[x]  OBVIOUS
<1> QED  BY <1>4, <1>5

LEMMA PlaceIsOne ==
  ASSUME NEW s \in Seq(Backends), NEW b \in InOrder(s)
  PROVE  Place(s, b) \in Nat /\ s[Place(s, b)] = b
<1> DEFINE S == {i \in DOMAIN s : s[i] = b}
           f == [i \in S |-> i]
<1>1. S # {} /\ f \in [S -> Nat] /\ S \subseteq Nat  BY DEF InOrder
<1>2. PICK i \in S : \A k \in S : f[i] <= f[k]
  <2> HIDE DEF S, f
  <2> QED  BY <1>1, Least
<1>3. \E k \in DOMAIN s : s[k] = b /\ \A n \in DOMAIN s : s[n] = b => k <= n
  BY <1>2
<1>4. Place(s, b) \in DOMAIN s /\ s[Place(s, b)] = b  BY <1>3 DEF Place
<1> QED  BY <1>4

LEMMA PolicyTypes ==
  ASSUME NEW l \in Levels PROVE Policy[l] \in Seq(Backends) /\ Permitted(l) \subseteq Backends
BY DEF Permitted, InOrder

\* Of several models one precedes the others, so the choice is one of them.
LEMMA OnePrecedes ==
  ASSUME NEW l \in Levels, NEW vision \in BOOLEAN, NEW p \in Preferences,
         NEW open, open = Narrowed(Capable(l, vision), p), open # {}
  PROVE  \E b \in open : \A o \in open : Precedes(l, p, b, o)
<1> DEFINE named == Narrowed(Capable(l, vision), p) \cap InOrder(p.names) # {}
           order == IF named THEN p.names ELSE Policy[l]
<1>1. /\ p.names \in Seq(Backends) /\ Policy[l] \in Seq(Backends)
      /\ Capable(l, vision) \subseteq Permitted(l)
      /\ Permitted(l) \subseteq Backends /\ open \subseteq Capable(l, vision)
  BY PolicyTypes DEF Capable, Narrowed
<1>2. \A b \in open : IF named THEN b \in InOrder(p.names)
                               ELSE b \notin InOrder(p.names) /\ b \in InOrder(Policy[l])
  BY <1>1 DEF Narrowed, Permitted
<1>3. order \in Seq(Backends) /\ \A b \in open : b \in InOrder(order)  BY <1>1, <1>2
<1> HIDE DEF order
<1>4. \A b \in open : Residence[b] \in Nat /\ Place(order, b) \in Nat
  <2> TAKE b \in open
  <2>1. b \in Backends /\ b \in InOrder(order)  BY <1>1, <1>3
  <2>2. Residence[b] \in 0 .. 2  BY <2>1 DEF Residences
  <2> QED  BY <2>1, <2>2, <1>3, PlaceIsOne
<1>5. PICK x \in open : \A y \in open : Residence[x] <= Residence[y]
  <2> DEFINE f == [b \in open |-> Residence[b]]
  <2>1. f \in [open -> Nat]  BY <1>4
  <2>2. \E x \in open : \A y \in open : f[x] <= f[y]
    <3> HIDE DEF f
    <3> QED  BY <2>1, Least
  <2> QED  BY <2>2
<1> DEFINE T == {b \in open : Residence[b] = Residence[x]}
<1>6. PICK b \in T : \A o \in T : Place(order, b) <= Place(order, o)
  <2> DEFINE f == [b \in T |-> Place(order, b)]
  <2>1. T # {} /\ f \in [T -> Nat]  BY <1>4
  <2>2. \E b \in T : \A o \in T : f[b] <= f[o]
    <3> HIDE DEF f, T
    <3> QED  BY <2>1, Least
  <2> QED  BY <2>2
<1>7. order = IF b \in InOrder(p.names) THEN p.names ELSE Policy[l]
  BY <1>2 DEF order
<1>8. \A o \in open : Precedes(l, p, b, o)
  <2> TAKE o \in open
  <2>1. CASE o \in T  BY <2>1, <1>6, <1>7 DEF Precedes
  <2>2. CASE o \notin T
    <3>1. Residence[b] < Residence[o]  BY <2>2, <1>4, <1>5
    <3> QED  BY <3>1 DEF Precedes
  <2> QED  BY <2>1, <2>2
<1> QED  BY <1>8

\* The model a call is given is one that policy permits at the level asked
\* for, whatever the preference of the process (policy/pep.py).
LEMMA ResolvedIsPermitted ==
  ASSUME TypeOK, NEW l \in Levels, NEW vision \in BOOLEAN,
         ResolveBackend(l, vision) # NoBackend
  PROVE  /\ ResolveBackend(l, vision) \in Permitted(l)
         /\ ResolveBackend(l, vision) \in Backends
<1> DEFINE open == Narrowed(Capable(l, vision), preference)
<1>1. open # {}  BY DEF ResolveBackend
<1>2. \E b \in open : \A o \in open : Precedes(l, preference, b, o)
  BY <1>1, OnePrecedes DEF TypeOK
<1>3. ResolveBackend(l, vision) \in open
  <2> HIDE DEF open
  <2>1. ResolveBackend(l, vision) =
          CHOOSE b \in open : \A o \in open : Precedes(l, preference, b, o)
    BY <1>1 DEF ResolveBackend, open
  <2> QED  BY <1>2, <2>1
<1>4. open \subseteq Permitted(l)  BY DEF Narrowed, Capable
<1> QED  BY <1>3, <1>4, PolicyTypes

-----------------------------------------------------------------------------
(* Type correctness. *)

LEMMA LevelsAre == /\ Levels = {0, 1, 2} /\ NoLevel \notin Levels /\ 2 \in Levels
                   /\ \A l \in Levels \cup {NoLevel} : Current(l) \in Levels
BY DEF Levels, NoLevel, Current

LEMMA IdleIsOne == Idle \in CallStates /\ CallOK(Idle)
<1>1. Idle.level \in Levels /\ Idle.worst \in Levels  BY LevelsAre DEF Idle, Levels
<1>2. Idle.read \in 0 .. MaxChunks /\ Idle.least \in Levels  BY LevelsAre DEF Idle
<1> QED  BY <1>1, <1>2 DEF Idle, CallStates, CallOK, Pcs

LEMMA ReleaseIsOne ==
  ASSUME NEW a \in Artefacts, NEW k \in Kinds, NEW b \in Backends
  PROVE  Release(a, k, b) \in Releases
BY DEF Release, Releases

\* One call moves to a good state, and the others stay where they are.
LEMMA CallMoves ==
  ASSUME TypeOK, NEW c \in Callers, NEW r \in CallStates, CallOK(r),
         call' = [call EXCEPT ![c] = r]
  PROVE  /\ call' \in [Callers -> CallStates] /\ \A d \in Callers : CallOK(call'[d])
         /\ call'[c] = r /\ \A d \in Callers \ {c} : call'[d] = call[d]
BY DEF TypeOK

LEMMA TypesOfOneCall ==
  ASSUME TypeOK, NEW c \in Callers, NEW r \in CallStates, CallOK(r),
         call' = [call EXCEPT ![c] = r], UNCHANGED <<job, level, preference, ledger>>
  PROVE  TypeOK'
BY CallMoves DEF TypeOK

LEMMA HaltIsOne ==
  ASSUME TypeOK, NEW c \in Callers, call[c].pc # "idle"
  PROVE  /\ [Idle EXCEPT !.pc = "halted", !.job = call[c].job] \in CallStates
         /\ CallOK([Idle EXCEPT !.pc = "halted", !.job = call[c].job])
<1> DEFINE r == [Idle EXCEPT !.pc = "halted", !.job = call[c].job]
<1>1. call[c].job \in Jobs  BY DEF TypeOK, CallOK
<1>2. r \in CallStates  BY <1>1, IdleIsOne DEF CallStates, Pcs
<1>3. /\ r.pc = "halted" /\ r.job = call[c].job /\ r.why = "none"
      /\ r.todo = {} /\ r.next = {}
  BY DEF Idle
<1> HIDE DEF r
<1>4. CallOK(r)  BY <1>1, <1>3 DEF CallOK
<1> QED  BY <1>2, <1>4 DEF r

LEMMA TypesOfHalt ==
  ASSUME TypeOK, NEW c \in Callers, call[c].pc # "idle", Halt(c),
         UNCHANGED <<job, level, preference, ledger>>
  PROVE  TypeOK'
BY HaltIsOne, TypesOfOneCall DEF Halt

\* A release that is checked ends the call or is on its way to the ledger.
LEMMA TypesOfCheck ==
  ASSUME TypeOK, NEW c \in Callers, call[c].pc \in {"probing", "reading", "chunking"},
         NEW r \in Releases, NEW todo \in SUBSET call[c].todo,
         Check(c, r, [call[c] EXCEPT !.todo = todo]),
         call[c].why = "content" => call[c].read < MaxChunks,
         UNCHANGED <<job, level, preference, ledger>>
  PROVE  TypeOK'
<1>1. CASE Halt(c)  BY <1>1, TypesOfHalt
<1>2. CASE ~Halt(c)
  <2> DEFINE w == [call[c] EXCEPT !.todo = todo, !.pc = "recording", !.next = {r}]
  <2>0. call[c] \in CallStates /\ CallOK(call[c])  BY DEF TypeOK
  <2>1. call' = [call EXCEPT ![c] = w]  BY <1>2 DEF Check
  <2>2. w \in CallStates
    <3>1. todo \in SUBSET (Releases \cup Images)  BY <2>0 DEF CallStates
    <3> QED  BY <2>0, <3>1 DEF CallStates, Pcs
  <2>3. /\ w.pc = "recording" /\ w.why = call[c].why /\ w.job = call[c].job
        /\ w.todo \subseteq call[c].todo /\ w.next = {r} /\ w.read = call[c].read
    BY <2>0 DEF CallStates
  <2> HIDE DEF w
  <2>4. CallOK(w)  BY <2>0, <2>3 DEF CallOK
  <2> QED  BY <2>1, <2>2, <2>4, TypesOfOneCall
<1> QED  BY <1>1, <1>2

\* Two states of a call that differ in its history, which goes down.
Alike(r, s) ==
    /\ r.pc = s.pc /\ r.why = s.why /\ r.job = s.job /\ r.level = s.level
    /\ r.todo = s.todo /\ r.shown = s.shown /\ r.next = s.next
    /\ r.worst = s.worst /\ r.alone = s.alone /\ r.read = s.read
    /\ r.least <= s.least

LEMMA HavingTypes ==
  ASSUME TypeOK, NEW j \in Jobs, NEW l \in Levels, call' = Having(call, j, l),
         NEW c \in Callers
  PROVE  /\ call'[c] \in CallStates /\ CallOK(call'[c])
         /\ Alike(call'[c], call[c])
<1>0. call[c] \in CallStates /\ CallOK(call[c])  BY DEF TypeOK
<1>1. Current(l) \in Levels  BY LevelsAre
<1>2. call[c].least \in Nat  BY <1>0 DEF CallStates, Levels
<1> DEFINE w == [call[c] EXCEPT !.least = Current(l)]
<1>3. call'[c] = call[c] \/ (call'[c] = w /\ Current(l) < call[c].least)
  BY DEF Having
<1>4. CASE call'[c] = call[c]  BY <1>0, <1>2, <1>4 DEF Alike
<1>5. CASE call'[c] = w /\ Current(l) < call[c].least
  <2>1. w \in CallStates  BY <1>0, <1>1 DEF CallStates
  <2>2. /\ w.pc = call[c].pc /\ w.why = call[c].why /\ w.job = call[c].job
        /\ w.level = call[c].level /\ w.todo = call[c].todo
        /\ w.shown = call[c].shown /\ w.next = call[c].next
        /\ w.worst = call[c].worst /\ w.alone = call[c].alone
        /\ w.read = call[c].read /\ w.least = Current(l)
    BY <1>0 DEF CallStates
  <2> HIDE DEF w
  <2>3. Current(l) <= call[c].least
    <3>1. Current(l) \in Nat  BY <1>1 DEF Levels
    <3> QED  BY <1>2, <1>5, <3>1
  <2>4. CallOK(w)  BY <1>0, <2>2 DEF CallOK
  <2>5. Alike(w, call[c])  BY <2>2, <2>3 DEF Alike
  <2> QED  BY <1>5, <2>1, <2>4, <2>5
<1> QED  BY <1>3, <1>4, <1>5

LEMMA TypesOfJobs ==
  ASSUME TypeOK, NEW j \in Jobs,
         \/ Ingest(j) \/ ResolveDmp(j) \/ RecordPreference(j)
         \/ ReadInstruction(j) \/ ReadStatement(j)
         \/ DraftRecord(j) \/ DraftDocumentation(j) \/ ProposeRedactions(j)
         \/ \E l \in Levels : ConfirmDeclaration(j, l)
  PROVE  TypeOK'
<1>1. CASE Ingest(j)
  <2>1. PICK p \in Preferences :
          job' = [job EXCEPT ![j] = [pc |-> "creating", asks |-> p, within |-> 2]]
    BY <1>1 DEF Ingest
  <2>2. [pc |-> "creating", asks |-> p, within |-> 2]
          \in [pc : {"new", "creating", "ready", "kept"}, asks : Preferences,
               within : Residences]
    BY DEF Residences
  <2> QED  BY <1>1, <2>1, <2>2 DEF Ingest, TypeOK
<1>2. CASE RecordPreference(j)
  <2>1. job[j].asks \in Preferences /\ job[j].asks.ceiling \in Residences
    BY DEF TypeOK
  <2>2. preference' \in Preferences  BY <1>2, <2>1 DEF RecordPreference, TypeOK
  <2>3. ASSUME NEW i \in Jobs
        PROVE  job'[i] \in [pc : {"new", "creating", "ready", "kept"},
                            asks : Preferences, within : Residences]
    <3>1. job[i] \in [pc : {"new", "creating", "ready", "kept"}, asks : Preferences,
                      within : Residences]
      BY DEF TypeOK
    <3>2. Widened(job[i].within, job[j].asks) \in Residences
      BY <2>1, <3>1 DEF Widened
    <3>3. CASE i = j
      <4>1. job'[i] = [job[i] EXCEPT !.pc = "ready", !.within = job[j].asks.ceiling]
        BY <1>2, <3>3 DEF RecordPreference
      <4> QED  BY <2>1, <3>1, <4>1
    <3>4. CASE i # j
      <4>1. job'[i] = [job[i] EXCEPT !.within = Widened(job[i].within, job[j].asks)]
        BY <1>2, <3>4 DEF RecordPreference
      <4> QED  BY <3>1, <3>2, <4>1
    <3> QED  BY <3>3, <3>4
  <2>4. job' \in [Jobs -> [pc : {"new", "creating", "ready", "kept"}, asks : Preferences,
                          within : Residences]]
    <3>1. job' = [i \in Jobs |-> job'[i]]  BY <1>2 DEF RecordPreference
    <3> QED  BY <2>3, <3>1
  <2> QED  BY <1>2, <2>2, <2>4 DEF RecordPreference, TypeOK
<1>3. CASE \E l \in Levels : ConfirmDeclaration(j, l)
  <2>1. PICK l \in Levels : ConfirmDeclaration(j, l)  BY <1>3
  <2>2. call' = Having(call, j, l)  BY <2>1 DEF ConfirmDeclaration
  <2>3. call' = [c \in Callers |-> call'[c]]  BY <2>2, Zenon DEF Having
  <2>4. \A c \in Callers : call'[c] \in CallStates /\ CallOK(call'[c])
    BY <2>2, HavingTypes
  <2>5. level' \in [Jobs -> Levels \cup {NoLevel}]
    BY <2>1 DEF ConfirmDeclaration, TypeOK
  <2>6. UNCHANGED <<job, preference, ledger>>  BY <2>1 DEF ConfirmDeclaration
  <2> HIDE DEF Having
  <2> QED  BY <2>3, <2>4, <2>5, <2>6 DEF TypeOK
<1>4. CASE \/ ResolveDmp(j) \/ ReadInstruction(j) \/ ReadStatement(j)
           \/ DraftRecord(j) \/ DraftDocumentation(j) \/ ProposeRedactions(j)
  <2>1. UNCHANGED <<job, level, preference, ledger, call>>
    BY <1>4 DEF ResolveDmp, ReadInstruction, ReadStatement, DraftRecord,
                DraftDocumentation, ProposeRedactions, ShowWords
  <2> QED  BY <2>1 DEF TypeOK
<1> QED  BY <1>1, <1>2, <1>3, <1>4

LEMMA TypesOfBegin ==
  ASSUME TypeOK, NEW c \in Callers, NEW j \in Jobs,
         NEW why, NEW pc, NEW todo \in SUBSET (Releases \cup Images),
         Begin(c, j, why, pc, todo),
         \/ why = "classify" /\ pc = "proposing" /\ todo \subseteq Releases
         \/ why = "media" /\ pc = "looking" /\ todo \subseteq Images
         \/ why = "content" /\ pc = "chunking" /\ todo \subseteq Releases
  PROVE  TypeOK'
<1> DEFINE w == [Idle EXCEPT !.pc = pc, !.why = why, !.job = j,
                             !.level = Current(level[j]), !.todo = todo,
                             !.least = Current(level[j])]
<1>1. call' = [call EXCEPT ![c] = w] /\ UNCHANGED <<job, level, preference, ledger>>
  BY DEF Begin
<1>2. Current(level[j]) \in Levels  BY LevelsAre DEF TypeOK
<1>3. w \in CallStates  BY <1>2, IdleIsOne DEF CallStates, Pcs
<1>4. /\ w.pc = pc /\ w.why = why /\ w.job = j /\ w.todo = todo /\ w.next = {}
      /\ w.read = 0
  BY DEF Idle
<1> HIDE DEF w
<1>5. CallOK(w)  BY <1>4 DEF CallOK
<1> QED  BY <1>1, <1>3, <1>5, TypesOfOneCall


LEMMA SameTodo ==
  ASSUME TypeOK, NEW c \in Callers
  PROVE  [call[c] EXCEPT !.todo = call[c].todo] = call[c]
<1>1. call[c] \in CallStates  BY DEF TypeOK
<1> QED  BY <1>1 DEF CallStates

LEMMA TypesOfProbing ==
  ASSUME TypeOK, NEW c \in Callers,
         RunProbes(c) \/ RunProbe(c) \/ Interpret(c) \/ Conclude(c)
  PROVE  TypeOK'
<1>0. call[c] \in CallStates /\ CallOK(call[c])  BY DEF TypeOK
<1>1. CASE RunProbes(c)
  <2> DEFINE b == ResolveBackend(call[c].level, FALSE)
  <2>1. CASE b = NoBackend  BY <1>1, <2>1, TypesOfHalt DEF RunProbes
  <2>2. CASE b # NoBackend
    <3>1. PICK todo \in SUBSET [artefact : Documents \cap Holds[call[c].job],
                                kind : {"aggregate", "sample"}, backend : {b}] :
             call' = [call EXCEPT ![c].pc = "probing", ![c].todo = todo]
      BY <1>1, <2>2 DEF RunProbes, Accepted, Probes
    <3>2. b \in Backends
      BY <1>0, <2>2, ResolvedIsPermitted DEF CallStates
    <3>3. todo \subseteq Releases
      <4> HIDE DEF b
      <4> QED  BY <3>2 DEF Releases, Kinds, Artefacts
    <3> DEFINE w == [call[c] EXCEPT !.pc = "probing", !.todo = todo]
    <3>4. call' = [call EXCEPT ![c] = w]  BY <3>1 DEF TypeOK
    <3>5. w \in CallStates  BY <1>0, <3>3 DEF CallStates, Pcs
    <3>6. /\ w.pc = "probing" /\ w.why = call[c].why /\ w.job = call[c].job
          /\ w.todo = todo /\ w.next = call[c].next
      BY <1>0 DEF CallStates
    <3>7. CallOK(w)
      <4> HIDE DEF w, b
      <4> QED  BY <1>0, <1>1, <3>3, <3>6 DEF CallOK, RunProbes
    <3>8. UNCHANGED <<job, level, preference, ledger>>  BY <1>1 DEF RunProbes
    <3> QED
      <4> HIDE DEF w
      <4> QED  BY <3>4, <3>5, <3>7, <3>8, TypesOfOneCall
  <2> QED  BY <2>1, <2>2
<1>2. CASE RunProbe(c)
  <2>1. PICK r \in call[c].todo : Check(c, r, [call[c] EXCEPT !.todo = @ \ {r}])
    BY <1>2 DEF RunProbe
  <2>2. r \in Releases /\ call[c].why = "classify"
    BY <1>0, <1>2 DEF RunProbe, CallOK
  <2>3. call[c].todo \ {r} \in SUBSET call[c].todo  OBVIOUS
  <2>4. UNCHANGED <<job, level, preference, ledger>> /\ call[c].pc = "probing"
    BY <1>2 DEF RunProbe
  <2> QED  BY <2>1, <2>2, <2>3, <2>4, TypesOfCheck
<1>3. CASE Interpret(c)
  <2>1. CASE Halt(c)
    BY <1>3, <2>1, TypesOfHalt DEF Interpret
  <2>2. CASE ~Halt(c)
    <3>1. PICK worst \in Levels :
             call' = [call EXCEPT ![c].pc = "concluding", ![c].worst = worst]
      BY <1>3, <2>2 DEF Interpret
    <3> DEFINE w == [call[c] EXCEPT !.pc = "concluding", !.worst = worst]
    <3>2. call' = [call EXCEPT ![c] = w]  BY <3>1 DEF TypeOK
    <3>3. w \in CallStates  BY <1>0 DEF CallStates, Pcs
    <3>4. /\ w.pc = "concluding" /\ w.why = call[c].why /\ w.job = call[c].job
          /\ w.todo = call[c].todo /\ w.next = call[c].next
      BY <1>0 DEF CallStates
    <3>5. CallOK(w)
      <4> HIDE DEF w
      <4> QED  BY <1>0, <1>3, <3>4 DEF CallOK, Interpret
    <3> QED
      <4> HIDE DEF w
      <4> QED  BY <1>3, <3>2, <3>3, <3>5, TypesOfOneCall DEF Interpret
  <2> QED  BY <2>1, <2>2
<1>4. CASE Conclude(c)
  <2>1. Tightened(level[call[c].job], call[c].worst) \in Levels \cup {NoLevel}
    BY <1>0, <1>4 DEF Conclude, Tightened, CallOK, CallStates, TypeOK
  <2>2. level' \in [Jobs -> Levels \cup {NoLevel}]
    BY <1>4, <2>1 DEF Conclude, TypeOK
  <2>3. call' \in [Callers -> CallStates] /\ \A d \in Callers : CallOK(call'[d])
    BY <1>4, IdleIsOne, CallMoves DEF Conclude
  <2> QED  BY <1>4, <2>2, <2>3 DEF Conclude, TypeOK
<1> QED  BY <1>1, <1>2, <1>3, <1>4

LEMMA EnteredTypes ==
  ASSUME NEW l \in [bytes : Nat, of : [Artefacts -> Nat], releases : Nat,
                    entries : SUBSET Releases],
         NEW r \in Releases
  PROVE  /\ Entered(l, r) \in [bytes : Nat, of : [Artefacts -> Nat], releases : Nat,
                               entries : SUBSET Releases]
         /\ Charge(r) \in Nat
         /\ Entered(l, r).bytes = l.bytes + Charge(r)
         /\ Entered(l, r).releases = l.releases + 1
         /\ Entered(l, r).of = [l.of EXCEPT ![r.artefact] = @ + Charge(r)]
<1>1. r.artefact \in Artefacts  BY DEF Releases
<1>2. Charge(r) \in Nat  BY <1>1 DEF Charge
<1> DEFINE of == [l.of EXCEPT ![r.artefact] = @ + Charge(r)]
<1>3. of \in [Artefacts -> Nat]
  <2>1. l.of[r.artefact] + Charge(r) \in Nat  BY <1>1, <1>2
  <2> QED  BY <2>1
<1>4. Entered(l, r) = [l EXCEPT !.bytes = l.bytes + Charge(r), !.of = of,
                                !.releases = l.releases + 1,
                                !.entries = l.entries \cup {r}]
  BY DEF Entered
<1> HIDE DEF of
<1>5. l.bytes + Charge(r) \in Nat /\ l.releases + 1 \in Nat
      /\ l.entries \cup {r} \in SUBSET Releases
  BY <1>2
<1>6. /\ Entered(l, r).bytes = l.bytes + Charge(r)
      /\ Entered(l, r).releases = l.releases + 1 /\ Entered(l, r).of = of
  BY <1>4
<1>7. Entered(l, r) \in [bytes : Nat, of : [Artefacts -> Nat], releases : Nat,
                         entries : SUBSET Releases]
  BY <1>3, <1>4, <1>5
<1> QED  BY <1>2, <1>6, <1>7 DEF of

LEMMA TypesOfAppending ==
  ASSUME TypeOK, NEW c \in Callers, AppendExposure(c)
  PROVE  TypeOK'
<1>0. call[c] \in CallStates /\ CallOK(call[c]) /\ call[c].pc = "recording"
  BY DEF TypeOK, AppendExposure
<1> DEFINE j == call[c].job
<1>1. PICK r \in call[c].next : ledger' = [ledger EXCEPT ![j] = Entered(@, r)]
  BY DEF AppendExposure
<1>2. j \in Jobs /\ r \in Releases  BY <1>0 DEF CallOK
<1>3. ledger' \in [Jobs -> [bytes : Nat, of : [Artefacts -> Nat], releases : Nat,
                            entries : SUBSET Releases]]
  <2>1. Entered(ledger[j], r) \in [bytes : Nat, of : [Artefacts -> Nat],
                                   releases : Nat, entries : SUBSET Releases]
    BY <1>2, EnteredTypes DEF TypeOK
  <2> QED  BY <1>1, <1>2, <2>1 DEF TypeOK
<1> DEFINE w == IF call[c].why = "classify"
                THEN [call[c] EXCEPT !.pc = "probing", !.next = {},
                                     !.shown = call[c].shown \cup call[c].next]
                ELSE [call[c] EXCEPT !.pc = "sending"]
<1>4. call' = [call EXCEPT ![c] = w]
  <2>1. CASE call[c].why = "classify"  BY <2>1 DEF AppendExposure
  <2>2. CASE call[c].why # "classify"  BY <2>2 DEF AppendExposure
  <2> QED  BY <2>1, <2>2
<1>5. w \in CallStates  BY <1>0 DEF CallStates, CallOK, Pcs
<1>6. CallOK(w)
  <2>1. CASE call[c].why = "classify"
    <3>1. /\ w.pc = "probing" /\ w.why = "classify" /\ w.job = call[c].job
          /\ w.todo = call[c].todo /\ w.next = {}
      BY <1>0, <2>1 DEF CallStates
    <3> HIDE DEF w
    <3> QED  BY <1>0, <3>1, <2>1 DEF CallOK
  <2>2. CASE call[c].why # "classify"
    <3>1. /\ w.pc = "sending" /\ w.why = call[c].why /\ w.job = call[c].job
          /\ w.todo = call[c].todo /\ w.next = call[c].next /\ w.read = call[c].read
      BY <1>0, <2>2 DEF CallStates
    <3> HIDE DEF w
    <3> QED  BY <1>0, <3>1, <2>2 DEF CallOK
  <2> QED  BY <2>1, <2>2
<1>7. call' \in [Callers -> CallStates] /\ \A d \in Callers : CallOK(call'[d])
  <2> HIDE DEF w
  <2> QED  BY <1>4, <1>5, <1>6, CallMoves
<1> QED  BY <1>3, <1>7 DEF AppendExposure, TypeOK


LEMMA TypesOfImages ==
  ASSUME TypeOK, NEW c \in Callers, Inspect(c) \/ InspectImage(c) \/ SendImage(c)
  PROVE  TypeOK'
<1>0. call[c] \in CallStates /\ CallOK(call[c])  BY DEF TypeOK
<1>1. CASE Inspect(c)
  <2>0. /\ call[c].why = "media" /\ call[c].pc = "looking"
        /\ UNCHANGED <<job, level, preference, ledger>>
    BY <1>0, <1>1 DEF Inspect, CallOK
  <2>1. CASE call[c].todo = {}
    <3> DEFINE w == [call[c] EXCEPT !.pc = "concluding"]
    <3>1. call' = [call EXCEPT ![c] = w]  BY <1>1, <2>1 DEF Inspect
    <3>2. w \in CallStates  BY <1>0 DEF CallStates, Pcs
    <3>3. /\ w.pc = "concluding" /\ w.why = call[c].why /\ w.job = call[c].job
          /\ w.todo = call[c].todo /\ w.next = call[c].next
      BY <1>0 DEF CallStates
    <3> HIDE DEF w
    <3>4. CallOK(w)  BY <1>0, <2>0, <3>3 DEF CallOK
    <3> QED  BY <2>0, <3>1, <3>2, <3>4, TypesOfOneCall
  <2>2. CASE call[c].todo # {}
    <3> DEFINE a == CHOOSE i \in call[c].todo : TRUE
               rest == [call[c] EXCEPT !.todo = @ \ {a}]
               unseen == [rest EXCEPT !.worst = 2]
               seen == [rest EXCEPT !.pc = "reading", !.next = {a}]
    <3>1. \/ call' = [call EXCEPT ![c] = unseen]
          \/ call' = [call EXCEPT ![c] = seen]
      BY <1>1, <2>2 DEF Inspect, Presumed
    <3>2. a \in call[c].todo /\ a \in Images  BY <1>0, <2>0, <2>2 DEF CallOK
    <3>3. /\ rest \in CallStates /\ rest.todo \subseteq call[c].todo
          /\ rest.pc = call[c].pc /\ rest.why = call[c].why
          /\ rest.job = call[c].job /\ rest.next = call[c].next
      <4> HIDE DEF a
      <4> QED  BY <1>0 DEF CallStates
    <3> HIDE DEF rest, a
    <3>4. unseen \in CallStates  BY <3>3, LevelsAre DEF CallStates
    <3>5. CallOK(unseen)
      <4>1. /\ unseen.pc = rest.pc /\ unseen.why = rest.why /\ unseen.job = rest.job
            /\ unseen.todo = rest.todo /\ unseen.next = rest.next
        BY <3>3 DEF CallStates
      <4> HIDE DEF unseen
      <4> QED  BY <4>1, <3>3, <1>0, <2>0 DEF CallOK
    <3>6. seen \in CallStates  BY <3>2, <3>3 DEF CallStates, Pcs
    <3>7. CallOK(seen)
      <4>1. /\ seen.pc = "reading" /\ seen.why = rest.why /\ seen.job = rest.job
            /\ seen.todo = rest.todo /\ seen.next = {a}
        BY <3>3 DEF CallStates
      <4> HIDE DEF seen
      <4> QED  BY <4>1, <3>2, <3>3, <1>0, <2>0 DEF CallOK
    <3> HIDE DEF seen, unseen
    <3> QED  BY <2>0, <3>1, <3>4, <3>5, <3>6, <3>7, TypesOfOneCall
  <2> QED  BY <2>1, <2>2
<1>2. CASE InspectImage(c)
  <2>0. /\ call[c].pc = "reading" /\ call[c].why = "media"
        /\ UNCHANGED <<job, level, preference, ledger>>
    BY <1>0, <1>2 DEF InspectImage, CallOK
  <2> DEFINE b == ResolveBackend(call[c].level, TRUE)
  <2>1. CASE Halt(c)  BY <2>0, <2>1, TypesOfHalt
  <2>2. CASE ~Halt(c)
    <3>1. b # NoBackend /\ \E a \in call[c].next : Check(c, Release(a, "image", b), call[c])
      BY <1>2, <2>2 DEF InspectImage
    <3>2. PICK a \in call[c].next : Check(c, Release(a, "image", b), call[c])
      BY <3>1
    <3>3. b \in Backends  BY <1>0, <3>1, ResolvedIsPermitted DEF CallStates
    <3>4. a \in Artefacts  BY <1>0, <2>0 DEF CallOK, Artefacts
    <3> HIDE DEF b
    <3>5. Release(a, "image", b) \in Releases  BY <3>3, <3>4, ReleaseIsOne DEF Kinds
    <3>6. call[c].todo \in SUBSET call[c].todo  OBVIOUS
    <3>7. Check(c, Release(a, "image", b), [call[c] EXCEPT !.todo = call[c].todo])
      BY <3>2, SameTodo
    <3> QED  BY <2>0, <3>5, <3>6, <3>7, TypesOfCheck
  <2> QED  BY <2>1, <2>2
<1>3. CASE SendImage(c)
  <2>0. UNCHANGED <<job, level, preference, ledger>>  BY <1>3 DEF SendImage
  <2>1. PICK found \in Levels \cup {NoLevel} :
          call' = [call EXCEPT ![c].pc = "looking", ![c].next = {},
                     ![c].worst = IF found = NoLevel THEN Presumed(@)
                                  ELSE IF found > @ THEN found ELSE @]
    BY <1>3 DEF SendImage
  <2> DEFINE worst == IF found = NoLevel THEN 2
                      ELSE IF found > call[c].worst THEN found ELSE call[c].worst
             w == [call[c] EXCEPT !.pc = "looking", !.next = {}, !.worst = worst]
  <2>2. call' = [call EXCEPT ![c] = w]  BY <2>1 DEF Presumed, TypeOK
  <2>3. worst \in Levels \cup {NoLevel}  BY <1>0, LevelsAre DEF CallStates
  <2>4. w \in CallStates
    <3> HIDE DEF worst
    <3> QED  BY <1>0, <2>3 DEF CallStates, Pcs
  <2>5. /\ w.pc = "looking" /\ w.why = call[c].why /\ w.job = call[c].job
        /\ w.todo = call[c].todo /\ w.next = {}
    BY <1>0 DEF CallStates
  <2> HIDE DEF w
  <2>6. CallOK(w)  BY <1>0, <1>3, <2>5 DEF CallOK, SendImage
  <2> QED  BY <2>0, <2>2, <2>4, <2>6, TypesOfOneCall
<1> QED  BY <1>1, <1>2, <1>3

LEMMA TypesOfChunks ==
  ASSUME TypeOK, NEW c \in Callers,
         \/ ReadChunk(c) \/ SendChunk(c) \/ Correlate(c)
         \/ Report(c) \/ Dismiss(c) \/ Die(c)
  PROVE  TypeOK'
<1>0. call[c] \in CallStates /\ CallOK(call[c])  BY DEF TypeOK
<1>1. CASE ReadChunk(c)
  <2>0. /\ call[c].pc = "chunking" /\ call[c].why = "content"
        /\ UNCHANGED <<job, level, preference, ledger>>
    BY <1>0, <1>1 DEF ReadChunk, CallOK
  <2>1. CASE MoreToRead(c)
    <3>1. PICK r \in call[c].todo : Check(c, r, call[c])  BY <1>1, <2>1 DEF ReadChunk
    <3>2. r \in Releases  BY <1>0, <2>0 DEF CallOK
    <3>3. call[c].todo \in SUBSET call[c].todo  OBVIOUS
    <3>4. call[c].read < MaxChunks  BY <2>1 DEF MoreToRead
    <3>5. Check(c, r, [call[c] EXCEPT !.todo = call[c].todo])  BY <3>1, SameTodo
    <3> QED  BY <2>0, <3>2, <3>3, <3>4, <3>5, TypesOfCheck
  <2>2. CASE ~MoreToRead(c)
    <3> DEFINE w == [call[c] EXCEPT !.pc = "correlating"]
    <3>1. call' = [call EXCEPT ![c] = w]  BY <1>1, <2>2 DEF ReadChunk
    <3>2. w \in CallStates  BY <1>0 DEF CallStates, Pcs
    <3>3. /\ w.pc = "correlating" /\ w.why = call[c].why /\ w.job = call[c].job
          /\ w.todo = call[c].todo /\ w.next = call[c].next
      BY <1>0 DEF CallStates
    <3> HIDE DEF w
    <3>4. CallOK(w)  BY <1>0, <2>0, <3>3 DEF CallOK
    <3> QED  BY <2>0, <3>1, <3>2, <3>4, TypesOfOneCall
  <2> QED  BY <2>1, <2>2
<1>2. CASE SendChunk(c)
  <2>0. /\ call[c].pc = "sending" /\ call[c].why = "content"
        /\ UNCHANGED <<job, level, preference, ledger>>
    BY <1>2 DEF SendChunk
  <2>1. PICK observed \in BOOLEAN, alone \in BOOLEAN, last \in BOOLEAN :
          call' = [call EXCEPT ![c].pc = IF last THEN "correlating" ELSE "chunking",
                     ![c].read = @ + 1, ![c].next = {},
                     ![c].worst = IF observed THEN 1 ELSE @,
                     ![c].alone = @ \/ alone]
    BY <1>2 DEF SendChunk
  <2> DEFINE pc == IF last THEN "correlating" ELSE "chunking"
             read == call[c].read + 1
             worst == IF observed THEN 1 ELSE call[c].worst
             own == call[c].alone \/ alone
             w == [call[c] EXCEPT !.pc = pc, !.read = read, !.next = {},
                                  !.worst = worst, !.alone = own]
  <2>2. call' = [call EXCEPT ![c] = w]  BY <2>1 DEF TypeOK
  <2>3. read \in 0 .. MaxChunks
    <3>1. /\ call[c].read \in 0 .. MaxChunks /\ call[c].read < MaxChunks
          /\ MaxChunks \in Nat
      BY <1>0, <2>0 DEF CallStates, CallOK
    <3> QED  BY <3>1
  <2>4. worst \in Levels \cup {NoLevel}
    BY <1>0, LevelsAre DEF CallStates
  <2>5. own \in BOOLEAN /\ pc \in {"correlating", "chunking"}  OBVIOUS
  <2> HIDE DEF pc, read, worst, own
  <2>6. w \in CallStates  BY <1>0, <2>3, <2>4, <2>5 DEF CallStates, Pcs
  <2>7. /\ w.pc \in {"correlating", "chunking"} /\ w.why = call[c].why
        /\ w.job = call[c].job /\ w.todo = call[c].todo /\ w.next = {}
    BY <1>0, <2>5 DEF CallStates
  <2> HIDE DEF w
  <2>8. CallOK(w)  BY <1>0, <2>0, <2>7 DEF CallOK
  <2> QED  BY <2>0, <2>2, <2>6, <2>8, TypesOfOneCall
<1>3. CASE Correlate(c)
  <2>1. PICK verdict \in Verdicts(call[c]) :
          call' = [call EXCEPT ![c] = [Idle EXCEPT !.pc = "found", !.job = call[c].job,
                                         !.worst = verdict, !.alone = call[c].alone]]
    BY <1>3 DEF Correlate
  <2> DEFINE w == [Idle EXCEPT !.pc = "found", !.job = call[c].job,
                               !.worst = verdict, !.alone = call[c].alone]
  <2>2. verdict \in Levels \cup {NoLevel}  BY LevelsAre DEF Verdicts
  <2>3. w \in CallStates  BY <1>0, <2>2, IdleIsOne DEF CallStates, Pcs
  <2>4. /\ w.pc = "found" /\ w.why = "none" /\ w.job = call[c].job
        /\ w.todo = {} /\ w.next = {}
    BY DEF Idle
  <2> HIDE DEF w
  <2>5. CallOK(w)  BY <1>0, <1>3, <2>4 DEF CallOK, Correlate
  <2> QED  BY <1>3, <2>1, <2>3, <2>5, TypesOfOneCall DEF Correlate, w
<1>4. CASE Report(c) \/ Dismiss(c) \/ Die(c)
  BY <1>4, IdleIsOne, TypesOfOneCall DEF Report, Dismiss, Die
<1> QED  BY <1>1, <1>2, <1>3, <1>4


LEMMA Initially == Init => TypeOK
<1> SUFFICES ASSUME Init PROVE TypeOK  OBVIOUS
<1>1. ledger \in [Jobs -> [bytes : Nat, of : [Artefacts -> Nat], releases : Nat,
                           entries : SUBSET Releases]]
  BY DEF Init, EmptyLedger
<1>2. call \in [Callers -> CallStates] /\ \A c \in Callers : CallOK(call[c])
  BY IdleIsOne DEF Init
<1>3. job \in [Jobs -> [pc : {"new", "creating", "ready", "kept"}, asks : Preferences,
                        within : Residences]]
  BY DEF Init, Residences
<1> QED  BY <1>1, <1>2, <1>3 DEF Init, TypeOK

LEMMA TypesElsewhere ==
  ASSUME TypeOK, NEW p \in Preferences, RecordElsewhere(p)
  PROVE  TypeOK'
<1>1. ASSUME NEW j \in Jobs
      PROVE  [job[j] EXCEPT !.within = Widened(job[j].within, p)]
               \in [pc : {"new", "creating", "ready", "kept"}, asks : Preferences,
                   within : Residences]
  <2>1. job[j] \in [pc : {"new", "creating", "ready", "kept"}, asks : Preferences,
                    within : Residences]
    BY DEF TypeOK
  <2>2. Widened(job[j].within, p) \in Residences
    <3>1. p.ceiling \in Residences  OBVIOUS
    <3> QED  BY <2>1, <3>1 DEF Widened
  <2> QED  BY <2>1, <2>2
<1>2. job' = [j \in Jobs |-> [job[j] EXCEPT !.within = Widened(job[j].within, p)]]
  BY DEF RecordElsewhere
<1>3. job' \in [Jobs -> [pc : {"new", "creating", "ready", "kept"}, asks : Preferences,
                        within : Residences]]
  BY <1>1, <1>2
<1> QED  BY <1>3 DEF RecordElsewhere, TypeOK

LEMMA TypesKept == TypeOK /\ [Next]_vars => TypeOK'
<1> SUFFICES ASSUME TypeOK, [Next]_vars PROVE TypeOK'  OBVIOUS
<1>1. CASE \E j \in Jobs :
          \/ Ingest(j) \/ ResolveDmp(j) \/ RecordPreference(j)
          \/ ReadInstruction(j) \/ ReadStatement(j)
          \/ DraftRecord(j) \/ DraftDocumentation(j) \/ ProposeRedactions(j)
          \/ \E l \in Levels : ConfirmDeclaration(j, l)
  BY <1>1, TypesOfJobs
<1>2. CASE \E j \in Jobs, c \in Callers :
          \/ ProposeProbes(c, j) \/ InspectAll(c, j)
          \/ \E d \in Documents \cap Holds[j] : InspectContent(c, j, d)
  <2>1. PICK j \in Jobs, c \in Callers :
          \/ ProposeProbes(c, j) \/ InspectAll(c, j)
          \/ \E d \in Documents \cap Holds[j] : InspectContent(c, j, d)
    BY <1>2
  <2>2. CASE ProposeProbes(c, j)
    <3>1. {} \in SUBSET (Releases \cup Images) /\ {} \subseteq Releases  OBVIOUS
    <3> QED  BY <2>2, <3>1, TypesOfBegin DEF ProposeProbes
  <2>3. CASE InspectAll(c, j)
    <3>1. /\ Images \cap Holds[j] \in SUBSET (Releases \cup Images)
          /\ Images \cap Holds[j] \subseteq Images
      OBVIOUS
    <3> QED  BY <2>3, <3>1, TypesOfBegin DEF InspectAll
  <2>4. CASE \E d \in Documents \cap Holds[j] : InspectContent(c, j, d)
    <3> DEFINE b == ResolveBackend(Current(level[j]), FALSE)
    <3>1. PICK d \in Documents :
            /\ b # NoBackend
            /\ Begin(c, j, "content", "chunking", {Release(d, "chunk", b)})
      BY <2>4 DEF InspectContent
    <3>2. Current(level[j]) \in Levels  BY LevelsAre DEF TypeOK
    <3>3. b \in Backends  BY <3>1, <3>2, ResolvedIsPermitted
    <3> HIDE DEF b
    <3>4. Release(d, "chunk", b) \in Releases
      BY <3>3, ReleaseIsOne DEF Kinds, Artefacts
    <3>5. /\ {Release(d, "chunk", b)} \in SUBSET (Releases \cup Images)
          /\ {Release(d, "chunk", b)} \subseteq Releases
      BY <3>4
    <3> QED  BY <3>1, <3>5, TypesOfBegin
  <2> QED  BY <2>1, <2>2, <2>3, <2>4
<1>3. CASE \E c \in Callers :
          RunProbes(c) \/ RunProbe(c) \/ Interpret(c) \/ Conclude(c)
  BY <1>3, TypesOfProbing
<1>4. CASE \E c \in Callers : AppendExposure(c)  BY <1>4, TypesOfAppending
<1>5. CASE \E c \in Callers : Inspect(c) \/ InspectImage(c) \/ SendImage(c)
  BY <1>5, TypesOfImages
<1>6. CASE \E c \in Callers : \/ ReadChunk(c) \/ SendChunk(c) \/ Correlate(c)
                              \/ Report(c) \/ Dismiss(c) \/ Die(c)
  BY <1>6, TypesOfChunks
<1>7. CASE Restart
  <2>1. job' \in [Jobs -> [pc : {"new", "creating", "ready", "kept"}, asks : Preferences,
                          within : Residences]]
    <3>1. job \in [Jobs -> [pc : {"new", "creating", "ready", "kept"},
                            asks : Preferences, within : Residences]]
      BY DEF TypeOK
    <3>2. \A j \in Jobs : [job[j] EXCEPT !.pc = "kept", !.within = 2]
            \in [pc : {"new", "creating", "ready", "kept"}, asks : Preferences,
                 within : Residences]
      <4> TAKE j \in Jobs
      <4>1. job[j] \in [pc : {"new", "creating", "ready", "kept"},
                        asks : Preferences, within : Residences]
        BY <3>1
      <4>2. 2 \in Residences  BY DEF Residences
      <4> QED  BY <4>1, <4>2
    <3>3. job' = [j \in Jobs |-> IF job[j].pc = "new" THEN job[j]
                                ELSE [job[j] EXCEPT !.pc = "kept", !.within = 2]]
      BY <1>7 DEF Restart
    <3> QED  BY <3>1, <3>2, <3>3
  <2>2. call' \in [Callers -> CallStates] /\ \A c \in Callers : CallOK(call'[c])
    BY <1>7, IdleIsOne DEF Restart
  <2>3. preference' \in Preferences  BY <1>7 DEF Restart
  <2> QED  BY <1>7, <2>1, <2>2, <2>3 DEF Restart, TypeOK
<1>8. CASE \E p \in Preferences : RecordElsewhere(p)  BY <1>8, TypesElsewhere
<1>9. CASE UNCHANGED vars  BY <1>9 DEF vars, TypeOK
<1> QED  BY <1>1, <1>2, <1>3, <1>4, <1>5, <1>6, <1>7, <1>8, <1>9 DEF Next

(* Type correctness of disclosure: for any models, policy, preferences,    *)
(* budget and material, and any number of jobs and calls.                  *)
THEOREM TypeCorrect == Spec => []TypeOK
BY Initially, TypesKept, PTL DEF Spec

-----------------------------------------------------------------------------
(* What a step of a call does, whatever it is about: the invariants below  *)
(* are kept for this reason.                                               *)
Active(r) == r.pc \notin {"idle", "halted", "found"}

Goes(c) ==
    /\ \A d \in Callers \ {c} : call'[d] = call[d]
    /\ call'[c].pc # "idle" => call[c].pc # "idle" /\ call'[c].job = call[c].job
    /\ Active(call'[c]) =>
          /\ Active(call[c]) /\ call'[c].level = call[c].level
          /\ call'[c].least = call[c].least
          /\ call'[c].why = call[c].why
          /\ call[c].why = "content" => call'[c].todo = call[c].todo
    /\ call'[c].pc = "sending" =>
          call[c].pc = "recording" /\ call'[c].next = call[c].next
    /\ call'[c].pc = "recording" => \A r \in call'[c].next :
          /\ ~WouldExceed(call[c].job, r)
          /\ call[c].why = "content" => r \in call[c].todo
          /\ call[c].why = "media" => r.backend \in Permitted(call[c].level)

LEMMA OneMoves ==
  ASSUME TypeOK, NEW c \in Callers, NEW r, call' = [call EXCEPT ![c] = r]
  PROVE  call'[c] = r /\ \A d \in Callers \ {c} : call'[d] = call[d]
BY DEF TypeOK

\* A call that is over, or that goes on without anything checked or sent.
LEMMA GoesOn ==
  ASSUME TypeOK, NEW c \in Callers, NEW r, call' = [call EXCEPT ![c] = r],
         r.pc \notin {"recording", "sending"},
         r.pc # "idle" => call[c].pc # "idle" /\ r.job = call[c].job,
         Active(r) => /\ Active(call[c]) /\ r.level = call[c].level
                      /\ r.least = call[c].least
                      /\ r.why = call[c].why
                      /\ call[c].why = "content" => r.todo = call[c].todo
  PROVE  Goes(c)
<1>1. call'[c] = r /\ \A d \in Callers \ {c} : call'[d] = call[d]  BY OneMoves
<1> QED  BY <1>1 DEF Goes

LEMMA GoesHalted ==
  ASSUME TypeOK, NEW c \in Callers, call[c].pc # "idle", Halt(c)
  PROVE  Goes(c)
<1> DEFINE r == [Idle EXCEPT !.pc = "halted", !.job = call[c].job]
<1>1. r.pc = "halted" /\ r.job = call[c].job  BY DEF Idle
<1>2. call' = [call EXCEPT ![c] = r]  BY DEF Halt
<1> HIDE DEF r
<1> QED  BY <1>1, <1>2, GoesOn DEF Active

LEMMA GoesIdle ==
  ASSUME TypeOK, NEW c \in Callers, call' = [call EXCEPT ![c] = Idle]
  PROVE  Goes(c)
<1>1. Idle.pc = "idle"  BY DEF Idle
<1> QED  BY <1>1, GoesOn DEF Active

LEMMA GoesChecked ==
  ASSUME TypeOK, NEW c \in Callers, Active(call[c]), NEW r, NEW todo,
         Check(c, r, [call[c] EXCEPT !.todo = todo]),
         call[c].why = "content" => r \in call[c].todo /\ todo = call[c].todo,
         call[c].why = "media" => r.backend \in Permitted(call[c].level)
  PROVE  Goes(c)
<1>0. call[c] \in CallStates  BY DEF TypeOK
<1>1. CASE Halt(c)  BY <1>1, GoesHalted DEF Active
<1>2. CASE ~Halt(c)
  <2> DEFINE w == [call[c] EXCEPT !.todo = todo, !.pc = "recording", !.next = {r}]
  <2>1. call' = [call EXCEPT ![c] = w] /\ ~WouldExceed(call[c].job, r)
    BY <1>2 DEF Check
  <2>2. /\ w.pc = "recording" /\ w.why = call[c].why /\ w.job = call[c].job
        /\ w.level = call[c].level /\ w.least = call[c].least /\ w.todo = todo /\ w.next = {r}
    BY <1>0 DEF CallStates
  <2> HIDE DEF w
  <2>3. call'[c] = w /\ \A d \in Callers \ {c} : call'[d] = call[d]
    BY <2>1, OneMoves
  <2> QED  BY <2>1, <2>2, <2>3 DEF Goes, Active
<1> QED  BY <1>1, <1>2

LEMMA ProbingGoes ==
  ASSUME TypeOK, NEW c \in Callers,
         RunProbes(c) \/ RunProbe(c) \/ Interpret(c) \/ Conclude(c)
  PROVE  Goes(c)
<1>0. call[c] \in CallStates /\ CallOK(call[c])  BY DEF TypeOK
<1>1. CASE RunProbes(c)
  <2>1. CASE Halt(c)  BY <1>1, <2>1, GoesHalted DEF RunProbes
  <2>2. CASE ~Halt(c)
    <3>1. /\ \E todo : call' = [call EXCEPT ![c].pc = "probing", ![c].todo = todo]
          /\ call[c].pc = "proposing"
      BY <1>1, <2>2 DEF RunProbes
    <3>2. PICK todo : call' = [call EXCEPT ![c].pc = "probing", ![c].todo = todo]
      BY <3>1
    <3> DEFINE w == [call[c] EXCEPT !.pc = "probing", !.todo = todo]
    <3>3. call' = [call EXCEPT ![c] = w]  BY <3>2 DEF TypeOK
    <3>4. /\ w.pc = "probing" /\ w.why = call[c].why /\ w.job = call[c].job
          /\ w.level = call[c].level /\ w.least = call[c].least /\ call[c].why = "classify"
      BY <1>0, <3>1 DEF CallStates, CallOK
    <3> HIDE DEF w
    <3> QED  BY <3>1, <3>3, <3>4, GoesOn DEF Active
  <2> QED  BY <2>1, <2>2
<1>2. CASE RunProbe(c)
  <2>1. PICK r \in call[c].todo : Check(c, r, [call[c] EXCEPT !.todo = @ \ {r}])
    BY <1>2 DEF RunProbe
  <2>2. call[c].why = "classify" /\ Active(call[c])
    BY <1>0, <1>2 DEF RunProbe, CallOK, Active
  <2> QED  BY <2>1, <2>2, GoesChecked
<1>3. CASE Interpret(c)
  <2>1. CASE Halt(c)  BY <1>3, <2>1, GoesHalted DEF Interpret
  <2>2. CASE ~Halt(c)
    <3>1. PICK worst \in Levels :
             call' = [call EXCEPT ![c].pc = "concluding", ![c].worst = worst]
      BY <1>3, <2>2 DEF Interpret
    <3> DEFINE w == [call[c] EXCEPT !.pc = "concluding", !.worst = worst]
    <3>2. call' = [call EXCEPT ![c] = w]  BY <3>1 DEF TypeOK
    <3>3. /\ w.pc = "concluding" /\ w.why = call[c].why /\ w.job = call[c].job
          /\ w.todo = call[c].todo /\ w.level = call[c].level /\ w.least = call[c].least
      BY <1>0 DEF CallStates
    <3> HIDE DEF w
    <3> QED  BY <1>3, <3>2, <3>3, GoesOn DEF Active, Interpret
  <2> QED  BY <2>1, <2>2
<1>4. CASE Conclude(c)  BY <1>4, GoesIdle DEF Conclude
<1> QED  BY <1>1, <1>2, <1>3, <1>4

LEMMA AppendingGoes ==
  ASSUME TypeOK, NEW c \in Callers, AppendExposure(c)
  PROVE  Goes(c) /\ call'[c].pc \in {"probing", "sending"}
<1>0. call[c] \in CallStates /\ call[c].pc = "recording"
  BY DEF TypeOK, AppendExposure
<1>1. CASE call[c].why = "classify"
  <2> DEFINE w == [call[c] EXCEPT !.pc = "probing", !.next = {},
                                  !.shown = call[c].shown \cup call[c].next]
  <2>1. call' = [call EXCEPT ![c] = w]  BY <1>1 DEF AppendExposure
  <2>2. /\ w.pc = "probing" /\ w.why = call[c].why /\ w.job = call[c].job
        /\ w.todo = call[c].todo /\ w.level = call[c].level /\ w.least = call[c].least
    BY <1>0 DEF CallStates
  <2> HIDE DEF w
  <2> QED  BY <1>0, <2>1, <2>2, GoesOn, OneMoves DEF Active
<1>2. CASE call[c].why # "classify"
  <2> DEFINE w == [call[c] EXCEPT !.pc = "sending"]
  <2>1. call' = [call EXCEPT ![c] = w]  BY <1>2 DEF AppendExposure
  <2>2. /\ w.pc = "sending" /\ w.why = call[c].why /\ w.job = call[c].job
        /\ w.todo = call[c].todo /\ w.level = call[c].level /\ w.least = call[c].least /\ w.next = call[c].next
    BY <1>0 DEF CallStates
  <2> HIDE DEF w
  <2>3. call'[c] = w /\ \A d \in Callers \ {c} : call'[d] = call[d]
    BY <2>1, OneMoves
  <2> QED  BY <1>0, <2>2, <2>3 DEF Goes, Active
<1> QED  BY <1>1, <1>2

LEMMA ImagesGo ==
  ASSUME TypeOK, NEW c \in Callers, Inspect(c) \/ InspectImage(c) \/ SendImage(c)
  PROVE  Goes(c)
<1>0. call[c] \in CallStates /\ CallOK(call[c])  BY DEF TypeOK
<1>1. CASE Inspect(c)
  <2>1. call[c].pc = "looking" /\ call[c].why = "media"
    BY <1>0, <1>1 DEF Inspect, CallOK
  <2>2. \E w : /\ call' = [call EXCEPT ![c] = w]
               /\ w.pc \in {"concluding", "looking", "reading"}
               /\ w.why = call[c].why /\ w.job = call[c].job /\ w.level = call[c].level /\ w.least = call[c].least
    <3>1. CASE call[c].todo = {}
      <4> DEFINE w == [call[c] EXCEPT !.pc = "concluding"]
      <4>1. call' = [call EXCEPT ![c] = w]  BY <1>1, <3>1 DEF Inspect
      <4>2. /\ w.pc = "concluding" /\ w.why = call[c].why /\ w.job = call[c].job
            /\ w.level = call[c].level /\ w.least = call[c].least
        BY <1>0 DEF CallStates
      <4> HIDE DEF w
      <4> QED  BY <4>1, <4>2
    <3>2. CASE call[c].todo # {}
      <4> DEFINE a == CHOOSE i \in call[c].todo : TRUE
                 rest == [call[c] EXCEPT !.todo = @ \ {a}]
                 unseen == [rest EXCEPT !.worst = 2]
                 seen == [rest EXCEPT !.pc = "reading", !.next = {a}]
      <4>1. \/ call' = [call EXCEPT ![c] = unseen]
            \/ call' = [call EXCEPT ![c] = seen]
        BY <1>1, <3>2 DEF Inspect, Presumed
      <4>2. /\ unseen.pc = "looking" /\ unseen.why = call[c].why
            /\ unseen.job = call[c].job /\ unseen.level = call[c].level /\ unseen.least = call[c].least
        <5> HIDE DEF a
        <5> QED  BY <1>0, <2>1 DEF CallStates
      <4>3. /\ seen.pc = "reading" /\ seen.why = call[c].why
            /\ seen.job = call[c].job /\ seen.level = call[c].level /\ seen.least = call[c].least
        <5> HIDE DEF a
        <5> QED  BY <1>0 DEF CallStates
      <4> HIDE DEF seen, unseen
      <4> QED  BY <4>1, <4>2, <4>3
    <3> QED  BY <3>1, <3>2
  <2> QED  BY <2>1, <2>2, GoesOn DEF Active
<1>2. CASE InspectImage(c)
  <2>0. call[c].pc = "reading" /\ call[c].why = "media"
    BY <1>0, <1>2 DEF InspectImage, CallOK
  <2> DEFINE b == ResolveBackend(call[c].level, TRUE)
  <2>1. CASE Halt(c)  BY <2>0, <2>1, GoesHalted
  <2>2. CASE ~Halt(c)
    <3>1. b # NoBackend /\ \E a \in call[c].next : Check(c, Release(a, "image", b), call[c])
      BY <1>2, <2>2 DEF InspectImage
    <3>2. PICK a \in call[c].next : Check(c, Release(a, "image", b), call[c])
      BY <3>1
    <3>3. b \in Permitted(call[c].level)
      BY <1>0, <3>1, ResolvedIsPermitted DEF CallStates
    <3> HIDE DEF b
    <3>4. Release(a, "image", b).backend = b  BY DEF Release
    <3>5. Check(c, Release(a, "image", b), [call[c] EXCEPT !.todo = call[c].todo])
      BY <3>2, SameTodo
    <3> QED  BY <2>0, <3>3, <3>4, <3>5, GoesChecked DEF Active
  <2> QED  BY <2>1, <2>2
<1>3. CASE SendImage(c)
  <2>1. PICK worst : call' = [call EXCEPT ![c].pc = "looking", ![c].next = {},
                                          ![c].worst = worst]
    BY <1>3 DEF SendImage
  <2> DEFINE w == [call[c] EXCEPT !.pc = "looking", !.next = {}, !.worst = worst]
  <2>2. call' = [call EXCEPT ![c] = w]  BY <2>1 DEF TypeOK
  <2>3. /\ w.pc = "looking" /\ w.why = call[c].why /\ w.job = call[c].job
        /\ w.todo = call[c].todo /\ w.level = call[c].level /\ w.least = call[c].least
    BY <1>0 DEF CallStates
  <2> HIDE DEF w
  <2> QED  BY <1>3, <2>2, <2>3, GoesOn DEF Active, SendImage
<1> QED  BY <1>1, <1>2, <1>3

LEMMA ChunksGo ==
  ASSUME TypeOK, NEW c \in Callers,
         \/ ReadChunk(c) \/ SendChunk(c) \/ Correlate(c)
         \/ Report(c) \/ Dismiss(c) \/ Die(c)
  PROVE  Goes(c)
<1>0. call[c] \in CallStates /\ CallOK(call[c])  BY DEF TypeOK
<1>1. CASE ReadChunk(c)
  <2>0. call[c].pc = "chunking" /\ call[c].why = "content"
    BY <1>0, <1>1 DEF ReadChunk, CallOK
  <2>1. CASE MoreToRead(c)
    <3>1. PICK r \in call[c].todo : Check(c, r, call[c])  BY <1>1, <2>1 DEF ReadChunk
    <3>2. Check(c, r, [call[c] EXCEPT !.todo = call[c].todo])  BY <3>1, SameTodo
    <3> QED  BY <2>0, <3>1, <3>2, GoesChecked DEF Active
  <2>2. CASE ~MoreToRead(c)
    <3> DEFINE w == [call[c] EXCEPT !.pc = "correlating"]
    <3>1. call' = [call EXCEPT ![c] = w]  BY <1>1, <2>2 DEF ReadChunk
    <3>2. /\ w.pc = "correlating" /\ w.why = call[c].why /\ w.job = call[c].job
          /\ w.todo = call[c].todo /\ w.level = call[c].level /\ w.least = call[c].least
      BY <1>0 DEF CallStates
    <3> HIDE DEF w
    <3> QED  BY <2>0, <3>1, <3>2, GoesOn DEF Active
  <2> QED  BY <2>1, <2>2
<1>2. CASE SendChunk(c)
  <2>1. PICK observed \in BOOLEAN, alone \in BOOLEAN, last \in BOOLEAN :
          call' = [call EXCEPT ![c].pc = IF last THEN "correlating" ELSE "chunking",
                     ![c].read = @ + 1, ![c].next = {},
                     ![c].worst = IF observed THEN 1 ELSE @,
                     ![c].alone = @ \/ alone]
    BY <1>2 DEF SendChunk
  <2> DEFINE w == [call[c] EXCEPT
                     !.pc = IF last THEN "correlating" ELSE "chunking",
                     !.read = call[c].read + 1, !.next = {},
                     !.worst = IF observed THEN 1 ELSE call[c].worst,
                     !.alone = call[c].alone \/ alone]
  <2>2. call' = [call EXCEPT ![c] = w]  BY <2>1 DEF TypeOK
  <2>3. /\ w.pc \in {"correlating", "chunking"} /\ w.why = call[c].why
        /\ w.job = call[c].job /\ w.todo = call[c].todo /\ w.level = call[c].level /\ w.least = call[c].least
    BY <1>0 DEF CallStates
  <2> HIDE DEF w
  <2> QED  BY <1>2, <2>2, <2>3, GoesOn DEF Active, SendChunk
<1>3. CASE Correlate(c)
  <2>1. PICK verdict :
          call' = [call EXCEPT ![c] = [Idle EXCEPT !.pc = "found", !.job = call[c].job,
                                         !.worst = verdict, !.alone = call[c].alone]]
    BY <1>3 DEF Correlate
  <2> DEFINE w == [Idle EXCEPT !.pc = "found", !.job = call[c].job,
                               !.worst = verdict, !.alone = call[c].alone]
  <2>2. w.pc = "found" /\ w.job = call[c].job  BY DEF Idle
  <2>3. call' = [call EXCEPT ![c] = w]  BY <2>1
  <2> HIDE DEF w
  <2> QED  BY <1>3, <2>2, <2>3, GoesOn DEF Active, Correlate
<1>4. CASE Report(c) \/ Dismiss(c) \/ Die(c)
  BY <1>4, GoesIdle DEF Report, Dismiss, Die
<1> QED  BY <1>1, <1>2, <1>3, <1>4

\* A request of no call: it moves none, but for what its history says.
LEMMA JobsMoveNoCall ==
  ASSUME TypeOK, NEW j \in Jobs,
         \/ Ingest(j) \/ ResolveDmp(j) \/ RecordPreference(j)
         \/ ReadInstruction(j) \/ ReadStatement(j)
         \/ DraftRecord(j) \/ DraftDocumentation(j) \/ ProposeRedactions(j)
         \/ \E l \in Levels : ConfirmDeclaration(j, l)
  PROVE  UNCHANGED ledger /\ \A c \in Callers : Alike(call'[c], call[c])
<1>1. CASE \E l \in Levels : ConfirmDeclaration(j, l)
  <2>1. PICK l \in Levels : ConfirmDeclaration(j, l)  BY <1>1
  <2>2. call' = Having(call, j, l) /\ UNCHANGED ledger
    BY <2>1 DEF ConfirmDeclaration
  <2> QED  BY <2>2, HavingTypes
<1>2. CASE \/ Ingest(j) \/ ResolveDmp(j) \/ RecordPreference(j)
           \/ ReadInstruction(j) \/ ReadStatement(j)
           \/ DraftRecord(j) \/ DraftDocumentation(j) \/ ProposeRedactions(j)
  <2>1. UNCHANGED <<call, ledger>>
    BY <1>2 DEF Ingest, ResolveDmp, RecordPreference, ReadInstruction,
                ReadStatement, DraftRecord, DraftDocumentation,
                ProposeRedactions, ShowWords
  <2>2. ASSUME NEW c \in Callers  PROVE call[c].least \in Nat
    <3>1. call[c] \in CallStates  BY DEF TypeOK
    <3> QED  BY <3>1 DEF CallStates, Levels
  <2> QED  BY <2>1, <2>2 DEF Alike
<1> QED  BY <1>1, <1>2

-----------------------------------------------------------------------------
(* The budget.  What a call has checked fitted the ledger when it checked; *)
(* until it is appended, each other call may append the one release it has *)
(* checked.  One invariant serves the bytes, the releases and the bytes of *)
(* an artefact: each is a sum over a job's ledger (spent), with its limit, *)
(* to which a release r of some, A, adds w[r], at most d.                  *)
Recorders(calls, j, A) ==
    {c \in Callers : /\ calls[c].pc = "recording" /\ calls[c].job = j
                     /\ calls[c].next \cap A # {}}

\* The number of calls that are not to append such a release.
Past(calls, j, A) == Cardinality(Callers) - Cardinality(Recorders(calls, j, A))

\* With nobody to append, at most every call but the first was too much; of
\* those to append, one at least saw all that had been appended but Past.
Kept(spent, limit, w, d, calls, j, A) ==
    /\ Recorders(calls, j, A) = {} => spent <= limit + Beside * d
    /\ Recorders(calls, j, A) # {} =>
          \E c \in Recorders(calls, j, A) : \A r \in calls[c].next \cap A :
             spent + w[r] <= limit + Past(calls, j, A) * d

Weights(A, d) == {w \in [Releases -> Nat] : \A r \in A : w[r] <= d}

LEMMA Multiplied ==
  ASSUME NEW m \in Nat, NEW n \in Nat, NEW d \in Nat, m <= n
  PROVE  m * d <= n * d
OBVIOUS

LEMMA Times == \A n \in Nat, d \in Nat : (n + 1) * d = n * d + d /\ n * d \in Nat
OBVIOUS

LEMMA RecordersAre ==
  ASSUME NEW calls, NEW j, NEW A
  PROVE  /\ IsFiniteSet(Recorders(calls, j, A))
         /\ Cardinality(Recorders(calls, j, A)) \in Nat
         /\ Cardinality(Callers) \in Nat /\ Beside \in Nat /\ Past(calls, j, A) \in Nat
         /\ Recorders(calls, j, A) # {} => Past(calls, j, A) <= Beside
<1>1. IsFiniteSet(Callers) /\ Callers # {}  BY CallersAssumption
<1>2. Recorders(calls, j, A) \subseteq Callers  BY DEF Recorders
<1>3. /\ IsFiniteSet(Recorders(calls, j, A))
      /\ Cardinality(Recorders(calls, j, A)) <= Cardinality(Callers)
  BY <1>1, <1>2, FS_Subset
<1>4. /\ Cardinality(Callers) \in Nat /\ Cardinality(Callers) # 0
      /\ Cardinality(Recorders(calls, j, A)) \in Nat
      /\ Recorders(calls, j, A) # {} => Cardinality(Recorders(calls, j, A)) # 0
  BY <1>1, <1>3, FS_CardinalityType, FS_EmptySet
<1> QED  BY <1>3, <1>4 DEF Beside, Past

\* Calls that end or go on, and append nothing.
LEMMA KeptDrops ==
  ASSUME NEW spent \in Nat, NEW limit \in Nat, NEW d \in Nat,
         NEW A \in SUBSET Releases, NEW w \in Weights(A, d),
         NEW calls, NEW after, NEW j,
         Recorders(after, j, A) \subseteq Recorders(calls, j, A),
         \A c \in Recorders(after, j, A) : after[c].next = calls[c].next,
         Kept(spent, limit, w, d, calls, j, A)
  PROVE  Kept(spent, limit, w, d, after, j, A)
<1> DEFINE R == Recorders(calls, j, A)
           S == Recorders(after, j, A)
           m == Past(calls, j, A)
           n == Past(after, j, A)
<1>1. IsFiniteSet(R) /\ Cardinality(R) \in Nat /\ Cardinality(S) \in Nat
  BY RecordersAre
<1>0. /\ m \in Nat /\ n \in Nat /\ m + 1 \in Nat /\ Beside \in Nat
      /\ R # {} => m <= Beside
  BY RecordersAre
<1>2. \A r \in A : w[r] \in Nat /\ w[r] <= d  BY DEF Weights
<1>3. CASE R = {}  BY <1>3 DEF Kept
<1>4. CASE R # {} /\ S = {}
  <2>1. PICK c \in R : \A r \in calls[c].next \cap A : spent + w[r] <= limit + m * d
    BY <1>4 DEF Kept
  <2>2. PICK r \in calls[c].next : r \in A  BY DEF Recorders
  <2>3. m * d <= Beside * d /\ m * d \in Nat /\ Beside * d \in Nat
    <3>1. m \in Nat /\ Beside \in Nat /\ m <= Beside  BY <1>0, <1>4
    <3> HIDE DEF m
    <3> QED  BY <3>1, Multiplied, Times
  <2>5. spent + w[r] <= limit + m * d /\ w[r] \in Nat  BY <1>2, <2>1, <2>2
  <2>6. spent <= limit + Beside * d
    <3> HIDE DEF m
    <3> QED  BY <2>3, <2>5
  <2> QED  BY <1>4, <2>6 DEF Kept
<1>5. CASE S # {} /\ S = R
  <2>1. PICK c \in R : \A r \in calls[c].next \cap A : spent + w[r] <= limit + m * d
    BY <1>5 DEF Kept
  <2>2. n = m  BY <1>5 DEF Past
  <2> QED  BY <1>5, <2>1, <2>2 DEF Kept
<1>6. CASE S # {} /\ S # R
  <2>1. PICK c \in R : \A r \in calls[c].next \cap A : spent + w[r] <= limit + m * d
    BY <1>6 DEF Kept
  <2>2. PICK x \in calls[c].next : x \in A  BY <2>1 DEF Recorders
  <2>3. m + 1 <= n
    <3>1. Cardinality(S) < Cardinality(R)  BY <1>1, <1>6, FS_Subset
    <3>2. Cardinality(Callers) \in Nat  BY RecordersAre
    <3> QED  BY <1>0, <1>1, <3>1, <3>2 DEF Past
  <2>4. m * d + d <= n * d
    <3>1. m \in Nat /\ n \in Nat /\ m + 1 \in Nat  BY <1>0
    <3> HIDE DEF m, n
    <3>2. (m + 1) * d <= n * d  BY <2>3, <3>1, Multiplied
    <3>3. (m + 1) * d = m * d + d  BY <3>1, Times
    <3> QED  BY <3>2, <3>3
  <2>5. PICK e \in S : TRUE  BY <1>6
  <2>6. ASSUME NEW r \in after[e].next \cap A  PROVE spent + w[r] <= limit + n * d
    <3>1. r \in A /\ w[r] \in Nat /\ w[r] <= d  BY <1>2, <2>5
    <3>2. spent + w[x] <= limit + m * d /\ w[x] \in Nat  BY <1>2, <2>1, <2>2
    <3>3. m \in Nat /\ n \in Nat  BY <1>0
    <3> HIDE DEF m, n
    <3>4. m * d \in Nat /\ n * d \in Nat  BY <3>3, Times
    <3>5. /\ spent + w[x] <= limit + m * d /\ w[x] \in Nat /\ w[r] \in Nat
          /\ w[r] <= d
      BY <3>1, <3>2
    <3> QED  BY <2>4, <3>4, <3>5
  <2> QED  BY <1>6, <2>5, <2>6 DEF Kept
<1> QED  BY <1>3, <1>4, <1>5, <1>6

\* A call that checks what fits.
LEMMA KeptChecks ==
  ASSUME NEW spent \in Nat, NEW limit \in Nat, NEW d \in Nat,
         NEW A \in SUBSET Releases, NEW w \in Weights(A, d),
         NEW after, NEW j, NEW c \in Recorders(after, j, A),
         \A r \in after[c].next \cap A : spent + w[r] <= limit
  PROVE  Kept(spent, limit, w, d, after, j, A)
<1> DEFINE n == Past(after, j, A)
<1>1. n * d \in Nat
  <2>1. n \in Nat  BY RecordersAre
  <2> HIDE DEF n
  <2> QED  BY <2>1, Times
<1> HIDE DEF n
<1>2. ASSUME NEW r \in after[c].next \cap A  PROVE spent + w[r] <= limit + n * d
  <2>1. w[r] \in Nat /\ spent + w[r] <= limit  BY <1>2 DEF Weights
  <2> QED  BY <1>1, <2>1
<1> QED  BY <1>2 DEF Kept, n

\* A call that appends what it has checked.
LEMMA KeptAppends ==
  ASSUME NEW spent \in Nat, NEW limit \in Nat, NEW d \in Nat,
         NEW A \in SUBSET Releases, NEW w \in Weights(A, d),
         NEW calls, NEW after, NEW j,
         NEW c \in Recorders(calls, j, A), NEW r \in calls[c].next \cap A,
         Recorders(after, j, A) = Recorders(calls, j, A) \ {c},
         \A e \in Recorders(after, j, A) : after[e].next = calls[e].next,
         Kept(spent, limit, w, d, calls, j, A)
  PROVE  Kept(spent + w[r], limit, w, d, after, j, A)
<1> DEFINE R == Recorders(calls, j, A)
           S == Recorders(after, j, A)
           m == Past(calls, j, A)
           n == Past(after, j, A)
<1>1. /\ IsFiniteSet(R) /\ Cardinality(R) \in Nat /\ Cardinality(S) \in Nat
      /\ m \in Nat /\ n \in Nat /\ Beside \in Nat /\ m <= Beside
  BY RecordersAre
<1>2. \A x \in A : w[x] \in Nat /\ w[x] <= d  BY DEF Weights
<1>3. n = m + 1 /\ m * d \in Nat /\ n * d = m * d + d
  <2>1. Cardinality(R \ {c}) = Cardinality(R) - 1  BY <1>1, FS_RemoveElement
  <2>2. S = R \ {c} /\ Cardinality(Callers) \in Nat  BY RecordersAre
  <2>3. n = m + 1  BY <1>1, <2>1, <2>2 DEF Past
  <2>4. m \in Nat  BY <1>1
  <2> HIDE DEF m, n
  <2> QED  BY <2>3, <2>4, Times
<1>4. PICK e \in R : \A x \in calls[e].next \cap A : spent + w[x] <= limit + m * d
  BY DEF Kept
<1>5. r \in A /\ w[r] \in Nat /\ w[r] <= d  BY <1>2
<1>6. CASE e # c
  <2>1. e \in S /\ after[e].next = calls[e].next  BY <1>6
  <2>2. ASSUME NEW x \in after[e].next \cap A
        PROVE  (spent + w[r]) + w[x] <= limit + n * d
    <3>1. x \in calls[e].next /\ x \in A  BY <2>1
    <3>2. spent + w[x] <= limit + m * d /\ w[x] \in Nat  BY <1>2, <1>4, <3>1
    <3> DEFINE p == m * d
               q == n * d
    <3>3. p \in Nat /\ q = p + d /\ w[x] \in Nat /\ spent + w[x] <= limit + p
      BY <1>3, <3>2
    <3> HIDE DEF p, q
    <3>4. (spent + w[r]) + w[x] <= limit + q  BY <1>5, <3>3
    <3> QED  BY <3>4 DEF q
  <2> QED  BY <2>1, <2>2 DEF Kept
<1>7. CASE e = c
  <2>1. spent + w[r] <= limit + m * d  BY <1>4, <1>7
  <2>2. CASE S = {}
    <3>1. m * d <= Beside * d /\ Beside * d \in Nat
      <4>1. m \in Nat /\ Beside \in Nat /\ m <= Beside  BY <1>1
      <4> HIDE DEF m
      <4> QED  BY <4>1, Multiplied, Times
    <3>2. spent + w[r] <= limit + Beside * d
      <4> HIDE DEF m
      <4> QED  BY <1>3, <1>5, <2>1, <3>1
    <3> QED  BY <2>2, <3>2 DEF Kept
  <2>3. CASE S # {}
    <3>1. PICK f \in S : TRUE  BY <2>3
    <3>2. ASSUME NEW x \in after[f].next \cap A
          PROVE  (spent + w[r]) + w[x] <= limit + n * d
      <4>1. x \in A  BY <3>1
      <4>2. w[x] \in Nat /\ w[x] <= d  BY <1>2, <4>1
      <4> DEFINE p == m * d
                 q == n * d
      <4>3. p \in Nat /\ q = p + d /\ spent + w[r] <= limit + p  BY <1>3, <2>1
      <4> HIDE DEF p, q
      <4>4. (spent + w[r]) + w[x] <= limit + q  BY <1>5, <4>2, <4>3
      <4> QED  BY <4>4 DEF q
    <3> QED  BY <2>3, <3>1, <3>2 DEF Kept
  <2> QED  BY <2>2, <2>3
<1> QED  BY <1>6, <1>7

\* One call moves, and what it then has checked fits.
LEMMA KeptGoes ==
  ASSUME NEW spent \in Nat, NEW limit \in Nat, NEW d \in Nat,
         NEW A \in SUBSET Releases, NEW w \in Weights(A, d),
         NEW calls, NEW after, NEW j, NEW c \in Callers,
         \A e \in Callers \ {c} : after[e] = calls[e],
         after[c].pc = "recording" /\ after[c].job = j =>
            \A r \in after[c].next \cap A : spent + w[r] <= limit,
         Kept(spent, limit, w, d, calls, j, A)
  PROVE  Kept(spent, limit, w, d, after, j, A)
<1>1. CASE c \in Recorders(after, j, A)
  <2>1. \A r \in after[c].next \cap A : spent + w[r] <= limit  BY <1>1 DEF Recorders
  <2> QED  BY <1>1, <2>1, KeptChecks
<1>2. CASE c \notin Recorders(after, j, A)
  <2>1. ASSUME NEW e \in Recorders(after, j, A)
        PROVE  e \in Recorders(calls, j, A) /\ after[e].next = calls[e].next
    <3>1. e \in Callers \ {c}  BY <1>2 DEF Recorders
    <3>2. after[e] = calls[e]  BY <3>1
    <3> QED  BY <3>2 DEF Recorders
  <2>2. Recorders(after, j, A) \subseteq Recorders(calls, j, A)  BY <2>1
  <2> QED  BY <2>1, <2>2, KeptDrops
<1> QED  BY <1>1, <1>2

\* One call appends a release it has checked.
Appends(calls, after, c, r, j) ==
    /\ c \in Callers /\ calls[c].pc = "recording" /\ calls[c].job = j
    /\ r \in calls[c].next /\ after[c].pc # "recording"
    /\ \A e \in Callers \ {c} : after[e] = calls[e]

LEMMA KeptAppended ==
  ASSUME NEW spent \in Nat, NEW limit \in Nat, NEW d \in Nat,
         NEW A \in SUBSET Releases, NEW w \in Weights(A, d),
         NEW calls, NEW after, NEW j, NEW c, NEW r, Appends(calls, after, c, r, j),
         NEW total, r \in A => total = spent + w[r], r \notin A => total = spent,
         Kept(spent, limit, w, d, calls, j, A)
  PROVE  Kept(total, limit, w, d, after, j, A)
<1>0. /\ c \in Callers /\ calls[c].pc = "recording" /\ calls[c].job = j
      /\ r \in calls[c].next /\ after[c].pc # "recording"
      /\ \A e \in Callers \ {c} : after[e] = calls[e]
  BY DEF Appends
<1>1. ASSUME NEW e \in Recorders(after, j, A)
      PROVE  e \in Recorders(calls, j, A) \ {c} /\ after[e].next = calls[e].next
  <2>1. e \in Callers \ {c}  BY <1>0 DEF Recorders
  <2>2. after[e] = calls[e]  BY <1>0, <2>1
  <2> QED  BY <2>1, <2>2 DEF Recorders
<1>2. CASE r \in A
  <2>1. c \in Recorders(calls, j, A)  BY <1>0, <1>2 DEF Recorders
  <2>2. ASSUME NEW e \in Recorders(calls, j, A) \ {c}
        PROVE  e \in Recorders(after, j, A)
    <3>1. after[e] = calls[e]  BY <1>0 DEF Recorders
    <3> QED  BY <3>1 DEF Recorders
  <2>3. Recorders(after, j, A) = Recorders(calls, j, A) \ {c}  BY <1>1, <2>2
  <2>4. r \in calls[c].next \cap A  BY <1>0, <1>2
  <2>5. Kept(spent + w[r], limit, w, d, after, j, A)
    BY <1>1, <2>1, <2>3, <2>4, KeptAppends
  <2> QED  BY <1>2, <2>5
<1>3. CASE r \notin A
  <2>1. Recorders(after, j, A) \subseteq Recorders(calls, j, A)  BY <1>1
  <2>2. Kept(spent, limit, w, d, after, j, A)  BY <1>1, <2>1, KeptDrops
  <2> QED  BY <1>3, <2>2
<1> QED  BY <1>2, <1>3

Charged  == [r \in Releases |-> Charge(r)]
Counted  == [r \in Releases |-> 1]
About(a) == {r \in Releases : r.artefact = a}

AllKept(l, calls, j) ==
    /\ Kept(l.bytes, MaxBytes, Charged, Dearest, calls, j, Releases)
    /\ Kept(l.releases, MaxReleases, Counted, 1, calls, j, Releases)
    /\ \A a \in Artefacts :
          Kept(l.of[a], MaxArtefactBytes, Charged, Cost[a], calls, j, About(a))

BudgetInv == \A j \in Jobs : AllKept(ledger[j], call, j)

Ledgers == [bytes : Nat, of : [Artefacts -> Nat], releases : Nat,
            entries : SUBSET Releases]

Exceeds(l, r) ==
    \/ l.releases + 1 > MaxReleases
    \/ l.bytes + Charge(r) > MaxBytes
    \/ l.of[r.artefact] + Charge(r) > MaxArtefactBytes

LEMMA WeightsAre ==
  /\ Charged \in Weights(Releases, Dearest) /\ Counted \in Weights(Releases, 1)
  /\ \A a \in Artefacts : /\ About(a) \in SUBSET Releases /\ Cost[a] \in Nat
                          /\ Charged \in Weights(About(a), Cost[a])
  /\ Dearest \in Nat /\ MaxBytes \in Nat /\ MaxReleases \in Nat
  /\ MaxArtefactBytes \in Nat
<1>1. ASSUME NEW r \in Releases
      PROVE  /\ r.artefact \in Artefacts /\ Charge(r) \in Nat
             /\ Charge(r) <= Cost[r.artefact] /\ Charge(r) <= Dearest
  <2>1. r.artefact \in Artefacts  BY DEF Releases
  <2>2. Cost[r.artefact] \in Nat /\ Cost[r.artefact] <= Dearest /\ Dearest \in Nat
    BY <2>1, DisclosureAssumption
  <2> QED  BY <2>1, <2>2 DEF Charge
<1>2. Charged \in [Releases -> Nat] /\ \A r \in Releases : Charged[r] = Charge(r)
  BY <1>1 DEF Charged
<1>3. Counted \in [Releases -> Nat] /\ \A r \in Releases : Counted[r] <= 1
  BY DEF Counted
<1>4. ASSUME NEW a \in Artefacts
      PROVE  /\ About(a) \in SUBSET Releases /\ Cost[a] \in Nat
             /\ \A r \in About(a) : Charged[r] <= Cost[a]
  BY <1>1, <1>2, DisclosureAssumption DEF About
<1>5. /\ Dearest \in Nat /\ MaxBytes \in Nat /\ MaxReleases \in Nat
      /\ MaxArtefactBytes \in Nat
  BY DisclosureAssumption
<1> QED  BY <1>1, <1>2, <1>3, <1>4, <1>5 DEF Weights

LEMMA AllGoes ==
  ASSUME NEW l \in Ledgers, NEW calls, NEW after, NEW j, NEW c \in Callers,
         \A e \in Callers \ {c} : after[e] = calls[e],
         after[c].pc = "recording" /\ after[c].job = j =>
            \A r \in after[c].next : r \in Releases => ~Exceeds(l, r),
         AllKept(l, calls, j)
  PROVE  AllKept(l, after, j)
<1>1. /\ l.bytes \in Nat /\ l.releases \in Nat
      /\ \A a \in Artefacts : l.of[a] \in Nat
  BY DEF Ledgers
<1>2. ASSUME NEW r \in Releases, ~Exceeds(l, r)
      PROVE  /\ l.bytes + Charged[r] <= MaxBytes
             /\ l.releases + Counted[r] <= MaxReleases
             /\ l.of[r.artefact] + Charged[r] <= MaxArtefactBytes
  <2>1. r.artefact \in Artefacts /\ Counted[r] = 1 /\ Charged[r] = Charge(r)
    BY DEF Releases, Counted, Charged
  <2>2. Charge(r) \in Nat  BY <2>1, DisclosureAssumption DEF Charge
  <2>3. l.of[r.artefact] \in Nat  BY <1>1, <2>1
  <2>4. /\ ~(l.releases + 1 > MaxReleases) /\ ~(l.bytes + Charge(r) > MaxBytes)
        /\ ~(l.of[r.artefact] + Charge(r) > MaxArtefactBytes)
    BY <1>2 DEF Exceeds
  <2> QED  BY <1>1, <2>1, <2>2, <2>3, <2>4, WeightsAre
<1>3. Kept(l.bytes, MaxBytes, Charged, Dearest, after, j, Releases)
  <2>1. Kept(l.bytes, MaxBytes, Charged, Dearest, calls, j, Releases)  BY DEF AllKept
  <2>2. Releases \in SUBSET Releases  OBVIOUS
  <2>3. after[c].pc = "recording" /\ after[c].job = j =>
          \A r \in after[c].next \cap Releases : l.bytes + Charged[r] <= MaxBytes
    BY <1>2
  <2> QED  BY <1>1, <2>1, <2>2, <2>3, WeightsAre, KeptGoes
<1>4. Kept(l.releases, MaxReleases, Counted, 1, after, j, Releases)
  <2>1. Kept(l.releases, MaxReleases, Counted, 1, calls, j, Releases)  BY DEF AllKept
  <2>2. Releases \in SUBSET Releases /\ 1 \in Nat  OBVIOUS
  <2>3. after[c].pc = "recording" /\ after[c].job = j =>
          \A r \in after[c].next \cap Releases : l.releases + Counted[r] <= MaxReleases
    BY <1>2
  <2> QED  BY <1>1, <2>1, <2>2, <2>3, WeightsAre, KeptGoes
<1>5. ASSUME NEW a \in Artefacts
      PROVE  Kept(l.of[a], MaxArtefactBytes, Charged, Cost[a], after, j, About(a))
  <2>1. Kept(l.of[a], MaxArtefactBytes, Charged, Cost[a], calls, j, About(a))
    BY DEF AllKept
  <2>2. after[c].pc = "recording" /\ after[c].job = j =>
          \A r \in after[c].next \cap About(a) : l.of[a] + Charged[r] <= MaxArtefactBytes
    BY <1>2 DEF About
  <2> QED  BY <1>1, <2>1, <2>2, WeightsAre, KeptGoes
<1> QED  BY <1>3, <1>4, <1>5 DEF AllKept

LEMMA AllAppended ==
  ASSUME NEW l \in Ledgers, NEW calls, NEW after, NEW j, NEW c,
         NEW r \in Releases, Appends(calls, after, c, r, j), AllKept(l, calls, j)
  PROVE  AllKept(Entered(l, r), after, j)
<1>1. /\ l.bytes \in Nat /\ l.releases \in Nat /\ l.of \in [Artefacts -> Nat]
      /\ \A a \in Artefacts : l.of[a] \in Nat
  BY DEF Ledgers
<1> DEFINE e == Entered(l, r)
<1>2. /\ Charge(r) \in Nat /\ e.bytes = l.bytes + Charge(r)
      /\ e.releases = l.releases + 1
      /\ e.of = [l.of EXCEPT ![r.artefact] = @ + Charge(r)]
  BY EnteredTypes DEF Ledgers
<1>3. Charged[r] = Charge(r) /\ Counted[r] = 1 /\ r.artefact \in Artefacts
  BY DEF Charged, Counted, Releases
<1> HIDE DEF e
<1>4. Kept(e.bytes, MaxBytes, Charged, Dearest, after, j, Releases)
  <2>1. Kept(l.bytes, MaxBytes, Charged, Dearest, calls, j, Releases)  BY DEF AllKept
  <2>2. Releases \in SUBSET Releases  OBVIOUS
  <2>3. e.bytes = l.bytes + Charged[r]  BY <1>2, <1>3
  <2> QED  BY <1>1, <2>1, <2>2, <2>3, WeightsAre, KeptAppended
<1>5. Kept(e.releases, MaxReleases, Counted, 1, after, j, Releases)
  <2>1. Kept(l.releases, MaxReleases, Counted, 1, calls, j, Releases)  BY DEF AllKept
  <2>2. Releases \in SUBSET Releases /\ 1 \in Nat  OBVIOUS
  <2>3. e.releases = l.releases + Counted[r]  BY <1>2, <1>3
  <2> QED  BY <1>1, <2>1, <2>2, <2>3, WeightsAre, KeptAppended
<1>6. ASSUME NEW a \in Artefacts
      PROVE  Kept(e.of[a], MaxArtefactBytes, Charged, Cost[a], after, j, About(a))
  <2>1. Kept(l.of[a], MaxArtefactBytes, Charged, Cost[a], calls, j, About(a))
    BY DEF AllKept
  <2>2. /\ r \in About(a) => e.of[a] = l.of[a] + Charged[r]
        /\ r \notin About(a) => e.of[a] = l.of[a]
    BY <1>1, <1>2, <1>3 DEF About
  <2> QED  BY <1>1, <2>1, <2>2, WeightsAre, KeptAppended
<1> QED  BY <1>4, <1>5, <1>6 DEF AllKept, e

\* The calls are the same, but for their history; or they are all over.
LEMMA AllStay ==
  ASSUME NEW l \in Ledgers, NEW calls, NEW after, NEW j,
         \A c \in Callers : after[c].pc = "recording" =>
            /\ calls[c].pc = "recording"
            /\ after[c].job = calls[c].job /\ after[c].next = calls[c].next,
         AllKept(l, calls, j)
  PROVE  AllKept(l, after, j)
<1>1. ASSUME NEW A, NEW c \in Recorders(after, j, A)
      PROVE  c \in Recorders(calls, j, A) /\ after[c].next = calls[c].next
  BY DEF Recorders
<1>2. /\ l.bytes \in Nat /\ l.releases \in Nat
      /\ \A a \in Artefacts : l.of[a] \in Nat
  BY DEF Ledgers
<1>3. Kept(l.bytes, MaxBytes, Charged, Dearest, after, j, Releases)
  <2>1. Kept(l.bytes, MaxBytes, Charged, Dearest, calls, j, Releases)  BY DEF AllKept
  <2>2. Recorders(after, j, Releases) \subseteq Recorders(calls, j, Releases)  BY <1>1
  <2>3. Releases \in SUBSET Releases  OBVIOUS
  <2> QED  BY <1>1, <1>2, <2>1, <2>2, <2>3, WeightsAre, KeptDrops
<1>4. Kept(l.releases, MaxReleases, Counted, 1, after, j, Releases)
  <2>1. Kept(l.releases, MaxReleases, Counted, 1, calls, j, Releases)  BY DEF AllKept
  <2>2. Recorders(after, j, Releases) \subseteq Recorders(calls, j, Releases)  BY <1>1
  <2>3. Releases \in SUBSET Releases /\ 1 \in Nat  OBVIOUS
  <2> QED  BY <1>1, <1>2, <2>1, <2>2, <2>3, WeightsAre, KeptDrops
<1>5. ASSUME NEW a \in Artefacts
      PROVE  Kept(l.of[a], MaxArtefactBytes, Charged, Cost[a], after, j, About(a))
  <2>1. Kept(l.of[a], MaxArtefactBytes, Charged, Cost[a], calls, j, About(a))
    BY DEF AllKept
  <2>2. Recorders(after, j, About(a)) \subseteq Recorders(calls, j, About(a))  BY <1>1
  <2> QED  BY <1>1, <1>2, <2>1, <2>2, WeightsAre, KeptDrops
<1> QED  BY <1>3, <1>4, <1>5 DEF AllKept

LEMMA BudgetGoes ==
  ASSUME TypeOK, TypeOK', BudgetInv, NEW c \in Callers, Goes(c), UNCHANGED ledger
  PROVE  BudgetInv'
<1> SUFFICES ASSUME NEW j \in Jobs  PROVE AllKept(ledger[j], call', j)
  BY DEF BudgetInv
<1>1. ledger[j] \in Ledgers  BY DEF TypeOK, Ledgers
<1>2. AllKept(ledger[j], call, j)  BY DEF BudgetInv
<1>3. \A e \in Callers \ {c} : call'[e] = call[e]  BY DEF Goes
<1>4. ASSUME call'[c].pc = "recording", call'[c].job = j, NEW r \in call'[c].next
      PROVE  ~Exceeds(ledger[j], r)
  <2>1. call[c].job = j /\ ~WouldExceed(call[c].job, r)  BY <1>4 DEF Goes
  <2> QED  BY <2>1 DEF WouldExceed, Exceeds
<1> QED  BY <1>1, <1>2, <1>3, <1>4, AllGoes

LEMMA BudgetAppended ==
  ASSUME TypeOK, BudgetInv, NEW c \in Callers, AppendExposure(c)
  PROVE  BudgetInv'
<1> SUFFICES ASSUME NEW k \in Jobs  PROVE AllKept(ledger'[k], call', k)
  BY DEF BudgetInv
<1> DEFINE j == call[c].job
<1>0. call[c] \in CallStates /\ CallOK(call[c])  BY DEF TypeOK
<1>1. call[c].pc = "recording" /\ j \in Jobs /\ call[c].next \subseteq Releases
  BY <1>0 DEF AppendExposure, CallOK
<1>2. PICK r \in call[c].next : ledger' = [ledger EXCEPT ![j] = Entered(ledger[j], r)]
  BY DEF AppendExposure
<1>3. call'[c].pc # "recording" /\ \A e \in Callers \ {c} : call'[e] = call[e]
  BY AppendingGoes DEF Goes
<1>4. ledger[k] \in Ledgers /\ AllKept(ledger[k], call, k)
  BY DEF TypeOK, Ledgers, BudgetInv
<1>5. CASE k = j
  <2>1. ledger'[k] = Entered(ledger[k], r)  BY <1>2, <1>5 DEF TypeOK
  <2>2. r \in Releases /\ Appends(call, call', c, r, k)
    BY <1>1, <1>3, <1>5 DEF Appends
  <2> QED  BY <1>4, <2>1, <2>2, AllAppended
<1>6. CASE k # j
  <2>1. ledger'[k] = ledger[k]  BY <1>2, <1>6 DEF TypeOK
  <2> QED  BY <1>3, <1>4, <2>1, AllGoes
<1> QED  BY <1>5, <1>6

LEMMA BudgetBegins ==
  ASSUME TypeOK, BudgetInv, NEW c \in Callers, NEW j \in Jobs,
         NEW why, NEW pc \in {"proposing", "looking", "chunking"}, NEW todo,
         Begin(c, j, why, pc, todo)
  PROVE  BudgetInv'
<1> SUFFICES ASSUME NEW k \in Jobs  PROVE AllKept(ledger'[k], call', k)
  BY DEF BudgetInv
<1> DEFINE w == [Idle EXCEPT !.pc = pc, !.why = why, !.job = j,
                             !.level = Current(level[j]), !.todo = todo,
                             !.least = Current(level[j])]
<1>1. call' = [call EXCEPT ![c] = w] /\ UNCHANGED ledger  BY DEF Begin
<1>2. w.pc = pc  BY DEF Idle
<1> HIDE DEF w
<1>3. call'[c].pc # "recording" /\ \A e \in Callers \ {c} : call'[e] = call[e]
  BY <1>1, <1>2, OneMoves
<1>4. ledger[k] \in Ledgers /\ AllKept(ledger[k], call, k)
  BY DEF TypeOK, Ledgers, BudgetInv
<1> QED  BY <1>1, <1>3, <1>4, AllGoes

LEMMA BudgetFirst == Init => BudgetInv
<1> SUFFICES ASSUME Init, NEW j \in Jobs  PROVE AllKept(ledger[j], call, j)
  BY DEF BudgetInv
<1>1. \A c \in Callers : call[c].pc = "idle"  BY DEF Init, Idle
<1>2. \A A : Recorders(call, j, A) = {}  BY <1>1 DEF Recorders
<1>3. ledger[j] = EmptyLedger  BY DEF Init
<1>4. /\ ledger[j].bytes = 0 /\ ledger[j].releases = 0
      /\ \A a \in Artefacts : ledger[j].of[a] = 0
  BY <1>3 DEF EmptyLedger
<1>5. ASSUME NEW d \in Nat, NEW limit \in Nat  PROVE 0 <= limit + Beside * d
  <2>1. Beside \in Nat  BY RecordersAre
  <2>2. Beside * d \in Nat  BY <2>1, Times
  <2> QED  BY <2>2
<1>6. /\ Kept(ledger[j].bytes, MaxBytes, Charged, Dearest, call, j, Releases)
      /\ Kept(ledger[j].releases, MaxReleases, Counted, 1, call, j, Releases)
  BY <1>2, <1>4, <1>5, WeightsAre DEF Kept
<1>7. ASSUME NEW a \in Artefacts
      PROVE  Kept(ledger[j].of[a], MaxArtefactBytes, Charged, Cost[a], call, j, About(a))
  BY <1>2, <1>4, <1>5, WeightsAre DEF Kept
<1> QED  BY <1>6, <1>7 DEF AllKept

LEMMA BudgetStays == TypeOK /\ TypeOK' /\ BudgetInv /\ [Next]_vars => BudgetInv'
<1> SUFFICES ASSUME TypeOK, TypeOK', BudgetInv, [Next]_vars  PROVE BudgetInv'
  OBVIOUS
<1>0. ASSUME UNCHANGED ledger,
             \A c \in Callers : call'[c].pc = "recording" =>
                /\ call[c].pc = "recording"
                /\ call'[c].job = call[c].job /\ call'[c].next = call[c].next
      PROVE  BudgetInv'
  <2> SUFFICES ASSUME NEW k \in Jobs  PROVE AllKept(ledger'[k], call', k)
    BY DEF BudgetInv
  <2>1. ledger[k] \in Ledgers /\ AllKept(ledger[k], call, k)
    BY DEF TypeOK, Ledgers, BudgetInv
  <2> QED  BY <1>0, <2>1, AllStay
<1>1. ASSUME NEW j \in Jobs,
             \/ Ingest(j) \/ ResolveDmp(j) \/ RecordPreference(j)
             \/ ReadInstruction(j) \/ ReadStatement(j)
             \/ DraftRecord(j) \/ DraftDocumentation(j) \/ ProposeRedactions(j)
             \/ \E l \in Levels : ConfirmDeclaration(j, l)
      PROVE  BudgetInv'
  <2>1. UNCHANGED ledger /\ \A c \in Callers : Alike(call'[c], call[c])
    BY <1>1, JobsMoveNoCall
  <2> QED  BY <1>0, <2>1 DEF Alike
<1>2. ASSUME NEW j \in Jobs, NEW c \in Callers, ProposeProbes(c, j)
      PROVE  BudgetInv'
  BY <1>2, BudgetBegins DEF ProposeProbes
<1>3. ASSUME NEW j \in Jobs, NEW c \in Callers, InspectAll(c, j)
      PROVE  BudgetInv'
  BY <1>3, BudgetBegins DEF InspectAll
<1>4. ASSUME NEW j \in Jobs, NEW c \in Callers, NEW d \in Documents \cap Holds[j],
             InspectContent(c, j, d)
      PROVE  BudgetInv'
  BY <1>4, BudgetBegins DEF InspectContent
<1>5. ASSUME NEW c \in Callers,
             RunProbes(c) \/ RunProbe(c) \/ Interpret(c) \/ Conclude(c)
      PROVE  BudgetInv'
  <2>1. UNCHANGED ledger
    BY <1>5 DEF RunProbes, RunProbe, Interpret, Conclude
  <2> QED  BY <1>5, <2>1, ProbingGoes, BudgetGoes
<1>6. ASSUME NEW c \in Callers, AppendExposure(c)  PROVE BudgetInv'
  BY <1>6, BudgetAppended
<1>7. ASSUME NEW c \in Callers, Inspect(c) \/ InspectImage(c) \/ SendImage(c)
      PROVE  BudgetInv'
  <2>1. UNCHANGED ledger  BY <1>7 DEF Inspect, InspectImage, SendImage
  <2> QED  BY <1>7, <2>1, ImagesGo, BudgetGoes
<1>8. ASSUME NEW c \in Callers,
             \/ ReadChunk(c) \/ SendChunk(c) \/ Correlate(c)
             \/ Report(c) \/ Dismiss(c) \/ Die(c)
      PROVE  BudgetInv'
  <2>1. UNCHANGED ledger
    BY <1>8 DEF ReadChunk, SendChunk, Correlate, Report, Dismiss, Die
  <2> QED  BY <1>8, <2>1, ChunksGo, BudgetGoes
<1>9. CASE Restart
  <2>1. \A c \in Callers : call'[c].pc = "idle"  BY <1>9 DEF Restart, Idle
  <2>2. UNCHANGED ledger  BY <1>9 DEF Restart
  <2> QED  BY <1>0, <2>1, <2>2
<1>10. CASE UNCHANGED vars \/ \E p \in Preferences : RecordElsewhere(p)
  <2>1. UNCHANGED <<call, ledger>>  BY <1>10 DEF vars, RecordElsewhere
  <2> QED  BY <1>0, <2>1
<1> QED  BY <1>1, <1>2, <1>3, <1>4, <1>5, <1>6, <1>7, <1>8, <1>9, <1>10 DEF Next

LEMMA AllIsWithin ==
  ASSUME NEW spent \in Nat, NEW limit \in Nat, NEW d \in Nat,
         NEW A \in SUBSET Releases, NEW w \in Weights(A, d), NEW calls, NEW j,
         Kept(spent, limit, w, d, calls, j, A)
  PROVE  spent <= limit + Beside * d
<1> DEFINE none == [c \in Callers |-> Idle]
<1>1. Recorders(none, j, A) = {}  BY DEF Recorders, Idle
<1>2. Kept(spent, limit, w, d, none, j, A)
  <2> HIDE DEF none
  <2>1. Recorders(none, j, A) \subseteq Recorders(calls, j, A)  BY <1>1
  <2>2. \A c \in Recorders(none, j, A) : none[c].next = calls[c].next  BY <1>1
  <2> QED  BY <2>1, <2>2, KeptDrops
<1> QED  BY <1>1, <1>2 DEF Kept

LEMMA BudgetHolds == TypeOK /\ BudgetInv => BudgetKept
<1> SUFFICES ASSUME TypeOK, BudgetInv, NEW j \in Jobs
             PROVE  /\ ledger[j].bytes <= MaxBytes + Beside * Dearest
                    /\ ledger[j].releases <= MaxReleases + Beside
                    /\ \A a \in Artefacts :
                          ledger[j].of[a] <= MaxArtefactBytes + Beside * Cost[a]
  BY DEF BudgetKept
<1>1. ledger[j] \in Ledgers /\ AllKept(ledger[j], call, j)
  BY DEF TypeOK, Ledgers, BudgetInv
<1>2. /\ ledger[j].bytes \in Nat /\ ledger[j].releases \in Nat
      /\ \A a \in Artefacts : ledger[j].of[a] \in Nat
  BY <1>1 DEF Ledgers
<1>3. Releases \in SUBSET Releases /\ 1 \in Nat  OBVIOUS
<1>4. ledger[j].bytes <= MaxBytes + Beside * Dearest
  BY <1>1, <1>2, <1>3, WeightsAre, AllIsWithin DEF AllKept
<1>5. ledger[j].releases <= MaxReleases + Beside * 1
  BY <1>1, <1>2, <1>3, WeightsAre, AllIsWithin DEF AllKept
<1>6. Beside * 1 = Beside
  <2>1. Beside \in Nat  BY RecordersAre
  <2> QED  BY <2>1
<1>7. ASSUME NEW a \in Artefacts
      PROVE  ledger[j].of[a] <= MaxArtefactBytes + Beside * Cost[a]
  BY <1>1, <1>2, WeightsAre, AllIsWithin DEF AllKept
<1> QED  BY <1>4, <1>5, <1>6, <1>7

(* However many calls on a job run at once, none of them seeing what the   *)
(* others have checked, its ledger exceeds its limits by no more than one  *)
(* release of each call but one (exposure/ledger.py).                      *)
THEOREM BudgetIsKept == Spec => []BudgetKept
<1>1. TypeOK /\ TypeOK' /\ BudgetInv /\ [Next]_vars => BudgetInv'  BY BudgetStays
<1> QED  BY <1>1, Initially, TypesKept, BudgetFirst, BudgetHolds, PTL DEF Spec

-----------------------------------------------------------------------------
(* What is permitted.  A call goes on at the level its job had when it     *)
(* began, whatever the level is since; the backends of what is checked and *)
(* to be sent are permitted at that one.                                   *)
Good(r) ==
    Active(r) =>
       /\ r.level >= r.least
       /\ r.why = "content" => \A x \in r.todo : x.backend \in Permitted(r.level)
       /\ r.why \in {"media", "content"} /\ r.pc \in {"recording", "sending"} =>
             \A x \in r.next : x.backend \in Permitted(r.level)

PermittedInv == SentWasPermitted /\ \A c \in Callers : Good(call[c])

LEMMA CurrentIsLevel ==
  ASSUME TypeOK, NEW j \in Jobs
  PROVE  Current(level[j]) \in Levels /\ 2 >= Current(level[j])
<1>1. level[j] \in {0, 1, 2, 3}  BY LevelsAre DEF TypeOK, NoLevel
<1>2. Current(level[j]) \in {0, 1, 2}  BY <1>1 DEF Current, NoLevel
<1> QED  BY <1>2, LevelsAre

\* What is sent to a model permitted at a level the job had, or above it.
LEMMA PermittedWhereSent ==
  ASSUME NEW j, NEW r, NEW least, NEW l \in Levels, l >= least,
         r.backend \in Permitted(l)
  PROVE  Sent(j, r, least).permitted
BY DEF Sent

LEMMA ShownIsPermitted ==
  ASSUME SentWasPermitted, NEW what, Show(what), \A s \in what : s.permitted
  PROVE  SentWasPermitted'
BY DEF SentWasPermitted, Show

LEMMA GoodGoes ==
  ASSUME TypeOK, PermittedInv, NEW c \in Callers, Goes(c)
  PROVE  \A d \in Callers : Good(call'[d])
<1>2. Good(call'[c])
  <2>1. CASE ~Active(call'[c])  BY <2>1 DEF Good
  <2>2. CASE Active(call'[c])
    <3>1. /\ Active(call[c]) /\ call'[c].level = call[c].level
          /\ call'[c].least = call[c].least
          /\ call'[c].why = call[c].why
          /\ call[c].why = "content" => call'[c].todo = call[c].todo
          /\ call'[c].job = call[c].job
      BY <2>2 DEF Goes, Active
    <3>2. Good(call[c])  BY DEF PermittedInv
    <3>3. ASSUME call[c].why \in {"media", "content"}, call'[c].pc = "recording",
                 NEW x \in call'[c].next
          PROVE  x.backend \in Permitted(call[c].level)
      BY <3>1, <3>2, <3>3 DEF Goes, Good
    <3>4. ASSUME call[c].why \in {"media", "content"}, call'[c].pc = "sending",
                 NEW x \in call'[c].next
          PROVE  x.backend \in Permitted(call[c].level)
      BY <3>1, <3>2, <3>4 DEF Goes, Good
    <3> QED  BY <3>1, <3>2, <3>3, <3>4 DEF Good
  <2> QED  BY <2>1, <2>2
<1>3. ASSUME NEW d \in Callers \ {c}  PROVE Good(call'[d])
  BY DEF Goes, PermittedInv
<1> QED  BY <1>2, <1>3

LEMMA GoodWhenAlike ==
  ASSUME TypeOK, TypeOK', PermittedInv, \A c \in Callers : Alike(call'[c], call[c])
  PROVE  \A c \in Callers : Good(call'[c])
<1> SUFFICES ASSUME NEW c \in Callers, Active(call'[c])  PROVE Good(call'[c])
  BY DEF Good
<1>1. Alike(call'[c], call[c]) /\ Good(call[c])  BY DEF PermittedInv
<1>2. call[c].least \in Nat /\ call'[c].least \in Nat /\ call[c].level \in Nat
  <2>1. call[c] \in CallStates /\ call'[c] \in CallStates  BY DEF TypeOK
  <2> QED  BY <2>1 DEF CallStates, Levels
<1>3. call[c].level >= call[c].least /\ call'[c].least <= call[c].least
      /\ call'[c].level = call[c].level
  BY <1>1 DEF Good, Alike, Active
<1>4. call'[c].level >= call'[c].least  BY <1>2, <1>3
<1> QED  BY <1>1, <1>4 DEF Good, Alike, Active

LEMMA GoodBegins ==
  ASSUME TypeOK, PermittedInv, NEW c \in Callers, NEW j \in Jobs,
         NEW why, NEW pc \in {"proposing", "looking", "chunking"}, NEW todo,
         why = "content" => \A x \in todo : x.backend \in Permitted(Current(level[j])),
         Begin(c, j, why, pc, todo)
  PROVE  PermittedInv'
<1> DEFINE w == [Idle EXCEPT !.pc = pc, !.why = why, !.job = j,
                             !.level = Current(level[j]), !.todo = todo,
                             !.least = Current(level[j])]
<1>1. call' = [call EXCEPT ![c] = w] /\ UNCHANGED sent  BY DEF Begin
<1>2. /\ w.pc = pc /\ w.why = why /\ w.job = j /\ w.level = Current(level[j])
      /\ w.todo = todo /\ w.least = Current(level[j])
  BY DEF Idle
<1> HIDE DEF w
<1>3. call'[c] = w /\ \A d \in Callers \ {c} : call'[d] = call[d]
  BY <1>1, OneMoves
<1>4. Current(level[j]) >= Current(level[j])
  <2>0. Current(level[j]) \in Levels  BY CurrentIsLevel
  <2>1. Current(level[j]) \in Nat  BY <2>0 DEF Levels
  <2> QED  BY <2>1
<1>5. Good(w)  BY <1>2, <1>4 DEF Good
<1>6. \A d \in Callers : Good(call'[d])
  BY <1>3, <1>5 DEF PermittedInv
<1>7. SentWasPermitted'  BY <1>1 DEF PermittedInv, SentWasPermitted
<1> QED  BY <1>6, <1>7 DEF PermittedInv

LEMMA WordsArePermitted ==
  ASSUME TypeOK, PermittedInv, NEW j \in Jobs, NEW l \in Levels,
         l >= Current(level[j]), ShowWords(j, l)
  PROVE  PermittedInv'
<1> DEFINE b == ResolveBackend(l, FALSE)
<1>1. b # NoBackend /\ Show({Sent(j, Words(b), Current(level[j]))}) /\ UNCHANGED call
  BY DEF ShowWords
<1>2. b \in Permitted(l)  BY <1>1, ResolvedIsPermitted DEF TypeOK
<1> HIDE DEF b
<1>3. Words(b).backend = b  BY DEF Words, Release
<1>4. Sent(j, Words(b), Current(level[j])).permitted
  BY <1>2, <1>3, PermittedWhereSent
<1>5. SentWasPermitted'  BY <1>1, <1>4, ShownIsPermitted DEF PermittedInv
<1> QED  BY <1>1, <1>5 DEF PermittedInv

LEMMA JobsSendPermitted ==
  ASSUME TypeOK, PermittedInv, NEW j \in Jobs,
         \/ Ingest(j) \/ ResolveDmp(j) \/ RecordPreference(j)
         \/ ReadInstruction(j) \/ ReadStatement(j)
         \/ DraftRecord(j) \/ DraftDocumentation(j) \/ ProposeRedactions(j)
  PROVE  PermittedInv'
<1>1. CASE Ingest(j) \/ RecordPreference(j)
  <2>1. UNCHANGED <<call, sent>>  BY <1>1 DEF Ingest, RecordPreference
  <2> QED  BY <2>1 DEF PermittedInv, SentWasPermitted
<1>2. CASE ResolveDmp(j) \/ ReadInstruction(j) \/ ReadStatement(j)
  <2>1. ShowWords(j, 2)
    BY <1>2 DEF ResolveDmp, ReadInstruction, ReadStatement
  <2> QED  BY <2>1, CurrentIsLevel, LevelsAre, WordsArePermitted
<1>3. CASE DraftRecord(j) \/ DraftDocumentation(j) \/ ProposeRedactions(j)
  <2>1. ShowWords(j, Current(level[j]))
    BY <1>3 DEF DraftRecord, DraftDocumentation, ProposeRedactions
  <2>2. Current(level[j]) \in Levels /\ Current(level[j]) >= Current(level[j])
    BY CurrentIsLevel DEF Levels
  <2> QED  BY <2>1, <2>2, WordsArePermitted
<1> QED  BY <1>1, <1>2, <1>3

\* What a call sends goes to a model permitted at its level.
LEMMA CallsSendPermitted ==
  ASSUME TypeOK, PermittedInv, NEW c \in Callers,
         Interpret(c) \/ SendImage(c) \/ SendChunk(c)
  PROVE  SentWasPermitted'
<1> DEFINE j == call[c].job
<1>0. call[c] \in CallStates /\ CallOK(call[c]) /\ Good(call[c])
  BY DEF TypeOK, PermittedInv
<1>1. /\ call[c].level \in Levels /\ j \in Jobs /\ Active(call[c])
  BY <1>0 DEF CallStates, CallOK, Interpret, SendImage, SendChunk, Active
<1>2. call[c].level >= call[c].least  BY <1>0, <1>1 DEF Good
<1>3. CASE Interpret(c)
  <2> DEFINE b == ResolveBackend(call[c].level, FALSE)
             what == {Sent(j, [r EXCEPT !.backend = b], call[c].least) : r \in call[c].shown}
  <2>1. \/ UNCHANGED sent
        \/ b # NoBackend /\ Show(what)
    BY <1>3 DEF Interpret, LevelOfCall
  <2>2. CASE UNCHANGED sent  BY <2>2 DEF PermittedInv, SentWasPermitted
  <2>3. CASE b # NoBackend /\ Show(what)
    <3>1. b \in Permitted(call[c].level)  BY <1>1, <2>3, ResolvedIsPermitted DEF TypeOK
    <3> HIDE DEF b
    <3>2. ASSUME NEW s \in what  PROVE s.permitted
      <4>1. PICK r \in call[c].shown :
              s = Sent(j, [r EXCEPT !.backend = b], call[c].least)
        OBVIOUS
      <4>2. r \in Releases  BY <1>0, <4>1 DEF CallStates
      <4> DEFINE x == [r EXCEPT !.backend = b]
      <4>3. x.backend = b  BY <4>2 DEF Releases
      <4> HIDE DEF x
      <4>4. Sent(j, x, call[c].least).permitted
        BY <1>1, <1>2, <3>1, <4>3, PermittedWhereSent
      <4> QED  BY <4>1, <4>4 DEF x
    <3> HIDE DEF what
    <3> QED  BY <2>3, <3>2, ShownIsPermitted DEF PermittedInv
  <2> QED  BY <2>1, <2>2, <2>3
<1>4. CASE SendImage(c) \/ SendChunk(c)
  <2> DEFINE what == {Sent(j, r, call[c].least) : r \in call[c].next}
  <2>1. /\ Show(what) /\ call[c].pc = "sending"
        /\ call[c].why \in {"media", "content"}
    BY <1>4 DEF SendImage, SendChunk
  <2>2. ASSUME NEW s \in what  PROVE s.permitted
    <3>1. PICK r \in call[c].next : s = Sent(j, r, call[c].least)  OBVIOUS
    <3>2. r.backend \in Permitted(call[c].level)
      BY <1>0, <1>1, <2>1, <3>1 DEF Good
    <3> QED  BY <1>1, <1>2, <3>1, <3>2, PermittedWhereSent
  <2> HIDE DEF what
  <2> QED  BY <2>1, <2>2, ShownIsPermitted DEF PermittedInv
<1> QED  BY <1>3, <1>4

LEMMA PermittedFirst == Init => PermittedInv
<1> SUFFICES ASSUME Init  PROVE PermittedInv
  OBVIOUS
<1>1. \A c \in Callers : call[c].pc = "idle"  BY DEF Init, Idle
<1>2. sent = {}  BY DEF Init
<1> QED  BY <1>1, <1>2 DEF PermittedInv, Good, Active, SentWasPermitted

LEMMA PermittedStays ==
  ASSUME TypeOK, TypeOK', PermittedInv, [Next]_vars
  PROVE  PermittedInv'
<1>1. ASSUME NEW j \in Jobs,
             \/ Ingest(j) \/ ResolveDmp(j) \/ RecordPreference(j)
             \/ ReadInstruction(j) \/ ReadStatement(j)
             \/ DraftRecord(j) \/ DraftDocumentation(j) \/ ProposeRedactions(j)
      PROVE  PermittedInv'
  BY <1>1, JobsSendPermitted
<1>2. ASSUME NEW j \in Jobs, NEW l \in Levels, ConfirmDeclaration(j, l)
      PROVE  PermittedInv'
  <2>1. \A c \in Callers : Alike(call'[c], call[c])  BY <1>2, JobsMoveNoCall
  <2>2. UNCHANGED sent  BY <1>2 DEF ConfirmDeclaration
  <2> QED  BY <2>1, <2>2, GoodWhenAlike DEF PermittedInv, SentWasPermitted
<1>3. ASSUME NEW j \in Jobs, NEW c \in Callers, ProposeProbes(c, j)
      PROVE  PermittedInv'
  BY <1>3, GoodBegins DEF ProposeProbes
<1>4. ASSUME NEW j \in Jobs, NEW c \in Callers, InspectAll(c, j)
      PROVE  PermittedInv'
  BY <1>4, GoodBegins DEF InspectAll
<1>5. ASSUME NEW j \in Jobs, NEW c \in Callers, NEW d \in Documents \cap Holds[j],
             InspectContent(c, j, d)
      PROVE  PermittedInv'
  <2> DEFINE l == Current(level[j])
             b == ResolveBackend(l, FALSE)
             r == Release(d, "chunk", b)
  <2>1. b # NoBackend /\ Begin(c, j, "content", "chunking", {r})
    BY <1>5 DEF InspectContent
  <2>2. b \in Permitted(l)
    BY <2>1, CurrentIsLevel, ResolvedIsPermitted DEF TypeOK
  <2>3. r.backend = b  BY DEF Release
  <2> HIDE DEF b, r
  <2>4. \A x \in {r} : x.backend \in Permitted(l)  BY <2>2, <2>3
  <2> QED  BY <2>1, <2>4, GoodBegins
<1>6. ASSUME NEW c \in Callers,
             \/ RunProbes(c) \/ RunProbe(c) \/ Interpret(c)
             \/ Inspect(c) \/ InspectImage(c) \/ SendImage(c)
             \/ AppendExposure(c) \/ ReadChunk(c) \/ SendChunk(c) \/ Correlate(c)
             \/ Report(c) \/ Dismiss(c) \/ Die(c) \/ Conclude(c)
      PROVE  PermittedInv'
  <2>1. Goes(c)  BY <1>6, ProbingGoes, ImagesGo, AppendingGoes, ChunksGo
  <2>3. SentWasPermitted'
    <3>1. CASE Interpret(c) \/ SendImage(c) \/ SendChunk(c)
      BY <3>1, CallsSendPermitted
    <3>2. CASE ~(Interpret(c) \/ SendImage(c) \/ SendChunk(c))
      <4>1. UNCHANGED sent
        BY <1>6, <3>2 DEF RunProbes, RunProbe, Inspect, InspectImage,
                          AppendExposure, ReadChunk, Correlate, Report, Dismiss,
                          Die, Conclude
      <4> QED  BY <4>1 DEF PermittedInv, SentWasPermitted
    <3> QED  BY <3>1, <3>2
  <2>4. \A d \in Callers : Good(call'[d])  BY <2>1, GoodGoes
  <2> QED  BY <2>3, <2>4 DEF PermittedInv
<1>8. CASE Restart
  <2>1. \A c \in Callers : call'[c].pc = "idle"  BY <1>8 DEF Restart, Idle
  <2>2. UNCHANGED sent  BY <1>8 DEF Restart
  <2> QED  BY <2>1, <2>2 DEF PermittedInv, Good, Active, SentWasPermitted
<1>9. CASE UNCHANGED vars \/ \E p \in Preferences : RecordElsewhere(p)
  <2>1. UNCHANGED <<call, sent>>  BY <1>9 DEF vars, RecordElsewhere
  <2> QED  BY <2>1 DEF PermittedInv, SentWasPermitted
<1> QED  BY <1>1, <1>2, <1>3, <1>4, <1>5, <1>6, <1>8, <1>9 DEF Next

(* Whoever changes a job's level while a call is about it, and however     *)
(* many calls are, nothing is sent to a model that policy permits at none  *)
(* of the levels the job had while it was prepared (policy/pep.py).        *)
THEOREM NothingUnpermitted == Spec => []SentWasPermitted
<1>1. TypeOK /\ TypeOK' /\ PermittedInv /\ [Next]_vars => PermittedInv'
  BY PermittedStays
<1>2. PermittedInv => SentWasPermitted  BY DEF PermittedInv
<1> QED  BY <1>1, <1>2, Initially, TypesKept, PermittedFirst, PTL DEF Spec

-----------------------------------------------------------------------------
(* What is recorded.  The model that is charged is resolved before probes  *)
(* are run, the one that is shown their results after; the two are one     *)
(* where preferences never choose between models.                          *)
Choice(l, vision, p) ==
    LET open == Narrowed(Capable(l, vision), p)
    IN  IF open = {} THEN NoBackend
        ELSE CHOOSE b \in open : \A o \in open : Precedes(l, p, b, o)

Same(b, d) == b = NoBackend \/ d = NoBackend \/ b = d

(* Whatever two depositors state, policy gives both the same model at any  *)
(* level, or one of them none.                                             *)
Agreed ==
    \A l \in Levels : \A p, q \in Preferences :
        Same(Choice(l, FALSE, p), Choice(l, FALSE, q))

\* The model of a preference that names none: the first of policy among the
\* nearest.
LEMMA NamelessChoice ==
  ASSUME NEW l \in Levels, NEW p \in Preferences, p.names = <<>>,
         Choice(l, FALSE, p) # NoBackend
  PROVE  LET b == Choice(l, FALSE, p) IN
         /\ b \in Permitted(l) /\ Residence[b] <= p.ceiling
         /\ \A o \in Permitted(l) : Residence[o] <= p.ceiling =>
              \/ Residence[b] < Residence[o]
              \/ /\ Residence[b] = Residence[o]
                 /\ Place(Policy[l], b) <= Place(Policy[l], o)
<1> DEFINE open == Narrowed(Capable(l, FALSE), p)
           b == Choice(l, FALSE, p)
<1>1. open # {}  BY DEF Choice
<1>2. \E d \in open : \A o \in open : Precedes(l, p, d, o)  BY <1>1, OnePrecedes
<1>3. b \in open /\ \A o \in open : Precedes(l, p, b, o)
  <2>1. b = CHOOSE d \in open : \A o \in open : Precedes(l, p, d, o)
    BY <1>1 DEF Choice
  <2> HIDE DEF open, b
  <2> QED  BY <1>2, <2>1
<1>4. InOrder(p.names) = {}  BY DEF InOrder
<1>5. open = {d \in Permitted(l) : Residence[d] <= p.ceiling}
  BY <1>4 DEF Narrowed, Capable
<1>6. \A o \in open : \/ Residence[b] < Residence[o]
                      \/ /\ Residence[b] = Residence[o]
                         /\ Place(Policy[l], b) <= Place(Policy[l], o)
  BY <1>3, <1>4 DEF Precedes
<1> HIDE DEF b, open
<1> QED  BY <1>3, <1>5, <1>6 DEF b

LEMMA NamelessBelow ==
  ASSUME NEW l \in Levels, NEW p \in Preferences, NEW q \in Preferences,
         p.names = <<>>, q.names = <<>>, p.ceiling <= q.ceiling,
         Choice(l, FALSE, p) # NoBackend, Choice(l, FALSE, q) # NoBackend
  PROVE  Choice(l, FALSE, p) = Choice(l, FALSE, q)
<1>1. PICK b : b = Choice(l, FALSE, p)  OBVIOUS
<1>2. PICK d : d = Choice(l, FALSE, q)  OBVIOUS
<1>3. /\ b \in Permitted(l) /\ Residence[b] <= p.ceiling
      /\ \A o \in Permitted(l) : Residence[o] <= p.ceiling =>
           \/ Residence[b] < Residence[o]
           \/ /\ Residence[b] = Residence[o]
              /\ Place(Policy[l], b) <= Place(Policy[l], o)
  BY <1>1, NamelessChoice
<1>4. /\ d \in Permitted(l)
      /\ \A o \in Permitted(l) : Residence[o] <= q.ceiling =>
           \/ Residence[d] < Residence[o]
           \/ /\ Residence[d] = Residence[o]
              /\ Place(Policy[l], d) <= Place(Policy[l], o)
  BY <1>2, NamelessChoice
<1>5. Residence[b] \in Nat /\ Residence[d] \in Nat /\ p.ceiling \in Nat /\ q.ceiling \in Nat
  <2>1. b \in Backends /\ d \in Backends  BY <1>3, <1>4, PolicyTypes
  <2>2. Residence[b] \in 0 .. 2 /\ Residence[d] \in 0 .. 2
    BY <2>1 DEF Residences
  <2>3. p.ceiling \in 0 .. 2 /\ q.ceiling \in 0 .. 2  BY DEF Residences
  <2> QED  BY <2>2, <2>3
<1>6. /\ Policy[l] \in Seq(Backends)
      /\ b \in InOrder(Policy[l]) /\ d \in InOrder(Policy[l])
  BY <1>3, <1>4 DEF Permitted
<1>7. /\ Place(Policy[l], b) \in Nat /\ Policy[l][Place(Policy[l], b)] = b
      /\ Place(Policy[l], d) \in Nat /\ Policy[l][Place(Policy[l], d)] = d
  BY <1>6, PlaceIsOne
<1>8. Residence[b] <= q.ceiling  BY <1>3, <1>5
<1>9. /\ Residence[d] <= Residence[b] /\ Residence[d] <= p.ceiling
      /\ Residence[d] = Residence[b] => Place(Policy[l], d) <= Place(Policy[l], b)
  <2>1. \/ Residence[d] < Residence[b]
        \/ /\ Residence[d] = Residence[b]
           /\ Place(Policy[l], d) <= Place(Policy[l], b)
    BY <1>3, <1>4, <1>8
  <2>2. Residence[b] <= p.ceiling  BY <1>3
  <2> QED  BY <1>5, <2>1, <2>2
<1>10. Place(Policy[l], b) = Place(Policy[l], d)
  <2>1. \/ Residence[b] < Residence[d]
        \/ /\ Residence[b] = Residence[d]
           /\ Place(Policy[l], b) <= Place(Policy[l], d)
    BY <1>3, <1>4, <1>9
  <2> QED  BY <1>5, <1>7, <1>9, <2>1
<1>11. b = d  BY <1>7, <1>10
<1> QED  BY <1>1, <1>2, <1>11

(* Where depositors say how far their material may go and name no model,   *)
(* preferences never choose between two of them.                           *)
THEOREM CeilingsAgree == (\A p \in Preferences : p.names = <<>>) => Agreed
<1> SUFFICES ASSUME \A p \in Preferences : p.names = <<>>,
                    NEW l \in Levels, NEW p \in Preferences, NEW q \in Preferences
             PROVE  Same(Choice(l, FALSE, p), Choice(l, FALSE, q))
  BY DEF Agreed
<1>1. p.ceiling <= q.ceiling \/ q.ceiling <= p.ceiling
  <2>1. p.ceiling \in 0 .. 2 /\ q.ceiling \in 0 .. 2  BY DEF Residences
  <2> QED  BY <2>1
<1> QED  BY <1>1, NamelessBelow DEF Same

\* The model of a call is one that a preference has chosen at its level.
Chosen(b, l) == b \in Backends /\ \E p \in Preferences : b = Choice(l, FALSE, p)

(* What a call has checked and not yet appended is one release; what it is *)
(* to send is in the ledger, and so is what probes have shown.             *)
Known(r, l) ==
    /\ r.pc = "recording" => \E x \in r.next : r.next = {x}
    /\ r.pc = "sending" => r.next \subseteq l[r.job].entries
    /\ Active(r) /\ r.why = "classify" =>
          /\ r.shown \subseteq l[r.job].entries
          /\ \A x \in r.todo \cup r.next \cup r.shown : Chosen(x.backend, r.level)

Recorded(s, l) ==
    s.kind \in Kinds =>
        /\ s.job \in Jobs
        /\ Release(s.artefact, s.kind, s.backend) \in l[s.job].entries

RecordInv ==
    /\ \A c \in Callers : Known(call[c], ledger)
    /\ \A s \in sent : Recorded(s, ledger)

LEMMA ResolvedIsChosen ==
  ASSUME TypeOK, NEW l \in Levels, ResolveBackend(l, FALSE) # NoBackend
  PROVE  Chosen(ResolveBackend(l, FALSE), l)
<1>1. ResolveBackend(l, FALSE) = Choice(l, FALSE, preference)
  BY DEF ResolveBackend, Choice
<1>2. preference \in Preferences  BY DEF TypeOK
<1>3. ResolveBackend(l, FALSE) \in Backends  BY ResolvedIsPermitted
<1> QED  BY <1>1, <1>2, <1>3 DEF Chosen

LEMMA ChosenIsResolved ==
  ASSUME TypeOK, Agreed, NEW l \in Levels, NEW b, Chosen(b, l),
         ResolveBackend(l, FALSE) # NoBackend
  PROVE  ResolveBackend(l, FALSE) = b
<1>1. ResolveBackend(l, FALSE) = Choice(l, FALSE, preference)
  BY DEF ResolveBackend, Choice
<1>2. preference \in Preferences  BY DEF TypeOK
<1>3. PICK p \in Preferences : b = Choice(l, FALSE, p)  BY DEF Chosen
<1>4. b # NoBackend  BY DEF Chosen
<1> QED  BY <1>1, <1>2, <1>3, <1>4 DEF Agreed, Same

-----------------------------------------------------------------------------
(* What a step does to what its call holds. *)

\* A call that has this left to do.
Left(c, todo) == [call[c] EXCEPT !.todo = todo]

LEMMA CheckedIsNext ==
  ASSUME TypeOK, NEW c \in Callers, NEW r, NEW todo, Check(c, r, Left(c, todo))
  PROVE  \/ ~Active(call'[c])
         \/ /\ call'[c].pc = "recording" /\ call'[c].next = {r}
            /\ call'[c].todo = todo /\ call'[c].shown = call[c].shown
            /\ call'[c].worst = call[c].worst
<1>0. call[c] \in CallStates  BY DEF TypeOK
<1>1. CASE Halt(c)
  <2> DEFINE w == [Idle EXCEPT !.pc = "halted", !.job = call[c].job]
  <2>1. w.pc = "halted" /\ call' = [call EXCEPT ![c] = w]  BY <1>1 DEF Halt, Idle
  <2> HIDE DEF w
  <2> QED  BY <2>1, OneMoves DEF Active
<1>2. CASE ~Halt(c)
  <2> DEFINE w == [call[c] EXCEPT !.todo = todo, !.pc = "recording", !.next = {r}]
  <2>1. call' = [call EXCEPT ![c] = w]  BY <1>2 DEF Check, Left
  <2>2. /\ w.pc = "recording" /\ w.todo = todo /\ w.next = {r}
        /\ w.shown = call[c].shown /\ w.worst = call[c].worst
    BY <1>0 DEF CallStates
  <2> HIDE DEF w
  <2> QED  BY <2>1, <2>2, OneMoves
<1> QED  BY <1>1, <1>2

LEMMA CheckedAsItIs ==
  ASSUME TypeOK, NEW c \in Callers, NEW r, Check(c, r, call[c])
  PROVE  \/ ~Active(call'[c])
         \/ /\ call'[c].pc = "recording" /\ call'[c].next = {r}
            /\ call'[c].todo = call[c].todo /\ call'[c].worst = call[c].worst
<1>1. PICK todo : todo = call[c].todo  OBVIOUS
<1>2. Left(c, todo) = call[c]  BY <1>1, SameTodo DEF Left
<1>3. Check(c, r, Left(c, todo))  BY <1>2
<1> QED  BY <1>1, <1>3, CheckedIsNext

LEMMA IdleIsOver ==
  ASSUME TypeOK, NEW c \in Callers, call' = [call EXCEPT ![c] = Idle]
  PROVE  ~Active(call'[c]) /\ call'[c].pc = "idle"
<1>1. call'[c] = Idle  BY DEF TypeOK
<1> QED  BY <1>1 DEF Idle, Active

LEMMA HaltedIsOver ==
  ASSUME TypeOK, NEW c \in Callers, Halt(c)
  PROVE  ~Active(call'[c])
<1> DEFINE w == [Idle EXCEPT !.pc = "halted", !.job = call[c].job]
<1>1. w.pc = "halted" /\ call' = [call EXCEPT ![c] = w]  BY DEF Halt, Idle
<1> HIDE DEF w
<1> QED  BY <1>1, OneMoves DEF Active

LEMMA ProbesAreForOne ==
  ASSUME TypeOK, NEW c \in Callers, RunProbes(c)
  PROVE  \/ ~Active(call'[c])
         \/ /\ call'[c].pc = "probing" /\ call'[c].next = call[c].next
            /\ call'[c].shown = call[c].shown
            /\ ResolveBackend(call[c].level, FALSE) # NoBackend
            /\ \A x \in call'[c].todo :
                  x.backend = ResolveBackend(call[c].level, FALSE)
<1>0. call[c] \in CallStates  BY DEF TypeOK
<1>1. CASE Halt(c)  BY <1>1, HaltedIsOver
<1>2. CASE ~Halt(c)
  <2>1. PICK b : b = ResolveBackend(call[c].level, FALSE)  OBVIOUS
  <2>2. b # NoBackend  BY <1>2, <2>1 DEF RunProbes
  <2>3. PICK todo \in SUBSET Accepted(call[c].job, b) :
           call' = [call EXCEPT ![c].pc = "probing", ![c].todo = todo]
    BY <2>1, <2>2 DEF RunProbes
  <2> DEFINE w == [call[c] EXCEPT !.pc = "probing", !.todo = todo]
  <2>4. call' = [call EXCEPT ![c] = w]  BY <2>3 DEF TypeOK
  <2>5. /\ w.pc = "probing" /\ w.todo = todo /\ w.next = call[c].next
        /\ w.shown = call[c].shown
    BY <1>0 DEF CallStates
  <2> HIDE DEF w
  <2>6. \A x \in todo : x.backend = b  BY <2>3 DEF Accepted, Probes
  <2> QED  BY <2>1, <2>2, <2>4, <2>5, <2>6, OneMoves
<1> QED  BY <1>1, <1>2

LEMMA AppendedIsShown ==
  ASSUME TypeOK, NEW c \in Callers, AppendExposure(c)
  PROVE  /\ call'[c].todo = call[c].todo /\ call'[c].worst = call[c].worst
         /\ call[c].why = "classify" =>
              /\ call'[c].pc = "probing" /\ call'[c].next = {}
              /\ call'[c].shown = call[c].shown \cup call[c].next
         /\ call[c].why # "classify" =>
              call'[c].pc = "sending" /\ call'[c].next = call[c].next
<1>0. call[c] \in CallStates /\ call[c].pc = "recording"
  BY DEF TypeOK, AppendExposure
<1>1. CASE call[c].why = "classify"
  <2> DEFINE w == [call[c] EXCEPT !.pc = "probing", !.next = {},
                                  !.shown = call[c].shown \cup call[c].next]
  <2>1. call' = [call EXCEPT ![c] = w]  BY <1>1 DEF AppendExposure
  <2>2. /\ w.pc = "probing" /\ w.todo = call[c].todo /\ w.next = {}
        /\ w.shown = call[c].shown \cup call[c].next /\ w.worst = call[c].worst
    BY <1>0 DEF CallStates
  <2> HIDE DEF w
  <2>3. call'[c] = w  BY <2>1, OneMoves
  <2> QED  BY <1>1, <2>2, <2>3
<1>2. CASE call[c].why # "classify"
  <2> DEFINE w == [call[c] EXCEPT !.pc = "sending"]
  <2>1. call' = [call EXCEPT ![c] = w]  BY <1>2 DEF AppendExposure
  <2>2. /\ w.pc = "sending" /\ w.todo = call[c].todo /\ w.next = call[c].next
        /\ w.worst = call[c].worst
    BY <1>0 DEF CallStates
  <2> HIDE DEF w
  <2>3. call'[c] = w  BY <2>1, OneMoves
  <2> QED  BY <1>2, <2>2, <2>3
<1> QED  BY <1>1, <1>2

LEMMA InterpretedIsShown ==
  ASSUME TypeOK, NEW c \in Callers, Interpret(c)
  PROVE  \/ ~Active(call'[c])
         \/ /\ call'[c].pc = "concluding" /\ call'[c].todo = call[c].todo
            /\ call'[c].next = call[c].next /\ call'[c].shown = call[c].shown
<1>0. call[c] \in CallStates  BY DEF TypeOK
<1>1. CASE Halt(c)  BY <1>1, HaltedIsOver
<1>2. CASE ~Halt(c)
  <2>1. PICK worst \in Levels :
           call' = [call EXCEPT ![c].pc = "concluding", ![c].worst = worst]
    BY <1>2 DEF Interpret
  <2> DEFINE w == [call[c] EXCEPT !.pc = "concluding", !.worst = worst]
  <2>2. call' = [call EXCEPT ![c] = w]  BY <2>1 DEF TypeOK
  <2>3. /\ w.pc = "concluding" /\ w.todo = call[c].todo /\ w.next = call[c].next
        /\ w.shown = call[c].shown
    BY <1>0 DEF CallStates
  <2> HIDE DEF w
  <2> QED  BY <2>2, <2>3, OneMoves
<1> QED  BY <1>1, <1>2

\* Only a check leaves a call of images or of chunks about to record.
LEMMA ImagesAreOne ==
  ASSUME TypeOK, NEW c \in Callers, Inspect(c) \/ InspectImage(c) \/ SendImage(c)
  PROVE  /\ call[c].why # "classify" \/ ~Active(call'[c])
         /\ call'[c].pc # "sending"
         /\ call'[c].pc = "recording" =>
              /\ InspectImage(c) /\ call'[c].todo = call[c].todo
              /\ call'[c].worst = call[c].worst
              /\ ResolveBackend(call[c].level, TRUE) # NoBackend
              /\ \E a \in call[c].next : call'[c].next =
                    {Release(a, "image", ResolveBackend(call[c].level, TRUE))}
<1>0. call[c] \in CallStates /\ CallOK(call[c])  BY DEF TypeOK
<1>1. CASE InspectImage(c)
  <2>0. call[c].why = "media" /\ call[c].pc = "reading"
    BY <1>0, <1>1 DEF InspectImage, CallOK
  <2>1. CASE Halt(c)
    <3>1. ~Active(call'[c])  BY <2>1, HaltedIsOver
    <3> QED  BY <2>0, <3>1 DEF Active
  <2>2. CASE ~Halt(c)
    <3>1. PICK b : b = ResolveBackend(call[c].level, TRUE)  OBVIOUS
    <3>2. b # NoBackend /\ \E a \in call[c].next : Check(c, Release(a, "image", b), call[c])
      BY <1>1, <2>2, <3>1 DEF InspectImage
    <3>3. PICK a \in call[c].next : Check(c, Release(a, "image", b), call[c])
      BY <3>2
    <3>4. PICK r : r = Release(a, "image", b)  OBVIOUS
    <3>5. \/ ~Active(call'[c])
          \/ /\ call'[c].pc = "recording" /\ call'[c].todo = call[c].todo
             /\ call'[c].worst = call[c].worst
             /\ call'[c].next = {r}
      BY <3>3, <3>4, CheckedAsItIs
    <3> QED  BY <1>1, <2>0, <3>1, <3>2, <3>4, <3>5 DEF Active
  <2> QED  BY <2>1, <2>2
<1>2. CASE Inspect(c)
  <2>0. call[c].pc = "looking" /\ call[c].why = "media"
    BY <1>0, <1>2 DEF Inspect, CallOK
  <2>1. CASE call[c].todo = {}
    <3> DEFINE w == [call[c] EXCEPT !.pc = "concluding"]
    <3>1. call' = [call EXCEPT ![c] = w]  BY <1>2, <2>1 DEF Inspect
    <3>2. w.pc = "concluding"  BY <1>0 DEF CallStates
    <3> HIDE DEF w
    <3> QED  BY <2>0, <3>1, <3>2, OneMoves
  <2>2. CASE call[c].todo # {}
    <3>1. PICK a : a = CHOOSE i \in call[c].todo : TRUE  OBVIOUS
    <3> DEFINE rest == [call[c] EXCEPT !.todo = @ \ {a}]
               unseen == [rest EXCEPT !.worst = 2]
               seen == [rest EXCEPT !.pc = "reading", !.next = {a}]
    <3>2. \/ call' = [call EXCEPT ![c] = unseen]
          \/ call' = [call EXCEPT ![c] = seen]
      BY <1>2, <2>2, <3>1 DEF Inspect, Presumed
    <3>3. unseen.pc = "looking" /\ seen.pc = "reading"
      BY <1>0, <2>0 DEF CallStates
    <3> HIDE DEF seen, unseen
    <3> QED  BY <2>0, <3>2, <3>3, OneMoves
  <2> QED  BY <2>1, <2>2
<1>3. CASE SendImage(c)
  <2>1. PICK worst : call' = [call EXCEPT ![c].pc = "looking", ![c].next = {},
                                          ![c].worst = worst]
    BY <1>3 DEF SendImage
  <2> DEFINE w == [call[c] EXCEPT !.pc = "looking", !.next = {}, !.worst = worst]
  <2>2. call' = [call EXCEPT ![c] = w]  BY <2>1 DEF TypeOK
  <2>3. w.pc = "looking"  BY <1>0 DEF CallStates
  <2> HIDE DEF w
  <2> QED  BY <1>3, <2>2, <2>3, OneMoves DEF SendImage
<1> QED  BY <1>1, <1>2, <1>3

\* The last step of a call, and the end of one.
LEMMA OverIsOver ==
  ASSUME TypeOK, NEW c \in Callers,
         Correlate(c) \/ Report(c) \/ Dismiss(c) \/ Die(c)
  PROVE  ~Active(call'[c])
<1>1. CASE Correlate(c)
  <2>1. PICK verdict :
          call' = [call EXCEPT ![c] = [Idle EXCEPT !.pc = "found", !.job = call[c].job,
                                         !.worst = verdict, !.alone = call[c].alone]]
    BY <1>1 DEF Correlate
  <2> DEFINE w == [Idle EXCEPT !.pc = "found", !.job = call[c].job,
                               !.worst = verdict, !.alone = call[c].alone]
  <2>2. w.pc = "found" /\ call' = [call EXCEPT ![c] = w]  BY <2>1 DEF Idle
  <2> HIDE DEF w
  <2> QED  BY <2>2, OneMoves DEF Active
<1>2. CASE Report(c) \/ Dismiss(c) \/ Die(c)
  BY <1>2, IdleIsOver DEF Report, Dismiss, Die
<1> QED  BY <1>1, <1>2

LEMMA ChunksAreOne ==
  ASSUME TypeOK, NEW c \in Callers,
         \/ ReadChunk(c) \/ SendChunk(c) \/ Correlate(c)
         \/ Report(c) \/ Dismiss(c) \/ Die(c)
  PROVE  /\ call[c].why # "classify" \/ ~Active(call'[c])
         /\ call'[c].pc # "sending"
         /\ call'[c].pc = "recording" => \E r \in call[c].todo : call'[c].next = {r}
<1>0. call[c] \in CallStates /\ CallOK(call[c])  BY DEF TypeOK
<1>1. CASE ReadChunk(c)
  <2>0. call[c].why = "content"  BY <1>0, <1>1 DEF ReadChunk, CallOK
  <2>1. CASE MoreToRead(c)
    <3>1. PICK r \in call[c].todo : Check(c, r, call[c])  BY <1>1, <2>1 DEF ReadChunk
    <3>3. \/ ~Active(call'[c])
          \/ call'[c].pc = "recording" /\ call'[c].next = {r}
      BY <3>1, CheckedAsItIs
    <3> QED  BY <2>0, <3>1, <3>3 DEF Active
  <2>2. CASE ~MoreToRead(c)
    <3> DEFINE w == [call[c] EXCEPT !.pc = "correlating"]
    <3>1. call' = [call EXCEPT ![c] = w]  BY <1>1, <2>2 DEF ReadChunk
    <3>2. w.pc = "correlating"  BY <1>0 DEF CallStates
    <3> HIDE DEF w
    <3> QED  BY <2>0, <3>1, <3>2, OneMoves
  <2> QED  BY <2>1, <2>2
<1>2. CASE SendChunk(c)
  <2>1. PICK observed \in BOOLEAN, alone \in BOOLEAN, last \in BOOLEAN :
          call' = [call EXCEPT ![c].pc = IF last THEN "correlating" ELSE "chunking",
                     ![c].read = @ + 1, ![c].next = {},
                     ![c].worst = IF observed THEN 1 ELSE @,
                     ![c].alone = @ \/ alone]
    BY <1>2 DEF SendChunk
  <2> DEFINE w == [call[c] EXCEPT
                     !.pc = IF last THEN "correlating" ELSE "chunking",
                     !.read = call[c].read + 1, !.next = {},
                     !.worst = IF observed THEN 1 ELSE call[c].worst,
                     !.alone = call[c].alone \/ alone]
  <2>2. call' = [call EXCEPT ![c] = w]  BY <2>1 DEF TypeOK
  <2>3. w.pc \in {"correlating", "chunking"}  BY <1>0 DEF CallStates
  <2> HIDE DEF w
  <2> QED  BY <1>2, <2>2, <2>3, OneMoves DEF SendChunk
<1>3. CASE Correlate(c) \/ Report(c) \/ Dismiss(c) \/ Die(c)
  BY <1>3, OverIsOver DEF Active
<1> QED  BY <1>1, <1>2, <1>3

-----------------------------------------------------------------------------
\* What is appended stays, and what is appended is what was checked.
LEMMA LedgerGrows ==
  ASSUME TypeOK, NEW c \in Callers, AppendExposure(c)
  PROVE  /\ \A j \in Jobs : ledger[j].entries \subseteq ledger'[j].entries
         /\ \A x : call[c].next = {x} => x \in ledger'[call[c].job].entries
<1>0. call[c] \in CallStates /\ CallOK(call[c]) /\ call[c].pc = "recording"
  BY DEF TypeOK, AppendExposure
<1>1. PICK j : j = call[c].job  OBVIOUS
<1>2. PICK r \in call[c].next : ledger' = [ledger EXCEPT ![j] = Entered(ledger[j], r)]
  BY <1>1 DEF AppendExposure
<1>3. j \in Jobs /\ r \in Releases  BY <1>0, <1>1, <1>2 DEF CallOK
<1>4. ledger[j] \in [bytes : Nat, of : [Artefacts -> Nat], releases : Nat,
                     entries : SUBSET Releases]
  BY <1>3 DEF TypeOK
<1>5. Entered(ledger[j], r).entries = ledger[j].entries \cup {r}
  <2>1. PICK l : l = ledger[j]  OBVIOUS
  <2>2. Entered(l, r).entries = l.entries \cup {r}  BY <1>4, <2>1 DEF Entered
  <2> QED  BY <2>1, <2>2
<1>6. /\ ledger'[j] = Entered(ledger[j], r)
      /\ \A k \in Jobs \ {j} : ledger'[k] = ledger[k]
  BY <1>2, <1>3 DEF TypeOK
<1> QED  BY <1>1, <1>2, <1>3, <1>5, <1>6

LEMMA RecordedStays ==
  ASSUME \A j \in Jobs : ledger[j].entries \subseteq ledger'[j].entries,
         NEW s, Recorded(s, ledger)
  PROVE  Recorded(s, ledger')
BY DEF Recorded

LEMMA KnownStays ==
  ASSUME TypeOK, \A j \in Jobs : ledger[j].entries \subseteq ledger'[j].entries,
         NEW d \in Callers, Known(call[d], ledger)
  PROVE  Known(call[d], ledger')
<1>1. call[d].pc # "idle" => call[d].job \in Jobs  BY DEF TypeOK, CallOK
<1> QED  BY <1>1 DEF Known, Active

\* A step of a call that appends nothing leaves the others what they know.
LEMMA KnownGoes ==
  ASSUME TypeOK, RecordInv, NEW c \in Callers, Goes(c), UNCHANGED ledger,
         Known(call'[c], ledger)
  PROVE  \A d \in Callers : Known(call'[d], ledger')
BY DEF RecordInv, Goes

LEMMA ShownIsRecorded ==
  ASSUME RecordInv, UNCHANGED ledger, NEW what, Show(what),
         \A s \in what : Recorded(s, ledger)
  PROVE  \A s \in sent' : Recorded(s, ledger')
BY DEF RecordInv, Show

LEMMA ProbingKnows ==
  ASSUME TypeOK, RecordInv, NEW c \in Callers, Goes(c),
         RunProbes(c) \/ RunProbe(c) \/ Interpret(c) \/ Conclude(c)
  PROVE  Known(call'[c], ledger)
<1>0. /\ call[c] \in CallStates /\ CallOK(call[c]) /\ Known(call[c], ledger)
      /\ call[c].level \in Levels
  BY DEF TypeOK, RecordInv, CallStates
<1>1. CASE ~Active(call'[c])  BY <1>1 DEF Known, Active
<1>2. CASE Active(call'[c])
  <2>0. /\ call'[c].why = call[c].why /\ call'[c].job = call[c].job
        /\ call'[c].level = call[c].level /\ Active(call[c])
    BY <1>2 DEF Goes, Active
  <2>1. CASE RunProbes(c)
    <3>1. call[c].why = "classify"  BY <1>0, <2>1 DEF RunProbes, CallOK
    <3>2. /\ call'[c].pc = "probing" /\ call'[c].next = call[c].next
          /\ call'[c].shown = call[c].shown
          /\ \A x \in call'[c].todo : Chosen(x.backend, call[c].level)
      BY <1>0, <1>2, <2>1, ProbesAreForOne, ResolvedIsChosen
    <3> QED  BY <1>0, <2>0, <3>1, <3>2 DEF Known
  <2>2. CASE RunProbe(c)
    <3>1. PICK r \in call[c].todo : Check(c, r, [call[c] EXCEPT !.todo = @ \ {r}])
      BY <2>2 DEF RunProbe
    <3>2. PICK todo : todo = call[c].todo \ {r}  OBVIOUS
    <3>3. Check(c, r, Left(c, todo))  BY <3>1, <3>2 DEF Left
    <3>4. /\ call'[c].pc = "recording" /\ call'[c].next = {r}
          /\ call'[c].todo = todo /\ call'[c].shown = call[c].shown
      BY <1>2, <3>3, CheckedIsNext
    <3> QED  BY <1>0, <2>0, <3>1, <3>2, <3>4 DEF Known
  <2>3. CASE Interpret(c)
    <3>1. /\ call'[c].pc = "concluding" /\ call'[c].todo = call[c].todo
          /\ call'[c].next = call[c].next /\ call'[c].shown = call[c].shown
      BY <1>2, <2>3, InterpretedIsShown
    <3> QED  BY <1>0, <2>0, <3>1 DEF Known
  <2>4. CASE Conclude(c)  BY <1>2, <2>4, IdleIsOver DEF Conclude
  <2> QED  BY <2>1, <2>2, <2>3, <2>4
<1> QED  BY <1>1, <1>2

LEMMA OthersKnow ==
  ASSUME TypeOK, RecordInv, NEW c \in Callers, Goes(c),
         \/ Inspect(c) \/ InspectImage(c) \/ SendImage(c)
         \/ ReadChunk(c) \/ SendChunk(c) \/ Correlate(c)
         \/ Report(c) \/ Dismiss(c) \/ Die(c)
  PROVE  Known(call'[c], ledger)
<1>1. /\ call[c].why # "classify" \/ ~Active(call'[c])
      /\ call'[c].pc # "sending"
      /\ call'[c].pc = "recording" => \E r : call'[c].next = {r}
  BY ImagesAreOne, ChunksAreOne
<1>2. Active(call'[c]) => call'[c].why = call[c].why  BY DEF Goes
<1> QED  BY <1>1, <1>2 DEF Known

LEMMA AppendingKnows ==
  ASSUME TypeOK, RecordInv, NEW c \in Callers, Goes(c), AppendExposure(c)
  PROVE  RecordInv'
<1>0. /\ call[c] \in CallStates /\ CallOK(call[c]) /\ Known(call[c], ledger)
      /\ call[c].pc = "recording" /\ UNCHANGED sent /\ call[c].job \in Jobs
  BY DEF TypeOK, RecordInv, AppendExposure, CallOK
<1>1. \A j \in Jobs : ledger[j].entries \subseteq ledger'[j].entries  BY LedgerGrows
<1>2. PICK x \in call[c].next : call[c].next = {x}  BY <1>0 DEF Known
<1>3. x \in ledger'[call[c].job].entries  BY <1>2, LedgerGrows
<1>4. Known(call[c], ledger')  BY <1>0, <1>1, KnownStays
<1>5. call'[c].job = call[c].job /\ call'[c].pc \in {"probing", "sending"}
  BY AppendingGoes DEF Goes
<1>6. Known(call'[c], ledger')
  <2>1. CASE call[c].why = "classify"
    <3>1. /\ call'[c].pc = "probing" /\ call'[c].next = {}
          /\ call'[c].shown = call[c].shown \cup call[c].next
          /\ call'[c].todo = call[c].todo
      BY <2>1, AppendedIsShown
    <3>2. Active(call[c]) /\ call'[c].level = call[c].level
      BY <1>0, <3>1 DEF Active, Goes
    <3> QED  BY <1>2, <1>3, <1>4, <1>5, <2>1, <3>1, <3>2 DEF Known
  <2>2. CASE call[c].why # "classify"
    <3>1. call'[c].pc = "sending" /\ call'[c].next = call[c].next
      BY <2>2, AppendedIsShown
    <3>2. call'[c].why = call[c].why  BY <3>1 DEF Goes, Active
    <3> QED  BY <1>2, <1>3, <1>5, <2>2, <3>1, <3>2 DEF Known
  <2> QED  BY <2>1, <2>2
<1>7. ASSUME NEW d \in Callers  PROVE Known(call'[d], ledger')
  <2>1. CASE d = c  BY <1>6, <2>1
  <2>2. CASE d # c
    <3>1. call'[d] = call[d]  BY <2>2 DEF Goes
    <3>2. Known(call[d], ledger)  BY DEF RecordInv
    <3> QED  BY <1>1, <3>1, <3>2, KnownStays
  <2> QED  BY <2>1, <2>2
<1>8. ASSUME NEW s \in sent'  PROVE Recorded(s, ledger')
  <2>1. Recorded(s, ledger)  BY <1>0 DEF RecordInv
  <2> QED  BY <1>1, <2>1, RecordedStays
<1> QED  BY <1>7, <1>8 DEF RecordInv

\* What a call sends was appended before, for the model that is shown it.
LEMMA CallsSendRecorded ==
  ASSUME TypeOK, RecordInv, Agreed, NEW c \in Callers,
         Interpret(c) \/ SendImage(c) \/ SendChunk(c)
  PROVE  \A s \in sent' : Recorded(s, ledger')
<1>0. /\ call[c] \in CallStates /\ CallOK(call[c]) /\ Known(call[c], ledger)
      /\ call[c].level \in Levels /\ call[c].shown \subseteq Releases
      /\ call[c].pc # "idle" /\ call[c].job \in Jobs /\ UNCHANGED ledger
  BY DEF TypeOK, RecordInv, CallStates, CallOK, Interpret, SendImage, SendChunk
<1>1. PICK j : j = call[c].job  OBVIOUS
<1>2. ASSUME NEW r \in Releases, r \in ledger[j].entries, NEW n
      PROVE  Recorded(Sent(j, r, n), ledger)
  <2>1. Release(r.artefact, r.kind, r.backend) = r  BY DEF Release, Releases
  <2>2. /\ Sent(j, r, n).job = j /\ Sent(j, r, n).artefact = r.artefact
        /\ Sent(j, r, n).kind = r.kind /\ Sent(j, r, n).backend = r.backend
    BY DEF Sent
  <2> QED  BY <1>0, <1>1, <1>2, <2>1, <2>2 DEF Recorded
<1>3. CASE Interpret(c)
  <2>1. PICK b : b = ResolveBackend(call[c].level, FALSE)  OBVIOUS
  <2>2. CASE b = NoBackend
    <3>1. UNCHANGED sent  BY <1>3, <2>1, <2>2 DEF Interpret, LevelOfCall
    <3> QED  BY <1>0, <3>1 DEF RecordInv
  <2>3. CASE b # NoBackend
    <3> DEFINE what == {Sent(j, [r EXCEPT !.backend = b], call[c].least) :
                        r \in call[c].shown}
    <3>1. Show(what) /\ call[c].pc = "probing"
      BY <1>1, <1>3, <2>1, <2>3 DEF Interpret, LevelOfCall
    <3>2. call[c].why = "classify" /\ Active(call[c])
      BY <1>0, <3>1 DEF CallOK, Active
    <3>3. ASSUME NEW s \in what  PROVE Recorded(s, ledger)
      <4>1. PICK r \in call[c].shown : s = Sent(j, [r EXCEPT !.backend = b], call[c].least)
        OBVIOUS
      <4>2. r \in Releases /\ r \in ledger[j].entries /\ Chosen(r.backend, call[c].level)
        BY <1>0, <1>1, <3>2, <4>1 DEF Known
      <4>3. r.backend = b  BY <1>0, <2>1, <2>3, <4>2, ChosenIsResolved
      <4>4. [r EXCEPT !.backend = b] = r  BY <4>2, <4>3 DEF Releases
      <4> QED  BY <1>2, <4>1, <4>2, <4>4
    <3> HIDE DEF what
    <3> QED  BY <1>0, <3>1, <3>3, ShownIsRecorded
  <2> QED  BY <2>2, <2>3
<1>4. CASE SendImage(c) \/ SendChunk(c)
  <2> DEFINE what == {Sent(j, r, call[c].least) : r \in call[c].next}
  <2>1. Show(what) /\ call[c].pc = "sending"
    <3>1. /\ Show({Sent(call[c].job, r, call[c].least) : r \in call[c].next})
          /\ call[c].pc = "sending"
      BY <1>4 DEF SendImage, SendChunk
    <3> QED  BY <1>1, <3>1
  <2>2. call[c].next \subseteq Releases /\ call[c].next \subseteq ledger[j].entries
    BY <1>0, <1>1, <2>1 DEF CallOK, Known
  <2>3. ASSUME NEW s \in what  PROVE Recorded(s, ledger)
    <3>1. PICK r \in call[c].next : s = Sent(j, r, call[c].least)  OBVIOUS
    <3> QED  BY <1>2, <2>2, <3>1
  <2> HIDE DEF what
  <2> QED  BY <1>0, <2>1, <2>3, ShownIsRecorded
<1> QED  BY <1>3, <1>4

LEMMA WordsAreNoRelease ==
  ASSUME RecordInv, NEW j, NEW l, ShowWords(j, l)
  PROVE  RecordInv'
<1>1. PICK b : b = ResolveBackend(l, FALSE)  OBVIOUS
<1>0. PICK n : n = Current(level[j])  OBVIOUS
<1>2. Show({Sent(j, Words(b), n)}) /\ UNCHANGED <<call, ledger>>
  BY <1>0, <1>1 DEF ShowWords
<1>3. Sent(j, Words(b), n).kind = "words"  BY DEF Sent, Words, Release
<1>4. Recorded(Sent(j, Words(b), n), ledger)  BY <1>3 DEF Recorded, Kinds
<1>5. \A s \in sent' : Recorded(s, ledger')  BY <1>2, <1>4, ShownIsRecorded
<1> QED  BY <1>2, <1>5 DEF RecordInv

LEMMA KnownWhenAlike ==
  ASSUME NEW r, NEW s, Alike(s, r), NEW l, Known(r, l)
  PROVE  Known(s, l)
BY DEF Alike, Known, Active

LEMMA BegunKnows ==
  ASSUME TypeOK, RecordInv, NEW c \in Callers, NEW j \in Jobs,
         NEW why, NEW pc \in {"proposing", "looking", "chunking"}, NEW todo,
         why = "classify" => todo = {},
         Begin(c, j, why, pc, todo)
  PROVE  RecordInv'
<1> DEFINE w == [Idle EXCEPT !.pc = pc, !.why = why, !.job = j,
                             !.level = Current(level[j]), !.todo = todo,
                             !.least = Current(level[j])]
<1>1. call' = [call EXCEPT ![c] = w] /\ UNCHANGED <<ledger, sent>>
  BY DEF Begin
<1>2. /\ w.pc = pc /\ w.why = why /\ w.todo = todo /\ w.next = {} /\ w.shown = {}
  BY DEF Idle
<1> HIDE DEF w
<1>3. call'[c] = w /\ \A d \in Callers \ {c} : call'[d] = call[d]
  BY <1>1, OneMoves
<1>4. Known(w, ledger)  BY <1>2 DEF Known
<1>5. \A d \in Callers : Known(call'[d], ledger)  BY <1>3, <1>4 DEF RecordInv
<1> QED  BY <1>1, <1>5 DEF RecordInv

LEMMA RecordFirst == Init => RecordInv
<1> SUFFICES ASSUME Init  PROVE RecordInv
  OBVIOUS
<1>1. \A c \in Callers : call[c].pc = "idle"  BY DEF Init, Idle
<1>2. sent = {}  BY DEF Init
<1> QED  BY <1>1, <1>2 DEF RecordInv, Known, Active

LEMMA RecordStays ==
  ASSUME Agreed, TypeOK, RecordInv, [Next]_vars
  PROVE  RecordInv'
<1>1. ASSUME NEW j \in Jobs,
             \/ ResolveDmp(j) \/ ReadInstruction(j) \/ ReadStatement(j)
             \/ DraftRecord(j) \/ DraftDocumentation(j) \/ ProposeRedactions(j)
      PROVE  RecordInv'
  BY <1>1, WordsAreNoRelease
     DEF ResolveDmp, ReadInstruction, ReadStatement, DraftRecord,
         DraftDocumentation, ProposeRedactions
<1>2. ASSUME NEW j \in Jobs,
             \/ Ingest(j) \/ RecordPreference(j)
             \/ \E l \in Levels : ConfirmDeclaration(j, l)
      PROVE  RecordInv'
  <2>1. UNCHANGED sent
    BY <1>2 DEF Ingest, RecordPreference, ConfirmDeclaration
  <2>2. UNCHANGED ledger /\ \A c \in Callers : Alike(call'[c], call[c])
    BY <1>2, JobsMoveNoCall
  <2>3. \A c \in Callers : Known(call'[c], ledger)
    BY <2>2, KnownWhenAlike DEF RecordInv
  <2> QED  BY <2>1, <2>2, <2>3 DEF RecordInv
<1>3. ASSUME NEW j \in Jobs, NEW c \in Callers, ProposeProbes(c, j)
      PROVE  RecordInv'
  BY <1>3, BegunKnows DEF ProposeProbes
<1>4. ASSUME NEW j \in Jobs, NEW c \in Callers, InspectAll(c, j)
      PROVE  RecordInv'
  BY <1>4, BegunKnows DEF InspectAll
<1>5. ASSUME NEW j \in Jobs, NEW c \in Callers, NEW d \in Documents \cap Holds[j],
             InspectContent(c, j, d)
      PROVE  RecordInv'
  BY <1>5, BegunKnows DEF InspectContent
<1>6. ASSUME NEW c \in Callers,
             \/ RunProbes(c) \/ RunProbe(c) \/ Interpret(c) \/ Conclude(c)
             \/ Inspect(c) \/ InspectImage(c) \/ SendImage(c)
             \/ ReadChunk(c) \/ SendChunk(c) \/ Correlate(c)
             \/ Report(c) \/ Dismiss(c) \/ Die(c)
      PROVE  RecordInv'
  <2>1. Goes(c)  BY <1>6, ProbingGoes, ImagesGo, ChunksGo
  <2>2. UNCHANGED ledger
    BY <1>6 DEF RunProbes, RunProbe, Interpret, Conclude, Inspect, InspectImage,
                SendImage, ReadChunk, SendChunk, Correlate, Report, Dismiss, Die
  <2>3. Known(call'[c], ledger)  BY <1>6, <2>1, ProbingKnows, OthersKnow
  <2>4. \A d \in Callers : Known(call'[d], ledger')  BY <2>1, <2>2, <2>3, KnownGoes
  <2>5. \A s \in sent' : Recorded(s, ledger')
    <3>1. CASE Interpret(c) \/ SendImage(c) \/ SendChunk(c)
      BY <3>1, CallsSendRecorded
    <3>2. CASE ~(Interpret(c) \/ SendImage(c) \/ SendChunk(c))
      <4>1. UNCHANGED sent
        BY <1>6, <3>2 DEF RunProbes, RunProbe, Conclude, Inspect, InspectImage,
                          ReadChunk, Correlate, Report, Dismiss, Die
      <4> QED  BY <2>2, <4>1 DEF RecordInv
    <3> QED  BY <3>1, <3>2
  <2> QED  BY <2>4, <2>5 DEF RecordInv
<1>7. ASSUME NEW c \in Callers, AppendExposure(c)  PROVE RecordInv'
  BY <1>7, AppendingGoes, AppendingKnows
<1>8. CASE Restart
  <2>1. \A c \in Callers : call'[c].pc = "idle"  BY <1>8 DEF Restart, Idle
  <2>2. UNCHANGED <<ledger, sent>>  BY <1>8 DEF Restart
  <2>3. \A c \in Callers : Known(call'[c], ledger')  BY <2>1 DEF Known, Active
  <2> QED  BY <2>2, <2>3 DEF RecordInv
<1>9. CASE UNCHANGED vars \/ \E p \in Preferences : RecordElsewhere(p)
  <2>1. UNCHANGED <<call, ledger, sent>>  BY <1>9 DEF vars, RecordElsewhere
  <2> QED  BY <2>1 DEF RecordInv
<1> QED  BY <1>1, <1>2, <1>3, <1>4, <1>5, <1>6, <1>7, <1>8, <1>9 DEF Next

(* Where preferences never choose between two models, what a model is      *)
(* shown of a job's material is in the job's ledger under that model's     *)
(* name, however calls overlap and levels change under them.               *)
THEOREM ShownIsOnRecord == Agreed => (Spec => []SentIsRecorded)
<1> SUFFICES ASSUME Agreed  PROVE Spec => []SentIsRecorded
  OBVIOUS
<1>1. TypeOK /\ RecordInv /\ [Next]_vars => RecordInv'  BY RecordStays
<1>2. RecordInv => SentIsRecorded  BY DEF RecordInv, Recorded, SentIsRecorded
<1> QED  BY <1>1, <1>2, Initially, TypesKept, RecordFirst, PTL DEF Spec

-----------------------------------------------------------------------------
(* The preference in use is never wider than what the depositor of a job   *)
(* asked, or one after them did: within remembers the widest of these.     *)
Within(m, b) == Residence[b] <= m.within

(* A call is about a job that is taken, and what it is about to send goes  *)
(* no further than the job allows.                                         *)
Bound(r, jobs) ==
    Active(r) =>
       /\ jobs[r.job].pc \in {"ready", "kept"}
       /\ r.why = "content" => \A x \in r.todo : Within(jobs[r.job], x.backend)
       /\ r.why \in {"media", "content"} /\ r.pc \in {"recording", "sending"} =>
             \A x \in r.next : Within(jobs[r.job], x.backend)

HonourInv ==
    /\ \A j \in Jobs : /\ preference.ceiling <= job[j].within
                       /\ job[j].pc = "new" => job[j].within = 2
    /\ \A c \in Callers : Bound(call[c], job)
    /\ PreferenceHonoured

LEMMA ResolvedIsWithin ==
  ASSUME TypeOK, HonourInv, NEW j \in Jobs,
         NEW l \in Levels, NEW vision \in BOOLEAN,
         ResolveBackend(l, vision) # NoBackend
  PROVE  Within(job[j], ResolveBackend(l, vision))
<1> DEFINE open == Narrowed(Capable(l, vision), preference)
<1>1. PICK b : b = ResolveBackend(l, vision)  OBVIOUS
<1>2. open # {} /\ preference \in Preferences  BY DEF ResolveBackend, TypeOK
<1>3. \E d \in open : \A o \in open : Precedes(l, preference, d, o)
  BY <1>2, OnePrecedes
<1>4. b \in open
  <2>1. b = CHOOSE d \in open : \A o \in open : Precedes(l, preference, d, o)
    BY <1>1, <1>2 DEF ResolveBackend
  <2> HIDE DEF open
  <2> QED  BY <1>3, <2>1
<1>5. Residence[b] <= preference.ceiling /\ b \in Backends
  BY <1>1, <1>4, ResolvedIsPermitted DEF Narrowed
<1>6. Residence[b] \in 0 .. 2  BY <1>5 DEF Residences
<1>7. preference.ceiling \in 0 .. 2 /\ job[j].within \in 0 .. 2
  BY <1>2 DEF TypeOK, Residences
<1>8. preference.ceiling <= job[j].within  BY DEF HonourInv
<1> QED  BY <1>1, <1>5, <1>6, <1>7, <1>8 DEF Within

LEMMA SentAsAsked ==
  ASSUME NEW j, NEW r, NEW n, Within(job[j], r.backend)
  PROVE  Sent(j, r, n).asked
BY DEF Sent, Within

LEMMA ShownAsAsked ==
  ASSUME PreferenceHonoured, NEW what, Show(what), \A s \in what : s.asked
  PROVE  PreferenceHonoured'
BY DEF PreferenceHonoured, Show

LEMMA BoundGoes ==
  ASSUME TypeOK, HonourInv, NEW c \in Callers, Goes(c), UNCHANGED job,
         call'[c].pc = "recording" /\ call[c].why = "media" =>
            \A x \in call'[c].next : Within(job[call[c].job], x.backend)
  PROVE  \A d \in Callers : Bound(call'[d], job')
<1>1. Bound(call'[c], job)
  <2>1. CASE ~Active(call'[c])  BY <2>1 DEF Bound
  <2>2. CASE Active(call'[c])
    <3>1. /\ Active(call[c]) /\ call'[c].why = call[c].why
          /\ call[c].why = "content" => call'[c].todo = call[c].todo
          /\ call'[c].job = call[c].job
      BY <2>2 DEF Goes, Active
    <3>2. Bound(call[c], job)  BY DEF HonourInv
    <3>3. ASSUME call[c].why = "content", call'[c].pc = "recording",
                 NEW x \in call'[c].next
          PROVE  Within(job[call[c].job], x.backend)
      BY <3>1, <3>2, <3>3 DEF Goes, Bound
    <3>4. ASSUME call[c].why \in {"media", "content"}, call'[c].pc = "sending",
                 NEW x \in call'[c].next
          PROVE  Within(job[call[c].job], x.backend)
      BY <3>1, <3>2, <3>4 DEF Goes, Bound
    <3> QED  BY <3>1, <3>2, <3>3, <3>4 DEF Bound
  <2> QED  BY <2>1, <2>2
<1>2. ASSUME NEW d \in Callers \ {c}  PROVE Bound(call'[d], job)
  BY DEF Goes, HonourInv
<1> QED  BY <1>1, <1>2

\* An image is checked for the model that is resolved last.
LEMMA ImagesAreBound ==
  ASSUME TypeOK, HonourInv, NEW c \in Callers,
         \/ RunProbes(c) \/ RunProbe(c) \/ Interpret(c) \/ Conclude(c)
         \/ Inspect(c) \/ InspectImage(c) \/ SendImage(c)
         \/ AppendExposure(c) \/ ReadChunk(c) \/ SendChunk(c) \/ Correlate(c)
         \/ Report(c) \/ Dismiss(c) \/ Die(c),
         call'[c].pc = "recording", call[c].why = "media"
  PROVE  \A x \in call'[c].next : Within(job[call[c].job], x.backend)
<1>0. call[c] \in CallStates /\ CallOK(call[c])  BY DEF TypeOK
<1>1. CASE RunProbes(c) \/ RunProbe(c) \/ Interpret(c)
  <2>1. call[c].why = "classify"
    BY <1>0, <1>1 DEF RunProbes, RunProbe, Interpret, CallOK
  <2> QED  BY <2>1
<1>2. CASE Conclude(c)  BY <1>2, IdleIsOver DEF Conclude
<1>3. CASE AppendExposure(c)
  <2>1. call'[c].pc \in {"probing", "sending"}  BY <1>3, AppendingGoes
  <2> QED  BY <2>1
<1>4. CASE Inspect(c) \/ InspectImage(c) \/ SendImage(c)
  <2>1. PICK b : b = ResolveBackend(call[c].level, TRUE)  OBVIOUS
  <2>2. InspectImage(c) /\ b # NoBackend
    BY <1>4, <2>1, ImagesAreOne
  <2>3. PICK a \in call[c].next : call'[c].next = {Release(a, "image", b)}
    BY <1>4, <2>1, ImagesAreOne
  <2>4. call[c].pc = "reading" /\ call[c].level \in Levels /\ call[c].job \in Jobs
    BY <1>0, <2>2 DEF InspectImage, CallOK, CallStates
  <2>5. Within(job[call[c].job], b)  BY <2>1, <2>2, <2>4, ResolvedIsWithin
  <2>6. Release(a, "image", b).backend = b  BY DEF Release
  <2> QED  BY <2>3, <2>5, <2>6
<1>5. CASE \/ ReadChunk(c) \/ SendChunk(c) \/ Correlate(c)
           \/ Report(c) \/ Dismiss(c) \/ Die(c)
  <2>2. CASE ReadChunk(c)
    <3>1. call[c].why = "content"  BY <1>0, <2>2 DEF ReadChunk, CallOK
    <3> QED  BY <3>1
  <2>3. CASE SendChunk(c)
    <3>1. call[c].why = "content"  BY <2>3 DEF SendChunk
    <3> QED  BY <3>1
  <2>4. CASE Correlate(c) \/ Report(c) \/ Dismiss(c) \/ Die(c)
    <3>1. call'[c].pc # "recording"  BY <2>4, OverIsOver DEF Active
    <3> QED  BY <3>1
  <2> QED  BY <1>5, <2>2, <2>3, <2>4
<1> QED  BY <1>1, <1>2, <1>3, <1>4, <1>5

\* What a call sends goes no further than its job's depositor asked.
LEMMA CallsSendAsAsked ==
  ASSUME TypeOK, HonourInv, NEW c \in Callers,
         Interpret(c) \/ SendImage(c) \/ SendChunk(c)
  PROVE  PreferenceHonoured'
<1>0. /\ call[c] \in CallStates /\ CallOK(call[c]) /\ Bound(call[c], job)
      /\ call[c].level \in Levels /\ call[c].shown \subseteq Releases
      /\ call[c].pc # "idle" /\ call[c].job \in Jobs
  BY DEF TypeOK, HonourInv, CallStates, CallOK, Interpret, SendImage, SendChunk
<1>1. PICK j : j = call[c].job  OBVIOUS
<1>2. CASE Interpret(c)
  <2>1. PICK b : b = ResolveBackend(call[c].level, FALSE)  OBVIOUS
  <2>2. CASE b = NoBackend
    <3>1. UNCHANGED sent  BY <1>2, <2>1, <2>2 DEF Interpret, LevelOfCall
    <3> QED  BY <3>1 DEF HonourInv, PreferenceHonoured
  <2>3. CASE b # NoBackend
    <3> DEFINE what == {Sent(j, [r EXCEPT !.backend = b], call[c].least) :
                        r \in call[c].shown}
    <3>1. Show(what)
      BY <1>1, <1>2, <2>1, <2>3 DEF Interpret, LevelOfCall
    <3>2. Within(job[j], b)
      BY <1>0, <1>1, <2>1, <2>3, ResolvedIsWithin
    <3>3. ASSUME NEW s \in what  PROVE s.asked
      <4>1. PICK r \in call[c].shown : s = Sent(j, [r EXCEPT !.backend = b], call[c].least)
        OBVIOUS
      <4>2. r \in Releases  BY <1>0, <4>1
      <4>3. PICK x : x = [r EXCEPT !.backend = b]  OBVIOUS
      <4>4. x.backend = b  BY <4>2, <4>3 DEF Releases
      <4>5. Sent(j, x, call[c].least).asked  BY <3>2, <4>4, SentAsAsked
      <4> QED  BY <4>1, <4>3, <4>5
    <3> HIDE DEF what
    <3> QED  BY <3>1, <3>3, ShownAsAsked DEF HonourInv
  <2> QED  BY <2>2, <2>3
<1>3. CASE SendImage(c) \/ SendChunk(c)
  <2> DEFINE what == {Sent(j, r, call[c].least) : r \in call[c].next}
  <2>1. Show(what)
    <3>1. Show({Sent(call[c].job, r, call[c].least) : r \in call[c].next})
      BY <1>3 DEF SendImage, SendChunk
    <3> QED  BY <1>1, <3>1
  <2>2. call[c].pc = "sending" /\ call[c].why \in {"media", "content"}
    BY <1>3 DEF SendImage, SendChunk
  <2>3. ASSUME NEW s \in what  PROVE s.asked
    <3>1. PICK r \in call[c].next : s = Sent(j, r, call[c].least)  OBVIOUS
    <3>2. Within(job[j], r.backend)
      BY <1>0, <1>1, <2>2, <3>1 DEF Bound, Active
    <3> QED  BY <3>1, <3>2, SentAsAsked
  <2> HIDE DEF what
  <2> QED  BY <2>1, <2>3, ShownAsAsked DEF HonourInv
<1> QED  BY <1>2, <1>3

LEMMA WordsAsAsked ==
  ASSUME TypeOK, HonourInv, NEW j \in Jobs, NEW l \in Levels,
         ShowWords(j, l)
  PROVE  HonourInv'
<1>1. PICK b : b = ResolveBackend(l, FALSE)  OBVIOUS
<1>0. PICK n : n = Current(level[j])  OBVIOUS
<1>2. /\ b # NoBackend /\ Show({Sent(j, Words(b), n)})
      /\ UNCHANGED <<job, preference, call>>
  BY <1>0, <1>1 DEF ShowWords
<1>3. Words(b).backend = b  BY DEF Words, Release
<1>4. Within(job[j], b)  BY <1>1, <1>2, ResolvedIsWithin
<1>5. Sent(j, Words(b), n).asked  BY <1>3, <1>4, SentAsAsked
<1>6. PreferenceHonoured'  BY <1>2, <1>5, ShownAsAsked DEF HonourInv
<1> QED  BY <1>2, <1>6 DEF HonourInv

\* Jobs move on: one that is taken stays so, and allows what it did.
LEMMA JobsMoveBound ==
  ASSUME TypeOK, TypeOK', HonourInv,
         \A k \in Jobs : job[k].pc \in {"ready", "kept"} =>
            job'[k].pc \in {"ready", "kept"} /\ job[k].within <= job'[k].within,
         NEW c \in Callers
  PROVE  Bound(call[c], job')
<1> SUFFICES ASSUME Active(call[c])  PROVE Bound(call[c], job')
  BY DEF Bound
<1>1. /\ Bound(call[c], job) /\ call[c].job \in Jobs
      /\ CallOK(call[c]) /\ call[c] \in CallStates
  BY DEF HonourInv, TypeOK, CallOK, Active
<1>2. PICK k \in Jobs : k = call[c].job  BY <1>1
<1>3. job[k].pc \in {"ready", "kept"}  BY <1>1, <1>2 DEF Bound
<1>4. job'[k].pc \in {"ready", "kept"} /\ job[k].within <= job'[k].within  BY <1>3
<1>5. job[k].within \in 0 .. 2 /\ job'[k].within \in 0 .. 2
  <2>1. job[k].within \in Residences  BY DEF TypeOK
  <2>2. job'[k].within \in Residences  BY DEF TypeOK
  <2> QED  BY <2>1, <2>2 DEF Residences
<1>6. ASSUME NEW x \in Releases, Within(job[k], x.backend)
      PROVE  Within(job'[k], x.backend)
  <2>1. x.backend \in Backends  BY DEF Releases
  <2>2. Residence[x.backend] \in 0 .. 2  BY <2>1 DEF Residences
  <2> QED  BY <1>4, <1>5, <1>6, <2>2 DEF Within
<1>7. ASSUME call[c].why = "content", NEW x \in call[c].todo
      PROVE  Within(job'[k], x.backend)
  <2>1. x \in Releases  BY <1>1, <1>7 DEF CallOK
  <2>2. Within(job[k], x.backend)  BY <1>1, <1>2, <1>7 DEF Bound
  <2> QED  BY <1>6, <2>1, <2>2
<1>8. ASSUME call[c].why \in {"media", "content"}, call[c].pc \in {"recording", "sending"},
             NEW x \in call[c].next
      PROVE  Within(job'[k], x.backend)
  <2>1. x \in Releases  BY <1>1, <1>8 DEF CallOK
  <2>2. Within(job[k], x.backend)  BY <1>1, <1>2, <1>8 DEF Bound
  <2> QED  BY <1>6, <2>1, <2>2
<1> QED  BY <1>2, <1>4, <1>7, <1>8 DEF Bound

LEMMA BoundWhenAlike ==
  ASSUME NEW r, NEW s, Alike(s, r), NEW jobs, Bound(r, jobs)
  PROVE  Bound(s, jobs)
BY DEF Alike, Bound, Active

LEMMA WidenedIsWider ==
  ASSUME NEW w \in 0 .. 2, NEW p \in Preferences
  PROVE  /\ Widened(w, p) \in 0 .. 2 /\ w <= Widened(w, p)
         /\ p # Anywhere => p.ceiling <= Widened(w, p)
         /\ p = Anywhere => Widened(w, p) = w
         /\ w = 2 => Widened(w, p) = 2
<1>1. p.ceiling \in 0 .. 2  BY DEF Residences
<1> QED  BY <1>1 DEF Widened

LEMMA PreferenceIsKept ==
  ASSUME TypeOK, TypeOK', HonourInv, NEW j \in Jobs, Ingest(j) \/ RecordPreference(j)
  PROVE  HonourInv'
<1>0. ASSUME NEW k \in Jobs
      PROVE  job[k] \in [pc : {"new", "creating", "ready", "kept"}, asks : Preferences,
                         within : 0 .. 2]
  BY DEF TypeOK, Residences
<1>1. preference.ceiling \in 0 .. 2 /\ preference \in Preferences
  BY DEF TypeOK, Residences
<1>2. UNCHANGED <<call, sent>> /\ job[j].pc \in {"new", "creating"}
  BY DEF Ingest, RecordPreference
<1>3. ASSUME NEW k \in Jobs
      PROVE  /\ preference'.ceiling <= job'[k].within
             /\ job'[k].pc = "new" => job'[k].within = 2
             /\ job[k].pc \in {"ready", "kept"} =>
                   job'[k].pc \in {"ready", "kept"} /\ job[k].within <= job'[k].within
  <2>1. /\ preference.ceiling <= job[k].within
        /\ job[k].pc = "new" => job[k].within = 2
        /\ job[k].within \in 0 .. 2
    BY <1>0 DEF HonourInv
  <2>2. CASE Ingest(j)
    <3>1. PICK p \in Preferences :
            job' = [job EXCEPT ![j] = [pc |-> "creating", asks |-> p, within |-> 2]]
      BY <2>2 DEF Ingest
    <3>2. UNCHANGED preference  BY <2>2 DEF Ingest
    <3>3. CASE k = j
      <4>1. job'[k].within = 2 /\ job'[k].pc = "creating"
        BY <3>1, <3>3 DEF TypeOK
      <4> QED  BY <1>1, <1>2, <3>2, <3>3, <4>1
    <3>4. CASE k # j
      <4>1. job'[k] = job[k]  BY <3>1, <3>4 DEF TypeOK
      <4> QED  BY <2>1, <3>2, <4>1
    <3> QED  BY <3>3, <3>4
  <2>3. CASE RecordPreference(j)
    <3>1. PICK p \in Preferences : p = job[j].asks  BY <1>0
    <3>2. /\ p.ceiling \in 0 .. 2
          /\ preference' = IF p = Anywhere THEN preference ELSE p
      BY <2>3, <3>1 DEF RecordPreference, Residences
    <3>3. CASE k = j
      <4>1. job'[k] = [job[k] EXCEPT !.pc = "ready", !.within = p.ceiling]
        BY <2>3, <3>1, <3>3 DEF RecordPreference
      <4>2. job'[k].within = p.ceiling /\ job'[k].pc = "ready"
        BY <1>0, <4>1
      <4>3. p = Anywhere => p.ceiling = 2  BY DEF Anywhere
      <4> QED  BY <1>1, <1>2, <3>2, <3>3, <4>2, <4>3
    <3>4. CASE k # j
      <4>1. job'[k] = [job[k] EXCEPT !.within = Widened(job[k].within, p)]
        BY <2>3, <3>1, <3>4 DEF RecordPreference
      <4>2. job'[k].within = Widened(job[k].within, p) /\ job'[k].pc = job[k].pc
        BY <1>0, <4>1
      <4>3. /\ job[k].within <= job'[k].within
            /\ p # Anywhere => p.ceiling <= job'[k].within
            /\ p = Anywhere => job'[k].within = job[k].within
            /\ job[k].within = 2 => job'[k].within = 2
        BY <2>1, <4>2, WidenedIsWider
      <4> QED  BY <2>1, <3>2, <4>2, <4>3
    <3> QED  BY <3>3, <3>4
  <2> QED  BY <2>2, <2>3
<1>4. \A c \in Callers : Bound(call[c], job')  BY <1>3, JobsMoveBound
<1> QED  BY <1>2, <1>3, <1>4 DEF HonourInv, PreferenceHonoured

\* What a depositor asks elsewhere is allowed for in every job.
LEMMA PreferenceIsTaken ==
  ASSUME TypeOK, TypeOK', HonourInv, NEW p \in Preferences, RecordElsewhere(p)
  PROVE  HonourInv'
<1>1. UNCHANGED <<call, sent>> /\ preference' = p /\ p # Anywhere
  BY DEF RecordElsewhere
<1>2. ASSUME NEW k \in Jobs
      PROVE  /\ preference'.ceiling <= job'[k].within
             /\ job'[k].pc = "new" => job'[k].within = 2
             /\ job[k].pc \in {"ready", "kept"} =>
                   job'[k].pc \in {"ready", "kept"} /\ job[k].within <= job'[k].within
  <2>1. job[k] \in [pc : {"new", "creating", "ready", "kept"}, asks : Preferences,
                    within : 0 .. 2]
    BY DEF TypeOK, Residences
  <2>2. job[k].pc = "new" => job[k].within = 2  BY DEF HonourInv
  <2>3. job'[k] = [job[k] EXCEPT !.within = Widened(job[k].within, p)]
    BY DEF RecordElsewhere
  <2>4. job'[k].within = Widened(job[k].within, p) /\ job'[k].pc = job[k].pc
    BY <2>1, <2>3
  <2>5. /\ job[k].within <= job'[k].within /\ p.ceiling <= job'[k].within
        /\ job[k].within = 2 => job'[k].within = 2
    BY <1>1, <2>1, <2>4, WidenedIsWider
  <2> QED  BY <1>1, <2>2, <2>4, <2>5
<1>3. \A c \in Callers : Bound(call[c], job')  BY <1>2, JobsMoveBound
<1> QED  BY <1>1, <1>2, <1>3 DEF HonourInv, PreferenceHonoured

LEMMA BegunIsBound ==
  ASSUME TypeOK, HonourInv, NEW c \in Callers, NEW j \in Jobs,
         NEW why, NEW pc \in {"proposing", "looking", "chunking"}, NEW todo,
         why = "content" => \A x \in todo : Within(job[j], x.backend),
         Begin(c, j, why, pc, todo)
  PROVE  HonourInv'
<1> DEFINE w == [Idle EXCEPT !.pc = pc, !.why = why, !.job = j,
                             !.level = Current(level[j]), !.todo = todo,
                             !.least = Current(level[j])]
<1>1. /\ call' = [call EXCEPT ![c] = w] /\ UNCHANGED <<job, preference, sent>>
      /\ job[j].pc \in {"ready", "kept"}
  BY DEF Begin, Taken
<1>2. /\ w.pc = pc /\ w.why = why /\ w.todo = todo /\ w.job = j
  BY DEF Idle
<1> HIDE DEF w
<1>3. call'[c] = w /\ \A d \in Callers \ {c} : call'[d] = call[d]
  BY <1>1, OneMoves
<1>4. Bound(w, job)  BY <1>1, <1>2 DEF Bound
<1>5. \A d \in Callers : Bound(call'[d], job)  BY <1>3, <1>4 DEF HonourInv
<1> QED  BY <1>1, <1>5 DEF HonourInv, PreferenceHonoured

LEMMA HonourFirst == Init => HonourInv
<1> SUFFICES ASSUME Init  PROVE HonourInv
  OBVIOUS
<1>1. \A c \in Callers : call[c].pc = "idle"  BY DEF Init, Idle
<1>2. /\ sent = {} /\ preference.ceiling = 2
      /\ \A j \in Jobs : job[j].within = 2
  BY DEF Init, Anywhere
<1> QED  BY <1>1, <1>2 DEF HonourInv, Bound, Active, PreferenceHonoured

LEMMA HonourStays ==
  ASSUME TypeOK, TypeOK', HonourInv, [Next]_vars
  PROVE  HonourInv'
<1>1. ASSUME NEW j \in Jobs,
             \/ ResolveDmp(j) \/ ReadInstruction(j) \/ ReadStatement(j)
             \/ DraftRecord(j) \/ DraftDocumentation(j) \/ ProposeRedactions(j)
      PROVE  HonourInv'
  <2>1. \/ ShowWords(j, 2) \/ ShowWords(j, Current(level[j]))
    BY <1>1 DEF ResolveDmp, ReadInstruction, ReadStatement, DraftRecord,
                DraftDocumentation, ProposeRedactions
  <2> QED  BY <2>1, CurrentIsLevel, LevelsAre, WordsAsAsked
<1>2. ASSUME NEW j \in Jobs, Ingest(j) \/ RecordPreference(j)  PROVE HonourInv'
  BY <1>2, PreferenceIsKept
<1>3. ASSUME NEW j \in Jobs, NEW l \in Levels, ConfirmDeclaration(j, l)
      PROVE  HonourInv'
  <2>1. UNCHANGED <<job, preference, sent>>  BY <1>3 DEF ConfirmDeclaration
  <2>2. \A c \in Callers : Alike(call'[c], call[c])  BY <1>3, JobsMoveNoCall
  <2>3. \A c \in Callers : Bound(call'[c], job)
    BY <2>2, BoundWhenAlike DEF HonourInv
  <2> QED  BY <2>1, <2>3 DEF HonourInv, PreferenceHonoured
<1>4. ASSUME NEW j \in Jobs, NEW c \in Callers, ProposeProbes(c, j)
      PROVE  HonourInv'
  BY <1>4, BegunIsBound DEF ProposeProbes
<1>5. ASSUME NEW j \in Jobs, NEW c \in Callers, InspectAll(c, j)
      PROVE  HonourInv'
  BY <1>5, BegunIsBound DEF InspectAll
<1>6. ASSUME NEW j \in Jobs, NEW c \in Callers, NEW d \in Documents \cap Holds[j],
             InspectContent(c, j, d)
      PROVE  HonourInv'
  <2>1. PICK b : b = ResolveBackend(Current(level[j]), FALSE)  OBVIOUS
  <2>2. b # NoBackend /\ Begin(c, j, "content", "chunking", {Release(d, "chunk", b)})
    BY <1>6, <2>1 DEF InspectContent
  <2>3. Within(job[j], b)  BY <2>1, <2>2, CurrentIsLevel, ResolvedIsWithin
  <2>4. Release(d, "chunk", b).backend = b  BY DEF Release
  <2>5. \A x \in {Release(d, "chunk", b)} : Within(job[j], x.backend)
    BY <2>3, <2>4
  <2> QED  BY <2>2, <2>5, BegunIsBound
<1>7. ASSUME NEW c \in Callers,
             \/ RunProbes(c) \/ RunProbe(c) \/ Interpret(c) \/ Conclude(c)
             \/ Inspect(c) \/ InspectImage(c) \/ SendImage(c)
             \/ AppendExposure(c) \/ ReadChunk(c) \/ SendChunk(c) \/ Correlate(c)
             \/ Report(c) \/ Dismiss(c) \/ Die(c)
      PROVE  HonourInv'
  <2>1. Goes(c)  BY <1>7, ProbingGoes, ImagesGo, AppendingGoes, ChunksGo
  <2>2. UNCHANGED <<job, preference>>
    BY <1>7 DEF RunProbes, RunProbe, Interpret, Conclude, Inspect, InspectImage,
                SendImage, AppendExposure, ReadChunk, SendChunk, Correlate,
                Report, Dismiss, Die
  <2>3. \A d \in Callers : Bound(call'[d], job')
    BY <1>7, <2>1, <2>2, ImagesAreBound, BoundGoes
  <2>4. PreferenceHonoured'
    <3>1. CASE Interpret(c) \/ SendImage(c) \/ SendChunk(c)
      BY <3>1, CallsSendAsAsked
    <3>2. CASE ~(Interpret(c) \/ SendImage(c) \/ SendChunk(c))
      <4>1. UNCHANGED sent
        BY <1>7, <3>2 DEF RunProbes, RunProbe, Conclude, Inspect, InspectImage,
                          AppendExposure, ReadChunk, Correlate, Report, Dismiss, Die
      <4> QED  BY <4>1 DEF HonourInv, PreferenceHonoured
    <3> QED  BY <3>1, <3>2
  <2> QED  BY <2>2, <2>3, <2>4 DEF HonourInv
<1>8. CASE Restart
  <2>1. \A c \in Callers : call'[c].pc = "idle"  BY <1>8 DEF Restart, Idle
  <2>2. UNCHANGED sent  BY <1>8 DEF Restart
  <2>3. ASSUME NEW j \in Jobs  PROVE job'[j].within = 2
    <3>1. job[j] \in [pc : {"new", "creating", "ready", "kept"}, asks : Preferences,
                      within : Residences]
      BY DEF TypeOK
    <3>2. job'[j] = IF job[j].pc = "new" THEN job[j]
                    ELSE [job[j] EXCEPT !.pc = "kept", !.within = 2]
      BY <1>8 DEF Restart
    <3>3. job[j].pc = "new" => job[j].within = 2  BY DEF HonourInv
    <3> QED  BY <3>1, <3>2, <3>3
  <2>4. preference'.ceiling = 2  BY <1>8 DEF Restart, Anywhere
  <2> QED  BY <2>1, <2>2, <2>3, <2>4 DEF HonourInv, Bound, Active, PreferenceHonoured
<1>9. CASE \E p \in Preferences : RecordElsewhere(p)
  BY <1>9, PreferenceIsTaken
<1>10. CASE UNCHANGED vars
  BY <1>10 DEF vars, HonourInv, PreferenceHonoured
<1> QED  BY <1>1, <1>2, <1>3, <1>4, <1>5, <1>6, <1>7, <1>8, <1>9, <1>10 DEF Next

(* Nothing of a job goes further than its depositor asked of the process   *)
(* that sends it, or than one whose preference that process took after     *)
(* theirs: whatever each of them asks, however calls overlap and levels    *)
(* change under them.                                                      *)
THEOREM NoFurtherThanAsked == Spec => []PreferenceHonoured
<1>1. TypeOK /\ TypeOK' /\ HonourInv /\ [Next]_vars => HonourInv'  BY HonourStays
<1>2. HonourInv => PreferenceHonoured  BY DEF HonourInv
<1> QED  BY <1>1, <1>2, Initially, TypesKept, HonourFirst, PTL DEF Spec

-----------------------------------------------------------------------------
(* Images.  Of those a job holds, a call has yet to look at each, or is    *)
(* about to show it, or has shown it; or it counts one as sensitive.       *)
Awaiting(r) ==
    r.todo \cup IF r.pc = "reading" THEN r.next
                ELSE IF r.pc \in {"recording", "sending"}
                THEN {x.artefact : x \in r.next} ELSE {}

Shown(a, j, what) == \E s \in what : s.job = j /\ s.artefact = a /\ s.kind = "image"

Looked(r, what) ==
    Active(r) /\ r.why = "media" =>
        /\ r.pc = "concluding" => r.todo = {}
        /\ r.pc = "reading" => \E a \in r.next : r.next = {a}
        /\ r.pc \in {"recording", "sending"} => \A x \in r.next : x.kind = "image"
        /\ r.worst # 2 => \A a \in Images \cap Holds[r.job] :
              a \in Awaiting(r) \/ Shown(a, r.job, what)

LookedInv == \A c \in Callers : Looked(call[c], sent)

\* What was shown of an image is kept.
LEMMA LookedStays ==
  ASSUME \A a, j : Shown(a, j, sent) => Shown(a, j, sent'),
         NEW r, Looked(r, sent)
  PROVE  Looked(r, sent')
BY DEF Looked

LEMMA LookedWhenAlike ==
  ASSUME NEW r, NEW s, Alike(s, r), NEW what, Looked(r, what)
  PROVE  Looked(s, what)
<1>1. Awaiting(s) = Awaiting(r)  BY DEF Alike, Awaiting
<1> QED  BY <1>1 DEF Alike, Looked, Active

LEMMA ImagesAreKept ==
  ASSUME NEW what, UNCHANGED sent \/ Show(what)
  PROVE  \A a, j : Shown(a, j, sent) => Shown(a, j, sent')
BY DEF Shown, Show

LEMMA LookingGoes ==
  ASSUME TypeOK, LookedInv, NEW c \in Callers, Inspect(c)
  PROVE  Looked(call'[c], sent)
<1>0. /\ call[c] \in CallStates /\ CallOK(call[c]) /\ Looked(call[c], sent)
      /\ call[c].pc = "looking" /\ call[c].why = "media"
  BY DEF TypeOK, LookedInv, CallOK, Inspect
<1>1. CASE call[c].todo = {}
  <2> DEFINE w == [call[c] EXCEPT !.pc = "concluding"]
  <2>1. call' = [call EXCEPT ![c] = w]  BY <1>1 DEF Inspect
  <2>2. /\ w.pc = "concluding" /\ w.todo = call[c].todo /\ w.job = call[c].job
        /\ w.worst = call[c].worst
    BY <1>0 DEF CallStates
  <2> HIDE DEF w
  <2>3. Looked(w, sent)
    BY <1>0, <1>1, <2>2 DEF Looked, Awaiting, Active
  <2> QED  BY <2>1, <2>3, OneMoves
<1>2. CASE call[c].todo # {}
  <2>1. PICK a : a = CHOOSE i \in call[c].todo : TRUE  OBVIOUS
  <2> DEFINE rest == [call[c] EXCEPT !.todo = @ \ {a}]
             unseen == [rest EXCEPT !.worst = 2]
             seen == [rest EXCEPT !.pc = "reading", !.next = {a}]
  <2>2. \/ call' = [call EXCEPT ![c] = unseen]
        \/ call' = [call EXCEPT ![c] = seen]
    BY <1>2, <2>1 DEF Inspect, Presumed
  <2>3. unseen.pc = "looking" /\ unseen.worst = 2
    BY <1>0 DEF CallStates
  <2>4. /\ seen.pc = "reading" /\ seen.next = {a} /\ seen.job = call[c].job
        /\ seen.todo = call[c].todo \ {a} /\ seen.worst = call[c].worst
        /\ seen.why = "media"
    BY <1>0 DEF CallStates
  <2> HIDE DEF seen, unseen
  <2>5. Looked(unseen, sent)  BY <2>3 DEF Looked
  <2>6. Looked(seen, sent)
    BY <1>0, <2>4 DEF Looked, Awaiting, Active
  <2> QED  BY <2>2, <2>5, <2>6, OneMoves
<1> QED  BY <1>1, <1>2

LEMMA ReadingGoes ==
  ASSUME TypeOK, LookedInv, NEW c \in Callers, Goes(c), InspectImage(c)
  PROVE  Looked(call'[c], sent)
<1>0. /\ CallOK(call[c]) /\ Looked(call[c], sent)
      /\ call[c].pc = "reading" /\ call[c].why = "media"
      /\ call[c].next \in SUBSET Images
  BY DEF TypeOK, LookedInv, CallOK, InspectImage
<1>1. CASE Halt(c)
  <2>1. ~Active(call'[c])  BY <1>1, HaltedIsOver
  <2> QED  BY <2>1 DEF Looked
<1>2. CASE ~Halt(c)
  <2>1. PICK b : b = ResolveBackend(call[c].level, TRUE)  OBVIOUS
  <2>2. \E a \in call[c].next : Check(c, Release(a, "image", b), call[c])
    BY <1>2, <2>1 DEF InspectImage
  <2>3. PICK a \in call[c].next : Check(c, Release(a, "image", b), call[c])
    BY <2>2
  <2>4. PICK r : r = Release(a, "image", b)  OBVIOUS
  <2>5. \/ ~Active(call'[c])
        \/ /\ call'[c].pc = "recording" /\ call'[c].next = {r}
           /\ call'[c].todo = call[c].todo /\ call'[c].worst = call[c].worst
    BY <2>3, <2>4, CheckedAsItIs
  <2>6. r.artefact = a /\ r.kind = "image"
    BY <2>4 DEF Release
  <2>7. call'[c].pc = "recording" => call'[c].job = call[c].job
    BY DEF Goes
  <2>8. CASE ~Active(call'[c])  BY <2>8 DEF Looked
  <2>9. CASE Active(call'[c])
    <3>1. call[c].next = {a}  BY <1>0, <2>3 DEF Looked, Active
    <3>2. Awaiting(call[c]) = call[c].todo \cup {a}
      BY <1>0, <3>1 DEF Awaiting
    <3>3. Awaiting(call'[c]) = call[c].todo \cup {a}
      BY <2>5, <2>6, <2>9 DEF Awaiting
    <3> QED
      BY <1>0, <2>5, <2>6, <2>7, <2>9, <3>2, <3>3 DEF Looked, Active
  <2> QED  BY <2>8, <2>9
<1> QED  BY <1>1, <1>2

LEMMA ImageIsAppended ==
  ASSUME TypeOK, LookedInv, NEW c \in Callers, Goes(c), AppendExposure(c)
  PROVE  Looked(call'[c], sent)
<1>0. Looked(call[c], sent) /\ call[c].pc = "recording"
  BY DEF LookedInv, AppendExposure
<1>1. SUFFICES ASSUME Active(call'[c]), call'[c].why = "media"
               PROVE  Looked(call'[c], sent)
  BY DEF Looked
<1>2. call[c].why = "media" /\ call'[c].job = call[c].job
  BY <1>1 DEF Goes, Active
<1>3. /\ call'[c].pc = "sending" /\ call'[c].next = call[c].next
      /\ call'[c].todo = call[c].todo /\ call'[c].worst = call[c].worst
  BY <1>2, AppendedIsShown
<1>4. Awaiting(call'[c]) = Awaiting(call[c])  BY <1>0, <1>3 DEF Awaiting
<1> QED  BY <1>0, <1>2, <1>3, <1>4 DEF Looked, Active

LEMMA ImageIsShown ==
  ASSUME TypeOK, LookedInv, NEW c \in Callers, SendImage(c)
  PROVE  Looked(call'[c], sent')
<1>0. /\ call[c] \in CallStates /\ CallOK(call[c]) /\ Looked(call[c], sent)
      /\ call[c].pc = "sending" /\ call[c].why = "media"
      /\ Show({Sent(call[c].job, r, call[c].least) : r \in call[c].next})
  BY DEF TypeOK, LookedInv, CallOK, SendImage
<1>1. PICK found \in Levels \cup {NoLevel} :
        call' = [call EXCEPT ![c].pc = "looking", ![c].next = {},
                   ![c].worst = IF found = NoLevel THEN 2
                                ELSE IF found > @ THEN found ELSE @]
  BY DEF SendImage, Presumed
<1> DEFINE worst == IF found = NoLevel THEN 2
                    ELSE IF found > call[c].worst THEN found ELSE call[c].worst
           w == [call[c] EXCEPT !.pc = "looking", !.next = {}, !.worst = worst]
<1>2. call' = [call EXCEPT ![c] = w]  BY <1>1 DEF TypeOK
<1>3. /\ w.pc = "looking" /\ w.todo = call[c].todo /\ w.job = call[c].job
      /\ w.worst = worst /\ w.why = "media"
  BY <1>0 DEF CallStates
<1>4. call[c].worst = 2 => worst = 2  BY <1>1 DEF Levels, NoLevel
<1> HIDE DEF w, worst
<1>5. PICK j : j = call[c].job  OBVIOUS
<1>6. ASSUME NEW x \in call[c].next  PROVE Shown(x.artefact, j, sent')
  <2>0. PICK n : n = call[c].least  OBVIOUS
  <2>1. x.kind = "image"  BY <1>0 DEF Looked, Active
  <2>2. Sent(j, x, n) \in sent'  BY <1>0, <1>5, <2>0 DEF Show
  <2>3. /\ Sent(j, x, n).job = j /\ Sent(j, x, n).artefact = x.artefact
        /\ Sent(j, x, n).kind = "image"
    BY <2>1 DEF Sent
  <2> QED  BY <2>2, <2>3 DEF Shown
<1>7. ASSUME w.worst # 2, NEW a \in Images \cap Holds[j]
      PROVE  a \in Awaiting(w) \/ Shown(a, j, sent')
  <2>1. a \in Awaiting(call[c]) \/ Shown(a, j, sent)
    BY <1>0, <1>3, <1>4, <1>5, <1>7 DEF Looked, Active
  <2>2. Awaiting(call[c]) = call[c].todo \cup {x.artefact : x \in call[c].next}
    BY <1>0 DEF Awaiting
  <2>3. Awaiting(w) = w.todo  BY <1>3 DEF Awaiting
  <2>4. Shown(a, j, sent) => Shown(a, j, sent')  BY <1>0, ImagesAreKept
  <2> QED  BY <1>3, <1>6, <2>1, <2>2, <2>3, <2>4
<1>8. Looked(w, sent')  BY <1>3, <1>5, <1>7 DEF Looked
<1> QED  BY <1>2, <1>8, OneMoves

\* A step of a call that is not about images is over, or still not about them.
LEMMA OthersLookAtNone ==
  ASSUME TypeOK, NEW c \in Callers, Goes(c),
         \/ RunProbes(c) \/ RunProbe(c) \/ Interpret(c) \/ Conclude(c)
         \/ ReadChunk(c) \/ SendChunk(c) \/ Correlate(c)
         \/ Report(c) \/ Dismiss(c) \/ Die(c)
  PROVE  Looked(call'[c], sent')
<1>0. CallOK(call[c])  BY DEF TypeOK
<1>1. CASE RunProbes(c) \/ RunProbe(c) \/ Interpret(c)
  <2>1. call[c].why = "classify"
    BY <1>0, <1>1 DEF RunProbes, RunProbe, Interpret, CallOK
  <2> QED  BY <2>1 DEF Goes, Looked
<1>2. CASE ReadChunk(c) \/ SendChunk(c)
  <2>1. call[c].why = "content"  BY <1>0, <1>2 DEF ReadChunk, SendChunk, CallOK
  <2> QED  BY <2>1 DEF Goes, Looked
<1>3. CASE Correlate(c) \/ Report(c) \/ Dismiss(c) \/ Die(c)
  BY <1>3, OverIsOver DEF Looked
<1>4. CASE Conclude(c)  BY <1>4, IdleIsOver DEF Looked, Conclude
<1> QED  BY <1>1, <1>2, <1>3, <1>4

LEMMA BegunIsLooked ==
  ASSUME TypeOK, LookedInv, NEW c \in Callers, NEW j \in Jobs,
         NEW why, NEW pc \in {"proposing", "looking", "chunking"}, NEW todo,
         why = "media" => todo = Images \cap Holds[j],
         Begin(c, j, why, pc, todo)
  PROVE  LookedInv'
<1> DEFINE w == [Idle EXCEPT !.pc = pc, !.why = why, !.job = j,
                             !.level = Current(level[j]), !.todo = todo,
                             !.least = Current(level[j])]
<1>1. call' = [call EXCEPT ![c] = w] /\ UNCHANGED sent
  BY DEF Begin
<1>2. w.pc = pc /\ w.why = why /\ w.todo = todo /\ w.job = j
  BY DEF Idle
<1> HIDE DEF w
<1>3. call'[c] = w /\ \A d \in Callers \ {c} : call'[d] = call[d]
  BY <1>1, OneMoves
<1>4. Looked(w, sent)  BY <1>2 DEF Looked, Awaiting
<1>5. \A d \in Callers : Looked(call'[d], sent)  BY <1>3, <1>4 DEF LookedInv
<1> QED  BY <1>1, <1>5 DEF LookedInv

LEMMA LookedFirst == Init => LookedInv
<1>1. Init => \A c \in Callers : call[c].pc = "idle"  BY DEF Init, Idle
<1> QED  BY <1>1 DEF LookedInv, Looked, Active

LEMMA LookedKept ==
  ASSUME TypeOK, LookedInv, [Next]_vars
  PROVE  LookedInv'
<1>1. ASSUME NEW j \in Jobs,
             \/ Ingest(j) \/ ResolveDmp(j) \/ RecordPreference(j)
             \/ ReadInstruction(j) \/ ReadStatement(j)
             \/ DraftRecord(j) \/ DraftDocumentation(j) \/ ProposeRedactions(j)
             \/ \E l \in Levels : ConfirmDeclaration(j, l)
      PROVE  LookedInv'
  <2>1. \A c \in Callers : Alike(call'[c], call[c])  BY <1>1, JobsMoveNoCall
  <2>2. UNCHANGED sent \/ \E what : Show(what)
    BY <1>1 DEF Ingest, ResolveDmp, RecordPreference, ReadInstruction, ReadStatement,
                DraftRecord, DraftDocumentation, ProposeRedactions, ShowWords,
                ConfirmDeclaration
  <2>3. \A a, j_1 : Shown(a, j_1, sent) => Shown(a, j_1, sent')
    BY <2>2, ImagesAreKept
  <2>4. ASSUME NEW c \in Callers  PROVE Looked(call[c], sent')
    <3>1. Looked(call[c], sent)  BY DEF LookedInv
    <3> QED  BY <2>3, <3>1, LookedStays
  <2>5. \A c \in Callers : Looked(call'[c], sent')
    BY <2>1, <2>4, LookedWhenAlike
  <2> QED  BY <2>5 DEF LookedInv
<1>2. ASSUME NEW j \in Jobs, NEW c \in Callers, ProposeProbes(c, j)
      PROVE  LookedInv'
  BY <1>2, BegunIsLooked DEF ProposeProbes
<1>3. ASSUME NEW j \in Jobs, NEW c \in Callers, InspectAll(c, j)
      PROVE  LookedInv'
  BY <1>3, BegunIsLooked DEF InspectAll
<1>4. ASSUME NEW j \in Jobs, NEW c \in Callers, NEW d \in Documents \cap Holds[j],
             InspectContent(c, j, d)
      PROVE  LookedInv'
  BY <1>4, BegunIsLooked DEF InspectContent
<1>5. ASSUME NEW c \in Callers,
             \/ RunProbes(c) \/ RunProbe(c) \/ Interpret(c) \/ Conclude(c)
             \/ Inspect(c) \/ InspectImage(c) \/ SendImage(c)
             \/ AppendExposure(c) \/ ReadChunk(c) \/ SendChunk(c) \/ Correlate(c)
             \/ Report(c) \/ Dismiss(c) \/ Die(c)
      PROVE  LookedInv'
  <2>1. Goes(c)  BY <1>5, ProbingGoes, ImagesGo, AppendingGoes, ChunksGo
  <2>2. UNCHANGED sent \/ \E what : Show(what)
    BY <1>5 DEF RunProbes, RunProbe, Interpret, Conclude, Inspect, InspectImage,
                SendImage, AppendExposure, ReadChunk, SendChunk, Correlate,
                Report, Dismiss, Die
  <2>3. \A a, j : Shown(a, j, sent) => Shown(a, j, sent')
    BY <2>2, ImagesAreKept
  <2>4. Looked(call'[c], sent')
    <3>1. CASE Inspect(c) \/ InspectImage(c) \/ AppendExposure(c)
      <4>1. UNCHANGED sent  BY <3>1 DEF Inspect, InspectImage, AppendExposure
      <4>2. Looked(call'[c], sent)
        BY <2>1, <3>1, LookingGoes, ReadingGoes, ImageIsAppended
      <4> QED  BY <4>1, <4>2
    <3>2. CASE SendImage(c)  BY <3>2, ImageIsShown
    <3>3. CASE ~(\/ Inspect(c) \/ InspectImage(c) \/ AppendExposure(c)
                 \/ SendImage(c))
      BY <1>5, <2>1, <3>3, OthersLookAtNone
    <3> QED  BY <3>1, <3>2, <3>3
  <2>5. ASSUME NEW d \in Callers \ {c}  PROVE Looked(call'[d], sent')
    <3>1. Looked(call[d], sent) /\ call'[d] = call[d]
      BY <2>1 DEF LookedInv, Goes
    <3> QED  BY <2>3, <3>1, LookedStays
  <2> QED  BY <2>4, <2>5 DEF LookedInv
<1>6. CASE Restart
  <2>1. \A c \in Callers : call'[c].pc = "idle"  BY <1>6 DEF Restart, Idle
  <2> QED  BY <2>1 DEF LookedInv, Looked, Active
<1>7. CASE UNCHANGED vars \/ \E p \in Preferences : RecordElsewhere(p)
  <2>1. UNCHANGED <<call, sent>>  BY <1>7 DEF vars, RecordElsewhere
  <2> QED  BY <2>1 DEF LookedInv
<1> QED  BY <1>1, <1>2, <1>3, <1>4, <1>5, <1>6, <1>7 DEF Next

(* When the inspection of a job's images ends, each was shown to a model   *)
(* or the job is sensitive, whatever else goes on; and no conclusion       *)
(* lowers a level.                                                         *)
THEOREM NoneIsSkipped == Spec => UnseenIsSensitive
<1> DEFINE A ==
      \A c \in Callers : call[c].pc = "concluding" /\ Conclude(c) =>
          LET j == call[c].job IN
          /\ level[j] # NoLevel => level'[j] >= level[j]
          /\ call[c].why = "media" /\ level[j] # NoLevel =>
                \/ level'[j] = 2
                \/ \A a \in Images \cap Holds[j] : \E s \in sent :
                      s.job = j /\ s.artefact = a /\ s.kind = "image"
<1>1. TypeOK /\ LookedInv /\ [Next]_vars => [A]_vars
  <2> SUFFICES ASSUME TypeOK, LookedInv, NEW c \in Callers,
                      call[c].pc = "concluding", Conclude(c), NEW j, j = call[c].job,
                      level[j] # NoLevel
               PROVE  /\ level'[j] >= level[j]
                      /\ call[c].why = "media" =>
                            \/ level'[j] = 2
                            \/ \A a \in Images \cap Holds[j] : Shown(a, j, sent)
    BY DEF Shown
  <2>1. j \in Jobs /\ Looked(call[c], sent) /\ call[c] \in CallStates
    BY DEF TypeOK, CallOK, LookedInv
  <2>2. level[j] \in {0, 1, 2}  BY <2>1, LevelsAre DEF TypeOK
  <2>3. level'[j] = Tightened(level[j], call[c].worst)
    BY <2>1 DEF Conclude, TypeOK
  <2>4. call[c].worst \in {0, 1, 2, 3}
    BY <2>1, LevelsAre DEF CallStates, NoLevel
  <2>5. /\ level'[j] >= level[j]
        /\ call[c].worst = 2 => level'[j] = 2
    BY <2>2, <2>3, <2>4 DEF Tightened, NoLevel
  <2>6. ASSUME call[c].why = "media", call[c].worst # 2
        PROVE  \A a \in Images \cap Holds[j] : Shown(a, j, sent)
    <3>1. call[c].todo = {}  BY <2>1, <2>6 DEF Looked, Active
    <3>2. Awaiting(call[c]) = {}  BY <3>1 DEF Awaiting
    <3> QED  BY <2>1, <2>6, <3>2 DEF Looked, Active
  <2> QED  BY <2>5, <2>6
<1>2. TypeOK /\ LookedInv /\ [Next]_vars => LookedInv'  BY LookedKept
<1> QED  BY <1>1, <1>2, Initially, TypesKept, LookedFirst, PTL DEF Spec, UnseenIsSensitive
=============================================================================
