-------------------------- MODULE ReviewGateProofs --------------------------
(***************************************************************************)
(* What holds of the review gate whatever the models write, whoever acts   *)
(* and in whatever order, for any texts, any courses of events and any     *)
(* number of drafts.                                                       *)
(***************************************************************************)
EXTENDS ReviewGate, FiniteSetTheorems, WellFoundedInduction, TLAPS

\* A set of natural numbers that is not empty has a least one: among the
\* intervals that end in its members, one has no other below it.
LEMMA LeastNatural ==
  ASSUME NEW T \in SUBSET Nat, T # {}
  PROVE  \E x \in T : \A y \in T : x <= y
<1> DEFINE I == {0 .. n : n \in T}
<1>1. /\ I \subseteq FiniteSubsetsOf(Nat) /\ I # {}
  <2>1. \A n \in Nat : IsFiniteSet(0 .. n)  BY FS_Interval
  <2>2. \A n \in T : 0 .. n \in FiniteSubsetsOf(Nat)
    BY <2>1 DEF FiniteSubsetsOf
  <2> QED  BY <2>2
<1>2. PICK X \in I : \A Y \in I : <<Y, X>> \notin StrictSubsetOrdering(Nat)
  BY <1>1, FS_StrictSubsetOrderingWellFounded, WFMin
<1>3. PICK x \in T : X = 0 .. x  OBVIOUS
<1>4. ASSUME NEW y \in T, y < x PROVE FALSE
  <2>1. 0 .. y \in I /\ 0 .. y \subseteq 0 .. x /\ x \in 0 .. x /\ x \notin 0 .. y
    BY <1>4
  <2>2. <<0 .. y, X>> \in StrictSubsetOrdering(Nat)
    BY <2>1, <1>3 DEF StrictSubsetOrdering
  <2> QED  BY <1>2, <2>1, <2>2
<1> QED  BY <1>4

\* The items on the log, no two of them the same.
ItemsOK == /\ items \in Seq(Item)
           /\ \A i, j \in 1 .. Len(items) : items[i] = items[j] => i = j

LEMMA DraftTypes ==
  /\ \A d \in MetadataDrafts : d \in Record /\ ItemFor(d) \in Item
  /\ \A r \in Readmes : ReadmeItem(r) \in Item
  /\ \A r \in Readmes, rec \in Record \cup {NoRecord} :
        Filled(rec, r) \in Record \cup {NoRecord}
<1>1. \A d \in MetadataDrafts : d \in Record /\ ItemFor(d) \in Item
  <2> TAKE d \in MetadataDrafts
  <2>1. PICK c \in Cores, abstract \in BOOLEAN :
           d = [core |-> c, prose |-> IF abstract THEN c ELSE Blank, human |-> FALSE]
    BY DEF MetadataDrafts
  <2>2. /\ c \in Texts \ {Blank}
        /\ (IF abstract THEN c ELSE Blank) \in Texts
    BY TextAssumption DEF Texts
  <2>3. d \in Record  BY <2>1, <2>2 DEF Record
  <2>4. ItemFor(d) \in Item  BY <2>3 DEF ItemFor, Item, Agents, Record
  <2> QED  BY <2>3, <2>4
<1>2. \A r \in Readmes : ReadmeItem(r) \in Item
  BY DEF ReadmeItem, Item, Texts, Agents
<1>3. \A r \in Readmes, rec \in Record \cup {NoRecord} :
         Filled(rec, r) \in Record \cup {NoRecord}
  BY DEF Filled, Record, Texts
<1> QED  BY <1>1, <1>2, <1>3

\* Raising an item adds it at the end or leaves the log alone.
LEMMA RaiseKeeps ==
  ASSUME ItemsOK, NEW i \in Item, Raise(i)
  PROVE  /\ ItemsOK'
         /\ Len(items) <= Len(items')
         /\ \A k \in 1 .. Len(items) : items'[k] = items[k]
         /\ Raised \subseteq Raised'
<1>1. CASE i \in Raised  BY <1>1 DEF Raise, ItemsOK, Raised
<1>2. CASE i \notin Raised
  <2>1. items' = Append(items, i)  BY <1>2 DEF Raise
  <2>2. /\ Len(items) \in Nat /\ Len(items') = Len(items) + 1
        /\ items'[Len(items) + 1] = i /\ items' \in Seq(Item)
        /\ \A k \in 1 .. Len(items) : items'[k] = items[k]
    BY <2>1 DEF ItemsOK
  <2>4. \A k \in 1 .. Len(items) : items[k] # i
    BY <1>2 DEF Raised
  <2>5. \A k, l \in 1 .. Len(items') : items'[k] = items'[l] => k = l
    BY <2>2, <2>4 DEF ItemsOK
  <2>6. Raised \subseteq Raised'  BY <2>2 DEF Raised
  <2> QED  BY <2>2, <2>5, <2>6 DEF ItemsOK
<1> QED  BY <1>1, <1>2

\* What every step does to the items on the log and the decisions about them.
LEMMA LogGrows ==
  ASSUME ItemsOK, [Next]_vars
  PROVE  /\ ItemsOK'
         /\ Len(items) <= Len(items')
         /\ \A k \in 1 .. Len(items) : items'[k] = items[k]
         /\ Raised \subseteq Raised'
         /\ validated \subseteq validated' /\ asked \subseteq asked'
<1> DEFINE Kept == /\ ItemsOK'
                   /\ Len(items) <= Len(items')
                   /\ \A k \in 1 .. Len(items) : items'[k] = items[k]
                   /\ Raised \subseteq Raised'
<1>1. ASSUME UNCHANGED items PROVE Kept
  BY <1>1 DEF ItemsOK, Raised
<1>2. ASSUME NEW d \in MetadataDrafts, MetadataRuns(d) \/ MetadataAgain(d)
      PROVE  Kept /\ UNCHANGED <<validated, asked>>
  BY <1>2, DraftTypes, RaiseKeeps DEF MetadataRuns, MetadataAgain
<1>3. ASSUME NEW r \in Readmes, DocumentationRuns(r) \/ DocumentationAgain(r)
      PROVE  Kept /\ UNCHANGED <<validated, asked>>
  BY <1>3, DraftTypes, RaiseKeeps DEF DocumentationRuns, DocumentationAgain
<1>4. CASE ValidationRuns  BY <1>1, <1>4 DEF ValidationRuns
<1>5. ASSUME NEW i \in Raised, NEW decision \in {"approve", "edited"},
             Validate(i, decision)
      PROVE  Kept /\ validated \subseteq validated' /\ UNCHANGED asked
  BY <1>1, <1>5 DEF Validate
<1>6. ASSUME NEW agent \in Agents, AskAgain(agent)
      PROVE  Kept /\ UNCHANGED validated /\ asked \subseteq asked'
  BY <1>1, <1>6 DEF AskAgain
<1>7. CASE ModelFails  BY <1>1, <1>7 DEF ModelFails
<1>8. ASSUME NEW d \in MetadataDrafts, NEW r \in Readmes, DraftAgain(d, r)
      PROVE  Kept /\ UNCHANGED <<validated, asked>>
  BY <1>1, <1>8 DEF DraftAgain
<1>9. ASSUME NEW core \in Texts, NEW prose \in Texts, NEW rechecked \in BOOLEAN,
             Revise(core, prose, rechecked)
      PROVE  Kept /\ UNCHANGED <<validated, asked>>
  BY <1>1, <1>9 DEF Revise
<1>10. CASE OpenDeposit  BY <1>1, <1>10 DEF OpenDeposit
<1>11. CASE TakeRecord  BY <1>1, <1>11 DEF TakeRecord
<1>12. CASE Publish  BY <1>1, <1>12 DEF Publish
<1>13. CASE UNCHANGED vars  BY <1>1, <1>13 DEF vars
<1> QED
  BY <1>2, <1>3, <1>4, <1>5, <1>6, <1>7, <1>8, <1>9, <1>10, <1>11, <1>12, <1>13
     DEF Next

LEMMA ItemsAlwaysOK == Spec => []ItemsOK
<1>1. Init => ItemsOK  BY DEF Init, ItemsOK
<1>2. ItemsOK /\ [Next]_vars => ItemsOK'  BY LogGrows
<1> QED  BY <1>1, <1>2, PTL DEF Spec

\* A settled item is never opened again, whatever anybody writes, asks or
\* decides: drafts are only added to the log, and validations only made.
THEOREM SettledStaysSettled == Spec => SettledForEver
<1>1. ItemsOK /\ [Next]_vars =>
        [Raised \ Unresolved \subseteq Raised' \ Unresolved']_vars
  <2> SUFFICES ASSUME ItemsOK, [Next]_vars
               PROVE  Raised \ Unresolved \subseteq Raised' \ Unresolved'
    OBVIOUS
  <2>1. /\ ItemsOK'
        /\ Len(items) <= Len(items')
        /\ \A k \in 1 .. Len(items) : items'[k] = items[k]
        /\ Raised \subseteq Raised' /\ validated \subseteq validated'
    BY LogGrows
  <2>2. Len(items) \in Nat /\ Len(items') \in Nat  BY <2>1 DEF ItemsOK
  <2>3. Superseded \subseteq Superseded'
    <3> SUFFICES ASSUME NEW x \in Superseded PROVE x \in Superseded'
      OBVIOUS
    <3>1. PICK j \in 1 .. Len(items) :
             /\ x = items[j]
             /\ \E k \in j + 1 .. Len(items) :
                   items[k].agent = items[j].agent /\ items[k] \in Resolved
      BY DEF Superseded
    <3>2. PICK k \in j + 1 .. Len(items) :
             items[k].agent = items[j].agent /\ items[k] \in validated
      BY <3>1 DEF Resolved
    <3>3. j \in 1 .. Len(items') /\ k \in j + 1 .. Len(items')
      BY <2>1, <2>2
    <3>4. items'[j] = items[j] /\ items'[k] = items[k]
      BY <2>1, <2>2
    <3> QED  BY <3>1, <3>2, <3>3, <3>4, <2>1 DEF Superseded, Resolved
  <2> QED  BY <2>1, <2>3 DEF Unresolved, Resolved
<1> QED  BY <1>1, ItemsAlwaysOK, PTL DEF Spec, SettledForEver
-----------------------------------------------------------------------------
(* Type correctness, one step per action.                                   *)

LEMMA TextTypes ==
  /\ NoRecord \notin Record /\ Own \in Texts \ {Blank} /\ Blank \in Texts
  /\ \A c \in Cores : c \in Texts \ {Blank}
  /\ \A r \in Readmes : r \in Texts \ {Blank}
BY TextAssumption DEF Texts, Record, NoRecord

\* A new item goes to the end of the log.
LEMMA RaiseNew ==
  ASSUME TypeOK, NEW i \in Item, i \notin Raised, Raise(i)
  PROVE  /\ Len(items) \in Nat /\ Len(items') = Len(items) + 1
         /\ items'[Len(items) + 1] = i
         /\ \A k \in 1 .. Len(items) : items'[k] = items[k]
         /\ i \notin validated
<1>1. items' = Append(items, i) /\ items \in Seq(Item)
  BY DEF Raise, TypeOK
<1>2. i \notin validated  BY DEF TypeOK
<1> QED  BY <1>1, <1>2

\* One more draft stays within the bound.
LEMMA DraftsBounded ==
  ASSUME drafts \in 0 .. MaxDrafts, Drafts
  PROVE  drafts' \in 0 .. MaxDrafts
BY DraftsAssumption DEF Drafts

LEMMA PhaseTypes ==
  /\ "none" \in Agents \cup {"none"} /\ Agents \subseteq Nodes
  /\ "metadata" \in Agents /\ "documentation" \in Agents /\ "validation" \in Nodes
BY DEF Agents, Nodes

\* Only texts slip through.
LEMMA SlipTypes ==
  ASSUME TypeOK
  PROVE  /\ \A d \in MetadataDrafts : Unasked(ItemFor(d), {d.core, d.prose}) \subseteq Texts
         /\ \A r \in Readmes : UnaskedReadme(r) \subseteq Texts
<1>1. \A d \in MetadataDrafts : d.core \in Texts /\ d.prose \in Texts
  BY DraftTypes DEF Record
<1> QED  BY <1>1 DEF Unasked, UnaskedReadme, Texts

LEMMA StepTypes ==
  ASSUME TypeOK, [Next]_vars
  PROVE  TypeOK'
<1> USE DEF TypeOK
<1>0. /\ ItemsOK /\ ItemsOK' /\ Raised \subseteq Raised'
  BY LogGrows DEF ItemsOK
<1>1. ASSUME NEW d \in MetadataDrafts, MetadataRuns(d) \/ MetadataAgain(d) PROVE TypeOK'
  <2>1. /\ Drafts /\ seen' = seen \cup {"metadata"}
        /\ behind' \in BOOLEAN /\ asking' \in {asking, "none"}
        /\ UNCHANGED <<validated, asked, checked, phase, taken, published, read>>
    BY <1>1 DEF MetadataRuns, MetadataAgain
  <2>2. slipped' = slipped \cup Unasked(ItemFor(d), {d.core, d.prose})
    BY <1>1 DEF MetadataRuns, MetadataAgain
  <2>4. drafts' \in 0 .. MaxDrafts /\ slipped' \subseteq Texts
    BY <2>1, <2>2, DraftsBounded, SlipTypes
  <2>3. record' \in Record  BY <1>1, DraftTypes DEF MetadataRuns, MetadataAgain
  <2> QED  BY <1>0, <2>1, <2>3, <2>4, PhaseTypes DEF ItemsOK
<1>2. ASSUME NEW r \in Readmes, DocumentationRuns(r) \/ DocumentationAgain(r) PROVE TypeOK'
  <2>1. /\ Drafts /\ record' = Filled(record, r) /\ seen' = seen \cup {"documentation"}
        /\ slipped' = slipped \cup UnaskedReadme(r)
        /\ behind' \in BOOLEAN /\ asking' \in {asking, "none"}
        /\ UNCHANGED <<validated, asked, checked, phase, taken, published, read>>
    BY <1>2 DEF DocumentationRuns, DocumentationAgain
  <2>2. drafts' \in 0 .. MaxDrafts /\ slipped' \subseteq Texts
    BY <2>1, DraftsBounded, SlipTypes
  <2>3. record' \in Record \cup {NoRecord}  BY <2>1, DraftTypes
  <2> QED  BY <1>0, <2>1, <2>2, <2>3, PhaseTypes DEF ItemsOK
<1>3. CASE ValidationRuns
  <2>1. behind' \in BOOLEAN  BY <1>3 DEF ValidationRuns, Late
  <2> QED  BY <1>0, <1>3, <2>1, PhaseTypes DEF ValidationRuns, ItemsOK
<1>4. ASSUME NEW i \in Raised, NEW decision \in {"approve", "edited"}, Validate(i, decision)
      PROVE  TypeOK'
  <2>1. i \in Item  BY DEF Raised
  <2>2. i.core \in Texts /\ i.prose \in Texts  BY <2>1 DEF Item
  <2>3. UNCHANGED <<record, drafts, items, asked, seen, checked, asking, phase, taken,
                    published, behind>>
        /\ validated' = validated \cup {i} /\ read' \subseteq read \cup {i.core, i.prose}
        /\ slipped' \subseteq slipped \cup {i.core, i.prose}
    BY <1>4 DEF Validate
  <2> QED  BY <1>0, <2>2, <2>3 DEF Raised
<1>5. ASSUME NEW agent \in Agents, AskAgain(agent) PROVE TypeOK'
  <2> DEFINE Oldest(i) == /\ items[i] \in Unresolved /\ items[i].agent = agent
                          /\ \A j \in 1 .. i - 1 :
                                items[j] \in Unresolved => items[j].agent # agent
             oldest == CHOOSE i \in 1 .. Len(items) : Oldest(i)
  <2>1. /\ UNCHANGED <<record, drafts, items, validated, seen, checked, phase, taken,
                       published, read, slipped, behind>>
        /\ asking' = agent /\ asked' = asked \cup {items[oldest]}
        /\ agent \in PendingAgents
    BY <1>5 DEF AskAgain
  <2>2. \E i \in 1 .. Len(items) : Oldest(i)
    <3> DEFINE S == {i \in 1 .. Len(items) :
                       items[i] \in Unresolved /\ items[i].agent = agent}
    <3>1. S # {} /\ S \in SUBSET Nat
      BY <2>1 DEF PendingAgents, Unresolved, Raised
    <3>2. PICK i \in S : \A j \in S : i <= j
      BY <3>1, LeastNatural
    <3>3. i \in 1 .. Len(items) /\ Len(items) \in Nat
      OBVIOUS
    <3>4. \A j \in 1 .. i - 1 : j \in 1 .. Len(items) /\ j \notin S
      BY <3>2, <3>3
    <3> QED  BY <3>2, <3>3, <3>4
  <2>3. oldest \in 1 .. Len(items)  BY <2>2
  <2> HIDE DEF oldest
  <2>4. items[oldest] \in Raised  BY <2>3 DEF Raised
  <2> QED  BY <1>0, <2>1, <2>4 DEF Raised
<1>6. CASE ModelFails
  BY <1>0, <1>6 DEF ModelFails, Raised
<1>7. ASSUME NEW d \in MetadataDrafts, NEW r \in Readmes, DraftAgain(d, r) PROVE TypeOK'
  <2>1. record' \in Record \cup {NoRecord}
    BY <1>7, DraftTypes DEF DraftAgain
  <2>2. /\ Drafts /\ slipped' = slipped \cup {record'.core, record'.prose}
        /\ seen' = seen \cup Agents /\ behind' = TRUE
        /\ UNCHANGED <<items, validated, asked, checked, asking, phase, taken, published,
                       read>>
    BY <1>7 DEF DraftAgain
  <2>3. drafts' \in 0 .. MaxDrafts  BY <2>2, DraftsBounded
  <2>4. record'.core \in Texts /\ record'.prose \in Texts
    BY <2>1, TextTypes DEF Record, NoRecord
  <2> QED  BY <1>0, <2>1, <2>2, <2>3, <2>4, PhaseTypes DEF Raised
<1>8. ASSUME NEW core \in Texts, NEW prose \in Texts, NEW rechecked \in BOOLEAN,
             Revise(core, prose, rechecked)
      PROVE  TypeOK'
  <2>1. core \in Texts \ {Blank}
    BY <1>8, TextTypes DEF Revise
  <2>2. [core |-> core, prose |-> prose, human |-> TRUE] \in Record
    BY <2>1 DEF Record
  <2>3. /\ record' \in Record /\ checked' \in {record', checked}
        /\ seen' \subseteq seen \cup {"metadata", "validation"}
        /\ read' = read \cup {core, prose} /\ Drafts
        /\ UNCHANGED <<items, validated, asked, asking, phase, taken, published, slipped>>
    BY <1>8, <2>2 DEF Revise
  <2>4. behind' \in BOOLEAN  BY <1>8 DEF Revise, Late
  <2>5. drafts' \in 0 .. MaxDrafts  BY <2>3, DraftsBounded
  <2> QED  BY <1>0, <2>3, <2>4, <2>5, PhaseTypes DEF Raised
<1>9. CASE OpenDeposit
  <2>1. behind' \in BOOLEAN  BY <1>9 DEF OpenDeposit
  <2> QED  BY <1>0, <1>9, <2>1 DEF OpenDeposit, Raised
<1>10. CASE TakeRecord
  BY <1>0, <1>10 DEF TakeRecord, Raised
<1>11. CASE Publish
  BY <1>0, <1>11 DEF Publish, Raised
<1>12. CASE UNCHANGED vars
  BY <1>0, <1>12 DEF vars, Raised
<1> QED
  BY <1>1, <1>2, <1>3, <1>4, <1>5, <1>6, <1>7, <1>8, <1>9, <1>10, <1>11, <1>12 DEF Next

\* Whatever the models write and whoever acts, every variable keeps its type:
\* no item is on the log twice, and only items on it are decided or asked about.
THEOREM TypeCorrect == Spec => []TypeOK
<1>1. Init => TypeOK
  <2>1. Init => behind \in BOOLEAN  BY DEF Init
  <2>2. Init => drafts \in 0 .. MaxDrafts  BY DraftsAssumption DEF Init
  <2> QED  BY <2>1, <2>2 DEF Init, TypeOK, Raised
<1> QED  BY <1>1, StepTypes, PTL DEF Spec
-----------------------------------------------------------------------------
(* What is published was read, or slipped past.  A text of the record that *)
(* nobody has stood behind and that did not slip through is the text of    *)
(* the newest item of some agent, and that item is not validated yet: so   *)
(* it is unresolved, and holds up what would read it.                      *)

\* The item raised k-th is the newest of its agent, and not validated.
Newest(k) == \A l \in k + 1 .. Len(items) : items[l].agent # items[k].agent
Waits(k) == items[k] \notin validated /\ Newest(k)

\* It is the draft the record is, or the README that filled it.
Drafted(k) == Waits(k) /\ items[k].agent = "metadata" /\ items[k].core = record.core
Filling(k) == /\ Waits(k)
              /\ items[k].agent = "documentation" /\ items[k].core = record.prose

\* Texts that need nobody any more.
Stood == read \cup slipped \cup {Blank}

CoreRead == \/ record.core \in Stood
            \/ ~record.human /\ \E k \in 1 .. Len(items) : Drafted(k)
ProseRead ==
  \/ record.prose \in Stood
  \/ /\ ~record.human
     /\ \E k \in 1 .. Len(items) : Drafted(k) /\ items[k].prose = record.prose
  \/ /\ ~record.human /\ record.prose \in Readmes
     /\ \E k \in 1 .. Len(items) : Filling(k)

ReadInv ==
  /\ CoreRead /\ ProseRead
  /\ phase = "gate-passed" => ReadThrough(record)
  /\ ReadThrough(taken) /\ ReadThrough(published)
  /\ asking # "none" => asking \in seen
  /\ \A i \in Raised : i.agent \in seen

\* An item that waits is unresolved, and its agent has something pending.
LEMMA WaitingHolds ==
  ASSUME TypeOK, NEW k \in 1 .. Len(items), Waits(k)
  PROVE  items[k] \in Unresolved /\ items[k].agent \in PendingAgents
<1>1. items[k] \notin Superseded
  <2> SUFFICES ASSUME items[k] \in Superseded PROVE FALSE  OBVIOUS
  <2>1. PICK j \in 1 .. Len(items) :
           /\ items[j] = items[k]
           /\ \E l \in j + 1 .. Len(items) : items[l].agent = items[j].agent
    BY DEF Superseded
  <2>2. j = k  BY <2>1 DEF TypeOK
  <2> QED  BY <2>1, <2>2 DEF Waits, Newest
<1>2. items[k] \in Unresolved
  BY <1>1 DEF Waits, Unresolved, Raised, Resolved
<1> QED  BY <1>2 DEF PendingAgents

\* With nothing unresolved, every text of the record has been read or slipped.
LEMMA NothingPending ==
  ASSUME TypeOK, CoreRead, ProseRead, PendingAgents \cap Agents = {}
  PROVE  ReadThrough(record)
<1>1. \A k \in 1 .. Len(items) : ~Waits(k)
  <2> TAKE k \in 1 .. Len(items)
  <2>1. items[k] \in Item  BY DEF TypeOK
  <2>2. items[k].agent \in Agents  BY <2>1 DEF Item
  <2> QED  BY <2>2, WaitingHolds
<1> QED  BY <1>1 DEF CoreRead, ProseRead, Drafted, Filling, ReadThrough, Stood

LEMMA NothingUnresolved == Unresolved = {} => PendingAgents \cap Agents = {}
BY DEF PendingAgents

LEMMA RaiseAdds ==
  ASSUME TypeOK, NEW i \in Item, Raise(i)
  PROVE  Raised' = Raised \cup {i}
<1>1. CASE i \in Raised  BY <1>1 DEF Raise, Raised
<1>2. CASE i \notin Raised
  <2>1. /\ Len(items) \in Nat /\ Len(items') = Len(items) + 1
        /\ items'[Len(items) + 1] = i
        /\ \A k \in 1 .. Len(items) : items'[k] = items[k]
    BY <1>2, RaiseNew
  <2>2. PICK m : m = Len(items) + 1  OBVIOUS
  <2>3. /\ m \in Nat /\ Len(items') = m /\ items'[m] = i
        /\ 1 .. m = (1 .. Len(items)) \cup {m}
    BY <2>1, <2>2
  <2> QED  BY <2>1, <2>3 DEF Raised
<1> QED  BY <1>1, <1>2

\* A draft of the metadata agent waits at the end of the log, or slips through.
LEMMA MetadataWrites ==
  ASSUME TypeOK, NEW d \in MetadataDrafts, record' = d, Raise(ItemFor(d)),
         slipped' = slipped \cup Unasked(ItemFor(d), {d.core, d.prose}),
         UNCHANGED <<validated, read>>
  PROVE  /\ CoreRead' /\ ProseRead'
         /\ Late => ReadThrough(record)'
<1>1. d \in Record /\ ItemFor(d) \in Item /\ ~d.human
  BY DraftTypes DEF MetadataDrafts
<1>2. CASE Late \/ ItemFor(d) \in Raised
  <2>1. {record'.core, record'.prose} \subseteq slipped'
    BY <1>2 DEF Unasked
  <2> QED  BY <2>1 DEF CoreRead, ProseRead, Stood, ReadThrough
<1>3. CASE ~Late /\ ItemFor(d) \notin Raised
  <2>1. /\ Len(items) \in Nat /\ Len(items') = Len(items) + 1
        /\ items'[Len(items) + 1] = ItemFor(d)
        /\ ItemFor(d) \notin validated
    BY <1>1, <1>3, RaiseNew
  <2>2. PICK m : m = Len(items) + 1  OBVIOUS
  <2>3. /\ m \in Nat /\ Len(items') = m /\ items'[m] = ItemFor(d)
        /\ m \in 1 .. Len(items')
    BY <2>1, <2>2
  <2>4. Newest(m)'  BY <2>3 DEF Newest
  <2>5. Drafted(m)' /\ items'[m].prose = record'.prose
    BY <2>1, <2>3, <2>4 DEF Drafted, Waits, ItemFor
  <2> QED  BY <1>1, <1>3, <2>3, <2>5 DEF CoreRead, ProseRead
<1> QED  BY <1>2, <1>3

\* A README waits at the end of the log, or slips through; the drafts of the
\* record before it wait as they did.
LEMMA DocumentationWrites ==
  ASSUME TypeOK, NEW r \in Readmes, CoreRead, ProseRead,
         record' = Filled(record, r), Raise(ReadmeItem(r)),
         slipped' = slipped \cup UnaskedReadme(r), UNCHANGED <<validated, read>>
  PROVE  /\ CoreRead' /\ ProseRead'
         /\ Late /\ ReadThrough(record) => ReadThrough(record)'
<1>1. ReadmeItem(r) \in Item  BY DraftTypes
<1>2. /\ record'.core = record.core /\ record'.human = record.human
      /\ record'.prose # record.prose => ~record.human /\ record'.prose = r
  BY TextTypes DEF Filled, TypeOK, Record, NoRecord
<1>3. /\ Stood \subseteq Stood'
      /\ record.prose \in Readmes => record.prose \in Stood'
      /\ Late \/ ReadmeItem(r) \in Raised => r \in Stood'
  BY DEF Stood, UnaskedReadme, Unasked
<1>4. ASSUME NEW k \in 1 .. Len(items), Waits(k), items[k].agent = "metadata"
      PROVE  k \in 1 .. Len(items') /\ Waits(k)' /\ items'[k] = items[k]
  <2>1. CASE ReadmeItem(r) \in Raised
    <3>1. items' = items  BY <2>1 DEF Raise
    <3> QED  BY <3>1, <1>4 DEF Waits, Newest
  <2>2. CASE ReadmeItem(r) \notin Raised
    <3>1. /\ Len(items) \in Nat /\ Len(items') = Len(items) + 1
          /\ items'[Len(items) + 1] = ReadmeItem(r)
          /\ \A l \in 1 .. Len(items) : items'[l] = items[l]
      BY <1>1, <2>2, RaiseNew
    <3>2. k \in 1 .. Len(items') /\ items'[k] = items[k]  BY <3>1
    <3>3. ASSUME NEW l \in k + 1 .. Len(items') PROVE items'[l].agent # items'[k].agent
      <4>1. l = Len(items) + 1 \/ l \in k + 1 .. Len(items)  BY <3>1
      <4>2. l \in k + 1 .. Len(items) => l \in 1 .. Len(items)  OBVIOUS
      <4>3. ReadmeItem(r).agent = "documentation"  BY DEF ReadmeItem
      <4> QED  BY <3>1, <3>2, <4>1, <4>2, <4>3, <1>4 DEF Waits, Newest
    <3> QED  BY <3>2, <3>3, <1>4 DEF Waits, Newest
  <2> QED  BY <2>1, <2>2
<1>5. CoreRead'
  BY <1>2, <1>3, <1>4 DEF CoreRead, Drafted
<1>6. ProseRead'
  <2>1. CASE record'.prose = record.prose
    BY <2>1, <1>2, <1>3, <1>4 DEF ProseRead, Drafted
  <2>2. CASE record'.prose # record.prose /\ r \in Stood'
    BY <2>2, <1>2 DEF ProseRead
  <2>3. CASE record'.prose # record.prose /\ ReadmeItem(r) \notin Raised
    <3>1. /\ Len(items) \in Nat /\ Len(items') = Len(items) + 1
          /\ items'[Len(items) + 1] = ReadmeItem(r)
          /\ ReadmeItem(r) \notin validated
      BY <1>1, <2>3, RaiseNew
    <3>2. PICK m : m = Len(items) + 1  OBVIOUS
    <3>3. /\ m \in Nat /\ Len(items') = m /\ items'[m] = ReadmeItem(r)
          /\ m \in 1 .. Len(items')
      BY <3>1, <3>2
    <3>4. Newest(m)'  BY <3>3 DEF Newest
    <3>5. Filling(m)'
      BY <1>2, <2>3, <3>1, <3>3, <3>4 DEF Filling, Waits, ReadmeItem
    <3> QED  BY <1>2, <2>3, <3>3, <3>5 DEF ProseRead
  <2> QED  BY <1>3, <2>1, <2>2, <2>3
<1>7. Late /\ ReadThrough(record) => ReadThrough(record)'
  BY <1>2, <1>3 DEF ReadThrough, Stood
<1> QED  BY <1>5, <1>6, <1>7
\* A decision leaves the record as known as it was: what an approved item says
\* has been read, and what a person refused and did not replace slips through.
LEMMA ValidateReads ==
  ASSUME TypeOK, CoreRead, ProseRead, NEW i \in Raised,
         NEW decision \in {"approve", "edited"}, Validate(i, decision)
  PROVE  CoreRead' /\ ProseRead'
<1>1. /\ validated' = validated \cup {i} /\ UNCHANGED <<record, items>>
      /\ Stood \subseteq Stood'
      /\ ~record.human => i.core \in Stood' /\ i.prose \in Stood'
  BY DEF Validate, Stood
<1>2. \A k \in 1 .. Len(items) : Waits(k) => Waits(k)' \/ items[k] = i
  BY <1>1 DEF Waits, Newest
<1>3. CoreRead'
  BY <1>1, <1>2 DEF CoreRead, Drafted
<1>4. ProseRead'
  <2>1. CASE record.prose \in Stood
    BY <2>1, <1>1 DEF ProseRead
  <2>2. ASSUME ~record.human, NEW k \in 1 .. Len(items), Drafted(k),
               items[k].prose = record.prose
        PROVE  ProseRead'
    BY <2>2, <1>1, <1>2 DEF ProseRead, Drafted
  <2>3. ASSUME ~record.human, record.prose \in Readmes,
               NEW k \in 1 .. Len(items), Filling(k)
        PROVE  ProseRead'
    BY <2>3, <1>1, <1>2 DEF ProseRead, Filling
  <2> QED  BY <2>1, <2>2, <2>3 DEF ProseRead
<1> QED  BY <1>3, <1>4

LEMMA ReadSteps ==
  ASSUME TypeOK, ReadInv, [Next]_vars
  PROVE  ReadInv'
<1>1. ASSUME UNCHANGED <<record, items, validated>>, Stood \subseteq Stood'
      PROVE  CoreRead' /\ ProseRead' /\ Raised' = Raised
             /\ (ReadThrough(record) => ReadThrough(record)')
  BY <1>1 DEF ReadInv, CoreRead, ProseRead, Drafted, Filling, Waits, Newest, Raised,
              ReadThrough, Stood
<1>2. ASSUME UNCHANGED <<taken, published>>, Stood \subseteq Stood'
      PROVE  ReadThrough(taken)' /\ ReadThrough(published)'
  BY <1>2 DEF ReadInv, ReadThrough, Stood
<1>3. ASSUME NEW d \in MetadataDrafts, MetadataRuns(d) \/ MetadataAgain(d)
      PROVE  ReadInv'
  <2>1. /\ record' = d /\ Raise(ItemFor(d))
        /\ slipped' = slipped \cup Unasked(ItemFor(d), {d.core, d.prose})
        /\ UNCHANGED <<validated, read, phase, taken, published>>
        /\ seen' = seen \cup {"metadata"} /\ asking' \in {asking, "none"}
    BY <1>3 DEF MetadataRuns, MetadataAgain
  <2>2. CoreRead' /\ ProseRead' /\ (Late => ReadThrough(record)')
    BY <2>1, MetadataWrites
  <2>3. Raised' = Raised \cup {ItemFor(d)} /\ ItemFor(d).agent = "metadata"
    BY <2>1, DraftTypes, RaiseAdds DEF ItemFor
  <2>4. Stood \subseteq Stood'  BY <2>1 DEF Stood
  <2> QED  BY <1>2, <2>1, <2>2, <2>3, <2>4 DEF ReadInv, Late
<1>4. ASSUME NEW r \in Readmes, DocumentationRuns(r) \/ DocumentationAgain(r)
      PROVE  ReadInv'
  <2>1. /\ record' = Filled(record, r) /\ Raise(ReadmeItem(r))
        /\ slipped' = slipped \cup UnaskedReadme(r)
        /\ UNCHANGED <<validated, read, phase, taken, published>>
        /\ seen' = seen \cup {"documentation"} /\ asking' \in {asking, "none"}
    BY <1>4 DEF DocumentationRuns, DocumentationAgain
  <2>2. CoreRead' /\ ProseRead' /\ (Late /\ ReadThrough(record) => ReadThrough(record)')
    BY <2>1, DocumentationWrites DEF ReadInv
  <2>3. Raised' = Raised \cup {ReadmeItem(r)} /\ ReadmeItem(r).agent = "documentation"
    BY <2>1, DraftTypes, RaiseAdds DEF ReadmeItem
  <2>4. Stood \subseteq Stood'  BY <2>1 DEF Stood
  <2> QED  BY <1>2, <2>1, <2>2, <2>3, <2>4 DEF ReadInv, Late
<1>5. CASE ValidationRuns
  <2>1. /\ UNCHANGED <<record, items, validated, read, slipped, asking, phase, taken,
                       published>>
        /\ seen' = seen \cup {"validation"}
    BY <1>5 DEF ValidationRuns
  <2>2. Stood \subseteq Stood'  BY <2>1 DEF Stood
  <2> QED  BY <1>1, <1>2, <2>1, <2>2 DEF ReadInv
<1>6. ASSUME NEW i \in Raised, NEW decision \in {"approve", "edited"},
             Validate(i, decision)
      PROVE  ReadInv'
  <2>1. /\ UNCHANGED <<record, items, seen, asking, phase, taken, published>>
        /\ Stood \subseteq Stood'
    BY <1>6 DEF Validate, Stood
  <2>2. CoreRead' /\ ProseRead'  BY <1>6, ValidateReads DEF ReadInv
  <2>3. Raised' = Raised /\ (ReadThrough(record) => ReadThrough(record)')
    BY <2>1 DEF Raised, ReadThrough, Stood
  <2> QED  BY <1>2, <2>1, <2>2, <2>3 DEF ReadInv
<1>7. ASSUME NEW agent \in Agents, AskAgain(agent) PROVE ReadInv'
  <2>1. /\ UNCHANGED <<record, items, validated, read, slipped, seen, phase, taken,
                       published>>
        /\ asking' = agent /\ agent \in PendingAgents
    BY <1>7 DEF AskAgain
  <2>2. agent \in seen
    BY <2>1 DEF PendingAgents, Unresolved, ReadInv
  <2>3. Stood \subseteq Stood'  BY <2>1 DEF Stood
  <2> QED  BY <1>1, <1>2, <2>1, <2>2, <2>3 DEF ReadInv
<1>8. CASE ModelFails
  <2>1. /\ UNCHANGED <<record, items, validated, read, slipped, seen, phase, taken,
                       published>>
        /\ asking' = "none"
    BY <1>8 DEF ModelFails
  <2>2. Stood \subseteq Stood'  BY <2>1 DEF Stood
  <2> QED  BY <1>1, <1>2, <2>1, <2>2 DEF ReadInv
<1>9. ASSUME NEW d \in MetadataDrafts, NEW r \in Readmes, DraftAgain(d, r)
      PROVE  ReadInv'
  <2>1. /\ UNCHANGED <<items, read, asking, phase, taken, published>>
        /\ seen' = seen \cup Agents
        /\ slipped' = slipped \cup {record'.core, record'.prose}
    BY <1>9 DEF DraftAgain
  <2>2. /\ Stood \subseteq Stood' /\ CoreRead' /\ ProseRead' /\ ReadThrough(record)'
        /\ Raised' = Raised
    BY <2>1 DEF CoreRead, ProseRead, ReadThrough, Stood, Raised
  <2> QED  BY <1>2, <2>1, <2>2 DEF ReadInv
<1>10. ASSUME NEW core \in Texts, NEW prose \in Texts, NEW rechecked \in BOOLEAN,
              Revise(core, prose, rechecked)
       PROVE  ReadInv'
  <2>1. /\ UNCHANGED <<items, asking, phase, taken, published, slipped>>
        /\ record'.core = core /\ record'.prose = prose
        /\ read' = read \cup {core, prose} /\ seen \subseteq seen'
    BY <1>10 DEF Revise
  <2>2. /\ Stood \subseteq Stood' /\ CoreRead' /\ ProseRead' /\ ReadThrough(record)'
        /\ Raised' = Raised
    BY <2>1 DEF CoreRead, ProseRead, ReadThrough, Stood, Raised
  <2> QED  BY <1>2, <2>1, <2>2 DEF ReadInv
<1>11. CASE OpenDeposit
  <2>1. /\ UNCHANGED <<record, items, validated, read, slipped, seen, asking, taken,
                       published>>
        /\ Unresolved = {}
    BY <1>11 DEF OpenDeposit
  <2>2. ReadThrough(record)
    BY <2>1, NothingUnresolved, NothingPending DEF ReadInv
  <2>3. Stood \subseteq Stood'  BY <2>1 DEF Stood
  <2> QED  BY <1>1, <1>2, <2>1, <2>2, <2>3 DEF ReadInv
<1>12. CASE TakeRecord
  <2>1. /\ UNCHANGED <<record, items, validated, read, slipped, seen, asking, published>>
        /\ taken' = record /\ phase = "gate-passed" /\ phase' # "gate-passed"
    BY <1>12 DEF TakeRecord
  <2>2. Stood \subseteq Stood'  BY <2>1 DEF Stood
  <2>3. ReadThrough(taken)' /\ ReadThrough(published)'
    BY <2>1 DEF ReadInv, ReadThrough
  <2> QED  BY <1>1, <2>1, <2>2, <2>3 DEF ReadInv
<1>13. CASE Publish
  <2>1. /\ UNCHANGED <<record, items, validated, read, slipped, seen, asking>>
        /\ taken' = NoRecord /\ phase' = "idle" /\ published' \in {NoRecord, taken}
    BY <1>13 DEF Publish
  <2>2. Stood \subseteq Stood'  BY <2>1 DEF Stood
  <2>3. ReadThrough(taken)' /\ ReadThrough(published)'
    BY <2>1 DEF ReadInv, ReadThrough, NoRecord
  <2> QED  BY <1>1, <2>1, <2>2, <2>3 DEF ReadInv
<1>14. CASE UNCHANGED vars
  <2>1. Stood \subseteq Stood'  BY <1>14 DEF vars, Stood
  <2> QED  BY <1>1, <1>2, <1>14, <2>1 DEF vars, ReadInv
<1> QED
  BY <1>3, <1>4, <1>5, <1>6, <1>7, <1>8, <1>9, <1>10, <1>11, <1>12, <1>13, <1>14
     DEF Next

LEMMA AlwaysRead == Spec => [](TypeOK /\ ReadInv)
<1>1. Init => ReadInv
  BY DEF Init, Raised, ReadInv, CoreRead, ProseRead, ReadThrough, Stood, NoRecord
<1>2. (TypeOK /\ ReadInv) /\ [Next]_vars => (TypeOK /\ ReadInv)'
  BY StepTypes, ReadSteps
<1> QED  BY <1>1, <1>2, TypeCorrect, PTL DEF Spec

\* What is published was read by a person in an item they approved, or written
\* by one, unless it slipped through in one of the five ways that are named:
\* in every course of events, with any number of people at work at once.
THEOREM UnreadOnlySlips == Spec => []UnreadSlippedThrough
<1>1. ReadInv => UnreadSlippedThrough
  BY DEF ReadInv, UnreadSlippedThrough
<1> QED  BY <1>1, AlwaysRead, PTL

\* What documentation fills and what the validation node checks was read by
\* then, or slipped through, whatever else is drafted, asked and decided.
THEOREM BuiltOnRead == Spec => BuiltOnWhatWasRead
<1> DEFINE A == /\ "documentation" \in seen' \ seen /\ items' # items => ReadThrough(record)
                /\ checked' # checked => ReadThrough(checked)'
<1> SUFFICES Spec => [][A]_vars
  BY DEF BuiltOnWhatWasRead
<1>1. TypeOK /\ ReadInv /\ [Next]_vars => [A]_vars
  <2> SUFFICES ASSUME TypeOK, ReadInv, Next PROVE A
    BY DEF vars
  <2>1. PendingAgents \cap Agents = {} => ReadThrough(record)
    BY NothingPending DEF ReadInv
  <2>2. ASSUME NEW d \in MetadataDrafts, MetadataRuns(d) \/ MetadataAgain(d) PROVE A
    <3>1. checked' = checked /\ seen' = seen \cup {"metadata"}
      BY <2>2 DEF MetadataRuns, MetadataAgain
    <3> QED  BY <3>1
  <2>3. ASSUME NEW r \in Readmes, DocumentationRuns(r) PROVE A
    BY <2>3, <2>1 DEF DocumentationRuns, Held
  <2>4. ASSUME NEW r \in Readmes, DocumentationAgain(r) PROVE A
    BY <2>4 DEF DocumentationAgain, ReadInv
  <2>5. CASE ValidationRuns
    <3>1. /\ PendingAgents \cap Agents = {}
          /\ UNCHANGED <<read, slipped, items>> /\ checked' = record
      BY <2>5 DEF ValidationRuns, Held
    <3> QED  BY <3>1, <2>1 DEF ReadThrough
  <2>6. ASSUME NEW i \in Raised, NEW decision \in {"approve", "edited"},
               Validate(i, decision)
        PROVE  A
    BY <2>6 DEF Validate
  <2>7. ASSUME NEW agent \in Agents, AskAgain(agent) PROVE A
    BY <2>7 DEF AskAgain
  <2>8. CASE ModelFails  BY <2>8 DEF ModelFails
  <2>9. ASSUME NEW d \in MetadataDrafts, NEW r \in Readmes, DraftAgain(d, r) PROVE A
    BY <2>9 DEF DraftAgain
  <2>10. ASSUME NEW core \in Texts, NEW prose \in Texts, NEW rechecked \in BOOLEAN,
                Revise(core, prose, rechecked)
         PROVE  A
    <3>1. /\ items' = items /\ read' = read \cup {core, prose}
          /\ record'.core = core /\ record'.prose = prose
          /\ checked' \in {record', checked}
      BY <2>10 DEF Revise
    <3> QED  BY <3>1 DEF ReadThrough
  <2>11. CASE OpenDeposit \/ TakeRecord \/ Publish
    BY <2>11 DEF OpenDeposit, TakeRecord, Publish
  <2> QED
    BY <2>2, <2>3, <2>4, <2>5, <2>6, <2>7, <2>8, <2>9, <2>10, <2>11 DEF Next
<1> QED  BY <1>1, AlwaysRead, PTL DEF Spec
-----------------------------------------------------------------------------
(* What is published was checked, or was put in place behind the check.    *)
(* Once the validation node is done its findings are about the record as   *)
(* it is, until one of the named ways leaves another in its place; the     *)
(* agents as the workflow runs them find nothing to do by then.            *)

CheckInv ==
  /\ "validation" \in seen => "metadata" \in seen
  /\ "validation" \in seen /\ ~behind =>
        checked = record /\ (record.human \/ "documentation" \in seen)
  /\ phase = "gate-passed" /\ ~behind => checked = record
  /\ phase = "record-taken" /\ ~behind => taken = checked

LEMMA CheckSteps ==
  ASSUME CheckInv, [Next]_vars
  PROVE  CheckInv'
<1>1. ASSUME NEW d \in MetadataDrafts, MetadataRuns(d) PROVE CheckInv'
  <2>1. /\ "metadata" \notin seen /\ seen' = seen \cup {"metadata"}
        /\ behind' = (behind \/ Late) /\ UNCHANGED <<phase, taken, checked>>
    BY <1>1 DEF MetadataRuns
  <2>2. "validation" \notin seen  BY <2>1 DEF CheckInv
  <2> QED  BY <2>1, <2>2 DEF CheckInv, Late
<1>2. ASSUME NEW r \in Readmes, DocumentationRuns(r) PROVE CheckInv'
  <2>1. /\ "documentation" \notin seen /\ seen' = seen \cup {"documentation"}
        /\ behind' = (behind \/ Late) /\ UNCHANGED <<phase, taken, checked>>
        /\ record' = Filled(record, r)
    BY <1>2 DEF DocumentationRuns
  <2>2. record.human => record' = record  BY <2>1 DEF Filled
  <2> QED  BY <2>1, <2>2 DEF CheckInv, Late
<1>3. ASSUME NEW d \in MetadataDrafts, MetadataAgain(d) PROVE CheckInv'
  <2>1. /\ seen' = seen \cup {"metadata"} /\ UNCHANGED <<phase, taken, checked>>
        /\ behind' = (behind \/ Late \/ "validation" \in seen)
    BY <1>3 DEF MetadataAgain
  <2> QED  BY <2>1 DEF CheckInv, Late
<1>4. ASSUME NEW r \in Readmes, DocumentationAgain(r) PROVE CheckInv'
  <2>1. /\ seen' = seen \cup {"documentation"} /\ UNCHANGED <<phase, taken, checked>>
        /\ behind' = (behind \/ Late \/ "validation" \in seen)
    BY <1>4 DEF DocumentationAgain
  <2> QED  BY <2>1 DEF CheckInv, Late
<1>5. CASE ValidationRuns
  <2>1. /\ UNCHANGED <<record, phase, taken>> /\ behind' = Late
        /\ seen' = seen \cup {"validation"} /\ checked' = record
        /\ "metadata" \in seen /\ "documentation" \in seen
    BY <1>5 DEF ValidationRuns
  <2> QED  BY <2>1 DEF CheckInv, Late
<1>6. ASSUME NEW i \in Raised, NEW decision \in {"approve", "edited"},
             Validate(i, decision)
      PROVE  CheckInv'
  BY <1>6 DEF Validate, CheckInv
<1>7. ASSUME NEW agent \in Agents, AskAgain(agent) PROVE CheckInv'
  <2>1. UNCHANGED <<record, seen, checked, phase, taken, behind>>
    BY <1>7 DEF AskAgain
  <2> QED  BY <2>1 DEF CheckInv
<1>8. CASE ModelFails
  BY <1>8 DEF ModelFails, CheckInv
<1>9. ASSUME NEW d \in MetadataDrafts, NEW r \in Readmes, DraftAgain(d, r)
      PROVE  CheckInv'
  <2>1. seen' = seen \cup Agents /\ behind' = TRUE
    BY <1>9 DEF DraftAgain
  <2>2. "metadata" \in Agents /\ "validation" \notin Agents  BY DEF Agents
  <2> QED  BY <2>1, <2>2 DEF CheckInv
<1>10. ASSUME NEW core \in Texts, NEW prose \in Texts, NEW rechecked \in BOOLEAN,
              Revise(core, prose, rechecked)
       PROVE  CheckInv'
  <2>1. /\ UNCHANGED <<phase, taken>> /\ record'.human /\ "metadata" \in seen'
        /\ behind' = (~rechecked \/ Late)
        /\ rechecked => checked' = record'
    BY <1>10 DEF Revise
  <2> QED  BY <2>1 DEF CheckInv, Late
<1>11. CASE OpenDeposit
  <2>1. /\ UNCHANGED <<record, checked, seen, taken>>
        /\ behind' = (behind \/ "validation" \notin seen) /\ phase' = "gate-passed"
    BY <1>11 DEF OpenDeposit
  <2> QED  BY <2>1 DEF CheckInv
<1>12. CASE TakeRecord
  <2>1. /\ UNCHANGED <<record, checked, seen, behind>>
        /\ taken' = record /\ phase = "gate-passed" /\ phase' # "gate-passed"
    BY <1>12 DEF TakeRecord
  <2> QED  BY <2>1 DEF CheckInv
<1>13. CASE Publish
  <2>1. UNCHANGED <<record, checked, seen, behind>> /\ phase' = "idle"
    BY <1>13 DEF Publish
  <2> QED  BY <2>1 DEF CheckInv
<1>14. CASE UNCHANGED vars
  BY <1>14 DEF vars, CheckInv
<1> QED
  BY <1>1, <1>2, <1>3, <1>4, <1>5, <1>6, <1>7, <1>8, <1>9, <1>10, <1>11, <1>12,
     <1>13, <1>14 DEF Next

\* A record that is not the one its findings are about is published only when
\* it was put in place, asked for or overtaken behind the validation node in
\* one of the ways that are named: in every course of events.
THEOREM UncheckedOnlySlips == Spec => UncheckedSlippedBehind
<1>1. Init => CheckInv
  BY DEF Init, CheckInv
<1>2. CheckInv /\ [Next]_vars => CheckInv'
  BY CheckSteps
<1>3. CheckInv /\ [Next]_vars =>
        [published' # published /\ published' # NoRecord
           => checked = published' \/ behind]_vars
  <2> SUFFICES ASSUME CheckInv, Next, published' # published, published' # NoRecord
               PROVE  checked = published' \/ behind
    OBVIOUS
  <2>1. Publish
    BY DEF Next, MetadataRuns, MetadataAgain, DocumentationRuns, DocumentationAgain,
           ValidationRuns, Validate, AskAgain, ModelFails, DraftAgain, Revise,
           OpenDeposit, TakeRecord
  <2> QED  BY <2>1 DEF Publish, CheckInv
<1> QED  BY <1>1, <1>2, <1>3, PTL DEF Spec, UncheckedSlippedBehind
=============================================================================
