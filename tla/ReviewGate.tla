----------------------------- MODULE ReviewGate -----------------------------
(***************************************************************************)
(* From a model's draft to the record that is published: the review items  *)
(* the pipeline raises (pipeline.py, gate/review.py), the rules by which a *)
(* decision settles one (contracts gate.py), asking again, drafting again, *)
(* a person's own revision (api/service.py, web/views.py) and what the     *)
(* deposit reads back from the log.                                        *)
(*                                                                         *)
(* Two agents write prose into the record: metadata drafts it, and         *)
(* documentation writes a README whose sections fill the descriptions the  *)
(* record lacks.  Items of other kinds are settled by any one decision and *)
(* have no successors; Deposit has them.                                   *)
(*                                                                         *)
(* Courses says which courses of events an instance includes:              *)
(*   "redraft"        the "draft again" button over an agent's record      *)
(*   "docs-again"     another README after the record took its prose       *)
(*   "repeat"         a model that writes what it wrote before             *)
(*   "edited"         "I wrote my own version", and none written           *)
(*   "rerun-revised"  another draft over a record a person has revised     *)
(*   "recheck-fails"  a validator that fails after a person's revision     *)
(*   "model-fails"    a model that fails when it is asked again            *)
(*   "eager"          a deposit requested before the workflow offers it    *)
(*   "meanwhile"      a second actor between two reads of one request      *)
(***************************************************************************)
EXTENDS Integers, Sequences

CONSTANTS Cores,     \* what the metadata agent may write
          Readmes,   \* what the documentation agent may write
          Invalid,   \* those of Cores the validators refuse
          Own,       \* what a person writes
          Blank,     \* a description nobody has written
          Courses,   \* the courses of events included
          MaxDrafts  \* bound: drafts written, by agents and by people

AllCourses == {"redraft", "docs-again", "repeat", "edited", "rerun-revised",
               "recheck-fails", "model-fails", "eager", "meanwhile"}

ASSUME InvalidAssumption == Invalid \subseteq Cores
ASSUME TextAssumption == /\ Cores \cap Readmes = {}
                         /\ Own \notin Cores \cup Readmes
                         /\ Blank \notin Cores \cup Readmes \cup {Own}
ASSUME CoursesAssumption == Courses \subseteq AllCourses
ASSUME DraftsAssumption == MaxDrafts \in Nat

Texts == Cores \cup Readmes \cup {Own, Blank}
Agents == {"metadata", "documentation"}
Nodes == Agents \cup {"validation"}

\* The canonical record, as far as its authors are concerned.
Record == [core : Texts \ {Blank}, prose : Texts, human : BOOLEAN]
NoRecord == [core |-> Blank, prose |-> Blank, human |-> FALSE]

\* A review item is named by its agent and the digest of what it wrote.
Item == [agent : Agents, core : Texts, prose : Texts]

VARIABLES record,     \* latest_drafted_record
          drafts,     \* how many drafts, agents' and people's, are on the log
          items,      \* the items on the log, in the order first raised
          validated,  \* those with an approve or edited decision
          asked,      \* those with a request-rerun decision
          seen,       \* the nodes completed() counts as done
          checked,    \* the record the newest findings are about
          asking,     \* the agent a request for another attempt has called
          phase,      \* how far a deposit has got
          taken,      \* the record that deposit has read
          published,  \* the record that was published
          \* histories, which no action reads
          read,       \* the texts a person has stood behind
          slipped,    \* the texts that are in the record past a review item
          behind      \* whether the record was put in place past the check

vars == <<record, drafts, items, validated, asked, seen, checked, asking,
          phase, taken, published, read, slipped, behind>>
-----------------------------------------------------------------------------
Raised == {items[i] : i \in 1 .. Len(items)}

\* A plausible bug: any decision settles an item, a request included.
AnyDecision == validated \cup asked

\* GateState.resolved_ids
Resolved == validated

\* GateState.superseded_ids: raised before a validated draft of the same agent.
Superseded ==
    {items[i] : i \in {j \in 1 .. Len(items) :
       \E k \in j + 1 .. Len(items) :
          items[k].agent = items[j].agent /\ items[k] \in Resolved}}

Unresolved == Raised \ (Resolved \cup Superseded)
PendingAgents == {i.agent : i \in Unresolved}

\* The gate screen draws a form for an item with no decision of any kind.
Offered == Raised \ (validated \cup asked)

\* gate_item_events: an item already on the log is not raised again.
Raise(i) == items' = IF i \in Raised THEN items ELSE Append(items, i)

\* What a run of the agents writes.
MetadataDrafts ==
    {[core |-> c, prose |-> IF abstract THEN c ELSE Blank, human |-> FALSE] :
       c \in Cores, abstract \in BOOLEAN}
ItemFor(d) == [agent |-> "metadata", core |-> d.core, prose |-> d.prose]
ReadmeItem(r) == [agent |-> "documentation", core |-> r, prose |-> Blank]

\* descriptions_for_record: the README fills what the record lacks, and never
\* a record a person wrote.
Filled(rec, r) == IF rec = NoRecord \/ rec.human \/ rec.prose # Blank
                  THEN rec ELSE [rec EXCEPT !.prose = r]

\* A model that writes something new.
NewText(t) == "repeat" \in Courses \/ \A i \in Raised : i.core # t

\* One more draft goes to the log.
Drafts == drafts < MaxDrafts /\ drafts' = drafts + 1

\* Whether a request of several steps leaves room for another's.
Free == \/ asking = "none" /\ phase = "idle"
        \/ "meanwhile" \in Courses

Init == /\ record = NoRecord /\ drafts = 0 /\ items = <<>> /\ validated = {} /\ asked = {}
        /\ seen = {} /\ checked = NoRecord /\ asking = "none"
        /\ phase = "idle" /\ taken = NoRecord /\ published = NoRecord
        /\ read = {} /\ slipped = {} /\ behind = FALSE

\* A deposit is under way: what is written now comes after its gate check.
Late == phase # "idle"

\* The texts of a draft no item will ask about in time: it was asked about
\* before, or a deposit has passed the gate.
Unasked(i, texts) == IF Late \/ i \in Raised THEN texts ELSE {}

\* What gets past a review item when documentation writes: its text, and that
\* of the README before it, which the new item now stands for.
UnaskedReadme(r) ==
    Unasked(ReadmeItem(r), {r}) \cup ({record.prose} \cap Readmes)

\* A plausible bug: the node does not wait for the drafts upstream of it.
HeldByNothing(name) == FALSE

\* _held_by_upstream: an unvalidated draft of the node's own or of an ancestor.
Held(name) ==
    PendingAgents \cap (IF name = "metadata" THEN {"metadata"} ELSE Agents) # {}

-----------------------------------------------------------------------------
(* The nodes of the graph, run by the engine.                              *)

MetadataRuns(d) ==
    /\ Free /\ Drafts /\ NewText(d.core)
    /\ "metadata" \notin seen
    /\ ~Held("metadata")
    /\ record' = d
    /\ Raise(ItemFor(d))
    /\ seen' = seen \cup {"metadata"}
    /\ slipped' = slipped \cup Unasked(ItemFor(d), {d.core, d.prose})
    /\ behind' = (behind \/ Late)
    /\ UNCHANGED <<validated, asked, checked, asking, phase, taken, published,
                   read>>

DocumentationRuns(r) ==
    /\ Free /\ Drafts /\ NewText(r)
    /\ "metadata" \in seen /\ "documentation" \notin seen
    /\ ~Held("documentation")
    /\ record' = Filled(record, r)
    /\ Raise(ReadmeItem(r))
    /\ seen' = seen \cup {"documentation"}
    /\ slipped' = slipped \cup UnaskedReadme(r)
    /\ behind' = (behind \/ Late)
    /\ UNCHANGED <<validated, asked, checked, asking, phase, taken, published,
                   read>>

ValidationRuns ==
    /\ Free
    /\ {"metadata", "documentation"} \subseteq seen /\ "validation" \notin seen
    /\ ~Held("validation")
    /\ checked' = record
    /\ seen' = seen \cup {"validation"}
    /\ behind' = Late
    /\ UNCHANGED <<record, drafts, items, validated, asked, asking, phase, taken, published,
                   read, slipped>>
-----------------------------------------------------------------------------
(* What people decide about a draft.                                       *)

\* A plausible bug: the decisions are kept by agent, and the last one counts.
ValidateOnePerAgent(i, decision) ==
    /\ Free
    /\ i \in Raised \ validated
    /\ decision = "edited" => record.human \/ "edited" \in Courses
    /\ validated' = {j \in validated : j.agent # i.agent} \cup {i}
    /\ read' = IF decision = "approve" THEN read \cup {i.core, i.prose} ELSE read
    /\ slipped' = IF decision = "edited" /\ ~record.human
                  THEN slipped \cup {i.core, i.prose} ELSE slipped
    /\ UNCHANGED <<record, drafts, items, asked, seen, checked, asking, phase, taken,
                   published, behind>>

\* Gate.resolve with a validating decision; an item may be decided twice.
Validate(i, decision) ==
    /\ Free
    /\ i \in Raised \ validated
    /\ decision = "edited" => record.human \/ "edited" \in Courses
    /\ validated' = validated \cup {i}
    /\ read' = IF decision = "approve" THEN read \cup {i.core, i.prose} ELSE read
    /\ slipped' = IF decision = "edited" /\ ~record.human
                  THEN slipped \cup {i.core, i.prose} ELSE slipped
    /\ UNCHANGED <<record, drafts, items, asked, seen, checked, asking, phase, taken,
                   published, behind>>

\* request_rerun, up to the call of the agent: the oldest pending item of the
\* agent is answered, and the answer settles nothing.
AskAgain(agent) ==
    /\ Free /\ asking = "none"
    /\ agent \in PendingAgents
    /\ agent = "metadata" => ~record.human \/ "rerun-revised" \in Courses
    /\ agent = "documentation" =>
          record.prose \notin Readmes \/ "docs-again" \in Courses
    /\ LET oldest == CHOOSE i \in 1 .. Len(items) :
             /\ items[i] \in Unresolved /\ items[i].agent = agent
             /\ \A j \in 1 .. i - 1 : items[j] \in Unresolved => items[j].agent # agent
       IN asked' = asked \cup {items[oldest]}
    /\ asking' = agent
    /\ UNCHANGED <<record, drafts, items, validated, seen, checked, phase, taken, published,
                   read, slipped, behind>>

\* run_step, for either agent: no node is asked whether it is held.
MetadataAgain(d) ==
    /\ asking = "metadata" /\ Drafts /\ NewText(d.core)
    /\ record' = d
    /\ Raise(ItemFor(d))
    /\ seen' = seen \cup {"metadata"}
    /\ asking' = "none"
    /\ slipped' = slipped \cup Unasked(ItemFor(d), {d.core, d.prose})
    /\ behind' = (behind \/ Late \/ "validation" \in seen)
    /\ UNCHANGED <<validated, asked, checked, phase, taken, published, read>>

DocumentationAgain(r) ==
    /\ asking = "documentation" /\ Drafts /\ NewText(r)
    /\ record' = Filled(record, r)
    /\ Raise(ReadmeItem(r))
    /\ seen' = seen \cup {"documentation"}
    /\ asking' = "none"
    /\ slipped' = slipped \cup UnaskedReadme(r)
    /\ behind' = (behind \/ Late \/ "validation" \in seen)
    /\ UNCHANGED <<validated, asked, checked, phase, taken, published, read>>

\* run_step retries nothing and records no failure.
ModelFails ==
    /\ "model-fails" \in Courses
    /\ asking # "none"
    /\ asking' = "none"
    /\ UNCHANGED <<record, drafts, items, validated, asked, seen, checked, phase, taken,
                   published, read, slipped, behind>>

\* redraft_metadata: both agents over an agent's record, documentation alone
\* over a person's, and no review item for either.
DraftAgain(d, r) ==
    LET base == IF record.human THEN record ELSE d IN
    /\ Free /\ Drafts
    /\ record.human \/ ("redraft" \in Courses /\ NewText(d.core))
    /\ record' = Filled(base, r)
    /\ seen' = seen \cup Agents
    /\ slipped' = slipped \cup {record'.core, record'.prose}
    /\ behind' = TRUE
    /\ UNCHANGED <<items, validated, asked, checked, asking, phase, taken, published,
                   read>>

\* A plausible bug: the save does not run the validators again.
ReviseUnchecked(core, prose, rechecked) ==
    /\ Free /\ Drafts
    /\ core \in {Own, record.core} \ {Blank} /\ prose \in {Own, record.prose}
    /\ record' = [core |-> core, prose |-> prose, human |-> TRUE]
    /\ read' = read \cup {core, prose}
    /\ seen' = seen \cup {"metadata"}
    /\ rechecked \/ "recheck-fails" \in Courses
    /\ behind' = (~rechecked \/ Late)
    /\ UNCHANGED <<items, validated, asked, checked, asking, phase, taken,
                   published, slipped>>

\* ui_metadata_save: the form as the person left it, then revalidate_metadata,
\* whose failure is swallowed.
Revise(core, prose, rechecked) ==
    /\ Free /\ Drafts
    /\ core \in {Own, record.core} \ {Blank} /\ prose \in {Own, record.prose}
    /\ record' = [core |-> core, prose |-> prose, human |-> TRUE]
    /\ read' = read \cup {core, prose}
    /\ rechecked \/ "recheck-fails" \in Courses
    /\ checked' = IF rechecked THEN record' ELSE checked
    /\ seen' = seen \cup {"metadata"} \cup
                 (IF rechecked THEN {"validation"} ELSE {})
    /\ behind' = (~rechecked \/ Late)
    /\ UNCHANGED <<items, validated, asked, asking, phase, taken, published, slipped>>
-----------------------------------------------------------------------------
(* JobService.deposit: four loads of the log, in this order.               *)

\* The first two: not published yet, and nothing unresolved at the gate.
OpenDeposit ==
    /\ Free /\ phase = "idle" /\ published = NoRecord
    /\ Nodes \subseteq seen \/ "eager" \in Courses
    /\ Unresolved = {}
    /\ phase' = "gate-passed"
    /\ behind' = (behind \/ "validation" \notin seen)
    /\ UNCHANGED <<record, drafts, items, validated, asked, seen, checked, asking, taken,
                   published, read, slipped>>

\* The third: the newest draft, or a refusal.
TakeRecord ==
    /\ phase = "gate-passed"
    /\ taken' = record
    /\ phase' = IF record = NoRecord THEN "idle" ELSE "record-taken"
    /\ UNCHANGED <<record, drafts, items, validated, asked, seen, checked, asking, published,
                   read, slipped, behind>>

\* The fourth: the newest findings, of which an error refuses the deposit.
Publish ==
    /\ phase = "record-taken"
    /\ published' = IF checked.core \in Invalid THEN NoRecord ELSE taken
    /\ taken' = NoRecord
    /\ phase' = "idle"
    /\ UNCHANGED <<record, drafts, items, validated, asked, seen, checked, asking, read,
                   slipped, behind>>

Next ==
    \/ \E d \in MetadataDrafts : MetadataRuns(d) \/ MetadataAgain(d)
    \/ \E r \in Readmes : DocumentationRuns(r) \/ DocumentationAgain(r)
    \/ ValidationRuns
    \/ \E i \in Raised, decision \in {"approve", "edited"} : Validate(i, decision)
    \/ \E agent \in Agents : AskAgain(agent)
    \/ ModelFails
    \/ \E d \in MetadataDrafts, r \in Readmes : DraftAgain(d, r)
    \/ \E core, prose \in Texts, rechecked \in BOOLEAN : Revise(core, prose, rechecked)
    \/ OpenDeposit \/ TakeRecord \/ Publish

Spec == Init /\ [][Next]_vars
-----------------------------------------------------------------------------
TypeOK ==
    /\ record \in Record \cup {NoRecord} /\ checked \in Record \cup {NoRecord}
    /\ taken \in Record \cup {NoRecord} /\ published \in Record \cup {NoRecord}
    /\ drafts \in 0 .. MaxDrafts /\ items \in Seq(Item)
    /\ \A i, j \in 1 .. Len(items) : items[i] = items[j] => i = j
    /\ validated \subseteq Raised /\ asked \subseteq Raised
    /\ seen \subseteq Nodes /\ read \subseteq Texts
    /\ slipped \subseteq Texts /\ behind \in BOOLEAN
    /\ asking \in Agents \cup {"none"}
    /\ phase \in {"idle", "gate-passed", "record-taken"}

\* Every text of a record was approved in an item or entered by a person, or
\* is known to have got past its item.
ReadThrough(rec) == {rec.core, rec.prose} \subseteq read \cup slipped \cup {Blank}

\* What is published and was not read got there in one of five ways, and in no
\* other: it was drafted again with no item (pipeline.py:479), a model wrote it
\* a second time, a later README took the item of the one the record holds, a
\* person answered "I wrote my own" and wrote nothing, or it landed after the
\* deposit's gate check.  All else a person read in an item they approved, or
\* wrote (gate/review.py:1, "every model output, put in front of a person").
UnreadSlippedThrough == ReadThrough(published)

\* What is published and is not what the findings are about was put in place
\* by a draft again, by another attempt that landed behind the validation node,
\* or by a revision whose re-check failed, or the deposit was asked for before
\* that node or overtaken.  Neither the agents as the workflow runs them nor a
\* revision that was re-checked leave the record other than the one checked
\* (pipeline.py:445, "the record that will actually be deposited").
UncheckedSlippedBehind ==
    [][published' # published /\ published' # NoRecord
         => checked = published' \/ behind]_vars

\* No stage builds on prose that nobody read and that did not slip through:
\* neither what documentation fills nor what the validation node checks.
BuiltOnWhatWasRead ==
    [][/\ "documentation" \in seen' \ seen /\ items' # items => ReadThrough(record)
       /\ checked' # checked => ReadThrough(checked)']_vars

\* The three promises with no way around them, each of them refuted.
PublishedWasRead == {published.core, published.prose} \subseteq read \cup {Blank}
PublishedWasChecked ==
    [][published' # published /\ published' # NoRecord
         => checked = published']_vars
NothingBuiltOnUnread ==
    [][checked' # checked =>
         {checked'.core, checked'.prose} \subseteq read' \cup {Blank}]_vars

\* What has been settled stays settled, whatever is drafted, asked or decided
\* later: nobody is asked the same question twice.
SettledForEver == [][Raised \ Unresolved \subseteq Raised' \ Unresolved']_vars

\* While a draft holds the job up, the gate screen offers one that can be
\* answered (contracts gate.py:126, "the item stays open until someone approves
\* or edits what the model actually produced").
SomethingIsOffered ==
    asking = "none" /\ Unresolved # {} => Unresolved \cap Offered # {}
=============================================================================
