-------------------------- MODULE RetentionProofs --------------------------
(***************************************************************************)
(* What holds of the removal of working directories for any number of      *)
(* directories and sweeps, any length of grace, and every course.          *)
(***************************************************************************)
EXTENDS Retention, WellFoundedInduction, TLAPS

USE RetentionAssumption

LEMMA FirstIsOne == ASSUME NEW S \in SUBSET Dirs, S # {} PROVE First(S) \in S
<1> DEFINE R == {p \in Nat \X Nat : p[1] < p[2]}
<1>1. S \subseteq Nat  OBVIOUS
<1>2. IsWellFoundedOn(R, Nat)  BY NatLessThanWellFounded DEF OpToRel
<1>3. PICK d \in S : \A e \in S : <<e, d>> \notin R
  <2> HIDE DEF R
  <2> QED  BY <1>1, <1>2, WFMin
<1>4. \A e \in S : d <= e
  <2> TAKE e \in S
  <2>1. e \in Nat /\ d \in Nat /\ <<e, d>> \in Nat \X Nat  BY <1>1
  <2>2. ~ (<<e, d>>[1] < <<e, d>>[2])  BY <1>3, <2>1
  <2> QED  BY <2>1, <2>2
<1> QED  BY <1>4 DEF First

LEMMA CategoryIsOne == ASSUME NEW d \in Dirs PROVE Category(d) \in Categories
BY DEF Category

LEMMA MarkIsOne ==
  ASSUME day \in 0..MaxDay, NEW c \in Categories, NEW o \in BOOLEAN
  PROVE  MarkOf(c, o) \in Marks
<1>1. Grace[c] \in Nat /\ day + Grace[c] \in Nat  OBVIOUS
<1> QED  BY <1>1 DEF MarkOf, Marks

LEMMA IdleIsOne == Idle \in SweepStates /\ SweepOK(Idle)
BY DEF Idle, SweepStates, SweepOK, Removing, Amounts

\* The current directory of a sweep with something to do.
LEMMA CurrentIsOne ==
  ASSUME TypeOK, NEW s \in Sweeps, sweep[s].todo # {}
  PROVE  Current(s) \in Dirs /\ Current(s) \in sweep[s].todo
BY FirstIsOne DEF TypeOK, SweepStates, Current

LEMMA Busy ==
  ASSUME TypeOK, NEW s \in Sweeps, sweep[s].pc \notin {"idle", "marking"}
  PROVE  /\ sweep[s].todo # {} /\ Current(s) \in Dirs
         /\ Current(s) \in sweep[s].todo
BY CurrentIsOne DEF TypeOK, SweepOK

\* Where a removal is written is a log of some directory's job, or nowhere.
LEMMA LogIsOne ==
  ASSUME TypeOK, NEW s \in Sweeps, sweep[s].pc \in {"deleting"} \cup Removing
  PROVE  Log(s) \subseteq Dirs /\ Key(s) \subseteq Dirs \X Dirs
<1>1. Current(s) \in Dirs  BY Busy DEF Removing
<1>2. \A m : Recorder(Current(s), m) \subseteq Dirs
  <2> TAKE m
  <2> DEFINE known == {j \in Dirs : job[j] # "none"}
  <2>1. known # {} => First(known) \in Dirs  BY FirstIsOne
  <2> QED  BY <1>1, <2>1 DEF Recorder
<1> QED  BY <1>1, <1>2 DEF Log, Key

LEMMA WrittenTypes ==
  ASSUME TypeOK, NEW s \in Sweeps, Written(s)
  PROVE  last' \in [Dirs -> 0..MaxDay]
<1>1. DOMAIN last = Dirs /\ last' = [j \in Dirs |-> IF j \in Log(s) THEN day ELSE last[j]]
  BY DEF Written, TypeOK
<1> QED  BY <1>1 DEF TypeOK

\* One sweep moves to a good state, and the others stay where they are.
LEMMA SweepMoves ==
  ASSUME TypeOK, NEW s \in Sweeps, NEW w \in SweepStates, SweepOK(w),
         sweep' = [sweep EXCEPT ![s] = w]
  PROVE  /\ sweep' \in [Sweeps -> SweepStates]
         /\ \A t \in Sweeps : SweepOK(sweep'[t])
         /\ sweep'[s] = w /\ \A t \in Sweeps \ {s} : sweep'[t] = sweep[t]
BY DEF TypeOK

LEMMA TypesOfAsking ==
  ASSUME TypeOK, NEW s \in Sweeps, Candidates(s) \/ CheckSurvival(s) PROVE TypeOK'
<1>1. CASE Candidates(s)
  <2> DEFINE there == {d \in Dirs : held[d] # "gone"}
             w == [sweep[s] EXCEPT !.pc = "asking", !.todo = there,
                                   !.category = [d \in Dirs |-> Category(d)]]
  <2>1. sweep' = [sweep EXCEPT ![s] = w]  BY <1>1 DEF Candidates, TypeOK
  <2>2. sweep[s] \in SweepStates  BY DEF TypeOK
  <2>5. [d \in Dirs |-> Category(d)] \in [Dirs -> Categories]  BY CategoryIsOne
  <2>6. w \in SweepStates  BY <2>2, <2>5 DEF SweepStates
  <2>7. w.pc = "asking" /\ w.todo # {}  BY <1>1, <2>2 DEF Candidates, SweepStates
  <2>3. SweepOK(w)  BY <2>7 DEF SweepOK, Removing
  <2>4. /\ sweep' \in [Sweeps -> SweepStates]
        /\ \A t \in Sweeps : SweepOK(sweep'[t])
    BY <2>1, <2>6, <2>3, SweepMoves
  <2> QED  BY <1>1, <2>4 DEF Candidates, jobs, logs, TypeOK
<1>2. CASE CheckSurvival(s)
  <2> DEFINE d == Current(s)
             left == sweep[s].todo \ {d}
  <2>1. PICK answer : LET survives == sweep[s].survives \cup
                    (IF Deletable(sweep[s].category[d], answer) THEN {d} ELSE {})
              IN  /\ sweep' = [sweep EXCEPT
                        ![s].survives = survives,
                        ![s].todo = IF left = {} THEN survives ELSE left,
                        ![s].pc   = IF left = {} THEN "marking" ELSE "asking"]
                  /\ found' = IF answer = "survives" /\ found[d] = Never
                              THEN [found EXCEPT ![d] = day] ELSE found
    BY <1>2 DEF CheckSurvival
  <2> DEFINE survives == sweep[s].survives \cup
                    (IF Deletable(sweep[s].category[d], answer) THEN {d} ELSE {})
             w == [sweep[s] EXCEPT !.survives = survives,
                        !.todo = IF left = {} THEN survives ELSE left,
                        !.pc   = IF left = {} THEN "marking" ELSE "asking"]
  <2>2. d \in Dirs  BY <1>2, Busy DEF CheckSurvival
  <2>3. sweep' = [sweep EXCEPT ![s] = w]  BY <2>1 DEF TypeOK
  <2>8. sweep[s] \in SweepStates  BY DEF TypeOK
  <2>4. w \in SweepStates
    <3>1. survives \subseteq Dirs /\ left \subseteq Dirs  BY <2>2, <2>8 DEF SweepStates
    <3> QED  BY <3>1, <2>8 DEF SweepStates
  <2>5. SweepOK(w)
    BY DEF TypeOK, SweepStates, SweepOK, Removing
  <2>6. /\ sweep' \in [Sweeps -> SweepStates]
        /\ \A t \in Sweeps : SweepOK(sweep'[t])
    BY <2>3, <2>4, <2>5, SweepMoves
  <2>7. found' \in [Dirs -> 0..Never]
    <3>1. day \in 0..Never  BY DEF TypeOK, Never
    <3>2. found' \in {found, [found EXCEPT ![d] = day]}  BY <2>1
    <3> QED  BY <2>2, <3>1, <3>2 DEF TypeOK
  <2> QED  BY <1>2, <2>6, <2>7 DEF CheckSurvival, jobs, logs, TypeOK, Never
<1> QED  BY <1>1, <1>2


LEMMA TypesOfMarking ==
  ASSUME TypeOK, NEW s, NEW d,
         \/ s \in Sweeps /\ Mark(s)
         \/ d \in Dirs /\ (OrderMark(d) \/ Unmark(d))
  PROVE  TypeOK'
<1> USE DEF jobs, logs
<1>1. CASE s \in Sweeps /\ Mark(s)
  <2> DEFINE e == Current(s)
  <2>1. e \in Dirs /\ sweep[s] \in SweepStates
    BY <1>1, CurrentIsOne DEF Mark, TypeOK
  <2>2. CASE held[e] = "gone"
    <3>1. sweep' = [sweep EXCEPT ![s] = Idle] /\ mark' = mark  BY <1>1, <2>2 DEF Mark
    <3>2. /\ sweep' \in [Sweeps -> SweepStates]
          /\ \A t \in Sweeps : SweepOK(sweep'[t])
      BY <1>1, <3>1, IdleIsOne, SweepMoves
    <3> QED  BY <1>1, <3>1, <3>2 DEF Mark, TypeOK
  <2>3. CASE held[e] # "gone"
    <3> DEFINE w == [sweep[s] EXCEPT !.todo = @ \ {e}]
    <3>1. /\ sweep' = [sweep EXCEPT ![s] = w]
          /\ mark' = [mark EXCEPT ![e] = MarkOf(sweep[s].category[e], FALSE)]
      BY <1>1, <2>3 DEF Mark
    <3>2. w \in SweepStates  BY <2>1 DEF SweepStates
    <3>3. SweepOK(w)
      <4>1. w.pc = "marking"  BY <1>1, <2>1 DEF Mark, SweepStates
      <4> QED  BY <4>1 DEF SweepOK, Removing
    <3>4. /\ sweep' \in [Sweeps -> SweepStates]
          /\ \A t \in Sweeps : SweepOK(sweep'[t])
      BY <1>1, <3>1, <3>2, <3>3, SweepMoves
    <3>5. MarkOf(sweep[s].category[e], FALSE) \in Marks
      <4>1. sweep[s].category[e] \in Categories  BY <2>1 DEF SweepStates
      <4> QED  BY <4>1, MarkIsOne DEF TypeOK
    <3>6. mark' \in [Dirs -> Marks \cup {NoMark}]  BY <3>1, <3>5, <2>1 DEF TypeOK
    <3> QED  BY <1>1, <3>4, <3>6 DEF Mark, TypeOK
  <2> QED  BY <2>2, <2>3
<1>2. CASE d \in Dirs /\ OrderMark(d)
  <2>1. MarkOf(Category(d), TRUE) \in Marks
    BY <1>2, CategoryIsOne, MarkIsOne DEF TypeOK
  <2>2. mark' \in [Dirs -> Marks \cup {NoMark}]  BY <1>2, <2>1 DEF OrderMark, TypeOK
  <2> QED  BY <1>2, <2>2 DEF OrderMark, TypeOK
<1>3. CASE d \in Dirs /\ Unmark(d)  BY <1>3 DEF Unmark, TypeOK
<1> QED  BY <1>1, <1>2, <1>3

\* A sweep that is given the marks of the directories it is to remove.
LEMMA DeletingIsOne ==
  ASSUME NEW todo \in SUBSET Dirs, todo # {},
         NEW due \in [Dirs -> Marks \cup {NoMark}], \A d \in todo : due[d] \in Marks,
         NEW w,
         \/ w = [Idle EXCEPT !.pc = "deleting", !.todo = todo, !.due = due]
         \/ w = [Idle EXCEPT !.pc = "deleting", !.todo = todo, !.ordered = TRUE,
                             !.due = due]
  PROVE  w \in SweepStates /\ SweepOK(w)
<1>1. w \in SweepStates  BY IdleIsOne DEF SweepStates
<1>2. w.pc = "deleting" /\ w.todo = todo /\ w.due = due
  BY DEF Idle
<1> QED  BY <1>1, <1>2 DEF SweepOK, Removing

LEMMA TypesOfChoosing ==
  ASSUME TypeOK, NEW s \in Sweeps, Due(s) \/ \E d \in Dirs : OrderDeletion(s, d)
  PROVE  TypeOK'
<1> USE DEF jobs, logs
<1>1. CASE Due(s)
  <2> DEFINE due == {e \in Dirs : /\ held[e] # "gone" /\ mark[e] # NoMark
                                  /\ mark[e].after <= day}
             marks == [e \in Dirs |-> IF e \in due THEN mark[e] ELSE NoMark]
             w == [Idle EXCEPT !.pc = "deleting", !.todo = due, !.due = marks]
  <2>1. sweep' = [sweep EXCEPT ![s] = IF due = {} THEN Idle ELSE w]
    BY <1>1 DEF Due
  <2>2. due \in SUBSET Dirs /\ marks \in [Dirs -> Marks \cup {NoMark}]
        /\ \A e \in due : marks[e] \in Marks
    BY DEF TypeOK
  <2>4. due # {} => w \in SweepStates /\ SweepOK(w)
    <3> HIDE DEF due, marks
    <3> QED  BY <2>2, DeletingIsOne
  <2>5. /\ sweep' \in [Sweeps -> SweepStates]
        /\ \A t \in Sweeps : SweepOK(sweep'[t])
    <3> HIDE DEF due, marks, w
    <3>1. CASE due = {}  BY <2>1, <3>1, IdleIsOne, SweepMoves
    <3>2. CASE due # {}
      <4>1. sweep' = [sweep EXCEPT ![s] = w]  BY <2>1, <3>2
      <4> QED  BY <4>1, <3>2, <2>4, SweepMoves
    <3> QED  BY <3>1, <3>2
  <2> QED  BY <1>1, <2>5 DEF Due, TypeOK
<1>2. CASE \E d \in Dirs : OrderDeletion(s, d)
  <2>0. PICK d \in Dirs : OrderDeletion(s, d)  BY <1>2
  <2> DEFINE marks == [Idle.due EXCEPT ![d] = mark[d]]
             w == [Idle EXCEPT !.pc = "deleting", !.todo = {d}, !.ordered = TRUE,
                               !.due = marks]
  <2>1. sweep' = [sweep EXCEPT ![s] = w]
    BY <2>0 DEF OrderDeletion, Idle
  <2>2. marks \in [Dirs -> Marks \cup {NoMark}] /\ marks[d] \in Marks
    BY <2>0 DEF OrderDeletion, TypeOK, Idle
  <2>3. w \in SweepStates /\ SweepOK(w)
    <3>1. {d} \in SUBSET Dirs /\ {d} # {} /\ \A e \in {d} : marks[e] \in Marks
      BY <2>2
    <3> HIDE DEF marks
    <3> QED  BY <2>2, <3>1, DeletingIsOne
  <2>4. /\ sweep' \in [Sweeps -> SweepStates]
        /\ \A t \in Sweeps : SweepOK(sweep'[t])
    <3> HIDE DEF w
    <3> QED  BY <2>1, <2>3, SweepMoves
  <2> QED  BY <2>0, <2>4 DEF OrderDeletion, TypeOK
<1> QED  BY <1>1, <1>2


LEMMA TypesOfRemoving ==
  ASSUME TypeOK, NEW s \in Sweeps,
         \/ Delete(s) \/ RemoveSome(s) \/ RemoveRest(s) \/ RemoveFails(s)
         \/ Conclude(s) \/ RecordDeletion(s) \/ Crash(s)
  PROVE  TypeOK'
<1> USE DEF jobs, logs
<1>0. sweep[s] \in SweepStates /\ SweepOK(sweep[s])  BY DEF TypeOK
<1>1. CASE Delete(s)
  <2> DEFINE d == Current(s)
  <2>1. d \in Dirs  BY <1>1, Busy DEF Delete
  <2>2. CASE Allowed(sweep[s].due[d], sweep[s].ordered)
    <3> DEFINE w == [sweep[s] EXCEPT !.pc = "removing", !.digests = held[d]]
    <3>1. /\ sweep' = [sweep EXCEPT ![s] = w] /\ Written(s)
          /\ started' = started \cup Key(s)
      BY <1>1, <2>2 DEF Delete, TypeOK
    <3>2. held[d] \in Amounts  BY <2>1 DEF TypeOK
    <3>3. w \in SweepStates  BY <1>0, <3>2 DEF SweepStates, Removing
    <3>4. SweepOK(w)
      BY <1>0, <1>1 DEF SweepOK, SweepStates, Delete, Removing
    <3>5. /\ sweep' \in [Sweeps -> SweepStates]
          /\ \A t \in Sweeps : SweepOK(sweep'[t])
      BY <3>1, <3>3, <3>4, SweepMoves
    <3>6. started' \subseteq Dirs \X Dirs
      BY <1>1, <3>1, LogIsOne DEF Delete, TypeOK
    <3> QED  BY <1>1, <3>1, <3>5, <3>6, WrittenTypes DEF Delete, TypeOK
  <2>3. CASE ~Allowed(sweep[s].due[d], sweep[s].ordered)
    <3>1. sweep' = [sweep EXCEPT ![s] = Idle] /\ UNCHANGED <<started, last>>
      BY <1>1, <2>3 DEF Delete
    <3>2. /\ sweep' \in [Sweeps -> SweepStates]
          /\ \A t \in Sweeps : SweepOK(sweep'[t])
      BY <3>1, IdleIsOne, SweepMoves
    <3> QED  BY <1>1, <3>1, <3>2 DEF Delete, TypeOK
  <2> QED  BY <2>2, <2>3
<1>2. CASE RemoveSome(s)
  <2>1. /\ held' = [held EXCEPT ![Current(s)] = "partial"]
        /\ \E tombstone \in {mark[Current(s)], NoMark} :
              mark' = [mark EXCEPT ![Current(s)] = tombstone]
        /\ sweep' = sweep
    BY <1>2 DEF RemoveSome
  <2>2. held' \in [Dirs -> Amounts]  BY <2>1 DEF TypeOK, Amounts
  <2>3. mark' \in [Dirs -> Marks \cup {NoMark}]  BY <2>1 DEF TypeOK
  <2> QED  BY <1>2, <2>1, <2>2, <2>3 DEF RemoveSome, TypeOK
<1>3. CASE RemoveRest(s)
  <2> DEFINE w == [sweep[s] EXCEPT !.pc = "concluding"]
  <2>1. sweep' = [sweep EXCEPT ![s] = w]  BY <1>3 DEF RemoveRest
  <2>2. w \in SweepStates  BY <1>0 DEF SweepStates, Removing
  <2>3. SweepOK(w)
    BY <1>0, <1>3 DEF SweepOK, SweepStates, RemoveRest, Removing
  <2>4. /\ sweep' \in [Sweeps -> SweepStates]
        /\ \A t \in Sweeps : SweepOK(sweep'[t])
    BY <2>1, <2>2, <2>3, SweepMoves
  <2> QED  BY <1>3, <2>4 DEF RemoveRest, TypeOK, Amounts
<1>4. CASE RemoveFails(s)
  <2>1. sweep' = [sweep EXCEPT ![s] = Idle] /\ concluded' = concluded \cup Key(s)
        /\ Written(s) /\ sweep[s].pc \in Removing
    BY <1>4 DEF RemoveFails, Removing
  <2>2. /\ sweep' \in [Sweeps -> SweepStates]
        /\ \A t \in Sweeps : SweepOK(sweep'[t])
    BY <2>1, IdleIsOne, SweepMoves
  <2>3. concluded' \subseteq Dirs \X Dirs  BY <2>1, LogIsOne DEF TypeOK
  <2> QED  BY <1>4, <2>1, <2>2, <2>3, WrittenTypes DEF RemoveFails, TypeOK
<1>5. CASE Conclude(s)
  <2> DEFINE w == [sweep[s] EXCEPT !.pc = "recording"]
  <2>1. sweep' = [sweep EXCEPT ![s] = w] /\ concluded' = concluded \cup Key(s)
        /\ Written(s) /\ sweep[s].pc \in Removing
    BY <1>5 DEF Conclude, Removing
  <2>2. w \in SweepStates  BY <1>0 DEF SweepStates, Removing
  <2>3. SweepOK(w)
    BY <1>0, <2>1 DEF SweepOK, SweepStates, Removing
  <2>4. /\ sweep' \in [Sweeps -> SweepStates]
        /\ \A t \in Sweeps : SweepOK(sweep'[t])
    BY <2>1, <2>2, <2>3, SweepMoves
  <2>5. concluded' \subseteq Dirs \X Dirs  BY <2>1, LogIsOne DEF TypeOK
  <2> QED  BY <1>5, <2>1, <2>4, <2>5, WrittenTypes DEF Conclude, TypeOK
<1>6. CASE RecordDeletion(s)
  <2> DEFINE left == sweep[s].todo \ {Current(s)}
             w == [sweep[s] EXCEPT !.pc = "deleting", !.todo = left]
  <2>1. sweep' = [sweep EXCEPT ![s] = IF left = {} THEN Idle ELSE w]
        /\ Written(s) /\ sweep[s].pc \in Removing
    BY <1>6 DEF RecordDeletion, Going, Removing
  <2>2. w \in SweepStates  BY <1>0 DEF SweepStates
  <2>3. left # {} => SweepOK(w)
    BY <1>0, <2>1 DEF SweepOK, SweepStates, Removing
  <2>4. /\ sweep' \in [Sweeps -> SweepStates]
        /\ \A t \in Sweeps : SweepOK(sweep'[t])
    <3> HIDE DEF left, w
    <3>1. CASE left = {}  BY <2>1, <3>1, IdleIsOne, SweepMoves
    <3>2. CASE left # {}
      <4>1. sweep' = [sweep EXCEPT ![s] = w]  BY <2>1, <3>2
      <4> QED  BY <4>1, <3>2, <2>2, <2>3, SweepMoves
    <3> QED  BY <3>1, <3>2
  <2>5. told' \in [Dirs -> Amounts \cup {"nothing"}]
    <3>1. sweep[s].digests \in Amounts  BY <1>0 DEF SweepStates
    <3>2. told' \in {told, [told EXCEPT ![Current(s)] = sweep[s].digests]}
      BY <1>6 DEF RecordDeletion
    <3> QED  BY <3>1, <3>2 DEF TypeOK
  <2> QED  BY <1>6, <2>1, <2>4, <2>5, WrittenTypes DEF RecordDeletion, TypeOK
<1>7. CASE Crash(s)
  <2>1. sweep' = [sweep EXCEPT ![s] = Idle]  BY <1>7 DEF Crash
  <2>2. /\ sweep' \in [Sweeps -> SweepStates]
        /\ \A t \in Sweeps : SweepOK(sweep'[t])
    BY <2>1, IdleIsOne, SweepMoves
  <2>3. faults' \in 0..MaxFaults  BY <1>7 DEF Crash, TypeOK
  <2> QED  BY <1>7, <2>2, <2>3 DEF Crash, TypeOK
<1> QED  BY <1>1, <1>2, <1>3, <1>4, <1>5, <1>6, <1>7

LEMMA TypesOfWork ==
  ASSUME TypeOK, NEW d,
         \/ d \in Dirs /\ (Work(d) \/ Close(d) \/ Publish(d) \/ Withdraw(d))
         \/ Tick
  PROVE  TypeOK'
<1> USE DEF jobs, logs, Jobs
<1>1. CASE d \in Dirs /\ Work(d)  BY <1>1 DEF Work, Appends, TypeOK
<1>2. CASE d \in Dirs /\ Close(d)  BY <1>2 DEF Close, Appends, TypeOK
<1>3. CASE d \in Dirs /\ Publish(d)  BY <1>3 DEF Publish, Appends, TypeOK
<1>4. CASE d \in Dirs /\ Withdraw(d)  BY <1>4 DEF Withdraw, TypeOK
<1>5. CASE Tick
  <2>1. day' \in 0..MaxDay  BY <1>5 DEF Tick, TypeOK
  <2> QED  BY <1>5, <2>1 DEF Tick, TypeOK
<1> QED  BY <1>1, <1>2, <1>3, <1>4, <1>5


LEMMA Initially == Init => TypeOK
<1> SUFFICES ASSUME Init PROVE TypeOK  OBVIOUS
<1>1. /\ day \in 0..MaxDay /\ faults \in 0..MaxFaults
      /\ job \in [Dirs -> Jobs] /\ last \in [Dirs -> 0..MaxDay]
      /\ record \in [Dirs -> {"none", "public", "withdrawn"}]
      /\ held \in [Dirs -> Amounts] /\ told \in [Dirs -> Amounts \cup {"nothing"}]
      /\ mark \in [Dirs -> Marks \cup {NoMark}]
      /\ started \subseteq Dirs \X Dirs /\ concluded \subseteq Dirs \X Dirs
      /\ found \in [Dirs -> 0..Never]
  BY DEF Init, Jobs, Amounts, Never
<1>2. /\ sweep \in [Sweeps -> SweepStates] /\ \A s \in Sweeps : SweepOK(sweep[s])
  BY IdleIsOne DEF Init
<1> QED  BY <1>1, <1>2 DEF TypeOK

LEMMA TypesKept == TypeOK /\ [Next]_vars => TypeOK'
<1> SUFFICES ASSUME TypeOK, [Next]_vars PROVE TypeOK'  OBVIOUS
<1>1. CASE Next
  <2>1. CASE \E s \in Sweeps : Candidates(s) \/ CheckSurvival(s)
    BY <2>1, TypesOfAsking
  <2>2. CASE \E s \in Sweeps : Mark(s)  BY <2>2, TypesOfMarking
  <2>3. CASE \E s \in Sweeps : Due(s) \/ \E d \in Dirs : OrderDeletion(s, d)
    BY <2>3, TypesOfChoosing
  <2>4. CASE \E s \in Sweeps : \/ Delete(s) \/ RemoveSome(s) \/ RemoveRest(s)
                               \/ RemoveFails(s) \/ Conclude(s) \/ RecordDeletion(s)
                               \/ Crash(s)
    BY <2>4, TypesOfRemoving
  <2>5. CASE \E d \in Dirs : OrderMark(d) \/ Unmark(d)  BY <2>5, TypesOfMarking
  <2>6. CASE \/ \E d \in Dirs : Work(d) \/ Close(d) \/ Publish(d) \/ Withdraw(d)
             \/ Tick
    BY <2>6, TypesOfWork
  <2> QED  BY <1>1, <2>1, <2>2, <2>3, <2>4, <2>5, <2>6 DEF Next, Run
<1>2. CASE UNCHANGED vars
  BY <1>2 DEF vars, jobs, logs, TypeOK
<1> QED  BY <1>1, <1>2

(* Type correctness of the sweeper: for any number of directories, sweeps, *)
(* days and faults.                                                        *)
THEOREM TypeCorrect == Spec => []TypeOK
BY Initially, TypesKept, PTL DEF Spec
-----------------------------------------------------------------------------
(* Why nothing is removed without its rights.  A mark of the category      *)
(* "released" was made of a job that had been published by then, for as    *)
(* many days as that category has, and by a person or after the repository *)
(* had been asked.  A sweep that is asking or marking holds only           *)
(* directories it has been told of; one that removes holds marks that are  *)
(* due; and neither a publication nor an answer is ever taken back.        *)
MarkRight(d, m, t, j, f) ==
    /\ m \in Marks /\ m.at <= t
    /\ m.category = "released" =>
          /\ j[d] = "released" /\ m.after = m.at + Grace["released"]
          /\ m.ordered \/ f[d] <= m.at

SweepRight(w, t, j, f) ==
    /\ \A d \in Dirs : w.category[d] = "released" => j[d] = "released"
    /\ w.pc = "idle" => w.survives = {}
    /\ w.pc \in {"asking", "marking"} =>
          \A d \in w.survives : w.category[d] = "released" /\ f[d] <= t
    /\ w.pc = "marking" => w.todo \subseteq w.survives
    /\ w.pc \in {"deleting"} \cup Removing =>
          \A d \in w.todo : /\ MarkRight(d, w.due[d], t, j, f)
                            /\ w.ordered \/ w.due[d].after <= t
    /\ w.pc \in Removing /\ ~w.ordered =>
          w.due[First(w.todo)].category = "released"

IInv == /\ TypeOK
        /\ \A d \in Dirs : found[d] = Never \/ found[d] <= day
        /\ \A d \in Dirs : mark[d] # NoMark => MarkRight(d, mark[d], day, job, found)
        /\ \A s \in Sweeps : SweepRight(sweep[s], day, job, found)

\* What no step takes back.
Lasts == /\ day \in Nat /\ day' \in Nat /\ day <= day'
         /\ found \in [Dirs -> Nat] /\ found' \in [Dirs -> Nat]
         /\ \A d \in Dirs : job[d] = "released" => job'[d] = "released"
         /\ \A d \in Dirs : found[d] <= day => found'[d] = found[d]

LEMMA MarkLasts ==
  ASSUME Lasts, NEW d \in Dirs, NEW m, MarkRight(d, m, day, job, found)
  PROVE  MarkRight(d, m, day', job', found')
<1>1. m.at \in Nat  BY DEF MarkRight, Marks
<1>2. m.at <= day'  BY <1>1 DEF MarkRight, Lasts
<1>3. ASSUME m.category = "released"
      PROVE  /\ job'[d] = "released" /\ m.after = m.at + Grace["released"]
             /\ m.ordered \/ found'[d] <= m.at
  <2>1. job[d] = "released" /\ m.after = m.at + Grace["released"]
        /\ (m.ordered \/ found[d] <= m.at)
    BY <1>3 DEF MarkRight
  <2>2. found[d] <= m.at => found[d] <= day  BY <1>1 DEF Lasts, MarkRight
  <2> QED  BY <2>1, <2>2 DEF Lasts
<1> QED  BY <1>2, <1>3 DEF MarkRight

LEMMA SweepLasts ==
  ASSUME Lasts, NEW w \in SweepStates, SweepRight(w, day, job, found)
  PROVE  SweepRight(w, day', job', found')
<1>1. \A d \in Dirs : w.category[d] = "released" => job'[d] = "released"
  BY DEF SweepRight, Lasts
<1>2. ASSUME NEW d \in w.survives, w.pc \in {"asking", "marking"}
      PROVE  w.category[d] = "released" /\ found'[d] <= day'
  BY <1>2 DEF SweepRight, Lasts, SweepStates
<1>3. ASSUME NEW d \in w.todo, w.pc \in {"deleting"} \cup Removing
      PROVE  /\ MarkRight(d, w.due[d], day', job', found')
             /\ w.ordered \/ w.due[d].after <= day'
  <2>1. d \in Dirs  BY DEF SweepStates
  <2>2. MarkRight(d, w.due[d], day, job, found) /\ (w.ordered \/ w.due[d].after <= day)
    BY <1>3 DEF SweepRight
  <2>3. MarkRight(d, w.due[d], day', job', found')  BY <2>1, <2>2, MarkLasts
  <2>4. w.due[d].after \in Nat  BY <2>2 DEF MarkRight, Marks
  <2> QED  BY <2>2, <2>3, <2>4 DEF Lasts
<1> QED  BY <1>1, <1>2, <1>3 DEF SweepRight


LEMMA DaysLast ==
  ASSUME TypeOK, TypeOK', day' = day,
         \A d \in Dirs : job[d] = "released" => job'[d] = "released",
         \A d \in Dirs : found[d] # Never => found'[d] = found[d]
  PROVE  Lasts
<1>1. day \in Nat /\ day <= MaxDay /\ MaxDay \in Nat  BY DEF TypeOK
<1>2. found \in [Dirs -> Nat] /\ found' \in [Dirs -> Nat]  BY DEF TypeOK, Never
<1>3. \A d \in Dirs : found[d] <= day => found[d] # Never  BY <1>1 DEF Never
<1> QED  BY <1>1, <1>2, <1>3 DEF Lasts

\* A step in which one sweep moves to w, and the marks stay or are new.
LEMMA RightsKept ==
  ASSUME IInv, TypeOK', Lasts,
         \A d \in Dirs : found'[d] = found[d] \/ found'[d] <= day',
         NEW s \in Sweeps, NEW w, SweepRight(w, day', job', found'),
         sweep' = [sweep EXCEPT ![s] = w],
         \A d \in Dirs : \/ mark'[d] = mark[d] \/ mark'[d] = NoMark
                         \/ MarkRight(d, mark'[d], day', job', found')
  PROVE  IInv'
<1>1. \A d \in Dirs : found'[d] = Never \/ found'[d] <= day'
  <2> TAKE d \in Dirs
  <2>1. found[d] \in Nat /\ day \in Nat /\ day' \in Nat /\ day <= day'  BY DEF Lasts
  <2>2. found[d] = Never \/ found[d] <= day  BY DEF IInv
  <2> QED  BY <2>1, <2>2
<1>2. \A d \in Dirs : mark'[d] # NoMark => MarkRight(d, mark'[d], day', job', found')
  BY MarkLasts DEF IInv
<1>3. ASSUME NEW t \in Sweeps PROVE SweepRight(sweep'[t], day', job', found')
  <2>1. CASE t = s  BY <2>1 DEF IInv, TypeOK
  <2>2. CASE t # s
    <3>1. sweep'[t] = sweep[t] /\ sweep[t] \in SweepStates /\ SweepRight(sweep[t], day, job, found)
      BY <2>2 DEF IInv, TypeOK
    <3> QED  BY <3>1, SweepLasts
  <2> QED  BY <2>1, <2>2
<1>4. \A d \in Dirs : (found[d] = Never \/ found[d] <= day)'  BY <1>1 DEF Never
<1> QED  BY <1>2, <1>3, <1>4 DEF IInv

\* A step that moves no sweep.
LEMMA RightsStay ==
  ASSUME IInv, TypeOK', Lasts, sweep' = sweep, found' = found,
         \A d \in Dirs : \/ mark'[d] = mark[d] \/ mark'[d] = NoMark
                         \/ MarkRight(d, mark'[d], day', job', found')
  PROVE  IInv'
<1>1. \A d \in Dirs : (found[d] = Never \/ found[d] <= day)'
  <2>1. \A d \in Dirs : found[d] \in Nat  BY DEF Lasts
  <2> QED  BY <2>1 DEF IInv, Lasts, Never
<1>2. \A d \in Dirs : mark'[d] # NoMark => MarkRight(d, mark'[d], day', job', found')
  BY MarkLasts DEF IInv
<1>3. \A t \in Sweeps : SweepRight(sweep[t], day', job', found')
  BY SweepLasts DEF IInv, TypeOK
<1>4. \A t \in Sweeps : SweepRight(sweep'[t], day', job', found')  BY <1>3
<1> QED  BY <1>1, <1>2, <1>4 DEF IInv

LEMMA IdleIsRight == SweepRight(Idle, day, job, found) /\ SweepRight(Idle, day', job', found')
BY DEF SweepRight, Idle, Removing


LEMMA RightsOfAsking ==
  ASSUME IInv, TypeOK', NEW s \in Sweeps, Candidates(s) \/ CheckSurvival(s)
  PROVE  IInv'
<1>0. sweep[s] \in SweepStates /\ SweepRight(sweep[s], day, job, found)
  BY DEF IInv, TypeOK
<1>1. CASE Candidates(s)
  <2> DEFINE w == [sweep[s] EXCEPT !.pc = "asking",
                                   !.todo = {d \in Dirs : held[d] # "gone"},
                                   !.category = [d \in Dirs |-> Category(d)]]
  <2>1. sweep' = [sweep EXCEPT ![s] = w]  BY <1>1 DEF Candidates, IInv, TypeOK
  <2>2. UNCHANGED <<day, job, mark, found>>  BY <1>1 DEF Candidates, jobs
  <2>3. Lasts  BY <2>2, DaysLast DEF IInv
  <2>4. SweepRight(w, day', job', found')
    <3>1. /\ w.pc = "asking" /\ w.survives = sweep[s].survives
          /\ w.category = [d \in Dirs |-> Category(d)]
      BY <1>0 DEF SweepStates
    <3>2. sweep[s].survives = {}  BY <1>0, <1>1 DEF Candidates, SweepRight
    <3> QED  BY <3>1, <3>2, <2>2 DEF SweepRight, Removing, Category
  <2> QED  BY <2>1, <2>2, <2>3, <2>4, RightsKept
<1>2. CASE CheckSurvival(s)
  <2> DEFINE d == Current(s)
             left == sweep[s].todo \ {d}
             Survives(answer) == sweep[s].survives \cup
                (IF Deletable(sweep[s].category[d], answer) THEN {d} ELSE {})
  <2>1. PICK answer \in IF sweep[s].category[d] = "released" THEN Answers(d)
                                                             ELSE {"unasked"} :
              /\ sweep' = [sweep EXCEPT
                    ![s].survives = Survives(answer),
                    ![s].todo = IF left = {} THEN Survives(answer) ELSE left,
                    ![s].pc   = IF left = {} THEN "marking" ELSE "asking"]
              /\ found' = IF answer = "survives" /\ found[d] = Never
                          THEN [found EXCEPT ![d] = day] ELSE found
    BY <1>2 DEF CheckSurvival
  <2> DEFINE w == [sweep[s] EXCEPT !.survives = Survives(answer),
                        !.todo = IF left = {} THEN Survives(answer) ELSE left,
                        !.pc   = IF left = {} THEN "marking" ELSE "asking"]
  <2>2. d \in Dirs  BY <1>2, Busy DEF CheckSurvival, IInv
  <2>3. sweep' = [sweep EXCEPT ![s] = w]  BY <2>1 DEF IInv, TypeOK
  <2>4. UNCHANGED <<day, job, mark>>  BY <1>2 DEF CheckSurvival, jobs
  <2>5. \A e \in Dirs : found[e] # Never => found'[e] = found[e]
    BY <2>1 DEF IInv, TypeOK
  <2>6. Lasts  BY <2>4, <2>5, DaysLast DEF IInv
  <2>7. \A e \in Dirs : found'[e] = found[e] \/ found'[e] <= day'
    <3>1. day \in Nat  BY DEF IInv, TypeOK
    <3>2. \A e \in Dirs : found'[e] \in {found[e], day}  BY <2>1 DEF IInv, TypeOK
    <3>3. day' = day /\ day <= day  BY <3>1, <2>4
    <3> QED  BY <3>2, <3>3
  <2>8. \A e \in Survives(answer) :
           sweep[s].category[e] = "released" /\ found'[e] <= day'
    <3>1. ASSUME NEW e \in sweep[s].survives
          PROVE  sweep[s].category[e] = "released" /\ found'[e] <= day'
      <4>1. e \in Dirs /\ sweep[s].category[e] = "released" /\ found[e] <= day
        BY <1>0, <1>2 DEF SweepRight, SweepStates, CheckSurvival
      <4> QED  BY <4>1, <2>4, <2>6 DEF Lasts
    <3>2. ASSUME Deletable(sweep[s].category[d], answer)
          PROVE  sweep[s].category[d] = "released" /\ found'[d] <= day'
      <4>1. sweep[s].category[d] = "released" /\ answer = "survives"
        BY <3>2 DEF Deletable, Automatic
      <4>2. found[d] = Never \/ found[d] <= day  BY <2>2 DEF IInv
      <4>3. day \in Nat  BY DEF IInv, TypeOK
      <4>4. CASE found[d] = Never
        <5>1. found'[d] = day  BY <2>1, <2>2, <4>1, <4>4 DEF IInv, TypeOK
        <5> QED  BY <4>1, <4>3, <5>1, <2>4
      <4>5. CASE found[d] # Never
        <5>1. found'[d] = found[d]  BY <2>2, <2>5, <4>5
        <5> QED  BY <4>1, <4>2, <4>5, <5>1, <2>4
      <4> QED  BY <4>4, <4>5
    <3> QED  BY <3>1, <3>2
  <2>9. SweepRight(w, day', job', found')
    <3>1. /\ w.pc \in {"asking", "marking"} /\ w.survives = Survives(answer)
          /\ w.category = sweep[s].category
          /\ w.pc = "marking" => w.todo = w.survives
      BY <1>0 DEF SweepStates
    <3> HIDE DEF w, Survives
    <3>2. \A e \in Dirs : w.category[e] = "released" => job'[e] = "released"
      BY <1>0, <3>1, <2>4 DEF SweepRight
    <3> QED  BY <3>1, <3>2, <2>8 DEF SweepRight, Removing
  <2> QED  BY <2>3, <2>4, <2>6, <2>7, <2>9, RightsKept
<1> QED  BY <1>1, <1>2

LEMMA RightsOfMarking ==
  ASSUME IInv, TypeOK', NEW s \in Sweeps, Mark(s)
  PROVE  IInv'
<1> DEFINE d == Current(s)
<1>0. sweep[s] \in SweepStates /\ SweepRight(sweep[s], day, job, found)
  BY DEF IInv, TypeOK
<1>1. UNCHANGED <<day, job, found>>  BY DEF Mark, jobs
<1>2. Lasts  BY <1>1, DaysLast DEF IInv
<1>3. d \in Dirs /\ d \in sweep[s].todo  BY CurrentIsOne DEF Mark, IInv
<1>4. CASE held[d] = "gone"
  <2>1. sweep' = [sweep EXCEPT ![s] = Idle] /\ mark' = mark  BY <1>4 DEF Mark
  <2>2. SweepRight(Idle, day', job', found')  BY DEF SweepRight, Idle, Removing
  <2> QED  BY <1>1, <1>2, <2>1, <2>2, RightsKept
<1>5. CASE held[d] # "gone"
  <2> DEFINE w == [sweep[s] EXCEPT !.todo = @ \ {d}]
             m == MarkOf(sweep[s].category[d], FALSE)
  <2>1. sweep' = [sweep EXCEPT ![s] = w] /\ mark' = [mark EXCEPT ![d] = m]
    BY <1>5 DEF Mark
  <2>2. d \in sweep[s].survives /\ sweep[s].category[d] = "released"
        /\ found[d] <= day
    BY <1>0, <1>3 DEF Mark, SweepRight
  <2>3. MarkRight(d, m, day', job', found')
    <3>1. m \in Marks  BY <2>2, MarkIsOne DEF IInv, TypeOK
    <3>2. day \in Nat  BY DEF IInv, TypeOK
    <3>3. job[d] = "released"  BY <1>0, <1>3, <2>2 DEF SweepRight
    <3>4. m.at = day /\ m.after = day + Grace["released"]  BY <2>2 DEF MarkOf
    <3> HIDE DEF m
    <3> QED  BY <3>1, <3>2, <3>3, <3>4, <2>2, <1>1 DEF MarkRight
  <2>4. SweepRight(w, day', job', found')
    <3>1. /\ w.pc = "marking" /\ w.survives = sweep[s].survives
          /\ w.category = sweep[s].category /\ w.todo \subseteq sweep[s].todo
      BY <1>0 DEF SweepStates, Mark
    <3> HIDE DEF w
    <3> QED  BY <3>1, <1>0, <1>1 DEF SweepRight, Removing, Mark
  <2>5. \A e \in Dirs : mark'[e] = mark[e] \/ MarkRight(e, mark'[e], day', job', found')
    <3> HIDE DEF m
    <3> QED  BY <2>1, <2>3 DEF IInv, TypeOK
  <2> QED  BY <1>1, <1>2, <2>1, <2>4, <2>5, RightsKept
<1> QED  BY <1>4, <1>5


LEMMA RightsOfChoosing ==
  ASSUME IInv, TypeOK', NEW s \in Sweeps,
         Due(s) \/ \E d \in Dirs : OrderDeletion(s, d)
  PROVE  IInv'
<1>1. CASE Due(s)
  <2> DEFINE due == {e \in Dirs : /\ held[e] # "gone" /\ mark[e] # NoMark
                                  /\ mark[e].after <= day}
             marks == [e \in Dirs |-> IF e \in due THEN mark[e] ELSE NoMark]
             w == IF due = {} THEN Idle
                  ELSE [Idle EXCEPT !.pc = "deleting", !.todo = due, !.due = marks]
  <2>1. sweep' = [sweep EXCEPT ![s] = w] /\ UNCHANGED <<day, job, mark, found>>
    BY <1>1 DEF Due, jobs
  <2>2. Lasts  BY <2>1, DaysLast DEF IInv
  <2>3. \A e \in due : /\ MarkRight(e, marks[e], day, job, found)
                       /\ marks[e].after <= day
    BY DEF IInv
  <2>4. SweepRight(w, day', job', found')
    <3> HIDE DEF due, marks
    <3>1. CASE due = {}  BY <3>1 DEF SweepRight, Idle, Removing
    <3>2. CASE due # {}
      <4>1. /\ w.pc = "deleting" /\ w.todo = due /\ w.due = marks
            /\ w.category = Idle.category
        BY <3>2 DEF Idle
      <4>2. \A e \in Dirs : w.category[e] # "released"  BY <4>1 DEF Idle
      <4> HIDE DEF w
      <4> QED  BY <4>1, <4>2, <2>1, <2>3 DEF SweepRight, Removing
    <3> QED  BY <3>1, <3>2
  <2> QED
    <3> HIDE DEF w
    <3> QED  BY <2>1, <2>2, <2>4, RightsKept
<1>2. CASE \E d \in Dirs : OrderDeletion(s, d)
  <2>0. PICK d \in Dirs : OrderDeletion(s, d)  BY <1>2
  <2> DEFINE marks == [Idle.due EXCEPT ![d] = mark[d]]
             w == [Idle EXCEPT !.pc = "deleting", !.todo = {d}, !.ordered = TRUE,
                               !.due = marks]
  <2>1. sweep' = [sweep EXCEPT ![s] = w] /\ UNCHANGED <<day, job, mark, found>>
    BY <2>0 DEF OrderDeletion, jobs, Idle
  <2>2. Lasts  BY <2>1, DaysLast DEF IInv
  <2>3. MarkRight(d, marks[d], day, job, found)
    BY <2>0 DEF OrderDeletion, IInv, Idle
  <2>4. SweepRight(w, day', job', found')
    <3>1. /\ w.pc = "deleting" /\ w.todo = {d} /\ w.due = marks /\ w.ordered
          /\ w.category = Idle.category
      BY DEF Idle
    <3>2. \A e \in Dirs : w.category[e] # "released"  BY <3>1 DEF Idle
    <3> HIDE DEF w, marks
    <3> QED  BY <3>1, <3>2, <2>1, <2>3 DEF SweepRight, Removing
  <2> QED
    <3> HIDE DEF w
    <3> QED  BY <2>1, <2>2, <2>4, RightsKept
<1> QED  BY <1>1, <1>2

\* A sweep that goes on removing, with the same marks and less to do.
LEMMA RightsOfRemoving ==
  ASSUME IInv, TypeOK', NEW s \in Sweeps,
         \/ Delete(s) \/ RemoveSome(s) \/ RemoveRest(s) \/ RemoveFails(s)
         \/ Conclude(s) \/ RecordDeletion(s) \/ Crash(s)
  PROVE  IInv'
<1>0. sweep[s] \in SweepStates /\ SweepRight(sweep[s], day, job, found)
  BY DEF IInv, TypeOK
<1>1. /\ UNCHANGED <<day, job, found>>
      /\ \A d \in Dirs : mark'[d] = mark[d] \/ mark'[d] = NoMark
  <2> USE DEF jobs, logs
  <2>1. CASE Delete(s)  BY <2>1 DEF Delete
  <2>2. CASE RemoveSome(s)  BY <2>2 DEF RemoveSome, IInv, TypeOK
  <2>3. CASE RemoveRest(s)  BY <2>3 DEF RemoveRest, IInv, TypeOK
  <2>4. CASE RemoveFails(s)  BY <2>4 DEF RemoveFails
  <2>5. CASE Conclude(s)  BY <2>5 DEF Conclude
  <2>6. CASE RecordDeletion(s)  BY <2>6 DEF RecordDeletion
  <2>7. CASE Crash(s)  BY <2>7 DEF Crash
  <2> QED  BY <2>1, <2>2, <2>3, <2>4, <2>5, <2>6, <2>7
<1>2. Lasts  BY <1>1, DaysLast DEF IInv
<1>3. SweepRight(Idle, day', job', found')  BY DEF SweepRight, Idle, Removing
<1>4. CASE sweep' = [sweep EXCEPT ![s] = Idle]  BY <1>1, <1>2, <1>3, <1>4, RightsKept
<1>5. CASE Delete(s) /\ sweep' # [sweep EXCEPT ![s] = Idle]
  <2> DEFINE d == Current(s)
             w == [sweep[s] EXCEPT !.pc = "removing", !.digests = held[d]]
  <2>1. sweep' = [sweep EXCEPT ![s] = w] /\ sweep[s].pc = "deleting"
        /\ Allowed(sweep[s].due[d], sweep[s].ordered)
    BY <1>5 DEF Delete, IInv, TypeOK
  <2>2. /\ w.pc = "removing" /\ w.todo = sweep[s].todo /\ w.due = sweep[s].due
        /\ w.ordered = sweep[s].ordered /\ w.category = sweep[s].category
    BY <1>0 DEF SweepStates
  <2>3. ~w.ordered => w.due[First(w.todo)].category = "released"
    <3> HIDE DEF w
    <3> QED  BY <2>1, <2>2 DEF Allowed, Automatic, Current
  <2>4. SweepRight(w, day', job', found')
    <3> HIDE DEF w
    <3> QED  BY <2>1, <2>2, <2>3, <1>0, <1>1 DEF SweepRight, Removing
  <2> QED
    <3> HIDE DEF w
    <3> QED  BY <1>1, <1>2, <2>1, <2>4, RightsKept
<1>6. CASE RemoveSome(s)
  <2>1. sweep' = [sweep EXCEPT ![s] = sweep[s]]
    BY <1>6 DEF RemoveSome, IInv, TypeOK
  <2>2. SweepRight(sweep[s], day', job', found')  BY <1>0, <1>1
  <2> QED  BY <1>1, <1>2, <2>1, <2>2, RightsKept
<1>7. CASE (RemoveRest(s) \/ Conclude(s)) /\ sweep' # [sweep EXCEPT ![s] = Idle]
  <2>1. PICK pc \in Removing : sweep' = [sweep EXCEPT ![s].pc = pc]
    BY <1>7 DEF RemoveRest, Conclude, Removing
  <2> DEFINE w == [sweep[s] EXCEPT !.pc = pc]
  <2>2. sweep' = [sweep EXCEPT ![s] = w] /\ sweep[s].pc \in Removing
    BY <1>7, <2>1 DEF RemoveRest, Conclude, Removing, IInv, TypeOK
  <2>3. /\ w.pc \in Removing /\ w.todo = sweep[s].todo /\ w.due = sweep[s].due
        /\ w.ordered = sweep[s].ordered /\ w.category = sweep[s].category
    BY <1>0, <2>1 DEF SweepStates
  <2>4. SweepRight(w, day', job', found')
    <3> HIDE DEF w
    <3> QED  BY <2>2, <2>3, <1>0, <1>1 DEF SweepRight, Removing
  <2> QED
    <3> HIDE DEF w
    <3> QED  BY <1>1, <1>2, <2>2, <2>4, RightsKept
<1>8. CASE RecordDeletion(s) /\ sweep' # [sweep EXCEPT ![s] = Idle]
  <2> DEFINE left == sweep[s].todo \ {Current(s)}
             w == [sweep[s] EXCEPT !.pc = "deleting", !.todo = left]
  <2>1. sweep' = [sweep EXCEPT ![s] = w] /\ sweep[s].pc \in Removing
    BY <1>8 DEF RecordDeletion, Going, Removing, IInv, TypeOK
  <2>2. /\ w.pc = "deleting" /\ w.todo \subseteq sweep[s].todo /\ w.due = sweep[s].due
        /\ w.ordered = sweep[s].ordered /\ w.category = sweep[s].category
    BY <1>0 DEF SweepStates
  <2>3. SweepRight(w, day', job', found')
    <3> HIDE DEF w
    <3> QED  BY <2>1, <2>2, <1>0, <1>1 DEF SweepRight, Removing
  <2> QED
    <3> HIDE DEF w
    <3> QED  BY <1>1, <1>2, <2>1, <2>3, RightsKept
<1> QED  BY <1>4, <1>5, <1>6, <1>7, <1>8 DEF RemoveFails, Crash


LEMMA RightsOfOthers ==
  ASSUME IInv, TypeOK',
         \/ \E d \in Dirs : \/ OrderMark(d) \/ Unmark(d)
                            \/ Work(d) \/ Close(d) \/ Publish(d) \/ Withdraw(d)
         \/ Tick
         \/ UNCHANGED vars
  PROVE  IInv'
<1> USE DEF jobs, logs, vars
<1>1. CASE \E d \in Dirs : OrderMark(d)
  <2>0. PICK d \in Dirs : OrderMark(d)  BY <1>1
  <2> DEFINE m == MarkOf(Category(d), TRUE)
  <2>1. mark' = [mark EXCEPT ![d] = m] /\ UNCHANGED <<day, job, found, sweep>>
    BY <2>0 DEF OrderMark
  <2>2. Lasts  BY <2>1, DaysLast DEF IInv
  <2>3. MarkRight(d, m, day', job', found')
    <3>1. Category(d) = "released" => job[d] = "released"  BY DEF Category
    <3>2. m \in Marks  BY CategoryIsOne, MarkIsOne DEF IInv, TypeOK
    <3>3. /\ m.category = Category(d) /\ m.at = day /\ m.ordered
          /\ m.after = day + Grace[Category(d)]
      BY DEF MarkOf
    <3>4. day <= day  BY DEF IInv, TypeOK
    <3> HIDE DEF m
    <3> QED  BY <2>1, <3>1, <3>2, <3>3, <3>4 DEF MarkRight
  <2>4. \A e \in Dirs : mark'[e] = mark[e] \/ MarkRight(e, mark'[e], day', job', found')
    <3> HIDE DEF m
    <3> QED  BY <2>1, <2>3 DEF IInv, TypeOK
  <2> QED  BY <2>1, <2>2, <2>4, RightsStay
<1>2. CASE \E d \in Dirs : Unmark(d)
  <2>1. /\ UNCHANGED <<day, job, found, sweep>>
        /\ \A e \in Dirs : mark'[e] = mark[e] \/ mark'[e] = NoMark
    BY <1>2 DEF Unmark, IInv, TypeOK
  <2>2. Lasts  BY <2>1, DaysLast DEF IInv
  <2> QED  BY <2>1, <2>2, RightsStay
<1>3. CASE \E d \in Dirs : Work(d) \/ Close(d) \/ Publish(d) \/ Withdraw(d)
  <2>1. UNCHANGED <<day, found, sweep, mark>>
    BY <1>3 DEF Work, Close, Publish, Withdraw, Appends
  <2>2. \A d \in Dirs : job[d] = "released" => job'[d] = "released"
    BY <1>3 DEF Work, Close, Publish, Withdraw, Appends, IInv, TypeOK
  <2>3. Lasts  BY <2>1, <2>2, DaysLast DEF IInv
  <2> QED  BY <2>1, <2>3, RightsStay
<1>4. CASE Tick
  <2>1. UNCHANGED <<job, found, sweep, mark>> /\ day' = day + 1  BY <1>4 DEF Tick
  <2>2. Lasts
    <3>1. day \in Nat /\ day' \in Nat /\ day <= day'  BY <2>1 DEF IInv, TypeOK
    <3>2. found \in [Dirs -> Nat]  BY DEF IInv, TypeOK, Never
    <3> QED  BY <2>1, <3>1, <3>2 DEF Lasts
  <2> QED  BY <2>1, <2>2, RightsStay
<1>5. CASE UNCHANGED vars
  <2>1. UNCHANGED <<day, job, found, sweep, mark>>  BY <1>5
  <2>2. Lasts  BY <2>1, DaysLast DEF IInv
  <2> QED  BY <2>1, <2>2, RightsStay
<1> QED  BY <1>1, <1>2, <1>3, <1>4, <1>5

LEMMA RightsInitially == Init => IInv
<1> SUFFICES ASSUME Init PROVE IInv  OBVIOUS
<1>1. \A d \in Dirs : mark[d] = NoMark /\ found[d] = Never  BY DEF Init
<1>2. \A s \in Sweeps : SweepRight(sweep[s], day, job, found)
  <2>1. \A s \in Sweeps : sweep[s] = Idle  BY DEF Init
  <2>2. SweepRight(Idle, day, job, found)  BY DEF SweepRight, Idle, Removing
  <2> QED  BY <2>1, <2>2
<1> QED  BY <1>1, <1>2, Initially DEF IInv

LEMMA RightsInductive == IInv /\ [Next]_vars => IInv'
<1> SUFFICES ASSUME IInv, [Next]_vars PROVE IInv'  OBVIOUS
<1>0. TypeOK'  BY TypesKept DEF IInv
<1>1. CASE \E s \in Sweeps : Candidates(s) \/ CheckSurvival(s)
  BY <1>0, <1>1, RightsOfAsking
<1>2. CASE \E s \in Sweeps : Mark(s)  BY <1>0, <1>2, RightsOfMarking
<1>3. CASE \E s \in Sweeps : Due(s) \/ \E d \in Dirs : OrderDeletion(s, d)
  BY <1>0, <1>3, RightsOfChoosing
<1>4. CASE \E s \in Sweeps : \/ Delete(s) \/ RemoveSome(s) \/ RemoveRest(s)
                             \/ RemoveFails(s) \/ Conclude(s) \/ RecordDeletion(s)
                             \/ Crash(s)
  BY <1>0, <1>4, RightsOfRemoving
<1>5. CASE \/ \E d \in Dirs : \/ OrderMark(d) \/ Unmark(d)
                              \/ Work(d) \/ Close(d) \/ Publish(d) \/ Withdraw(d)
           \/ Tick
           \/ UNCHANGED vars
  BY <1>0, <1>5, RightsOfOthers
<1> QED  BY <1>1, <1>2, <1>3, <1>4, <1>5 DEF Next, Run

LEMMA RightsGiveRights == IInv => RemovedByRight
<1> SUFFICES ASSUME IInv, NEW s \in Sweeps,
                    sweep[s].pc \in Removing, ~sweep[s].ordered
             PROVE  WithinItsRights(Current(s), sweep[s].due[Current(s)])
  BY DEF RemovedByRight
<1> DEFINE d == Current(s)
           m == sweep[s].due[d]
<1>1. d \in Dirs /\ d \in sweep[s].todo  BY Busy DEF IInv, Removing
<1>2. /\ MarkRight(d, m, day, job, found) /\ m.after <= day
      /\ m.category = "released"
  BY <1>1 DEF IInv, SweepRight, Current
<1>3. /\ m.at \in Nat /\ day \in Nat /\ found[d] \in Nat
      /\ Grace["released"] \in Nat
  <2>1. m.at \in Nat  BY <1>2 DEF MarkRight, Marks
  <2>2. day \in 0..MaxDay /\ found \in [Dirs -> 0..Never]  BY DEF IInv, TypeOK
  <2>3. Never \in Nat  BY DEF Never
  <2>4. day \in Nat /\ found[d] \in Nat
    <3> HIDE DEF d
    <3> QED  BY <1>1, <2>2, <2>3
  <2> QED  BY <2>1, <2>4
<1> HIDE DEF d, m
<1>4. /\ job[d] = "released" /\ m.at + Grace["released"] <= day
      /\ m.ordered \/ found[d] <= m.at
  BY <1>2 DEF MarkRight
<1>5. m.ordered \/ found[d] + Grace["released"] <= day  BY <1>3, <1>4
<1>6. WithinItsRights(d, m)  BY <1>4, <1>5 DEF WithinItsRights
<1> QED  BY <1>6 DEF d, m

(* What goes without an order given for it then is a published job's,      *)
(* marked the days of grace ago or more, and marked by a person or after   *)
(* the repository had said that it holds the record (sweeper.py): for any  *)
(* number of directories and sweeps at once, and any deaths and failures.  *)
THEOREM NothingWithoutRights == Spec => []RemovedByRight
BY RightsInitially, RightsInductive, RightsGiveRights, PTL DEF Spec
-----------------------------------------------------------------------------
(* What is left in part is on a log.                                       *)

\* Every removal that has begun is on a log, and everything left in part.
Kept ==
    /\ TypeOK
    /\ HalfRemovedIsRecorded
    /\ \A s \in Sweeps, d \in Dirs :
          sweep[s].pc = "removing" /\ d = Current(s) => Recorded(d)

\* Logs only grow, and no job comes of nothing.
LEMMA RecordedStays ==
  ASSUME TypeOK, NEW d \in Dirs, Recorded(d), started \subseteq started',
         \A j \in Dirs : job[j] = "none" => job'[j] = "none"
  PROVE  Recorded(d)'
BY DEF Recorded

LEMMA StartedGrows ==
  ASSUME TypeOK, [Next]_vars
  PROVE  /\ started \subseteq started'
         /\ \A j \in Dirs : job[j] = "none" => job'[j] = "none"
<1> USE DEF jobs, logs, vars
<1>1. CASE \E s \in Sweeps : Delete(s)  BY <1>1 DEF Delete
<1>2. CASE \E s \in Sweeps : \/ Candidates(s) \/ CheckSurvival(s) \/ Mark(s) \/ Due(s)
                             \/ \E d \in Dirs : OrderDeletion(s, d)
  BY <1>2 DEF Candidates, CheckSurvival, Mark, Due, OrderDeletion
<1>3. CASE \E s \in Sweeps : \/ RemoveSome(s) \/ RemoveRest(s) \/ RemoveFails(s)
                             \/ Conclude(s) \/ RecordDeletion(s) \/ Crash(s)
  BY <1>3 DEF RemoveSome, RemoveRest, RemoveFails, Conclude, RecordDeletion, Crash
<1>4. CASE \E d \in Dirs : OrderMark(d) \/ Unmark(d)
  BY <1>4 DEF OrderMark, Unmark
<1>5. CASE \E d \in Dirs : Work(d) \/ Close(d) \/ Publish(d) \/ Withdraw(d)
  BY <1>5 DEF Work, Close, Publish, Withdraw, Appends, TypeOK
<1>6. CASE Tick \/ UNCHANGED vars  BY <1>6 DEF Tick
<1> QED  BY <1>1, <1>2, <1>3, <1>4, <1>5, <1>6 DEF Next, Run

\* The intent is written as the removal begins, where a log is known.
LEMMA DeleteRecords ==
  ASSUME TypeOK, NEW s \in Sweeps, Delete(s), sweep'[s].pc = "removing",
         NEW d \in Dirs, d = Current(s)
  PROVE  Recorded(d)' /\ sweep'[s].todo = sweep[s].todo
<1> DEFINE known == {j \in Dirs : job[j] # "none"}
<1>1. sweep[s] \in SweepStates  BY DEF TypeOK
<1>2. /\ started' = started \cup Key(s) /\ UNCHANGED job
      /\ sweep' = [sweep EXCEPT ![s].pc = "removing", ![s].digests = held[d]]
  BY DEF Delete, Idle, TypeOK
<1>3. sweep'[s].todo = sweep[s].todo  BY <1>1, <1>2 DEF TypeOK, SweepStates
<1>4. CASE sweep[s].due[d].category # "unattributed"
  <2>1. <<d, d>> \in started'  BY <1>2, <1>4 DEF Key, Log, Recorder
  <2> QED  BY <1>3, <2>1 DEF Recorded
<1>5. CASE sweep[s].due[d].category = "unattributed" /\ known # {}
  <2>1. First(known) \in Dirs  BY <1>5, FirstIsOne
  <2>2. <<First(known), d>> \in started'
    BY <1>2, <1>5 DEF Key, Log, Recorder
  <2> QED  BY <1>3, <2>1, <2>2 DEF Recorded
<1>6. CASE known = {}
  <2>1. \A j \in Dirs : job'[j] = "none"  BY <1>2, <1>6
  <2> QED  BY <1>3, <2>1 DEF Recorded
<1> QED  BY <1>4, <1>5, <1>6

\* Nobody begins to remove but by the intent.
LEMMA OneMoves ==
  ASSUME TypeOK, NEW s \in Sweeps,
         \/ Candidates(s) \/ CheckSurvival(s) \/ Mark(s) \/ Due(s)
         \/ \E d \in Dirs : OrderDeletion(s, d)
  PROVE  \E w : sweep' = [sweep EXCEPT ![s] = w] /\ w.pc # "removing"
<1>0. sweep[s] \in SweepStates /\ DOMAIN sweep = Sweeps  BY DEF TypeOK
<1>1. CASE Candidates(s)
  <2> DEFINE w == [sweep[s] EXCEPT !.pc = "asking", !.todo = {d \in Dirs : held[d] # "gone"},
                                   !.category = [d \in Dirs |-> Category(d)]]
  <2>1. sweep' = [sweep EXCEPT ![s] = w]  BY <1>1 DEF Candidates, TypeOK
  <2>2. w.pc = "asking"  BY <1>0 DEF SweepStates
  <2> HIDE DEF w
  <2> QED  BY <2>1, <2>2
<1>2. CASE CheckSurvival(s)
  <2>1. PICK survives, todo, pc :
          /\ sweep' = [sweep EXCEPT ![s].survives = survives, ![s].todo = todo,
                                    ![s].pc = pc]
          /\ pc \in {"marking", "asking"}
    BY <1>2 DEF CheckSurvival
  <2> DEFINE w == [sweep[s] EXCEPT !.survives = survives, !.todo = todo, !.pc = pc]
  <2>2. sweep' = [sweep EXCEPT ![s] = w]  BY <1>0, <2>1
  <2>3. w.pc = pc  BY <1>0 DEF SweepStates
  <2> HIDE DEF w
  <2> QED  BY <2>1, <2>2, <2>3
<1>3. CASE Mark(s)
  <2> DEFINE w == [sweep[s] EXCEPT !.todo = @ \ {Current(s)}]
  <2>1. sweep' = [sweep EXCEPT ![s] = Idle] \/ sweep' = [sweep EXCEPT ![s] = w]
    BY <1>0, <1>3 DEF Mark
  <2>2. w.pc = "marking" /\ Idle.pc = "idle"
    BY <1>0, <1>3 DEF SweepStates, Mark, Idle
  <2> HIDE DEF w
  <2> QED  BY <2>1, <2>2
<1>4. CASE Due(s)
  <2> DEFINE due == {d \in Dirs : /\ held[d] # "gone" /\ mark[d] # NoMark
                                  /\ mark[d].after <= day}
             w == IF due = {} THEN Idle
                  ELSE [Idle EXCEPT !.pc = "deleting", !.todo = due,
                                    !.due = [d \in Dirs |-> IF d \in due THEN mark[d]
                                                                         ELSE NoMark]]
  <2>1. sweep' = [sweep EXCEPT ![s] = w]  BY <1>4 DEF Due
  <2>2. w.pc \in {"idle", "deleting"}  BY DEF Idle
  <2> HIDE DEF w
  <2> QED  BY <2>1, <2>2
<1>5. CASE \E d \in Dirs : OrderDeletion(s, d)
  <2>0. PICK d \in Dirs : OrderDeletion(s, d)  BY <1>5
  <2> DEFINE w == [Idle EXCEPT !.pc = "deleting", !.todo = {d}, !.ordered = TRUE,
                               !.due = [Idle.due EXCEPT ![d] = mark[d]]]
  <2>1. sweep' = [sweep EXCEPT ![s] = w]  BY <2>0 DEF OrderDeletion, Idle
  <2>2. w.pc = "deleting"  BY DEF Idle
  <2> HIDE DEF w
  <2> QED  BY <2>1, <2>2
<1> QED  BY <1>1, <1>2, <1>3, <1>4, <1>5

\* Whoever is removing was, or has just begun.
LEMMA WhoRemoves ==
  ASSUME TypeOK, [Next]_vars, NEW t \in Sweeps, sweep'[t].pc = "removing"
  PROVE  sweep'[t] = sweep[t] \/ Delete(t)
<1> USE DEF jobs, logs, vars
<1>1. CASE \E s \in Sweeps : \/ Candidates(s) \/ CheckSurvival(s) \/ Mark(s) \/ Due(s)
                             \/ \E d \in Dirs : OrderDeletion(s, d)
  <2>1. PICK s \in Sweeps : \/ Candidates(s) \/ CheckSurvival(s) \/ Mark(s) \/ Due(s)
                            \/ \E d \in Dirs : OrderDeletion(s, d)
    BY <1>1
  <2>2. PICK w : sweep' = [sweep EXCEPT ![s] = w] /\ w.pc # "removing"
    BY <2>1, OneMoves
  <2> QED  BY <2>2 DEF TypeOK
<1>2. CASE \E s \in Sweeps : Delete(s)
  BY <1>2 DEF Delete, Idle, TypeOK, SweepStates
<1>3. CASE \E s \in Sweeps : \/ RemoveSome(s) \/ RemoveRest(s) \/ RemoveFails(s)
                             \/ Conclude(s) \/ Crash(s)
  BY <1>3 DEF RemoveSome, RemoveRest, RemoveFails, Conclude, Crash, Idle,
              TypeOK, SweepStates
<1>4. CASE \E s \in Sweeps : RecordDeletion(s)
  BY <1>4 DEF RecordDeletion, Going, Idle, TypeOK, SweepStates
<1>5. CASE \/ \E d \in Dirs : \/ OrderMark(d) \/ Unmark(d)
                              \/ Work(d) \/ Close(d) \/ Publish(d) \/ Withdraw(d)
           \/ Tick
           \/ UNCHANGED vars
  BY <1>5 DEF OrderMark, Unmark, Work, Close, Publish, Withdraw, Appends, Tick
<1> QED  BY <1>1, <1>2, <1>3, <1>4, <1>5 DEF Next, Run

\* What is left in part was, or is being removed.
LEMMA WhatIsPartial ==
  ASSUME TypeOK, [Next]_vars, NEW d \in Dirs, held'[d] = "partial"
  PROVE  held[d] = "partial" \/ \E s \in Sweeps : sweep[s].pc = "removing" /\ d = Current(s)
<1> USE DEF jobs, logs, vars
<1>1. CASE \E s \in Sweeps : RemoveSome(s)  BY <1>1 DEF RemoveSome, TypeOK
<1>2. CASE \E s \in Sweeps : RemoveRest(s)  BY <1>2 DEF RemoveRest, TypeOK
<1>3. CASE \E s \in Sweeps : \/ Candidates(s) \/ CheckSurvival(s) \/ Mark(s) \/ Due(s)
                             \/ \E e \in Dirs : OrderDeletion(s, e)
  BY <1>3 DEF Candidates, CheckSurvival, Mark, Due, OrderDeletion
<1>4. CASE \E s \in Sweeps : \/ Delete(s) \/ RemoveFails(s) \/ Conclude(s)
                             \/ RecordDeletion(s) \/ Crash(s)
  BY <1>4 DEF Delete, RemoveFails, Conclude, RecordDeletion, Crash
<1>5. CASE \/ \E e \in Dirs : \/ OrderMark(e) \/ Unmark(e)
                              \/ Work(e) \/ Close(e) \/ Publish(e) \/ Withdraw(e)
           \/ Tick
           \/ UNCHANGED vars
  BY <1>5 DEF OrderMark, Unmark, Work, Close, Publish, Withdraw, Appends, Tick
<1> QED  BY <1>1, <1>2, <1>3, <1>4, <1>5 DEF Next, Run

LEMMA KeptInitially == Init => Kept
BY Initially DEF Init, Kept, HalfRemovedIsRecorded, Idle

LEMMA KeptInductive == Kept /\ [Next]_vars => Kept'
<1> SUFFICES ASSUME Kept, [Next]_vars PROVE Kept'  OBVIOUS
<1>1. TypeOK /\ TypeOK'  BY TypesKept DEF Kept
<1>2. \A d \in Dirs : Recorded(d) => Recorded(d)'
  BY <1>1, StartedGrows, RecordedStays
<1>3. ASSUME NEW s \in Sweeps, NEW d \in Dirs,
             sweep'[s].pc = "removing", d = First(sweep'[s].todo)
      PROVE  Recorded(d)'
  <2>1. CASE sweep'[s] = sweep[s]
    BY <1>2, <1>3, <2>1 DEF Kept, Current
  <2>2. CASE Delete(s)
    <3>1. Current(s) \in Dirs  BY <1>1, <2>2, Busy DEF Delete
    <3>2. sweep'[s].todo = sweep[s].todo
      BY <1>1, <1>3, <2>2, <3>1, DeleteRecords
    <3>3. d = Current(s)  BY <1>3, <3>2 DEF Current
    <3> QED  BY <1>1, <1>3, <2>2, <3>3, DeleteRecords
  <2> QED  BY <1>1, <1>3, <2>1, <2>2, WhoRemoves
<1>4. ASSUME NEW d \in Dirs, held'[d] = "partial"
      PROVE  Recorded(d)'
  BY <1>1, <1>2, <1>4, WhatIsPartial DEF Kept, HalfRemovedIsRecorded
<1> QED  BY <1>1, <1>3, <1>4 DEF Kept, HalfRemovedIsRecorded, Current

(* "a crash part-way through leaves a partially deleted directory that     *)
(* nothing would otherwise record" (sweeper.py:delete): whatever fails,    *)
(* dies or races, an attempt at what is left in part is on a log.          *)
THEOREM NothingIsLeftUnrecorded == Spec => []HalfRemovedIsRecorded
<1>1. Kept => HalfRemovedIsRecorded  BY DEF Kept
<1> QED  BY <1>1, KeptInitially, KeptInductive, PTL DEF Spec
=============================================================================
