---------------------------- MODULE JobLogProofs ----------------------------
(***************************************************************************)
(* What the fold of the log guarantees about sensitivity and rollback, for *)
(* any set of recorded events, any number of levels and any length of log. *)
(***************************************************************************)
EXTENDS JobLog, TLAPS

LEMMA LevelFacts == /\ NoLevel \in Int /\ Levels \subseteq Int
                    /\ \A l \in Levels : NoLevel < l
  BY LevelAssumption DEF NoLevel, Levels

\* The fold keeps its state well formed, and its level is the old one or the
\* event's.
LEMMA ApplyType ==
  ASSUME NEW s \in JobState, NEW e \in Event
  PROVE  /\ Apply(s, e) \in JobState
         /\ Apply(s, e).level = LevelAfter(s, e)
<1>1. LevelAfter(s, e) \in Levels \cup {NoLevel}
  BY DEF LevelAfter, JobState, Event
<1>2. StepAfter[e.kind] \in {StepAfter[k] : k \in Kinds}
  BY DEF Event
<1>3. Projected(s, e) \in JobState
  <2>1. s.material + (IF e.kind = "material-registered" THEN 1 ELSE 0) \in Nat
    BY DEF JobState
  <2> QED  BY <1>1, <1>2, <2>1 DEF Projected, JobState
<1>4. Projected(s, e).level = LevelAfter(s, e)
  BY DEF Projected
<1> QED  BY <1>3, <1>4 DEF Apply, JobState

\* A level that differs from the one before it comes from a confirmation, or
\* is a scan's and is higher.
LEMMA LevelChange ==
  ASSUME NEW s \in JobState, NEW e \in Event, LevelAfter(s, e) # s.level
  PROVE  \/ e.kind = "declaration-confirmed" /\ e.level # NoLevel
         \/ s.level # NoLevel /\ LevelAfter(s, e) > s.level
  BY DEF LevelAfter

\* The state before any event is a state like another.
LEMMA FreshType == Fresh \in JobState
<1>1. "created" \in Kinds /\ StepAfter["created"] = "created"
  BY DEF Kinds, StepAfter
<1>2. "created" \in {StepAfter[k] : k \in Kinds}
  BY <1>1
<1> QED  BY <1>2 DEF Fresh, JobState

LEMMA StateAtType ==
  ASSUME TypeOK, NEW n \in 0 .. Len(log)
  PROVE  StateAt(n) \in JobState
  BY FreshType DEF TypeOK, StateAt

\* What a step does to the log and the fold, whichever action takes it.
LEMMA StepShape ==
  ASSUME TypeOK, Next
  PROVE  \E e \in Event, s \in JobState :
            /\ log' = Append(log, e) /\ states' = Append(states, s)
            /\ e.kind \in HumanActs \cup {"compensated"} => e.human
            /\ \/ s = Apply(Current, e)
               \/ /\ e.kind = "compensated"
                  /\ \E n \in 1 .. Len(log) : s = states[n]
<1>1. ASSUME NEW e \in Recorded, Record(e)
      PROVE  /\ log' = Append(log, e) /\ states' = Append(states, Apply(Current, e))
             /\ e \in Event /\ Apply(Current, e) \in JobState
             /\ e.kind \in HumanActs \cup {"compensated"} => e.human
  <2>1. e \in Event  BY RecordedAssumption
  <2>2. Current \in JobState  BY StateAtType DEF Current, TypeOK
  <2> QED  BY <1>1, <2>1, <2>2, ApplyType DEF Record
<1>2. ASSUME NEW n \in 1 .. MaxLog, Compensate(n)
      PROVE  \E e \in Event : /\ e.kind = "compensated" /\ e.human
                              /\ log' = Append(log, e)
                              /\ states' = Append(states, states[n])
                              /\ n \in 1 .. Len(log) /\ states[n] \in JobState
  <2> DEFINE e == [kind |-> "compensated", human |-> TRUE, level |-> NoLevel,
                   decision |-> "none", to |-> n]
  <2>1. n \in 1 .. Len(log) /\ n \in Nat  BY <1>2 DEF Compensate
  <2>2. e \in Event  BY <2>1 DEF Event, Kinds
  <2>3. StateAt(n) = states[n] /\ states[n] \in JobState
    BY <2>1 DEF StateAt, TypeOK
  <2> QED  BY <1>2, <2>1, <2>2, <2>3 DEF Compensate
<1> QED  BY <1>1, <1>2 DEF Next

THEOREM Types == Spec => []TypeOK
<1>1. Init => TypeOK  BY DEF Init, TypeOK
<1>2. TypeOK /\ [Next]_vars => TypeOK'
  <2> SUFFICES ASSUME TypeOK, [Next]_vars PROVE TypeOK'  OBVIOUS
  <2>1. CASE Next
    <3>1. PICK e \in Event, s \in JobState :
             log' = Append(log, e) /\ states' = Append(states, s)
      BY <2>1, StepShape
    <3> QED  BY <3>1 DEF TypeOK
  <2>2. CASE UNCHANGED vars  BY <2>2 DEF vars, TypeOK
  <2> QED  BY <2>1, <2>2
<1> QED  BY <1>1, <1>2, PTL DEF Spec

\* No scan establishes a level (sensitivity.py:3), and no rollback brings one
\* back that a person did not declare by then.
THEOREM DeclaredOnly == Spec => []LevelsAreDeclared
<1>1. Init => LevelsAreDeclared  BY DEF Init, LevelsAreDeclared
<1>2. TypeOK /\ LevelsAreDeclared /\ [Next]_vars => LevelsAreDeclared'
  <2> SUFFICES ASSUME TypeOK, LevelsAreDeclared, Next
               PROVE  LevelsAreDeclared'
    BY DEF vars, LevelsAreDeclared
  <2> DEFINE Declared(l, n) ==
               \E i \in 1 .. n : /\ l[i].kind = "declaration-confirmed"
                                 /\ l[i].human /\ l[i].level # NoLevel
  <2>1. PICK e \in Event, s \in JobState :
            /\ log' = Append(log, e) /\ states' = Append(states, s)
            /\ e.kind \in HumanActs \cup {"compensated"} => e.human
            /\ \/ s = Apply(Current, e)
               \/ /\ e.kind = "compensated"
                  /\ \E n \in 1 .. Len(log) : s = states[n]
    BY StepShape
  <2>2. /\ Len(log') = Len(log) + 1 /\ Len(log) \in Nat
        /\ log'[Len(log) + 1] = e /\ states'[Len(log) + 1] = s
        /\ \A i \in 1 .. Len(log) : log'[i] = log[i] /\ states'[i] = states[i]
    BY <2>1 DEF TypeOK
  <2>3. \A n \in 1 .. Len(log) : Declared(log, n) => Declared(log', n)
    <3> TAKE n \in 1 .. Len(log)
    <3> HAVE Declared(log, n)
    <3>1. PICK i \in 1 .. n : /\ log[i].kind = "declaration-confirmed"
                              /\ log[i].human /\ log[i].level # NoLevel
      OBVIOUS
    <3>2. i \in 1 .. Len(log)  BY <2>2
    <3> QED  BY <3>1, <3>2, <2>2
  <2>4. \A n \in 1 .. Len(log) : states[n].level # NoLevel => Declared(log', n)
    BY <2>3 DEF LevelsAreDeclared
  <2>5. \A n \in 1 .. Len(log) : states[n].level # NoLevel => Declared(log', Len(log) + 1)
    <3> TAKE n \in 1 .. Len(log)
    <3> HAVE states[n].level # NoLevel
    <3>1. Declared(log', n)  BY <2>4
    <3>2. 1 .. n \subseteq 1 .. Len(log) + 1  BY <2>2
    <3> QED  BY <3>1, <3>2
  <2>6. s.level # NoLevel => Declared(log', Len(log) + 1)
    <3> SUFFICES ASSUME s.level # NoLevel PROVE Declared(log', Len(log) + 1)
      OBVIOUS
    <3>1. CASE \E n \in 1 .. Len(log) : s = states[n]
      BY <3>1, <2>5
    <3>2. CASE s = Apply(Current, e) /\ s.level = Current.level
      <4>1. Current.level # NoLevel  BY <3>2
      <4>2. Len(log) # 0 /\ Current = states[Len(log)]
        BY <4>1 DEF Current, StateAt, Fresh
      <4> QED  BY <4>1, <4>2, <2>5, <2>2
    <3>3. CASE s = Apply(Current, e) /\ s.level # Current.level
      <4>1. Current \in JobState  BY StateAtType DEF Current, TypeOK
      <4>2. s.level = LevelAfter(Current, e)  BY <3>3, <4>1, ApplyType
      <4>3. CASE e.kind = "declaration-confirmed" /\ e.level # NoLevel
        <5>1. e.human  BY <2>1, <4>3 DEF HumanActs
        <5>2. Len(log) + 1 \in 1 .. Len(log) + 1  BY <2>2
        <5> QED  BY <5>1, <5>2, <4>3, <2>2
      <4>4. CASE Current.level # NoLevel
        <5>1. Len(log) # 0 /\ Current = states[Len(log)]
          BY <4>4 DEF Current, StateAt, Fresh
        <5> QED  BY <5>1, <4>4, <2>5, <2>2
      <4> QED  BY <3>3, <4>1, <4>2, <4>3, <4>4, LevelChange
    <3> QED  BY <2>1, <3>1, <3>2, <3>3
  <2>7. \A n \in 1 .. Len(log) + 1 : states'[n].level # NoLevel => Declared(log', n)
    <3> TAKE n \in 1 .. Len(log) + 1
    <3>1. CASE n = Len(log) + 1  BY <3>1, <2>2, <2>6
    <3>2. CASE n \in 1 .. Len(log)  BY <3>2, <2>2, <2>4
    <3> QED  BY <2>2, <3>1, <3>2
  <2> QED  BY <2>2, <2>7 DEF LevelsAreDeclared
<1> QED  BY <1>1, <1>2, Types, PTL DEF Spec

\* A job becomes less restricted only by an event that names a person.
THEOREM RelaxedByPeople == Spec => OnlyPeopleRelax
<1>1. TypeOK /\ [Next]_vars =>
        [Current'.level < Current.level => log'[Len(log')].human]_vars
  <2> SUFFICES ASSUME TypeOK, Next, Current'.level < Current.level
               PROVE  log'[Len(log')].human
    OBVIOUS
  <2>1. PICK e \in Event, s \in JobState :
            /\ log' = Append(log, e) /\ states' = Append(states, s)
            /\ e.kind \in HumanActs \cup {"compensated"} => e.human
            /\ \/ s = Apply(Current, e)
               \/ /\ e.kind = "compensated"
                  /\ \E n \in 1 .. Len(log) : s = states[n]
    BY StepShape
  <2>2. /\ Len(log') = Len(log) + 1 /\ Len(log) \in Nat
        /\ log'[Len(log')] = e /\ states'[Len(log')] = s
    BY <2>1 DEF TypeOK
  <2>3. Current' = s  BY <2>2 DEF Current, StateAt
  <2>4. Current \in JobState  BY StateAtType DEF Current, TypeOK
  <2>5. CASE e.kind = "compensated"  BY <2>1, <2>2, <2>5
  <2>6. CASE s = Apply(Current, e)
    <3>1. s.level = LevelAfter(Current, e)  BY <2>4, <2>6, ApplyType
    <3>2. Current.level \in Int /\ s.level \in Int
      BY <2>4, LevelFacts DEF JobState
    <3>3. LevelAfter(Current, e) # Current.level
          /\ ~(LevelAfter(Current, e) > Current.level)
      BY <3>1, <3>2, <2>3
    <3>4. e.kind = "declaration-confirmed"  BY <3>3, <2>4, LevelChange
    <3> QED  BY <3>4, <2>1, <2>2 DEF HumanActs
  <2> QED  BY <2>1, <2>5, <2>6
<1> QED  BY <1>1, Types, PTL DEF Spec, OnlyPeopleRelax
-----------------------------------------------------------------------------
(* Rollback as erasure.  The events in force, and the state read from them, *)
(* are defined by recursion on the log; what is proved here is an induction *)
(* on the steps of the job: functions that satisfy their equations exist at *)
(* every length of the log, and whatever satisfies them reads, at every     *)
(* sequence, the state the fold has there.                                  *)

KeptEq(f, l) ==
    f = [n \in 0 .. Len(l) |->
           IF n = 0 THEN <<>>
           ELSE IF l[n].kind = "compensated" THEN f[l[n].to]
           ELSE Append(f[n - 1], l[n])]

ReadEq(g, s) == g = [n \in 0 .. Len(s) |-> IF n = 0 THEN Fresh ELSE Apply(g[n - 1], s[n])]

\* Reading s from left to right ends in the state x.
ReadsAs(s, x) == /\ \E g : ReadEq(g, s)
                 /\ \A g : ReadEq(g, s) => x = g[Len(s)]

\* HaltedWhileLast and LevelCoversEveryScan, of any events in force.
HaltsWith(s, x) == x.halted <=> s # <<>> /\ s[Len(s)].kind = "halted"

Covers(s, x) ==
    \A c, i \in 1 .. Len(s) :
       /\ s[c].kind = "declaration-confirmed" /\ s[c].level # NoLevel
       /\ \A j \in c + 1 .. Len(s) :
             s[j].kind = "declaration-confirmed" => s[j].level = NoLevel
       /\ c <= i
       /\ s[i].kind \in {"declaration-confirmed", "classification-completed"}
       => x.level >= s[i].level

Reading(s, x) == /\ s \in Seq(Event) /\ x \in JobState
                 /\ ReadsAs(s, x) /\ HaltsWith(s, x) /\ Covers(s, x)

\* Rollback only ever points back.
PointsBack == \A i \in 1 .. Len(log) : log[i].kind = "compensated" => log[i].to \in 0 .. i - 1

Erasure == /\ TypeOK /\ PointsBack
           /\ \E f : KeptEq(f, log)
           /\ \A f : KeptEq(f, log) => \A n \in 0 .. Len(log) : Reading(f[n], StateAt(n))

\* The reading of a longer sequence, one event further.
LEMMA ReadsFurther ==
    ASSUME NEW s \in Seq(Event), NEW x, ReadsAs(s, x), NEW e \in Event
    PROVE  ReadsAs(Append(s, e), Apply(x, e))
<1> DEFINE t == Append(s, e)
           L == Len(s)
<1>1. /\ L \in Nat /\ Len(t) = L + 1 /\ t[L + 1] = e
      /\ \A n \in 1 .. L : t[n] = s[n]
  OBVIOUS
<1> HIDE DEF t, L
<1>2. \E g : ReadEq(g, t)
  <2>1. PICK g : ReadEq(g, s)  BY DEF ReadsAs
  <2> DEFINE h == [n \in 0 .. L + 1 |-> IF n = L + 1 THEN Apply(g[L], e) ELSE g[n]]
  <2>2. h = [n \in 0 .. L + 1 |-> IF n = 0 THEN Fresh ELSE Apply(h[n - 1], t[n])]
    <3> SUFFICES ASSUME NEW n \in 0 .. L + 1
                 PROVE  h[n] = IF n = 0 THEN Fresh ELSE Apply(h[n - 1], t[n])
      BY <1>1
    <3>1. CASE n = L + 1
      <4>1. h[n] = Apply(g[L], e) /\ h[n - 1] = g[L] /\ n # 0 /\ t[n] = e
        BY <3>1, <1>1
      <4> QED  BY <4>1
    <3>2. CASE n \in 1 .. L
      <4>1. h[n] = g[n] /\ h[n - 1] = g[n - 1] /\ n # 0 /\ t[n] = s[n]
        BY <3>2, <1>1
      <4>2. g[n] = Apply(g[n - 1], s[n])
        BY <2>1, <3>2, <1>1 DEF ReadEq, L
      <4> QED  BY <4>1, <4>2
    <3>3. CASE n = 0
      <4>1. h[n] = g[0] /\ g[0] = Fresh
        BY <2>1, <3>3, <1>1 DEF ReadEq, L
      <4> QED  BY <3>3, <4>1
    <3> QED  BY <3>1, <3>2, <3>3, <1>1
  <2> HIDE DEF h
  <2>3. ReadEq(h, t)  BY <2>2, <1>1 DEF ReadEq
  <2> QED  BY <2>3
<1>3. ASSUME NEW g, ReadEq(g, t) PROVE Apply(x, e) = g[Len(t)]
  <2>1. \A n \in 0 .. L + 1 : g[n] = IF n = 0 THEN Fresh ELSE Apply(g[n - 1], t[n])
    BY <1>3, <1>1 DEF ReadEq
  <2> DEFINE h == [n \in 0 .. L |-> g[n]]
  <2>2. h = [n \in 0 .. L |-> IF n = 0 THEN Fresh ELSE Apply(h[n - 1], s[n])]
    <3> SUFFICES ASSUME NEW n \in 0 .. L
                 PROVE  h[n] = IF n = 0 THEN Fresh ELSE Apply(h[n - 1], s[n])
      BY <1>1
    <3>1. CASE n = 0
      BY <3>1, <2>1, <1>1
    <3>2. CASE n # 0
      <4>1. /\ h[n] = g[n] /\ h[n - 1] = g[n - 1] /\ t[n] = s[n]
            /\ g[n] = Apply(g[n - 1], t[n])
        BY <3>2, <2>1, <1>1
      <4> QED  BY <3>2, <4>1
    <3> QED  BY <3>1, <3>2
  <2> HIDE DEF h
  <2>3. ReadEq(h, s)  BY <2>2 DEF ReadEq, L
  <2>4. x = h[L]  BY <2>3 DEF ReadsAs, L
  <2>5. h[L] = g[L]  BY <1>1 DEF h
  <2>6. g[L + 1] = Apply(g[L], e)
    <3>1. L + 1 \in 0 .. L + 1 /\ L + 1 # 0 /\ (L + 1) - 1 = L  BY <1>1
    <3>2. g[L + 1] = Apply(g[(L + 1) - 1], t[L + 1])  BY <2>1, <3>1
    <3> QED  BY <3>1, <3>2, <1>1
  <2> QED  BY <2>4, <2>5, <2>6, <1>1
<1> QED  BY <1>2, <1>3 DEF ReadsAs, t

LEMMA CoversFurther ==
    ASSUME NEW s \in Seq(Event), NEW x \in JobState, Covers(s, x), NEW e \in Event
    PROVE  Covers(Append(s, e), Apply(x, e))
<1> DEFINE t == Append(s, e)
           L == Len(s)
<1>1. /\ L \in Nat /\ Len(t) = L + 1 /\ t[L + 1] = e
      /\ \A n \in 1 .. L : t[n] = s[n]
  OBVIOUS
<1>2. /\ Apply(x, e).level = LevelAfter(x, e)
      /\ x.level \in Levels \cup {NoLevel} /\ e.level \in Levels \cup {NoLevel}
  BY ApplyType DEF JobState, Event
<1>3. x.level \in Int /\ e.level \in Int
  BY <1>2, LevelFacts
<1>4. \A n \in 1 .. L : s[n].level \in Levels \cup {NoLevel}
  <2> TAKE n \in 1 .. L
  <2>1. s[n] \in Event  OBVIOUS
  <2> QED  BY <2>1 DEF Event
<1> HIDE DEF t, L
<1> SUFFICES ASSUME NEW c \in 1 .. L + 1, NEW i \in 1 .. L + 1,
                    t[c].kind = "declaration-confirmed", t[c].level # NoLevel,
                    \A j \in c + 1 .. L + 1 :
                       t[j].kind = "declaration-confirmed" => t[j].level = NoLevel,
                    c <= i,
                    t[i].kind \in {"declaration-confirmed", "classification-completed"}
             PROVE  LevelAfter(x, e) >= t[i].level
  BY <1>1, <1>2 DEF Covers, t
<1>5. CASE c = L + 1
  <2>1. t[i] = e /\ t[c] = e  BY <1>5, <1>1
  <2> QED  BY <2>1, <1>3 DEF LevelAfter
<1>6. CASE c # L + 1
  <2>1. c \in 1 .. L /\ t[c] = s[c]  BY <1>6, <1>1
  <2>2. e.kind = "declaration-confirmed" => e.level = NoLevel
    <3>1. L + 1 \in c + 1 .. L + 1  BY <2>1, <1>1
    <3> QED  BY <3>1, <1>1
  <2>3. \A j \in c + 1 .. L : s[j].kind = "declaration-confirmed" => s[j].level = NoLevel
    <3> TAKE j \in c + 1 .. L
    <3>1. j \in c + 1 .. L + 1 /\ j \in 1 .. L  BY <2>1, <1>1
    <3> QED  BY <3>1, <1>1
  <2>4. \A k \in 1 .. L : c <= k
           /\ s[k].kind \in {"declaration-confirmed", "classification-completed"}
           => x.level >= s[k].level
    BY <2>1, <2>3 DEF Covers, L
  <2>5. x.level # NoLevel
    <3>1. s[c].level \in Levels  BY <2>1, <1>4
    <3>2. c <= c /\ s[c].kind = "declaration-confirmed"  BY <2>1, <1>1
    <3>3. x.level >= s[c].level  BY <2>1, <2>4, <3>2
    <3>4. NoLevel < s[c].level /\ s[c].level \in Int /\ NoLevel \in Int
      BY <3>1, LevelFacts
    <3> QED  BY <3>3, <3>4, <1>3
  <2>6. LevelAfter(x, e) >= x.level /\ LevelAfter(x, e) \in Int
    BY <2>2, <1>3 DEF LevelAfter
  <2>7. CASE i \in 1 .. L
    <3>1. t[i] = s[i] /\ s[i].level \in Int  BY <2>7, <1>1, <1>4, LevelFacts
    <3>2. x.level >= s[i].level  BY <2>4, <2>7, <3>1
    <3> QED  BY <3>1, <3>2, <2>6, <1>3
  <2>8. CASE i = L + 1
    <3>1. t[i] = e  BY <2>8, <1>1
    <3>2. e.kind = "classification-completed" => LevelAfter(x, e) >= e.level
      BY <2>5, <1>3 DEF LevelAfter
    <3>3. e.level = NoLevel => LevelAfter(x, e) >= e.level
      BY <2>6, <1>2, <1>3, LevelFacts
    <3> QED  BY <3>1, <3>2, <3>3, <2>2
  <2> QED  BY <2>7, <2>8, <1>1
<1> QED  BY <1>5, <1>6

LEMMA ReadingFurther ==
    ASSUME NEW s, NEW x, Reading(s, x), NEW e \in Event
    PROVE  Reading(Append(s, e), Apply(x, e))
<1>1. s \in Seq(Event) /\ x \in JobState  BY DEF Reading
<1>2. ReadsAs(Append(s, e), Apply(x, e)) /\ Covers(Append(s, e), Apply(x, e))
  BY <1>1, ReadsFurther, CoversFurther DEF Reading
<1>3. Apply(x, e) \in JobState /\ Append(s, e) \in Seq(Event)
  BY <1>1, ApplyType
<1>4. HaltsWith(Append(s, e), Apply(x, e))
  <2>1. Apply(x, e).halted = (e.kind = "halted")
    BY DEF Apply, Projected
  <2>2. /\ Append(s, e) # <<>> /\ Append(s, e)[Len(Append(s, e))] = e
    BY <1>1
  <2> QED  BY <2>1, <2>2 DEF HaltsWith
<1> QED  BY <1>2, <1>3, <1>4 DEF Reading

LEMMA ReadingNothing == Reading(<<>>, Fresh)
<1> DEFINE g == [n \in 0 .. 0 |-> Fresh]
<1>1. ReadEq(g, <<>>)  BY DEF ReadEq
<1>2. ASSUME NEW h, ReadEq(h, <<>>) PROVE Fresh = h[Len(<<>>)]
  BY <1>2 DEF ReadEq
<1>3. ReadsAs(<<>>, Fresh)  BY <1>1, <1>2 DEF ReadsAs
<1>4. HaltsWith(<<>>, Fresh)  BY DEF HaltsWith, Fresh
<1>5. Covers(<<>>, Fresh)  BY DEF Covers
<1> QED  BY <1>3, <1>4, <1>5, FreshType DEF Reading

\* The events in force after one more entry: an event is added to those before
\* it, a compensation takes back those of an earlier sequence.
LEMMA KeptFurther ==
    ASSUME Erasure, NEW e \in Event, log' = Append(log, e), NEW x \in JobState,
           states' = Append(states, x),
           \/ e.kind # "compensated" /\ x = Apply(Current, e)
           \/ e.kind = "compensated" /\ e.to \in 0 .. Len(log) /\ x = StateAt(e.to)
    PROVE  /\ \E f : KeptEq(f, log')
           /\ \A f : KeptEq(f, log') => \A n \in 0 .. Len(log') : Reading(f[n], StateAt(n)')
<1> DEFINE m == log'
<1>0. PICK L \in Nat : L = Len(log)
  BY DEF Erasure, TypeOK
<1>1. /\ L \in Nat /\ Len(m) = L + 1 /\ m[L + 1] = e
      /\ \A n \in 1 .. L : m[n] = log[n]
      /\ Len(states) = L /\ states'[L + 1] = x
      /\ \A n \in 1 .. L : states'[n] = states[n]
  BY <1>0 DEF Erasure, TypeOK
<1>2. /\ \A n \in 0 .. L : StateAt(n)' = StateAt(n)
      /\ StateAt(L + 1)' = x /\ Current = StateAt(L)
  BY <1>0, <1>1 DEF StateAt, Current
<1>3. \A n \in 1 .. L : log[n].kind = "compensated" => log[n].to \in 0 .. n - 1
  BY <1>0 DEF Erasure, PointsBack
<1> HIDE DEF m
<1>4. \E f : KeptEq(f, m)
  <2>1. PICK f : KeptEq(f, log)  BY DEF Erasure
  <2> DEFINE last == IF e.kind = "compensated" THEN f[e.to] ELSE Append(f[L], e)
             h == [n \in 0 .. L + 1 |-> IF n = L + 1 THEN last ELSE f[n]]
  <2>2. \A n \in 0 .. L : f[n] = IF n = 0 THEN <<>>
                                 ELSE IF log[n].kind = "compensated" THEN f[log[n].to]
                                 ELSE Append(f[n - 1], log[n])
    BY <1>0, <2>1 DEF KeptEq
  <2>3. ASSUME NEW n \in 0 .. L + 1
        PROVE  h[n] = IF n = 0 THEN <<>>
                      ELSE IF m[n].kind = "compensated" THEN h[m[n].to]
                      ELSE Append(h[n - 1], m[n])
    <3>1. CASE n = L + 1
      <4>1. h[n] = last /\ h[n - 1] = f[L] /\ n # 0 /\ m[n] = e  BY <3>1, <1>1
      <4>2. e.kind = "compensated" => h[e.to] = f[e.to]
        <5> SUFFICES ASSUME e.kind = "compensated" PROVE h[e.to] = f[e.to]
          OBVIOUS
        <5>1. e.to \in 0 .. L  BY <1>0
        <5> QED  BY <5>1, <1>1
      <4> QED  BY <4>1, <4>2
    <3>2. CASE n \in 1 .. L
      <4>1. h[n] = f[n] /\ h[n - 1] = f[n - 1] /\ n # 0 /\ m[n] = log[n]
        BY <3>2, <1>1
      <4>2. log[n].kind = "compensated" => h[log[n].to] = f[log[n].to]
        BY <3>2, <1>1, <1>3
      <4> QED  BY <3>2, <4>1, <4>2, <2>2
    <3>3. CASE n = 0
      BY <3>3, <2>2, <1>1
    <3> QED  BY <3>1, <3>2, <3>3, <1>1
  <2>4. h = [n \in 0 .. Len(m) |-> IF n = 0 THEN <<>>
                                   ELSE IF m[n].kind = "compensated" THEN h[m[n].to]
                                   ELSE Append(h[n - 1], m[n])]
    BY <2>3, <1>1
  <2> HIDE DEF h
  <2> QED  BY <2>4 DEF KeptEq
<1>5. ASSUME NEW f, KeptEq(f, m), NEW n \in 0 .. L + 1
      PROVE  Reading(f[n], StateAt(n)')
  <2>1. \A k \in 0 .. L + 1 : f[k] = IF k = 0 THEN <<>>
                                     ELSE IF m[k].kind = "compensated" THEN f[m[k].to]
                                     ELSE Append(f[k - 1], m[k])
    BY <1>5, <1>1 DEF KeptEq
  <2> DEFINE h == [k \in 0 .. L |-> f[k]]
  <2>2. ASSUME NEW k \in 0 .. L
        PROVE  h[k] = IF k = 0 THEN <<>>
                      ELSE IF log[k].kind = "compensated" THEN h[log[k].to]
                      ELSE Append(h[k - 1], log[k])
    <3>1. CASE k = 0
      BY <3>1, <2>1, <1>1
    <3>2. CASE k \in 1 .. L
      <4>1. h[k] = f[k] /\ h[k - 1] = f[k - 1] /\ k # 0 /\ m[k] = log[k]
        BY <3>2, <1>1
      <4>2. log[k].kind = "compensated" => h[log[k].to] = f[log[k].to]
        BY <3>2, <1>1, <1>3
      <4>3. k \in 0 .. L + 1  BY <1>1
      <4> QED  BY <4>1, <4>2, <4>3, <2>1
    <3> QED  BY <3>1, <3>2
  <2>3. h = [k \in 0 .. L |-> IF k = 0 THEN <<>>
                              ELSE IF log[k].kind = "compensated" THEN h[log[k].to]
                              ELSE Append(h[k - 1], log[k])]
    BY <2>2
  <2>4. \A k \in 0 .. L : h[k] = f[k]  OBVIOUS
  <2> HIDE DEF h
  <2>5. KeptEq(h, log)  BY <1>0, <2>3 DEF KeptEq
  <2>6. \A k \in 0 .. L : Reading(f[k], StateAt(k))
    BY <1>0, <2>4, <2>5 DEF Erasure
  <2>7. CASE n \in 0 .. L
    BY <2>6, <2>7, <1>2
  <2>8. CASE n = L + 1
    <3>1. /\ e.kind = "compensated" => f[n] = f[e.to]
          /\ e.kind # "compensated" => f[n] = Append(f[L], e)
      <4>1. n \in 0 .. L + 1 /\ n # 0 /\ n - 1 = L /\ m[n] = e
        BY <2>8, <1>1
      <4> QED  BY <4>1, <2>1
    <3>2. CASE e.kind = "compensated"
      <4>1. e.to \in 0 .. L /\ x = StateAt(e.to)  BY <1>0, <3>2
      <4> QED  BY <4>1, <3>1, <3>2, <2>6, <2>8, <1>2
    <3>3. CASE e.kind # "compensated"
      <4>1. x = Apply(StateAt(L), e)  BY <3>3, <1>2
      <4>2. Reading(f[L], StateAt(L))  BY <2>6, <1>1
      <4>3. Reading(Append(f[L], e), x)  BY <4>1, <4>2, ReadingFurther
      <4> QED  BY <4>3, <3>1, <3>3, <2>8, <1>2
    <3> QED  BY <3>2, <3>3
  <2> QED  BY <2>7, <2>8, <1>1
<1> QED  BY <1>1, <1>4, <1>5 DEF m

\* What a step appends, and that a compensation restores an earlier state.
LEMMA StepRestores ==
    ASSUME TypeOK, Next
    PROVE  \E e \in Event, x \in JobState :
              /\ log' = Append(log, e) /\ states' = Append(states, x)
              /\ \/ e.kind # "compensated" /\ x = Apply(Current, e)
                 \/ e.kind = "compensated" /\ e.to \in 0 .. Len(log) /\ x = StateAt(e.to)
<1>1. ASSUME NEW e \in Recorded, Record(e)
      PROVE  /\ log' = Append(log, e) /\ states' = Append(states, Apply(Current, e))
             /\ e \in Event /\ Apply(Current, e) \in JobState /\ e.kind # "compensated"
  <2>1. e \in Event  BY RecordedAssumption
  <2>2. Current \in JobState  BY StateAtType DEF Current, TypeOK
  <2> QED  BY <1>1, <2>1, <2>2, ApplyType DEF Record
<1>2. ASSUME NEW n \in 1 .. MaxLog, Compensate(n)
      PROVE  \E e \in Event : /\ e.kind = "compensated" /\ e.to = n
                              /\ log' = Append(log, e)
                              /\ states' = Append(states, StateAt(n))
                              /\ n \in 0 .. Len(log) /\ StateAt(n) \in JobState
  <2> DEFINE e == [kind |-> "compensated", human |-> TRUE, level |-> NoLevel,
                   decision |-> "none", to |-> n]
  <2>1. n \in 1 .. Len(log) /\ n \in Nat /\ Len(log) \in Nat
    BY <1>2 DEF Compensate, TypeOK
  <2>2. e \in Event  BY <2>1 DEF Event, Kinds
  <2>3. n \in 0 .. Len(log)  BY <2>1
  <2>4. StateAt(n) \in JobState  BY <2>3, StateAtType
  <2> QED  BY <1>2, <2>2, <2>3, <2>4 DEF Compensate
<1> QED  BY <1>1, <1>2 DEF Next

LEMMA ErasureAlways == Spec => []Erasure
<1>1. Init => Erasure
  <2> SUFFICES ASSUME Init PROVE Erasure  OBVIOUS
  <2>1. log = <<>> /\ states = <<>>  BY DEF Init
  <2> DEFINE f == [n \in 0 .. 0 |-> <<>>]
  <2>2. KeptEq(f, <<>>)  BY DEF KeptEq
  <2>3. ASSUME NEW h, KeptEq(h, <<>>) PROVE h[0] = <<>>
    BY <2>3 DEF KeptEq
  <2>4. StateAt(0) = Fresh  BY DEF StateAt
  <2>5. \A h : KeptEq(h, log) => \A n \in 0 .. Len(log) : Reading(h[n], StateAt(n))
    BY <2>1, <2>3, <2>4, ReadingNothing
  <2> QED  BY <2>1, <2>2, <2>5 DEF Erasure, TypeOK, PointsBack
<1>2. ASSUME Erasure, TypeOK', Next PROVE Erasure'
  <2>1. TypeOK  BY <1>2 DEF Erasure
  <2>2. PICK e \in Event, x \in JobState :
           /\ log' = Append(log, e) /\ states' = Append(states, x)
           /\ \/ e.kind # "compensated" /\ x = Apply(Current, e)
              \/ e.kind = "compensated" /\ e.to \in 0 .. Len(log) /\ x = StateAt(e.to)
    BY <1>2, <2>1, StepRestores
  <2>3. /\ \E f : KeptEq(f, log')
        /\ \A f : KeptEq(f, log') => \A n \in 0 .. Len(log') : Reading(f[n], StateAt(n)')
    BY <1>2, <2>2, KeptFurther
  <2>4. PointsBack'
    <3>1. /\ Len(log) \in Nat /\ Len(log') = Len(log) + 1 /\ log'[Len(log) + 1] = e
          /\ \A i \in 1 .. Len(log) : log'[i] = log[i]
      BY <2>1, <2>2 DEF TypeOK
    <3>2. \A i \in 1 .. Len(log) : log[i].kind = "compensated" => log[i].to \in 0 .. i - 1
      BY <1>2 DEF Erasure, PointsBack
    <3> QED  BY <2>2, <3>1, <3>2 DEF PointsBack
  <2> QED  BY <1>2, <2>3, <2>4 DEF Erasure
<1>3. Erasure /\ UNCHANGED vars => Erasure'
  BY DEF vars, Erasure, TypeOK, PointsBack, StateAt
<1> QED  BY <1>1, <1>2, <1>3, Types, PTL DEF Spec

\* The current state is a reading of the events in force.
LEMMA InForceIsRead == Erasure => Reading(InForce, Current)
<1> SUFFICES ASSUME Erasure PROVE Reading(InForce, Current)  OBVIOUS
<1> DEFINE kept == CHOOSE f : KeptEq(f, log)
<1>1. KeptEq(kept, log)  BY DEF Erasure
<1>2. InForce = kept[Len(log)]  BY DEF InForce, KeptEq
<1>3. Len(log) \in Nat  BY DEF Erasure, TypeOK
<1> HIDE DEF kept
<1>4. Reading(kept[Len(log)], StateAt(Len(log)))  BY <1>1, <1>3 DEF Erasure
<1> QED  BY <1>2, <1>4 DEF Current

\* Rollback leaves what a log that never held the undone events would, whatever
\* was recorded, rolled back, and rolled back to a rollback, in any order.
THEOREM RollbackErases == Spec => []RollbackIsErasure
<1>1. Erasure => RollbackIsErasure
  <2> SUFFICES ASSUME Erasure PROVE RollbackIsErasure  OBVIOUS
  <2>1. ReadsAs(InForce, Current)  BY InForceIsRead DEF Reading
  <2> DEFINE read == CHOOSE g : ReadEq(g, InForce)
  <2>2. ReadEq(read, InForce)  BY <2>1 DEF ReadsAs
  <2>3. Current = read[Len(InForce)]  BY <2>1, <2>2 DEF ReadsAs
  <2> QED  BY <2>3 DEF RollbackIsErasure, ReadEq
<1> QED  BY <1>1, ErasureAlways, PTL

\* While a declaration stands the level is no lower than it, nor than any scan
\* since that is in force: no order of scans and rollbacks forgets one.
THEOREM ScansAreCovered == Spec => []LevelCoversEveryScan
<1>1. Erasure => LevelCoversEveryScan
  <2> SUFFICES ASSUME Erasure PROVE LevelCoversEveryScan  OBVIOUS
  <2>1. Covers(InForce, Current)  BY InForceIsRead DEF Reading
  <2> QED  BY <2>1 DEF Covers, LevelCoversEveryScan
<1> QED  BY <1>1, ErasureAlways, PTL

\* A job is stopped exactly while its halt is the last event in force: rolling
\* back what was done after a halt stops the job again.
THEOREM HaltsWhileLast == Spec => []HaltedWhileLast
<1>1. Erasure => HaltedWhileLast
  <2> SUFFICES ASSUME Erasure PROVE HaltedWhileLast  OBVIOUS
  <2>1. HaltsWith(InForce, Current)  BY InForceIsRead DEF Reading
  <2> QED  BY <2>1 DEF HaltsWith, HaltedWhileLast
<1> QED  BY <1>1, ErasureAlways, PTL
=============================================================================
