--------------------------- MODULE WorkflowProofs ---------------------------
(***************************************************************************)
(* What holds of a job on its way through the graph, for any submissions,  *)
(* questions, attempts and faults: what the walk of the graph examines and *)
(* in which order, and what follows for the steps that are taken.          *)
(***************************************************************************)
EXTENDS Workflow, FiniteSetTheorems, WellFoundedInduction, SequenceTheorems, TLAPS

(* Induction over data, without operators as parameters: of a set that is  *)
(* not empty, one member is least by a measure.                            *)
LEMMA LeastBy ==
  ASSUME NEW S, S # {}, NEW f \in [S -> Nat]
  PROVE  \E x \in S : \A y \in S : f[x] <= f[y]
<1> DEFINE below == {p \in Nat \X Nat : p[1] < p[2]}
           values == {f[x] : x \in S}
<1>1. values \subseteq Nat /\ values # {}  OBVIOUS
<1>2. IsWellFoundedOn(below, Nat)  BY NatLessThanWellFounded DEF OpToRel
<1>3. PICK n \in values : \A m \in values : <<m, n>> \notin below
  <2> HIDE DEF below, values
  <2> QED  BY <1>1, <1>2, WFMin
<1>4. \A m \in values : n <= m
  <2> TAKE m \in values
  <2>1. m \in Nat /\ n \in Nat /\ <<m, n>> \in Nat \X Nat  BY <1>1
  <2>2. ~ (<<m, n>>[1] < <<m, n>>[2])  BY <1>3, <2>1
  <2> QED  BY <2>1, <2>2
<1> QED  BY <1>4

LEMMA LeastNumber ==
  ASSUME NEW S \in SUBSET Nat, S # {}
  PROVE  \E n \in S : \A m \in S : n <= m
<1> DEFINE f == [n \in S |-> n]
<1>1. f \in [S -> Nat]  OBVIOUS
<1>2. PICK n \in S : \A m \in S : f[n] <= f[m]  BY <1>1, LeastBy
<1> QED  BY <1>2
-----------------------------------------------------------------------------
(* The graph. *)

LEMMA PlacesFinite == IsFiniteSet(Places)
<1> DEFINE list == <<"start", "ingest", "dmp", "declaration", "classification",
                     "media", "redaction", "metadata", "documentation", "validation",
                     "repository", "confirm_declaration", "review", "deposit">>
<1>1. IsFiniteSet(1 .. 14)
  <2>1. \A n \in Nat : IsFiniteSet(1 .. n)  BY FS_Interval
  <2> QED  BY <2>1
<1>2. list \in Surjection(1 .. 14, Places)
  BY DEF Surjection, Places, Nodes, Automatic, Human
<1> QED  BY <1>1, <1>2, FS_Surjection

\* The edges, each open while its condition is held.
Leads(held, m, n) ==
    \/ m = "start" /\ n = "ingest"
    \/ m = "ingest" /\ n = "dmp" /\ "material" \in held
    \/ m = "dmp" /\ n = "declaration" /\ "material" \in held
    \/ m = "declaration" /\ n = "confirm_declaration"
    \/ m = "confirm_declaration" /\ n = "classification" /\ "confirmed" \in held
    \/ m = "classification" /\ n = "media" /\ "images" \in held
    \/ m \in {"classification", "media"} /\ n = "metadata"
    \/ m = "classification" /\ n = "redaction" /\ "sensitive" \in held
    \/ m = "metadata" /\ n = "documentation"
    \/ m = "documentation" /\ n = "validation"
    \/ m = "validation" /\ n = "repository"
    \/ m \in {"redaction", "repository"} /\ n = "review"
    \/ m = "review" /\ n = "deposit"

Listed(s, n) == \E i \in 1 .. Len(s) : s[i] = n

\* A list after another one: what it holds, and where.
LEMMA JoinList ==
  ASSUME NEW S, NEW s \in Seq(S), NEW t \in Seq(S)
  PROVE  /\ s \o t \in Seq(S) /\ Len(s \o t) = Len(s) + Len(t)
         /\ \A i \in 1 .. Len(s) : (s \o t)[i] = s[i]
         /\ \A i \in 1 .. Len(t) : (s \o t)[Len(s) + i] = t[i]
         /\ \A i \in 1 .. Len(s \o t) :
               \/ i \in 1 .. Len(s) /\ (s \o t)[i] = s[i]
               \/ i - Len(s) \in 1 .. Len(t) /\ (s \o t)[i] = t[i - Len(s)]
         /\ \A n : Listed(s \o t, n) <=> Listed(s, n) \/ Listed(t, n)
<1>1. /\ s \o t \in Seq(S) /\ Len(s \o t) = Len(s) + Len(t)
      /\ \A i \in 1 .. Len(s) + Len(t) : (s \o t)[i] =
            IF i <= Len(s) THEN s[i] ELSE t[i - Len(s)]
  BY ConcatProperties
<1>2. Len(s) \in Nat /\ Len(t) \in Nat  OBVIOUS
<1> DEFINE st == s \o t
<1> HIDE DEF st
<1>3. \A i \in 1 .. Len(s) : st[i] = s[i]  BY <1>1, <1>2 DEF st
<1>4. \A i \in 1 .. Len(t) : st[Len(s) + i] = t[i]
  <2> TAKE i \in 1 .. Len(t)
  <2>1. Len(s) + i \in 1 .. Len(s) + Len(t) /\ ~ Len(s) + i <= Len(s)
        /\ Len(s) + i - Len(s) = i
    BY <1>2
  <2> QED  BY <1>1, <2>1 DEF st
<1>5. \A i \in 1 .. Len(st) :
         \/ i \in 1 .. Len(s) /\ st[i] = s[i]
         \/ i - Len(s) \in 1 .. Len(t) /\ st[i] = t[i - Len(s)]
  <2> TAKE i \in 1 .. Len(st)
  <2>1. i \in 1 .. Len(s) + Len(t)  BY <1>1 DEF st
  <2>2. CASE i <= Len(s)
    <3>1. i \in 1 .. Len(s)  BY <1>2, <2>1, <2>2
    <3> QED  BY <1>3, <3>1
  <2>3. CASE ~ i <= Len(s)
    <3>1. i - Len(s) \in 1 .. Len(t)  BY <1>2, <2>1, <2>3
    <3> QED  BY <1>1, <2>1, <2>3, <3>1 DEF st
  <2> QED  BY <2>2, <2>3
<1>6. \A n : Listed(s \o t, n) <=> Listed(s, n) \/ Listed(t, n)
  <2> TAKE n
  <2>1. ASSUME Listed(s, n)  PROVE Listed(st, n)
    <3>1. PICK i \in 1 .. Len(s) : s[i] = n  BY <2>1 DEF Listed
    <3>2. i \in 1 .. Len(st)  BY <1>1, <1>2 DEF st
    <3> QED  BY <1>3, <3>1, <3>2 DEF Listed
  <2>2. ASSUME Listed(t, n)  PROVE Listed(st, n)
    <3>1. PICK i \in 1 .. Len(t) : t[i] = n  BY <2>2 DEF Listed
    <3>2. Len(s) + i \in 1 .. Len(st)  BY <1>1, <1>2 DEF st
    <3> QED  BY <1>4, <3>1, <3>2 DEF Listed
  <2>3. ASSUME Listed(st, n)  PROVE Listed(s, n) \/ Listed(t, n)
    <3>1. PICK i \in 1 .. Len(st) : st[i] = n  BY <2>3 DEF Listed
    <3> QED  BY <1>5, <3>1 DEF Listed
  <2> QED  BY <2>1, <2>2, <2>3 DEF st
<1> QED  BY <1>1, <1>3, <1>4, <1>5, <1>6 DEF st

LEMMA WhenList ==
  ASSUME NEW condition, NEW held, NEW n \in Nodes
  PROVE  /\ When(condition, held, n) \in Seq(Nodes) /\ Len(When(condition, held, n)) <= 1
         /\ \A m : Listed(When(condition, held, n), m) <=> m = n /\ condition \in held
<1>1. CASE condition \in held  BY <1>1 DEF When, Listed
<1>2. CASE condition \notin held  BY <1>2 DEF When, Listed
<1> QED  BY <1>1, <1>2

LEMMA OneList ==
  ASSUME NEW n \in Nodes
  PROVE  /\ <<n>> \in Seq(Nodes) /\ Len(<<n>>) <= 1
         /\ \A m : Listed(<<n>>, m) <=> m = n
BY DEF Listed

LEMMA InspectionList ==
  ASSUME NEW held
  PROVE  /\ Inspection(held) \in Seq(Nodes) /\ Len(Inspection(held)) <= 3
         /\ \A n : Listed(Inspection(held), n) <=> Leads(held, "classification", n)
         /\ "images" \in held => Len(Inspection(held)) > 0 /\ Inspection(held)[1] = "media"
<1> DEFINE images    == When("images", held, "media")
           sensitive == When("sensitive", held, "redaction")
           metadata  == <<"metadata">>
           begin     == images \o metadata
<1>1. "media" \in Nodes /\ "metadata" \in Nodes /\ "redaction" \in Nodes
  BY DEF Nodes, Automatic
<1>2. /\ images \in Seq(Nodes) /\ Len(images) <= 1
      /\ \A n : Listed(images, n) <=> n = "media" /\ "images" \in held
  BY <1>1, WhenList
<1>3. /\ sensitive \in Seq(Nodes) /\ Len(sensitive) <= 1
      /\ \A n : Listed(sensitive, n) <=> n = "redaction" /\ "sensitive" \in held
  BY <1>1, WhenList
<1>4. /\ metadata \in Seq(Nodes) /\ Len(metadata) <= 1
      /\ \A n : Listed(metadata, n) <=> n = "metadata"
  BY <1>1, OneList
<1>5. "images" \in held => images = <<"media">>  BY DEF When
<1> HIDE DEF images, sensitive, metadata
<1>6. /\ begin \in Seq(Nodes) /\ Len(begin) = Len(images) + Len(metadata)
      /\ \A i \in 1 .. Len(images) : begin[i] = images[i]
      /\ \A n : Listed(begin, n) <=> Listed(images, n) \/ Listed(metadata, n)
  BY <1>2, <1>4, JoinList
<1>7. Len(images) \in Nat /\ Len(sensitive) \in Nat /\ Len(metadata) = 1
  BY <1>2, <1>3 DEF metadata
<1> HIDE DEF begin
<1>8. /\ begin \o sensitive \in Seq(Nodes)
      /\ Len(begin \o sensitive) = Len(begin) + Len(sensitive)
      /\ \A i \in 1 .. Len(begin) : (begin \o sensitive)[i] = begin[i]
      /\ \A n : Listed(begin \o sensitive, n) <=> Listed(begin, n) \/ Listed(sensitive, n)
  BY <1>3, <1>6, JoinList
<1>9. Inspection(held) = begin \o sensitive
  BY DEF Inspection, begin, images, metadata, sensitive
<1>10. \A n : Leads(held, "classification", n) <=>
          \/ n = "media" /\ "images" \in held
          \/ n = "metadata"
          \/ n = "redaction" /\ "sensitive" \in held
  BY DEF Leads
<1>11. Len(begin \o sensitive) <= 3
  <2>1. Len(begin \o sensitive) = Len(images) + 1 + Len(sensitive)
    BY <1>6, <1>7, <1>8
  <2>2. Len(images) <= 1 /\ Len(sensitive) <= 1  BY <1>2, <1>3
  <2> QED  BY <1>7, <2>1, <2>2
<1>12. ASSUME "images" \in held
       PROVE  Len(begin \o sensitive) > 0 /\ (begin \o sensitive)[1] = "media"
  <2>1. Len(images) = 1 /\ images[1] = "media"  BY <1>5, <1>12
  <2>2. 1 \in 1 .. Len(images) /\ 1 \in 1 .. Len(begin)  BY <1>6, <1>7, <2>1
  <2> QED  BY <1>3, <1>6, <1>7, <1>8, <2>1, <2>2
<1> QED  BY <1>2, <1>3, <1>4, <1>6, <1>8, <1>9, <1>10, <1>11, <1>12

\* What the successors of a place are.
LEMMA SuccessorList ==
  ASSUME NEW held, NEW m \in Places
  PROVE  /\ Successors(held)[m] \in Seq(Nodes) /\ Len(Successors(held)[m]) <= 3
         /\ \A n : Listed(Successors(held)[m], n) <=> Leads(held, m, n)
<1> DEFINE s == Successors(held)[m]
<1>1. CASE m = "classification"
  <2>1. s = Inspection(held)  BY <1>1 DEF Successors
  <2> QED  BY <1>1, <2>1, InspectionList
<1>2. CASE m = "deposit"
  <2>1. s = <<>>  BY <1>2 DEF Successors
  <2> QED  BY <1>2, <2>1 DEF Listed, Leads
<1>3. CASE m = "ingest"
  <2>1. s = When("material", held, "dmp")  BY <1>3 DEF Successors
  <2>2. "dmp" \in Nodes  BY DEF Nodes, Automatic
  <2> QED  BY <1>3, <2>1, <2>2, WhenList DEF Leads
<1>4. CASE m = "dmp"
  <2>1. s = When("material", held, "declaration")  BY <1>4 DEF Successors
  <2>2. "declaration" \in Nodes  BY DEF Nodes, Automatic
  <2> QED  BY <1>4, <2>1, <2>2, WhenList DEF Leads
<1>5. CASE m = "confirm_declaration"
  <2>1. s = When("confirmed", held, "classification")  BY <1>5 DEF Successors
  <2>2. "classification" \in Nodes  BY DEF Nodes, Automatic
  <2> QED  BY <1>5, <2>1, <2>2, WhenList DEF Leads
<1>6. CASE m \in {"start", "declaration", "media", "metadata", "documentation",
                  "validation", "redaction", "repository", "review"}
  <2>1. \E n \in Nodes : s = <<n>> /\ \A k : Leads(held, m, k) <=> k = n
    BY <1>6 DEF Successors, Leads, Nodes, Automatic, Human
  <2> QED  BY <2>1, OneList
<1> QED  BY <1>1, <1>2, <1>3, <1>4, <1>5, <1>6 DEF Places, Nodes, Automatic, Human
-----------------------------------------------------------------------------
(* The walk stands at a queue and the set of what it took from it.  Each   *)
(* step leaves less to do: fewer places not yet taken, four times over, or *)
(* as many and a shorter queue.  So the recursion of Walks has a solution. *)

Stands == Seq(Places) \X SUBSET Places

Left(at) == 4 * Cardinality(Places \ at[2]) + Len(at[1])

\* What the first of the queue adds to it, and where the walk stands then.
Added(held, at)  == IF Head(at[1]) \in at[2] THEN <<>> ELSE Successors(held)[Head(at[1])]
Onward(held, at) == <<Tail(at[1]) \o Added(held, at), at[2] \cup {Head(at[1])}>>

\* The equation of the recursion.
Goes(W, held, at) ==
    LET first == Head(at[1])
        next  == Successors(held)[first]
    IN  IF at[1] = <<>> THEN <<>>
        ELSE IF first \in at[2] THEN W[<<Tail(at[1]), at[2]>>]
        ELSE next \o W[<<Tail(at[1]) \o next, at[2] \cup {first}>>]

WalkEq(W, held) == W = [at \in Stands |-> Goes(W, held, at)]

LEMMA NodesArePlaces == \A s \in Seq(Nodes) : s \in Seq(Places)
BY DEF Places

\* A step of the walk: where it leads, and that less is left.
LEMMA OnwardLess ==
  ASSUME NEW held, NEW at \in Stands, at[1] # <<>>
  PROVE  /\ Onward(held, at) \in Stands
         /\ Added(held, at) \in Seq(Nodes) /\ Len(Added(held, at)) <= 3
         /\ Left(at) \in Nat /\ Left(Onward(held, at)) \in Nat
         /\ Left(Onward(held, at)) < Left(at)
<1> DEFINE first == Head(at[1])
           rest  == Tail(at[1])
           added == Added(held, at)
           open  == Places \ at[2]
           fewer == Places \ (at[2] \cup {first})
<1>1. at[1] \in Seq(Places) /\ at[2] \in SUBSET Places  BY DEF Stands
<1>2. first \in Places /\ rest \in Seq(Places) /\ Len(rest) = Len(at[1]) - 1
      /\ Len(at[1]) \in Nat /\ Len(rest) \in Nat
  BY <1>1, HeadTailProperties
<1>3. added \in Seq(Nodes) /\ Len(added) <= 3 /\ Len(added) \in Nat
      /\ (first \in at[2] => Len(added) = 0)
  <2>1. CASE first \in at[2]  BY <2>1 DEF Added
  <2>2. CASE first \notin at[2]
    <3>1. added = Successors(held)[first]  BY <2>2 DEF Added
    <3> QED  BY <1>2, <2>2, <3>1, SuccessorList
  <2> QED  BY <2>1, <2>2
<1>4. added \in Seq(Places)  BY <1>3, NodesArePlaces
<1>5. rest \o added \in Seq(Places) /\ Len(rest \o added) = Len(rest) + Len(added)
  BY <1>2, <1>4, ConcatProperties
<1>6. Onward(held, at) = <<rest \o added, at[2] \cup {first}>>  BY DEF Onward
<1>7. IsFiniteSet(open) /\ Cardinality(open) \in Nat
  BY PlacesFinite, FS_Subset, FS_CardinalityType
<1>8. Cardinality(fewer) \in Nat
      /\ (first \notin at[2] => Cardinality(fewer) = Cardinality(open) - 1)
      /\ (first \in at[2] => Cardinality(fewer) = Cardinality(open))
  <2>1. CASE first \in at[2]
    <3>1. fewer = open  BY <2>1
    <3> QED  BY <1>7, <2>1, <3>1
  <2>2. CASE first \notin at[2]
    <3>1. fewer = open \ {first} /\ first \in open  BY <1>2, <2>2
    <3>2. IsFiniteSet(open \ {first}) /\ Cardinality(open \ {first}) = Cardinality(open) - 1
      BY <1>7, <3>1, FS_RemoveElement
    <3>3. Cardinality(open \ {first}) \in Nat  BY <3>2, FS_CardinalityType
    <3> QED  BY <2>2, <3>1, <3>2, <3>3
  <2> QED  BY <2>1, <2>2
<1>9. Left(at) = 4 * Cardinality(open) + Len(at[1])  BY DEF Left
<1>10. Left(Onward(held, at)) = 4 * Cardinality(fewer) + Len(rest \o added)
  BY <1>6 DEF Left
<1> HIDE DEF first, rest, added, open, fewer
<1>11. Left(at) \in Nat /\ Left(Onward(held, at)) \in Nat
       /\ Left(Onward(held, at)) < Left(at)
  <2> DEFINE m == Cardinality(open)
             n == Cardinality(fewer)
             a == Len(added)
             r == Len(rest)
             q == Len(at[1])
  <2>1. m \in Nat /\ n \in Nat /\ a \in Nat /\ r \in Nat /\ q \in Nat
    BY <1>2, <1>3, <1>7, <1>8
  <2>2. r = q - 1 /\ a <= 3  BY <1>2, <1>3
  <2>3. Left(at) = 4 * m + q /\ Left(Onward(held, at)) = 4 * n + (r + a)
    BY <1>5, <1>9, <1>10
  <2>4. (n = m /\ a = 0) \/ n = m - 1  BY <1>3, <1>8
  <2> HIDE DEF m, n, a, r, q
  <2> QED  BY <2>1, <2>2, <2>3, <2>4
<1>12. Onward(held, at) \in Stands
  <2> DEFINE queue == rest \o added
             gone  == at[2] \cup {first}
  <2>1. queue \in Seq(Places) /\ gone \in SUBSET Places  BY <1>1, <1>2, <1>5
  <2>2. Onward(held, at) = <<queue, gone>>  BY <1>6
  <2> HIDE DEF queue, gone
  <2> QED  BY <2>1, <2>2 DEF Stands
<1> QED  BY <1>3, <1>11, <1>12 DEF added

LEMMA LeftIsNat ==
  ASSUME NEW at \in Stands
  PROVE  Left(at) \in Nat
<1>1. at[1] \in Seq(Places) /\ at[2] \in SUBSET Places  BY DEF Stands
<1>2. Len(at[1]) \in Nat  BY <1>1
<1>3. Cardinality(Places \ at[2]) \in Nat
  BY PlacesFinite, FS_Subset, FS_CardinalityType
<1> QED  BY <1>2, <1>3 DEF Left

\* Of stands, one with least left.
LEMMA LeastStand ==
  ASSUME NEW S \in SUBSET Stands, S # {}
  PROVE  \E x \in S : \A y \in S : Left(x) <= Left(y)
<1> DEFINE f == [x \in S |-> Left(x)]
<1>1. f \in [S -> Nat]  BY LeftIsNat
<1>2. PICK x \in S : \A y \in S : f[x] <= f[y]  BY <1>1, LeastBy
<1> QED  BY <1>2

\* The equation as one step of the walk.
LEMMA GoesOnward ==
  ASSUME NEW W, NEW held, NEW at \in Stands, at[1] # <<>>,
         W[Onward(held, at)] \in Seq(Nodes)
  PROVE  Goes(W, held, at) = Added(held, at) \o W[Onward(held, at)]
<1> DEFINE first == Head(at[1])
           rest  == Tail(at[1])
           next  == Successors(held)[first]
<1>1. at[1] \in Seq(Places) /\ at[2] \in SUBSET Places  BY DEF Stands
<1>2. rest \in Seq(Places)  BY <1>1, HeadTailProperties
<1>3. CASE first \in at[2]
  <2>1. Added(held, at) = <<>> /\ at[2] \cup {first} = at[2]  BY <1>3 DEF Added
  <2>2. rest \o <<>> = rest  BY <1>2, ConcatEmptySeq
  <2>3. Onward(held, at) = <<rest, at[2]>>  BY <2>1, <2>2 DEF Onward
  <2>4. Goes(W, held, at) = W[<<rest, at[2]>>]  BY <1>3 DEF Goes
  <2>5. <<>> \o W[Onward(held, at)] = W[Onward(held, at)]  BY ConcatEmptySeq
  <2> QED  BY <2>1, <2>3, <2>4, <2>5
<1>4. CASE first \notin at[2]
  <2>1. Added(held, at) = next  BY <1>4 DEF Added
  <2>2. Onward(held, at) = <<rest \o next, at[2] \cup {first}>>  BY <2>1 DEF Onward
  <2>3. Goes(W, held, at) = next \o W[<<rest \o next, at[2] \cup {first}>>]
    BY <1>4 DEF Goes
  <2> QED  BY <2>1, <2>2, <2>3
<1> QED  BY <1>3, <1>4
-----------------------------------------------------------------------------
(* The recursion has a solution: one that is right where less than k is    *)
(* left exists for every k, two of them agree where both are right, and    *)
(* together they make one that is right everywhere.                        *)

Partial(held, k) ==
    {W \in [Stands -> Seq(Nodes)] :
        \A at \in Stands : Left(at) < k => W[at] = Goes(W, held, at)}

LEMMA PartialAgree ==
  ASSUME NEW held, NEW k, NEW l, NEW V \in Partial(held, k), NEW W \in Partial(held, l),
         NEW at \in Stands, Left(at) < k, Left(at) < l, k \in Nat, l \in Nat
  PROVE  V[at] = W[at]
<1> DEFINE bad == {x \in Stands : Left(x) < k /\ Left(x) < l /\ V[x] # W[x]}
<1>1. SUFFICES ASSUME bad # {}  PROVE FALSE  OBVIOUS
<1>2. PICK x \in bad : \A y \in bad : Left(x) <= Left(y)
  <2>1. bad \in SUBSET Stands  OBVIOUS
  <2> HIDE DEF bad
  <2> QED  BY <1>1, <2>1, LeastStand
<1>3. V[x] = Goes(V, held, x) /\ W[x] = Goes(W, held, x)  BY DEF Partial
<1>4. CASE x[1] = <<>>  BY <1>2, <1>3, <1>4 DEF Goes
<1>5. CASE x[1] # <<>>
  <2> DEFINE on == Onward(held, x)
  <2>1. on \in Stands /\ Left(x) \in Nat /\ Left(on) \in Nat /\ Left(on) < Left(x)
    BY <1>5, OnwardLess
  <2>2. V[on] \in Seq(Nodes) /\ W[on] \in Seq(Nodes)  BY <2>1 DEF Partial
  <2>3. Goes(V, held, x) = Added(held, x) \o V[on] /\ Goes(W, held, x) = Added(held, x) \o W[on]
    BY <1>5, <2>2, GoesOnward
  <2>4. Left(on) < k /\ Left(on) < l  BY <2>1
  <2>5. on \notin bad  BY <1>2, <2>1
  <2>6. V[on] = W[on]  BY <2>1, <2>4, <2>5
  <2> QED  BY <1>2, <1>3, <2>3, <2>6
<1> QED  BY <1>4, <1>5

LEMMA PartialExists ==
  ASSUME NEW held
  PROVE  \A k \in Nat : Partial(held, k) # {}
<1> DEFINE bad == {k \in Nat : Partial(held, k) = {}}
<1>1. SUFFICES ASSUME bad # {}  PROVE FALSE  OBVIOUS
<1>2. PICK k \in bad : \A m \in bad : k <= m
  <2>1. bad \in SUBSET Nat  OBVIOUS
  <2> HIDE DEF bad
  <2> QED  BY <1>1, <2>1, LeastNumber
<1>3. k # 0
  <2> DEFINE W == [at \in Stands |-> <<>>]
  <2>1. W \in [Stands -> Seq(Nodes)]  OBVIOUS
  <2>2. \A at \in Stands : ~ Left(at) < 0  BY LeftIsNat
  <2>3. W \in Partial(held, 0)  BY <2>1, <2>2 DEF Partial
  <2> QED  BY <2>3
<1>4. k \in Nat /\ k - 1 \in Nat /\ k - 1 \notin bad  BY <1>2, <1>3
<1>5. PICK W : W \in Partial(held, k - 1)  BY <1>4
<1> DEFINE V == [at \in Stands |-> Goes(W, held, at)]
<1>6. \A at \in Stands : at[1] = <<>> => Goes(W, held, at) = <<>>  BY DEF Goes
<1>7. \A at \in Stands : at[1] # <<>> =>
         /\ Goes(W, held, at) \in Seq(Nodes)
         /\ Left(at) < k => Goes(V, held, at) = Goes(W, held, at)
  <2> TAKE at \in Stands
  <2> HAVE at[1] # <<>>
  <2> DEFINE on == Onward(held, at)
  <2>1. on \in Stands /\ Added(held, at) \in Seq(Nodes)
        /\ Left(at) \in Nat /\ Left(on) \in Nat /\ Left(on) < Left(at)
    BY OnwardLess
  <2>2. W[on] \in Seq(Nodes)  BY <1>5, <2>1 DEF Partial
  <2>3. Goes(W, held, at) = Added(held, at) \o W[on]  BY <2>2, GoesOnward
  <2>4. Added(held, at) \o W[on] \in Seq(Nodes)  BY <2>1, <2>2, ConcatProperties
  <2>5. ASSUME Left(at) < k  PROVE Goes(V, held, at) = Goes(W, held, at)
    <3>1. Left(on) < k - 1  BY <1>4, <2>1, <2>5
    <3>2. W[on] = Goes(W, held, on)  BY <1>5, <2>1, <3>1 DEF Partial
    <3>3. V[on] = W[on]  BY <2>1, <3>2
    <3> HIDE DEF V
    <3>4. Goes(V, held, at) = Added(held, at) \o V[on]  BY <2>2, <3>3, GoesOnward
    <3> QED  BY <2>3, <3>3, <3>4
  <2> HIDE DEF V
  <2> QED  BY <2>3, <2>4, <2>5
<1>8. V \in [Stands -> Seq(Nodes)]
  <2>0. <<>> \in Seq(Nodes)  OBVIOUS
  <2> HIDE DEF V
  <2>1. \A at \in Stands : Goes(W, held, at) \in Seq(Nodes)  BY <1>6, <1>7, <2>0
  <2> QED  BY <2>1 DEF V
<1>9. \A at \in Stands : Left(at) < k => V[at] = Goes(V, held, at)
  <2> TAKE at \in Stands
  <2> HAVE Left(at) < k
  <2>1. V[at] = Goes(W, held, at)  OBVIOUS
  <2> HIDE DEF V
  <2>2. at[1] = <<>> => Goes(V, held, at) = <<>>  BY DEF Goes
  <2> QED  BY <1>6, <1>7, <2>1, <2>2
<1>10. V \in Partial(held, k)
  <2> HIDE DEF V
  <2> QED  BY <1>8, <1>9 DEF Partial
<1> QED  BY <1>2, <1>10

LEMMA WalkExists ==
  ASSUME NEW held
  PROVE  \E W : WalkEq(W, held)
<1> DEFINE Right(k) == CHOOSE V : V \in Partial(held, k)
           W == [at \in Stands |-> Right(Left(at) + 1)[at]]
<1>1. \A k \in Nat : Right(k) \in Partial(held, k)
  <2> TAKE k \in Nat
  <2>1. \E V : V \in Partial(held, k)  BY PartialExists
  <2> QED  BY <2>1
<1> HIDE DEF Right
<1>2. \A k \in Nat, at \in Stands : Left(at) < k => W[at] = Right(k)[at]
  <2> TAKE k \in Nat, at \in Stands
  <2> HAVE Left(at) < k
  <2>1. Left(at) \in Nat /\ Left(at) + 1 \in Nat /\ Left(at) < Left(at) + 1
    BY LeftIsNat
  <2>2. Right(k) \in Partial(held, k) /\ Right(Left(at) + 1) \in Partial(held, Left(at) + 1)
    BY <1>1, <2>1
  <2>3. Right(Left(at) + 1)[at] = Right(k)[at]  BY <2>1, <2>2, PartialAgree
  <2> QED  BY <2>3
<1>3. \A at \in Stands : W[at] = Goes(W, held, at)
  <2> TAKE at \in Stands
  <2> DEFINE k == Left(at) + 1
             on == Onward(held, at)
  <2>1. Left(at) \in Nat /\ k \in Nat /\ Left(at) < k  BY LeftIsNat
  <2>2. Right(k) \in Partial(held, k)  BY <1>1, <2>1
  <2>3. W[at] = Right(k)[at]  BY <1>2, <2>1
  <2>4. Right(k)[at] = Goes(Right(k), held, at)  BY <2>1, <2>2 DEF Partial
  <2> HIDE DEF W
  <2>5. CASE at[1] = <<>>  BY <2>3, <2>4, <2>5 DEF Goes
  <2>6. CASE at[1] # <<>>
    <3>1. on \in Stands /\ Left(on) \in Nat /\ Left(on) < Left(at)  BY <2>6, OnwardLess
    <3>2. Left(on) < k  BY <2>1, <3>1
    <3>3. W[on] = Right(k)[on]  BY <1>2, <2>1, <3>1, <3>2
    <3>4. Right(k)[on] \in Seq(Nodes)  BY <2>2, <3>1 DEF Partial
    <3>5. Goes(W, held, at) = Added(held, at) \o W[on]
      BY <2>6, <3>3, <3>4, GoesOnward
    <3>6. Goes(Right(k), held, at) = Added(held, at) \o Right(k)[on]
      BY <2>6, <3>4, GoesOnward
    <3> QED  BY <2>3, <2>4, <3>3, <3>5, <3>6
  <2> QED  BY <2>5, <2>6
<1>4. W = [at \in Stands |-> W[at]]  OBVIOUS
<1>5. WalkEq(W, held)
  <2> HIDE DEF W
  <2>1. [at \in Stands |-> W[at]] = [at \in Stands |-> Goes(W, held, at)]  BY <1>3
  <2> QED  BY <1>4, <2>1, Zenon DEF WalkEq
<1> QED  BY <1>5

\* What the walk of a set of conditions is.
LEMMA WalkIs ==
  ASSUME NEW held \in SUBSET Conditions
  PROVE  \E W : WalkEq(W, held) /\ Walks[held] = W[<< <<"start">>, {} >>]
<1> DEFINE W == CHOOSE V : WalkEq(V, held)
<1>1. Walks[held] = W[<< <<"start">>, {} >>]  BY DEF Walks, WalkEq, Stands, Goes
<1>2. WalkEq(W, held)  BY WalkExists, Zenon
<1> HIDE DEF W
<1> QED  BY <1>1, <1>2
-----------------------------------------------------------------------------
(* What the walk examines from a stand, and in which order. *)

\* n is in the queue, or examined before the i-th target.
Earlier(queue, r, i, n) == Listed(queue, n) \/ \E k \in 1 .. i - 1 : r[k] = n

(* Every target is led to from what came before it; where images are, the  *)
(* record comes after the media; and what a place that was not taken yet   *)
(* leads to is examined.                                                   *)
WellWalked(held, at, r) ==
    /\ r \in Seq(Nodes)
    /\ \A i \in 1 .. Len(r) : \E n : Leads(held, n, r[i]) /\ Earlier(at[1], r, i, n)
    /\ "images" \in held =>
          \A i \in 1 .. Len(r) : r[i] = "metadata" => Earlier(at[1], r, i, "media")
    /\ \A m, n : /\ m \notin at[2] /\ (Listed(at[1], m) \/ Listed(r, m))
                 /\ Leads(held, m, n)
                 => Listed(r, n)

LEMMA QueueSplit ==
  ASSUME NEW q \in Seq(Places), q # <<>>
  PROVE  \A n : Listed(q, n) <=> n = Head(q) \/ Listed(Tail(q), n)
<1>1. /\ Tail(q) \in Seq(Places) /\ Len(Tail(q)) = Len(q) - 1
      /\ \A i \in 1 .. Len(Tail(q)) : Tail(q)[i] = q[i + 1]
  BY HeadTailProperties
<1>2. Head(q) = q[1] /\ Len(q) \in Nat /\ Len(q) > 0
  BY EmptySeq
<1> DEFINE rest == Tail(q)
<1> HIDE DEF rest
<1> TAKE n
<1>3. ASSUME Listed(rest, n)  PROVE Listed(q, n)
  <2>1. PICK i \in 1 .. Len(rest) : rest[i] = n  BY <1>3 DEF Listed
  <2>2. i + 1 \in 1 .. Len(q) /\ q[i + 1] = n  BY <1>1, <1>2, <2>1 DEF rest
  <2> QED  BY <2>2 DEF Listed
<1>4. Listed(q, Head(q))
  <2>1. 1 \in 1 .. Len(q)  BY <1>2
  <2> QED  BY <1>2, <2>1 DEF Listed
<1>5. ASSUME Listed(q, n), n # Head(q)  PROVE Listed(rest, n)
  <2>1. PICK i \in 1 .. Len(q) : q[i] = n  BY <1>5 DEF Listed
  <2>2. i # 1  BY <1>2, <1>5, <2>1
  <2>3. i - 1 \in 1 .. Len(rest) /\ (i - 1) + 1 = i  BY <1>1, <1>2, <2>1, <2>2 DEF rest
  <2>4. rest[i - 1] = n  BY <1>1, <2>1, <2>3 DEF rest
  <2> QED  BY <2>3, <2>4 DEF Listed
<1> QED  BY <1>3, <1>4, <1>5 DEF rest

LEMMA EarlierOnward ==
  ASSUME NEW q, NEW rest \in Seq(Places), NEW a \in Seq(Places), NEW r \in Seq(Places),
         \A n : Listed(rest, n) => Listed(q, n),
         NEW i \in 1 .. Len(r), NEW n, Earlier(rest \o a, r, i, n)
  PROVE  Earlier(q, a \o r, Len(a) + i, n)
<1> DEFINE ar == a \o r
<1>1. /\ Len(ar) = Len(a) + Len(r)
      /\ \A k \in 1 .. Len(a) : ar[k] = a[k]
      /\ \A k \in 1 .. Len(r) : ar[Len(a) + k] = r[k]
  BY JoinList
<1>2. Len(a) \in Nat /\ Len(r) \in Nat  OBVIOUS
<1> HIDE DEF ar
<1>3. CASE Listed(rest, n)  BY <1>3 DEF Earlier
<1>4. CASE Listed(a, n)
  <2>1. PICK k \in 1 .. Len(a) : a[k] = n  BY <1>4 DEF Listed
  <2>2. k \in 1 .. (Len(a) + i) - 1 /\ ar[k] = n  BY <1>1, <1>2, <2>1
  <2> QED  BY <2>2 DEF Earlier, ar
<1>5. CASE \E k \in 1 .. i - 1 : r[k] = n
  <2>1. PICK k \in 1 .. i - 1 : r[k] = n  BY <1>5
  <2>2. k \in 1 .. Len(r) /\ Len(a) + k \in 1 .. (Len(a) + i) - 1  BY <1>2, <2>1
  <2>3. ar[Len(a) + k] = n  BY <1>1, <2>1, <2>2
  <2> QED  BY <2>2, <2>3 DEF Earlier, ar
<1>6. Listed(rest \o a, n) <=> Listed(rest, n) \/ Listed(a, n)  BY JoinList
<1> QED  BY <1>3, <1>4, <1>5, <1>6 DEF Earlier

LEMMA WellWalkedOnward ==
  ASSUME NEW held, NEW at \in Stands, at[1] # <<>>, NEW r,
         WellWalked(held, Onward(held, at), r)
  PROVE  WellWalked(held, at, Added(held, at) \o r)
<1> DEFINE q     == at[1]
           gone  == at[2]
           first == Head(q)
           rest  == Tail(q)
           a     == Added(held, at)
           on    == Onward(held, at)
           ar    == a \o r
<1>1. q \in Seq(Places) /\ q # <<>> /\ gone \in SUBSET Places  BY DEF Stands
<1>2. first \in Places /\ rest \in Seq(Places)  BY <1>1, HeadTailProperties
<1>3. \A n : Listed(q, n) <=> n = first \/ Listed(rest, n)  BY <1>1, QueueSplit
<1>4. a \in Seq(Nodes) /\ a \in Seq(Places)  BY OnwardLess, NodesArePlaces
<1>5. r \in Seq(Nodes) /\ r \in Seq(Places)  BY NodesArePlaces DEF WellWalked
<1>6. on[1] = rest \o a /\ on[2] = gone \cup {first}  BY DEF Onward
<1>7. /\ first \in gone => a = <<>>
      /\ first \notin gone => \A n : Listed(a, n) <=> Leads(held, first, n)
  BY <1>2, SuccessorList DEF Added
<1>8. \A n : Listed(a, n) => Leads(held, first, n)
  BY <1>7 DEF Listed
<1>9. /\ ar \in Seq(Nodes) /\ Len(ar) = Len(a) + Len(r)
      /\ \A i \in 1 .. Len(ar) :
            \/ i \in 1 .. Len(a) /\ ar[i] = a[i]
            \/ i - Len(a) \in 1 .. Len(r) /\ ar[i] = r[i - Len(a)]
      /\ \A n : Listed(ar, n) <=> Listed(a, n) \/ Listed(r, n)
  BY <1>4, <1>5, JoinList
<1>10. \A n : Listed(rest \o a, n) <=> Listed(rest, n) \/ Listed(a, n)
  BY <1>2, <1>4, JoinList
<1>11. Len(a) \in Nat /\ Len(r) \in Nat  BY <1>4, <1>5
<1> HIDE DEF q, gone, first, rest, a, on, ar
<1>12. ASSUME NEW i \in 1 .. Len(r), NEW n, Earlier(on[1], r, i, n)
       PROVE  Earlier(q, ar, Len(a) + i, n)
  <2>1. Earlier(rest \o a, r, i, n)  BY <1>6, <1>12
  <2> QED  BY <1>2, <1>3, <1>4, <1>5, <2>1, EarlierOnward DEF ar
<1>13. \A i \in 1 .. Len(ar) : \E n : Leads(held, n, ar[i]) /\ Earlier(q, ar, i, n)
  <2> TAKE i \in 1 .. Len(ar)
  <2>1. CASE i \in 1 .. Len(a) /\ ar[i] = a[i]
    <3>1. Listed(a, ar[i])  BY <2>1 DEF Listed
    <3>2. Leads(held, first, ar[i])  BY <1>8, <3>1
    <3>3. Earlier(q, ar, i, first)  BY <1>3 DEF Earlier
    <3> QED  BY <3>2, <3>3
  <2>2. CASE i - Len(a) \in 1 .. Len(r) /\ ar[i] = r[i - Len(a)]
    <3> DEFINE j == i - Len(a)
    <3>1. Len(a) + j = i  BY <1>11
    <3>2. PICK n : Leads(held, n, r[j]) /\ Earlier(on[1], r, j, n)
      BY <2>2 DEF WellWalked, on
    <3>3. Earlier(q, ar, Len(a) + j, n)  BY <1>12, <2>2, <3>2
    <3> QED  BY <2>2, <3>1, <3>2, <3>3
  <2> QED  BY <1>9, <2>1, <2>2
<1>14. ASSUME "images" \in held, NEW i \in 1 .. Len(ar), ar[i] = "metadata"
       PROVE  Earlier(q, ar, i, "media")
  <2>1. CASE i \in 1 .. Len(a) /\ ar[i] = a[i]
    <3>1. Listed(a, "metadata")  BY <1>14, <2>1 DEF Listed
    <3>2. first \in {"classification", "media"}  BY <1>8, <3>1 DEF Leads
    <3>3. CASE first = "media"  BY <1>3, <3>3 DEF Earlier
    <3>4. CASE first = "classification"
      <4>1. first \notin gone  BY <1>7, <3>1 DEF Listed
      <4>2. a = Inspection(held)
        <5>1. a = Successors(held)[first]  BY <4>1 DEF a, Added, first, gone, q
        <5>2. "classification" \in Places  BY DEF Places, Nodes, Automatic
        <5> QED  BY <3>4, <5>1, <5>2 DEF Successors
      <4>3. Len(a) > 0 /\ a[1] = "media"  BY <1>14, <4>2, InspectionList
      <4>4. i # 1  BY <1>14, <2>1, <4>3
      <4>5. 1 \in 1 .. Len(a) /\ 1 \in 1 .. Len(ar) /\ 1 \in 1 .. i - 1
            /\ 1 - Len(a) \notin 1 .. Len(r)
        BY <1>9, <1>11, <2>1, <4>3, <4>4
      <4>6. ar[1] = "media"  BY <1>9, <4>3, <4>5
      <4> QED  BY <4>5, <4>6 DEF Earlier
    <3> QED  BY <3>2, <3>3, <3>4
  <2>2. CASE i - Len(a) \in 1 .. Len(r) /\ ar[i] = r[i - Len(a)]
    <3> DEFINE j == i - Len(a)
    <3>1. Len(a) + j = i  BY <1>11
    <3>2. Earlier(on[1], r, j, "media")  BY <1>14, <2>2 DEF WellWalked, on
    <3>3. Earlier(q, ar, Len(a) + j, "media")  BY <1>12, <2>2, <3>2
    <3> QED  BY <3>1, <3>3
  <2> QED  BY <1>9, <2>1, <2>2
<1>15. ASSUME NEW m, NEW n, m \notin gone, Listed(q, m) \/ Listed(ar, m), Leads(held, m, n)
       PROVE  Listed(ar, n)
  <2>1. CASE m = first  BY <1>7, <1>9, <1>15, <2>1
  <2>2. CASE m # first
    <3>1. m \notin on[2]  BY <1>6, <1>15, <2>2
    <3>2. Listed(on[1], m) \/ Listed(r, m)  BY <1>3, <1>6, <1>9, <1>10, <1>15, <2>2
    <3>3. Listed(r, n)  BY <1>15, <3>1, <3>2 DEF WellWalked, on
    <3> QED  BY <1>9, <3>3
  <2> QED  BY <2>1, <2>2
<1>16. ar \in Seq(Nodes)  BY <1>9
<1> QED  BY <1>13, <1>14, <1>15, <1>16 DEF WellWalked, q, gone, ar, a

LEMMA WellWalkedAll ==
  ASSUME NEW held, NEW W, WalkEq(W, held), NEW at \in Stands
  PROVE  WellWalked(held, at, W[at])
<1> DEFINE bad == {x \in Stands : ~ WellWalked(held, x, W[x])}
<1>1. SUFFICES ASSUME bad # {}  PROVE FALSE  OBVIOUS
<1>2. PICK x \in bad : \A y \in bad : Left(x) <= Left(y)
  <2>1. bad \in SUBSET Stands  OBVIOUS
  <2> HIDE DEF bad
  <2> QED  BY <1>1, <2>1, LeastStand
<1>3. W[x] = Goes(W, held, x)  BY DEF WalkEq
<1>4. CASE x[1] = <<>>
  <2>1. W[x] = <<>>  BY <1>3, <1>4 DEF Goes
  <2>2. WellWalked(held, x, W[x])  BY <1>4, <2>1 DEF WellWalked, Listed
  <2> QED  BY <2>2
<1>5. CASE x[1] # <<>>
  <2> DEFINE on == Onward(held, x)
  <2>1. on \in Stands /\ Left(x) \in Nat /\ Left(on) \in Nat /\ Left(on) < Left(x)
    BY <1>5, OnwardLess
  <2>2. WellWalked(held, on, W[on])
    <3>1. on \notin bad  BY <1>2, <2>1
    <3> QED  BY <2>1, <3>1
  <2>3. W[x] = Added(held, x) \o W[on]
    <3>1. W[on] \in Seq(Nodes)  BY <2>2 DEF WellWalked
    <3> QED  BY <1>3, <1>5, <3>1, GoesOnward
  <2>4. WellWalked(held, x, Added(held, x) \o W[on])  BY <1>5, <2>2, WellWalkedOnward
  <2> QED  BY <2>3, <2>4
<1> QED  BY <1>4, <1>5
-----------------------------------------------------------------------------
(* The walk of a job. *)

HeldIn(j) == {when \in Conditions : Holds(when, j)}

\* n is examined before the i-th target of the walk.
Passed(w, i, n) == \E k \in 1 .. i - 1 : w[k] = n

LEMMA WalkOfJob ==
  ASSUME NEW j
  PROVE  /\ Walk(j) \in Seq(Nodes)
         /\ \A i \in 1 .. Len(Walk(j)) :
               Walk(j)[i] # "ingest" =>
                  \E n : Leads(HeldIn(j), n, Walk(j)[i]) /\ Passed(Walk(j), i, n)
         /\ "images" \in HeldIn(j) =>
               \A i \in 1 .. Len(Walk(j)) :
                  Walk(j)[i] = "metadata" => Passed(Walk(j), i, "media")
         /\ Listed(Walk(j), "ingest")
         /\ \A m, n : Listed(Walk(j), m) /\ Leads(HeldIn(j), m, n) => Listed(Walk(j), n)
<1> DEFINE held == HeldIn(j)
           at   == << <<"start">>, {} >>
           w    == Walk(j)
<1>1. held \in SUBSET Conditions /\ w = Walks[held]  BY DEF HeldIn, Walk
<1>2. PICK W : WalkEq(W, held) /\ w = W[at]
  <2> HIDE DEF w, held, at
  <2> QED  BY <1>1, WalkIs DEF at
<1>3. at \in Stands
  <2>1. <<"start">> \in Seq(Places) /\ {} \in SUBSET Places  BY DEF Places
  <2> QED  BY <2>1 DEF Stands
<1>4. WellWalked(held, at, w)
  <2> HIDE DEF w, held, at
  <2> QED  BY <1>2, <1>3, WellWalkedAll
<1>5. at[1] = <<"start">> /\ at[2] = {}  OBVIOUS
<1>6. \A n : Listed(<<"start">>, n) <=> n = "start"  BY DEF Listed
<1> HIDE DEF held, at, w
<1>7. \A i, n : Earlier(at[1], w, i, n) <=> n = "start" \/ Passed(w, i, n)
  BY <1>5, <1>6 DEF Earlier, Passed
<1>8. \A n : Leads(held, "start", n) <=> n = "ingest"  BY DEF Leads
<1>9. \A i \in 1 .. Len(w) :
         w[i] # "ingest" => \E n : Leads(held, n, w[i]) /\ Passed(w, i, n)
  <2> TAKE i \in 1 .. Len(w)
  <2>1. PICK n : Leads(held, n, w[i]) /\ Earlier(at[1], w, i, n)
    BY <1>4 DEF WellWalked
  <2> QED  BY <1>7, <1>8, <2>1
<1>10. "images" \in held =>
          \A i \in 1 .. Len(w) : w[i] = "metadata" => Passed(w, i, "media")
  BY <1>4, <1>7 DEF WellWalked
<1>11. Listed(w, "ingest")  BY <1>4, <1>5, <1>6, <1>8 DEF WellWalked
<1>12. \A m, n : Listed(w, m) /\ Leads(held, m, n) => Listed(w, n)
  BY <1>4, <1>5 DEF WellWalked
<1>13. w \in Seq(Nodes)  BY <1>4 DEF WellWalked
<1> QED  BY <1>9, <1>10, <1>11, <1>12, <1>13 DEF held, w

\* Which nodes may stand between the material and a node.
Before(n) ==
    CASE n = "ingest" -> {}
      [] n = "dmp" -> {"ingest"}
      [] n = "declaration" -> {"ingest", "dmp"}
      [] n = "classification" -> {"ingest", "dmp", "declaration", "confirm_declaration"}
      [] n \in {"media", "redaction"} ->
            {"ingest", "dmp", "declaration", "confirm_declaration", "classification"}
      [] n = "metadata" ->
            {"ingest", "dmp", "declaration", "confirm_declaration", "classification", "media"}
      [] n = "documentation" ->
            {"ingest", "dmp", "declaration", "confirm_declaration", "classification", "media",
             "metadata"}
      [] n = "validation" ->
            {"ingest", "dmp", "declaration", "confirm_declaration", "classification", "media",
             "metadata", "documentation"}
      [] n = "repository" ->
            {"ingest", "dmp", "declaration", "confirm_declaration", "classification", "media",
             "metadata", "documentation", "validation"}

LEMMA PassedOn ==
  ASSUME NEW w \in Seq(Nodes), NEW i \in 1 .. Len(w), NEW m, Passed(w, i, m)
  PROVE  \E k \in 1 .. Len(w) : /\ k \in 1 .. i - 1 /\ w[k] = m
                                /\ \A n : Passed(w, k, n) => Passed(w, i, n)
<1>1. PICK k \in 1 .. i - 1 : w[k] = m  BY DEF Passed
<1>2. k \in 1 .. Len(w) /\ 1 .. k - 1 \subseteq 1 .. i - 1  OBVIOUS
<1> QED  BY <1>1, <1>2 DEF Passed

\* The walk comes to a node after everything before it that it comes to.
LEMMA WalkInOrder ==
  ASSUME NEW j, NEW i \in 1 .. Len(Walk(j)), Walk(j)[i] \in Automatic,
         NEW a \in Before(Walk(j)[i]), Listed(Walk(j), a)
  PROVE  Passed(Walk(j), i, a)
<1> DEFINE w    == Walk(j)
           held == HeldIn(j)
           Done(n) == \A k \in 1 .. Len(w) : w[k] = n =>
                         \A b \in Before(n) : Listed(w, b) => Passed(w, k, b)
<1>0. w \in Seq(Nodes)  BY WalkOfJob
<1>1. ASSUME NEW k \in 1 .. Len(w), w[k] # "ingest"
      PROVE  \E n : /\ Leads(held, n, w[k]) /\ Passed(w, k, n)
                    /\ \E l \in 1 .. Len(w) : /\ w[l] = n
                                              /\ \A b : Passed(w, l, b) => Passed(w, k, b)
  <2>1. PICK n : Leads(held, n, w[k]) /\ Passed(w, k, n)  BY <1>1, WalkOfJob
  <2>2. PICK l \in 1 .. Len(w) : w[l] = n /\ \A b : Passed(w, l, b) => Passed(w, k, b)
    <3> HIDE DEF w
    <3> QED  BY <1>0, <2>1, PassedOn
  <2> QED  BY <2>1, <2>2
<1>2. ASSUME NEW k \in 1 .. Len(w), w[k] = "metadata", Listed(w, "media")
      PROVE  Passed(w, k, "media")
  <2>1. PICK l \in 1 .. Len(w) : w[l] = "media"  BY <1>2 DEF Listed
  <2>2. PICK n : Leads(held, n, "media")  BY <1>1, <2>1
  <2>3. "images" \in held  BY <2>2 DEF Leads
  <2> QED  BY <1>2, <2>3, WalkOfJob
<1> HIDE DEF w, held
<1>3. Done("ingest")  BY DEF Before
<1>4. Done("dmp")  BY <1>1 DEF Before, Leads
<1>5. Done("declaration")  BY <1>1, <1>4 DEF Before, Leads
<1>6. \A k \in 1 .. Len(w) : w[k] = "confirm_declaration" =>
         \A b \in {"ingest", "dmp", "declaration"} : Listed(w, b) => Passed(w, k, b)
  BY <1>1, <1>5 DEF Before, Leads
<1>7. Done("classification")  BY <1>1, <1>6 DEF Before, Leads
<1>8. Done("media")  BY <1>1, <1>7 DEF Before, Leads
<1>9. Done("redaction")  BY <1>1, <1>7 DEF Before, Leads
<1>10. Done("metadata")  BY <1>1, <1>2, <1>7, <1>8 DEF Before, Leads
<1>11. Done("documentation")  BY <1>1, <1>10 DEF Before, Leads
<1>12. Done("validation")  BY <1>1, <1>11 DEF Before, Leads
<1>13. Done("repository")  BY <1>1, <1>12 DEF Before, Leads
<1>14. Done(w[i])
  <2>1. w[i] \in Automatic  BY DEF w
  <2> HIDE DEF Done
  <2> QED  BY <1>3, <1>4, <1>5, <1>7, <1>8, <1>9, <1>10, <1>11, <1>12, <1>13, <2>1 DEF Automatic
<1> QED  BY <1>14 DEF w

\* What the first wanted of a list is.
LEMMA FirstInIs ==
  ASSUME NEW s \in Seq(Nodes), NEW wanted
  PROVE  \/ FirstIn(s, wanted) = "none" /\ \A n : Listed(s, n) => n \notin wanted
         \/ \E i \in 1 .. Len(s) : /\ FirstIn(s, wanted) = s[i] /\ s[i] \in wanted
                                   /\ s[i] \in Nodes
                                   /\ \A k \in 1 .. i - 1 : s[k] \notin wanted
<1>1. DOMAIN s = 1 .. Len(s) /\ Len(s) \in Nat  OBVIOUS
<1>2. CASE \A i \in 1 .. Len(s) : s[i] \notin wanted
  BY <1>1, <1>2 DEF FirstIn, Listed
<1>3. CASE \E i \in 1 .. Len(s) : s[i] \in wanted
  <2> DEFINE found == {i \in 1 .. Len(s) : s[i] \in wanted}
             First(i) == s[i] \in wanted /\ \A k \in 1 .. i - 1 : s[k] \notin wanted
             i0 == CHOOSE i \in DOMAIN s : First(i)
  <2>1. PICK i \in found : \A k \in found : i <= k
    <3>1. found \in SUBSET Nat /\ found # {}  BY <1>1, <1>3
    <3> HIDE DEF found
    <3> QED  BY <3>1, LeastNumber
  <2>2. First(i) /\ i \in DOMAIN s  BY <1>1, <2>1
  <2>3. FirstIn(s, wanted) = s[i0]  BY <1>1, <1>3 DEF FirstIn
  <2> HIDE DEF First
  <2>4. i0 \in DOMAIN s /\ First(i0)  BY <2>2
  <2> HIDE DEF i0
  <2>5. s[i0] \in Nodes  BY <1>1, <2>4
  <2> QED  BY <1>1, <2>3, <2>4, <2>5 DEF First
<1> QED  BY <1>2, <1>3
-----------------------------------------------------------------------------
(* The ancestors of a node: the recursion has a solution, and every one    *)
(* stays within each set that is closed against the edges.                 *)

AncestorsGo(Up, reached) ==
    LET more == reached \cup Predecessors(reached)
    IN  IF more = reached THEN reached ELSE Up[more]

UpEq(Up) == Up = [reached \in SUBSET Nodes |-> AncestorsGo(Up, reached)]

LEMMA PredecessorsAre ==
  ASSUME NEW R
  PROVE  Predecessors(R) = {m \in Nodes : \E n \in R : Leads(Conditions, m, n)}
<1>1. ASSUME NEW m \in Nodes
      PROVE  (\E i \in DOMAIN Successors(Conditions)[m] : Successors(Conditions)[m][i] \in R)
             <=> \E n \in R : Leads(Conditions, m, n)
  <2> DEFINE s == Successors(Conditions)[m]
  <2>1. s \in Seq(Nodes) /\ \A n : Listed(s, n) <=> Leads(Conditions, m, n)
    BY SuccessorList DEF Places
  <2> HIDE DEF s
  <2>2. DOMAIN s = 1 .. Len(s)  BY <2>1
  <2>3. (\E i \in 1 .. Len(s) : s[i] \in R) <=> \E n \in R : Listed(s, n)  BY DEF Listed
  <2> QED  BY <2>1, <2>2, <2>3 DEF s
<1> QED  BY <1>1 DEF Predecessors

LEMMA NodesFinite == IsFiniteSet(Nodes)
BY PlacesFinite, FS_Subset DEF Places

LEMMA UpExists == \E Up : UpEq(Up)
<1> DEFINE Closed(C) == C \in SUBSET Nodes /\ Predecessors(C) \subseteq C
           Up == [R \in SUBSET Nodes |->
                    {n \in Nodes : \A C \in SUBSET Nodes : Closed(C) /\ R \subseteq C => n \in C}]
<1>1. ASSUME NEW R \in SUBSET Nodes  PROVE Up[R] = AncestorsGo(Up, R)
  <2> DEFINE more == R \cup Predecessors(R)
  <2>1. more \in SUBSET Nodes  BY PredecessorsAre
  <2>2. CASE more = R
    <3>1. Closed(R)  BY <2>2
    <3>2. Up[R] = R  BY <3>1
    <3>3. AncestorsGo(Up, R) = R  BY <2>2 DEF AncestorsGo
    <3> QED  BY <3>2, <3>3
  <2>3. CASE more # R
    <3>1. AncestorsGo(Up, R) = Up[more]
      <4> HIDE DEF Up
      <4> QED  BY <2>3 DEF AncestorsGo
    <3>2. ASSUME NEW C \in SUBSET Nodes, Closed(C)
          PROVE  R \subseteq C <=> more \subseteq C
      <4>1. R \subseteq C => Predecessors(R) \subseteq Predecessors(C)  BY PredecessorsAre
      <4> QED  BY <3>2, <4>1
    <3> HIDE DEF Closed, more
    <3>3. Up[R] = Up[more]  BY <2>1, <3>2
    <3> QED  BY <3>1, <3>3
  <2> QED  BY <2>2, <2>3
<1>2. Up = [R \in SUBSET Nodes |-> Up[R]]  OBVIOUS
<1>3. UpEq(Up)
  <2> HIDE DEF Up
  <2>1. [R \in SUBSET Nodes |-> Up[R]] = [R \in SUBSET Nodes |-> AncestorsGo(Up, R)]
    BY <1>1
  <2> QED  BY <1>2, <2>1, Zenon DEF UpEq
<1> QED  BY <1>3

LEMMA UpWithin ==
  ASSUME NEW Up, UpEq(Up), NEW C \in SUBSET Nodes, Predecessors(C) \subseteq C,
         NEW R \in SUBSET Nodes, R \subseteq C
  PROVE  Up[R] \subseteq C
<1> DEFINE bad == {Q \in SUBSET Nodes : Q \subseteq C /\ ~ Up[Q] \subseteq C}
           f == [Q \in bad |-> Cardinality(Nodes \ Q)]
<1>1. SUFFICES ASSUME bad # {}  PROVE FALSE  OBVIOUS
<1>2. \A Q \in SUBSET Nodes : IsFiniteSet(Nodes \ Q) /\ Cardinality(Nodes \ Q) \in Nat
  BY NodesFinite, FS_Subset, FS_CardinalityType
<1>3. PICK Q \in bad : \A P \in bad : Cardinality(Nodes \ Q) <= Cardinality(Nodes \ P)
  <2>1. f \in [bad -> Nat]  BY <1>2
  <2>2. PICK Q \in bad : \A P \in bad : f[Q] <= f[P]
    <3> HIDE DEF bad, f
    <3> QED  BY <1>1, <2>1, LeastBy
  <2> QED  BY <2>2
<1> DEFINE more == Q \cup Predecessors(Q)
<1>4. more \in SUBSET Nodes /\ more \subseteq C
  <2>1. Predecessors(Q) \subseteq Predecessors(C)  BY <1>3, PredecessorsAre
  <2>2. Predecessors(C) \subseteq Nodes  BY PredecessorsAre
  <2> QED  BY <1>3, <2>1, <2>2
<1>5. Up[Q] = AncestorsGo(Up, Q)
  <2>1. Q \in SUBSET Nodes  BY <1>3
  <2> QED  BY <2>1 DEF UpEq
<1>6. CASE more = Q  BY <1>3, <1>5, <1>6 DEF AncestorsGo
<1>7. CASE more # Q
  <2>1. Up[Q] = Up[more]  BY <1>5, <1>7 DEF AncestorsGo
  <2>2. more \in bad  BY <1>3, <1>4, <2>1
  <2>3. Cardinality(Nodes \ more) < Cardinality(Nodes \ Q)
    <3>1. Nodes \ more \in SUBSET (Nodes \ Q) /\ Nodes \ more # Nodes \ Q
      BY <1>4, <1>7
    <3>2. /\ Cardinality(Nodes \ more) <= Cardinality(Nodes \ Q)
          /\ Cardinality(Nodes \ Q) # Cardinality(Nodes \ more)
      <4> DEFINE A == Nodes \ Q
                 B == Nodes \ more
      <4>1. IsFiniteSet(A) /\ B \in SUBSET A /\ A # B  BY <1>2, <1>3, <3>1
      <4> HIDE DEF A, B
      <4>2. Cardinality(B) <= Cardinality(A) /\ (Cardinality(A) = Cardinality(B) => A = B)
        BY <4>1, FS_Subset
      <4> QED  BY <4>1, <4>2 DEF A, B
    <3> HIDE DEF more
    <3> QED  BY <1>2, <1>3, <1>4, <3>2
  <2>4. Cardinality(Nodes \ Q) <= Cardinality(Nodes \ more)  BY <1>3, <2>2
  <2>5. Cardinality(Nodes \ Q) \in Nat /\ Cardinality(Nodes \ more) \in Nat
    BY <1>2, <1>3, <1>4
  <2> HIDE DEF more
  <2> QED  BY <2>3, <2>4, <2>5
<1> QED  BY <1>6, <1>7

\* The ancestors of a node that runs are among those the walk comes to before it.
LEMMA AncestorsBefore ==
  ASSUME NEW n \in Automatic
  PROVE  Ancestors[n] \subseteq Before(n)
<1> DEFINE Up == CHOOSE U : UpEq(U)
<1>1. Ancestors = [m \in Nodes |-> Up[Predecessors({m})]]
  BY DEF Ancestors, UpEq, AncestorsGo
<1>2. UpEq(Up)  BY UpExists, Zenon
<1> HIDE DEF Up
<1>3. Before(n) \in SUBSET Nodes  BY DEF Before, Nodes, Automatic, Human
<1>4. Predecessors(Before(n)) \subseteq Before(n)
  BY PredecessorsAre DEF Before, Nodes, Automatic, Human, Leads
<1>5. Predecessors({n}) \subseteq Before(n) /\ Predecessors({n}) \subseteq Nodes
  BY PredecessorsAre DEF Before, Nodes, Automatic, Human, Leads
<1>6. Up[Predecessors({n})] \subseteq Before(n)
  BY <1>2, <1>3, <1>4, <1>5, UpWithin
<1> QED  BY <1>1, <1>6 DEF Nodes
-----------------------------------------------------------------------------
(* The order of the steps. *)

\* What the engine chooses: the first that could run, everything the walk
\* comes to before it done or not to be done.
LEMMA NextNodeIs ==
  ASSUME NEW j
  PROVE  \/ NextNode(j) = "none" /\ \A n : Listed(Walk(j), n) => n \notin Takeable(j)
         \/ /\ NextNode(j) \in Takeable(j) /\ Listed(Walk(j), NextNode(j))
            /\ \A a \in Before(NextNode(j)) : Listed(Walk(j), a) => a \notin Takeable(j)
<1> DEFINE w == Walk(j)
           n == NextNode(j)
<1>1. w \in Seq(Nodes)  BY WalkOfJob
<1>2. CASE n = "none" /\ \A m : Listed(w, m) => m \notin Takeable(j)
  BY <1>2
<1>3. CASE \E i \in 1 .. Len(w) : /\ n = w[i] /\ w[i] \in Takeable(j)
                                  /\ \A k \in 1 .. i - 1 : w[k] \notin Takeable(j)
  <2>1. PICK i \in 1 .. Len(w) : /\ n = w[i] /\ w[i] \in Takeable(j)
                                 /\ \A k \in 1 .. i - 1 : w[k] \notin Takeable(j)
    BY <1>3
  <2>2. Listed(w, n)  BY <2>1 DEF Listed
  <2>3. w[i] \in Automatic  BY <2>1 DEF Takeable
  <2>4. ASSUME NEW a \in Before(n), Listed(w, a)  PROVE a \notin Takeable(j)
    <3>1. a \in Before(w[i])  BY <2>1, <2>4
    <3>2. Passed(w, i, a)  BY <2>3, <2>4, <3>1, WalkInOrder
    <3> QED  BY <2>1, <3>2 DEF Passed
  <2> HIDE DEF w
  <2> QED  BY <2>1, <2>2, <2>4 DEF w
<1>4. n = FirstIn(w, Takeable(j))  BY DEF NextNode
<1> HIDE DEF w, n
<1> QED  BY <1>1, <1>2, <1>3, <1>4, FirstInIs DEF w, n
-----------------------------------------------------------------------------
(* The log, entry by entry. *)

JobType ==
    [seen : SUBSET Kinds, completed : SUBSET Automatic, level : Levels,
     said : BOOLEAN, halted : BOOLEAN, commitments : BOOLEAN,
     raised : [Drafting -> Nat], settled : [Drafting -> Nat],
     asked : SUBSET Questions, answered : SUBSET Questions]

LEMMA DraftingIs ==
  /\ Drafting = {"dmp", "classification", "media", "metadata", "documentation"}
  /\ Drafting \subseteq Automatic /\ Drafting \cap Questions = {} /\ "again" \notin Questions
<1>1. Drafting = {"dmp", "classification", "media", "metadata", "documentation"}
  BY DEF Drafting, LlmOutput
<1> QED  BY <1>1, WorkflowAssumption DEF Automatic

\* k is the job j with e, part by part.
Extends(k, j, e) ==
    /\ k.seen = j.seen \cup ({e.kind} \cap Kinds)
    /\ k.halted = (e.kind = "halted")
    /\ k.said = (IF e.kind = "said" THEN TRUE ELSE j.said)
    /\ k.commitments = (IF e.kind = "plan" THEN e.commitments ELSE j.commitments)
    /\ k.level = (IF e.kind = "confirmed" THEN e.level
                  ELSE IF e.kind = "classified" /\ j.level \in 1..(e.level - 1) THEN e.level
                  ELSE j.level)
    /\ k.completed =
          (IF e.kind = "step-completed" THEN j.completed \cup {e.node} ELSE j.completed)
    /\ k.asked = (IF e.kind = "items" THEN j.asked \cup e.asks ELSE j.asked)
    /\ k.raised =
          (IF e.kind = "items"
           THEN [a \in Drafting |-> j.raised[a] + IF a \in e.agents THEN 1 ELSE 0]
           ELSE j.raised)
    /\ k.settled =
          (IF e.kind = "decided" /\ e.item \in Drafting
           THEN [j.settled EXCEPT ![e.item] = IF e.upto > @ THEN e.upto ELSE @]
           ELSE j.settled)
    /\ k.answered =
          (IF e.kind = "decided" /\ e.item \in Questions
           THEN j.answered \cup {e.item} ELSE j.answered)
    /\ k = [seen |-> k.seen, completed |-> k.completed, level |-> k.level, said |-> k.said,
            halted |-> k.halted, commitments |-> k.commitments, raised |-> k.raised,
            settled |-> k.settled, asked |-> k.asked, answered |-> k.answered]

LEMMA AfterExtends ==
  ASSUME NEW j \in JobType, NEW e
  PROVE  Extends(After(j, e), j, e)
<1> DEFINE n == [j EXCEPT !.seen = @ \cup ({e.kind} \cap Kinds), !.halted = (e.kind = "halted")]
<1>1. CASE e.kind = "said"
  <2>1. After(j, e) = [n EXCEPT !.said = TRUE]  BY <1>1 DEF After
  <2> QED  BY <1>1, <2>1 DEF JobType, Extends
<1>2. CASE e.kind = "plan"
  <2>1. After(j, e) = [n EXCEPT !.commitments = e.commitments]  BY <1>2 DEF After
  <2> QED  BY <1>2, <2>1 DEF JobType, Extends
<1>3. CASE e.kind = "confirmed"
  <2>1. After(j, e) = [n EXCEPT !.level = e.level]  BY <1>3 DEF After
  <2> QED  BY <1>3, <2>1 DEF JobType, Extends
<1>4. CASE e.kind = "classified"
  <2>1. After(j, e) = [n EXCEPT !.level = IF @ \in 1..(e.level - 1) THEN e.level ELSE @]
    BY <1>4 DEF After
  <2> QED  BY <1>4, <2>1 DEF JobType, Extends
<1>5. CASE e.kind = "step-completed"
  <2>1. After(j, e) = [n EXCEPT !.completed = @ \cup {e.node}]  BY <1>5 DEF After
  <2> QED  BY <1>5, <2>1 DEF JobType, Extends
<1>6. CASE e.kind = "items"
  <2>1. After(j, e) =
           [n EXCEPT !.asked = @ \cup e.asks,
                     !.raised = [a \in Drafting |->
                         j.raised[a] + IF a \in e.agents THEN 1 ELSE 0]]
    BY <1>6 DEF After
  <2> QED  BY <1>6, <2>1 DEF JobType, Extends
<1>7. CASE e.kind = "decided" /\ e.item \in Drafting
  <2>1. After(j, e) = [n EXCEPT !.settled[e.item] = IF e.upto > @ THEN e.upto ELSE @]
    BY <1>7, DraftingIs DEF After
  <2>2. e.item \notin Questions  BY <1>7, DraftingIs
  <2> QED  BY <1>7, <2>1, <2>2 DEF JobType, Extends
<1>8. CASE e.kind = "decided" /\ e.item \in Questions
  <2>1. e.item \notin Drafting  BY <1>8, DraftingIs
  <2>2. After(j, e) = [n EXCEPT !.answered = @ \cup {e.item}]
    BY <1>8, <2>1 DEF After
  <2> QED  BY <1>8, <2>1, <2>2 DEF JobType, Extends
<1>9. CASE /\ e.kind \notin {"said", "plan", "confirmed", "classified", "step-completed", "items"}
           /\ e.kind = "decided" => e.item \notin Drafting \cup Questions
  <2>1. After(j, e) = n  BY <1>9 DEF After
  <2> QED  BY <1>9, <2>1 DEF JobType, Extends
<1> QED  BY <1>1, <1>2, <1>3, <1>4, <1>5, <1>6, <1>7, <1>8, <1>9

\* A job whose decisions are about what was raised, and answers about what was asked.
JobOK(j) ==
    /\ j \in JobType
    /\ \A a \in Drafting : j.settled[a] <= j.raised[a]
    /\ j.answered \subseteq j.asked

\* What ingest and parse_declaration may append, and what a step of the engine may.
AsideEntries ==
    {Of("material"), Of("parsed")} \cup {Plan(some) : some \in BOOLEAN}
        \cup {Items({}, asks) : asks \in SUBSET Questions}

Drafts(n) ==
    CASE n = "metadata"      -> {"drafted"}
      [] n = "documentation" -> {"documented", "drafted"}
      [] n = "validation"    -> {"validated"}
      [] OTHER               -> {}

EngineEntries(n) ==
    AsideEntries \cup {Of("contradicted"), StepCompleted(n)} \cup {Of(kind) : kind \in Drafts(n)}
        \cup {Classified(l) : l \in {l \in Levels : n \in {"classification", "media"}}}
        \cup {Items({n} \cap Drafting, asks) : asks \in SUBSET Questions}

\* The entries of people, and of a call that begins or fails.
Notes == {"created", "said", "failed", "halted", "note", "displayed", "deposited"}

LEMMA NoteEffect ==
  ASSUME NEW j, JobOK(j), NEW kind \in Notes
  PROVE  /\ JobOK(After(j, Of(kind)))
         /\ After(j, Of(kind)).seen = j.seen \cup ({kind} \cap Kinds)
         /\ After(j, Of(kind)).completed = j.completed
         /\ After(j, Of(kind)).raised = j.raised
         /\ After(j, Of(kind)).settled = j.settled
         /\ After(j, Of(kind)).level = j.level
<1> DEFINE e == Of(kind)
           k == After(j, e)
<1>1. e.kind = kind  BY DEF Of
<1>2. kind \notin {"plan", "confirmed", "classified", "step-completed", "items", "decided"}
  BY DEF Notes
<1>3. j \in JobType  BY DEF JobOK
<1> HIDE DEF e
<1>ex. Extends(k, j, e)  BY <1>3, AfterExtends
<1> HIDE DEF k
<1>4. /\ k.seen = j.seen \cup ({kind} \cap Kinds) /\ k.completed = j.completed
      /\ k.raised = j.raised /\ k.settled = j.settled /\ k.level = j.level
      /\ k.asked = j.asked /\ k.answered = j.answered /\ k.commitments = j.commitments
      /\ k.halted = (kind = "halted")
      /\ k.said = IF kind = "said" THEN TRUE ELSE j.said
  BY <1>1, <1>2, <1>3, <1>ex DEF Extends
<1>5. k.halted \in BOOLEAN /\ k.said \in BOOLEAN /\ k.seen \in SUBSET Kinds
  BY <1>3, <1>4 DEF JobType
<1>6. k \in JobType  BY <1>3, <1>4, <1>5, <1>ex DEF JobType, Extends
<1>7. JobOK(k)  BY <1>4, <1>6 DEF JobOK
<1> QED  BY <1>4, <1>7 DEF e, k

LEMMA ConfirmedEffect ==
  ASSUME NEW j, JobOK(j), NEW l \in Levels
  PROVE  /\ JobOK(After(j, Confirmed(l)))
         /\ After(j, Confirmed(l)).seen = j.seen \cup {"confirmed"}
         /\ After(j, Confirmed(l)).completed = j.completed
         /\ After(j, Confirmed(l)).raised = j.raised
         /\ After(j, Confirmed(l)).settled = j.settled
         /\ After(j, Confirmed(l)).level = l
<1> DEFINE e == Confirmed(l)
           k == After(j, e)
<1>1. e.kind = "confirmed" /\ e.level = l  BY DEF Confirmed
<1>2. j \in JobType /\ "confirmed" \in Kinds  BY DEF JobOK, Kinds
<1> HIDE DEF e
<1>ex. Extends(k, j, e)  BY <1>2, AfterExtends
<1> HIDE DEF k
<1>3. /\ k.seen = j.seen \cup ({"confirmed"} \cap Kinds) /\ k.completed = j.completed
      /\ k.raised = j.raised /\ k.settled = j.settled /\ k.level = l
      /\ k.asked = j.asked /\ k.answered = j.answered /\ k.commitments = j.commitments
      /\ k.halted = FALSE /\ k.said = j.said
  BY <1>1, <1>2, <1>ex DEF Extends
<1>4. k \in JobType  BY <1>2, <1>3, <1>ex DEF JobType, Extends
<1>5. JobOK(k)  BY <1>3, <1>4 DEF JobOK
<1> QED  BY <1>2, <1>3, <1>5 DEF e, k

LEMMA DecidedEffect ==
  ASSUME NEW j, JobOK(j), NEW item, NEW upto \in Nat,
         item \in Drafting => upto <= j.raised[item],
         item \in Questions => item \in j.asked
  PROVE  /\ JobOK(After(j, Decided(item, upto)))
         /\ After(j, Decided(item, upto)).seen = j.seen \cup {"decided"}
         /\ After(j, Decided(item, upto)).completed = j.completed
         /\ After(j, Decided(item, upto)).raised = j.raised
         /\ \A a \in Drafting : After(j, Decided(item, upto)).settled[a] >= j.settled[a]
         /\ After(j, Decided(item, upto)).level = j.level
<1> DEFINE e == Decided(item, upto)
           k == After(j, e)
<1>1. e.kind = "decided" /\ e.item = item /\ e.upto = upto  BY DEF Decided
<1>2. j \in JobType /\ "decided" \in Kinds  BY DEF JobOK, Kinds
<1> HIDE DEF e
<1>ex. Extends(k, j, e)  BY <1>2, AfterExtends
<1> HIDE DEF k
<1>3. /\ k.seen = j.seen \cup ({"decided"} \cap Kinds) /\ k.completed = j.completed
      /\ k.raised = j.raised /\ k.level = j.level
      /\ k.settled = IF item \in Drafting
                     THEN [j.settled EXCEPT ![item] = IF upto > @ THEN upto ELSE @]
                     ELSE j.settled
      /\ k.answered = IF item \in Questions THEN j.answered \cup {item} ELSE j.answered
      /\ k.asked = j.asked /\ k.commitments = j.commitments
      /\ k.halted = FALSE /\ k.said = j.said
  BY <1>1, <1>2, <1>ex DEF Extends
<1>4. /\ k.settled \in [Drafting -> Nat]
      /\ \A a \in Drafting : k.settled[a] >= j.settled[a] /\ k.settled[a] <= j.raised[a]
  <2>1. j.settled \in [Drafting -> Nat] /\ j.raised \in [Drafting -> Nat]
        /\ \A a \in Drafting : j.settled[a] <= j.raised[a]
    BY DEF JobOK, JobType
  <2> QED  BY <1>3, <2>1
<1>5. k.answered \in SUBSET Questions /\ k.answered \subseteq k.asked
  BY <1>3 DEF JobOK, JobType
<1>6. k \in JobType  BY <1>2, <1>3, <1>4, <1>5, <1>ex DEF JobType, Extends
<1>7. JobOK(k)  BY <1>3, <1>4, <1>5, <1>6 DEF JobOK
<1> QED  BY <1>2, <1>3, <1>4, <1>7 DEF e, k

\* An entry of ingest or parse_declaration: nothing completed, nothing to read.
LEMMA AsideEffect ==
  ASSUME NEW j, JobOK(j), NEW e \in AsideEntries
  PROVE  /\ JobOK(After(j, e))
         /\ e.kind \in {"material", "parsed", "plan", "items"}
         /\ After(j, e).seen = j.seen \cup ({e.kind} \cap Kinds)
         /\ After(j, e).completed = j.completed
         /\ After(j, e).raised = j.raised
         /\ After(j, e).settled = j.settled
         /\ After(j, e).level = j.level
<1> DEFINE k == After(j, e)
<1>1. e.kind \in {"material", "parsed", "plan", "items"}
  BY DEF AsideEntries, Of, Plan, Items
<1>2. e.kind = "plan" => e.commitments \in BOOLEAN  BY DEF AsideEntries, Of, Plan, Items
<1>3. e.kind = "items" => e.agents = {} /\ e.asks \in SUBSET Questions
  BY DEF AsideEntries, Of, Plan, Items
<1>4. j \in JobType  BY DEF JobOK
<1>ex. Extends(k, j, e)  BY <1>4, AfterExtends
<1> HIDE DEF k
<1>5. /\ k.seen = j.seen \cup ({e.kind} \cap Kinds) /\ k.completed = j.completed
      /\ k.settled = j.settled /\ k.level = j.level
      /\ k.answered = j.answered /\ k.halted = FALSE /\ k.said = j.said
      /\ k.commitments = (IF e.kind = "plan" THEN e.commitments ELSE j.commitments)
      /\ k.asked = (IF e.kind = "items" THEN j.asked \cup e.asks ELSE j.asked)
      /\ k.raised = IF e.kind = "items"
                    THEN [a \in Drafting |-> j.raised[a] + IF a \in e.agents THEN 1 ELSE 0]
                    ELSE j.raised
  BY <1>1, <1>4, <1>ex DEF Extends
<1>6. k.raised = j.raised
  <2>1. j.raised \in [Drafting -> Nat]  BY <1>4 DEF JobType
  <2>2. CASE e.kind = "items"
    <3>1. k.raised = [a \in Drafting |-> j.raised[a] + IF a \in {} THEN 1 ELSE 0]
      BY <1>3, <1>5, <2>2
    <3>2. k.raised = [a \in Drafting |-> j.raised[a]]  BY <2>1, <3>1
    <3> QED  BY <2>1, <3>2
  <2> QED  BY <1>5, <2>2
<1>7. k.asked \in SUBSET Questions /\ k.commitments \in BOOLEAN /\ k.answered \subseteq k.asked
  BY <1>2, <1>3, <1>5 DEF JobOK, JobType
<1>8. k \in JobType  BY <1>4, <1>5, <1>6, <1>7, <1>ex DEF JobType, Extends
<1>9. JobOK(k)  BY <1>5, <1>6, <1>7, <1>8 DEF JobOK
<1> QED  BY <1>1, <1>5, <1>6, <1>9 DEF k

\* What an entry of a step of n makes of the job.
EngineMakes(k, j, n, e) ==
    /\ e.kind \in {"material", "parsed", "plan", "items", "contradicted", "classified",
                   "step-completed"} \cup Drafts(n)
    /\ e.kind = "classified" => n \in {"classification", "media"}
    /\ e.kind = "step-completed" => e = StepCompleted(n)
    /\ k.seen = j.seen \cup ({e.kind} \cap Kinds)
    /\ k.completed = (IF e.kind = "step-completed" THEN j.completed \cup {n} ELSE j.completed)
    /\ \A a \in Drafting : \/ k.raised[a] = j.raised[a]
                           \/ a = n /\ k.raised[a] = j.raised[a] + 1
    /\ k.settled = j.settled
    /\ (k.level = 0) = (j.level = 0)

\* Only n is completed, and only n's prose is to be read.
LEMMA EngineEffect ==
  ASSUME NEW j, JobOK(j), NEW n \in Automatic, NEW e \in EngineEntries(n)
  PROVE  JobOK(After(j, e)) /\ EngineMakes(After(j, e), j, n, e)
<1> DEFINE k == After(j, e)
<1>0. j \in JobType /\ Drafts(n) \subseteq {"drafted", "documented", "validated"}
  BY DEF JobOK, Drafts
<1>1. /\ e.kind \in {"material", "parsed", "plan", "items", "contradicted", "classified",
                     "step-completed"} \cup Drafts(n)
      /\ e.kind = "classified" => n \in {"classification", "media"} /\ e.level \in Levels
      /\ e.kind = "step-completed" => e = StepCompleted(n) /\ e.node = n
      /\ e.kind = "plan" => e.commitments \in BOOLEAN
      /\ e.kind = "items" => e.agents \in SUBSET {n} /\ e.asks \in SUBSET Questions
  <2>1. CASE e \in AsideEntries  BY <2>1 DEF AsideEntries, Of, Plan, Items
  <2>2. CASE e \in {Of("contradicted"), StepCompleted(n)}  BY <2>2 DEF Of, StepCompleted
  <2>3. CASE e \in {Of(kind) : kind \in Drafts(n)}  BY <1>0, <2>3 DEF Of
  <2>4. CASE e \in {Classified(l) : l \in {l \in Levels : n \in {"classification", "media"}}}
    BY <2>4 DEF Classified
  <2>5. CASE e \in {Items({n} \cap Drafting, asks) : asks \in SUBSET Questions}
    BY <2>5 DEF Items
  <2> QED  BY <2>1, <2>2, <2>3, <2>4, <2>5 DEF EngineEntries
<1>2. e.kind \notin {"said", "halted", "confirmed", "decided"}  BY <1>0, <1>1
<1>ex. Extends(k, j, e)  BY <1>0, AfterExtends
<1> HIDE DEF k
<1>5. /\ k.seen = j.seen \cup ({e.kind} \cap Kinds)
      /\ k.settled = j.settled
      /\ k.answered = j.answered /\ k.halted = FALSE /\ k.said = j.said
      /\ k.completed = (IF e.kind = "step-completed" THEN j.completed \cup {n} ELSE j.completed)
      /\ k.level = (IF e.kind = "classified" /\ j.level \in 1..(e.level - 1) THEN e.level
                    ELSE j.level)
      /\ k.commitments = (IF e.kind = "plan" THEN e.commitments ELSE j.commitments)
      /\ k.asked = (IF e.kind = "items" THEN j.asked \cup e.asks ELSE j.asked)
      /\ k.raised = IF e.kind = "items"
                    THEN [a \in Drafting |-> j.raised[a] + IF a \in e.agents THEN 1 ELSE 0]
                    ELSE j.raised
  BY <1>0, <1>1, <1>2, <1>ex DEF Extends
<1>6. /\ k.raised \in [Drafting -> Nat]
      /\ \A a \in Drafting : \/ k.raised[a] = j.raised[a]
                             \/ a = n /\ k.raised[a] = j.raised[a] + 1
  <2>1. j.raised \in [Drafting -> Nat]  BY <1>0 DEF JobType
  <2>2. CASE e.kind = "items"
    <3>1. k.raised = [a \in Drafting |-> j.raised[a] + IF a \in e.agents THEN 1 ELSE 0]
      BY <1>5, <2>2
    <3> QED  BY <1>1, <2>1, <2>2, <3>1
  <2> QED  BY <1>5, <2>1, <2>2
<1>7. k.level \in Levels /\ (k.level = 0) = (j.level = 0)
  <2>1. j.level \in Levels  BY <1>0 DEF JobType
  <2> QED  BY <1>1, <1>5, <2>1 DEF Levels
<1>8. /\ k.asked \in SUBSET Questions /\ k.commitments \in BOOLEAN /\ k.answered \subseteq k.asked
      /\ k.completed \in SUBSET Automatic /\ k.seen \in SUBSET Kinds
  BY <1>1, <1>5 DEF JobOK, JobType
<1>9. k \in JobType  BY <1>0, <1>5, <1>6, <1>7, <1>8, <1>ex DEF JobType, Extends
<1>10. \A a \in Drafting : k.settled[a] <= k.raised[a]
  <2>1. /\ j.settled \in [Drafting -> Nat] /\ j.raised \in [Drafting -> Nat]
        /\ \A a \in Drafting : j.settled[a] <= j.raised[a]
    BY DEF JobOK, JobType
  <2> QED  BY <1>5, <1>6, <2>1
<1>11. JobOK(k)  BY <1>8, <1>9, <1>10 DEF JobOK
<1>12. EngineMakes(k, j, n, e)  BY <1>1, <1>5, <1>6, <1>7 DEF EngineMakes
<1> QED  BY <1>11, <1>12 DEF k
-----------------------------------------------------------------------------
(* What the parts of the state are. *)

Engines == {"advance", "rerun"}

AllEntries == UNION {EngineEntries(n) : n \in Automatic}

Calls ==
    [pc : Pcs, why : {"none", "ingest", "parse"} \cup Engines, node : Automatic \cup {"start"},
     todo : Seq(AllEntries), then : {"idle", "running", "choosing"},
     tried : 0 .. MaxAttempts - 1, ran : SUBSET Automatic]

\* What a call may still append.
TodoOK(r, todo) ==
    IF r.why \in Engines
    THEN todo \in Seq(EngineEntries(r.node)) /\ (todo # <<>> => r.node \in Automatic)
    ELSE todo \in Seq(AsideEntries)

CallOK(r) ==
    /\ r \in Calls
    /\ (r.pc = "appending") = (r.todo # <<>>)
    /\ TodoOK(r, r.todo)
    /\ r.pc = "running" => r.node \in Automatic
    /\ r.pc # "idle" => r.why # "none"
    /\ r.pc = "staging" => r.why = "ingest" /\ r.node = "ingest"
    /\ r.pc = "choosing" => r.why = "advance"
    /\ r.then = "running" => r.why = "ingest" /\ r.node = "dmp"
    /\ r.then = "choosing" => r.why = "advance"

Typed ==
    /\ submission \in Submissions
    /\ staged \subseteq {"material", "plan"}
    /\ JobOK(job)
    /\ call \in [Callers -> Calls]
    /\ \A c \in Callers : CallOK(call[c])
    /\ faults \in 0 .. MaxFaults /\ again \in 0 .. MaxAgain

LEMMA EntriesAre ==
  /\ AsideEntries \subseteq AllEntries
  /\ \A n \in Automatic : EngineEntries(n) \subseteq AllEntries
  /\ \A n : AsideEntries \subseteq EngineEntries(n)
<1>1. \A n : AsideEntries \subseteq EngineEntries(n)  BY DEF EngineEntries
<1>2. \A n \in Automatic : EngineEntries(n) \subseteq AllEntries  BY DEF AllEntries
<1>3. "ingest" \in Automatic  BY DEF Automatic
<1> QED  BY <1>1, <1>2, <1>3

LEMMA IdleOK == CallOK(Idle)
<1>1. MaxAttempts - 1 \in Nat  BY WorkflowAssumption
<1>2. <<>> \in Seq(AllEntries) /\ <<>> \in Seq(AsideEntries)  OBVIOUS
<1>3. Idle \in Calls  BY <1>1, <1>2 DEF Idle, Calls, Pcs
<1> QED  BY <1>2, <1>3 DEF Idle, CallOK, TodoOK, Engines

LEMMA CallingOK ==
  ASSUME NEW why, NEW pc, NEW node,
         \/ why = "advance" /\ pc = "choosing" /\ node = "start"
         \/ why = "ingest" /\ pc = "staging" /\ node = "ingest"
         \/ why = "parse" /\ pc = "running" /\ node = "declaration"
         \/ why = "rerun" /\ pc = "running" /\ node \in Drafting
  PROVE  CallOK(Calling(why, pc, node))
<1> DEFINE r == Calling(why, pc, node)
<1>1. MaxAttempts - 1 \in Nat  BY WorkflowAssumption
<1>2. <<>> \in Seq(AllEntries) /\ <<>> \in Seq(AsideEntries) /\ \A n : <<>> \in Seq(EngineEntries(n))
  OBVIOUS
<1>3. Idle \in Calls /\ Idle.todo = <<>> /\ Idle.then = "idle"  BY IdleOK DEF CallOK, Idle
<1>4. /\ node \in Automatic \cup {"start"} /\ pc \in Pcs
      /\ why \in {"none", "ingest", "parse"} \cup Engines
  BY DraftingIs DEF Automatic, Pcs, Engines
<1>5. /\ r \in Calls /\ r.pc = pc /\ r.why = why /\ r.node = node
      /\ r.todo = <<>> /\ r.then = "idle"
  BY <1>3, <1>4 DEF Calls, Calling
<1> HIDE DEF r
<1>6. r.pc = "running" => r.node \in Automatic  BY <1>5, DraftingIs DEF Automatic
<1> QED  BY <1>2, <1>5, <1>6 DEF CallOK, TodoOK, Engines, r

LEMMA ProceedOK ==
  ASSUME NEW r \in Calls, NEW todo, TodoOK(r, todo), r.why # "none",
         r.then = "running" => r.why = "ingest" /\ r.node = "dmp",
         r.then = "choosing" => r.why = "advance"
  PROVE  CallOK(Proceed(r, todo))
<1>1. todo \in Seq(AllEntries)
  <2>1. CASE r.why \in Engines
    <3>1. CASE todo = <<>>  BY <3>1
    <3>2. CASE todo # <<>>
      <4>1. EngineEntries(r.node) \subseteq AllEntries /\ todo \in Seq(EngineEntries(r.node))
        BY <2>1, <3>2, EntriesAre DEF TodoOK
      <4> QED  BY <4>1
    <3> QED  BY <3>1, <3>2
  <2>2. CASE r.why \notin Engines
    <3>1. todo \in Seq(AsideEntries)  BY <2>2 DEF TodoOK
    <3> QED  BY <3>1, EntriesAre
  <2> QED  BY <2>1, <2>2
<1>2. CASE todo # <<>>
  <2> DEFINE p == [r EXCEPT !.pc = "appending", !.todo = todo]
  <2>1. Proceed(r, todo) = p  BY <1>2 DEF Proceed
  <2>2. p \in Calls /\ p.pc = "appending" /\ p.todo = todo /\ p.why = r.why /\ p.node = r.node
        /\ p.then = r.then
    BY <1>1 DEF Calls, Pcs
  <2> HIDE DEF p
  <2> QED  BY <1>2, <2>1, <2>2 DEF CallOK, TodoOK
<1>3. CASE todo = <<>> /\ r.then = "idle"  BY <1>3, IdleOK DEF Proceed
<1>4. CASE todo = <<>> /\ r.then # "idle"
  <2> DEFINE p == [r EXCEPT !.pc = r.then, !.todo = <<>>]
  <2>1. Proceed(r, todo) = p  BY <1>4 DEF Proceed
  <2>2. r.then \in {"running", "choosing"}  BY <1>4 DEF Calls
  <2>3. <<>> \in Seq(AllEntries) /\ <<>> \in Seq(AsideEntries)
        /\ \A n : <<>> \in Seq(EngineEntries(n))
    OBVIOUS
  <2>4. p \in Calls /\ p.pc = r.then /\ p.todo = <<>> /\ p.why = r.why /\ p.node = r.node
        /\ p.then = r.then
    BY <2>2, <2>3 DEF Calls, Pcs
  <2>5. p.pc = "running" => p.node \in Automatic  BY <2>2, <2>4 DEF Automatic
  <2> HIDE DEF p
  <2> QED  BY <2>1, <2>2, <2>3, <2>4, <2>5 DEF CallOK, TodoOK
<1> QED  BY <1>2, <1>3, <1>4

LEMMA ItemEvents ==
  ASSUME NEW agents, NEW asks \in SUBSET Questions, NEW E,
         \A q \in SUBSET Questions : Items(agents, q) \in E
  PROVE  GateItemEvents(agents, asks) \in Seq(E)
<1>1. asks \ job.asked \in SUBSET Questions  OBVIOUS
<1>2. Items(agents, asks \ job.asked) \in E  BY <1>1
<1> DEFINE e == Items(agents, asks \ job.asked)
<1>3. GateItemEvents(agents, asks) \in {<<>>, <<e>>}  BY DEF GateItemEvents
<1> HIDE DEF e
<1>4. <<>> \in Seq(E) /\ <<e>> \in Seq(E)  BY <1>2 DEF e
<1> QED  BY <1>3, <1>4

\* What the agents return.
LEMMA OutcomeEntries ==
  ASSUME Typed, NEW n \in Automatic, NEW out \in Outcomes(n)
  PROVE  /\ out.entries \in Seq(EngineEntries(n)) /\ out.asks \in SUBSET Questions
         /\ out.decision \in BOOLEAN
<1> DEFINE E == EngineEntries(n)
           Fits(o) == o.entries \in Seq(E) /\ o.asks \in SUBSET Questions /\ o.decision \in BOOLEAN
<1>1. /\ <<>> \in Seq(E) /\ \A x \in E : <<x>> \in Seq(E)
      /\ \A x, y \in E : <<x, y>> \in Seq(E)
  OBVIOUS
<1>2. \A entries, asks, decision :
         Fits(Outcome(entries, asks, decision)) <=>
            entries \in Seq(E) /\ asks \in SUBSET Questions /\ decision \in BOOLEAN
  BY DEF Outcome
<1>3. /\ Of("material") \in E /\ Of("parsed") \in E /\ \A some \in BOOLEAN : Plan(some) \in E
      /\ Of("contradicted") \in E /\ \A kind \in Drafts(n) : Of(kind) \in E
      /\ n \in {"classification", "media"} => \A l \in Levels : Classified(l) \in E
  BY DEF EngineEntries, AsideEntries
<1> HIDE DEF Fits, E
<1>4. CASE n = "ingest"
  <2>1. out \in Ingestion  BY <1>4 DEF Outcomes
  <2>9. Fits(out)  BY <1>1, <1>2, <1>3, <2>1 DEF Ingestion
  <2> QED  BY <2>9 DEF Fits, E
<1>5. CASE n = "dmp"
  <2>1. out \in ReadPlan  BY <1>5 DEF Outcomes
  <2>2. Fits(out)  BY <1>1, <1>2, <1>3, <2>1 DEF ReadPlan
  <2> QED  BY <2>2 DEF Fits, E
<1>6. CASE n = "declaration"
  <2>1. out \in ReadStatement  BY <1>6 DEF Outcomes
  <2>9. Fits(out)  BY <1>1, <1>2, <1>3, <2>1 DEF ReadStatement
  <2> QED  BY <2>9 DEF Fits, E
<1>7. CASE n = "classification"
  <2>1. out \in Classify  BY <1>7 DEF Outcomes
  <2>2. /\ out.entries \in {<<Classified(l)>> : l \in job.level..2}
                            \cup {<<Of("contradicted")>>, <<>>}
        /\ out.asks \in SUBSET (Questions \cap {"choice"}) /\ out.decision = TRUE
    BY <2>1 DEF Classify
  <2>3. job.level..2 \subseteq Levels
    <3>1. job.level \in Levels  BY DEF Typed, JobOK, JobType
    <3> QED  BY <3>1 DEF Levels
  <2>4. out.entries \in Seq(E)  BY <1>1, <1>3, <1>7, <2>2, <2>3
  <2> QED  BY <2>2, <2>4 DEF E
<1>8. CASE n = "media"
  <2>1. out \in InspectMedia  BY <1>8 DEF Outcomes
  <2>2. CASE out = Outcome(<<>>, {}, TRUE)
    <3>1. Fits(out)  BY <1>1, <1>2, <2>2
    <3> QED  BY <3>1 DEF Fits, E
  <2>3. CASE out \in [entries : {<<Classified(l)>> : l \in 1..2},
                      asks : SUBSET (Questions \cap {"file"}), decision : {TRUE}]
    <3>1. 1..2 \subseteq Levels  BY DEF Levels
    <3>2. out.entries \in Seq(E)  BY <1>1, <1>3, <1>8, <2>3, <3>1
    <3> QED  BY <2>3, <3>2 DEF E
  <2> QED  BY <2>1, <2>2, <2>3 DEF InspectMedia
<1>9. CASE n = "redaction"
  <2>1. out \in ProposeRedactions  BY <1>9 DEF Outcomes
  <2>9. Fits(out)  BY <1>1, <1>2, <2>1 DEF ProposeRedactions
  <2> QED  BY <2>9 DEF Fits, E
<1>10. CASE n = "metadata"
  <2>1. out \in DraftMetadata  BY <1>10 DEF Outcomes
  <2>2. "drafted" \in Drafts(n)  BY <1>10 DEF Drafts
  <2>9. Fits(out)  BY <1>1, <1>2, <1>3, <2>1, <2>2 DEF DraftMetadata
  <2> QED  BY <2>9 DEF Fits, E
<1>11. CASE n = "documentation"
  <2>1. out \in Document  BY <1>11 DEF Outcomes
  <2>2. "drafted" \in Drafts(n) /\ "documented" \in Drafts(n)  BY <1>11 DEF Drafts
  <2>9. Fits(out)  BY <1>1, <1>2, <1>3, <2>1, <2>2 DEF Document
  <2> QED  BY <2>9 DEF Fits, E
<1>12. CASE n = "validation"
  <2>1. out \in Validation  BY <1>12 DEF Outcomes
  <2>2. "validated" \in Drafts(n)  BY <1>12 DEF Drafts
  <2>9. Fits(out)  BY <1>1, <1>2, <1>3, <2>1, <2>2 DEF Validation
  <2> QED  BY <2>9 DEF Fits, E
<1>13. CASE n = "repository"
  <2>1. out \in Shortlist  BY <1>13 DEF Outcomes
  <2>9. Fits(out)  BY <1>1, <1>2, <2>1 DEF Shortlist
  <2> QED  BY <2>9 DEF Fits, E
<1> QED  BY <1>4, <1>5, <1>6, <1>7, <1>8, <1>9, <1>10, <1>11, <1>12, <1>13 DEF Automatic

LEMMA AsideOutcomes ==
  ASSUME Typed
  PROVE  \A out \in Ingestion \cup ReadPlan \cup ReadStatement :
            out.entries \in Seq(AsideEntries) /\ out.asks \in SUBSET Questions
<1> DEFINE E == AsideEntries
           Fits(o) == o.entries \in Seq(E) /\ o.asks \in SUBSET Questions
<1>1. <<>> \in Seq(E) /\ \A x \in E : <<x>> \in Seq(E)  OBVIOUS
<1>2. \A entries, asks, decision :
         Fits(Outcome(entries, asks, decision)) <=>
            entries \in Seq(E) /\ asks \in SUBSET Questions
  BY DEF Outcome
<1>3. Of("material") \in E /\ Of("parsed") \in E /\ \A some \in BOOLEAN : Plan(some) \in E
  BY DEF AsideEntries
<1> HIDE DEF Fits, E
<1>4. \A out \in Ingestion : Fits(out)  BY <1>1, <1>2, <1>3 DEF Ingestion
<1>5. \A out \in ReadPlan : Fits(out)  BY <1>1, <1>2, <1>3 DEF ReadPlan
<1>6. \A out \in ReadStatement : Fits(out)  BY <1>1, <1>2, <1>3 DEF ReadStatement
<1> QED  BY <1>4, <1>5, <1>6 DEF Fits, E
-----------------------------------------------------------------------------
(* The types hold whatever happens. *)

LEMMA CallSet ==
  ASSUME Typed, NEW c \in Callers, NEW r, CallOK(r), call' = [call EXCEPT ![c] = r]
  PROVE  /\ call' \in [Callers -> Calls] /\ \A d \in Callers : CallOK(call'[d])
         /\ call'[c] = r /\ \A d \in Callers \ {c} : call'[d] = call[d]
<1>1. call \in [Callers -> Calls] /\ r \in Calls  BY DEF Typed, CallOK
<1>2. call' \in [Callers -> Calls] /\ call'[c] = r /\ \A d \in Callers \ {c} : call'[d] = call[d]
  BY <1>1
<1>3. \A d \in Callers : CallOK(call[d])  BY DEF Typed
<1>4. \A d \in Callers : CallOK(call'[d])  BY <1>2, <1>3
<1> QED  BY <1>2, <1>4

LEMMA TypedInit == Init => Typed
<1> SUFFICES ASSUME Init  PROVE Typed  OBVIOUS
<1>1. JobOK(EmptyLog)
  <2>1. EmptyLog.raised \in [Drafting -> Nat] /\ EmptyLog.settled \in [Drafting -> Nat]
        /\ \A a \in Drafting : EmptyLog.settled[a] <= EmptyLog.raised[a]
    BY DEF EmptyLog
  <2>2. EmptyLog \in JobType
    BY <2>1 DEF EmptyLog, JobType, Levels
  <2>3. EmptyLog.answered = {}  BY DEF EmptyLog
  <2> QED  BY <2>1, <2>2, <2>3 DEF JobOK
<1>2. Idle \in Calls  BY IdleOK DEF CallOK
<1>3. call \in [Callers -> Calls] /\ \A c \in Callers : CallOK(call[c])
  BY <1>2, IdleOK DEF Init
<1>4. MaxFaults \in Nat /\ MaxAgain \in Nat  BY WorkflowAssumption
<1> QED  BY <1>1, <1>3, <1>4 DEF Init, Typed

\* A step that sets one call, and types what it touches of the rest.
LEMMA TypedStep ==
  ASSUME Typed, NEW c \in Callers, NEW r, CallOK(r), call' = [call EXCEPT ![c] = r],
         submission' = submission, staged' \subseteq {"material", "plan"}, JobOK(job'),
         faults' \in 0 .. MaxFaults, again' \in 0 .. MaxAgain
  PROVE  Typed'
<1>1. call' \in [Callers -> Calls] /\ \A d \in Callers : CallOK(call'[d])  BY CallSet
<1> QED  BY <1>1 DEF Typed

LEMMA EngineStep ==
  ASSUME Typed, NEW c \in Callers, call[c].pc = "running", call[c].why \in Engines,
         NEW out \in Outcomes(call[c].node), NEW then \in {"choosing", "idle"},
         then = "choosing" => call[c].why = "advance"
  PROVE  LET n    == call[c].node
             r    == [call[c] EXCEPT !.then = then]
             todo == out.entries \o GateItemEvents(ClaimedReview(n, out), out.asks)
                        \o <<StepCompleted(n)>>
         IN  /\ n \in Automatic /\ r \in Calls /\ todo \in Seq(EngineEntries(n))
             /\ todo # <<>> /\ CallOK(Proceed(r, todo))
             /\ Proceed(r, todo) = [r EXCEPT !.pc = "appending", !.todo = todo]
<1> DEFINE n     == call[c].node
           r     == [call[c] EXCEPT !.then = then]
           items == GateItemEvents(ClaimedReview(n, out), out.asks)
           last  == <<StepCompleted(n)>>
           todo  == out.entries \o items \o last
           E     == EngineEntries(n)
<1>1. call[c] \in Calls /\ CallOK(call[c])  BY DEF Typed
<1>2. n \in Automatic  BY <1>1 DEF CallOK
<1>3. out.entries \in Seq(E) /\ out.asks \in SUBSET Questions  BY <1>2, OutcomeEntries
<1>4. ClaimedReview(n, out) \in {{}, {n} \cap Drafting}  BY DEF ClaimedReview
<1>5. \A q \in SUBSET Questions : Items(ClaimedReview(n, out), q) \in E
  BY <1>4 DEF EngineEntries, AsideEntries
<1>6. items \in Seq(E)
  <2> HIDE DEF E
  <2> QED  BY <1>3, <1>5, ItemEvents
<1>7. last \in Seq(E) /\ Len(last) = 1
  <2>1. StepCompleted(n) \in E  BY DEF EngineEntries
  <2> HIDE DEF E
  <2> QED  BY <2>1
<1>8. todo \in Seq(E) /\ todo # <<>>
  <2> HIDE DEF E, items, last
  <2>1. out.entries \o items \in Seq(E)  BY <1>3, <1>6, ConcatProperties
  <2>2. todo \in Seq(E) /\ Len(todo) = Len(out.entries \o items) + Len(last)
    BY <1>7, <2>1, ConcatProperties
  <2>3. Len(out.entries \o items) \in Nat  BY <2>1
  <2> QED  BY <1>7, <2>2, <2>3
<1>9. r \in Calls /\ r.why = call[c].why /\ r.node = n /\ r.then = then
  BY <1>1 DEF Calls
<1> HIDE DEF r, todo, E, items, last
<1>10. TodoOK(r, todo)  BY <1>2, <1>8, <1>9 DEF TodoOK, E
<1>11. r.why # "none"  BY <1>9 DEF Engines
<1>12. CallOK(Proceed(r, todo))  BY <1>9, <1>10, <1>11, ProceedOK
<1>13. Proceed(r, todo) = [r EXCEPT !.pc = "appending", !.todo = todo]
  BY <1>8 DEF Proceed
<1> QED  BY <1>2, <1>8, <1>9, <1>12, <1>13 DEF r, todo, E, items, last

\* An entry appended: what is left to append, and where the call goes on.
LEMMA AppendStep ==
  ASSUME Typed, NEW c \in Callers, call[c].pc = "appending"
  PROVE  LET r == call[c]
         IN  /\ r.todo \in Seq(AllEntries) /\ r.todo # <<>>
             /\ CallOK(Proceed(r, Tail(r.todo)))
             /\ r.why \in Engines => r.node \in Automatic /\ Head(r.todo) \in EngineEntries(r.node)
             /\ r.why \notin Engines => Head(r.todo) \in AsideEntries
             /\ JobOK(After(job, Head(r.todo)))
<1> DEFINE r == call[c]
<1>1. CallOK(r) /\ r \in Calls  BY DEF Typed, CallOK
<1> HIDE DEF r
<1>2. r.todo # <<>> /\ r.todo \in Seq(AllEntries) /\ r.why # "none"
  <2>1. r.pc = "appending"  BY DEF r
  <2> QED  BY <1>1, <2>1 DEF CallOK, Calls
<1>3. CASE r.why \in Engines
  <2>1. r.todo \in Seq(EngineEntries(r.node)) /\ r.node \in Automatic
    BY <1>1, <1>2, <1>3 DEF CallOK, TodoOK
  <2>2. Head(r.todo) \in EngineEntries(r.node) /\ Tail(r.todo) \in Seq(EngineEntries(r.node))
    BY <1>2, <2>1, HeadTailProperties
  <2>3. TodoOK(r, Tail(r.todo))  BY <1>3, <2>1, <2>2 DEF TodoOK
  <2>4. CallOK(Proceed(r, Tail(r.todo)))  BY <1>1, <1>2, <2>3, ProceedOK DEF CallOK
  <2>5. JobOK(After(job, Head(r.todo)))  BY <2>1, <2>2, EngineEffect DEF Typed
  <2> QED  BY <1>2, <1>3, <2>1, <2>2, <2>4, <2>5 DEF r
<1>4. CASE r.why \notin Engines
  <2>1. r.todo \in Seq(AsideEntries)  BY <1>1, <1>4 DEF CallOK, TodoOK
  <2>2. Head(r.todo) \in AsideEntries /\ Tail(r.todo) \in Seq(AsideEntries)
    BY <1>2, <2>1, HeadTailProperties
  <2>3. TodoOK(r, Tail(r.todo))  BY <1>4, <2>2 DEF TodoOK
  <2>4. CallOK(Proceed(r, Tail(r.todo)))  BY <1>1, <1>2, <2>3, ProceedOK DEF CallOK
  <2>5. JobOK(After(job, Head(r.todo)))  BY <2>2, AsideEffect DEF Typed
  <2> QED  BY <1>2, <1>4, <2>2, <2>4, <2>5 DEF r
<1> QED  BY <1>3, <1>4

\* The calls that are not of the engine.
LEMMA AsideStep ==
  ASSUME Typed, NEW c \in Callers, call[c].pc = "running", call[c].why \notin Engines,
         NEW node, NEW then,
         \/ node = call[c].node /\ then = "idle"
         \/ node = call[c].node /\ then = call[c].then /\ call[c].why = "parse"
         \/ node = "dmp" /\ then = "running" /\ call[c].why = "ingest",
         NEW todo \in Seq(AsideEntries)
  PROVE  LET r == [call[c] EXCEPT !.node = node, !.then = then]
         IN  CallOK(Proceed(r, todo)) /\ r \in Calls /\ r.why = call[c].why
<1> DEFINE r == [call[c] EXCEPT !.node = node, !.then = then]
<1>1. call[c] \in Calls /\ CallOK(call[c])  BY DEF Typed
<1>2. /\ node \in Automatic \cup {"start"} /\ then \in {"idle", "running", "choosing"}
      /\ then = "running" => call[c].why = "ingest" /\ node = "dmp"
      /\ then = "choosing" => call[c].why = "advance"
      /\ call[c].why # "none"
  BY <1>1 DEF Calls, CallOK, Automatic
<1>3. r \in Calls /\ r.why = call[c].why /\ r.node = node /\ r.then = then
  BY <1>1, <1>2 DEF Calls
<1> HIDE DEF r
<1>4. TodoOK(r, todo)  BY <1>3 DEF TodoOK
<1>5. CallOK(Proceed(r, todo))  BY <1>2, <1>3, <1>4, ProceedOK
<1> QED  BY <1>3, <1>5 DEF r
-----------------------------------------------------------------------------
(* What a step is, for what follows: one of the engine's (it chooses a     *)
(* node, runs it, appends), a person's request for another draft, one of a *)
(* call beside the engine, or one that only records or ends something.     *)

\* Nothing completed, nothing raised, nothing unsettled, no draft.
Quiet(j, k) ==
    /\ k.completed = j.completed /\ k.raised = j.raised
    /\ \A a \in Drafting : k.settled[a] >= j.settled[a]
    /\ j.seen \subseteq k.seen
    /\ k.seen \subseteq j.seen \cup {"created", "confirmed", "decided", "deposited"}
    /\ k.level # j.level => k.level # 0 /\ "confirmed" \in k.seen
    /\ "confirmed" \in k.seen \ j.seen => k.level # 0

Others(c) == \A d \in Callers \ {c} : call'[d] = call[d]

NotCreated == "created" \in job'.seen => Created

Resting(r, s) ==
    \/ s \in {r, Idle}
    \/ Created /\ s = Calling("advance", "choosing", "start")
    \/ s = [r EXCEPT !.tried = @ + 1]

Rest ==
    /\ Quiet(job, job') /\ NotCreated /\ staged' = staged
    /\ \A c \in Callers : Resting(call[c], call'[c])
    /\ \A c \in Callers : call[c].pc = "staging" /\ "unstaged" \notin Courses =>
                             call'[c] = call[c]

\* Where a call is that is not of the engine.
Beside == {"start", "ingest", "dmp", "declaration"}

Aside(c) ==
    /\ Quiet(job, job') /\ Others(c) /\ staged \subseteq staged'
    /\ call[c].why \notin Engines /\ call'[c].why \notin Engines
    /\ call'[c].node \in {call[c].node} \cup Beside
    /\ call[c].pc # "choosing"
    /\ \/ call'[c].pc = "staging"
       \/ "material" \in staged'
       \/ call[c].pc # "staging" /\ NotCreated

Rerun(c, a) ==
    /\ Quiet(job, job') /\ NotCreated /\ Others(c) /\ staged' = staged
    /\ call[c] = Idle /\ a \in PendingAgents(job)
    /\ call'[c] = Calling("rerun", "running", a)

Takes(c) ==
    /\ job' = job /\ Others(c) /\ staged' = staged
    /\ call[c].pc = "choosing" /\ NextNode(job) # "none" /\ ~ Held(NextNode(job), job)
    /\ call'[c] = [call[c] EXCEPT !.pc = "running", !.node = NextNode(job), !.tried = 0,
                                  !.ran = @ \cup {NextNode(job)}]

Runs(c) ==
    /\ job' = job /\ Others(c) /\ staged' = staged
    /\ call[c].pc = "running" /\ call[c].why \in Engines
    /\ \E out \in Outcomes(call[c].node), then \in {"choosing", "idle"} :
          call'[c] = [call[c] EXCEPT !.then = then, !.pc = "appending",
                        !.todo = out.entries \o GateItemEvents(ClaimedReview(call[c].node, out),
                                                               out.asks)
                                    \o <<StepCompleted(call[c].node)>>]

Appends(c) ==
    /\ job' = After(job, Head(call[c].todo)) /\ Others(c) /\ staged' = staged
    /\ call[c].pc = "appending" /\ call'[c] = Proceed(call[c], Tail(call[c].todo))

LEMMA QuietNote ==
  ASSUME NEW j, JobOK(j), NEW kind \in Notes
  PROVE  /\ Quiet(j, After(j, Of(kind)))
         /\ kind # "created" => ("created" \in After(j, Of(kind)).seen <=> "created" \in j.seen)
<1> DEFINE k == After(j, Of(kind))
<1>1. k.seen = j.seen \cup ({kind} \cap Kinds) /\ k.completed = j.completed
      /\ k.raised = j.raised /\ k.settled = j.settled /\ k.level = j.level
  BY NoteEffect
<1>2. {kind} \cap Kinds \subseteq {"created", "deposited"}  BY DEF Notes, Kinds
<1>3. j.settled \in [Drafting -> Nat]  BY DEF JobOK, JobType
<1> HIDE DEF k
<1>4. Quiet(j, k)  BY <1>1, <1>2, <1>3 DEF Quiet
<1>5. kind # "created" => ("created" \in k.seen <=> "created" \in j.seen)  BY <1>1
<1> QED  BY <1>4, <1>5 DEF k

LEMMA QuietSame ==
  ASSUME NEW j, JobOK(j)
  PROVE  Quiet(j, j)
<1>1. j.settled \in [Drafting -> Nat]  BY DEF JobOK, JobType
<1> QED  BY <1>1 DEF Quiet

LEMMA QuietDecided ==
  ASSUME NEW j, JobOK(j), NEW item, NEW upto \in Nat,
         item \in Drafting => upto <= j.raised[item],
         item \in Questions => item \in j.asked
  PROVE  /\ JobOK(After(j, Decided(item, upto))) /\ Quiet(j, After(j, Decided(item, upto)))
         /\ "created" \in After(j, Decided(item, upto)).seen <=> "created" \in j.seen
<1> DEFINE k == After(j, Decided(item, upto))
<1>1. k.seen = j.seen \cup {"decided"} /\ k.completed = j.completed /\ k.raised = j.raised
      /\ (\A a \in Drafting : k.settled[a] >= j.settled[a]) /\ k.level = j.level /\ JobOK(k)
  BY DecidedEffect
<1> HIDE DEF k
<1>2. Quiet(j, k) /\ ("created" \in k.seen <=> "created" \in j.seen)  BY <1>1 DEF Quiet
<1> QED  BY <1>1, <1>2 DEF k

LEMMA StepIs ==
  ASSUME Typed, [Next]_vars
  PROVE  /\ Typed' /\ submission' = submission
         /\ \/ Rest
            \/ \E c \in Callers : Aside(c) \/ Runs(c) \/ Appends(c) \/ Takes(c)
            \/ \E c \in Callers, a \in Drafting : Rerun(c, a)
<1> DEFINE Kept == faults' \in 0 .. MaxFaults /\ again' \in 0 .. MaxAgain
<1>1. /\ JobOK(job) /\ staged \subseteq {"material", "plan"} /\ call \in [Callers -> Calls]
      /\ \A d \in Callers : CallOK(call[d])
      /\ faults \in 0 .. MaxFaults /\ again \in 0 .. MaxAgain
      /\ MaxFaults \in Nat /\ MaxAgain \in Nat /\ MaxAttempts \in Nat \ {0}
  BY WorkflowAssumption DEF Typed
<1>2. \A d \in Callers : Resting(call[d], call[d])  BY DEF Resting
<1>3. Fault => faults' \in 0 .. MaxFaults  BY <1>1 DEF Fault
<1>4. \A p : Again(p) => again' \in 0 .. MaxAgain  BY <1>1 DEF Again
<1>5. Quiet(job, job) /\ (job' = job => NotCreated)  BY <1>1, QuietSame DEF NotCreated, Created
<1>6. CallOK(Calling("advance", "choosing", "start")) /\ CallOK(Idle)
  BY CallingOK, IdleOK
\* A call that ends, or goes on as it was, or is an advance.
<1>7. ASSUME NEW c \in Callers, NEW r, CallOK(r), call' = [call EXCEPT ![c] = r],
             Resting(call[c], r), submission' = submission, staged' = staged,
             Quiet(job, job'), NotCreated, JobOK(job'), Kept,
             call[c].pc = "staging" /\ "unstaged" \notin Courses => r = call[c]
      PROVE  Typed' /\ Rest
  <2>1. Typed'  BY <1>1, <1>7, TypedStep
  <2>2. call'[c] = r /\ \A d \in Callers \ {c} : call'[d] = call[d]  BY <1>7, CallSet
  <2> QED  BY <1>2, <1>7, <2>1, <2>2 DEF Rest
<1>8. ASSUME call' = call, submission' = submission, staged' = staged,
             Quiet(job, job'), NotCreated, JobOK(job'), Kept
      PROVE  Typed' /\ Rest
  <2>1. Typed'  BY <1>1, <1>8 DEF Typed
  <2> QED  BY <1>2, <1>8, <2>1 DEF Rest
<1>9. CASE UNCHANGED vars
  <2>1. Kept /\ JobOK(job')  BY <1>1, <1>9 DEF vars
  <2> QED  BY <1>5, <1>8, <1>9, <2>1 DEF vars
<1>10. CASE \E c \in Callers : Ingest(c)
  <2>1. PICK c \in Callers : Ingest(c)  BY <1>10
  <2> DEFINE r == Calling("ingest", "staging", "ingest")
  <2>2. CallOK(r) /\ r.pc = "staging" /\ r.why = "ingest" /\ r.node \in Beside
    BY CallingOK DEF Calling, Idle, Beside
  <2>3. call' = [call EXCEPT ![c] = r] /\ call[c] = Idle  BY <2>1 DEF Ingest
  <2>4. "created" \in Notes /\ job' = After(job, Of("created"))  BY <2>1 DEF Notes, Ingest
  <2>5. Quiet(job, job') /\ JobOK(job')  BY <1>1, <2>4, QuietNote, NoteEffect
  <2> HIDE DEF r
  <2>6. Typed'  BY <1>1, <2>1, <2>2, <2>3, <2>5, TypedStep DEF Ingest
  <2>7. call'[c] = r /\ Others(c)  BY <2>2, <2>3, CallSet DEF Others
  <2>8. call[c].why = "none" /\ call[c].pc = "idle"  BY <2>3 DEF Idle
  <2>9. Aside(c)  BY <2>1, <2>2, <2>5, <2>7, <2>8 DEF Aside, Engines, Ingest
  <2> QED  BY <2>1, <2>6, <2>9 DEF Ingest
<1>11. CASE \E c \in Callers : StageSubmission(c)
  <2>1. PICK c \in Callers : StageSubmission(c)  BY <1>11
  <2> DEFINE r == [call[c] EXCEPT !.pc = "running"]
  <2>2. call' = [call EXCEPT ![c] = r]  BY <2>1 DEF StageSubmission
  <2>3. call[c] \in Calls /\ CallOK(call[c]) /\ call[c].pc = "staging"
    BY <1>1, <2>1 DEF StageSubmission
  <2>4. r \in Calls /\ r.pc = "running" /\ r.why = "ingest" /\ r.node = "ingest"
        /\ r.todo = call[c].todo /\ r.then = call[c].then
    BY <2>3 DEF Calls, CallOK, Pcs
  <2>5. call[c].todo = <<>> /\ TodoOK(call[c], call[c].todo)  BY <2>3 DEF CallOK
  <2>6. call[c].why = "ingest" /\ call[c].node = "ingest" /\ (r.then = "running" => FALSE)
        /\ (r.then = "choosing" => FALSE)
    BY <2>3, <2>4 DEF CallOK
  <2> HIDE DEF r
  <2>7. CallOK(r)  BY <2>4, <2>5, <2>6 DEF CallOK, TodoOK, Engines, Automatic
  <2>8. Typed'  BY <1>1, <2>1, <2>2, <2>7, TypedStep DEF StageSubmission
  <2>9. call'[c] = r /\ Others(c)  BY <2>2, <2>7, CallSet DEF Others
  <2>10. Aside(c)
    BY <1>5, <2>1, <2>3, <2>4, <2>6, <2>9 DEF Aside, Beside, Engines, StageSubmission
  <2> QED  BY <2>1, <2>8, <2>10 DEF StageSubmission
<1>12. CASE \E c \in Callers : Choose(c)
  <2>1. PICK c \in Callers : Choose(c)  BY <1>12
  <2>2. UNCHANGED <<submission, staged, job, faults, again>> /\ call[c].pc = "choosing"
    BY <2>1 DEF Choose
  <2>3. JobOK(job') /\ Kept  BY <1>1, <2>2
  <2>4. CASE call' = [call EXCEPT ![c] = Idle]
    <3>1. Resting(call[c], Idle)  BY DEF Resting
    <3> QED  BY <1>5, <1>6, <1>7, <2>2, <2>3, <2>4, <3>1
  <2>5. CASE call' # [call EXCEPT ![c] = Idle]
    <3> DEFINE n == NextNode(job)
               r == [call[c] EXCEPT !.pc = "running", !.node = n, !.tried = 0,
                                    !.ran = @ \cup {n}]
    <3> DEFINE stop == job.halted \/ n = "none" \/ n \in call[c].ran \/ Held(n, job)
    <3>0. call' = [call EXCEPT ![c] = IF stop THEN Idle ELSE r]  BY <2>1 DEF Choose
    <3>1. n # "none" /\ ~ Held(n, job) /\ call' = [call EXCEPT ![c] = r]
      <4> HIDE DEF r
      <4>1. CASE stop
        <5> HIDE DEF stop
        <5> QED  BY <2>5, <3>0, <4>1
      <4>2. CASE ~ stop
        <5>1. n # "none" /\ ~ Held(n, job)  BY <4>2
        <5> HIDE DEF stop
        <5> QED  BY <3>0, <4>2, <5>1
      <4> QED  BY <4>1, <4>2
    <3>2. n \in Automatic  BY <3>1, NextNodeIs DEF Takeable
    <3>3. call[c] \in Calls /\ CallOK(call[c])  BY <1>1
    <3>4. r \in Calls /\ r.pc = "running" /\ r.node = n /\ r.todo = call[c].todo
          /\ r.why = call[c].why /\ r.then = call[c].then
      <4>1. 0 \in 0 .. MaxAttempts - 1  BY <1>1
      <4>2. call[c].ran \cup {n} \in SUBSET Automatic  BY <3>2, <3>3 DEF Calls
      <4> HIDE DEF n
      <4> QED  BY <3>2, <3>3, <4>1, <4>2 DEF Calls, Pcs
    <3>5. call[c].todo = <<>> /\ call[c].why = "advance" /\ call[c].then # "running"
      BY <2>2, <3>3 DEF CallOK
    <3> HIDE DEF r, n
    <3>6. <<>> \in Seq(EngineEntries(n))  OBVIOUS
    <3>7. CallOK(r)  BY <3>2, <3>4, <3>5, <3>6 DEF CallOK, TodoOK, Engines
    <3>8. Typed'  BY <1>1, <2>2, <2>3, <3>1, <3>7, TypedStep
    <3>9. call'[c] = r /\ Others(c)  BY <3>1, <3>7, CallSet DEF Others
    <3>10. Takes(c)  BY <2>2, <3>1, <3>9 DEF Takes, n, r
    <3> QED  BY <2>2, <3>8, <3>10
  <2> QED  BY <2>4, <2>5
<1>13. CASE \E c \in Callers : RunEngine(c)
  <2>1. PICK c \in Callers : RunEngine(c)  BY <1>13
  <2> DEFINE n == call[c].node
             todo(out) == out.entries \o GateItemEvents(ClaimedReview(n, out), out.asks)
                             \o <<StepCompleted(n)>>
  <2>2. call[c].pc = "running" /\ call[c].why \in Engines
        /\ UNCHANGED <<submission, staged, job, faults, again>>
    BY <2>1 DEF RunEngine, Engines
  <2>3. PICK out \in Outcomes(n), then \in {"choosing", "idle"} :
           /\ then = "choosing" => call[c].why = "advance"
           /\ call' = [call EXCEPT ![c] = Proceed([call[c] EXCEPT !.then = then], todo(out))]
    <3>1. PICK out \in Outcomes(n) :
             LET goes == call[c].why = "advance" /\ out.decision
                 r == [call[c] EXCEPT !.then = IF goes THEN "choosing" ELSE "idle"]
             IN  call' = [call EXCEPT ![c] = Proceed(r, todo(out))]
      BY <2>1 DEF RunEngine
    <3>2. CASE call[c].why = "advance" /\ out.decision
      <4>1. call' = [call EXCEPT ![c] = Proceed([call[c] EXCEPT !.then = "choosing"], todo(out))]
        BY <3>1, <3>2
      <4> QED  BY <3>2, <4>1
    <3>3. CASE ~ (call[c].why = "advance" /\ out.decision)
      <4>1. call' = [call EXCEPT ![c] = Proceed([call[c] EXCEPT !.then = "idle"], todo(out))]
        BY <3>1, <3>3
      <4> QED  BY <4>1
    <3> QED  BY <3>2, <3>3
  <2> DEFINE r == [call[c] EXCEPT !.then = then]
  <2>4. CallOK(Proceed(r, todo(out)))
        /\ Proceed(r, todo(out)) = [r EXCEPT !.pc = "appending", !.todo = todo(out)]
    BY <2>2, <2>3, EngineStep
  <2>5. Typed'
    <3> DEFINE s == Proceed(r, todo(out))
    <3>1. CallOK(s) /\ call' = [call EXCEPT ![c] = s]  BY <2>3, <2>4
    <3> HIDE DEF s
    <3>2. JobOK(job') /\ Kept  BY <1>1, <2>2
    <3> QED  BY <1>1, <2>2, <3>1, <3>2, TypedStep
  <2>6. call'[c] = Proceed(r, todo(out)) /\ Others(c)
    <3> DEFINE s == Proceed(r, todo(out))
    <3>1. CallOK(s) /\ call' = [call EXCEPT ![c] = s]  BY <2>3, <2>4
    <3> HIDE DEF s
    <3>2. call'[c] = s /\ Others(c)  BY <3>1, CallSet DEF Others
    <3> QED  BY <3>2 DEF s
  <2>7. [r EXCEPT !.pc = "appending", !.todo = todo(out)]
        = [call[c] EXCEPT !.then = then, !.pc = "appending", !.todo = todo(out)]
    OBVIOUS
  <2>8. call'[c] = [call[c] EXCEPT !.then = then, !.pc = "appending", !.todo = todo(out)]
    BY <2>4, <2>6, <2>7, Zenon
  <2>9. Runs(c)  BY <2>2, <2>6, <2>8 DEF Runs
  <2> QED  BY <2>2, <2>5, <2>9
<1>14. CASE \E c \in Callers : AppendRun(c)
  <2>1. PICK c \in Callers : AppendRun(c)  BY <1>14
  <2> DEFINE s == Proceed(call[c], Tail(call[c].todo))
  <2>2. /\ call[c].pc = "appending" /\ job' = After(job, Head(call[c].todo))
        /\ call' = [call EXCEPT ![c] = s]
        /\ UNCHANGED <<submission, staged, faults, again>>
    BY <2>1 DEF AppendRun
  <2>3. CallOK(s) /\ JobOK(job')  BY <2>2, AppendStep
  <2> HIDE DEF s
  <2>4. Typed'
    <3>1. Kept  BY <1>1, <2>2
    <3> QED  BY <1>1, <2>2, <2>3, <3>1, TypedStep
  <2>5. call'[c] = s /\ Others(c)  BY <2>2, <2>3, CallSet DEF Others
  <2>6. Appends(c)  BY <2>2, <2>5 DEF Appends, s
  <2> QED  BY <2>2, <2>4, <2>6
\* A call beside the engine that returned.
<1>15. ASSUME NEW c \in Callers, call[c].pc = "running", call[c].why \notin Engines,
              NEW node, NEW then,
              \/ node = call[c].node /\ then = "idle"
              \/ node = call[c].node /\ then = call[c].then /\ call[c].why = "parse"
              \/ node = "dmp" /\ then = "running" /\ call[c].why = "ingest",
              NEW todo \in Seq(AsideEntries), NEW s,
              s = Proceed([call[c] EXCEPT !.node = node, !.then = then], todo),
              call' = [call EXCEPT ![c] = s],
              staged \subseteq staged', staged' \subseteq {"material", "plan"},
              UNCHANGED <<submission, job, faults, again>>
       PROVE  Typed' /\ Aside(c)
  <2> DEFINE r == [call[c] EXCEPT !.node = node, !.then = then]
  <2>1. CallOK(s) /\ r \in Calls /\ r.why = call[c].why
    BY <1>15, AsideStep
  <2>2. JobOK(job') /\ Kept  BY <1>1, <1>15
  <2>3. Typed'  BY <1>1, <1>15, <2>1, <2>2, TypedStep
  <2>4. call'[c] = s /\ Others(c)  BY <1>15, <2>1, CallSet DEF Others
  <2>5. s.why \notin Engines /\ s.node \in {call[c].node} \cup Beside
    <3>1. s \in {Idle, [r EXCEPT !.pc = "appending", !.todo = todo],
                 [r EXCEPT !.pc = r.then, !.todo = <<>>]}
      BY <1>15 DEF Proceed
    <3>2. Idle.why = "none" /\ Idle.node = "start"  BY DEF Idle
    <3>3. r.node = node  BY <1>1 DEF Calls
    <3> HIDE DEF r
    <3> QED  BY <1>15, <2>1, <3>1, <3>2, <3>3 DEF Calls, Engines, Beside
  <2>6. Quiet(job, job') /\ NotCreated  BY <1>5, <1>15
  <2> QED  BY <1>15, <2>3, <2>4, <2>5, <2>6 DEF Aside
<1>16. CASE \E c \in Callers : ParseDeclaration(c)
  <2>1. PICK c \in Callers : ParseDeclaration(c)  BY <1>16
  <2>2. PICK out \in ReadStatement : call' = [call EXCEPT ![c] = Proceed(call[c], out.entries)]
    BY <2>1 DEF ParseDeclaration
  <2>3. out.entries \in Seq(AsideEntries)  BY <2>2, AsideOutcomes
  <2>4. call[c] \in Calls /\ call[c] = [call[c] EXCEPT !.node = call[c].node, !.then = call[c].then]
    BY <1>1 DEF Calls
  <2>5. Proceed(call[c], out.entries)
        = Proceed([call[c] EXCEPT !.node = call[c].node, !.then = call[c].then], out.entries)
    BY <2>4
  <2>6. call[c].pc = "running" /\ call[c].why = "parse" /\ call[c].why \notin Engines
        /\ UNCHANGED <<submission, staged, job, faults, again>>
    BY <2>1 DEF ParseDeclaration, Engines
  <2>7. staged \subseteq staged' /\ staged' \subseteq {"material", "plan"}  BY <1>1, <2>6
  <2>8. Typed' /\ Aside(c)
    <3> DEFINE node == call[c].node
               then == call[c].then
               s == Proceed(call[c], out.entries)
    <3>1. s = Proceed([call[c] EXCEPT !.node = node, !.then = then], out.entries)
          /\ call' = [call EXCEPT ![c] = s]
      BY <2>2, <2>5
    <3>2. \/ node = call[c].node /\ then = "idle"
          \/ node = call[c].node /\ then = call[c].then /\ call[c].why = "parse"
          \/ node = "dmp" /\ then = "running" /\ call[c].why = "ingest"
      BY <2>6
    <3> HIDE DEF s, node, then
    <3> QED  BY <1>15, <2>3, <2>6, <2>7, <3>1, <3>2
  <2> QED  BY <2>6, <2>8
<1>17. CASE \E c \in Callers : IngestMaterial(c)
  <2>1. PICK c \in Callers : IngestMaterial(c)  BY <1>17
  <2>2. PICK out \in Ingestion :
           call' = [call EXCEPT ![c] =
              Proceed([call[c] EXCEPT !.node = "dmp", !.then = "running"], out.entries)]
    BY <2>1 DEF IngestMaterial
  <2>3. out.entries \in Seq(AsideEntries)  BY <2>2, AsideOutcomes
  <2>4. call[c].pc = "running" /\ call[c].why = "ingest" /\ call[c].why \notin Engines
        /\ UNCHANGED <<submission, job, faults, again>>
        /\ staged' = staged \cup (IF submission.plan = "reference" THEN {"plan"} ELSE {})
    BY <2>1 DEF IngestMaterial, Engines
  <2>5. staged \subseteq staged' /\ staged' \subseteq {"material", "plan"}  BY <1>1, <2>4
  <2>6. Typed' /\ Aside(c)
    <3> DEFINE s == Proceed([call[c] EXCEPT !.node = "dmp", !.then = "running"], out.entries)
    <3>1. call' = [call EXCEPT ![c] = s]  BY <2>2
    <3> QED  BY <1>15, <2>3, <2>4, <2>5, <3>1
  <2> QED  BY <2>4, <2>6
<1>18. CASE \E c \in Callers : ResolveDmp(c)
  <2>1. PICK c \in Callers : ResolveDmp(c)  BY <1>18
  <2>2. PICK out \in ReadPlan, choice \in SUBSET (Questions \cap {"choice"}) :
           call' = [call EXCEPT ![c] =
              Proceed([call[c] EXCEPT !.then = "idle"],
                      out.entries \o GateItemEvents({}, out.asks \cup choice))]
    BY <2>1 DEF ResolveDmp
  <2> DEFINE todo == out.entries \o GateItemEvents({}, out.asks \cup choice)
  <2>3. todo \in Seq(AsideEntries)
    <3>1. out.entries \in Seq(AsideEntries) /\ out.asks \cup choice \in SUBSET Questions
      BY <2>2, AsideOutcomes
    <3>2. \A q \in SUBSET Questions : Items({}, q) \in AsideEntries  BY DEF AsideEntries
    <3>3. GateItemEvents({}, out.asks \cup choice) \in Seq(AsideEntries)
      BY <3>1, <3>2, ItemEvents
    <3> QED  BY <3>1, <3>3, ConcatProperties
  <2> HIDE DEF todo
  <2>4. call[c].pc = "running" /\ call[c].why = "ingest" /\ call[c].why \notin Engines
        /\ UNCHANGED <<submission, staged, job, faults, again>>
    BY <2>1 DEF ResolveDmp, Engines
  <2>5. staged \subseteq staged' /\ staged' \subseteq {"material", "plan"}  BY <1>1, <2>4
  <2>6. [call[c] EXCEPT !.then = "idle"] = [call[c] EXCEPT !.node = call[c].node, !.then = "idle"]
    <3>1. call[c] \in Calls  BY <1>1
    <3> QED  BY <3>1 DEF Calls
  <2>7. Typed' /\ Aside(c)
    <3> DEFINE s == Proceed([call[c] EXCEPT !.then = "idle"], todo)
               node == call[c].node
    <3>1. call' = [call EXCEPT ![c] = s]  BY <2>2 DEF todo
    <3>2. s = Proceed([call[c] EXCEPT !.node = node, !.then = "idle"], todo)  BY <2>6
    <3> HIDE DEF s
    <3> QED  BY <1>15, <2>3, <2>4, <2>5, <3>1, <3>2
  <2> QED  BY <2>4, <2>7
<1>19. CASE \E c \in Callers : Advance(c)
  <2>1. PICK c \in Callers : Advance(c)  BY <1>19
  <2>2. UNCHANGED <<submission, staged, job, again>> /\ call[c] = Idle /\ Created
    BY <2>1 DEF Advance
  <2>3. Kept  BY <1>1, <1>3, <2>1 DEF Advance
  <2>4. JobOK(job') /\ Quiet(job, job') /\ NotCreated  BY <1>1, <1>5, <2>2
  <2>5. CASE call' = call  BY <1>8, <2>2, <2>3, <2>4, <2>5
  <2>6. CASE call' = [call EXCEPT ![c] = Calling("advance", "choosing", "start")]
    <3>1. Resting(call[c], Calling("advance", "choosing", "start"))  BY <2>2 DEF Resting
    <3>2. call[c].pc # "staging"  BY <2>2 DEF Idle
    <3> QED  BY <1>6, <1>7, <2>2, <2>3, <2>4, <2>6, <3>1, <3>2
  <2> QED  BY <2>1, <2>5, <2>6 DEF Advance
<1>20. CASE \E c \in Callers : RecordStatement(c)
  <2>1. PICK c \in Callers : RecordStatement(c)  BY <1>20
  <2> DEFINE r == Calling("parse", "running", "declaration")
  <2>2. CallOK(r) /\ r.pc = "running" /\ r.why = "parse" /\ r.node \in Beside
    BY CallingOK DEF Calling, Idle, Beside
  <2>3. call' = [call EXCEPT ![c] = r] /\ call[c] = Idle /\ Created
        /\ UNCHANGED <<submission, staged, faults>>
    BY <2>1 DEF RecordStatement
  <2>4. "said" \in Notes /\ job' = After(job, Of("said"))  BY <2>1 DEF Notes, RecordStatement
  <2>5. Quiet(job, job') /\ JobOK(job')  BY <1>1, <2>4, QuietNote, NoteEffect
  <2>6. Kept  BY <1>1, <1>4, <2>1, <2>3 DEF RecordStatement
  <2> HIDE DEF r
  <2>7. Typed'  BY <1>1, <2>2, <2>3, <2>5, <2>6, TypedStep
  <2>8. call'[c] = r /\ Others(c)  BY <2>2, <2>3, CallSet DEF Others
  <2>9. call[c].why = "none" /\ call[c].pc = "idle"  BY <2>3 DEF Idle
  <2>10. Aside(c)  BY <2>2, <2>3, <2>5, <2>8, <2>9 DEF Aside, Engines, NotCreated
  <2> QED  BY <2>3, <2>7, <2>10
<1>21. CASE \E c \in Callers, choice \in Levels : ConfirmDeclaration(c, choice)
  <2>1. PICK c \in Callers, choice \in Levels : ConfirmDeclaration(c, choice)  BY <1>21
  <2>2. UNCHANGED <<submission, staged, faults>> /\ call[c] = Idle /\ Created
        /\ job' = After(job, Confirmed(Assumed(choice)))
    BY <2>1 DEF ConfirmDeclaration
  <2>3. Assumed(choice) \in Levels /\ Assumed(choice) # 0  BY DEF Assumed, Levels
  <2>4. JobOK(job') /\ Quiet(job, job') /\ NotCreated
    <3>1. /\ JobOK(job') /\ job'.seen = job.seen \cup {"confirmed"}
          /\ job'.completed = job.completed /\ job'.raised = job.raised
          /\ job'.settled = job.settled /\ job'.level = Assumed(choice)
      BY <1>1, <2>2, <2>3, ConfirmedEffect
    <3>2. job.settled \in [Drafting -> Nat]  BY <1>1 DEF JobOK, JobType
    <3> QED  BY <2>2, <2>3, <3>1, <3>2 DEF Quiet, NotCreated
  <2>5. Kept  BY <1>1, <1>4, <2>1, <2>2 DEF ConfirmDeclaration
  <2>6. call[c].pc # "staging"  BY <2>2 DEF Idle
  <2>7. CASE call' = [call EXCEPT ![c] = Idle]
    <3>1. Resting(call[c], Idle)  BY DEF Resting
    <3> QED  BY <1>6, <1>7, <2>2, <2>4, <2>5, <2>6, <2>7, <3>1
  <2>8. CASE call' = [call EXCEPT ![c] = Calling("advance", "choosing", "start")]
    <3>1. Resting(call[c], Calling("advance", "choosing", "start"))  BY <2>2 DEF Resting
    <3> QED  BY <1>6, <1>7, <2>2, <2>4, <2>5, <2>6, <2>8, <3>1
  <2> QED  BY <2>1, <2>7, <2>8 DEF ConfirmDeclaration
<1>22. CASE \E c \in Callers, a \in Drafting : RequestRerun(c, a)
  <2>1. PICK c \in Callers, a \in Drafting : RequestRerun(c, a)  BY <1>22
  <2> DEFINE r == Calling("rerun", "running", a)
             j == After(job, Decided("again", 0))
  <2>2. CallOK(r)  BY CallingOK
  <2>3. /\ call' = [call EXCEPT ![c] = r] /\ call[c] = Idle /\ a \in PendingAgents(job)
        /\ job' = After(j, Of("note")) /\ UNCHANGED <<submission, staged, faults>>
    BY <2>1 DEF RequestRerun
  <2>4. JobOK(j) /\ Quiet(job, j) /\ ("created" \in j.seen <=> "created" \in job.seen)
    <3>1. "again" \notin Drafting /\ "again" \notin Questions  BY DraftingIs
    <3> HIDE DEF j
    <3> QED  BY <1>1, <3>1, QuietDecided DEF j
  <2> HIDE DEF j
  <2>5. "note" \in Notes  BY DEF Notes
  <2>6. /\ JobOK(job') /\ job'.completed = j.completed /\ job'.raised = j.raised
        /\ job'.settled = j.settled /\ job'.level = j.level
        /\ job'.seen = j.seen \cup ({"note"} \cap Kinds)
    BY <2>3, <2>4, <2>5, NoteEffect
  <2>7. job'.seen = j.seen  BY <2>6 DEF Kinds
  <2>8. Quiet(job, job')  BY <2>4, <2>6, <2>7 DEF Quiet
  <2>10. NotCreated  BY <2>4, <2>7 DEF NotCreated, Created
  <2>11. Kept  BY <1>1, <1>4, <2>1, <2>3 DEF RequestRerun
  <2> HIDE DEF r
  <2>12. Typed'  BY <1>1, <2>2, <2>3, <2>6, <2>11, TypedStep
  <2>13. call'[c] = r /\ Others(c)  BY <2>2, <2>3, CallSet DEF Others
  <2>14. Rerun(c, a)  BY <2>3, <2>8, <2>10, <2>13 DEF Rerun, r
  <2> QED  BY <2>3, <2>12, <2>14
<1>23. CASE \E c \in Callers : ServiceFails(c)
  <2>1. PICK c \in Callers : ServiceFails(c)  BY <1>23
  <2> DEFINE last == LastAttempt(call[c].tried)
             r == [call[c] EXCEPT !.tried = @ + 1]
             kind == IF last THEN "halted" ELSE "failed"
  <2>2. /\ call[c].pc = "running" /\ Fault /\ job' = After(job, Of(kind))
        /\ call' = [call EXCEPT ![c] = IF last THEN Idle ELSE r]
        /\ UNCHANGED <<submission, staged, again>>
    BY <2>1 DEF ServiceFails
  <2>3. Kept  BY <1>1, <1>3, <2>2
  <2>4. kind \in Notes /\ kind # "created"  BY DEF Notes
  <2> HIDE DEF kind
  <2>5. JobOK(job') /\ Quiet(job, job') /\ NotCreated
    BY <1>1, <2>2, <2>4, QuietNote, NoteEffect DEF NotCreated, Created
  <2>6. call[c].pc # "staging"  BY <2>2
  <2>7. CASE last
    <3>1. call' = [call EXCEPT ![c] = Idle]  BY <2>2, <2>7
    <3>2. Resting(call[c], Idle)  BY DEF Resting
    <3> QED  BY <1>6, <1>7, <2>2, <2>3, <2>5, <2>6, <3>1, <3>2
  <2>8. CASE ~ last
    <3>1. call' = [call EXCEPT ![c] = r]
      <4> HIDE DEF last, r
      <4> QED  BY <2>2, <2>8 DEF r
    <3>2. Resting(call[c], r)  BY DEF Resting
    <3>3. call[c] \in Calls /\ CallOK(call[c])  BY <1>1
    <3>4. call[c].tried + 1 \in 0 .. MaxAttempts - 1
      <4>1. call[c].tried \in 0 .. MaxAttempts - 1 /\ ~ call[c].tried + 1 >= MaxAttempts
        BY <2>8, <3>3 DEF Calls, LastAttempt
      <4> QED  BY <1>1, <4>1
    <3>5. r \in Calls /\ r.pc = call[c].pc /\ r.why = call[c].why /\ r.node = call[c].node
          /\ r.todo = call[c].todo /\ r.then = call[c].then
      BY <3>3, <3>4 DEF Calls
    <3> HIDE DEF r
    <3>6. CallOK(r)  BY <3>3, <3>5 DEF CallOK, TodoOK
    <3> QED  BY <1>7, <2>2, <2>3, <2>5, <2>6, <3>1, <3>2, <3>6
  <2> QED  BY <2>7, <2>8
<1>24. CASE \E c \in Callers : StepRaises(c)
  <2>1. PICK c \in Callers : StepRaises(c)  BY <1>24
  <2>2. /\ call[c].pc = "running" /\ Fault /\ job' = After(job, Of("halted"))
        /\ call' = [call EXCEPT ![c] = Idle] /\ UNCHANGED <<submission, staged, again>>
    BY <2>1 DEF StepRaises
  <2>3. Kept  BY <1>1, <1>3, <2>2
  <2>4. "halted" \in Notes  BY DEF Notes
  <2>5. JobOK(job') /\ Quiet(job, job') /\ NotCreated
    BY <1>1, <2>2, <2>4, QuietNote, NoteEffect DEF NotCreated, Created
  <2>6. Resting(call[c], Idle)  BY DEF Resting
  <2>7. call[c].pc # "staging"  BY <2>2
  <2> QED  BY <1>6, <1>7, <2>2, <2>3, <2>5, <2>6, <2>7
<1>25. CASE \E c \in Callers : Die(c)
  <2>1. PICK c \in Callers : Die(c)  BY <1>25
  <2>2. /\ call[c].pc = "staging" => "unstaged" \in Courses
        /\ Fault /\ call' = [call EXCEPT ![c] = Idle] /\ UNCHANGED <<submission, staged, job, again>>
    BY <2>1 DEF Die
  <2>3. Kept  BY <1>1, <1>3, <2>2
  <2>4. JobOK(job') /\ Quiet(job, job') /\ NotCreated  BY <1>1, <1>5, <2>2
  <2>5. Resting(call[c], Idle)  BY DEF Resting
  <2> QED  BY <1>6, <1>7, <2>2, <2>3, <2>4, <2>5
<1>26. CASE \E a \in Drafting : \E upto \in 1..job.raised[a] : Validate(a, upto)
  <2>0. PICK a \in Drafting : \E upto \in 1..job.raised[a] : Validate(a, upto)  BY <1>26
  <2>1. PICK upto \in 1..job.raised[a] : Validate(a, upto)  BY <2>0
  <2>2. job' = After(job, Decided(a, upto)) /\ UNCHANGED <<submission, staged, call, faults, again>>
    BY <2>1 DEF Validate
  <2>3. job.raised[a] \in Nat  BY <1>1 DEF JobOK, JobType
  <2>4. upto \in Nat /\ upto <= job.raised[a]  BY <2>1, <2>3
  <2>5. a \notin Questions  BY <2>1, DraftingIs
  <2>6. JobOK(job') /\ Quiet(job, job') /\ NotCreated
    BY <1>1, <2>2, <2>4, <2>5, QuietDecided DEF NotCreated, Created
  <2> QED  BY <1>1, <1>8, <2>2, <2>6
<1>27. CASE \E q \in Questions : Resolve(q)
  <2>1. PICK q \in Questions : Resolve(q)  BY <1>27
  <2>2. /\ job' = After(job, Decided(q, 0)) /\ q \in job.asked
        /\ UNCHANGED <<submission, staged, call, faults, again>>
    BY <2>1 DEF Resolve, OpenQuestions
  <2>3. q \notin Drafting  BY <2>1, DraftingIs
  <2>4. JobOK(job') /\ Quiet(job, job') /\ NotCreated
    BY <1>1, <2>2, <2>3, QuietDecided DEF NotCreated, Created
  <2> QED  BY <1>1, <1>8, <2>2, <2>4
<1>28. CASE ShowGate \/ Publish
  <2>1. PICK kind \in {"displayed", "deposited"} : job' = After(job, Of(kind))
    BY <1>28 DEF ShowGate, Publish
  <2>2. UNCHANGED <<submission, staged, call, faults, again>>  BY <1>28 DEF ShowGate, Publish
  <2>3. kind \in Notes /\ kind # "created"  BY <2>1 DEF Notes
  <2>4. JobOK(job') /\ Quiet(job, job') /\ NotCreated
    BY <1>1, <2>1, <2>3, QuietNote, NoteEffect DEF NotCreated, Created
  <2> QED  BY <1>1, <1>8, <2>2, <2>4
<1> QED
  BY <1>9, <1>10, <1>11, <1>12, <1>13, <1>14, <1>16, <1>17, <1>18, <1>19, <1>20, <1>21,
     <1>22, <1>23, <1>24, <1>25, <1>26, <1>27, <1>28 DEF Next, Work

(* The types hold throughout: what the log counts, asks and settles fits   *)
(* together, and a call has something to append just while it appends.     *)
THEOREM TypeCorrect == Spec => []TypeOK
<1>1. Typed /\ [Next]_vars => Typed'  BY StepIs
<1>2. Typed => TypeOK
  <2> SUFFICES ASSUME Typed  PROVE TypeOK  OBVIOUS
  <2>1. /\ job.seen \subseteq Kinds /\ job.completed \subseteq Automatic /\ job.level \in Levels
        /\ {job.said, job.halted, job.commitments} \subseteq BOOLEAN
        /\ job.answered \subseteq job.asked /\ job.asked \subseteq Questions
    BY DEF Typed, JobOK, JobType
  <2>2. \A a \in Drafting : job.settled[a] \in 0..job.raised[a]
    <3>1. job.settled \in [Drafting -> Nat] /\ job.raised \in [Drafting -> Nat]
          /\ \A a \in Drafting : job.settled[a] <= job.raised[a]
      BY DEF Typed, JobOK, JobType
    <3> QED  BY <3>1
  <2>3. ASSUME NEW c \in Callers
        PROVE  /\ call[c].pc \in Pcs
               /\ call[c].then \in {"idle", "running", "choosing"}
               /\ call[c].node \in Automatic \cup {"start"}
               /\ call[c].ran \subseteq Automatic
               /\ call[c].tried \in 0..(MaxAttempts - 1)
               /\ (call[c].pc = "appending") = (call[c].todo # <<>>)
    <3>1. call[c] \in Calls /\ CallOK(call[c])  BY DEF Typed
    <3> QED  BY <3>1 DEF Calls, CallOK
  <2> QED  BY <2>1, <2>2, <2>3 DEF Typed, TypeOK
<1> QED  BY <1>1, <1>2, TypedInit, PTL DEF Spec
-----------------------------------------------------------------------------
(* The order of the steps. *)

\* Only the engine's choice starts a node from where it chooses.
LEMMA StartsByChoice ==
  ASSUME Typed, [Next]_vars, NEW c \in Callers,
         call[c].pc = "choosing", call'[c].pc = "running"
  PROVE  /\ Takes(c) /\ call'[c].node = NextNode(job)
<1>1. call[c] \in Calls /\ call[c].pc # call'[c].pc  BY DEF Typed
<1>2. ~ Rest
  <2> SUFFICES ASSUME Rest  PROVE FALSE  OBVIOUS
  <2>1. Resting(call[c], call'[c])  BY DEF Rest
  <2>2. Idle.pc = "idle" /\ Calling("advance", "choosing", "start").pc = "choosing"
    BY DEF Idle, Calling
  <2>3. [call[c] EXCEPT !.tried = @ + 1].pc = call[c].pc  BY <1>1 DEF Calls
  <2> QED  BY <1>1, <2>1, <2>2, <2>3 DEF Resting
<1>3. \A d \in Callers : ~ Aside(d) /\ ~ Runs(d) /\ ~ Appends(d)
  <2> TAKE d \in Callers
  <2>1. CASE d = c  BY <2>1 DEF Aside, Runs, Appends
  <2>2. CASE d # c  BY <1>1, <2>2 DEF Aside, Runs, Appends, Others
  <2> QED  BY <2>1, <2>2
<1>4. \A d \in Callers, a \in Drafting : ~ Rerun(d, a)
  <2> TAKE d \in Callers, a \in Drafting
  <2>1. CASE d = c  BY <2>1 DEF Rerun, Idle
  <2>2. CASE d # c  BY <1>1, <2>2 DEF Rerun, Others
  <2> QED  BY <2>1, <2>2
<1>5. PICK d \in Callers : Takes(d)  BY <1>2, <1>3, <1>4, StepIs
<1>6. d = c  BY <1>1, <1>5 DEF Takes, Others
<1>7. call'[c].node = NextNode(job)  BY <1>1, <1>5, <1>6 DEF Takes, Calls
<1> QED  BY <1>5, <1>6, <1>7

(* A step starts a node only when nothing that could run stands before it  *)
(* on an open path, whatever else happens to the job meanwhile.            *)
THEOREM StepsInOrder == Spec => UpstreamFirst
<1>1. ASSUME Typed, [Next]_vars, NEW c \in Callers,
             call[c].pc = "choosing", call'[c].pc = "running"
      PROVE  Ancestors[call'[c].node] \cap OnOpenPath(job) \cap Takeable(job) = {}
  <2>1. call'[c].node = NextNode(job) /\ NextNode(job) # "none"
    BY <1>1, StartsByChoice DEF Takes
  <2>2. /\ NextNode(job) \in Takeable(job)
        /\ \A a \in Before(NextNode(job)) : Listed(Walk(job), a) => a \notin Takeable(job)
    BY <2>1, NextNodeIs
  <2>3. Ancestors[NextNode(job)] \subseteq Before(NextNode(job))
    BY <2>2, AncestorsBefore DEF Takeable
  <2>4. \A a \in OnOpenPath(job) : Listed(Walk(job), a)
    <3>1. DOMAIN Walk(job) = 1 .. Len(Walk(job))  BY WalkOfJob
    <3> QED  BY <3>1 DEF OnOpenPath, Listed
  <2> QED  BY <2>1, <2>2, <2>3, <2>4
<1>2. Typed /\ [Next]_vars =>
         [\A c \in Callers : call[c].pc = "choosing" /\ call'[c].pc = "running" =>
            Ancestors[call'[c].node] \cap OnOpenPath(job) \cap Takeable(job) = {}]_vars
  BY <1>1
<1>3. Typed /\ [Next]_vars => Typed'  BY StepIs
<1> QED  BY <1>2, <1>3, TypedInit, PTL DEF Spec, UpstreamFirst
-----------------------------------------------------------------------------
(* What is on the walk. *)

\* Whoever is on the walk has what must stand before it there.
LEMMA WalkBack ==
  ASSUME NEW j, NEW n, Listed(Walk(j), n), n # "ingest"
  PROVE  \E m : Leads(HeldIn(j), m, n) /\ Listed(Walk(j), m)
<1> DEFINE w == Walk(j)
<1>0. w \in Seq(Nodes)  BY WalkOfJob
<1>1. PICK i \in 1 .. Len(w) : w[i] = n  BY DEF Listed
<1>2. PICK m : Leads(HeldIn(j), m, w[i]) /\ Passed(w, i, m)  BY <1>1, WalkOfJob
<1>3. Listed(w, m)
  <2>1. PICK k \in 1 .. i - 1 : w[k] = m  BY <1>2 DEF Passed
  <2>2. Len(w) \in Nat  BY <1>0
  <2>3. k \in 1 .. Len(w)  BY <2>1, <2>2
  <2> QED  BY <2>1, <2>3 DEF Listed
<1> QED  BY <1>1, <1>2, <1>3

\* Behind the classification everything is on the walk, or nothing before it.
LEMMA WalkBehind ==
  ASSUME NEW j,
         \E n \in {"classification", "media", "redaction", "metadata", "documentation",
                   "validation", "repository", "review", "deposit"} : Listed(Walk(j), n)
  PROVE  /\ "material" \in j.seen /\ j.level # 0
         /\ \A n \in {"ingest", "dmp", "declaration", "confirm_declaration", "classification",
                      "metadata", "documentation", "validation", "repository", "review",
                      "deposit"} : Listed(Walk(j), n)
         /\ submission.images => Listed(Walk(j), "media")
         /\ j.level = 2 => Listed(Walk(j), "redaction")
<1> DEFINE On(n) == Listed(Walk(j), n)
           held  == HeldIn(j)
<1>0. /\ "material" \in held => "material" \in j.seen
      /\ "confirmed" \in held => j.level # 0
      /\ submission.images /\ "material" \in j.seen => "images" \in held
      /\ j.level = 2 => "sensitive" \in held
  BY DEF HeldIn, Holds, Conditions
<1>1. \A n : On(n) /\ n # "ingest" => \E m : Leads(held, m, n) /\ On(m)  BY WalkBack
<1>2. \A m, n : On(m) /\ Leads(held, m, n) => On(n)  BY WalkOfJob
<1> HIDE DEF On, held
<1>3. On("deposit") => On("review")  BY <1>1 DEF Leads
<1>4. On("review") => On("redaction") \/ On("repository")  BY <1>1 DEF Leads
<1>5. On("repository") => On("validation")  BY <1>1 DEF Leads
<1>6. On("validation") => On("documentation")  BY <1>1 DEF Leads
<1>7. On("documentation") => On("metadata")  BY <1>1 DEF Leads
<1>8. On("metadata") => On("media") \/ On("classification")  BY <1>1 DEF Leads
<1>9. (On("media") \/ On("redaction")) => On("classification")  BY <1>1 DEF Leads
<1>10. On("classification")
  <2>1. \E n \in {"classification", "media", "redaction", "metadata", "documentation",
                  "validation", "repository", "review", "deposit"} : On(n)
    BY DEF On
  <2> QED  BY <2>1, <1>3, <1>4, <1>5, <1>6, <1>7, <1>8, <1>9
<1>11. On("confirm_declaration") /\ "confirmed" \in held  BY <1>1, <1>10 DEF Leads
<1>12. On("declaration")  BY <1>1, <1>11 DEF Leads
<1>13. On("dmp") /\ "material" \in held  BY <1>1, <1>12 DEF Leads
<1>14. On("ingest")  BY <1>1, <1>13 DEF Leads
<1>15. On("metadata")  BY <1>2, <1>10 DEF Leads
<1>16. On("documentation")  BY <1>2, <1>15 DEF Leads
<1>17. On("validation")  BY <1>2, <1>16 DEF Leads
<1>18. On("repository")  BY <1>2, <1>17 DEF Leads
<1>19. On("review")  BY <1>2, <1>18 DEF Leads
<1>20. On("deposit")  BY <1>2, <1>19 DEF Leads
<1>21. "images" \in held => On("media")  BY <1>2, <1>10 DEF Leads
<1>22. "sensitive" \in held => On("redaction")  BY <1>2, <1>10 DEF Leads
<1> QED  BY <1>0, <1>10, <1>11, <1>12, <1>13, <1>14, <1>15, <1>16, <1>17, <1>18, <1>19,
            <1>20, <1>21, <1>22 DEF On

\* What Completed and the walk say of a node that does not run.
LEMMA NotTakeable ==
  ASSUME NEW j, NextNode(j) = "none", NEW n \in Automatic, Listed(Walk(j), n), Requires(n, j)
  PROVE  n \in Completed(j)
<1>1. n \notin Takeable(j)
  <2>1. "none" \notin Takeable(j)  BY DEF Takeable, Automatic
  <2> QED  BY <2>1, NextNodeIs
<1> QED  BY <1>1 DEF Takeable

LEMMA BlockingIs ==
  ASSUME NEW j
  PROVE  \/ Blocking(j) = "none" /\ \A n \in Human : Listed(Walk(j), n) => n \in Completed(j)
         \/ Blocking(j) \in Human /\ Listed(Walk(j), Blocking(j))
<1> DEFINE w == Walk(j)
           wanted == Human \ Completed(j)
<1>1. w \in Seq(Nodes) /\ Blocking(j) = FirstIn(w, wanted)  BY WalkOfJob DEF Blocking
<1> HIDE DEF w
<1>2. CASE FirstIn(w, wanted) = "none" /\ \A n : Listed(w, n) => n \notin wanted
  BY <1>1, <1>2 DEF w
<1>3. CASE \E i \in 1 .. Len(w) : FirstIn(w, wanted) = w[i] /\ w[i] \in wanted
  <2>1. PICK i \in 1 .. Len(w) : FirstIn(w, wanted) = w[i] /\ w[i] \in wanted  BY <1>3
  <2>2. Listed(w, w[i])  BY DEF Listed
  <2> QED  BY <1>1, <2>1, <2>2 DEF w
<1> HIDE DEF wanted
<1> QED  BY <1>1, <1>2, <1>3, FirstInIs

\* What a node that makes something has made when it counts as completed.
LEMMA MadeIt ==
  ASSUME NEW j, NEW n, n \in Completed(j)
  PROVE  \/ n \in j.completed
         \/ n = "ingest" /\ "material" \in j.seen
         \/ n = "dmp" /\ "plan" \in j.seen
         \/ n = "declaration" /\ "parsed" \in j.seen
         \/ n = "confirm_declaration" /\ "confirmed" \in j.seen
         \/ n = "classification" /\ "classified" \in j.seen
         \/ n = "metadata" /\ "drafted" \in j.seen
         \/ n = "documentation" /\ "documented" \in j.seen
         \/ n = "validation" /\ "validated" \in j.seen
         \/ n = "review" /\ "decided" \in j.seen
         \/ n = "deposit" /\ "deposited" \in j.seen
BY DEF Completed, Produces, Nodes, Automatic, Human
-----------------------------------------------------------------------------
(* What a completed node has made. *)

\* What an append makes of the job.
LEMMA AppendEffect ==
  ASSUME Typed, NEW c \in Callers, Appends(c)
  PROVE  LET e == Head(call[c].todo)
             n == call[c].node
         IN  /\ job'.seen = job.seen \cup ({e.kind} \cap Kinds)
             /\ e.kind # "confirmed" /\ e.kind # "created"
             /\ e.kind \in {"classified", "drafted", "documented", "validated"} =>
                   /\ call[c].why \in Engines
                   /\ e.kind \in {"drafted", "documented", "validated"} => e.kind \in Drafts(n)
                   /\ e.kind = "classified" => n \in {"classification", "media"}
             /\ \/ job'.completed = job.completed
                \/ /\ call[c].why \in Engines /\ n \in Automatic /\ e = StepCompleted(n)
                   /\ job'.completed = job.completed \cup {n}
             /\ \A a \in Drafting : \/ job'.raised[a] = job.raised[a]
                                    \/ /\ call[c].why \in Engines /\ a = n
                                       /\ job'.raised[a] = job.raised[a] + 1
             /\ job'.settled = job.settled
             /\ (job'.level = 0) = (job.level = 0)
<1> DEFINE r == call[c]
           e == Head(r.todo)
           n == r.node
<1>1. job' = After(job, e) /\ r.pc = "appending"  BY DEF Appends
<1>2. JobOK(job)  BY DEF Typed
<1>3. /\ r.why \in Engines => n \in Automatic /\ e \in EngineEntries(n)
      /\ r.why \notin Engines => e \in AsideEntries
  BY <1>1, AppendStep
<1> HIDE DEF r, e, n
<1>4. CASE r.why \in Engines
  <2>1. EngineMakes(job', job, n, e)  BY <1>1, <1>2, <1>3, <1>4, EngineEffect
  <2>2. Drafts(n) \subseteq {"drafted", "documented", "validated"}  BY DEF Drafts
  <2> QED  BY <1>3, <1>4, <2>1, <2>2 DEF EngineMakes, r, e, n
<1>5. CASE r.why \notin Engines
  <2>1. /\ e.kind \in {"material", "parsed", "plan", "items"}
        /\ job'.seen = job.seen \cup ({e.kind} \cap Kinds)
        /\ job'.completed = job.completed /\ job'.raised = job.raised
        /\ job'.settled = job.settled /\ job'.level = job.level
    BY <1>1, <1>2, <1>3, <1>5, AsideEffect
  <2> QED  BY <1>5, <2>1 DEF r, e, n
<1> QED  BY <1>4, <1>5

\* What is on the log stays there, and a level comes with a confirmation.
LEMMA JobGrows ==
  ASSUME Typed, [Next]_vars
  PROVE  /\ job.seen \subseteq job'.seen /\ job.completed \subseteq job'.completed
         /\ "confirmed" \in job'.seen \ job.seen => job'.level # 0
         /\ job'.level # 0 /\ job.level = 0 => "confirmed" \in job'.seen
         /\ job.level # 0 => job'.level # 0
<1>1. CASE Quiet(job, job')
  BY <1>1 DEF Quiet
<1>2. CASE \E c \in Callers : Appends(c)
  <2>1. PICK c \in Callers : Appends(c)  BY <1>2
  <2> QED  BY <2>1, AppendEffect
<1>3. CASE job' = job  BY <1>3
<1> QED  BY <1>1, <1>2, <1>3, StepIs DEF Rest, Aside, Rerun, Takes, Runs

\* What is left of an entry list when its first was appended.
LEMMA ProceedTodo ==
  ASSUME NEW r \in Calls, NEW todo
  PROVE  Proceed(r, todo).todo = todo
<1>1. CASE todo # <<>>  BY <1>1 DEF Proceed, Calls
<1>2. CASE todo = <<>> /\ r.then = "idle"  BY <1>2 DEF Proceed, Idle
<1>3. CASE todo = <<>> /\ r.then # "idle"  BY <1>3 DEF Proceed, Calls
<1> QED  BY <1>1, <1>2, <1>3

\* A list of entries says that n completed only behind one of the kind.
Follows(todo, n, kind, seen) ==
    \A i \in 1 .. Len(todo) : todo[i] = StepCompleted(n) =>
       \/ kind \in seen
       \/ \E h \in 1 .. i - 1 : todo[h].kind = kind

Makes(n, kind) ==
    /\ n \in job.completed => kind \in job.seen
    /\ \A c \in Callers : Follows(call[c].todo, n, kind, job.seen)

LEMMA MakesStep ==
  ASSUME Typed, [Next]_vars, NEW n \in Automatic, NEW kind \in Kinds, Makes(n, kind),
         ASSUME NEW c \in Callers, call[c].node = n, call[c].pc = "running",
                call[c].why \in Engines, NEW out \in Outcomes(n)
         PROVE  out.entries # <<>> /\ out.entries[1].kind = kind
  PROVE  Makes(n, kind)'
<1>0. Typed' /\ job.seen \subseteq job'.seen  BY StepIs, JobGrows
<1>1. \A todo : Len(todo) = 0 => Follows(todo, n, kind, job'.seen)  BY DEF Follows
<1>2. \A todo : Follows(todo, n, kind, job.seen) => Follows(todo, n, kind, job'.seen)  BY <1>0 DEF Follows
<1>3. ASSUME NEW c \in Callers, call'[c].todo \in {call[c].todo, <<>>}
      PROVE  Follows(call'[c].todo, n, kind, job'.seen)
  <2>1. Len(<<>>) = 0  OBVIOUS
  <2> QED  BY <1>1, <1>2, <1>3, <2>1 DEF Makes
<1>4. kind # "step-completed" /\ StepCompleted(n).kind = "step-completed"
  BY DEF Kinds, StepCompleted
<1>5. \A d \in Callers : call[d] \in Calls /\ call'[d] \in Calls /\ CallOK(call'[d])
  BY <1>0 DEF Typed
<1>6. CASE Rest
  <2>1. job'.completed = job.completed  BY <1>6 DEF Rest, Quiet
  <2>2. ASSUME NEW c \in Callers  PROVE call'[c].todo \in {call[c].todo, <<>>}
    <3>1. Resting(call[c], call'[c])  BY <1>6 DEF Rest
    <3>2. Idle.todo = <<>> /\ Calling("advance", "choosing", "start").todo = <<>>
      BY DEF Idle, Calling
    <3>3. [call[c] EXCEPT !.tried = @ + 1].todo = call[c].todo  BY <1>5 DEF Calls
    <3> QED  BY <3>1, <3>2, <3>3 DEF Resting
  <2> QED  BY <1>0, <1>3, <2>1, <2>2 DEF Makes
<1>7. ASSUME NEW c \in Callers, Others(c), job'.completed = job.completed,
             Follows(call'[c].todo, n, kind, job'.seen)
      PROVE  Makes(n, kind)'
  <2>1. ASSUME NEW d \in Callers  PROVE Follows(call'[d].todo, n, kind, job'.seen)
    <3>1. CASE d = c  BY <1>7, <3>1
    <3>2. CASE d # c
      <4>1. call'[d] = call[d]  BY <1>7, <3>2 DEF Others
      <4> QED  BY <1>3, <4>1
    <3> QED  BY <3>1, <3>2
  <2> QED  BY <1>0, <1>7, <2>1 DEF Makes
<1>8. CASE \E c \in Callers : Aside(c)
  <2>1. PICK c \in Callers : Aside(c)  BY <1>8
  <2>2. call'[c].todo \in Seq(AsideEntries)  BY <1>5, <2>1 DEF Aside, CallOK, TodoOK
  <2>3. StepCompleted(n) \notin AsideEntries
    BY <1>4 DEF AsideEntries, Of, Plan, Items
  <2> DEFINE todo == call'[c].todo
  <2>4. \A i \in 1 .. Len(todo) : todo[i] # StepCompleted(n)
    <3> HIDE DEF todo
    <3>1. todo \in Seq(AsideEntries)  BY <2>2 DEF todo
    <3>2. \A i \in 1 .. Len(todo) : todo[i] \in AsideEntries  BY <3>1
    <3> QED  BY <2>3, <3>2
  <2>5. Follows(call'[c].todo, n, kind, job'.seen)  BY <2>4 DEF Follows
  <2> QED  BY <1>7, <2>1, <2>5 DEF Aside, Quiet
<1>9. CASE \E c \in Callers, a \in Drafting : Rerun(c, a)
  <2>1. PICK c \in Callers, a \in Drafting : Rerun(c, a)  BY <1>9
  <2>2. call'[c].todo = <<>>  BY <2>1 DEF Rerun, Calling, Idle
  <2> QED  BY <1>3, <1>7, <2>1, <2>2 DEF Rerun, Quiet
<1>10. CASE \E c \in Callers : Takes(c)
  <2>1. PICK c \in Callers : Takes(c)  BY <1>10
  <2>2. call'[c].todo = call[c].todo  BY <1>5, <2>1 DEF Takes, Calls
  <2> QED  BY <1>3, <1>7, <2>1, <2>2 DEF Takes
<1>11. CASE \E c \in Callers : Runs(c)
  <2>1. PICK c \in Callers : Runs(c)  BY <1>11
  <2> DEFINE m == call[c].node
             todo(out) == out.entries \o GateItemEvents(ClaimedReview(m, out), out.asks)
                             \o <<StepCompleted(m)>>
  <2>2. PICK out \in Outcomes(m), then \in {"choosing", "idle"} :
           call'[c] = [call[c] EXCEPT !.then = then, !.pc = "appending", !.todo = todo(out)]
    BY <2>1 DEF Runs
  <2>3. call'[c].todo = todo(out)  BY <1>5, <2>2 DEF Calls
  <2>4. m \in Automatic  BY <1>5, <2>1 DEF Typed, CallOK, Runs
  <2>5. call'[c].todo \in Seq(EngineEntries(m))
    <3>1. call'[c].why = call[c].why /\ call'[c].node = m  BY <1>5, <2>2 DEF Calls
    <3> QED  BY <1>5, <2>1, <3>1 DEF CallOK, TodoOK, Runs
  <2>6. CASE m # n
    <3>1. StepCompleted(n) \notin EngineEntries(m)
      <4> SUFFICES ASSUME StepCompleted(n) \in EngineEntries(m)  PROVE FALSE  OBVIOUS
      <4>1. \A e \in EngineEntries(m) : e.kind = "step-completed" => e = StepCompleted(m)
        <5> TAKE e \in EngineEntries(m)
        <5>1. JobOK(job)  BY DEF Typed
        <5> HIDE DEF m
        <5>2. EngineMakes(After(job, e), job, m, e)  BY <2>4, <5>1, EngineEffect
        <5> QED  BY <5>2 DEF EngineMakes
      <4>2. StepCompleted(n) = StepCompleted(m)  BY <1>4, <4>1
      <4> QED  BY <2>6, <4>2 DEF StepCompleted
    <3> DEFINE t == call'[c].todo
    <3>2. \A i \in 1 .. Len(t) : t[i] # StepCompleted(n)
      <4> HIDE DEF t
      <4>1. t \in Seq(EngineEntries(m))  BY <2>5 DEF t
      <4>2. \A i \in 1 .. Len(t) : t[i] \in EngineEntries(m)  BY <4>1
      <4> QED  BY <3>1, <4>2
    <3>3. Follows(call'[c].todo, n, kind, job'.seen)  BY <3>2 DEF Follows
    <3> QED  BY <1>7, <2>1, <3>3 DEF Runs
  <2>7. CASE m = n
    <3> DEFINE items == GateItemEvents(ClaimedReview(m, out), out.asks)
               last  == <<StepCompleted(m)>>
               t     == todo(out)
               E     == EngineEntries(m)
    <3>1. out.entries # <<>> /\ out.entries[1].kind = kind
      BY <2>1, <2>2, <2>7 DEF Runs
    <3>2. out.entries \in Seq(E)  BY <2>2, <2>4, OutcomeEntries
    <3>3. items \in Seq(E)
      <4>1. out.asks \in SUBSET Questions  BY <2>2, <2>4, OutcomeEntries
      <4>2. ClaimedReview(m, out) \in {{}, {m} \cap Drafting}  BY DEF ClaimedReview
      <4>3. \A q \in SUBSET Questions : Items(ClaimedReview(m, out), q) \in E
        BY <4>2 DEF EngineEntries, AsideEntries
      <4> HIDE DEF E
      <4> QED  BY <4>1, <4>3, ItemEvents
    <3>4. last \in Seq(E)
      <4>1. StepCompleted(m) \in E  BY DEF EngineEntries
      <4> HIDE DEF E
      <4> QED  BY <4>1
    <3>5. t = out.entries \o items \o last  OBVIOUS
    <3> HIDE DEF E, items, last, t
    <3>6. 1 \in 1 .. Len(out.entries)
      <4>1. Len(out.entries) \in Nat /\ Len(out.entries) # 0  BY <3>1, <3>2
      <4> QED  BY <4>1
    <3>7. out.entries \o items \in Seq(E) /\ 1 \in 1 .. Len(out.entries \o items)
          /\ (out.entries \o items)[1] = out.entries[1]
      <4>1. /\ out.entries \o items \in Seq(E)
            /\ Len(out.entries \o items) = Len(out.entries) + Len(items)
            /\ \A i \in 1 .. Len(out.entries) : (out.entries \o items)[i] = out.entries[i]
        BY <3>2, <3>3, JoinList
      <4>2. Len(items) \in Nat /\ Len(out.entries) \in Nat  BY <3>2, <3>3
      <4> QED  BY <3>6, <4>1, <4>2
    <3>8. t[1] = out.entries[1]
      <4>1. \A i \in 1 .. Len(out.entries \o items) :
               (out.entries \o items \o last)[i] = (out.entries \o items)[i]
        BY <3>4, <3>7, JoinList
      <4> QED  BY <3>5, <3>7, <4>1
    <3>9. t[1].kind = kind  BY <3>1, <3>8
    <3>10. ASSUME NEW i \in 1 .. Len(t), t[i] = StepCompleted(n)
           PROVE  \E h \in 1 .. i - 1 : t[h].kind = kind
      <4>1. i # 1  BY <1>4, <3>9, <3>10
      <4>2. 1 \in 1 .. i - 1  BY <4>1
      <4> QED  BY <3>9, <4>2
    <3>11. Follows(t, n, kind, job'.seen)  BY <3>10 DEF Follows
    <3> QED  BY <1>7, <2>1, <2>3, <3>11 DEF Runs, t
  <2> QED  BY <2>6, <2>7
<1>12. CASE \E c \in Callers : Appends(c)
  <2>1. PICK c \in Callers : Appends(c)  BY <1>12
  <2> DEFINE todo == call[c].todo
             rest == Tail(todo)
  <2>2. todo \in Seq(AllEntries) /\ todo # <<>>  BY <2>1, AppendStep DEF Appends
  <2>3. call'[c].todo = rest  BY <1>5, <2>1, ProceedTodo DEF Appends
  <2>4. job'.seen = job.seen \cup ({Head(todo).kind} \cap Kinds)  BY <2>1, AppendEffect
  <2>5. \/ job'.completed = job.completed
        \/ /\ Head(todo) = StepCompleted(call[c].node)
           /\ job'.completed = job.completed \cup {call[c].node}
    BY <2>1, AppendEffect
  <2>6. Follows(todo, n, kind, job.seen)  BY DEF Makes
  <2> HIDE DEF todo, rest
  <2>7. /\ rest \in Seq(AllEntries) /\ Len(rest) = Len(todo) - 1
        /\ \A i \in 1 .. Len(rest) : rest[i] = todo[i + 1]
    BY <2>2, HeadTailProperties DEF rest
  <2>8. Head(todo) = todo[1] /\ Len(todo) \in Nat /\ Len(todo) >= 1
    BY <2>2, EmptySeq
  <2>9. n \in job'.completed => kind \in job'.seen
    <3>1. CASE n \in job.completed  BY <1>0, <3>1 DEF Makes
    <3>2. CASE n \in job'.completed /\ n \notin job.completed
      <4>1. todo[1] = StepCompleted(n)  BY <2>5, <2>8, <3>2
      <4>2. 1 \in 1 .. Len(todo) /\ 1 .. 1 - 1 = {}  BY <2>8
      <4>3. kind \in job.seen  BY <2>6, <4>1, <4>2 DEF Follows
      <4> QED  BY <1>0, <4>3
    <3> QED  BY <3>1, <3>2
  <2>10. Follows(rest, n, kind, job'.seen)
    <3>1. ASSUME NEW i \in 1 .. Len(rest), rest[i] = StepCompleted(n)
          PROVE  kind \in job'.seen \/ \E h \in 1 .. i - 1 : rest[h].kind = kind
      <4>1. i + 1 \in 1 .. Len(todo) /\ todo[i + 1] = StepCompleted(n) /\ (i + 1) - 1 = i
        BY <2>7, <2>8, <3>1
      <4>2. CASE kind \in job.seen  BY <1>0, <4>2
      <4>3. CASE \E h \in 1 .. (i + 1) - 1 : todo[h].kind = kind
        <5>1. PICK h \in 1 .. i : todo[h].kind = kind  BY <4>1, <4>3
        <5>2. CASE h = 1  BY <2>4, <2>8, <5>1, <5>2
        <5>3. CASE h # 1
          <6>1. h - 1 \in 1 .. i - 1 /\ h - 1 \in 1 .. Len(rest) /\ (h - 1) + 1 = h
            BY <5>1, <5>3
          <6>2. rest[h - 1] = todo[h]  BY <2>7, <6>1
          <6> QED  BY <5>1, <6>1, <6>2
        <5> QED  BY <5>2, <5>3
      <4> QED  BY <2>6, <4>1, <4>2, <4>3 DEF Follows
    <3> QED  BY <3>1 DEF Follows
  <2>11. ASSUME NEW d \in Callers  PROVE Follows(call'[d].todo, n, kind, job'.seen)
    <3>1. CASE d = c  BY <2>3, <2>10, <3>1
    <3>2. CASE d # c
      <4>1. call'[d] = call[d]  BY <2>1, <3>2 DEF Appends, Others
      <4> QED  BY <1>3, <4>1
    <3> QED  BY <3>1, <3>2
  <2> QED  BY <2>9, <2>11 DEF Makes
<1> QED  BY <1>6, <1>8, <1>9, <1>10, <1>11, <1>12, StepIs

\* The steps that make what their completion stands for, and the level that a
\* confirmation leaves.
Made ==
    /\ Makes("metadata", "drafted") /\ Makes("documentation", "documented")
    /\ Makes("validation", "validated")
    /\ ("confirmed" \in job.seen) = (job.level # 0)

LEMMA MakesInit ==
  ASSUME Init, NEW n, NEW kind
  PROVE  Makes(n, kind)
<1>1. job.completed = {}  BY DEF Init, EmptyLog
<1>2. ASSUME NEW c \in Callers  PROVE Follows(call[c].todo, n, kind, job.seen)
  <2>1. call[c].todo = <<>> /\ Len(<<>>) = 0  BY DEF Init, Idle
  <2> QED  BY <2>1 DEF Follows
<1> QED  BY <1>1, <1>2 DEF Makes

LEMMA MadeStep ==
  ASSUME Typed, [Next]_vars, Made
  PROVE  Made'
<1>1. {"drafted", "documented", "validated"} \subseteq Kinds
      /\ {"metadata", "documentation", "validation"} \subseteq Automatic
  BY DEF Kinds, Automatic
<1>2. \A x : <<x>> # <<>> /\ <<x>>[1] = x  OBVIOUS
<1>3. \A x, y : <<x, y>> # <<>> /\ <<x, y>>[1] = x  OBVIOUS
<1>4. Makes("metadata", "drafted")'
  <2>1. ASSUME NEW out \in Outcomes("metadata")
        PROVE  out.entries # <<>> /\ out.entries[1].kind = "drafted"
    <3>1. out \in DraftMetadata  BY <2>1 DEF Outcomes
    <3> QED  BY <1>2, <3>1 DEF DraftMetadata, Outcome, Of
  <2>2. Makes("metadata", "drafted")  BY DEF Made
  <2> QED  BY <1>1, <2>1, <2>2, MakesStep
<1>5. Makes("documentation", "documented")'
  <2>1. ASSUME NEW out \in Outcomes("documentation")
        PROVE  out.entries # <<>> /\ out.entries[1].kind = "documented"
    <3>1. out \in Document  BY <2>1 DEF Outcomes
    <3> QED  BY <1>2, <1>3, <3>1 DEF Document, Outcome, Of
  <2>2. Makes("documentation", "documented")  BY DEF Made
  <2> QED  BY <1>1, <2>1, <2>2, MakesStep
<1>6. Makes("validation", "validated")'
  <2>1. ASSUME NEW out \in Outcomes("validation")
        PROVE  out.entries # <<>> /\ out.entries[1].kind = "validated"
    <3>1. out \in Validation  BY <2>1 DEF Outcomes
    <3> QED  BY <1>2, <3>1 DEF Validation, Outcome, Of
  <2>2. Makes("validation", "validated")  BY DEF Made
  <2> QED  BY <1>1, <2>1, <2>2, MakesStep
<1>7. ("confirmed" \in job'.seen) = (job'.level # 0)
  BY JobGrows DEF Made
<1> QED  BY <1>4, <1>5, <1>6, <1>7 DEF Made

\* A job that is offered has been through everything its material calls for.
LEMMA ReadyHasAll ==
  ASSUME Typed, Made, ReadyToPublish(job)
  PROVE  /\ {"confirmed", "drafted", "documented", "validated"} \subseteq job.seen
         /\ "repository" \in job.completed
         /\ job.level = 2 => "redaction" \in job.completed
         /\ submission.images => "media" \in job.completed
<1> DEFINE On(n) == Listed(Walk(job), n)
<1>1. NextNode(job) = "none" /\ Blocking(job) = "deposit"  BY DEF ReadyToPublish
<1>2. On("deposit")  BY <1>1, BlockingIs
<1>3. /\ job.level # 0
      /\ On("metadata") /\ On("documentation") /\ On("validation") /\ On("repository")
      /\ submission.images => On("media")
      /\ job.level = 2 => On("redaction")
  BY <1>2, WalkBehind
<1>4. ASSUME NEW n \in Automatic, On(n), Requires(n, job)  PROVE n \in Completed(job)
  BY <1>1, <1>4, NotTakeable
<1> HIDE DEF On
<1>5. {"metadata", "documentation", "validation", "repository", "media", "redaction"}
      \subseteq Automatic
  BY DEF Automatic
<1>6. \A n \in {"metadata", "repository", "media", "redaction"} : Requires(n, job)
  BY DEF Requires
<1>7. "drafted" \in job.seen
  <2>1. "metadata" \in Completed(job)  BY <1>3, <1>4, <1>5, <1>6
  <2>2. "metadata" \in job.completed \/ "drafted" \in job.seen  BY <2>1, MadeIt
  <2> QED  BY <2>2 DEF Made, Makes
<1>8. \A n \in {"documentation", "validation"} : Requires(n, job)
  BY <1>7 DEF Requires
<1>9. "documented" \in job.seen
  <2>1. "documentation" \in Completed(job)  BY <1>3, <1>4, <1>5, <1>8
  <2>2. "documentation" \in job.completed \/ "documented" \in job.seen  BY <2>1, MadeIt
  <2> QED  BY <2>2 DEF Made, Makes
<1>10. "validated" \in job.seen
  <2>1. "validation" \in Completed(job)  BY <1>3, <1>4, <1>5, <1>8
  <2>2. "validation" \in job.completed \/ "validated" \in job.seen  BY <2>1, MadeIt
  <2> QED  BY <2>2 DEF Made, Makes
<1>11. \A n \in {"repository", "media", "redaction"} : On(n) => n \in job.completed
  <2> TAKE n \in {"repository", "media", "redaction"}
  <2> HAVE On(n)
  <2>1. n \in Completed(job)  BY <1>4, <1>5, <1>6
  <2> QED  BY <2>1, MadeIt
<1>12. "confirmed" \in job.seen  BY <1>3 DEF Made
<1> QED  BY <1>3, <1>7, <1>9, <1>10, <1>11, <1>12

(* The screens offer to publish only a job whose record was drafted,       *)
(* documented and validated, whose images were looked at, and, where the   *)
(* data is sensitive, whose redactions were: the graph says so, although   *)
(* the screen asks only whether a step or an item is left.                 *)
THEOREM OfferedComplete == Spec => []ReadyIsComplete
<1>1. Init => Typed /\ Made
  <2> SUFFICES ASSUME Init  PROVE Typed /\ Made  OBVIOUS
  <2>1. ("confirmed" \in job.seen) = (job.level # 0)  BY DEF Init, EmptyLog
  <2> QED  BY <2>1, TypedInit, MakesInit DEF Made
<1>2. (Typed /\ Made) /\ [Next]_vars => (Typed /\ Made)'  BY StepIs, MadeStep
<1>3. Typed /\ Made => ReadyIsComplete  BY ReadyHasAll DEF ReadyIsComplete
<1> QED  BY <1>1, <1>2, <1>3, PTL DEF Spec
-----------------------------------------------------------------------------
(* Nobody waits for nothing, but where nothing was ingested.               *)

\* With nothing to take and nobody to wait for, the job is published.
LEMMA NothingLeft ==
  ASSUME Typed, ("confirmed" \in job.seen) = (job.level # 0),
         "ingest" \in job.completed => "material" \in job.seen,
         NextNode(job) = "none", Blocking(job) = "none"
  PROVE  "deposited" \in job.seen
<1> DEFINE On(n) == Listed(Walk(job), n)
           held  == HeldIn(job)
<1>1. /\ "material" \in job.seen => "material" \in held
      /\ job.level # 0 => "confirmed" \in held
  BY DEF HeldIn, Holds, Conditions
<1>2. \A m, n : On(m) /\ Leads(held, m, n) => On(n)  BY WalkOfJob
<1>3. \A n \in Human : On(n) => n \in Completed(job)
  <2>1. "none" \notin Human  BY DEF Human
  <2> QED  BY <2>1, BlockingIs
<1>4. job.completed \subseteq Automatic  BY DEF Typed, JobOK, JobType
<1>5. On("ingest") => "ingest" \in Completed(job)
  <2>1. "ingest" \in Automatic /\ Requires("ingest", job)  BY DEF Automatic, Requires
  <2> QED  BY <2>1, NotTakeable
<1>6. On("ingest")  BY WalkOfJob
<1> HIDE DEF On, held
<1>7. "material" \in job.seen
  <2>1. "ingest" \in job.completed \/ "material" \in job.seen  BY <1>5, <1>6, MadeIt
  <2> QED  BY <2>1
<1>8. On("dmp")  BY <1>1, <1>2, <1>6, <1>7 DEF Leads
<1>9. On("declaration")  BY <1>1, <1>2, <1>7, <1>8 DEF Leads
<1>10. On("confirm_declaration")  BY <1>2, <1>9 DEF Leads
<1>11. "confirmed" \in job.seen
  <2>1. "confirm_declaration" \in Completed(job)  BY <1>3, <1>10 DEF Human
  <2>2. "confirm_declaration" \notin job.completed  BY <1>4 DEF Automatic
  <2> QED  BY <2>1, <2>2, MadeIt
<1>12. On("classification")  BY <1>1, <1>2, <1>10, <1>11 DEF Leads
<1>13. On("deposit")
  <2>1. Listed(Walk(job), "classification")  BY <1>12 DEF On
  <2>2. Listed(Walk(job), "deposit")  BY <2>1, WalkBehind
  <2> QED  BY <2>2 DEF On
<1>14. "deposit" \in Completed(job) /\ "deposit" \notin job.completed
  BY <1>3, <1>4, <1>13 DEF Human, Automatic
<1> QED  BY <1>14, MadeIt

(* A job that is not published and on which nobody works has a step to     *)
(* take or a person to wait for, unless it was ingested before there was   *)
(* anything to ingest: for any calls at once, and wherever they die.       *)
THEOREM AlwaysNamesNext == Spec => []NeverWaitsForNothing
<1>1. Init => Typed /\ Made
  <2> SUFFICES ASSUME Init  PROVE Typed /\ Made  OBVIOUS
  <2>1. ("confirmed" \in job.seen) = (job.level # 0)  BY DEF Init, EmptyLog
  <2> QED  BY <2>1, TypedInit, MakesInit DEF Made
<1>2. (Typed /\ Made) /\ [Next]_vars => (Typed /\ Made)'  BY StepIs, MadeStep
<1>3. Typed /\ Made => NeverWaitsForNothing
  BY NothingLeft DEF Made, NeverWaitsForNothing
<1> QED  BY <1>1, <1>2, <1>3, PTL DEF Spec
-----------------------------------------------------------------------------
(* Nothing reads the data before it is said what it is, for any callers.   *)

\* c runs n for the engine, or appends what n returned.
Works(c, n) == call[c].why \in Engines /\ call[c].pc \in {"running", "appending"} /\ call[c].node = n

LEMMA RestWorks ==
  ASSUME Typed, Rest, NEW c \in Callers, NEW n, Works(c, n)'
  PROVE  Works(c, n)
<1>1. Resting(call[c], call'[c])  BY DEF Rest
<1>2. call[c] \in Calls  BY DEF Typed
<1>3. Idle.pc = "idle"  BY DEF Idle
<1>4. /\ [call[c] EXCEPT !.tried = @ + 1].why = call[c].why
      /\ [call[c] EXCEPT !.tried = @ + 1].pc = call[c].pc
      /\ [call[c] EXCEPT !.tried = @ + 1].node = call[c].node
  BY <1>2 DEF Calls
<1>5. Calling("advance", "choosing", "start").pc = "choosing"  BY DEF Calling, Idle
<1> QED  BY <1>1, <1>3, <1>4, <1>5 DEF Resting, Works

LEMMA AppendsWorks ==
  ASSUME Typed, NEW c \in Callers, Appends(c), NEW n, Works(c, n)'
  PROVE  Works(c, n)
<1>1. call[c] \in Calls  BY DEF Typed
<1>2. call[c].pc = "appending" /\ call'[c] = Proceed(call[c], Tail(call[c].todo))
  BY DEF Appends
<1>3. Idle.pc = "idle"  BY DEF Idle
<1> QED  BY <1>1, <1>2, <1>3 DEF Proceed, Works, Engines, Calls

Readers == {"classification", "media", "redaction", "metadata", "documentation"}

NothingRead ==
    /\ \A n \in Readers : n \notin job.completed /\ \A c \in Callers : ~ Works(c, n)
    /\ \A a \in Readers \cap Drafting : job.raised[a] = 0
    /\ job.seen \cap {"classified", "drafted", "documented"} = {}

ReadAfter ==
    /\ ("confirmed" \in job.seen) \/ NothingRead
    /\ \A c \in Callers : call[c].why \notin Engines => call[c].node \in Beside

LEMMA ReadAfterStep ==
  ASSUME Typed, [Next]_vars, Made, ReadAfter
  PROVE  ReadAfter'
<1>0. Typed' /\ job.seen \subseteq job'.seen  BY StepIs, JobGrows
<1>1. \A d \in Callers : call[d] \in Calls /\ CallOK(call[d])  BY <1>0 DEF Typed
<1>2. Idle.why = "none" /\ Idle.node = "start" /\ Idle.pc = "idle"  BY DEF Idle
<1>3. \A n \in Callers : call[n].why \notin Engines => call[n].node \in Beside  BY DEF ReadAfter
<1>4. job.raised \in [Drafting -> Nat] /\ job.settled \in [Drafting -> Nat]
  BY DEF Typed, JobOK, JobType
<1>5. ("confirmed" \in job'.seen) \/ NothingRead  BY <1>0 DEF ReadAfter
\* A step that completes and raises nothing.
<1>6. ASSUME Quiet(job, job'), NothingRead,
             \A c \in Callers, n \in Readers : Works(c, n)' => Works(c, n)
      PROVE  NothingRead'
  BY <1>6 DEF Quiet, NothingRead
<1>7. job' = job => Quiet(job, job')  BY <1>4 DEF Quiet
<1>8. CASE Rest
  <2>1. \A c \in Callers, n \in Readers : Works(c, n)' => Works(c, n)  BY <1>8, RestWorks
  <2>2. ASSUME NEW c \in Callers, call'[c].why \notin Engines  PROVE call'[c].node \in Beside
    <3>1. Resting(call[c], call'[c])  BY <1>8 DEF Rest
    <3>2. /\ [call[c] EXCEPT !.tried = @ + 1].why = call[c].why
          /\ [call[c] EXCEPT !.tried = @ + 1].node = call[c].node
      BY <1>1 DEF Calls
    <3>3. Calling("advance", "choosing", "start").why = "advance"  BY <1>2 DEF Calling, Idle
    <3> QED  BY <1>2, <1>3, <2>2, <3>1, <3>2, <3>3 DEF Resting, Engines, Beside
  <2> QED  BY <1>5, <1>6, <1>8, <2>1, <2>2 DEF Rest, ReadAfter
<1>9. ASSUME NEW c \in Callers, Others(c),
             call'[c].why \notin Engines => call'[c].node \in Beside,
             NothingRead => ("confirmed" \in job'.seen) \/ NothingRead'
      PROVE  ReadAfter'
  <2>1. ASSUME NEW d \in Callers, call'[d].why \notin Engines  PROVE call'[d].node \in Beside
    <3>1. CASE d = c  BY <1>9, <2>1, <3>1
    <3>2. CASE d # c  BY <1>3, <1>9, <2>1, <3>2 DEF Others
    <3> QED  BY <3>1, <3>2
  <2> QED  BY <1>5, <1>9, <2>1 DEF ReadAfter
<1>10. CASE \E c \in Callers : Aside(c)
  <2>1. PICK c \in Callers : Aside(c)  BY <1>10
  <2>2. \A d \in Callers, n \in Readers : Works(d, n)' => Works(d, n)
    BY <2>1 DEF Aside, Others, Works
  <2>3. call'[c].node \in Beside  BY <1>3, <2>1 DEF Aside
  <2> QED  BY <1>6, <1>9, <2>1, <2>2, <2>3 DEF Aside
<1>11. CASE \E c \in Callers, a \in Drafting : Rerun(c, a)
  <2>1. PICK c \in Callers, a \in Drafting : Rerun(c, a)  BY <1>11
  <2>2. job.raised[a] > 0  BY <1>4, <2>1 DEF Rerun, PendingAgents
  <2>3. call'[c].why = "rerun" /\ call'[c].node = a  BY <2>1 DEF Rerun, Calling, Idle
  <2>4. ASSUME NothingRead  PROVE NothingRead'
    <3>1. a \notin Readers  BY <1>4, <2>2, <2>4 DEF NothingRead
    <3>2. \A d \in Callers, n \in Readers : Works(d, n)' => Works(d, n)
      BY <2>1, <2>3, <3>1 DEF Rerun, Others, Works
    <3> QED  BY <1>6, <2>1, <2>4, <3>2 DEF Rerun
  <2> QED  BY <1>9, <2>1, <2>3, <2>4 DEF Rerun, Engines
<1>12. CASE \E c \in Callers : Takes(c)
  <2>1. PICK c \in Callers : Takes(c)  BY <1>12
  <2> DEFINE n == NextNode(job)
  <2>2. call'[c].why = "advance" /\ call'[c].node = n /\ n # "none"
    BY <1>1, <2>1 DEF Takes, Calls, CallOK
  <2>3. n \in Readers => "confirmed" \in job.seen
    <3>1. Listed(Walk(job), n)  BY <2>2, NextNodeIs
    <3> HIDE DEF n
    <3>2. n \in Readers => job.level # 0  BY <3>1, WalkBehind DEF Readers
    <3> QED  BY <3>2 DEF Made
  <2>4. job' = job  BY <2>1 DEF Takes
  <2> HIDE DEF n
  <2>5. ASSUME NothingRead, n \notin Readers  PROVE NothingRead'
    <3>1. \A d \in Callers, m \in Readers : Works(d, m)' => Works(d, m)
      BY <2>1, <2>2, <2>5 DEF Takes, Others, Works
    <3> QED  BY <1>6, <1>7, <2>4, <2>5, <3>1
  <2> QED  BY <1>9, <2>1, <2>2, <2>3, <2>4, <2>5 DEF Takes, Engines
<1>13. CASE \E c \in Callers : Runs(c)
  <2>1. PICK c \in Callers : Runs(c)  BY <1>13
  <2>2. call'[c].why = call[c].why /\ call'[c].node = call[c].node /\ call[c].why \in Engines
    BY <1>1, <2>1 DEF Runs, Calls
  <2>3. \A d \in Callers, n \in Readers : Works(d, n)' => Works(d, n)
    BY <2>1, <2>2 DEF Runs, Others, Works
  <2>4. job' = job  BY <2>1 DEF Runs
  <2> QED  BY <1>6, <1>7, <1>9, <2>1, <2>2, <2>3, <2>4 DEF Runs
<1>14. CASE \E c \in Callers : Appends(c)
  <2>1. PICK c \in Callers : Appends(c)  BY <1>14
  <2> DEFINE n == call[c].node
             e == Head(call[c].todo)
  <2>2. /\ job'.seen = job.seen \cup ({e.kind} \cap Kinds)
        /\ e.kind \in {"classified", "drafted", "documented", "validated"} =>
              /\ call[c].why \in Engines
              /\ e.kind \in {"drafted", "documented", "validated"} => e.kind \in Drafts(n)
              /\ e.kind = "classified" => n \in {"classification", "media"}
        /\ \/ job'.completed = job.completed
           \/ call[c].why \in Engines /\ job'.completed = job.completed \cup {n}
        /\ \A a \in Drafting : \/ job'.raised[a] = job.raised[a]
                               \/ call[c].why \in Engines /\ a = n
    BY <2>1, AppendEffect
  <2>3. call[c].why \in Engines => Works(c, n)  BY <2>1 DEF Appends, Works
  <2>4. \A d \in Callers, m \in Readers : Works(d, m)' => Works(d, m)
    <3> TAKE d \in Callers, m \in Readers
    <3>1. CASE d = c  BY <2>1, <3>1, AppendsWorks
    <3>2. CASE d # c  BY <2>1, <3>2 DEF Appends, Others, Works
    <3> QED  BY <3>1, <3>2
  <2>5. call'[c].why \notin Engines => call'[c].node \in Beside
    <3>1. call'[c] = Proceed(call[c], Tail(call[c].todo)) /\ call[c] \in Calls
      BY <1>1, <2>1 DEF Appends
    <3>2. \/ call'[c].why = call[c].why /\ call'[c].node = call[c].node
          \/ call'[c].node = "start"
      BY <3>1 DEF Proceed, Calls, Idle
    <3> QED  BY <1>3, <3>2 DEF Beside
  <2> HIDE DEF n, e
  <2>6. ASSUME NothingRead  PROVE NothingRead'
    <3>1. call[c].why \in Engines => n \notin Readers  BY <2>3, <2>6 DEF NothingRead
    <3>2. e.kind \notin {"classified", "drafted", "documented"}
      BY <2>2, <3>1 DEF Drafts, Readers
    <3> QED  BY <2>2, <2>4, <2>6, <3>1, <3>2 DEF NothingRead
  <2> QED  BY <1>9, <2>1, <2>5, <2>6 DEF Appends
<1> QED  BY <1>8, <1>10, <1>11, <1>12, <1>13, <1>14, StepIs

(* "Nothing that reads the data runs before the depositor has said what it *)
(* is": no assessment, no look at the images, no redaction and no draft    *)
(* runs or is made before a level is confirmed, whatever several calls do. *)
THEOREM SaidBeforeRead == Spec => []ConfirmedFirst
<1>1. Init => Typed /\ Made /\ ReadAfter
  <2> SUFFICES ASSUME Init  PROVE Typed /\ Made /\ ReadAfter  OBVIOUS
  <2>1. ("confirmed" \in job.seen) = (job.level # 0)  BY DEF Init, EmptyLog
  <2>2. NothingRead
    <3>1. job.completed = {} /\ job.seen = {} /\ \A a \in Drafting : job.raised[a] = 0
      BY DEF Init, EmptyLog
    <3>2. \A c \in Callers : \A n : ~ Works(c, n)  BY DEF Init, Idle, Works, Engines
    <3> QED  BY <3>1, <3>2 DEF NothingRead
  <2>3. \A c \in Callers : call[c].node \in Beside  BY DEF Init, Idle, Beside
  <2> QED  BY <2>1, <2>2, <2>3, TypedInit, MakesInit DEF Made, ReadAfter
<1>2. (Typed /\ Made /\ ReadAfter) /\ [Next]_vars => (Typed /\ Made /\ ReadAfter)'
  BY StepIs, MadeStep, ReadAfterStep
<1>3. Typed /\ ReadAfter => ConfirmedFirst
  <2> SUFFICES ASSUME Typed, ReadAfter, NEW n \in Readers, "confirmed" \notin job.seen
               PROVE  /\ n \notin Completed(job)
                      /\ \A c \in Callers : ~ (call[c].node = n /\ call[c].pc = "running")
    BY DEF ConfirmedFirst, Readers
  <2>1. NothingRead  BY DEF ReadAfter
  <2>2. n \notin Completed(job)
    <3>1. n \notin job.completed  BY <2>1 DEF NothingRead
    <3> QED  BY <2>1, <3>1, MadeIt DEF NothingRead, Readers
  <2>3. ASSUME NEW c \in Callers, call[c].node = n, call[c].pc = "running"  PROVE FALSE
    <3>1. call[c].why \in Engines  BY <2>3 DEF ReadAfter, Beside, Readers
    <3> QED  BY <2>1, <2>3, <3>1 DEF NothingRead, Works
  <2> QED  BY <2>2, <2>3
<1> QED  BY <1>1, <1>2, <1>3, PTL DEF Spec
=============================================================================
