------------------------- MODULE SessionGateProofs -------------------------
(***************************************************************************)
(* Proofs about SessionGate, for any finite set of files, lines and        *)
(* manifest lines, any number of tool calls, and any edits, writes and     *)
(* commits.                                                                *)
(***************************************************************************)
EXTENDS SessionGate, FiniteSetTheorems, TLAPS

Kinds == {"absent", "ok", "broken"}
Points == {"idle", "asking", "cleared", "landed", "named", "diffed"}

TypeOK ==
  /\ work \in Trees
  /\ head \in Trees
  /\ pc \in [Calls -> Points]
  /\ edit \in [Calls -> Edits \cup {{}}]
  /\ DOMAIN seen = Calls
  /\ \A c \in Calls : /\ seen[c].changed \subseteq Files
                      /\ pc[c] = "diffed" => seen[c].slots \subseteq Slots
  /\ given \in [Files -> Nat]
  /\ known \subseteq Files

\* An edit the model knows: of known places, each changed once.
WellFormed(e) ==
  /\ e \subseteq AllChanges \cup AttributeChanges /\ IsFiniteSet(e)
  /\ \A x, y \in e : x.on = y.on /\ x.at = y.at => x = y

\* An allowance that is cleared but has not landed yet: the entries for f that
\* the cleared edits may still add.
Outstanding(f) ==
  {x \in Calls \X Nat : pc[x[1]] = "cleared" /\ x[2] \in 1..NetAdded(edit[x[1]], f)}

\* The entries for f, and those still to be added, were given.
Granted ==
  \A f \in Files :
    /\ IsFiniteSet(Outstanding(f))
    /\ Cardinality(EntriesOf(work, f)) + Cardinality(Outstanding(f)) <= given[f]

-----------------------------------------------------------------------------
(* Trees and changes.                                                      *)

\* A tree by its parts.
LEMMA TreeParts ==
  ASSUME NEW t \in Trees
  PROVE  /\ t.files \in [Files -> Contents]
         /\ t.approvals \in [Slots -> Entries]
         /\ t.excluded \subseteq Files
         /\ t = [files |-> t.files, approvals |-> t.approvals, excluded |-> t.excluded]
BY DEF Trees

\* A file by its parts.
LEMMA ContentParts ==
  ASSUME NEW c \in Contents
  PROVE  c.kind \in Kinds /\ c.marks \subseteq Lines /\ (c.kind = "absent" => c.marks = {})
BY DEF Contents, Kinds

\* A change is of the manifest, of the attributes, of a line or of a whole file.
LEMMA ChangeParts ==
  ASSUME NEW ch \in AllChanges \cup AttributeChanges
  PROVE  \/ ch.on = Manifest /\ ch.at \in Slots /\ {ch.from, ch.to} \subseteq Entries
         \/ ch.on = Attributes /\ ch.at \in Files /\ {ch.from, ch.to} \subseteq {"in", "out"}
         \/ ch.on \in Files /\ ch.at \in Lines /\ {ch.from, ch.to} \subseteq {"code", "mark"}
         \/ ch.on \in Files /\ ch.at = 0 /\ {ch.from, ch.to} \subseteq Kinds
BY DEF AllChanges, ManifestChanges, AttributeChanges, FileChanges, Kinds

\* Edits and writes are well formed.
LEMMA EditWellFormed == \A e \in Edits \cup {{}} : WellFormed(e)
BY EditsAssumption, FS_EmptySet DEF WellFormed

\* So is each write.
LEMMA WriteWellFormed == \A ch \in Writes : WellFormed({ch})
BY EditsAssumption, FS_Singleton DEF WellFormed

\* What stands at a place after an edit.
LEMMA AfterCases ==
  ASSUME NEW e, NEW on, NEW at, NEW was
  PROVE  \/ /\ After(e, on, at, was) = was
            /\ ~\E ch \in e : ch.on = on /\ ch.at = at
         \/ \E ch \in e : ch.on = on /\ ch.at = at /\ After(e, on, at, was) = ch.to
<1> DEFINE here == {ch \in e : ch.on = on /\ ch.at = at}
<1>1. CASE here = {}
  BY <1>1 DEF After
<1>2. CASE here # {}
  <2>1. (CHOOSE ch \in here : TRUE) \in here
    BY <1>2
  <2>. QED
    BY <1>2, <2>1 DEF After
<1>. QED BY <1>1, <1>2

\* And when the edit is well formed, the one change of that place decides.
LEMMA AfterChange ==
  ASSUME NEW e, WellFormed(e), NEW ch \in e, NEW was
  PROVE  After(e, ch.on, ch.at, was) = ch.to
BY AfterCases DEF WellFormed

\* An edit of a tree makes a tree.
LEMMA ApplyTree ==
  ASSUME NEW t \in Trees, NEW e, WellFormed(e)
  PROVE  Apply(t, e) \in Trees
<1>. USE TargetsAssumption, NumbersAssumption
<1>1. \A f \in Files : Edited(e, f, t.files[f]) \in Contents
  <2> TAKE f \in Files
  <2> DEFINE kind == After(e, f, 0, t.files[f].kind)
  <2>1. kind \in Kinds
    BY TreeParts, ContentParts, AfterCases, ChangeParts DEF WellFormed, Kinds
  <2>2. Edited(e, f, t.files[f]).kind = kind
    BY DEF Edited
  <2>3. CASE kind = "absent"
    BY <2>3 DEF Edited, Contents
  <2>4. CASE kind # "absent"
    BY <2>1, <2>4 DEF Edited, Contents, Kinds
  <2>. QED BY <2>3, <2>4
<1>2. \A s \in Slots : After(e, Manifest, s, t.approvals[s]) \in Entries
  BY TreeParts, AfterCases, ChangeParts DEF WellFormed
<1>. QED
  BY <1>1, <1>2 DEF Apply, Trees

-----------------------------------------------------------------------------
(* Pairing: what Surplus leaves when the first are taken.                  *)

Before(added, j, i) == IF (j \in added) = (i \in added) THEN j < i ELSE i \in added
Preceding(S, added, i) == {j \in S : Before(added, j, i)}
Turn(S, added, i) == Cardinality(Preceding(S, added, i))

\* What is left are those with enough others before them.
LEMMA SurplusByTurn ==
  ASSUME NEW S, NEW added, NEW n
  PROVE  Surplus(S, added, n) = {i \in S : Turn(S, added, i) >= n}
BY DEF Surplus, Turn, Preceding, Before

\* Every member has a turn of its own, from the first to the last.
LEMMA Turns ==
  ASSUME NEW S \in SUBSET Nat, IsFiniteSet(S), NEW added
  PROVE  [i \in S |-> Turn(S, added, i)] \in Bijection(S, 0..(Cardinality(S) - 1))
<1> DEFINE n == Cardinality(S)
           P(i) == Preceding(S, added, i)
           turn == [i \in S |-> Turn(S, added, i)]
<1>1. n \in Nat
  BY FS_CardinalityType
<1>2. ASSUME NEW i \in S
      PROVE  P(i) \in SUBSET S /\ i \notin P(i)
  BY DEF Preceding, Before
<1>3. ASSUME NEW i \in S
      PROVE  Turn(S, added, i) \in 0..(n - 1)
  <2>1. IsFiniteSet(P(i)) /\ Cardinality(P(i)) \in Nat /\ Cardinality(P(i)) <= n
    BY <1>2, FS_Subset, FS_CardinalityType
  <2>2. Cardinality(P(i)) # n
    BY <1>2, FS_Subset
  <2> HIDE DEF n
  <2>. QED
    BY <1>1, <2>1, <2>2 DEF Turn
<1>4. ASSUME NEW i \in S, NEW j \in S, Before(added, j, i)
      PROVE  Turn(S, added, i) # Turn(S, added, j)
  <2>1. P(j) \in SUBSET P(i)
    <3>1. ASSUME NEW k \in Nat, Before(added, k, j)
          PROVE  Before(added, k, i)
      <4>1. i \in Nat /\ j \in Nat
        OBVIOUS
      <4>. QED
        BY ONLY <1>4, <3>1, <4>1, k \in Nat DEF Before
    <3>. QED
      BY <3>1 DEF Preceding
  <2>2. j \in P(i) /\ j \notin P(j)
    BY <1>2, <1>4 DEF Preceding
  <2>3. IsFiniteSet(P(i))
    BY <1>2, FS_Subset
  <2>. QED
    BY <2>1, <2>2, <2>3, FS_Subset DEF Turn
<1>5. ASSUME NEW i \in S, NEW j \in S, i # j
      PROVE  Before(added, i, j) \/ Before(added, j, i)
  BY <1>5 DEF Before
<1>6. turn \in Injection(S, 0..(n - 1))
  <2>1. turn \in [S -> 0..(n - 1)]
    BY <1>3
  <2>2. \A i, j \in S : turn[i] = turn[j] => i = j
    BY <1>4, <1>5
  <2>. QED
    BY <2>1, <2>2 DEF Injection, IsInjective
<1>7. IsFiniteSet(0..(n - 1)) /\ Cardinality(0..(n - 1)) = n
  <2> HIDE DEF n
  <2>1. Cardinality(0..(n - 1)) = IF 0 > n - 1 THEN 0 ELSE n - 1 - 0 + 1
    BY <1>1, FS_Interval
  <2>. QED
    BY <1>1, <2>1, FS_Interval
<1>8. turn \in Surjection(S, 0..(n - 1))
  BY <1>6, <1>7, FS_Injection
<1>. QED
  BY <1>6, <1>8 DEF Bijection

\* The first n are taken, whichever they are.
LEMMA SurplusSize ==
  ASSUME NEW S \in SUBSET Nat, IsFiniteSet(S), NEW added, NEW n \in Nat, n <= Cardinality(S)
  PROVE  /\ Surplus(S, added, n) \in SUBSET S
         /\ IsFiniteSet(Surplus(S, added, n))
         /\ Cardinality(Surplus(S, added, n)) = Cardinality(S) - n
<1> DEFINE m == Cardinality(S)
           T == Surplus(S, added, n)
           turn == [i \in S |-> Turn(S, added, i)]
           rest == [i \in T |-> Turn(S, added, i)]
<1>1. m \in Nat
  BY FS_CardinalityType
<1>2. T = {i \in S : turn[i] >= n}
  BY SurplusByTurn
<1>3. turn \in Bijection(S, 0..(m - 1))
  BY Turns
<1>4. rest \in Bijection(T, n..(m - 1))
  <2>1. \A i \in T : rest[i] = turn[i] /\ i \in S
    BY <1>2
  <2>2. turn \in [S -> 0..(m - 1)] /\ (\A i, j \in S : turn[i] = turn[j] => i = j)
        /\ \A k \in 0..(m - 1) : \E i \in S : turn[i] = k
    BY <1>3 DEF Bijection, Injection, IsInjective, Surjection
  <2> HIDE DEF m, turn
  <2>3. rest \in [T -> n..(m - 1)]
    <3>1. ASSUME NEW i \in T
          PROVE  turn[i] \in n..(m - 1)
      <4>1. i \in S /\ turn[i] >= n
        BY <1>2
      <4>2. turn[i] \in 0..(m - 1)
        BY <2>2, <4>1
      <4>. HIDE DEF T
      <4>. QED
        BY <1>1, <4>1, <4>2
    <3>2. \A i \in T : rest[i] \in n..(m - 1)
      BY <2>1, <3>1
    <3>. QED BY <3>2
  <2>4. \A i, j \in T : rest[i] = rest[j] => i = j
    BY <2>1, <2>2
  <2>5. ASSUME NEW k \in n..(m - 1)
        PROVE  \E i \in T : rest[i] = k
    <3>1. k \in 0..(m - 1)
      BY <1>1
    <3>2. PICK i \in S : turn[i] = k
      BY <2>2, <3>1
    <3>3. i \in T
      BY <1>2, <3>2
    <3>. QED BY <2>1, <3>2, <3>3
  <2> HIDE DEF rest, T
  <2>. QED
    BY <2>3, <2>4, <2>5 DEF Bijection, Injection, IsInjective, Surjection
<1>5. T \in SUBSET S /\ IsFiniteSet(T)
  <2>1. T \in SUBSET S
    BY <1>2
  <2>. QED
    BY <2>1, FS_Subset
<1>6. Cardinality(n..(m - 1)) = Cardinality(T)
  BY <1>4, <1>5, FS_Bijection DEF ExistsBijection
<1>7. Cardinality(n..(m - 1)) = m - n
  <2>2. n <= m
    OBVIOUS
  <2> HIDE DEF m
  <2>1. Cardinality(n..(m - 1)) = IF n > m - 1 THEN 0 ELSE m - 1 - n + 1
    BY <1>1, FS_Interval
  <2>. QED
    BY <1>1, <2>1, <2>2
<1>. QED
  BY <1>5, <1>6, <1>7

\* A set by the part of it that is added.
LEMMA Parts ==
  ASSUME NEW S, IsFiniteSet(S), NEW added
  PROVE  /\ IsFiniteSet(S \cap added) /\ IsFiniteSet(S \ added)
         /\ Cardinality(S) \in Nat
         /\ Cardinality(S \cap added) \in Nat /\ Cardinality(S \ added) \in Nat
         /\ Cardinality(S) = Cardinality(S \cap added) + Cardinality(S \ added)
<1> DEFINE c == Cardinality(S)
           a == Cardinality(S \cap added)
           k == Cardinality(S \ added)
<1>1. IsFiniteSet(S \cap added) /\ IsFiniteSet(S \ added) /\ k = c - a
  BY FS_Intersection, FS_Difference
<1>2. c \in Nat /\ a \in Nat /\ k \in Nat
  BY <1>1, FS_CardinalityType
<1> HIDE DEF c, a, k
<1>3. c = a + k
  BY <1>1, <1>2
<1>. QED
  BY <1>1, <1>2, <1>3 DEF c, a, k

\* D020: the unchanged ones come first.  Either every added one is left, or
\* nothing else is.
LEMMA AddedLast ==
  ASSUME NEW S \in SUBSET Nat, IsFiniteSet(S), NEW added, NEW n \in Nat
  PROVE  /\ n <= Cardinality(S \ added) => S \cap added \subseteq Surplus(S, added, n)
         /\ n >= Cardinality(S \ added) => Surplus(S, added, n) \subseteq added
<1>1. ASSUME NEW i \in S \cap added
      PROVE  Turn(S, added, i) \in Nat /\ Turn(S, added, i) >= Cardinality(S \ added)
  <2>1. S \ added \in SUBSET Preceding(S, added, i)
    BY DEF Preceding, Before
  <2>2. IsFiniteSet(Preceding(S, added, i))
    BY FS_Subset DEF Preceding
  <2>. QED
    BY <2>1, <2>2, FS_Subset, FS_CardinalityType DEF Turn
<1>2. ASSUME NEW i \in S \ added
      PROVE  Turn(S, added, i) \in Nat /\ Turn(S, added, i) < Cardinality(S \ added)
  <2>1. Preceding(S, added, i) \in SUBSET (S \ added) /\ i \notin Preceding(S, added, i)
    BY DEF Preceding, Before
  <2>2. IsFiniteSet(S \ added)
    BY FS_Difference
  <2>3. /\ IsFiniteSet(Preceding(S, added, i))
        /\ Cardinality(Preceding(S, added, i)) <= Cardinality(S \ added)
        /\ Cardinality(Preceding(S, added, i)) # Cardinality(S \ added)
    BY <2>1, <2>2, FS_Subset
  <2>4. Cardinality(Preceding(S, added, i)) \in Nat /\ Cardinality(S \ added) \in Nat
    BY <2>2, <2>3, FS_CardinalityType
  <2>. QED
    BY <2>3, <2>4 DEF Turn
<1>3. Cardinality(S \ added) \in Nat
  BY Parts
<1>4. ASSUME n <= Cardinality(S \ added), NEW i \in S \cap added
      PROVE  i \in Surplus(S, added, n)
  BY <1>1, <1>3, <1>4, SurplusByTurn
<1>5. ASSUME n >= Cardinality(S \ added), NEW i \in Surplus(S, added, n)
      PROVE  i \in added
  <2>1. i \in S /\ Turn(S, added, i) >= n
    BY <1>5, SurplusByTurn
  <2>2. SUFFICES ASSUME i \in S \ added
                 PROVE  FALSE
    BY <2>1
  <2>3. Turn(S, added, i) \in Nat /\ Turn(S, added, i) < Cardinality(S \ added)
    BY <1>2, <2>2
  <2>. QED
    BY <1>3, <1>5, <2>1, <2>3
<1>. QED
  BY <1>4, <1>5

\* So the added ones that are left are as many as there are, or as are left.
LEMMA SurplusAdded ==
  ASSUME NEW S \in SUBSET Nat, IsFiniteSet(S), NEW added, NEW n \in Nat, n <= Cardinality(S)
  PROVE  LET a == Cardinality(S \cap added)
             m == Cardinality(S) - n
         IN  Cardinality(Surplus(S, added, n) \cap added) = IF a <= m THEN a ELSE m
<1> DEFINE c == Cardinality(S)
           a == Cardinality(S \cap added)
           k == Cardinality(S \ added)
           T == Surplus(S, added, n)
<1>1. T \in SUBSET S /\ Cardinality(T) = c - n
  BY SurplusSize
<1>2. c \in Nat /\ a \in Nat /\ k \in Nat /\ c = a + k
  BY Parts
<1>3. /\ n <= k => T \cap added = S \cap added
      /\ n >= k => T \cap added = T
  BY <1>1, AddedLast
<1>4. /\ n <= k => Cardinality(T \cap added) = a
      /\ n >= k => Cardinality(T \cap added) = c - n
  BY <1>1, <1>3
<1>5. n <= c
  OBVIOUS
<1> HIDE DEF c, a, k, T
<1>6. Cardinality(T \cap added) = IF a <= c - n THEN a ELSE c - n
  BY <1>2, <1>4, <1>5
<1>. QED
  BY <1>6 DEF c, a, k, T

\* Some number comes first.
LEMMA First ==
  ASSUME NEW T \in SUBSET Nat, IsFiniteSet(T), T # {}
  PROVE  \E s \in T : {r \in T : r < s} = {}
<1>1. Cardinality(T) \in Nat /\ Cardinality(T) # 0
  BY FS_CardinalityType, FS_EmptySet
<1>2. [i \in T |-> Turn(T, {}, i)] \in Bijection(T, 0..(Cardinality(T) - 1))
  BY Turns
<1>3. 0 \in 0..(Cardinality(T) - 1)
  BY <1>1
<1>4. PICK s \in T : Turn(T, {}, s) = 0
  BY <1>2, <1>3 DEF Bijection, Surjection
<1>5. Preceding(T, {}, s) = {r \in T : r < s}
  BY DEF Preceding, Before
<1>6. IsFiniteSet({r \in T : r < s})
  BY FS_Subset
<1>. QED
  BY <1>4, <1>5, <1>6, FS_EmptySet DEF Turn

\* How many come before the m-th.
LEMMA FirstFew ==
  ASSUME NEW T \in SUBSET Nat, IsFiniteSet(T), NEW m \in Nat
  PROVE  LET few == {s \in T : Cardinality({r \in T : r < s}) < m}
         IN  /\ IsFiniteSet(few)
             /\ Cardinality(few) = IF m <= Cardinality(T) THEN m ELSE Cardinality(T)
<1> DEFINE few == {s \in T : Cardinality({r \in T : r < s}) < m}
<1>1. Cardinality(T) \in Nat
  BY FS_CardinalityType
<1>2. ASSUME NEW s \in T
      PROVE  /\ Turn(T, {}, s) = Cardinality({r \in T : r < s})
             /\ Turn(T, {}, s) \in 0..(Cardinality(T) - 1)
  <2>1. Preceding(T, {}, s) = {r \in T : r < s}
    BY DEF Preceding, Before
  <2>2. [i \in T |-> Turn(T, {}, i)] \in Bijection(T, 0..(Cardinality(T) - 1))
    BY Turns
  <2>3. [i \in T |-> Turn(T, {}, i)][s] \in 0..(Cardinality(T) - 1)
    BY <2>2 DEF Bijection, Injection
  <2>. QED
    BY <2>1, <2>3 DEF Turn
<1>3. few = {s \in T : Turn(T, {}, s) < m}
  BY <1>2
<1>4. \A s \in T : Turn(T, {}, s) \in Nat /\ Turn(T, {}, s) < Cardinality(T)
  <2> DEFINE n == Cardinality(T)
  <2>1. ASSUME NEW s \in T
        PROVE  Turn(T, {}, s) \in Nat /\ Turn(T, {}, s) < n
    <3>1. Turn(T, {}, s) \in 0..(n - 1) /\ n \in Nat
      BY <1>1, <1>2
    <3> HIDE DEF n
    <3>. QED
      BY <3>1
  <2>. QED
    BY <2>1
<1>5. CASE m <= Cardinality(T)
  <2>1. few = T \ Surplus(T, {}, m)
    <3>1. Surplus(T, {}, m) = {s \in T : Turn(T, {}, s) >= m}
      BY SurplusByTurn
    <3>2. ASSUME NEW s \in T
          PROVE  Turn(T, {}, s) < m <=> ~(Turn(T, {}, s) >= m)
      BY <1>4
    <3> HIDE DEF few
    <3>. QED
      BY ONLY <1>3, <3>1, <3>2
  <2>2. T \cap Surplus(T, {}, m) = Surplus(T, {}, m)
    BY <1>5, SurplusSize
  <2>3. Cardinality(Surplus(T, {}, m)) = Cardinality(T) - m
    BY <1>5, SurplusSize
  <2>4. IsFiniteSet(few) /\ Cardinality(few) = Cardinality(T) - Cardinality(Surplus(T, {}, m))
    BY <2>1, <2>2, FS_Difference
  <2>5. Cardinality(few) = m
    BY <1>1, <2>3, <2>4
  <2>. QED
    BY <1>5, <2>4, <2>5
<1>6. CASE m > Cardinality(T)
  <2>1. few = T
    <3> HIDE DEF few
    <3>1. ASSUME NEW s \in T
          PROVE  Turn(T, {}, s) < m
      BY <1>1, <1>4, <1>6
    <3>. QED
      BY <1>3, <3>1
  <2>2. ~(m <= Cardinality(T))
    BY <1>1, <1>6
  <2>. QED
    BY <2>1, <2>2
<1>. QED
  BY <1>1, <1>5, <1>6

-----------------------------------------------------------------------------
(* The check, file by file.                                                *)

\* The markers the check looks at.
Occ(t, f) == IF f \in Included(t) THEN t.files[f].marks ELSE {}
Covered(t, f) == Min({Cardinality(Occ(t, f)), Cardinality(EntriesOf(t, f))})
Broken(t, f) ==
  /\ f \in Included(t) /\ t.files[f].kind = "broken"
  /\ t.files[f].marks # {} \/ EntriesOf(t, f) # {}

\* The smaller of two numbers.
LEMMA MinOf ==
  ASSUME NEW m \in Nat, NEW n \in Nat
  PROVE  Min({m, n}) = IF m <= n THEN m ELSE n
<1>1. \A x \in {m, n} : (\A y \in {m, n} : x <= y) <=> x = IF m <= n THEN m ELSE n
  OBVIOUS
<1>2. Min({m, n}) = CHOOSE x \in {m, n} : \A y \in {m, n} : x <= y
  BY DEF Min
<1>3. (IF m <= n THEN m ELSE n) \in {m, n}
  OBVIOUS
<1>. QED
  BY <1>1, <1>2, <1>3

\* The markers and entries of a file are numbers, finitely many.
LEMMA Finite ==
  ASSUME NEW t \in Trees, NEW f \in Files
  PROVE  /\ Occ(t, f) \in SUBSET Lines /\ Occ(t, f) \in SUBSET Nat /\ IsFiniteSet(Occ(t, f))
         /\ EntriesOf(t, f) \in SUBSET Slots /\ EntriesOf(t, f) \in SUBSET Nat
         /\ IsFiniteSet(EntriesOf(t, f))
         /\ Cardinality(Occ(t, f)) \in Nat /\ Cardinality(EntriesOf(t, f)) \in Nat
         /\ Covered(t, f) = IF Cardinality(Occ(t, f)) <= Cardinality(EntriesOf(t, f))
                            THEN Cardinality(Occ(t, f)) ELSE Cardinality(EntriesOf(t, f))
<1>1. t.files[f].marks \in SUBSET Lines
  BY TreeParts, ContentParts
<1>2. Occ(t, f) \in SUBSET Lines /\ EntriesOf(t, f) \in SUBSET Slots
  BY <1>1 DEF Occ, EntriesOf
<1>3. IsFiniteSet(Occ(t, f)) /\ IsFiniteSet(EntriesOf(t, f))
  BY <1>2, LinesAssumption, FS_Subset
<1>4. Lines \in SUBSET Nat /\ Slots \in SUBSET Nat
  BY NumbersAssumption
<1>5. Cardinality(Occ(t, f)) \in Nat /\ Cardinality(EntriesOf(t, f)) \in Nat
  BY <1>3, FS_CardinalityType
<1>6. Covered(t, f) = IF Cardinality(Occ(t, f)) <= Cardinality(EntriesOf(t, f))
                      THEN Cardinality(Occ(t, f)) ELSE Cardinality(EntriesOf(t, f))
  BY <1>5, MinOf DEF Covered
<1>. QED
  BY <1>2, <1>3, <1>4, <1>5, <1>6

\* What is covered is at most what there is.
LEMMA CoveredBound ==
  ASSUME NEW t \in Trees, NEW f \in Files
  PROVE  /\ Covered(t, f) \in Nat
         /\ Covered(t, f) <= Cardinality(Occ(t, f))
         /\ Covered(t, f) <= Cardinality(EntriesOf(t, f))
         /\ \/ Covered(t, f) = Cardinality(Occ(t, f))
            \/ Covered(t, f) = Cardinality(EntriesOf(t, f))
BY Finite

\* approvals.check, file by file.
LEMMA CheckParts ==
  ASSUME NEW t \in Trees, NEW paths \in SUBSET Files, NEW addedIn, NEW addedEntries
  PROVE  LET now == Check(t, paths, addedIn, addedEntries)
         IN  /\ now.uncovered \subseteq Files \X Lines
             /\ \A x \in Files \X Lines : x \in now.uncovered <=>
                  /\ x[1] \in paths /\ ~Broken(t, x[1])
                  /\ x[2] \in Surplus(Occ(t, x[1]), addedIn[x[1]], Covered(t, x[1]))
             /\ now.orphans \subseteq Files \X Slots
             /\ \A x \in Files \X Slots : x \in now.orphans <=>
                  /\ x[1] \in paths /\ ~Broken(t, x[1])
                  /\ x[2] \in Surplus(EntriesOf(t, x[1]), addedEntries, Covered(t, x[1]))
             /\ now.unresolvable \subseteq paths
             /\ \A f \in paths : f \in now.unresolvable <=> Broken(t, f)
<1> DEFINE candidates == {f \in Included(t) \cap paths :
                            t.files[f].marks # {} \/ EntriesOf(t, f) # {}}
           unresolvable == {f \in candidates : t.files[f].kind = "broken"}
           occurrences(f) == IF f \in candidates THEN t.files[f].marks ELSE {}
           covered(f) == Min({Cardinality(occurrences(f)), Cardinality(EntriesOf(t, f))})
           paired == paths \ unresolvable
           over(f) == Surplus(occurrences(f), addedIn[f], covered(f))
           left(f) == Surplus(EntriesOf(t, f), addedEntries, covered(f))
           now == Check(t, paths, addedIn, addedEntries)
<1>1. \A f \in paths : occurrences(f) = Occ(t, f)
  BY DEF Occ
<1>2. \A f \in paths : covered(f) = Covered(t, f)
  BY <1>1 DEF Covered
<1>3. unresolvable = {f \in paths : Broken(t, f)}
  BY DEF Broken
<1>4. /\ now.uncovered = UNION {{<<f, i>> : i \in over(f)} : f \in paired}
      /\ now.orphans = UNION {{<<f, s>> : s \in left(f)} : f \in paired}
      /\ now.unresolvable = unresolvable
  BY DEF Check
<1>5. \A f \in paths : /\ over(f) = Surplus(Occ(t, f), addedIn[f], Covered(t, f))
                       /\ left(f) = Surplus(EntriesOf(t, f), addedEntries, Covered(t, f))
  BY <1>1, <1>2
<1>6. \A f \in paths : over(f) \subseteq Lines /\ left(f) \subseteq Slots
  BY <1>5, Finite DEF Surplus
<1>7. \A f \in paths : f \in paired <=> ~Broken(t, f)
  BY <1>3
<1> HIDE DEF now, over, left, paired, unresolvable
<1>8. now.uncovered = {x \in Files \X Lines : /\ x[1] \in paths /\ ~Broken(t, x[1])
                                              /\ x[2] \in over(x[1])}
  <2>1. \A f \in paired : f \in paths /\ f \in Files
    BY DEF paired
  <2>. QED
    BY <1>4, <1>6, <1>7, <2>1
<1>9. now.orphans = {x \in Files \X Slots : /\ x[1] \in paths /\ ~Broken(t, x[1])
                                            /\ x[2] \in left(x[1])}
  <2>1. \A f \in paired : f \in paths /\ f \in Files
    BY DEF paired
  <2>. QED
    BY <1>4, <1>6, <1>7, <2>1
<1>10. now.unresolvable = {f \in paths : Broken(t, f)}
  BY <1>3, <1>4
<1>11. /\ now.uncovered \subseteq Files \X Lines /\ now.orphans \subseteq Files \X Slots
       /\ now.unresolvable \subseteq paths
  BY <1>8, <1>9, <1>10
<1>12. \A x \in Files \X Lines : x \in now.uncovered <=>
          /\ x[1] \in paths /\ ~Broken(t, x[1])
          /\ x[2] \in Surplus(Occ(t, x[1]), addedIn[x[1]], Covered(t, x[1]))
  BY <1>5, <1>8
<1>13. \A x \in Files \X Slots : x \in now.orphans <=>
          /\ x[1] \in paths /\ ~Broken(t, x[1])
          /\ x[2] \in Surplus(EntriesOf(t, x[1]), addedEntries, Covered(t, x[1]))
  BY <1>5, <1>9
<1>14. \A f \in paths : f \in now.unresolvable <=> Broken(t, f)
  BY <1>10
<1>. QED
  BY ONLY <1>11, <1>12, <1>13, <1>14 DEF now

-----------------------------------------------------------------------------
(* The session report, file by file: d is the difference of t from h.      *)

Asked(d, t, f) == f \in d.changed \/ EntriesOf(t, f) \cap d.slots # {}

\* The markers that no entry covers, the entries that cover no marker.
Over(d, t, f) == Surplus(Occ(t, f), d.added[f], Covered(t, f))
Left(d, t, f) == Surplus(EntriesOf(t, f), d.slots, Covered(t, f))

LookedAt(d, t, f) ==
  /\ Asked(d, t, f) /\ ~Broken(t, f)
  /\ Left(d, t, f) # {} /\ d.removed[f] # {}
Gone(d, t, h, f) ==
  IF LookedAt(d, t, f) /\ h.files[f].kind # "broken"
  THEN Cardinality(h.files[f].marks \cap d.removed[f]) ELSE 0

UncoveredIn(d, t, f) ==
  IF f \in d.changed /\ ~Broken(t, f) THEN Over(d, t, f) \cap d.added[f] ELSE {}
OrphansIn(d, t, h, f) ==
  IF Asked(d, t, f) /\ ~Broken(t, f)
  THEN {s \in Left(d, t, f) :
          \/ s \in d.slots
          \/ Cardinality({r \in Left(d, t, f) \ d.slots : r < s}) < Gone(d, t, h, f)}
  ELSE {}
UnresolvedIn(d, t, h, f) ==
  \/ Asked(d, t, f) /\ Broken(t, f)
  \/ LookedAt(d, t, f) /\ h.files[f].kind = "broken"

Indebted(d, t, h, f) ==
  UncoveredIn(d, t, f) # {} \/ OrphansIn(d, t, h, f) # {} \/ UnresolvedIn(d, t, h, f)

\* session_report, file by file.
LEMMA ReportParts ==
  ASSUME NEW t \in Trees, NEW h, NEW d, ~d.none, d.changed \subseteq Files, d.slots \subseteq Slots
  PROVE  LET report == SessionReport(d, t, h)
         IN  /\ report.uncovered = {x \in Files \X Lines : x[2] \in UncoveredIn(d, t, x[1])}
             /\ report.orphans = {x \in Files \X Slots : x[2] \in OrphansIn(d, t, h, x[1])}
             /\ report.unresolvable = {f \in Files : UnresolvedIn(d, t, h, f)}
<1> DEFINE newEntries == {t.approvals[s] : s \in d.slots} \cap Files
           paths == d.changed \cup newEntries
           now == Check(t, paths, d.added, d.slots)
           looked == Looked(d, now)
           lost == {f \in looked : h.files[f].kind = "broken"}
           deleted(f) == IF f \in looked \ lost
                         THEN Cardinality(h.files[f].marks \cap d.removed[f]) ELSE 0
           old(f) == {s \in Slots \ d.slots : <<f, s>> \in now.orphans}
           report == SessionReport(d, t, h)
<1>1. paths \in SUBSET Files /\ \A f \in Files : f \in paths <=> Asked(d, t, f)
  BY DEF Asked, EntriesOf
<1>2. /\ now.uncovered = {x \in Files \X Lines : /\ x[1] \in paths /\ ~Broken(t, x[1])
                                                 /\ x[2] \in Over(d, t, x[1])}
      /\ now.orphans = {x \in Files \X Slots : /\ x[1] \in paths /\ ~Broken(t, x[1])
                                               /\ x[2] \in Left(d, t, x[1])}
      /\ now.unresolvable = {f \in paths : Broken(t, f)}
  <2>1. paths \in SUBSET Files
    BY <1>1
  <2> HIDE DEF paths
  <2>2. /\ now.uncovered \subseteq Files \X Lines
        /\ \A x \in Files \X Lines : x \in now.uncovered <=>
              /\ x[1] \in paths /\ ~Broken(t, x[1])
              /\ x[2] \in Surplus(Occ(t, x[1]), d.added[x[1]], Covered(t, x[1]))
        /\ now.orphans \subseteq Files \X Slots
        /\ \A x \in Files \X Slots : x \in now.orphans <=>
              /\ x[1] \in paths /\ ~Broken(t, x[1])
              /\ x[2] \in Surplus(EntriesOf(t, x[1]), d.slots, Covered(t, x[1]))
        /\ now.unresolvable \subseteq paths
        /\ \A f \in paths : f \in now.unresolvable <=> Broken(t, f)
    BY <2>1, CheckParts
  <2> HIDE DEF now
  <2>. QED
    BY <2>2 DEF Over, Left
<1>3. /\ report.uncovered = {x \in now.uncovered : x[1] \in d.changed /\ x[2] \in d.added[x[1]]}
      /\ report.orphans = {x \in now.orphans :
           \/ x[2] \in d.slots
           \/ Cardinality({s \in old(x[1]) : s < x[2]}) < deleted(x[1])}
      /\ report.unresolvable = now.unresolvable \cup lost
  BY DEF SessionReport
<1>4. \A f \in Files : Over(d, t, f) \subseteq Lines /\ Left(d, t, f) \subseteq Slots
  BY Finite DEF Over, Left, Surplus
<1> HIDE DEF now, report, paths
<1>5. \A f \in Files : Asked(d, t, f) /\ ~Broken(t, f) => old(f) = Left(d, t, f) \ d.slots
  BY <1>1, <1>2, <1>4
<1>6. looked = {f \in Files : LookedAt(d, t, f)}
  <2>1. looked = {f \in {x[1] : x \in now.orphans} : d.removed[f] # {}}
    BY DEF Looked
  <2>2. {x[1] : x \in now.orphans} =
          {f \in Files : Asked(d, t, f) /\ ~Broken(t, f) /\ Left(d, t, f) # {}}
    <3>1. ASSUME NEW x \in now.orphans
          PROVE  /\ x[1] \in Files /\ Asked(d, t, x[1]) /\ ~Broken(t, x[1])
                 /\ Left(d, t, x[1]) # {}
      BY <1>1, <1>2
    <3>2. ASSUME NEW f \in Files, Asked(d, t, f), ~Broken(t, f), Left(d, t, f) # {}
          PROVE  \E x \in now.orphans : x[1] = f
      <4>1. PICK s \in Left(d, t, f) : TRUE
        BY <3>2
      <4>2. <<f, s>> \in now.orphans
        BY <1>1, <1>2, <1>4, <3>2
      <4>. QED
        BY <4>2
    <3>. QED
      BY <3>1, <3>2
  <2>. QED
    BY <2>1, <2>2 DEF LookedAt
<1>7. \A f \in Files : deleted(f) = Gone(d, t, h, f)
  BY <1>6 DEF Gone
<1> HIDE DEF looked, deleted, old
<1>8. report.uncovered = {x \in Files \X Lines : x[2] \in UncoveredIn(d, t, x[1])}
  <2>1. ASSUME NEW x \in Files \X Lines
        PROVE  x \in report.uncovered <=> x[2] \in UncoveredIn(d, t, x[1])
    <3>1. x[1] \in d.changed => x[1] \in paths
      BY DEF paths
    <3>. QED
      BY <1>2, <1>3, <3>1 DEF UncoveredIn
  <2>2. report.uncovered \subseteq Files \X Lines
    BY <1>2, <1>3
  <2>. QED
    BY <2>1, <2>2
<1>9. report.orphans = {x \in Files \X Slots : x[2] \in OrphansIn(d, t, h, x[1])}
  <2>1. ASSUME NEW x \in Files \X Slots
        PROVE  x \in report.orphans <=> x[2] \in OrphansIn(d, t, h, x[1])
    <3>1. CASE Asked(d, t, x[1]) /\ ~Broken(t, x[1])
      <4>1. old(x[1]) = Left(d, t, x[1]) \ d.slots /\ deleted(x[1]) = Gone(d, t, h, x[1])
        BY <1>5, <1>7, <3>1
      <4>2. x \in now.orphans <=> x[2] \in Left(d, t, x[1])
        BY <1>1, <1>2, <3>1
      <4>. QED
        BY <1>3, <3>1, <4>1, <4>2 DEF OrphansIn
    <3>2. CASE ~(Asked(d, t, x[1]) /\ ~Broken(t, x[1]))
      BY <1>1, <1>2, <1>3, <3>2 DEF OrphansIn
    <3>. QED
      BY <3>1, <3>2
  <2>2. report.orphans \subseteq Files \X Slots
    BY <1>2, <1>3
  <2>. QED
    BY <2>1, <2>2
<1>10. report.unresolvable = {f \in Files : UnresolvedIn(d, t, h, f)}
  BY <1>1, <1>2, <1>3, <1>6 DEF UnresolvedIn
<1>. QED
  BY <1>8, <1>9, <1>10 DEF report

\* A difference that is none has no debt.
LEMMA NoneReport ==
  ASSUME NEW d, d.none, NEW t, NEW h
  PROVE  SessionReport(d, t, h) = [uncovered |-> {}, orphans |-> {}, unresolvable |-> {}]
BY DEF SessionReport

\* Whom a report names.
LEMMA ReportFiles ==
  ASSUME NEW t \in Trees, NEW h, NEW d, d.changed \subseteq Files, d.slots \subseteq Slots
  PROVE  FilesOf(SessionReport(d, t, h)) =
           IF d.none THEN {} ELSE {f \in Files : Indebted(d, t, h, f)}
<1> DEFINE report == SessionReport(d, t, h)
<1>1. CASE d.none
  BY <1>1, NoneReport DEF FilesOf
<1>2. CASE ~d.none
  <2>1. /\ report.uncovered = {x \in Files \X Lines : x[2] \in UncoveredIn(d, t, x[1])}
        /\ report.orphans = {x \in Files \X Slots : x[2] \in OrphansIn(d, t, h, x[1])}
        /\ report.unresolvable = {f \in Files : UnresolvedIn(d, t, h, f)}
    BY <1>2, ReportParts
  <2>2. \A f \in Files : UncoveredIn(d, t, f) \subseteq Lines /\ OrphansIn(d, t, h, f) \subseteq Slots
    BY Finite DEF UncoveredIn, OrphansIn, Over, Left, Surplus
  <2> HIDE DEF report
  <2>3. ASSUME NEW f \in Files
        PROVE  /\ (\E x \in report.uncovered : x[1] = f) <=> UncoveredIn(d, t, f) # {}
               /\ (\E x \in report.orphans : x[1] = f) <=> OrphansIn(d, t, h, f) # {}
    <3>1. ASSUME NEW i \in UncoveredIn(d, t, f)
          PROVE  <<f, i>> \in report.uncovered
      BY <2>1, <2>2
    <3>2. ASSUME NEW s \in OrphansIn(d, t, h, f)
          PROVE  <<f, s>> \in report.orphans
      BY <2>1, <2>2
    <3>3. \A x \in report.uncovered : x[2] \in UncoveredIn(d, t, x[1])
      BY <2>1
    <3>4. \A x \in report.orphans : x[2] \in OrphansIn(d, t, h, x[1])
      BY <2>1
    <3>. QED
      BY <3>1, <3>2, <3>3, <3>4
  <2>4. \A x \in report.uncovered \cup report.orphans : x[1] \in Files
    BY <2>1
  <2>5. FilesOf(report) = {f \in Files : Indebted(d, t, h, f)}
    BY <2>1, <2>3, <2>4 DEF FilesOf, Indebted
  <2>. QED
    BY <1>2, <2>5 DEF report
<1>. QED
  BY <1>1, <1>2

-----------------------------------------------------------------------------
(* What the report and the whole-tree check have to do with each other.    *)

\* A difference by its parts.
LEMMA DiffParts ==
  ASSUME NEW t \in Trees, NEW h \in Trees
  PROVE  LET d == Diff(t, h)
         IN  /\ d.none <=> t = h
             /\ d.changed = Changed(t, h) /\ d.changed \subseteq Files
             /\ d.slots = AddedSlots(t, h) /\ d.slots \subseteq Slots
             /\ \A f \in Changed(t, h) : d.added[f] = AddedLines(t, h, f)
             /\ \A f \in Files : d.removed[f] = IF f \in Changed(t, h) \ Untracked(t, h)
                                                THEN RemovedLines(t, h, f) ELSE {}
<1>1. t.approvals = h.approvals => AddedSlots(t, h) = {}
  BY DEF AddedSlots
<1>2. Changed(t, h) \subseteq Files /\ AddedSlots(t, h) \subseteq Slots
  BY DEF Changed, AddedSlots
<1>3. \A f \in Files : f \in Untracked(t, h) => AddedLines(t, h, f) = Lines
  BY DEF AddedLines
<1>. QED
  BY <1>1, <1>2, <1>3 DEF Diff, Patches, Names

\* A report is clean when it names nobody.
LEMMA CleanReport ==
  ASSUME NEW t \in Trees, NEW h \in Trees
  PROVE  LET d == Diff(t, h)
         IN  Clean(SessionReport(d, t, h)) <=> d.none \/ \A f \in Files : ~Indebted(d, t, h, f)
<1> DEFINE d == Diff(t, h)
           report == SessionReport(d, t, h)
<1>1. d.changed \subseteq Files /\ d.slots \subseteq Slots
  BY DiffParts
<1>2. FilesOf(report) = IF d.none THEN {} ELSE {f \in Files : Indebted(d, t, h, f)}
  <2> HIDE DEF d
  <2>. QED
    BY <1>1, ReportFiles
<1>3. Clean(report) <=> FilesOf(report) = {}
  BY DEF Clean, FilesOf
<1>. QED
  BY <1>2, <1>3

\* Nothing is left when all are taken, and only then.
LEMMA SurplusNone ==
  ASSUME NEW S \in SUBSET Nat, IsFiniteSet(S), NEW added, NEW n \in Nat, n <= Cardinality(S)
  PROVE  Surplus(S, added, n) = {} <=> n = Cardinality(S)
<1>1. /\ IsFiniteSet(Surplus(S, added, n))
      /\ Cardinality(Surplus(S, added, n)) = Cardinality(S) - n
  BY SurplusSize
<1>2. Cardinality(S) \in Nat
  BY FS_CardinalityType
<1>3. Cardinality(Surplus(S, added, n)) = 0 <=> n = Cardinality(S)
  BY <1>1, <1>2
<1>. QED
  BY <1>1, <1>3, FS_EmptySet

\* A tree is consistent when every file has as many entries as markers.
LEMMA CleanTree ==
  ASSUME NEW t \in Trees
  PROVE  Clean(TreeReport(t)) <=>
           \A f \in Files : ~Broken(t, f) /\ Cardinality(Occ(t, f)) = Cardinality(EntriesOf(t, f))
<1> DEFINE now == Check(t, Files, Nowhere, {})
           over(f) == Surplus(Occ(t, f), Nowhere[f], Covered(t, f))
           left(f) == Surplus(EntriesOf(t, f), {}, Covered(t, f))
<1>1. /\ now.uncovered \subseteq Files \X Lines
      /\ \A x \in Files \X Lines : x \in now.uncovered <=>
           /\ x[1] \in Files /\ ~Broken(t, x[1])
           /\ x[2] \in Surplus(Occ(t, x[1]), Nowhere[x[1]], Covered(t, x[1]))
      /\ now.orphans \subseteq Files \X Slots
      /\ \A x \in Files \X Slots : x \in now.orphans <=>
           /\ x[1] \in Files /\ ~Broken(t, x[1])
           /\ x[2] \in Surplus(EntriesOf(t, x[1]), {}, Covered(t, x[1]))
      /\ now.unresolvable \subseteq Files
      /\ \A f \in Files : f \in now.unresolvable <=> Broken(t, f)
  BY CheckParts
<1>2. \A f \in Files : over(f) \subseteq Lines /\ left(f) \subseteq Slots
  BY Finite DEF Surplus
<1>3. \A f \in Files : over(f) = {} /\ left(f) = {} <=>
                          Cardinality(Occ(t, f)) = Cardinality(EntriesOf(t, f))
  <2> TAKE f \in Files
  <2>1. over(f) = {} <=> Covered(t, f) = Cardinality(Occ(t, f))
    BY Finite, CoveredBound, SurplusNone
  <2>2. left(f) = {} <=> Covered(t, f) = Cardinality(EntriesOf(t, f))
    BY Finite, CoveredBound, SurplusNone
  <2> HIDE DEF over, left
  <2>. QED
    BY <2>1, <2>2, CoveredBound, Finite
<1> HIDE DEF now
<1>4. now.unresolvable = {} <=> \A f \in Files : ~Broken(t, f)
  BY <1>1
<1>5. now.uncovered = {} <=> \A f \in Files : ~Broken(t, f) => over(f) = {}
  <2>1. ASSUME NEW f \in Files, ~Broken(t, f), NEW i \in over(f)
        PROVE  <<f, i>> \in now.uncovered
    BY <1>1, <1>2, <2>1
  <2>2. ASSUME NEW x \in now.uncovered
        PROVE  x[1] \in Files /\ ~Broken(t, x[1]) /\ x[2] \in over(x[1])
    BY <1>1
  <2> HIDE DEF over
  <2>. QED
    BY <2>1, <2>2
<1>6. now.orphans = {} <=> \A f \in Files : ~Broken(t, f) => left(f) = {}
  <2>1. ASSUME NEW f \in Files, ~Broken(t, f), NEW s \in left(f)
        PROVE  <<f, s>> \in now.orphans
    BY <1>1, <1>2, <2>1
  <2>2. ASSUME NEW x \in now.orphans
        PROVE  x[1] \in Files /\ ~Broken(t, x[1]) /\ x[2] \in left(x[1])
    BY <1>1
  <2> HIDE DEF left
  <2>. QED
    BY <2>1, <2>2
<1>7. TreeReport(t) = now
  BY DEF TreeReport, now
<1> HIDE DEF over, left
<1>. QED
  BY <1>3, <1>4, <1>5, <1>6, <1>7 DEF Clean

\* A file whose markers and entries are as many has no debt.
LEMMA PairedOff ==
  ASSUME NEW t \in Trees, NEW h, NEW d, NEW f \in Files,
         ~Broken(t, f), Cardinality(Occ(t, f)) = Cardinality(EntriesOf(t, f))
  PROVE  ~Indebted(d, t, h, f)
<1>1. Over(d, t, f) = {} /\ Left(d, t, f) = {}
  BY Finite, CoveredBound, SurplusNone DEF Over, Left
<1>. QED
  BY <1>1 DEF Indebted, UncoveredIn, OrphansIn, UnresolvedIn, LookedAt

\* What the whole-tree check passes, the report does.
LEMMA NoFalseDebtAlways ==
  ASSUME TypeOK
  PROVE  NoFalseDebt
<1>1. work \in Trees /\ head \in Trees
  BY DEF TypeOK
<1>2. ASSUME Clean(TreeReport(work))
      PROVE  Clean(Debt)
  <2>1. \A f \in Files : ~Indebted(Diff(work, head), work, head, f)
    BY <1>1, <1>2, CleanTree, PairedOff
  <2>. QED
    BY <1>1, <2>1, CleanReport DEF Debt, Here
<1>. QED
  BY <1>2 DEF NoFalseDebt

\* A file's share of a report is as large as what it has.
LEMMA ShareSize ==
  ASSUME NEW R, NEW f, NEW T, IsFiniteSet(T), \A x \in R : x = <<x[1], x[2]>>,
         \A i : <<f, i>> \in R <=> i \in T
  PROVE  /\ IsFiniteSet({x \in R : x[1] = f})
         /\ Cardinality({x \in R : x[1] = f}) = Cardinality(T)
<1> DEFINE share == {x \in R : x[1] = f}
           pair == [i \in T |-> <<f, i>>]
<1>1. \A x \in share : x = <<f, x[2]>> /\ x[2] \in T
  OBVIOUS
<1>2. pair \in Bijection(T, share)
  <2>1. pair \in [T -> share]
    OBVIOUS
  <2>2. \A i, j \in T : pair[i] = pair[j] => i = j
    OBVIOUS
  <2>3. \A x \in share : \E i \in T : pair[i] = x
    <3>1. ASSUME NEW x \in share
          PROVE  x[2] \in T /\ pair[x[2]] = x
      BY <1>1
    <3>. QED
      BY <3>1
  <2>. QED
    BY <2>1, <2>2, <2>3 DEF Bijection, Injection, IsInjective, Surjection
<1>. QED
  BY <1>2, FS_Bijection DEF ExistsBijection

\* D020, occurrence by occurrence.
LEMMA CapacityAlways ==
  ASSUME TypeOK
  PROVE  CapacityRule
<1>1. work \in Trees /\ head \in Trees
  BY DEF TypeOK
<1>2. SUFFICES ASSUME NEW f \in Changed(work, head) \cap Included(work),
                      work.files[f].kind = "ok"
               PROVE  LET added == Cardinality(work.files[f].marks \cap AddedLines(work, head, f))
                          kept == Cardinality(work.files[f].marks \ AddedLines(work, head, f))
                          entries == Cardinality(EntriesOf(work, f))
                          free == IF entries > kept THEN entries - kept ELSE 0
                          debt == Cardinality({x \in Debt.uncovered : x[1] = f})
                      IN  debt = IF added > free THEN added - free ELSE 0
  BY DEF CapacityRule
<1> DEFINE d == Diff(work, head)
           A == AddedLines(work, head, f)
           S == Occ(work, f)
           n == Covered(work, f)
           a == Cardinality(S \cap A)
           k == Cardinality(S \ A)
           e == Cardinality(EntriesOf(work, f))
           T == Surplus(S, A, n) \cap A
<1>3. f \in Files /\ S = work.files[f].marks /\ ~Broken(work, f)
  BY <1>1, <1>2 DEF Changed, Occ, Broken
<1>4. ~d.none /\ d.changed \subseteq Files /\ d.slots \subseteq Slots
      /\ f \in d.changed /\ d.added[f] = A
  BY <1>1, <1>2, DiffParts DEF Changed
<1>5. UncoveredIn(d, work, f) = T
  BY <1>3, <1>4 DEF UncoveredIn, Over
<1>6. S \in SUBSET Nat /\ S \in SUBSET Lines /\ IsFiniteSet(S) /\ Cardinality(S) \in Nat /\ e \in Nat
      /\ n = IF Cardinality(S) <= e THEN Cardinality(S) ELSE e
  BY <1>1, <1>3, Finite
<1>7. /\ a \in Nat /\ k \in Nat /\ Cardinality(S) = a + k
  BY <1>6, Parts
<1>8. n \in Nat /\ n <= Cardinality(S)
  BY <1>6
<1>9. Cardinality(T) = IF a <= Cardinality(S) - n THEN a ELSE Cardinality(S) - n
  BY <1>6, <1>8, SurplusAdded
<1>10. IsFiniteSet(T) /\ T \subseteq Lines
  <2>1. T \in SUBSET S
    BY DEF Surplus
  <2>. QED
    BY <1>6, <2>1, FS_Subset
<1>11. Cardinality({x \in Debt.uncovered : x[1] = f}) = Cardinality(T)
  <2>1. Debt.uncovered = {x \in Files \X Lines : x[2] \in UncoveredIn(d, work, x[1])}
    <3> HIDE DEF d
    <3>1. SessionReport(d, work, head).uncovered = {x \in Files \X Lines : x[2] \in UncoveredIn(d, work, x[1])}
      BY <1>1, <1>4, ReportParts
    <3>. QED
      BY <3>1 DEF Debt, Here, d
  <2> HIDE DEF d, T
  <2>2. \A x \in Debt.uncovered : x = <<x[1], x[2]>>
    BY <2>1
  <2>3. \A i : <<f, i>> \in Debt.uncovered <=> i \in T
    BY <1>3, <1>5, <1>10, <2>1
  <2>. QED
    BY <1>10, <2>2, <2>3, ShareSize
<1> DEFINE free == IF e > k THEN e - k ELSE 0
           c == Cardinality(S)
<1>12. Cardinality(T) = IF a > free THEN a - free ELSE 0
  <2> DEFINE left == Cardinality(T)
  <2>1. /\ c \in Nat /\ e \in Nat /\ n = IF c <= e THEN c ELSE e
        /\ a \in Nat /\ k \in Nat /\ c = a + k
        /\ left = IF a <= c - n THEN a ELSE c - n
    BY <1>6, <1>7, <1>9
  <2> HIDE DEF a, k, e, n, left, c
  <2>2. left = IF a > free THEN a - free ELSE 0
    BY ONLY <2>1 DEF free
  <2>. QED
    BY <2>2 DEF left
<1>. QED
  BY <1>3, <1>11, <1>12

\* What the whole-tree check refuses, the report of a session that took
\* nothing back does.
LEMMA NothingEscapesAlways ==
  ASSUME TypeOK
  PROVE  NothingEscapes
<1> DEFINE d == Diff(work, head)
<1>1. work \in Trees /\ head \in Trees
  BY DEF TypeOK
<1>2. SUFFICES ASSUME Clean(TreeReport(head)), work.excluded = head.excluded,
                      \A s \in Slots : head.approvals[s] \in Files => work.approvals[s] = head.approvals[s],
                      Clean(Debt), NEW f \in Files
               PROVE  ~Broken(work, f)
                      /\ Cardinality(Occ(work, f)) = Cardinality(EntriesOf(work, f))
  BY <1>1, CleanTree DEF NothingEscapes
<1>3. ~Broken(head, f) /\ Cardinality(Occ(head, f)) = Cardinality(EntriesOf(head, f))
  BY <1>1, <1>2, CleanTree
<1>4. d.none \/ ~Indebted(d, work, head, f)
  BY <1>1, <1>2, CleanReport DEF Debt, Here
<1>5. CASE d.none
  BY <1>1, <1>3, <1>5, DiffParts
<1>6. ASSUME ~d.none, ~Indebted(d, work, head, f)
      PROVE  ~Broken(work, f)
             /\ Cardinality(Occ(work, f)) = Cardinality(EntriesOf(work, f))
  <2> DEFINE S == Occ(work, f)
             E == EntriesOf(work, f)
             n == Covered(work, f)
  <2>1. EntriesOf(head, f) \subseteq E
    BY <1>2 DEF EntriesOf
  <2>2. E \ d.slots \subseteq EntriesOf(head, f)
    BY <1>1, DiffParts DEF EntriesOf, AddedSlots
  <2>3. f \notin Changed(work, head) => Occ(work, f) = Occ(head, f) /\ work.files[f] = head.files[f]
    BY <1>2 DEF Changed, Occ, Included, Present
  <2>4. CASE ~Asked(d, work, f)
    <3>1. E = EntriesOf(head, f)
      BY <2>1, <2>2, <2>4 DEF Asked
    <3>2. f \notin Changed(work, head)
      BY <1>1, <2>4, DiffParts DEF Asked
    <3>3. Broken(work, f) <=> Broken(head, f)
      BY <1>2, <2>3, <3>1, <3>2 DEF Broken, Included, Present
    <3>. QED
      BY <1>3, <2>3, <3>1, <3>2, <3>3
  <2>5. CASE Asked(d, work, f)
    <3>1. ~Broken(work, f)
      BY <1>6, <2>5 DEF Indebted, UnresolvedIn
    <3>2. /\ S \in SUBSET Nat /\ IsFiniteSet(S) /\ E \in SUBSET Nat /\ IsFiniteSet(E)
          /\ Cardinality(S) \in Nat /\ Cardinality(E) \in Nat /\ n \in Nat
          /\ n <= Cardinality(S) /\ n <= Cardinality(E) /\ n \in {Cardinality(S), Cardinality(E)}
      BY <1>1, Finite, CoveredBound
    <3>3. Cardinality(EntriesOf(head, f)) \in Nat /\ Cardinality(EntriesOf(head, f)) <= Cardinality(E)
      BY <1>1, <2>1, <3>2, Finite, FS_Subset
    <3>4. Cardinality(S) <= Cardinality(E)
      <4>1. CASE f \notin Changed(work, head)
        BY <1>3, <2>3, <3>3, <4>1
      <4>2. CASE f \in Changed(work, head)
        <5> DEFINE A == AddedLines(work, head, f)
        <5>1. f \in d.changed /\ d.added[f] = A
          BY <1>1, <4>2, DiffParts
        <5>2. Surplus(S, A, n) \cap A = {}
          BY <1>6, <3>1, <5>1 DEF Indebted, UncoveredIn, Over
        <5>3. SUFFICES ASSUME ~(Cardinality(S) <= Cardinality(E))
                       PROVE  FALSE
          OBVIOUS
        <5>4. Surplus(S, A, n) # {} /\ ~(n >= Cardinality(S \ A)) /\ n <= Cardinality(S \ A)
          <6>1. Surplus(S, A, n) # {}
            BY <3>2, <5>3, SurplusNone
          <6>2. n >= Cardinality(S \ A) => Surplus(S, A, n) \subseteq A
            BY <3>2, AddedLast
          <6>3. Cardinality(S \ A) \in Nat
            BY <3>2, Parts
          <6>. QED
            BY <3>2, <5>2, <6>1, <6>2, <6>3
        <5>5. S \cap A = {}
          BY <3>2, <5>2, <5>4, AddedLast
        <5>6. S # {}
          BY <5>4 DEF Surplus
        <5>7. f \in Included(work) /\ S = work.files[f].marks /\ S \subseteq Lines
          BY <1>1, <5>6, Finite DEF Occ
        <5>8. f \notin Untracked(work, head)
          BY <5>5, <5>6, <5>7 DEF AddedLines
        <5>9. f \in Included(head)
          BY <1>2, <5>7, <5>8 DEF Included, Untracked
        <5>10. S \in SUBSET Occ(head, f)
          BY <5>5, <5>7, <5>8, <5>9 DEF AddedLines, Occ
        <5>11. IsFiniteSet(Occ(head, f)) /\ Cardinality(S) <= Cardinality(Occ(head, f))
          BY <1>1, <5>10, Finite, FS_Subset
        <5>. QED
          BY <1>3, <3>2, <3>3, <5>3, <5>11
      <4>. QED
        BY <4>1, <4>2
    <3>5. Cardinality(E) <= Cardinality(S)
      <4>1. SUFFICES ASSUME ~(Cardinality(E) <= Cardinality(S))
                     PROVE  FALSE
        OBVIOUS
      <4> DEFINE T == Left(d, work, f)
      <4>2. T # {} /\ T = Surplus(E, d.slots, n) /\ T \in SUBSET E /\ IsFiniteSet(T) /\ T \in SUBSET Nat
        <5>1. Surplus(E, d.slots, n) # {}
          BY <3>2, <4>1, SurplusNone
        <5>. QED
          BY <3>2, <5>1, SurplusSize DEF Left
      <4>3. T \cap d.slots = {}
        BY <1>6, <2>5, <3>1 DEF Indebted, OrphansIn
      <4>4. ~(n >= Cardinality(E \ d.slots)) /\ n <= Cardinality(E \ d.slots)
        <5>1. n >= Cardinality(E \ d.slots) => T \subseteq d.slots
          <6>1. n >= Cardinality(E \ d.slots) => Surplus(E, d.slots, n) \subseteq d.slots
            BY <3>2, AddedLast
          <6>. QED
            BY ONLY <4>2, <6>1
        <5>2. Cardinality(E \ d.slots) \in Nat
          BY <3>2, Parts
        <5>. QED
          BY <3>2, <4>2, <4>3, <5>1, <5>2
      <4>5. E \cap d.slots = {}
        BY <3>2, <4>2, <4>3, <4>4, AddedLast
      <4>6. E = EntriesOf(head, f)
        BY <2>1, <2>2, <4>5
      <4>7. f \in Changed(work, head)
        BY <1>1, <2>5, <4>5, DiffParts DEF Asked
      <4>8. ~(Occ(head, f) \subseteq S)
        <5>1. SUFFICES ASSUME Occ(head, f) \in SUBSET S
                       PROVE  FALSE
          OBVIOUS
        <5>2. Cardinality(Occ(head, f)) <= Cardinality(S)
          BY <3>2, <5>1, FS_Subset
        <5>. QED
          BY <1>3, <3>2, <4>1, <4>6, <5>2
      <4>9. PICK i \in Occ(head, f) : i \notin S
        BY <4>8
      <4>10. f \in Included(head) /\ i \in head.files[f].marks /\ i \in Lines
        BY <1>1, <4>9, Finite DEF Occ
      <4>11. f \notin Untracked(work, head)
        BY <4>10 DEF Untracked, Included
      <4>12. i \notin work.files[f].marks
        <5>1. CASE f \in Present(work)
          BY <1>2, <4>9, <4>10, <5>1 DEF Occ, Included
        <5>2. CASE f \notin Present(work)
          <6>1. work.files[f] \in Contents
            BY <1>1, TreeParts
          <6>. QED
            BY <5>2, <6>1, ContentParts DEF Present
        <5>. QED
          BY <5>1, <5>2
      <4>13. d.removed[f] = RemovedLines(work, head, f) /\ i \in RemovedLines(work, head, f)
        <5>1. d.removed[f] = RemovedLines(work, head, f)
          BY <1>1, <4>7, <4>11, DiffParts
        <5>2. i \in RemovedLines(work, head, f)
          BY <4>10, <4>12 DEF RemovedLines
        <5>. QED
          BY <5>1, <5>2
      <4>14. LookedAt(d, work, f)
        BY <2>5, <3>1, <4>2, <4>13 DEF LookedAt
      <4>15. head.files[f].kind # "broken"
        BY <1>6, <4>14 DEF Indebted, UnresolvedIn
      <4>16. Gone(d, work, head, f) \in Nat /\ Gone(d, work, head, f) > 0
        <5> DEFINE G == head.files[f].marks \cap d.removed[f]
        <5>1. Gone(d, work, head, f) = Cardinality(G)
          BY <4>14, <4>15 DEF Gone
        <5>2. G \in SUBSET Lines /\ i \in G
          BY <1>1, <4>10, <4>13, TreeParts, ContentParts
        <5>3. IsFiniteSet(G)
          BY <5>2, LinesAssumption, FS_Subset
        <5>4. Cardinality(G) \in Nat /\ Cardinality(G) # 0
          BY <5>2, <5>3, FS_CardinalityType, FS_EmptySet
        <5>. QED
          BY <5>1, <5>4
      <4>17. PICK s \in T : {r \in T : r < s} = {}
        BY <4>2, First
      <4>18. {r \in T \ d.slots : r < s} = {}
        BY <4>17
      <4>19. s \in OrphansIn(d, work, head, f)
        <5>1. Cardinality({r \in T \ d.slots : r < s}) = 0
          BY <4>18, FS_EmptySet
        <5>. QED
          BY <2>5, <3>1, <4>16, <5>1 DEF OrphansIn
      <4>. QED
        BY <1>6, <4>19 DEF Indebted
    <3>. QED
      BY <3>1, <3>2, <3>4, <3>5
  <2>. QED
    BY <2>4, <2>5
<1>. QED
  BY <1>4, <1>5, <1>6

-----------------------------------------------------------------------------
(* Approvals.                                                              *)

\* A net number of entries is a number.
LEMMA NetAddedNat ==
  ASSUME NEW e, WellFormed(e), NEW x
  PROVE  NetAdded(e, x) \in Nat
<1>1. /\ {ch \in e : ch.on = Manifest /\ ch.to = x} \in SUBSET e
      /\ {ch \in e : ch.on = Manifest /\ ch.from = x} \in SUBSET e
  OBVIOUS
<1>2. /\ Cardinality({ch \in e : ch.on = Manifest /\ ch.to = x}) \in Nat
      /\ Cardinality({ch \in e : ch.on = Manifest /\ ch.from = x}) \in Nat
  BY <1>1, FS_Subset, FS_CardinalityType DEF WellFormed
<1>. QED
  BY <1>2 DEF NetAdded

\* An edit that applies adds no more entries for a file than it says.
LEMMA EntriesAfter ==
  ASSUME NEW t \in Trees, NEW e, WellFormed(e), Applies(t, e), NEW f \in Files
  PROVE  Cardinality(EntriesOf(Apply(t, e), f)) <= Cardinality(EntriesOf(t, f)) + NetAdded(e, f)
<1> DEFINE On == {ch \in e : ch.on = Manifest /\ ch.to = f}
           Off == {ch \in e : ch.on = Manifest /\ ch.from = f}
           Old == EntriesOf(t, f)
           New == EntriesOf(Apply(t, e), f)
           on == Cardinality(On)
           off == Cardinality(Off)
<1>1. ASSUME NEW ch \in e, ch.on = Manifest
      PROVE  /\ ch.at \in Slots /\ t.approvals[ch.at] = ch.from /\ ch.from # ch.to
             /\ Apply(t, e).approvals[ch.at] = ch.to
  <2>1. ch \in AllChanges \cup AttributeChanges
    BY DEF WellFormed
  <2>2. ch.at \in Slots
    BY <1>1, <2>1, ChangeParts, TargetsAssumption
  <2>3. Holds(t, ch) /\ ch.from # ch.to
    BY DEF Applies
  <2>4. t.approvals[ch.at] = ch.from
    BY <1>1, <2>3, TargetsAssumption DEF Holds
  <2>5. After(e, Manifest, ch.at, t.approvals[ch.at]) = ch.to
    BY <1>1, AfterChange
  <2>. QED
    BY <2>2, <2>3, <2>4, <2>5 DEF Apply
<1>2. ASSUME NEW s \in New \ Old
      PROVE  \E ch \in On : ch.at = s
  <2>1. /\ s \in Slots /\ Apply(t, e).approvals[s] = f /\ t.approvals[s] # f
    BY DEF EntriesOf
  <2>2. Apply(t, e).approvals[s] = After(e, Manifest, s, t.approvals[s])
    BY <2>1 DEF Apply
  <2>. QED
    BY <2>1, <2>2, AfterCases
<1>3. IsFiniteSet(On) /\ IsFiniteSet(Off) /\ on \in Nat /\ off \in Nat
  <2>1. On \in SUBSET e /\ Off \in SUBSET e
    OBVIOUS
  <2>. QED
    BY <2>1, FS_Subset, FS_CardinalityType DEF WellFormed
<1>4. Apply(t, e) \in Trees
  BY ApplyTree
<1>5. IsFiniteSet(Old) /\ IsFiniteSet(New)
  BY <1>4, Finite
<1>6. Cardinality(New \ Old) <= on
  <2> DEFINE place == [ch \in On |-> ch.at]
             places == {place[ch] : ch \in On}
  <2>1. place \in Surjection(On, places)
    BY DEF Surjection
  <2>2. IsFiniteSet(places) /\ Cardinality(places) <= on
    BY <1>3, <2>1, FS_Surjection
  <2>3. New \ Old \in SUBSET places
    BY <1>2
  <2>4. Cardinality(New \ Old) <= Cardinality(places) /\ IsFiniteSet(New \ Old)
    BY <2>2, <2>3, FS_Subset
  <2>5. Cardinality(New \ Old) \in Nat /\ Cardinality(places) \in Nat
    BY <2>2, <2>4, FS_CardinalityType
  <2>. QED
    BY <1>3, <2>2, <2>4, <2>5
<1>7. off <= Cardinality(Old \ New)
  <2> DEFINE place == [ch \in Off |-> ch.at]
  <2>1. place \in [Off -> Old \ New]
    BY <1>1 DEF EntriesOf
  <2>2. \A x, y \in Off : place[x] = place[y] => x = y
    BY DEF WellFormed
  <2>3. place \in Injection(Off, Old \ New)
    BY <2>1, <2>2 DEF Injection, IsInjective
  <2>. QED
    BY <1>5, <2>3, FS_Injection, FS_Difference
<1> DEFINE both == Cardinality(New \cap Old)
           gained == Cardinality(New \ Old)
           lost == Cardinality(Old \ New)
<1>8. /\ both \in Nat /\ gained \in Nat /\ lost \in Nat
      /\ Cardinality(New) = both + gained
      /\ Cardinality(Old) = both + lost
  <2>1. New \cap Old = Old \cap New
    OBVIOUS
  <2>. QED
    BY <1>5, <2>1, Parts
<1>9. NetAdded(e, f) = IF on > off THEN on - off ELSE 0
  BY DEF NetAdded
<1> DEFINE m == Cardinality(New)
           n == Cardinality(Old)
<1>10. m <= n + NetAdded(e, f)
  <2>1. m = both + gained /\ n = both + lost /\ gained <= on /\ off <= lost
    BY <1>6, <1>7, <1>8
  <2> HIDE DEF on, off, both, gained, lost, m, n
  <2>. QED
    BY <1>3, <1>8, <1>9, <2>1
<1>. QED
  BY <1>10

\* Once every edit is over the entries were given, and before that the allowances are set aside.
LEMMA GrantedImplies == ASSUME TypeOK, Granted PROVE NoSilentApproval
<1>1. ASSUME NEW f \in Files
      PROVE  Cardinality(EntriesOf(work, f)) <= given[f]
  <2>1. Cardinality(EntriesOf(work, f)) \in Nat
    BY Finite DEF TypeOK
  <2>2. Cardinality(Outstanding(f)) \in Nat
    BY FS_CardinalityType DEF Granted
  <2>3. Cardinality(EntriesOf(work, f)) + Cardinality(Outstanding(f)) <= given[f]
    BY DEF Granted
  <2>4. given[f] \in Nat
    BY DEF TypeOK
  <2>. QED
    BY <2>1, <2>2, <2>3, <2>4
<1>. QED
  BY <1>1 DEF NoSilentApproval

\* A function that is changed at one argument.
LEMMA ExceptOne ==
  ASSUME NEW g, DOMAIN g = Calls, NEW c \in Calls, NEW v, NEW h, h = [g EXCEPT ![c] = v]
  PROVE  DOMAIN h = Calls /\ \A b \in Calls : h[b] = IF b = c THEN v ELSE g[b]
OBVIOUS

\* The empty difference.
LEMMA NoDiffParts ==
  ASSUME TypeOK
  PROVE  NoDiff.changed = {} /\ NoDiff.slots = {} /\ NoDiff.none
BY DEF TypeOK, NoDiff, Diff, Patches, Names, Changed

\* An allowance is made for finitely many files and many entries.
LEMMA TypeInit == Init => TypeOK
<1> SUFFICES ASSUME Init PROVE TypeOK
  OBVIOUS
<1>1. work \in Trees /\ head \in Trees
  BY DEF Init, InitFrom
<1>2. given \in [Files -> Nat]
  BY <1>1, Finite DEF Init, InitFrom
<1>3. NoDiff.changed = {}
  BY DEF NoDiff, Diff, Patches, Names, Changed
<1>4. DOMAIN seen = Calls /\ \A c \in Calls : seen[c] = NoDiff
  BY DEF Init, InitFrom
<1>5. pc \in [Calls -> Points] /\ edit \in [Calls -> Edits \cup {{}}] /\ known \subseteq Files
      /\ \A c \in Calls : pc[c] = "idle"
  BY DEF Init, InitFrom, Points
<1>. QED
  BY <1>1, <1>2, <1>3, <1>4, <1>5 DEF TypeOK

\* Every variable stays in its range.
LEMMA TypeStep ==
  ASSUME TypeOK, [Next]_vars
  PROVE  TypeOK'
<1>1. ASSUME NEW c \in Calls, Pre(c)
      PROVE  TypeOK'
  <2>1. PICK e \in Edits : edit' = [edit EXCEPT ![c] = e]
    BY <1>1 DEF Pre
  <2>2. PICK at \in {"cleared", "asking", "idle"} : pc' = [pc EXCEPT ![c] = at]
    BY <1>1 DEF Pre, Go
  <2>3. pc' \in [Calls -> Points] /\ edit' \in [Calls -> Edits \cup {{}}]
    BY <2>1, <2>2 DEF TypeOK, Points
  <2>4. \A b \in Calls : pc'[b] = "diffed" => pc[b] = "diffed"
    BY <2>2 DEF TypeOK
  <2>5. UNCHANGED <<work, head, seen, given, known>>
    BY <1>1 DEF Pre
  <2>. QED
    BY <2>3, <2>4, <2>5 DEF TypeOK
<1>2. ASSUME NEW c \in Calls, Owner(c)
      PROVE  TypeOK'
  <2>1. PICK at \in {"cleared", "idle"} : pc' = [pc EXCEPT ![c] = at]
    BY <1>2 DEF Owner, Go
  <2>2. pc' \in [Calls -> Points]
    BY <2>1 DEF TypeOK, Points
  <2>3. WellFormed(edit[c])
    BY EditWellFormed DEF TypeOK
  <2>4. given' \in [Files -> Nat]
    BY <1>2, <2>3, NetAddedNat DEF Owner, TypeOK
  <2>5. \A b \in Calls : pc'[b] = "diffed" => pc[b] = "diffed"
    BY <2>1 DEF TypeOK
  <2>6. UNCHANGED <<work, head, edit, seen, known>>
    BY <1>2 DEF Owner
  <2>. QED
    BY <2>2, <2>4, <2>5, <2>6 DEF TypeOK
<1>3. ASSUME NEW c \in Calls, Land(c)
      PROVE  TypeOK'
  <2>1. PICK at \in {"landed", "idle"} : pc' = [pc EXCEPT ![c] = at]
    BY <1>3 DEF Land, Go
  <2>2. pc' \in [Calls -> Points]
    BY <2>1 DEF TypeOK, Points
  <2>3. WellFormed(edit[c])
    BY EditWellFormed DEF TypeOK
  <2>4. work' \in Trees
    BY <1>3, <2>3, ApplyTree DEF Land, TypeOK
  <2>5. \A b \in Calls : pc'[b] = "diffed" => pc[b] = "diffed"
    BY <2>1 DEF TypeOK
  <2>6. {ch.at : ch \in {x \in edit[c] : x.on = Attributes}} \subseteq Files
    BY <2>3, ChangeParts, TargetsAssumption DEF WellFormed
  <2>7. known' \subseteq Files
    BY <1>3, <2>6 DEF Land, TypeOK
  <2>8. UNCHANGED <<head, edit, seen, given>>
    BY <1>3 DEF Land
  <2>. QED
    BY <2>2, <2>4, <2>5, <2>7, <2>8 DEF TypeOK
<1>4. ASSUME NEW c \in Calls, PostNames(c)
      PROVE  TypeOK'
  <2>1. Names(work, head).changed \subseteq Files
    BY DEF Names, Changed
  <2>2. seen' = [seen EXCEPT ![c] = Names(work, head)] /\ pc' = [pc EXCEPT ![c] = "named"]
    BY <1>4 DEF PostNames, Go
  <2>7. /\ DOMAIN seen' = Calls
        /\ \A b \in Calls : seen'[b] = IF b = c THEN Names(work, head) ELSE seen[b]
    BY <2>2, ExceptOne DEF TypeOK
  <2>3. \A b \in Calls : seen'[b].changed \subseteq Files
    BY <2>1, <2>7 DEF TypeOK
  <2>4. pc' \in [Calls -> Points] /\ \A b \in Calls : pc'[b] = "diffed" => b # c /\ pc[b] = "diffed"
    BY <2>2 DEF TypeOK, Points
  <2>5. \A b \in Calls : pc'[b] = "diffed" => seen'[b].slots \subseteq Slots
    BY <2>4, <2>7 DEF TypeOK
  <2>6. UNCHANGED <<work, head, edit, given, known>>
    BY <1>4 DEF PostNames
  <2>. QED
    BY <2>3, <2>4, <2>5, <2>6, <2>7 DEF TypeOK
<1>5. ASSUME NEW c \in Calls, PostPatches(c)
      PROVE  TypeOK'
  <2> DEFINE d == Patches(seen[c], work, head)
  <2>1. d.changed \subseteq Files /\ d.slots \subseteq Slots
    <3>1. seen[c].changed \subseteq Files
      BY DEF TypeOK
    <3>. QED
      BY <3>1 DEF Patches, AddedSlots
  <2>2. seen' = [seen EXCEPT ![c] = d] /\ pc' = [pc EXCEPT ![c] = "diffed"]
    BY <1>5 DEF PostPatches, Go
  <2> HIDE DEF d
  <2>7. /\ DOMAIN seen' = Calls
        /\ \A b \in Calls : seen'[b] = IF b = c THEN d ELSE seen[b]
    BY <2>2, ExceptOne DEF TypeOK
  <2>3. \A b \in Calls : seen'[b].changed \subseteq Files
    BY <2>1, <2>7 DEF TypeOK
  <2>4. pc' \in [Calls -> Points]
    BY <2>2 DEF TypeOK, Points
  <2>5. \A b \in Calls : pc'[b] = "diffed" => seen'[b].slots \subseteq Slots
    BY <2>1, <2>2, <2>7 DEF TypeOK
  <2>6. UNCHANGED <<work, head, edit, given, known>>
    BY <1>5 DEF PostPatches
  <2>. QED
    BY <2>3, <2>4, <2>5, <2>6, <2>7 DEF TypeOK
<1>6. ASSUME NEW c \in Calls, Post(c)
      PROVE  TypeOK'
  <2>1. seen' = [seen EXCEPT ![c] = NoDiff] /\ pc' = [pc EXCEPT ![c] = "idle"]
    BY <1>6 DEF Post, Go
  <2>8. /\ DOMAIN seen' = Calls
        /\ \A b \in Calls : seen'[b] = IF b = c THEN NoDiff ELSE seen[b]
    BY <2>1, ExceptOne DEF TypeOK
  <2>2. \A b \in Calls : seen'[b].changed \subseteq Files
    BY <2>8, NoDiffParts DEF TypeOK
  <2>3. pc' \in [Calls -> Points] /\ \A b \in Calls : pc'[b] = "diffed" => b # c /\ pc[b] = "diffed"
    BY <2>1 DEF TypeOK, Points
  <2>4. \A b \in Calls : pc'[b] = "diffed" => seen'[b].slots \subseteq Slots
    BY <2>3, <2>8 DEF TypeOK
  <2>5. FilesOf(SessionReport(seen[c], work, head)) \subseteq Files
    <3>1. seen[c].changed \subseteq Files /\ seen[c].slots \subseteq Slots /\ work \in Trees
      <4>1. pc[c] = "diffed"
        BY <1>6 DEF Post
      <4>. QED
        BY <4>1 DEF TypeOK
    <3>2. FilesOf(SessionReport(seen[c], work, head)) =
            IF seen[c].none THEN {} ELSE {f \in Files : Indebted(seen[c], work, head, f)}
      BY <3>1, ReportFiles
    <3>. QED
      BY <3>2
  <2>6. known' \subseteq Files
    BY <1>6, <2>5 DEF Post, Reported, TypeOK
  <2>7. UNCHANGED <<work, head, edit, given>>
    BY <1>6 DEF Post
  <2>. QED
    BY <2>2, <2>3, <2>4, <2>6, <2>7, <2>8 DEF TypeOK
<1>7. ASSUME Write
      PROVE  TypeOK'
  <2>1. PICK ch \in Writes : /\ Applies(work, {ch}) /\ work' = Apply(work, {ch})
                             /\ given' = [f \in Files |-> given[f] + NetAdded({ch}, f)]
                             /\ known' = known \cup Files
    BY <1>7 DEF Write
  <2>2. work' \in Trees
    BY <2>1, WriteWellFormed, ApplyTree DEF TypeOK
  <2>3. given' \in [Files -> Nat]
    <3>1. \A f \in Files : NetAdded({ch}, f) \in Nat
      BY WriteWellFormed, NetAddedNat
    <3>2. given \in [Files -> Nat] /\ given' = [f \in Files |-> given[f] + NetAdded({ch}, f)]
      BY <2>1 DEF TypeOK
    <3>. QED
      BY ONLY <3>1, <3>2
  <2>4. UNCHANGED <<head, pc, edit, seen>>
    BY <1>7 DEF Write
  <2>. QED
    BY <2>1, <2>2, <2>3, <2>4 DEF TypeOK
<1>8. ASSUME Commit
      PROVE  TypeOK'
  <2>1. PICK S \in SUBSET (Files \cup {Manifest, Attributes}) :
       head' = [files |-> [f \in Files |-> IF f \in S THEN work.files[f] ELSE head.files[f]],
                approvals |-> IF Manifest \in S THEN work.approvals ELSE head.approvals,
                excluded |-> IF Attributes \in S THEN work.excluded ELSE head.excluded]
    BY <1>8 DEF Commit
  <2>2. head' \in Trees
    BY <2>1 DEF TypeOK, Trees
  <2>3. UNCHANGED <<work, pc, edit, seen, given, known>>
    BY <1>8 DEF Commit
  <2>. QED
    BY <2>2, <2>3 DEF TypeOK
<1>9. CASE UNCHANGED vars
  BY <1>9 DEF vars, TypeOK
<1>. QED
  BY <1>1, <1>2, <1>3, <1>4, <1>5, <1>6, <1>7, <1>8, <1>9 DEF Next

\* Every variable stays in its range.
THEOREM TypeInvariant == Spec => []TypeOK
BY TypeInit, TypeStep, PTL DEF Spec

\* What is allowed without a question adds no entry.
LEMMA AllowedAddsNone ==
  ASSUME NEW e \in Edits, PreDecision(e) = "allow", NEW f \in Files
  PROVE  NetAdded(e, f) = 0
<1>1. ~NeedsOwner(e)
  BY DEF PreDecision
<1>2. f \in Entries \ {Blank}
  BY EntriesAssumption DEF Entries
<1>3. NetAdded(e, f) \in Nat
  BY EditWellFormed, NetAddedNat
<1>4. ~(NetAdded(e, f) > 0)
  BY <1>1, <1>2 DEF NeedsOwner
<1>. QED
  BY <1>3, <1>4

\* The part of a set that belongs to one call, counted.
LEMMA ShareOfCall ==
  ASSUME NEW R, NEW c, NEW n, n \in Nat, \A x \in R : x = <<x[1], x[2]>>,
         \A i : <<c, i>> \in R <=> i \in 1..n,
         NEW share, share = {x \in R : x[1] = c}
  PROVE  IsFiniteSet(share) /\ Cardinality(share) = n
<1>1. IsFiniteSet(1..n) /\ Cardinality(1..n) = n
  <2>1. 1 \in Int /\ n \in Int
    OBVIOUS
  <2>2. IsFiniteSet(1..n) /\ Cardinality(1..n) = IF 1 > n THEN 0 ELSE n - 1 + 1
    BY <2>1, FS_Interval
  <2>. QED
    BY <2>2
<1>2. IsFiniteSet({x \in R : x[1] = c}) /\ Cardinality({x \in R : x[1] = c}) = Cardinality(1..n)
  BY <1>1, ShareSize
<1>. QED
  BY <1>1, <1>2

\* A set of two parts has the elements of both.
LEMMA TwoParts ==
  ASSUME NEW R, NEW rest, NEW share, IsFiniteSet(rest), IsFiniteSet(share),
         R = rest \cup share, rest \cap share = {}
  PROVE  IsFiniteSet(R) /\ Cardinality(R) = Cardinality(rest) + Cardinality(share)
<1>1. IsFiniteSet(rest \cup share)
      /\ Cardinality(rest \cup share) = Cardinality(rest) + Cardinality(share) - Cardinality(rest \cap share)
  BY FS_Union
<1>2. Cardinality(rest) \in Nat /\ Cardinality(share) \in Nat /\ Cardinality(rest \cap share) = 0
  BY FS_CardinalityType, FS_EmptySet
<1>3. IsFiniteSet(R) /\ Cardinality(R) = Cardinality(rest) + Cardinality(share) - 0
  BY <1>1, <1>2
<1>. QED
  BY <1>2, <1>3

\* The form of what is outstanding, before and after a step.
LEMMA OutstandingForm ==
  ASSUME NEW f, NEW c \in Calls, pc[c] = "cleared", NetAdded(edit[c], f) \in Nat
  PROVE  /\ \A x \in Outstanding(f) : x = <<x[1], x[2]>>
         /\ \A i : <<c, i>> \in Outstanding(f) <=> i \in 1..NetAdded(edit[c], f)
<1>1. \A i \in 1..NetAdded(edit[c], f) : i \in Nat
  OBVIOUS
<1>. QED
  BY <1>1 DEF Outstanding

\* The same after a step.
LEMMA OutstandingFormNext ==
  ASSUME NEW f, NEW c \in Calls, pc'[c] = "cleared", NetAdded(edit'[c], f) \in Nat
  PROVE  /\ \A x \in Outstanding(f)' : x = <<x[1], x[2]>>
         /\ \A i : <<c, i>> \in Outstanding(f)' <=> i \in 1..NetAdded(edit'[c], f)
<1>1. \A i \in 1..NetAdded(edit'[c], f) : i \in Nat
  OBVIOUS
<1>. QED
  BY <1>1 DEF Outstanding

\* Entries come with an allowance, and an allowance with a yes.
LEMMA GrantedStep ==
  ASSUME TypeOK, TypeOK', Granted, [Next]_vars
  PROVE  Granted'
<1> DEFINE entries(f) == Cardinality(EntriesOf(work, f))
           due(f) == Cardinality(Outstanding(f))
<1>1. ASSUME NEW f \in Files
      PROVE  /\ IsFiniteSet(Outstanding(f)) /\ due(f) \in Nat /\ entries(f) \in Nat
             /\ given[f] \in Nat /\ entries(f) + due(f) <= given[f]
  <2>1. IsFiniteSet(Outstanding(f)) /\ entries(f) + due(f) <= given[f] /\ given[f] \in Nat
    BY DEF Granted, TypeOK
  <2>2. entries(f) \in Nat
    BY Finite DEF TypeOK
  <2>. QED
    BY <2>1, <2>2, FS_CardinalityType
<1>2. ASSUME \A f \in Files : Outstanding(f)' = Outstanding(f), UNCHANGED <<work, given>>
      PROVE  Granted'
  BY <1>1, <1>2 DEF Granted
<1>3. ASSUME NEW c \in Calls, Pre(c)
      PROVE  Granted'
  <2>1. PICK e \in Edits :
           /\ edit' = [edit EXCEPT ![c] = e]
           /\ \/ PreDecision(e) = "allow" /\ Go(c, "cleared")
              \/ PreDecision(e) = "ask" /\ Go(c, "asking")
              \/ PreDecision(e) \in {"violation", "unverified"} /\ Go(c, "idle")
    BY <1>3 DEF Pre
  <2>2. pc[c] = "idle" /\ UNCHANGED <<work, given>>
    BY <1>3 DEF Pre
  <2>3. ASSUME NEW f \in Files
        PROVE  Outstanding(f)' = Outstanding(f)
    <3>1. edit'[c] = e /\ \A b \in Calls \ {c} : edit'[b] = edit[b] /\ pc'[b] = pc[b]
      BY <2>1 DEF TypeOK, Go
    <3>2. pc'[c] = "cleared" => NetAdded(e, f) = 0
      BY <2>1, AllowedAddsNone DEF Go, TypeOK
    <3>3. ASSUME NEW b \in Calls, NEW k \in Nat
          PROVE  (pc'[b] = "cleared" /\ k \in 1..NetAdded(edit'[b], f))
                   <=> (pc[b] = "cleared" /\ k \in 1..NetAdded(edit[b], f))
      <4>1. CASE b = c
        BY <2>2, <3>1, <3>2, <4>1
      <4>2. CASE b # c
        BY <3>1, <4>2
      <4>. QED BY <4>1, <4>2
    <3>4. ASSUME NEW x \in Calls \X Nat
          PROVE  (pc'[x[1]] = "cleared" /\ x[2] \in 1..NetAdded(edit'[x[1]], f))
                   <=> (pc[x[1]] = "cleared" /\ x[2] \in 1..NetAdded(edit[x[1]], f))
      BY <3>3
    <3>. QED
      BY <3>4 DEF Outstanding
  <2>. QED
    BY <1>2, <2>2, <2>3
<1>4. ASSUME NEW c \in Calls, Owner(c)
      PROVE  Granted'
  <2>1. pc[c] = "asking" /\ UNCHANGED <<work, edit>>
    BY <1>4 DEF Owner
  <2>2. CASE Go(c, "cleared") /\ given' = [f \in Files |-> given[f] + NetAdded(edit[c], f)]
    <3>1. pc'[c] = "cleared" /\ \A b \in Calls \ {c} : pc'[b] = pc[b]
      BY <2>2 DEF Go, TypeOK
    <3>2. ASSUME NEW f \in Files
          PROVE  /\ IsFiniteSet(Outstanding(f)')
                 /\ entries(f)' + due(f)' <= given'[f]
      <4>1. \A x \in Outstanding(f) : x[1] # c
        BY <2>1 DEF Outstanding
      <4>2. \A x \in Outstanding(f)' : x[1] # c => x \in Outstanding(f)
        BY <2>1, <3>1 DEF Outstanding
      <4>3. Outstanding(f) \subseteq Outstanding(f)'
        BY <2>1, <3>1 DEF Outstanding
      <4>4. \A x \in Outstanding(f)' : x \in Outstanding(f) <=> x[1] # c
        BY <4>1, <4>2
      <4>6. NetAdded(edit[c], f) \in Nat
        BY EditWellFormed, NetAddedNat DEF TypeOK
      <4>5. /\ IsFiniteSet(Outstanding(f)')
            /\ Cardinality(Outstanding(f)') = Cardinality(Outstanding(f)) + NetAdded(edit[c], f)
        <5>1. /\ \A x \in Outstanding(f)' : x = <<x[1], x[2]>>
              /\ \A i : <<c, i>> \in Outstanding(f)' <=> i \in 1..NetAdded(edit[c], f)
          BY <2>1, <3>1, <4>6, OutstandingFormNext
        <5> DEFINE all == Outstanding(f)'
                   rest == Outstanding(f)
                   share == {x \in all : x[1] = c}
        <5>2. IsFiniteSet(share) /\ Cardinality(share) = NetAdded(edit[c], f)
          BY <4>6, <5>1, ShareOfCall
        <5>3. all = rest \cup share /\ rest \cap share = {} /\ IsFiniteSet(rest)
          BY <1>1, <4>3, <4>4
        <5> HIDE DEF all, rest, share
        <5>4. IsFiniteSet(all) /\ Cardinality(all) = Cardinality(rest) + Cardinality(share)
          BY <5>2, <5>3, TwoParts
        <5>. QED
          BY <5>2, <5>4 DEF all, rest
      <4>7. given'[f] = given[f] + NetAdded(edit[c], f)
        BY <2>2
      <4>8. entries(f)' = entries(f)
        BY <2>1
      <4>. QED
        BY <1>1, <2>1, <4>5, <4>6, <4>7, <4>8
    <3>. QED
      BY <3>2 DEF Granted
  <2>3. CASE Go(c, "idle") /\ UNCHANGED given
    <3>1. pc'[c] = "idle" /\ \A b \in Calls \ {c} : pc'[b] = pc[b]
      BY <2>3 DEF Go, TypeOK
    <3>2. \A f \in Files : Outstanding(f)' = Outstanding(f)
      BY <2>1, <3>1 DEF Outstanding
    <3>. QED
      BY <1>2, <2>1, <2>3, <3>2
  <2>. QED
    BY <1>4, <2>2, <2>3 DEF Owner
<1>5. ASSUME NEW c \in Calls, Land(c)
      PROVE  Granted'
  <2>1. pc[c] = "cleared" /\ UNCHANGED <<edit, given>>
    BY <1>5 DEF Land
  <2>2. pc'[c] # "cleared" /\ \A b \in Calls \ {c} : pc'[b] = pc[b]
    BY <1>5 DEF Land, Go, TypeOK
  <2>3. ASSUME NEW f \in Files
        PROVE  entries(f)' <= entries(f) + NetAdded(edit[c], f)
               /\ NetAdded(edit[c], f) \in Nat /\ entries(f)' \in Nat
    <3>1. WellFormed(edit[c])
      BY EditWellFormed DEF TypeOK
    <3>2. NetAdded(edit[c], f) \in Nat
      BY <3>1, NetAddedNat
    <3>3. entries(f)' \in Nat
      BY Finite DEF TypeOK
    <3>4. CASE Applies(work, edit[c]) /\ work' = Apply(work, edit[c])
      BY <3>1, <3>2, <3>3, <3>4, EntriesAfter DEF TypeOK
    <3>5. CASE UNCHANGED work
      BY <1>1, <3>2, <3>3, <3>5
    <3>. QED
      BY <1>5, <3>4, <3>5 DEF Land
  <2>4. ASSUME NEW f \in Files
        PROVE  /\ IsFiniteSet(Outstanding(f)')
               /\ entries(f)' + due(f)' <= given'[f]
    <3>1. /\ Outstanding(f)' \subseteq Outstanding(f)
          /\ \A x \in Outstanding(f) : x \in Outstanding(f)' <=> x[1] # c
      BY <2>1, <2>2 DEF Outstanding
    <3>2. IsFiniteSet(Outstanding(f)') /\ Cardinality(Outstanding(f)') \in Nat
      <4>1. Outstanding(f)' \in SUBSET Outstanding(f)
        BY <3>1
      <4>. QED
        BY <1>1, <4>1, FS_Subset, FS_CardinalityType
    <3>3. /\ \A x \in Outstanding(f) : x = <<x[1], x[2]>>
          /\ \A i : <<c, i>> \in Outstanding(f) <=> i \in 1..NetAdded(edit[c], f)
      BY <2>1, <2>3, OutstandingForm
    <3>4. Cardinality(Outstanding(f)) = Cardinality(Outstanding(f)') + NetAdded(edit[c], f)
      <4> DEFINE all == Outstanding(f)
                 rest == Outstanding(f)'
                 share == {x \in all : x[1] = c}
      <4>1. NetAdded(edit[c], f) \in Nat
        BY <2>3
      <4>2. IsFiniteSet(share) /\ Cardinality(share) = NetAdded(edit[c], f)
        BY <3>3, <4>1, ShareOfCall
      <4>3. all = rest \cup share /\ rest \cap share = {} /\ IsFiniteSet(rest)
        BY <3>1, <3>2
      <4> HIDE DEF all, rest, share
      <4>4. Cardinality(all) = Cardinality(rest) + Cardinality(share)
        BY <4>2, <4>3, TwoParts
      <4>. QED
        BY <4>2, <4>4 DEF all, rest
    <3>6. given'[f] = given[f]
      BY <2>1
    <3>. QED
      BY <1>1, <2>3, <3>2, <3>4, <3>6
  <2>. QED
    BY <2>4 DEF Granted
<1>6. ASSUME NEW c \in Calls, PostNames(c) \/ PostPatches(c) \/ Post(c)
      PROVE  Granted'
  <2>1. pc[c] # "cleared" /\ pc'[c] # "cleared" /\ \A b \in Calls \ {c} : pc'[b] = pc[b]
    BY <1>6 DEF PostNames, PostPatches, Post, Go, TypeOK
  <2>2. UNCHANGED <<work, edit, given>>
    BY <1>6 DEF PostNames, PostPatches, Post
  <2>3. \A f \in Files : Outstanding(f)' = Outstanding(f)
    BY <2>1, <2>2 DEF Outstanding
  <2>. QED
    BY <1>2, <2>2, <2>3
<1>7. ASSUME Write
      PROVE  Granted'
  <2>1. PICK ch \in Writes : /\ Applies(work, {ch}) /\ work' = Apply(work, {ch})
                             /\ given' = [f \in Files |-> given[f] + NetAdded({ch}, f)]
    BY <1>7 DEF Write
  <2>2. UNCHANGED <<pc, edit>>
    BY <1>7 DEF Write
  <2>3. ASSUME NEW f \in Files
        PROVE  /\ IsFiniteSet(Outstanding(f)')
               /\ entries(f)' + due(f)' <= given'[f]
    <3>1. Outstanding(f)' = Outstanding(f)
      BY <2>2 DEF Outstanding
    <3>2. NetAdded({ch}, f) \in Nat
      BY WriteWellFormed, NetAddedNat
    <3>3. entries(f)' <= entries(f) + NetAdded({ch}, f)
      BY <2>1, WriteWellFormed, EntriesAfter DEF TypeOK
    <3>4. entries(f)' \in Nat
      BY Finite DEF TypeOK
    <3>5. given'[f] = given[f] + NetAdded({ch}, f)
      BY <2>1
    <3>. QED
      BY <1>1, <3>1, <3>2, <3>3, <3>4, <3>5
  <2>. QED
    BY <2>3 DEF Granted
<1>8. ASSUME Commit
      PROVE  Granted'
  BY <1>2, <1>8 DEF Commit, Outstanding
<1>9. CASE UNCHANGED vars
  BY <1>2, <1>9 DEF vars, Outstanding
<1>. QED
  BY <1>3, <1>4, <1>5, <1>6, <1>7, <1>8, <1>9 DEF Next

\* Nothing is outstanding at first.
LEMMA GrantedInit == ASSUME Init, TypeOK PROVE Granted
<1>1. ASSUME NEW f \in Files
      PROVE  Outstanding(f) = {} /\ given[f] = Cardinality(EntriesOf(work, f))
             /\ Cardinality(EntriesOf(work, f)) \in Nat
  <2>1. Outstanding(f) = {}
    BY DEF Init, InitFrom, Outstanding
  <2>. QED
    BY <2>1, Finite DEF Init, InitFrom, TypeOK
<1>. QED
  BY <1>1, FS_EmptySet DEF Granted

\* What was given covers what there is and what is still to come.
THEOREM GrantedInvariant == Spec => []Granted
<1>1. Init => Granted
  BY TypeInit, GrantedInit
<1>2. TypeOK /\ TypeOK' /\ Granted /\ [Next]_vars => Granted'
  BY GrantedStep
<1>. QED
  BY <1>1, <1>2, TypeInvariant, PTL DEF Spec

\* No approval without the owner, whatever parallel calls did between the
\* question and the write (D011).
THEOREM ApprovalSafe == Spec => []NoSilentApproval
<1>1. TypeOK /\ Granted => NoSilentApproval
  BY GrantedImplies
<1>. QED
  BY <1>1, TypeInvariant, GrantedInvariant, PTL

\* The session report refuses no tree that the whole-tree check passes.
THEOREM FalseDebtSafe == Spec => []NoFalseDebt
<1>1. TypeOK => NoFalseDebt
  BY NoFalseDebtAlways
<1>. QED
  BY <1>1, TypeInvariant, PTL

\* Unchanged occurrences consume capacity before added lines (D020).
THEOREM CapacitySafe == Spec => []CapacityRule
<1>1. TypeOK => CapacityRule
  BY CapacityAlways
<1>. QED
  BY <1>1, TypeInvariant, PTL

\* A session that took nothing back and has no debt leaves a consistent tree.
THEOREM EscapeSafe == Spec => []NothingEscapes
<1>1. TypeOK => NothingEscapes
  BY NothingEscapesAlways
<1>. QED
  BY <1>1, TypeInvariant, PTL

-----------------------------------------------------------------------------
(* What the report says of a file, when it is seen from elsewhere.         *)

InDebt(t, h) == FilesOf(SessionReport(Diff(t, h), t, h))

\* A list of names, and a difference, that show f as it is, or more of it.
Naming(n, t, h, f) ==
  /\ f \in Changed(t, h) => /\ f \in n.changed
                            /\ f \in n.untracked <=> f \in Untracked(t, h)
  /\ t.approvals # h.approvals => n.manifest
  /\ n.none => f \notin Changed(t, h) /\ t.approvals = h.approvals
Showing(d, t, h, f) ==
  /\ f \in Changed(t, h) => /\ f \in d.changed
                            /\ d.added[f] = Diff(t, h).added[f]
                            /\ d.removed[f] = Diff(t, h).removed[f]
  /\ AddedSlots(t, h) \subseteq d.slots
  /\ d.none => f \notin Changed(t, h) /\ AddedSlots(t, h) = {}

\* From one pair of trees to another, nothing about f became a difference.
Shrinks(t1, h1, t2, h2, f) ==
  /\ t1.files[f] = t2.files[f] /\ t1.approvals = t2.approvals
  /\ f \in t1.excluded <=> f \in t2.excluded
  /\ h2.files[f] \in {h1.files[f], t2.files[f]}
  /\ h2.approvals \in {h1.approvals, t2.approvals}

\* When some entry of a file is debt.
LEMMA OrphansWhen ==
  ASSUME NEW t \in Trees, NEW h \in Trees, NEW d, NEW f \in Files
  PROVE  OrphansIn(d, t, h, f) # {} <=>
           /\ Asked(d, t, f) /\ ~Broken(t, f)
           /\ Covered(t, f) # Cardinality(EntriesOf(t, f))
           /\ EntriesOf(t, f) \cap d.slots # {} \/ Gone(d, t, h, f) # 0
<1> DEFINE E == EntriesOf(t, f)
           L == Left(d, t, f)
           gone == Gone(d, t, h, f)
           before(s) == {r \in L \ d.slots : r < s}
<1>1. /\ E \in SUBSET Nat /\ IsFiniteSet(E) /\ Covered(t, f) \in Nat
      /\ Covered(t, f) <= Cardinality(E)
  BY Finite, CoveredBound
<1>2. L \in SUBSET E /\ IsFiniteSet(L)
  BY <1>1, SurplusSize DEF Left
<1>3. L = {} <=> Covered(t, f) = Cardinality(E)
  BY <1>1, SurplusNone DEF Left
<1>4. gone \in Nat
  <2>1. h.files[f].marks \subseteq Lines
    BY TreeParts, ContentParts
  <2>2. IsFiniteSet(h.files[f].marks \cap d.removed[f])
    BY <2>1, LinesAssumption, FS_Subset
  <2>. QED
    BY <2>2, FS_CardinalityType DEF Gone
<1>5. ASSUME NEW s \in Nat
      PROVE  Cardinality(before(s)) \in Nat
  <2>1. before(s) \in SUBSET L
    OBVIOUS
  <2>. QED
    BY <1>2, <2>1, FS_Subset, FS_CardinalityType
<1>6. ASSUME OrphansIn(d, t, h, f) # {}
      PROVE  /\ Asked(d, t, f) /\ ~Broken(t, f) /\ L # {}
             /\ E \cap d.slots # {} \/ gone # 0
  <2>1. Asked(d, t, f) /\ ~Broken(t, f)
    BY <1>6 DEF OrphansIn
  <2>2. PICK s \in L : s \in d.slots \/ Cardinality(before(s)) < gone
    BY <1>6, <2>1 DEF OrphansIn
  <2>3. s \in E /\ Cardinality(before(s)) \in Nat
    BY <1>1, <1>2, <1>5
  <2> HIDE DEF before, gone, L, E
  <2>. QED
    BY <1>4, <2>1, <2>2, <2>3
<1>7. ASSUME Asked(d, t, f), ~Broken(t, f), L # {}, E \cap d.slots # {} \/ gone # 0
      PROVE  OrphansIn(d, t, h, f) # {}
  <2>1. CASE L \cap d.slots # {}
    BY <1>7, <2>1 DEF OrphansIn
  <2>2. CASE L \cap d.slots = {}
    <3>1. E \cap d.slots = {}
      <4>1. /\ Covered(t, f) <= Cardinality(E \ d.slots) => E \cap d.slots \subseteq L
            /\ Covered(t, f) >= Cardinality(E \ d.slots) => L \subseteq d.slots
        BY <1>1, AddedLast DEF Left
      <4>2. Cardinality(E \ d.slots) \in Nat
        BY <1>1, Parts
      <4>3. \/ Covered(t, f) <= Cardinality(E \ d.slots)
            \/ Covered(t, f) >= Cardinality(E \ d.slots)
        BY <1>1, <4>2
      <4>. QED
        BY <1>7, <2>2, <4>1, <4>3
    <3>2. PICK s \in L : {r \in L : r < s} = {}
      BY <1>1, <1>2, <1>7, First
    <3>3. before(s) = {}
      BY <3>2
    <3>4. Cardinality(before(s)) = 0
      BY <3>3, FS_EmptySet
    <3>5. Cardinality(before(s)) < gone
      BY <1>4, <1>7, <3>1, <3>4
    <3>. QED
      BY <1>7, <3>5 DEF OrphansIn
  <2>. QED
    BY <2>1, <2>2
<1>. QED
  BY <1>3, <1>6, <1>7

\* What is debt with less of a difference is debt with more of it.
LEMMA ReportShrinks ==
  ASSUME NEW t1 \in Trees, NEW t2 \in Trees, NEW h1 \in Trees, NEW h2 \in Trees,
         NEW d1, NEW d2, NEW f \in Files,
         t1.files[f] = t2.files[f], t1.approvals = t2.approvals,
         f \in t1.excluded <=> f \in t2.excluded,
         d2.slots \subseteq d1.slots,
         f \in d2.changed => /\ f \in d1.changed /\ h1.files[f] = h2.files[f]
                             /\ d1.added[f] = d2.added[f] /\ d1.removed[f] = d2.removed[f],
         f \notin d2.changed => d2.removed[f] = {},
         Indebted(d2, t2, h2, f)
  PROVE  Indebted(d1, t1, h1, f)
<1>1. EntriesOf(t1, f) = EntriesOf(t2, f)
  BY DEF EntriesOf
<1>2. Occ(t1, f) = Occ(t2, f) /\ (Broken(t1, f) <=> Broken(t2, f))
  BY <1>1 DEF Occ, Broken, Included, Present
<1>3. Covered(t1, f) = Covered(t2, f)
  BY <1>1, <1>2 DEF Covered
<1>4. Asked(d2, t2, f) => Asked(d1, t1, f)
  BY <1>1 DEF Asked
<1>5. \A d : Left(d, t1, f) = {} <=> Covered(t1, f) = Cardinality(EntriesOf(t1, f))
  <2>1. /\ EntriesOf(t1, f) \in SUBSET Nat /\ IsFiniteSet(EntriesOf(t1, f))
        /\ Covered(t1, f) \in Nat /\ Covered(t1, f) <= Cardinality(EntriesOf(t1, f))
    BY Finite, CoveredBound
  <2>. QED
    BY <2>1, SurplusNone DEF Left
<1>6. \A d : Left(d, t1, f) = Left(d, t2, f)
  BY <1>1, <1>3 DEF Left
<1>7. LookedAt(d2, t2, f) => LookedAt(d1, t1, f) /\ h1.files[f] = h2.files[f]
  BY <1>2, <1>4, <1>5, <1>6 DEF LookedAt
<1>8. Gone(d2, t2, h2, f) # 0 => Gone(d1, t1, h1, f) # 0
  BY <1>7 DEF Gone, LookedAt
<1>9. CASE UncoveredIn(d2, t2, f) # {}
  BY <1>2, <1>3, <1>9 DEF UncoveredIn, Over, Indebted
<1>10. CASE OrphansIn(d2, t2, h2, f) # {}
  <2>1. /\ Asked(d2, t2, f) /\ ~Broken(t2, f)
        /\ Covered(t2, f) # Cardinality(EntriesOf(t2, f))
        /\ EntriesOf(t2, f) \cap d2.slots # {} \/ Gone(d2, t2, h2, f) # 0
    BY <1>10, OrphansWhen
  <2>2. EntriesOf(t1, f) \cap d1.slots # {} \/ Gone(d1, t1, h1, f) # 0
    BY <1>1, <1>8, <2>1
  <2>3. OrphansIn(d1, t1, h1, f) # {}
    BY <1>1, <1>2, <1>3, <1>4, <2>1, <2>2, OrphansWhen
  <2>. QED
    BY <2>3 DEF Indebted
<1>11. CASE UnresolvedIn(d2, t2, h2, f)
  BY <1>2, <1>4, <1>7, <1>11 DEF UnresolvedIn, Indebted
<1>. QED
  BY <1>9, <1>10, <1>11 DEF Indebted

\* Names read now name what there is.
LEMMA NamesNow ==
  ASSUME NEW t, NEW h, NEW f
  PROVE  Naming(Names(t, h), t, h, f)
BY DEF Naming, Names, Changed

\* Patches of names that are right show what there is.
LEMMA PatchesNow ==
  ASSUME NEW t \in Trees, NEW h \in Trees, NEW f \in Files, NEW n, Naming(n, t, h, f)
  PROVE  Showing(Patches(n, t, h), t, h, f)
<1> DEFINE p == Patches(n, t, h)
           now == Diff(t, h)
<1>1. /\ p.none = n.none /\ p.changed = n.changed
      /\ p.slots = IF n.manifest THEN AddedSlots(t, h) ELSE {}
      /\ p.added[f] = IF f \in n.untracked THEN Lines
                      ELSE IF f \in n.changed \ Untracked(t, h) THEN AddedLines(t, h, f) ELSE {}
      /\ p.removed[f] = IF f \in n.changed \ n.untracked THEN RemovedLines(t, h, f) ELSE {}
  BY DEF Patches
<1>2. f \in Changed(t, h) => now.added[f] = AddedLines(t, h, f)
  BY DiffParts
<1>3. now.removed[f] = IF f \in Changed(t, h) \ Untracked(t, h) THEN RemovedLines(t, h, f) ELSE {}
  BY DiffParts
<1>4. f \in Untracked(t, h) => AddedLines(t, h, f) = Lines
  BY DEF AddedLines
<1>5. t.approvals = h.approvals => AddedSlots(t, h) = {}
  BY DEF AddedSlots
<1> HIDE DEF p, now
<1>6. ASSUME f \in Changed(t, h)
      PROVE  f \in p.changed /\ p.added[f] = now.added[f] /\ p.removed[f] = now.removed[f]
  BY <1>1, <1>2, <1>3, <1>4, <1>6 DEF Naming
<1>7. AddedSlots(t, h) \subseteq p.slots
  BY <1>1, <1>5 DEF Naming
<1>8. p.none => f \notin Changed(t, h) /\ AddedSlots(t, h) = {}
  BY <1>1, <1>5 DEF Naming
<1>. QED
  BY <1>6, <1>7, <1>8 DEF Showing, p, now

\* Without a change or a new entry there is nothing to owe.
LEMMA DebtHasCause ==
  ASSUME NEW d, NEW t, NEW h, NEW f, Indebted(d, t, h, f)
  PROVE  f \in d.changed \/ d.slots # {}
BY DEF Indebted, UncoveredIn, OrphansIn, UnresolvedIn, LookedAt, Asked

\* Whose debt there is.
LEMMA InDebtWhen ==
  ASSUME NEW t \in Trees, NEW h \in Trees, NEW f
  PROVE  f \in InDebt(t, h) <=> f \in Files /\ t # h /\ Indebted(Diff(t, h), t, h, f)
<1> DEFINE d == Diff(t, h)
<1>1. d.changed \subseteq Files /\ d.slots \subseteq Slots /\ (d.none <=> t = h)
  BY DiffParts
<1> HIDE DEF d
<1>2. FilesOf(SessionReport(d, t, h)) =
        IF d.none THEN {} ELSE {g \in Files : Indebted(d, t, h, g)}
  BY <1>1, ReportFiles
<1>. QED
  BY <1>1, <1>2 DEF InDebt, d

\* A difference that shows what there is, reports it.
LEMMA ShownIsReported ==
  ASSUME NEW t \in Trees, NEW h \in Trees, NEW d, NEW f, Showing(d, t, h, f),
         d.changed \subseteq Files, d.slots \subseteq Slots, f \in InDebt(t, h)
  PROVE  f \in FilesOf(SessionReport(d, t, h))
<1> DEFINE now == Diff(t, h)
<1>1. f \in Files /\ Indebted(now, t, h, f)
  BY InDebtWhen
<1>2. /\ now.changed = Changed(t, h) /\ now.slots = AddedSlots(t, h)
      /\ now.removed[f] = IF f \in Changed(t, h) \ Untracked(t, h) THEN RemovedLines(t, h, f) ELSE {}
  BY <1>1, DiffParts
<1>3. f \in Changed(t, h) => /\ f \in d.changed
                             /\ d.added[f] = now.added[f] /\ d.removed[f] = now.removed[f]
  BY DEF Showing
<1> HIDE DEF now
<1>4. ~d.none
  BY <1>1, <1>2, DebtHasCause DEF Showing
<1>5. Indebted(d, t, h, f)
  <2>1. now.slots \subseteq d.slots
    BY <1>2 DEF Showing
  <2>2. f \in now.changed => /\ f \in d.changed /\ h.files[f] = h.files[f]
                             /\ d.added[f] = now.added[f] /\ d.removed[f] = now.removed[f]
    BY <1>2, <1>3
  <2>3. f \notin now.changed => now.removed[f] = {}
    BY <1>2
  <2>. QED
    BY <1>1, <2>1, <2>2, <2>3, ReportShrinks
<1>. QED
  BY <1>1, <1>4, <1>5, ReportFiles

\* What a smaller difference leaves the same.
LEMMA ShrinkParts ==
  ASSUME NEW t1 \in Trees, NEW t2 \in Trees, NEW h1 \in Trees, NEW h2 \in Trees,
         NEW f \in Files, Shrinks(t1, h1, t2, h2, f)
  PROVE  /\ AddedSlots(t2, h2) \subseteq AddedSlots(t1, h1)
         /\ t2.approvals # h2.approvals => t1.approvals # h1.approvals
         /\ f \in Changed(t2, h2) =>
              /\ f \in Changed(t1, h1) /\ h1.files[f] = h2.files[f]
              /\ f \in Untracked(t1, h1) <=> f \in Untracked(t2, h2)
              /\ Diff(t1, h1).added[f] = Diff(t2, h2).added[f]
              /\ Diff(t1, h1).removed[f] = Diff(t2, h2).removed[f]
<1>1. AddedSlots(t2, h2) \subseteq AddedSlots(t1, h1)
  BY DEF AddedSlots, Shrinks
<1>2. t2.approvals # h2.approvals => t1.approvals # h1.approvals
  BY DEF Shrinks
<1>3. ASSUME f \in Changed(t2, h2)
      PROVE  /\ f \in Changed(t1, h1) /\ h1.files[f] = h2.files[f]
             /\ f \in Untracked(t1, h1) <=> f \in Untracked(t2, h2)
             /\ Diff(t1, h1).added[f] = Diff(t2, h2).added[f]
             /\ Diff(t1, h1).removed[f] = Diff(t2, h2).removed[f]
  <2>1. h1.files[f] = h2.files[f] /\ t1.files[f] = t2.files[f]
    BY <1>3 DEF Changed, Shrinks
  <2>2. f \in Changed(t1, h1)
    BY <1>3, <2>1 DEF Changed
  <2>3. f \in Untracked(t1, h1) <=> f \in Untracked(t2, h2)
    BY <2>1 DEF Untracked, Present
  <2>4. AddedLines(t1, h1, f) = AddedLines(t2, h2, f)
    BY <2>1, <2>3 DEF AddedLines
  <2>5. RemovedLines(t1, h1, f) = RemovedLines(t2, h2, f)
    BY <2>1 DEF RemovedLines
  <2>6. /\ Diff(t1, h1).added[f] = AddedLines(t1, h1, f)
        /\ Diff(t1, h1).removed[f] = IF f \in Changed(t1, h1) \ Untracked(t1, h1)
                                     THEN RemovedLines(t1, h1, f) ELSE {}
    BY <2>2, DiffParts
  <2>7. /\ Diff(t2, h2).added[f] = AddedLines(t2, h2, f)
        /\ Diff(t2, h2).removed[f] = IF f \in Changed(t2, h2) \ Untracked(t2, h2)
                                     THEN RemovedLines(t2, h2, f) ELSE {}
    BY <1>3, DiffParts
  <2>. QED
    BY <1>3, <2>1, <2>2, <2>3, <2>4, <2>5, <2>6, <2>7
<1>. QED
  BY <1>1, <1>2, <1>3

\* A smaller difference brings no debt.
LEMMA DebtShrinks ==
  ASSUME NEW t1 \in Trees, NEW t2 \in Trees, NEW h1 \in Trees, NEW h2 \in Trees,
         NEW f, f \in Files, Shrinks(t1, h1, t2, h2, f), f \in InDebt(t2, h2)
  PROVE  f \in InDebt(t1, h1)
<1> DEFINE d1 == Diff(t1, h1)
           d2 == Diff(t2, h2)
<1>1. /\ AddedSlots(t2, h2) \subseteq AddedSlots(t1, h1)
      /\ f \in Changed(t2, h2) =>
           /\ f \in Changed(t1, h1) /\ h1.files[f] = h2.files[f]
           /\ d1.added[f] = d2.added[f] /\ d1.removed[f] = d2.removed[f]
  BY ShrinkParts
<1>2. Indebted(d2, t2, h2, f)
  BY InDebtWhen
<1>3. /\ d1.changed = Changed(t1, h1) /\ d1.slots = AddedSlots(t1, h1)
      /\ d2.changed = Changed(t2, h2) /\ d2.slots = AddedSlots(t2, h2)
  BY DiffParts
<1>4. f \notin Changed(t2, h2) => d2.removed[f] = {}
  BY DiffParts
<1>5. t1 # h1
  <2>1. t1 = h1 => f \notin Changed(t1, h1) /\ AddedSlots(t1, h1) = {}
    BY DEF Changed, AddedSlots
  <2> HIDE DEF d1, d2
  <2>2. f \in Changed(t2, h2) \/ AddedSlots(t2, h2) # {}
    BY <1>2, <1>3, DebtHasCause
  <2>. QED
    BY <1>1, <2>1, <2>2
<1>6. Indebted(d1, t1, h1, f)
  <2>1. t1.files[f] = t2.files[f] /\ t1.approvals = t2.approvals
        /\ (f \in t1.excluded <=> f \in t2.excluded)
    BY DEF Shrinks
  <2> HIDE DEF d1, d2
  <2>. QED
    BY <1>1, <1>2, <1>3, <1>4, <2>1, ReportShrinks
<1>. QED
  BY <1>5, <1>6, InDebtWhen

\* What showed f goes on to show it.
LEMMA StillShown ==
  ASSUME NEW t1 \in Trees, NEW t2 \in Trees, NEW h1 \in Trees, NEW h2 \in Trees,
         NEW f \in Files, Shrinks(t1, h1, t2, h2, f), NEW d
  PROVE  /\ Naming(d, t1, h1, f) => Naming(d, t2, h2, f)
         /\ Showing(d, t1, h1, f) => Showing(d, t2, h2, f)
<1>1. /\ AddedSlots(t2, h2) \subseteq AddedSlots(t1, h1)
      /\ t2.approvals # h2.approvals => t1.approvals # h1.approvals
      /\ f \in Changed(t2, h2) =>
           /\ f \in Changed(t1, h1)
           /\ f \in Untracked(t1, h1) <=> f \in Untracked(t2, h2)
           /\ Diff(t1, h1).added[f] = Diff(t2, h2).added[f]
           /\ Diff(t1, h1).removed[f] = Diff(t2, h2).removed[f]
  BY ShrinkParts
<1>2. ASSUME Naming(d, t1, h1, f) PROVE Naming(d, t2, h2, f)
  BY <1>1, <1>2 DEF Naming
<1>3. ASSUME Showing(d, t1, h1, f) PROVE Showing(d, t2, h2, f)
  BY <1>1, <1>3 DEF Showing
<1>. QED
  BY <1>2, <1>3

-----------------------------------------------------------------------------
(* Nobody is surprised by debt.                                            *)

\* The post hook of c is still to read f, or has read it as it is now.
Current(c, f) ==
  \/ pc[c] = "landed"
  \/ pc[c] = "named" /\ Naming(seen[c], work, head, f)
  \/ pc[c] = "diffed" /\ Showing(seen[c], work, head, f)

\* Debt that nobody was told of is about to be told.
Told ==
  Parses(work) =>
     \A f \in InDebt(work, head) \ known :
        \E c \in Calls : f \in Doubtful(edit[c]) /\ Current(c, f)

\* An edit leaves alone a file that it does not name.
LEMMA FileElsewhere ==
  ASSUME NEW t \in Trees, NEW e, NEW f \in Files, \A ch \in e : ch.on # f
  PROVE  Apply(t, e).files[f] = t.files[f]
<1>1. \A at, was : After(e, f, at, was) = was
  BY AfterCases
<1>2. t.files[f] \in Contents
  BY TreeParts
<1>3. t.files[f] = [kind |-> t.files[f].kind, marks |-> t.files[f].marks]
  BY <1>2 DEF Contents
<1>4. /\ t.files[f].marks \subseteq Lines
      /\ t.files[f].kind = "absent" => t.files[f].marks = {}
  BY <1>2, ContentParts
<1>5. Edited(e, f, t.files[f]).kind = t.files[f].kind
  BY <1>1 DEF Edited
<1>6. Edited(e, f, t.files[f]).marks = t.files[f].marks
  BY <1>1, <1>4 DEF Edited
<1>7. Edited(e, f, t.files[f]) =
        [kind |-> Edited(e, f, t.files[f]).kind, marks |-> Edited(e, f, t.files[f]).marks]
  BY DEF Edited
<1>. QED
  BY <1>3, <1>5, <1>6, <1>7 DEF Apply

\* An edit leaves alone what it does not name.
LEMMA ApplyElsewhere ==
  ASSUME NEW t \in Trees, NEW e, NEW f, f \in Files, f \notin Doubtful(e),
         \A ch \in e : ch.on = Attributes => ch.at # f
  PROVE  /\ Apply(t, e).files[f] = t.files[f]
         /\ Apply(t, e).approvals = t.approvals
         /\ f \in Apply(t, e).excluded <=> f \in t.excluded
<1>1. \A ch \in e : ch.on # Manifest /\ ch.on # f
  BY DEF Doubtful, TargetsOf
<1>2. \A at, was : After(e, Manifest, at, was) = was
  BY <1>1, AfterCases
<1>3. Apply(t, e).files[f] = t.files[f]
  BY <1>1, FileElsewhere
<1>4. Apply(t, e).approvals = t.approvals
  <2>1. t.approvals = [s \in Slots |-> t.approvals[s]]
    BY TreeParts
  <2>2. [s \in Slots |-> After(e, Manifest, s, t.approvals[s])] = [s \in Slots |-> t.approvals[s]]
    BY <1>2
  <2>. QED
    BY <2>1, <2>2 DEF Apply
<1>5. f \in Apply(t, e).excluded <=> f \in t.excluded
  <2>1. \A was : After(e, Attributes, f, was) = was
    BY AfterCases
  <2>. QED
    BY <2>1 DEF Apply
<1>. QED
  BY <1>3, <1>4, <1>5

\* At first there is no debt.
LEMMA ToldInit == ASSUME Init, TypeOK PROVE Told
<1>1. work \in Trees /\ head \in Trees /\ work = head
  BY DEF Init, TypeOK
<1>. QED
  BY <1>1, InDebtWhen DEF Told

\* What was about to be told is told, or still about to be.
LEMMA ToldStep ==
  ASSUME TypeOK, TypeOK', Told, [Next]_vars
  PROVE  Told'
<1>1. /\ work \in Trees /\ head \in Trees /\ work' \in Trees /\ head' \in Trees
      /\ pc \in [Calls -> Points] /\ edit \in [Calls -> Edits \cup {{}}] /\ DOMAIN seen = Calls
  BY DEF TypeOK
<1>2. InDebt(work, head) \subseteq Files /\ InDebt(work', head') \subseteq Files
  BY <1>1, InDebtWhen
<1>3. ASSUME NEW c \in Calls, pc[c] \notin {"landed", "named", "diffed"},
             UNCHANGED <<work, head>>, known \subseteq known',
             \A b \in Calls \ {c} : pc'[b] = pc[b] /\ edit'[b] = edit[b] /\ seen'[b] = seen[b]
      PROVE  Told'
  <2> SUFFICES ASSUME Parses(work), NEW f \in InDebt(work, head) \ known'
               PROVE  \E b \in Calls : f \in Doubtful(edit'[b]) /\ Current(b, f)'
    BY <1>3 DEF Told
  <2>1. PICK b \in Calls : f \in Doubtful(edit[b]) /\ Current(b, f)
    BY <1>3 DEF Told
  <2>2. b # c
    BY <1>3, <2>1 DEF Current
  <2>. QED
    BY <1>3, <2>1, <2>2 DEF Current
<1>4. ASSUME NEW c \in Calls, Pre(c) \/ Owner(c)
      PROVE  Told'
  <2>1. pc[c] \in {"idle", "asking"} /\ UNCHANGED <<work, head, seen, known>>
    BY <1>4 DEF Pre, Owner
  <2>2. \A b \in Calls \ {c} : pc'[b] = pc[b] /\ edit'[b] = edit[b]
    BY <1>1, <1>4 DEF Pre, Owner, Go
  <2>. QED
    BY <1>3, <2>1, <2>2
<1>5. ASSUME NEW c \in Calls, Land(c)
      PROVE  Told'
  <2>1. pc[c] = "cleared" /\ UNCHANGED <<head, edit, seen>>
    BY <1>5 DEF Land
  <2>2. \A b \in Calls \ {c} : pc'[b] = pc[b]
    BY <1>1, <1>5 DEF Land, Go
  <2>3. CASE UNCHANGED <<work, known>>
    BY <1>3, <2>1, <2>2, <2>3
  <2>4. CASE /\ work' = Apply(work, edit[c]) /\ Go(c, "landed")
             /\ known' = (known \ Doubtful(edit[c]))
                           \cup {ch.at : ch \in {x \in edit[c] : x.on = Attributes}}
    <3> SUFFICES ASSUME Parses(work'), NEW f \in InDebt(work', head) \ known'
                 PROVE  \E b \in Calls : f \in Doubtful(edit[b]) /\ Current(b, f)'
      BY <2>1 DEF Told
    <3>1. pc'[c] = "landed"
      BY <1>1, <2>4 DEF Go
    <3>2. CASE f \in Doubtful(edit[c])
      BY <3>1, <3>2 DEF Current
    <3>3. CASE f \notin Doubtful(edit[c])
      <4>1. f \in Files
        BY <1>2, <2>1
      <4>2. f \notin known /\ \A ch \in edit[c] : ch.on = Attributes => ch.at # f
        BY <2>4, <3>3
      <4>3. /\ work'.files[f] = work.files[f] /\ work'.approvals = work.approvals
            /\ f \in work'.excluded <=> f \in work.excluded
        BY <1>1, <2>4, <3>3, <4>1, <4>2, ApplyElsewhere
      <4>4. Shrinks(work, head, work', head, f) /\ Parses(work)
        BY <4>3 DEF Shrinks, Parses
      <4>5. f \in InDebt(work, head)
        BY <1>1, <4>1, <4>4, DebtShrinks
      <4>6. PICK b \in Calls : f \in Doubtful(edit[b]) /\ Current(b, f)
        BY <4>2, <4>4, <4>5 DEF Told
      <4>7. pc'[b] = pc[b] /\ seen'[b] = seen[b]
        BY <2>1, <2>2, <4>6 DEF Current
      <4>8. /\ Naming(seen[b], work, head, f) => Naming(seen[b], work', head, f)
            /\ Showing(seen[b], work, head, f) => Showing(seen[b], work', head, f)
        BY <1>1, <4>1, <4>4, StillShown
      <4>9. Current(b, f)'
        BY <2>1, <4>6, <4>7, <4>8 DEF Current
      <4>. QED
        BY <4>6, <4>9
    <3>. QED
      BY <3>2, <3>3
  <2>. QED
    BY <1>5, <2>3, <2>4 DEF Land
<1>6. ASSUME NEW c \in Calls, PostNames(c) \/ PostPatches(c)
      PROVE  Told'
  <2>1. UNCHANGED <<work, head, edit, known>>
    BY <1>6 DEF PostNames, PostPatches
  <2>2. \A b \in Calls \ {c} : pc'[b] = pc[b] /\ seen'[b] = seen[b]
    BY <1>1, <1>6 DEF PostNames, PostPatches, Go
  <2> SUFFICES ASSUME Parses(work), NEW f \in InDebt(work, head) \ known
               PROVE  \E b \in Calls : f \in Doubtful(edit[b]) /\ Current(b, f)'
    BY <2>1 DEF Told
  <2>3. PICK b \in Calls : f \in Doubtful(edit[b]) /\ Current(b, f)
    BY DEF Told
  <2>4. CASE b # c
    BY <2>1, <2>2, <2>3, <2>4 DEF Current
  <2>5. CASE b = c /\ PostNames(c)
    <3>1. pc'[c] = "named" /\ seen'[c] = Names(work, head)
      BY <1>1, <2>5 DEF PostNames, Go
    <3>. QED
      BY <2>1, <2>3, <2>5, <3>1, NamesNow DEF Current
  <2>6. CASE b = c /\ PostPatches(c)
    <3>1. pc[c] = "named" /\ pc'[c] = "diffed" /\ seen'[c] = Patches(seen[c], work, head)
      BY <1>1, <2>6 DEF PostPatches, Go
    <3>2. Naming(seen[c], work, head, f)
      BY <2>3, <2>6, <3>1 DEF Current
    <3>3. Showing(Patches(seen[c], work, head), work, head, f)
      BY <1>1, <1>2, <3>2, PatchesNow
    <3>. QED
      BY <2>1, <2>3, <2>6, <3>1, <3>3 DEF Current
  <2>. QED
    BY <1>6, <2>4, <2>5, <2>6
<1>7. ASSUME NEW c \in Calls, Post(c)
      PROVE  Told'
  <2>1. pc[c] = "diffed" /\ UNCHANGED <<work, head, edit>>
    BY <1>7 DEF Post
  <2>2. \A b \in Calls \ {c} : pc'[b] = pc[b] /\ seen'[b] = seen[b]
    BY <1>1, <1>7 DEF Post, Go
  <2> DEFINE report == SessionReport(seen[c], work, head)
  <2>3. known' = IF ~ReadableFrom(seen[c], work) THEN known
                 ELSE known \cup Reported(edit[c], report)
    BY <1>7 DEF Post
  <2> SUFFICES ASSUME Parses(work), NEW f \in InDebt(work, head) \ known'
               PROVE  \E b \in Calls : f \in Doubtful(edit[b]) /\ Current(b, f)'
    BY <2>1 DEF Told
  <2>4. known' = known \cup Reported(edit[c], report)
    BY <2>3 DEF ReadableFrom
  <2>5. PICK b \in Calls : f \in Doubtful(edit[b]) /\ Current(b, f)
    BY <2>4 DEF Told
  <2>6. CASE b # c
    BY <2>1, <2>2, <2>5, <2>6 DEF Current
  <2>7. CASE b = c
    <3>1. Showing(seen[c], work, head, f)
      BY <2>1, <2>5, <2>7 DEF Current
    <3>2. seen[c].changed \subseteq Files /\ seen[c].slots \subseteq Slots
      BY <2>1 DEF TypeOK
    <3>3. f \in FilesOf(report)
      BY <1>1, <3>1, <3>2, ShownIsReported
    <3> HIDE DEF report
    <3>4. f \in Reported(edit[c], report)
      BY <2>5, <2>7, <3>3 DEF Reported, Doubtful
    <3>. QED
      BY <2>4, <3>4
  <2>. QED
    BY <2>6, <2>7
<1>8. ASSUME Write
      PROVE  Told'
  <2>1. Files \subseteq known'
    BY <1>8 DEF Write
  <2>. QED
    BY <1>2, <2>1 DEF Told
<1>9. ASSUME Commit
      PROVE  Told'
  <2>1. PICK S \in SUBSET (Files \cup {Manifest, Attributes}) :
          head' = [files |-> [f \in Files |-> IF f \in S THEN work.files[f] ELSE head.files[f]],
                   approvals |-> IF Manifest \in S THEN work.approvals ELSE head.approvals,
                   excluded |-> IF Attributes \in S THEN work.excluded ELSE head.excluded]
    BY <1>9 DEF Commit
  <2>2. UNCHANGED <<work, pc, edit, seen, known>>
    BY <1>9 DEF Commit
  <2> SUFFICES ASSUME Parses(work), NEW f \in InDebt(work, head') \ known
               PROVE  \E b \in Calls : f \in Doubtful(edit[b]) /\ Current(b, f)'
    BY <2>2 DEF Told
  <2>3. f \in Files
    BY <1>2, <2>2
  <2>4. Shrinks(work, head, work, head', f)
    BY <2>1, <2>3 DEF Shrinks
  <2>5. f \in InDebt(work, head)
    BY <1>1, <2>3, <2>4, DebtShrinks
  <2>6. PICK b \in Calls : f \in Doubtful(edit[b]) /\ Current(b, f)
    BY <2>5 DEF Told
  <2>7. /\ Naming(seen[b], work, head, f) => Naming(seen[b], work, head', f)
        /\ Showing(seen[b], work, head, f) => Showing(seen[b], work, head', f)
    BY <1>1, <2>3, <2>4, StillShown
  <2>. QED
    BY <2>2, <2>6, <2>7 DEF Current
<1>10. CASE UNCHANGED vars
  BY <1>10 DEF vars, Told, Current
<1>. QED
  BY <1>4, <1>5, <1>6, <1>7, <1>8, <1>9, <1>10 DEF Next

\* Debt is told, or about to be.
THEOREM ToldInvariant == Spec => []Told
<1>1. Init => Told
  BY TypeInit, ToldInit
<1>2. TypeOK /\ TypeOK' /\ Told /\ [Next]_vars => Told'
  BY ToldStep
<1>. QED
  BY <1>1, <1>2, TypeInvariant, PTL DEF Spec

\* No debt comes as a surprise in a later, unrelated call.
THEOREM UnseenSafe == Spec => []NoUnseenDebt
<1>1. TypeOK /\ Told => NoUnseenDebt
  <2> SUFFICES ASSUME TypeOK, Told, \A c \in Calls : pc[c] = "idle", Readable
               PROVE  FilesOf(Debt) \subseteq known
    BY DEF NoUnseenDebt
  <2>1. work \in Trees /\ head \in Trees
    BY DEF TypeOK
  <2>2. FilesOf(Debt) = InDebt(work, head)
    BY DEF Debt, Here, InDebt
  <2>3. CASE Parses(work)
    BY <2>2, <2>3 DEF Told, Current
  <2>4. CASE Here.none
    <3>1. work = head
      BY <2>1, <2>4, DiffParts DEF Here
    <3>. QED
      BY <2>1, <2>2, <3>1, InDebtWhen
  <2>. QED
    BY <2>3, <2>4 DEF Readable, ReadableFrom
<1>. QED
  BY <1>1, TypeInvariant, ToldInvariant, PTL

-----------------------------------------------------------------------------
(* There is always a repair.  Burden is a number of four digits: slots that *)
(* do not parse, files that do not resolve, debt, entries.                  *)

Bad(t) == {s \in Slots : t.approvals[s] = Unparsable}
Filled(t) == {s \in Slots : t.approvals[s] # Blank}
Radix == Cardinality(Lines) * Cardinality(Files) + Cardinality(Slots) + 1
Number(b, u, c, e) == ((b * Radix + u) * Radix + c) * Radix + e

\* Burden by its digits.
LEMMA BurdenForm ==
  ASSUME NEW t, NEW r,
         Cardinality(Bad(t)) \in Nat, Cardinality(r.unresolvable) \in Nat,
         Cardinality(r.uncovered) \in Nat, Cardinality(r.orphans) \in Nat,
         Cardinality(Filled(t)) \in Nat, Radix \in Nat
  PROVE  Burden(t, r) = Number(Cardinality(Bad(t)), Cardinality(r.unresolvable),
                               Cardinality(r.uncovered) + Cardinality(r.orphans),
                               Cardinality(Filled(t)))
<1> DEFINE b == Cardinality(Bad(t))
           u == Cardinality(r.unresolvable)
           m == Cardinality(r.uncovered)
           o == Cardinality(r.orphans)
           e == Cardinality(Filled(t))
<1>1. Burden(t, r) = ((b * Radix + u) * Radix + m + o) * Radix + e
  BY DEF Burden, Bad, Filled, Radix
<1>2. b * Radix \in Nat
  OBVIOUS
<1> DEFINE B == b * Radix + u
<1>3. B \in Nat
  BY <1>2
<1> HIDE DEF B
<1>4. B * Radix \in Nat
  BY <1>3
<1> HIDE DEF m, o
<1>5. B * Radix + m + o = B * Radix + (m + o)
  BY <1>4 DEF m, o
<1>. QED
  BY <1>1, <1>5 DEF Number, B, m, o

\* A digit of a number.
LEMMA Digits ==
  ASSUME NEW L \in Nat, NEW x \in Nat, NEW y \in Nat, NEW r \in Nat, NEW q \in Nat
  PROVE  /\ x * L + r \in Nat
         /\ x < y /\ r < L => x * L + r < y * L + q
         /\ x <= y /\ r < q => x * L + r < y * L + q
         /\ x <= y /\ r <= q => x * L + r <= y * L + q
<1>1. x * L \in Nat /\ y * L \in Nat
  OBVIOUS
<1>2. ASSUME NEW k \in Nat, y = x + k
      PROVE  y * L = x * L + k * L /\ k * L \in Nat
  BY <1>2
<1>3. ASSUME x <= y
      PROVE  x * L <= y * L
  <2>1. y - x \in Nat /\ y = x + (y - x)
    BY <1>3
  <2>. QED
    BY <1>1, <1>2, <2>1
<1>4. ASSUME x < y
      PROVE  x * L + L <= y * L
  <2>1. y - x - 1 \in Nat /\ y = x + (1 + (y - x - 1))
    BY <1>4
  <2> DEFINE k == y - x - 1
  <2>2. k \in Nat /\ y = x + (1 + k)
    BY <2>1
  <2> HIDE DEF k
  <2>3. y * L = x * L + (1 + k) * L /\ (1 + k) * L = L + k * L /\ k * L \in Nat
    BY <1>2, <2>2
  <2>. QED
    BY <1>1, <2>3
<1>. QED
  BY <1>1, <1>3, <1>4

\* One number is smaller than another when the first digit that differs is.
LEMMA Smaller ==
  ASSUME NEW b \in Nat, NEW u \in Nat, NEW c \in Nat, NEW e \in Nat,
         NEW b2 \in Nat, NEW u2 \in Nat, NEW c2 \in Nat, NEW e2 \in Nat,
         Radix \in Nat, u2 < Radix, c2 < Radix, e2 < Radix, b2 <= b,
         \/ b2 < b
         \/ u2 < u
         \/ u2 <= u /\ c2 < c
         \/ u2 <= u /\ c2 <= c /\ e2 < e
  PROVE  Number(b2, u2, c2, e2) < Number(b, u, c, e)
<1> DEFINE x == b * Radix + u
           x2 == b2 * Radix + u2
           y == x * Radix + c
           y2 == x2 * Radix + c2
<1>1. x \in Nat /\ x2 \in Nat
      /\ (b2 < b \/ u2 < u => x2 < x)
      /\ (b2 < b \/ u2 <= u => x2 <= x)
  <2>1. /\ b2 < b /\ u2 < Radix => x2 < x
        /\ b2 <= b /\ u2 < u => x2 < x
        /\ b2 <= b /\ u2 <= u => x2 <= x
    BY Digits
  <2>2. x \in Nat /\ x2 \in Nat
    BY Digits
  <2> HIDE DEF x, x2
  <2>. QED
    BY <2>1, <2>2
<1> HIDE DEF x, x2
<1>2. y \in Nat /\ y2 \in Nat
      /\ (x2 < x => y2 < y)
      /\ (x2 <= x /\ c2 < c => y2 < y)
      /\ (x2 <= x /\ c2 <= c => y2 <= y)
  BY <1>1, Digits
<1> HIDE DEF y, y2
<1>3. /\ y2 < y => y2 * Radix + e2 < y * Radix + e
      /\ y2 <= y /\ e2 < e => y2 * Radix + e2 < y * Radix + e
  BY <1>2, Digits
<1>4. y2 < y \/ (y2 <= y /\ e2 < e)
  BY <1>1, <1>2
<1>. QED
  BY <1>3, <1>4 DEF Number, x, x2, y, y2

\* No part of a report needs two digits.
LEMMA RadixBound ==
  /\ Radix \in Nat
  /\ Cardinality(Files) \in Nat /\ Cardinality(Files) < Radix
  /\ Cardinality(Slots) \in Nat /\ Cardinality(Slots) < Radix
  /\ Cardinality(Files \X Lines) \in Nat
  /\ Cardinality(Files \X Lines) + Cardinality(Slots) < Radix
<1> DEFINE n == Cardinality(Lines)
           m == Cardinality(Files)
           k == Cardinality(Slots)
<1>1. n \in Nat /\ m \in Nat /\ k \in Nat
  BY LinesAssumption, FS_CardinalityType
<1>2. n # 0
  BY LinesAssumption, FS_EmptySet
<1>3. Cardinality(Files \X Lines) = m * n
  BY LinesAssumption, FS_Product
<1>4. Radix = n * m + k + 1
  BY DEF Radix
<1> HIDE DEF n, m, k
<1>5. n * m \in Nat /\ m * n = n * m
  BY <1>1
<1>6. m <= n * m
  <2>1. n - 1 \in Nat /\ n = 1 + (n - 1)
    BY <1>1, <1>2
  <2> DEFINE p == n - 1
  <2>2. p \in Nat /\ n = 1 + p
    BY <2>1
  <2> HIDE DEF p
  <2>3. n * m = m + p * m /\ p * m \in Nat
    BY <1>1, <2>2
  <2>. QED
    BY <1>1, <2>3
<1>7. Radix \in Nat /\ m < Radix /\ k < Radix /\ Cardinality(Files \X Lines) + k < Radix
  BY <1>1, <1>3, <1>4, <1>5, <1>6
<1>. QED
  BY <1>1, <1>3, <1>5, <1>7 DEF m, k

\* The sizes of a report.
LEMMA ReportSizes ==
  ASSUME NEW t \in Trees, NEW h \in Trees
  PROVE  LET r == SessionReport(Diff(t, h), t, h)
         IN  /\ IsFiniteSet(r.unresolvable) /\ IsFiniteSet(r.uncovered) /\ IsFiniteSet(r.orphans)
             /\ Cardinality(r.unresolvable) \in Nat /\ Cardinality(r.unresolvable) < Radix
             /\ Cardinality(r.uncovered) \in Nat /\ Cardinality(r.orphans) \in Nat
             /\ Cardinality(r.uncovered) + Cardinality(r.orphans) < Radix
<1> DEFINE d == Diff(t, h)
           r == SessionReport(d, t, h)
<1>1. d.changed \subseteq Files /\ d.slots \subseteq Slots
  BY DiffParts
<1> HIDE DEF d
<1>2. /\ r.unresolvable \in SUBSET Files
      /\ r.uncovered \in SUBSET (Files \X Lines)
      /\ r.orphans \in SUBSET (Files \X Slots)
      /\ \A x \in r.orphans : t.approvals[x[2]] = x[1]
  <2>1. CASE d.none
    BY <2>1, NoneReport
  <2>2. CASE ~d.none
    <3>1. /\ r.uncovered = {x \in Files \X Lines : x[2] \in UncoveredIn(d, t, x[1])}
          /\ r.orphans = {x \in Files \X Slots : x[2] \in OrphansIn(d, t, h, x[1])}
          /\ r.unresolvable = {f \in Files : UnresolvedIn(d, t, h, f)}
      BY <1>1, <2>2, ReportParts
    <3>2. \A f \in Files : OrphansIn(d, t, h, f) \subseteq EntriesOf(t, f)
      BY DEF OrphansIn, Left, Surplus
    <3> HIDE DEF r
    <3>3. ASSUME NEW x \in r.orphans
          PROVE  t.approvals[x[2]] = x[1]
      BY <3>1, <3>2 DEF EntriesOf
    <3>. QED
      BY <3>1, <3>3
  <2>. QED
    BY <2>1, <2>2
<1> HIDE DEF r
<1>3. IsFiniteSet(r.unresolvable) /\ Cardinality(r.unresolvable) <= Cardinality(Files)
  BY <1>2, LinesAssumption, FS_Subset
<1>4. IsFiniteSet(r.uncovered) /\ Cardinality(r.uncovered) <= Cardinality(Files \X Lines)
  BY <1>2, LinesAssumption, FS_Product, FS_Subset
<1>5. IsFiniteSet(r.orphans) /\ Cardinality(r.orphans) <= Cardinality(Slots)
  <2> DEFINE slot == [x \in r.orphans |-> x[2]]
  <2>1. slot \in [r.orphans -> Slots]
    BY <1>2
  <2>2. ASSUME NEW x \in r.orphans, NEW y \in r.orphans, slot[x] = slot[y]
        PROVE  x = y
    <3>1. x = <<x[1], x[2]>> /\ y = <<y[1], y[2]>>
      BY <1>2
    <3>2. x[2] = y[2] /\ x[1] = t.approvals[x[2]] /\ y[1] = t.approvals[y[2]]
      BY <1>2, <2>2
    <3>. QED
      BY <3>1, <3>2
  <2>3. slot \in Injection(r.orphans, Slots)
    BY <2>1, <2>2 DEF Injection, IsInjective
  <2>. QED
    BY <2>3, LinesAssumption, FS_Injection
<1>6. /\ Cardinality(r.unresolvable) \in Nat /\ Cardinality(r.uncovered) \in Nat
      /\ Cardinality(r.orphans) \in Nat
  BY <1>3, <1>4, <1>5, FS_CardinalityType
<1>7. /\ Cardinality(r.unresolvable) < Radix
      /\ Cardinality(r.uncovered) + Cardinality(r.orphans) < Radix
  BY <1>3, <1>4, <1>5, <1>6, RadixBound
<1>. QED
  BY <1>3, <1>4, <1>5, <1>6, <1>7 DEF r, d

\* Only the members of a set take their turn.
LEMMA SurplusAgree ==
  ASSUME NEW S, NEW a, NEW b, NEW n, \A i \in S : i \in a <=> i \in b
  PROVE  Surplus(S, a, n) = Surplus(S, b, n)
<1>1. ASSUME NEW i \in S
      PROVE  Preceding(S, a, i) = Preceding(S, b, i)
  BY DEF Preceding, Before
<1>. QED
  BY <1>1, SurplusByTurn DEF Turn

\* What the report says of a file depends on that file and its entries.
LEMMA ElsewhereSame ==
  ASSUME NEW t \in Trees, NEW u \in Trees, NEW h \in Trees, NEW f \in Files,
         u.files[f] = t.files[f], EntriesOf(u, f) = EntriesOf(t, f),
         f \in u.excluded <=> f \in t.excluded,
         \A s \in EntriesOf(t, f) : s \in AddedSlots(u, h) <=> s \in AddedSlots(t, h)
  PROVE  LET d == Diff(t, h)
             n == Diff(u, h)
         IN  /\ UncoveredIn(n, u, f) = UncoveredIn(d, t, f)
             /\ OrphansIn(n, u, h, f) = OrphansIn(d, t, h, f)
             /\ UnresolvedIn(n, u, h, f) <=> UnresolvedIn(d, t, h, f)
<1> DEFINE d == Diff(t, h)
           n == Diff(u, h)
           E == EntriesOf(t, f)
<1>1. /\ d.changed = Changed(t, h) /\ n.changed = Changed(u, h)
      /\ d.slots = AddedSlots(t, h) /\ n.slots = AddedSlots(u, h)
      /\ d.removed[f] = IF f \in Changed(t, h) \ Untracked(t, h) THEN RemovedLines(t, h, f) ELSE {}
      /\ n.removed[f] = IF f \in Changed(u, h) \ Untracked(u, h) THEN RemovedLines(u, h, f) ELSE {}
      /\ f \in Changed(t, h) => d.added[f] = AddedLines(t, h, f)
      /\ f \in Changed(u, h) => n.added[f] = AddedLines(u, h, f)
  BY DiffParts
<1>2. /\ f \in Changed(u, h) <=> f \in Changed(t, h)
      /\ f \in Untracked(u, h) <=> f \in Untracked(t, h)
  BY DEF Changed, Untracked, Present
<1>3. AddedLines(u, h, f) = AddedLines(t, h, f) /\ RemovedLines(u, h, f) = RemovedLines(t, h, f)
  BY <1>2 DEF AddedLines, RemovedLines
<1>4. n.removed[f] = d.removed[f] /\ (f \in d.changed => n.added[f] = d.added[f])
      /\ (f \in n.changed <=> f \in d.changed)
      /\ (\A s \in E : s \in n.slots <=> s \in d.slots)
  BY <1>1, <1>2, <1>3
<1> HIDE DEF d, n
<1>5. Occ(u, f) = Occ(t, f) /\ (Broken(u, f) <=> Broken(t, f))
  BY DEF Occ, Broken, Included, Present
<1>6. Covered(u, f) = Covered(t, f)
  BY <1>5 DEF Covered
<1>7. Asked(n, u, f) <=> Asked(d, t, f)
  BY <1>4 DEF Asked
<1>8. f \in d.changed => Over(n, u, f) = Over(d, t, f)
  BY <1>4, <1>5, <1>6 DEF Over
<1>9. Left(n, u, f) = Left(d, t, f) /\ Left(d, t, f) \subseteq E
  <2>1. Surplus(E, n.slots, Covered(t, f)) = Surplus(E, d.slots, Covered(t, f))
    BY <1>4, SurplusAgree
  <2>2. Surplus(E, d.slots, Covered(t, f)) \subseteq E
    BY DEF Surplus
  <2>. QED
    BY <1>6, <2>1, <2>2 DEF Left
<1>10. LookedAt(n, u, f) <=> LookedAt(d, t, f)
  BY <1>4, <1>5, <1>7, <1>9 DEF LookedAt
<1>11. Gone(n, u, h, f) = Gone(d, t, h, f)
  BY <1>4, <1>10 DEF Gone
<1>12. UncoveredIn(n, u, f) = UncoveredIn(d, t, f)
  BY <1>4, <1>5, <1>8 DEF UncoveredIn
<1>13. OrphansIn(n, u, h, f) = OrphansIn(d, t, h, f)
  <2>1. Left(n, u, f) \ n.slots = Left(d, t, f) \ d.slots
    BY <1>4, <1>9
  <2> DEFINE G == Gone(d, t, h, f)
             L == Left(d, t, f)
  <2>2. {s \in L : s \in n.slots \/ Cardinality({r \in L \ n.slots : r < s}) < G}
          = {s \in L : s \in d.slots \/ Cardinality({r \in L \ d.slots : r < s}) < G}
    BY <1>4, <1>9, <2>1
  <2>. QED
    BY <1>5, <1>7, <1>9, <1>11, <2>2 DEF OrphansIn
<1>14. UnresolvedIn(n, u, h, f) <=> UnresolvedIn(d, t, h, f)
  BY <1>5, <1>7, <1>10 DEF UnresolvedIn
<1>. QED
  BY <1>12, <1>13, <1>14 DEF d, n

\* How many entries of a file are debt.
LEMMA OrphansSize ==
  ASSUME NEW t \in Trees, NEW h \in Trees, NEW d, NEW f \in Files, Asked(d, t, f), ~Broken(t, f)
  PROVE  LET m == Cardinality(EntriesOf(t, f)) - Covered(t, f)
             a == Cardinality(EntriesOf(t, f) \cap d.slots)
             k == IF a <= m THEN a ELSE m
             gone == Gone(d, t, h, f)
         IN  /\ m \in Nat /\ a \in Nat /\ gone \in Nat
             /\ Cardinality(OrphansIn(d, t, h, f)) = k + IF gone <= m - k THEN gone ELSE m - k
<1> DEFINE E == EntriesOf(t, f)
           L == Left(d, t, f)
           gone == Gone(d, t, h, f)
           few == {s \in L \ d.slots : Cardinality({r \in L \ d.slots : r < s}) < gone}
           m == Cardinality(E) - Covered(t, f)
           a == Cardinality(E \cap d.slots)
           k == IF a <= m THEN a ELSE m
<1>1. /\ E \in SUBSET Nat /\ IsFiniteSet(E) /\ Covered(t, f) \in Nat
      /\ Cardinality(E) \in Nat /\ Covered(t, f) <= Cardinality(E)
  BY Finite, CoveredBound
<1>2. L \in SUBSET E /\ IsFiniteSet(L) /\ Cardinality(L) = m
  BY <1>1, SurplusSize DEF Left
<1>3. Cardinality(L \cap d.slots) = k
  BY <1>1, SurplusAdded DEF Left
<1>4. gone \in Nat
  <2>1. h.files[f].marks \subseteq Lines
    BY TreeParts, ContentParts
  <2>2. IsFiniteSet(h.files[f].marks \cap d.removed[f])
    BY <2>1, LinesAssumption, FS_Subset
  <2>. QED
    BY <2>2, FS_CardinalityType DEF Gone
<1>5. /\ IsFiniteSet(L \cap d.slots) /\ IsFiniteSet(L \ d.slots)
      /\ Cardinality(L) = Cardinality(L \cap d.slots) + Cardinality(L \ d.slots)
      /\ Cardinality(L \ d.slots) \in Nat
  BY <1>2, Parts
<1>6. /\ IsFiniteSet(few)
      /\ Cardinality(few) = IF gone <= Cardinality(L \ d.slots) THEN gone ELSE Cardinality(L \ d.slots)
  <2>1. L \ d.slots \in SUBSET Nat
    BY <1>1, <1>2
  <2> HIDE DEF L, gone
  <2>. QED
    BY <1>4, <1>5, <2>1, FirstFew
<1>7. OrphansIn(d, t, h, f) = few \cup (L \cap d.slots) /\ few \cap (L \cap d.slots) = {}
  BY DEF OrphansIn
<1>8. a \in Nat /\ m \in Nat
  <2>1. a \in Nat
    BY <1>1, Parts
  <2> HIDE DEF E
  <2>. QED
    BY <1>1, <2>1
<1> DEFINE new == L \cap d.slots
<1> HIDE DEF few, L, gone, E
<1>9. Cardinality(OrphansIn(d, t, h, f)) = Cardinality(few) + Cardinality(L \cap d.slots)
  <2>1. IsFiniteSet(new)
    BY <1>5
  <2>2. OrphansIn(d, t, h, f) = few \cup new /\ few \cap new = {}
    BY <1>7
  <2> HIDE DEF new
  <2>3. Cardinality(OrphansIn(d, t, h, f)) = Cardinality(few) + Cardinality(new)
    BY <1>6, <2>1, <2>2, TwoParts
  <2>. QED
    BY <2>3 DEF new
<1>10. Cardinality(L \ d.slots) = m - k
  BY <1>2, <1>3, <1>5, <1>8
<1>11. Cardinality(few) = IF gone <= m - k THEN gone ELSE m - k
  BY <1>6, <1>10
<1> HIDE DEF m, a
<1>12. Cardinality(OrphansIn(d, t, h, f)) = k + IF gone <= m - k THEN gone ELSE m - k
  BY <1>3, <1>4, <1>8, <1>9, <1>11
<1>. QED
  BY <1>4, <1>8, <1>12 DEF E, m, a, gone

\* The repair that blanks a manifest line.
Blanking(t, s) == [on |-> Manifest, at |-> s, from |-> t.approvals[s], to |-> Blank]

\* A blanking can be made, and leaves all else alone.
LEMMA Blanked ==
  ASSUME NEW t \in Trees, NEW s \in Slots, t.approvals[s] # Blank
  PROVE  LET ch == Blanking(t, s)
             u == Apply(t, {ch})
         IN  /\ ch \in AllChanges /\ Applies(t, {ch})
             /\ u \in Trees /\ u.files = t.files /\ u.excluded = t.excluded
             /\ \A r \in Slots : u.approvals[r] = IF r = s THEN Blank ELSE t.approvals[r]
<1> DEFINE ch == Blanking(t, s)
           u == Apply(t, {ch})
<1>1. ch.on = Manifest /\ ch.at = s /\ ch.from = t.approvals[s] /\ ch.to = Blank
  BY DEF Blanking
<1>2. ch \in AllChanges
  <2>1. t.approvals[s] \in Entries /\ Blank \in Entries
    BY TreeParts DEF Entries
  <2>. QED
    BY <2>1 DEF Blanking, AllChanges, ManifestChanges
<1>3. WellFormed({ch})
  BY <1>2, FS_Singleton DEF WellFormed
<1> HIDE DEF ch
<1>4. Applies(t, {ch})
  <2>1. Holds(t, ch)
    BY <1>1, TargetsAssumption DEF Holds
  <2>. QED
    BY <1>1, <2>1 DEF Applies
<1>5. u \in Trees
  BY <1>3, ApplyTree
<1>6. u.files = t.files
  <2>1. ASSUME NEW f \in Files
        PROVE  u.files[f] = t.files[f]
    BY <1>1, FileElsewhere, TargetsAssumption
  <2>2. u.files \in [Files -> Contents] /\ t.files \in [Files -> Contents]
    BY <1>5, TreeParts
  <2> HIDE DEF u
  <2>. QED
    BY <2>1, <2>2
<1>7. u.excluded = t.excluded
  <2>1. ASSUME NEW f, NEW was
        PROVE  After({ch}, Attributes, f, was) = was
    BY <1>1, AfterCases, TargetsAssumption
  <2>2. t.excluded \subseteq Files
    BY TreeParts
  <2>. QED
    BY <2>1, <2>2 DEF Apply
<1>8. ASSUME NEW r \in Slots
      PROVE  u.approvals[r] = IF r = s THEN Blank ELSE t.approvals[r]
  <2>1. u.approvals[r] = After({ch}, Manifest, r, t.approvals[r])
    BY DEF Apply
  <2>. QED
    BY <1>1, <2>1, AfterCases
<1>. QED
  BY <1>2, <1>4, <1>5, <1>6, <1>7, <1>8 DEF ch

\* What a blanking does to the sets of slots.
LEMMA BlankedSets ==
  ASSUME NEW t \in Trees, NEW u \in Trees, NEW h, NEW s \in Slots,
         \A r \in Slots : u.approvals[r] = IF r = s THEN Blank ELSE t.approvals[r]
  PROVE  /\ Bad(u) = Bad(t) \ {s} /\ Filled(u) = Filled(t) \ {s}
         /\ \A f \in Files : EntriesOf(u, f) = EntriesOf(t, f) \ {s}
         /\ \A r \in Slots \ {s} : r \in AddedSlots(u, h) <=> r \in AddedSlots(t, h)
<1>1. Blank # Unparsable /\ \A f \in Files : f # Blank
  BY EntriesAssumption DEF Blank, Unparsable
<1>2. Bad(u) = Bad(t) \ {s} /\ Filled(u) = Filled(t) \ {s}
  BY <1>1 DEF Bad, Filled
<1>3. \A f \in Files : EntriesOf(u, f) = EntriesOf(t, f) \ {s}
  BY <1>1 DEF EntriesOf
<1>4. \A r \in Slots \ {s} : r \in AddedSlots(u, h) <=> r \in AddedSlots(t, h)
  BY DEF AddedSlots
<1>. QED
  BY <1>2, <1>3, <1>4

\* Nobody is asked about a blanking.
LEMMA BlankAllowed ==
  ASSUME TypeOK, NEW s \in Slots
  PROVE  PreDecision({Blanking(work, s)}) = "allow"
<1> DEFINE ch == Blanking(work, s)
<1>1. ch.on = Manifest /\ ch.to = Blank
  BY DEF Blanking
<1>2. TargetsOf({ch}) = {Manifest}
  BY <1>1 DEF TargetsOf
<1> HIDE DEF ch
<1>3. ASSUME NEW x \in Entries \ {Blank}
      PROVE  NetAdded({ch}, x) = 0
  <2>1. {c \in {ch} : c.on = Manifest /\ c.to = x} = {}
    BY <1>1
  <2>2. {c \in {ch} : c.on = Manifest /\ c.from = x} \in SUBSET {ch}
    OBVIOUS
  <2>3. Cardinality({c \in {ch} : c.on = Manifest /\ c.from = x}) \in Nat
    BY <2>2, FS_Singleton, FS_Subset, FS_CardinalityType
  <2>4. Cardinality({c \in {ch} : c.on = Manifest /\ c.to = x}) = 0
    BY <2>1, FS_EmptySet
  <2>. QED
    BY <2>3, <2>4 DEF NetAdded
<1>4. ~(\E c \in {ch} : c.on = Attributes /\ c.to = "out")
  BY <1>1, TargetsAssumption
<1>5. {Manifest} \cap work.excluded = {}
  BY TreeParts, TargetsAssumption DEF TypeOK
<1>6. ~NeedsOwner({ch})
  BY <1>2, <1>3, <1>4, <1>5 DEF NeedsOwner
<1>. QED
  BY <1>2, <1>6 DEF PreDecision, ch

\* Blanking an entry that covers nothing, or of a file that does not resolve,
\* adds to no part of the report.
LEMMA BlankReport ==
  ASSUME NEW t \in Trees, NEW u \in Trees, NEW h \in Trees, NEW f \in Files,
         NEW s \in EntriesOf(t, f),
         Broken(t, f) \/ Cardinality(Occ(t, f)) < Cardinality(EntriesOf(t, f)),
         u.files = t.files, u.excluded = t.excluded,
         \A r \in Slots : u.approvals[r] = IF r = s THEN Blank ELSE t.approvals[r]
  PROVE  LET d == Diff(t, h)
             n == Diff(u, h)
         IN  /\ UncoveredIn(n, u, f) = {} /\ UncoveredIn(d, t, f) = {}
             /\ Cardinality(OrphansIn(n, u, h, f)) <= Cardinality(OrphansIn(d, t, h, f))
             /\ UnresolvedIn(n, u, h, f) => UnresolvedIn(d, t, h, f)
<1> DEFINE d == Diff(t, h)
           n == Diff(u, h)
           E == EntriesOf(t, f)
           E2 == EntriesOf(u, f)
<1>1. s \in Slots
  BY DEF EntriesOf
<1>2. E2 = E \ {s} /\ \A r \in Slots \ {s} : r \in AddedSlots(u, h) <=> r \in AddedSlots(t, h)
  BY <1>1, BlankedSets
<1>3. Changed(u, h) = Changed(t, h) /\ Untracked(u, h) = Untracked(t, h)
  BY DEF Changed, Untracked, Present
<1>4. /\ f \in n.changed <=> f \in d.changed
      /\ n.removed[f] = d.removed[f]
      /\ d.slots = AddedSlots(t, h) /\ n.slots = AddedSlots(u, h) /\ d.slots \subseteq Slots
  <2>1. RemovedLines(u, h, f) = RemovedLines(t, h, f)
    BY DEF RemovedLines
  <2>. QED
    BY <1>3, <2>1, DiffParts
<1> HIDE DEF d, n
<1>5. E \subseteq Slots /\ E2 \cap n.slots = (E \cap d.slots) \ {s}
  BY <1>2, <1>4 DEF EntriesOf
<1>6. Occ(u, f) = Occ(t, f)
  BY DEF Occ, Included, Present
<1>7. Broken(u, f) => Broken(t, f)
  BY <1>2, <1>6 DEF Broken, Included, Present
<1>8. Broken(t, f) /\ ~Broken(u, f) => Occ(u, f) = {} /\ E2 = {}
  BY DEF Broken, Occ, Included, Present
<1>9. Asked(n, u, f) => Asked(d, t, f)
  BY <1>4, <1>5 DEF Asked
<1>10. /\ IsFiniteSet(E) /\ IsFiniteSet(E2) /\ Cardinality(E) \in Nat
       /\ Cardinality(E2) = Cardinality(E) - 1 /\ Cardinality(E2) \in Nat
       /\ Occ(t, f) \in SUBSET Nat /\ IsFiniteSet(Occ(t, f)) /\ Cardinality(Occ(t, f)) \in Nat
       /\ E2 \in SUBSET Nat /\ E \in SUBSET Nat
  <2>1. /\ IsFiniteSet(E) /\ IsFiniteSet(E2) /\ Cardinality(E) \in Nat /\ Cardinality(E2) \in Nat
        /\ E2 \in SUBSET Nat /\ E \in SUBSET Nat
    BY Finite
  <2>2. /\ Occ(t, f) \in SUBSET Nat /\ IsFiniteSet(Occ(t, f)) /\ Cardinality(Occ(t, f)) \in Nat
    BY Finite
  <2>3. Cardinality(E2) = Cardinality(E) - 1
    <3>1. s \in E
      OBVIOUS
    <3> HIDE DEF E, E2
    <3>. QED
      BY <1>2, <2>1, <3>1, FS_RemoveElement
  <2>. QED
    BY <2>1, <2>2, <2>3
<1>11. /\ Covered(t, f) = IF Cardinality(Occ(t, f)) <= Cardinality(E)
                          THEN Cardinality(Occ(t, f)) ELSE Cardinality(E)
       /\ Covered(u, f) = IF Cardinality(Occ(t, f)) <= Cardinality(E2)
                          THEN Cardinality(Occ(t, f)) ELSE Cardinality(E2)
  BY <1>6, Finite
<1> HIDE DEF E, E2
<1>12. CASE Broken(t, f)
  <2>2. UncoveredIn(d, t, f) = {}
    BY <1>12 DEF UncoveredIn
  <2>3. UncoveredIn(n, u, f) = {}
    BY <1>8, <1>12 DEF UncoveredIn, Over, Surplus
  <2>4. OrphansIn(n, u, h, f) = {}
    BY <1>8, <1>12 DEF OrphansIn, Left, Surplus, E2
  <2>5. OrphansIn(d, t, h, f) = {}
    BY <1>12 DEF OrphansIn
  <2>6. UnresolvedIn(n, u, h, f) => UnresolvedIn(d, t, h, f)
    BY <1>9, <1>12 DEF UnresolvedIn, LookedAt
  <2>. QED
    BY <2>2, <2>3, <2>4, <2>5, <2>6, FS_EmptySet DEF d, n
<1>13. CASE ~Broken(t, f) /\ Cardinality(Occ(t, f)) < Cardinality(E)
  <2>1. Covered(t, f) = Cardinality(Occ(t, f)) /\ Covered(u, f) = Cardinality(Occ(t, f))
    BY <1>10, <1>11, <1>13
  <2>2. UncoveredIn(d, t, f) = {} /\ UncoveredIn(n, u, f) = {}
    <3>1. ASSUME NEW added
          PROVE  Surplus(Occ(t, f), added, Cardinality(Occ(t, f))) = {}
      BY <1>10, SurplusNone
    <3>. QED
      BY <1>6, <2>1, <3>1 DEF UncoveredIn, Over
  <2>3. Left(d, t, f) # {}
    <3>1. Surplus(E, d.slots, Cardinality(Occ(t, f))) # {}
      BY <1>10, <1>13, SurplusNone
    <3>. QED
      BY <2>1, <3>1 DEF Left, E
  <2>4. LookedAt(n, u, f) => LookedAt(d, t, f)
    BY <1>4, <1>9, <1>13, <2>3 DEF LookedAt
  <2>5. UnresolvedIn(n, u, h, f) => UnresolvedIn(d, t, h, f)
    BY <1>7, <1>13, <2>4 DEF UnresolvedIn
  <2>6. CASE ~Asked(n, u, f)
    <3>1. OrphansIn(n, u, h, f) = {}
      BY <2>6 DEF OrphansIn
    <3>2. IsFiniteSet(OrphansIn(d, t, h, f))
      <4>1. OrphansIn(d, t, h, f) \in SUBSET E
        BY DEF OrphansIn, Left, Surplus, E
      <4>. QED
        BY <1>10, <4>1, FS_Subset
    <3>3. Cardinality(OrphansIn(n, u, h, f)) = 0 /\ Cardinality(OrphansIn(d, t, h, f)) \in Nat
      BY <3>1, <3>2, FS_EmptySet, FS_CardinalityType
    <3>4. Cardinality(OrphansIn(n, u, h, f)) <= Cardinality(OrphansIn(d, t, h, f))
      BY <3>3
    <3>. QED
      BY <2>2, <2>5, <3>4 DEF d, n
  <2>7. CASE Asked(n, u, f)
    <3> DEFINE m == Cardinality(E) - Covered(t, f)
               a == Cardinality(E \cap d.slots)
               k == IF a <= m THEN a ELSE m
               gone == Gone(d, t, h, f)
               m2 == Cardinality(E2) - Covered(u, f)
               a2 == Cardinality(E2 \cap n.slots)
               k2 == IF a2 <= m2 THEN a2 ELSE m2
               gone2 == Gone(n, u, h, f)
    <3>1. /\ m \in Nat /\ a \in Nat /\ gone \in Nat
          /\ Cardinality(OrphansIn(d, t, h, f)) = k + IF gone <= m - k THEN gone ELSE m - k
      BY <1>9, <1>13, <2>7, OrphansSize DEF E
    <3>2. /\ m2 \in Nat /\ a2 \in Nat /\ gone2 \in Nat
          /\ Cardinality(OrphansIn(n, u, h, f)) = k2 + IF gone2 <= m2 - k2 THEN gone2 ELSE m2 - k2
      BY <1>7, <1>13, <2>7, OrphansSize DEF E2
    <3>3. m2 = m - 1
      BY <1>10, <2>1
    <3>4. a2 <= a
      <4>1. E2 \cap n.slots \in SUBSET (E \cap d.slots)
        BY <1>5 DEF E, E2
      <4>2. IsFiniteSet(E \cap d.slots)
        BY <1>10, FS_Subset
      <4>. QED
        BY <4>1, <4>2, FS_Subset
    <3>5. gone2 <= gone
      <4>1. gone2 = gone \/ gone2 = 0
        BY <1>4, <2>4 DEF Gone
      <4> HIDE DEF gone, gone2
      <4>. QED
        BY <3>1, <3>2, <4>1
    <3> HIDE DEF m, a, gone, m2, a2, gone2
    <3>6. Cardinality(OrphansIn(n, u, h, f)) <= Cardinality(OrphansIn(d, t, h, f))
      BY <3>1, <3>2, <3>3, <3>4, <3>5
    <3>. QED
      BY <2>2, <2>5, <3>6 DEF d, n
  <2>. QED
    BY <2>6, <2>7
<1>. QED
  BY <1>12, <1>13 DEF E

\* A set of pairs has the share of one file, and the rest.
Rest(R, f) == {x \in R : x[1] # f}

\* Its size is that of the share and of the rest.
LEMMA OneShare ==
  ASSUME NEW R, NEW f, NEW T, IsFiniteSet(T), \A x \in R : x = <<x[1], x[2]>>,
         \A i : <<f, i>> \in R <=> i \in T, IsFiniteSet(R)
  PROVE  /\ Cardinality(Rest(R, f)) \in Nat
         /\ Cardinality(R) = Cardinality(Rest(R, f)) + Cardinality(T)
<1> DEFINE rest == {x \in R : x[1] # f}
           share == {x \in R : x[1] = f}
<1>1. R = rest \cup share /\ rest \cap share = {}
  OBVIOUS
<1>2. IsFiniteSet(rest) /\ Cardinality(rest) \in Nat
  <2>1. rest \in SUBSET R
    OBVIOUS
  <2>. QED
    BY <2>1, FS_Subset, FS_CardinalityType
<1>3. IsFiniteSet(share) /\ Cardinality(share) = Cardinality(T)
  BY ShareSize
<1> HIDE DEF rest, share
<1>4. Cardinality(R) = Cardinality(rest) + Cardinality(share)
  BY <1>1, <1>2, <1>3, TwoParts
<1>. QED
  BY <1>2, <1>3, <1>4 DEF rest, Rest

\* Two reports that differ in one file.
LEMMA OtherFiles ==
  ASSUME NEW t \in Trees, NEW u \in Trees, NEW h \in Trees, NEW f \in Files, t # h, u # h,
         \A g \in Files \ {f} :
            /\ UncoveredIn(Diff(u, h), u, g) = UncoveredIn(Diff(t, h), t, g)
            /\ OrphansIn(Diff(u, h), u, h, g) = OrphansIn(Diff(t, h), t, h, g)
            /\ UnresolvedIn(Diff(u, h), u, h, g) <=> UnresolvedIn(Diff(t, h), t, h, g)
  PROVE  LET d == Diff(t, h)
             n == Diff(u, h)
             r == SessionReport(d, t, h)
             r2 == SessionReport(n, u, h)
         IN  /\ \E p \in Nat : /\ Cardinality(r.uncovered) = p + Cardinality(UncoveredIn(d, t, f))
                               /\ Cardinality(r2.uncovered) = p + Cardinality(UncoveredIn(n, u, f))
             /\ \E p \in Nat : /\ Cardinality(r.orphans) = p + Cardinality(OrphansIn(d, t, h, f))
                               /\ Cardinality(r2.orphans) = p + Cardinality(OrphansIn(n, u, h, f))
             /\ r.unresolvable \subseteq Files /\ r2.unresolvable \subseteq Files
             /\ \A g \in Files \ {f} : g \in r2.unresolvable <=> g \in r.unresolvable
             /\ f \in r.unresolvable <=> UnresolvedIn(d, t, h, f)
             /\ f \in r2.unresolvable <=> UnresolvedIn(n, u, h, f)
<1> DEFINE d == Diff(t, h)
           n == Diff(u, h)
           r == SessionReport(d, t, h)
           r2 == SessionReport(n, u, h)
<1>1. /\ ~d.none /\ d.changed \subseteq Files /\ d.slots \subseteq Slots
      /\ ~n.none /\ n.changed \subseteq Files /\ n.slots \subseteq Slots
  BY DiffParts
<1>2. \A g \in Files \ {f} :
        /\ UncoveredIn(n, u, g) = UncoveredIn(d, t, g)
        /\ OrphansIn(n, u, h, g) = OrphansIn(d, t, h, g)
        /\ UnresolvedIn(n, u, h, g) <=> UnresolvedIn(d, t, h, g)
  OBVIOUS
<1>3. IsFiniteSet(r.uncovered) /\ IsFiniteSet(r.orphans) /\ IsFiniteSet(r2.uncovered) /\ IsFiniteSet(r2.orphans)
  BY ReportSizes
<1> HIDE DEF d, n
<1>4. /\ r.uncovered = {x \in Files \X Lines : x[2] \in UncoveredIn(d, t, x[1])}
      /\ r.orphans = {x \in Files \X Slots : x[2] \in OrphansIn(d, t, h, x[1])}
      /\ r.unresolvable = {g \in Files : UnresolvedIn(d, t, h, g)}
  BY <1>1, ReportParts
<1>5. /\ r2.uncovered = {x \in Files \X Lines : x[2] \in UncoveredIn(n, u, x[1])}
      /\ r2.orphans = {x \in Files \X Slots : x[2] \in OrphansIn(n, u, h, x[1])}
      /\ r2.unresolvable = {g \in Files : UnresolvedIn(n, u, h, g)}
  BY <1>1, ReportParts
<1> HIDE DEF r, r2
<1>6. /\ UncoveredIn(d, t, f) \in SUBSET Lines /\ UncoveredIn(n, u, f) \in SUBSET Lines
      /\ OrphansIn(d, t, h, f) \in SUBSET Slots /\ OrphansIn(n, u, h, f) \in SUBSET Slots
  BY Finite DEF UncoveredIn, OrphansIn, Over, Left, Surplus
<1>7. /\ IsFiniteSet(UncoveredIn(d, t, f)) /\ IsFiniteSet(UncoveredIn(n, u, f))
      /\ IsFiniteSet(OrphansIn(d, t, h, f)) /\ IsFiniteSet(OrphansIn(n, u, h, f))
  BY <1>6, LinesAssumption, FS_Subset
<1>8. \E p \in Nat : /\ Cardinality(r.uncovered) = p + Cardinality(UncoveredIn(d, t, f))
                     /\ Cardinality(r2.uncovered) = p + Cardinality(UncoveredIn(n, u, f))
  <2> DEFINE R == r.uncovered
             R2 == r2.uncovered
             T == UncoveredIn(d, t, f)
             T2 == UncoveredIn(n, u, f)
  <2>1. IsFiniteSet(R) /\ IsFiniteSet(R2) /\ IsFiniteSet(T) /\ IsFiniteSet(T2)
    BY <1>3, <1>7
  <2>2. (\A x \in R : x = <<x[1], x[2]>>) /\ (\A x \in R2 : x = <<x[1], x[2]>>)
    BY <1>4, <1>5
  <2>3. \A i : <<f, i>> \in R <=> i \in T
    BY <1>4, <1>6
  <2>4. \A i : <<f, i>> \in R2 <=> i \in T2
    BY <1>5, <1>6
  <2>5. Rest(R, f) = Rest(R2, f)
    BY <1>2, <1>4, <1>5 DEF Rest
  <2> HIDE DEF R, R2, T, T2
  <2>6. Cardinality(Rest(R, f)) \in Nat /\ Cardinality(R) = Cardinality(Rest(R, f)) + Cardinality(T)
    BY <2>1, <2>2, <2>3, OneShare
  <2>7. Cardinality(Rest(R2, f)) \in Nat /\ Cardinality(R2) = Cardinality(Rest(R2, f)) + Cardinality(T2)
    BY <2>1, <2>2, <2>4, OneShare
  <2>. QED
    BY <2>5, <2>6, <2>7 DEF R, R2, T, T2
<1>9. \E p \in Nat : /\ Cardinality(r.orphans) = p + Cardinality(OrphansIn(d, t, h, f))
                     /\ Cardinality(r2.orphans) = p + Cardinality(OrphansIn(n, u, h, f))
  <2> DEFINE R == r.orphans
             R2 == r2.orphans
             T == OrphansIn(d, t, h, f)
             T2 == OrphansIn(n, u, h, f)
  <2>1. IsFiniteSet(R) /\ IsFiniteSet(R2) /\ IsFiniteSet(T) /\ IsFiniteSet(T2)
    BY <1>3, <1>7
  <2>2. (\A x \in R : x = <<x[1], x[2]>>) /\ (\A x \in R2 : x = <<x[1], x[2]>>)
    BY <1>4, <1>5
  <2>3. \A i : <<f, i>> \in R <=> i \in T
    BY <1>4, <1>6
  <2>4. \A i : <<f, i>> \in R2 <=> i \in T2
    BY <1>5, <1>6
  <2>5. Rest(R, f) = Rest(R2, f)
    BY <1>2, <1>4, <1>5 DEF Rest
  <2> HIDE DEF R, R2, T, T2
  <2>6. Cardinality(Rest(R, f)) \in Nat /\ Cardinality(R) = Cardinality(Rest(R, f)) + Cardinality(T)
    BY <2>1, <2>2, <2>3, OneShare
  <2>7. Cardinality(Rest(R2, f)) \in Nat /\ Cardinality(R2) = Cardinality(Rest(R2, f)) + Cardinality(T2)
    BY <2>1, <2>2, <2>4, OneShare
  <2>. QED
    BY <2>5, <2>6, <2>7 DEF R, R2, T, T2
<1>10. /\ r.unresolvable \subseteq Files /\ r2.unresolvable \subseteq Files
       /\ \A g \in Files \ {f} : g \in r2.unresolvable <=> g \in r.unresolvable
       /\ f \in r.unresolvable <=> UnresolvedIn(d, t, h, f)
       /\ f \in r2.unresolvable <=> UnresolvedIn(n, u, h, f)
  BY <1>2, <1>4, <1>5
<1>. QED
  BY <1>8, <1>9, <1>10 DEF d, n, r, r2

\* A tree is less of a burden when the first digit that differs is.
LEMMA LessToRepair ==
  ASSUME NEW t \in Trees, NEW u \in Trees, NEW h \in Trees
  PROVE  LET r == SessionReport(Diff(t, h), t, h)
             r2 == SessionReport(Diff(u, h), u, h)
             c == Cardinality(r.uncovered) + Cardinality(r.orphans)
             c2 == Cardinality(r2.uncovered) + Cardinality(r2.orphans)
         IN  /\ Cardinality(Bad(u)) <= Cardinality(Bad(t))
             /\ \/ Cardinality(Bad(u)) < Cardinality(Bad(t))
                \/ Cardinality(r2.unresolvable) < Cardinality(r.unresolvable)
                \/ /\ Cardinality(r2.unresolvable) <= Cardinality(r.unresolvable)
                   /\ c2 < c
                \/ /\ Cardinality(r2.unresolvable) <= Cardinality(r.unresolvable)
                   /\ c2 <= c
                   /\ Cardinality(Filled(u)) < Cardinality(Filled(t))
             => Burden(u, r2) < Burden(t, r)
<1> DEFINE r == SessionReport(Diff(t, h), t, h)
           r2 == SessionReport(Diff(u, h), u, h)
           c == Cardinality(r.uncovered) + Cardinality(r.orphans)
           c2 == Cardinality(r2.uncovered) + Cardinality(r2.orphans)
<1>1. ASSUME NEW v
      PROVE  /\ Cardinality(Bad(v)) \in Nat /\ Cardinality(Filled(v)) \in Nat
             /\ Cardinality(Filled(v)) < Radix
  <2>1. Bad(v) \in SUBSET Slots /\ Filled(v) \in SUBSET Slots
    BY DEF Bad, Filled
  <2>2. /\ IsFiniteSet(Bad(v)) /\ IsFiniteSet(Filled(v))
        /\ Cardinality(Filled(v)) <= Cardinality(Slots)
    BY <2>1, LinesAssumption, FS_Subset
  <2>3. Cardinality(Bad(v)) \in Nat /\ Cardinality(Filled(v)) \in Nat
    BY <2>2, FS_CardinalityType
  <2>. QED
    BY <2>2, <2>3, RadixBound
<1>2. /\ Cardinality(r.unresolvable) \in Nat /\ Cardinality(r.uncovered) \in Nat
      /\ Cardinality(r.orphans) \in Nat
  BY ReportSizes
<1>3. /\ Cardinality(r2.unresolvable) \in Nat /\ Cardinality(r2.unresolvable) < Radix
      /\ Cardinality(r2.uncovered) \in Nat /\ Cardinality(r2.orphans) \in Nat
      /\ c2 < Radix
  BY ReportSizes
<1> HIDE DEF r, r2
<1>4. Burden(t, r) = Number(Cardinality(Bad(t)), Cardinality(r.unresolvable), c, Cardinality(Filled(t)))
  BY <1>1, <1>2, RadixBound, BurdenForm
<1>5. Burden(u, r2) = Number(Cardinality(Bad(u)), Cardinality(r2.unresolvable), c2, Cardinality(Filled(u)))
  BY <1>1, <1>3, RadixBound, BurdenForm
<1>6. c \in Nat /\ c2 \in Nat
  BY <1>2, <1>3
<1> HIDE DEF c, c2
<1>7. ASSUME /\ Cardinality(Bad(u)) <= Cardinality(Bad(t))
             /\ \/ Cardinality(Bad(u)) < Cardinality(Bad(t))
                \/ Cardinality(r2.unresolvable) < Cardinality(r.unresolvable)
                \/ /\ Cardinality(r2.unresolvable) <= Cardinality(r.unresolvable)
                   /\ c2 < c
                \/ /\ Cardinality(r2.unresolvable) <= Cardinality(r.unresolvable)
                   /\ c2 <= c
                   /\ Cardinality(Filled(u)) < Cardinality(Filled(t))
      PROVE  Burden(u, r2) < Burden(t, r)
  <2> DEFINE b == Cardinality(Bad(t))
             b2 == Cardinality(Bad(u))
             m == Cardinality(r.unresolvable)
             m2 == Cardinality(r2.unresolvable)
             e == Cardinality(Filled(t))
             e2 == Cardinality(Filled(u))
  <2>1. /\ b \in Nat /\ b2 \in Nat /\ m \in Nat /\ m2 \in Nat /\ c \in Nat /\ c2 \in Nat
        /\ e \in Nat /\ e2 \in Nat /\ Radix \in Nat
    BY <1>1, <1>2, <1>3, <1>6, RadixBound
  <2>2. m2 < Radix /\ c2 < Radix /\ e2 < Radix
    BY <1>1, <1>3
  <2>3. /\ b2 <= b
        /\ \/ b2 < b
           \/ m2 < m
           \/ m2 <= m /\ c2 < c
           \/ m2 <= m /\ c2 <= c /\ e2 < e
    BY <1>7
  <2>4. Burden(t, r) = Number(b, m, c, e) /\ Burden(u, r2) = Number(b2, m2, c2, e2)
    BY <1>4, <1>5
  <2> HIDE DEF b, b2, m, m2, e, e2
  <2>5. Number(b2, m2, c2, e2) < Number(b, m, c, e)
    BY ONLY <2>1, <2>2, <2>3, Smaller
  <2>. QED
    BY <2>4, <2>5
<1>. QED
  BY <1>7 DEF r, r2, c, c2

\* The repairs of a file: it is given good syntax, or loses a marker.
Mending(f) == [on |-> f, at |-> 0, from |-> "broken", to |-> "ok"]
Unmarking(f, i) == [on |-> f, at |-> i, from |-> "mark", to |-> "code"]

\* A repair of a file in debt that is not excluded is allowed.
LEMMA FileAllowed ==
  ASSUME TypeOK, Readable, NEW f \in FilesOf(Debt), f \in Files, f \notin work.excluded,
         NEW ch, ch.on = f
  PROVE  PreDecision({ch}) = "allow"
<1>1. TargetsOf({ch}) = {f} /\ f # Manifest /\ f # Attributes
  BY TargetsAssumption DEF TargetsOf
<1>2. ASSUME NEW x
      PROVE  NetAdded({ch}, x) = 0
  <2>1. /\ {c \in {ch} : c.on = Manifest /\ c.to = x} = {}
        /\ {c \in {ch} : c.on = Manifest /\ c.from = x} = {}
    BY <1>1
  <2>2. /\ Cardinality({c \in {ch} : c.on = Manifest /\ c.to = x}) = 0
        /\ Cardinality({c \in {ch} : c.on = Manifest /\ c.from = x}) = 0
    BY <2>1, FS_EmptySet
  <2>. QED
    BY <2>2 DEF NetAdded
<1>3. ~NeedsOwner({ch})
  BY <1>1, <1>2 DEF NeedsOwner
<1>4. TargetsOf({ch}) \subseteq FixSet(Debt)
  BY <1>1 DEF FixSet
<1>. QED
  BY <1>3, <1>4 DEF PreDecision

\* Tree u is t but for file f.
ButFor(t, u, f) ==
  /\ u.approvals = t.approvals /\ u.excluded = t.excluded
  /\ \A g \in Files \ {f} : u.files[g] = t.files[g]

\* A change of one place of a file, and what it leaves alone.
LEMMA OnePlace ==
  ASSUME NEW t \in Trees, NEW f \in Files, NEW ch, ch.on = f,
         ch \in AllChanges, Holds(t, ch), ch.from # ch.to
  PROVE  LET u == Apply(t, {ch})
         IN  /\ Applies(t, {ch}) /\ u \in Trees /\ ButFor(t, u, f)
             /\ u.files[f] = Edited({ch}, f, t.files[f])
<1> DEFINE u == Apply(t, {ch})
<1>1. f # Manifest /\ f # Attributes
  BY TargetsAssumption
<1>2. WellFormed({ch})
  BY FS_Singleton DEF WellFormed
<1>3. u \in Trees
  BY <1>2, ApplyTree
<1>4. u.approvals = t.approvals
  <2>1. \A at, was : After({ch}, Manifest, at, was) = was
    BY <1>1, AfterCases
  <2>2. t.approvals = [s \in Slots |-> t.approvals[s]]
    BY TreeParts
  <2>3. [s \in Slots |-> After({ch}, Manifest, s, t.approvals[s])] = [s \in Slots |-> t.approvals[s]]
    BY <2>1
  <2>. QED
    BY <2>2, <2>3 DEF Apply
<1>5. u.excluded = t.excluded
  <2>1. \A at, was : After({ch}, Attributes, at, was) = was
    BY <1>1, AfterCases
  <2>2. t.excluded \subseteq Files
    BY TreeParts
  <2>. QED
    BY <2>1, <2>2 DEF Apply
<1>6. u.files[f] = Edited({ch}, f, t.files[f])
  BY DEF Apply
<1>7. \A g \in Files \ {f} : u.files[g] = t.files[g]
  BY FileElsewhere
<1>8. Applies(t, {ch})
  BY DEF Applies
<1>. QED
  BY <1>3, <1>4, <1>5, <1>6, <1>7, <1>8 DEF ButFor

\* A file that does not resolve for its syntax is mended.
LEMMA Mended ==
  ASSUME NEW t \in Trees, NEW f \in Files, Broken(t, f)
  PROVE  LET ch == Mending(f)
             u == Apply(t, {ch})
         IN  /\ ch \in AllChanges /\ ch.on = f /\ Applies(t, {ch}) /\ u \in Trees
             /\ u.approvals = t.approvals /\ u.excluded = t.excluded
             /\ u.files[f].kind = "ok"
             /\ \A g \in Files \ {f} : u.files[g] = t.files[g]
<1> DEFINE ch == Mending(f)
           u == Apply(t, {ch})
<1>1. ch.on = f /\ ch.at = 0 /\ ch.from = "broken" /\ ch.to = "ok"
  BY DEF Mending
<1>2. ch \in AllChanges
  <2>1. ch \in FileChanges(f)
    BY DEF Mending, FileChanges
  <2>. QED
    BY <2>1 DEF AllChanges
<1> HIDE DEF ch
<1>3. Holds(t, ch)
  BY <1>1, TargetsAssumption DEF Holds, Broken
<1>4. /\ Applies(t, {ch}) /\ u \in Trees /\ ButFor(t, u, f)
      /\ u.files[f] = Edited({ch}, f, t.files[f])
  <2>1. ch.on = f /\ ch.from # ch.to
    BY <1>1
  <2> HIDE DEF u
  <2>. QED
    BY <1>2, <1>3, <2>1, OnePlace DEF u
<1>5. Edited({ch}, f, t.files[f]).kind = "ok"
  <2>1. After({ch}, f, 0, t.files[f].kind) = "ok"
    BY <1>1, AfterCases
  <2>. QED
    BY <2>1 DEF Edited
<1>. QED
  BY <1>1, <1>2, <1>4, <1>5 DEF ch, ButFor

\* Tree u is t without the marker at line i of file f.
Without(t, u, f, i) ==
  /\ u.approvals = t.approvals /\ u.excluded = t.excluded
  /\ u.files[f].kind = t.files[f].kind
  /\ u.files[f].marks = t.files[f].marks \ {i}
  /\ \A g \in Files \ {f} : u.files[g] = t.files[g]

\* A marker is taken out of a file.
LEMMA Unmarked ==
  ASSUME NEW t \in Trees, NEW f \in Files, NEW i \in Occ(t, f)
  PROVE  LET ch == Unmarking(f, i)
             u == Apply(t, {ch})
         IN  /\ ch \in AllChanges /\ ch.on = f /\ Applies(t, {ch}) /\ u \in Trees
             /\ Without(t, u, f, i)
<1> DEFINE ch == Unmarking(f, i)
           u == Apply(t, {ch})
<1>1. ch.on = f /\ ch.at = i /\ ch.from = "mark" /\ ch.to = "code"
  BY DEF Unmarking
<1>2. /\ t.files[f].marks \subseteq Lines /\ i \in t.files[f].marks
      /\ t.files[f].kind # "absent"
  BY TreeParts, ContentParts DEF Occ, Included, Present
<1>3. i \in Lines /\ i # 0
  BY <1>2, NumbersAssumption
<1>4. ch \in AllChanges
  <2>1. ch \in FileChanges(f)
    BY <1>3 DEF Unmarking, FileChanges
  <2>. QED
    BY <2>1 DEF AllChanges
<1> HIDE DEF ch
<1>5. Holds(t, ch)
  BY <1>1, <1>2, <1>3, TargetsAssumption DEF Holds
<1>6. /\ Applies(t, {ch}) /\ u \in Trees /\ ButFor(t, u, f)
      /\ u.files[f] = Edited({ch}, f, t.files[f])
  BY <1>1, <1>4, <1>5, OnePlace
<1>7. After({ch}, f, 0, t.files[f].kind) = t.files[f].kind
  BY <1>1, <1>3, AfterCases
<1>8. ASSUME NEW j \in Lines, NEW was
      PROVE  After({ch}, f, j, was) = IF j = i THEN "code" ELSE was
  BY <1>1, AfterCases
<1>9. /\ Edited({ch}, f, t.files[f]).kind = t.files[f].kind
      /\ Edited({ch}, f, t.files[f]).marks = t.files[f].marks \ {i}
  BY <1>2, <1>7, <1>8 DEF Edited
<1>. QED
  BY <1>1, <1>4, <1>6, <1>9 DEF ch, Without, ButFor

\* Taking out a marker that is debt leaves less debt in the file.
LEMMA UnmarkReport ==
  ASSUME NEW t \in Trees, NEW u \in Trees, NEW h \in Trees, NEW f \in Files, ~Broken(t, f),
         NEW i \in UncoveredIn(Diff(t, h), t, f),
         Without(t, u, f, i)
  PROVE  LET d == Diff(t, h)
             n == Diff(u, h)
         IN  /\ Cardinality(UncoveredIn(n, u, f)) < Cardinality(UncoveredIn(d, t, f))
             /\ OrphansIn(n, u, h, f) = {} /\ ~UnresolvedIn(n, u, h, f)
<1> DEFINE d == Diff(t, h)
           n == Diff(u, h)
           S == Occ(t, f)
           S2 == Occ(u, f)
           E == EntriesOf(t, f)
           A == AddedLines(t, h, f)
           A2 == AddedLines(u, h, f)
<1>0. /\ u.approvals = t.approvals /\ u.excluded = t.excluded
      /\ u.files[f].kind = t.files[f].kind /\ u.files[f].marks = t.files[f].marks \ {i}
  BY DEF Without
<1>1. /\ d.changed = Changed(t, h) /\ n.changed = Changed(u, h)
      /\ f \in Changed(t, h) => d.added[f] = A
      /\ f \in Changed(u, h) => n.added[f] = A2
  BY DiffParts
<1> HIDE DEF d, n
<1>2. f \in Changed(t, h) /\ d.added[f] = A /\ UncoveredIn(d, t, f) = Over(d, t, f) \cap A
      /\ i \in Over(d, t, f) /\ i \in A
  BY <1>1 DEF UncoveredIn, d
<1>3. Over(d, t, f) = Surplus(S, A, Covered(t, f))
  BY <1>2 DEF Over
<1>4. i \in S
  BY <1>2, <1>3 DEF Surplus
<1>5. /\ f \in Included(t) /\ S = t.files[f].marks /\ t.files[f].kind # "broken"
      /\ t.files[f].kind # "absent"
  BY <1>4 DEF Occ, Broken, Included, Present
<1>6. f \in Included(u) /\ S2 = S \ {i} /\ EntriesOf(u, f) = E /\ ~Broken(u, f)
  BY <1>0, <1>5 DEF Occ, Broken, Included, Present, EntriesOf
<1>7. /\ S \in SUBSET Nat /\ S \in SUBSET Lines /\ IsFiniteSet(S) /\ Cardinality(S) \in Nat
      /\ E \in SUBSET Nat /\ IsFiniteSet(E) /\ Cardinality(E) \in Nat
      /\ S2 \in SUBSET Nat /\ IsFiniteSet(S2) /\ Cardinality(S2) \in Nat
      /\ Covered(t, f) = IF Cardinality(S) <= Cardinality(E) THEN Cardinality(S) ELSE Cardinality(E)
      /\ Covered(u, f) = IF Cardinality(S2) <= Cardinality(E) THEN Cardinality(S2) ELSE Cardinality(E)
  BY <1>6, Finite
<1> HIDE DEF S, S2, E
<1>8. Cardinality(S2) = Cardinality(S) - 1
  BY <1>4, <1>6, <1>7, FS_RemoveElement
<1>9. Covered(t, f) # Cardinality(S)
  <2>1. Surplus(S, A, Covered(t, f)) # {}
    BY <1>2, <1>3
  <2>2. Covered(t, f) \in Nat /\ Covered(t, f) <= Cardinality(S)
    BY <1>7
  <2>. QED
    BY <1>7, <2>1, <2>2, SurplusNone
<1>10. Covered(t, f) = Cardinality(E) /\ Covered(u, f) = Cardinality(E)
       /\ Cardinality(E) <= Cardinality(S2) /\ Cardinality(E) <= Cardinality(S)
  BY <1>7, <1>8, <1>9
<1>11. Left(n, u, f) = {}
  BY <1>6, <1>7, <1>10, SurplusNone DEF Left
<1>12. OrphansIn(n, u, h, f) = {} /\ ~UnresolvedIn(n, u, h, f)
  BY <1>6, <1>11 DEF OrphansIn, UnresolvedIn, LookedAt
<1>13. Cardinality(Over(d, t, f) \cap A) =
         IF Cardinality(S \cap A) <= Cardinality(S) - Cardinality(E)
         THEN Cardinality(S \cap A) ELSE Cardinality(S) - Cardinality(E)
  <2>1. Cardinality(Surplus(S, A, Covered(t, f)) \cap A) =
          IF Cardinality(S \cap A) <= Cardinality(S) - Covered(t, f)
          THEN Cardinality(S \cap A) ELSE Cardinality(S) - Covered(t, f)
    <3>1. Covered(t, f) \in Nat /\ Covered(t, f) <= Cardinality(S)
      BY <1>7, <1>10
    <3>. QED
      BY <1>7, <3>1, SurplusAdded
  <2>. QED
    BY <1>3, <1>10, <2>1
<1>14. Cardinality(S \cap A) \in Nat /\ Cardinality(S \cap A) # 0
  <2>1. IsFiniteSet(S \cap A)
    BY <1>7, FS_Subset
  <2>. QED
    BY <1>2, <1>4, <2>1, FS_CardinalityType, FS_EmptySet
<1>15. CASE f \notin Changed(u, h)
  <2>1. UncoveredIn(n, u, f) = {}
    BY <1>1, <1>15 DEF UncoveredIn
  <2>2. Cardinality(UncoveredIn(n, u, f)) = 0
    BY <2>1, FS_EmptySet
  <2>3. Cardinality(UncoveredIn(n, u, f)) < Cardinality(UncoveredIn(d, t, f))
    BY <1>2, <1>7, <1>8, <1>10, <1>13, <1>14, <2>2
  <2>. QED
    BY <1>12, <2>3 DEF d, n
<1>16. CASE f \in Changed(u, h)
  <2>1. UncoveredIn(n, u, f) = Surplus(S2, A2, Covered(u, f)) \cap A2
    BY <1>1, <1>6, <1>16 DEF UncoveredIn, Over, S2
  <2>2. S2 \cap A2 = (S \cap A) \ {i}
    <3>1. f \in Untracked(u, h) <=> f \in Untracked(t, h)
      BY <1>0, <1>5 DEF Untracked, Present
    <3>2. ASSUME NEW j \in S2
          PROVE  j \in A2 <=> j \in A
      <4>1. j \in Lines /\ j # i /\ (j \in u.files[f].marks <=> j \in t.files[f].marks)
        BY <1>0, <1>6, <1>7, <3>2
      <4>. QED
        BY <3>1, <4>1 DEF AddedLines
    <3>. QED
      BY <1>6, <3>2
  <2>3. Cardinality(S2 \cap A2) = Cardinality(S \cap A) - 1
    <3>1. IsFiniteSet(S \cap A) /\ i \in S \cap A
      BY <1>2, <1>4, <1>7, FS_Subset
    <3>. QED
      <4>1. Cardinality((S \cap A) \ {i}) = Cardinality(S \cap A) - 1
        BY <3>1, FS_RemoveElement
      <4>. QED
        BY <2>2, <4>1
  <2>4. Cardinality(Surplus(S2, A2, Covered(u, f)) \cap A2) =
          IF Cardinality(S2 \cap A2) <= Cardinality(S2) - Covered(u, f)
          THEN Cardinality(S2 \cap A2) ELSE Cardinality(S2) - Covered(u, f)
    <3>1. Covered(u, f) \in Nat /\ Covered(u, f) <= Cardinality(S2)
      BY <1>7, <1>10
    <3>. QED
      BY <1>7, <3>1, SurplusAdded
  <2>5. Cardinality(UncoveredIn(n, u, f)) < Cardinality(UncoveredIn(d, t, f))
    <3> DEFINE a == Cardinality(S \cap A)
               a2 == Cardinality(S2 \cap A2)
               m == Cardinality(S)
               m2 == Cardinality(S2)
               e == Cardinality(E)
               x == Cardinality(UncoveredIn(d, t, f))
               x2 == Cardinality(UncoveredIn(n, u, f))
    <3>1. /\ a \in Nat /\ a # 0 /\ a2 = a - 1 /\ m \in Nat /\ m2 = m - 1 /\ m2 \in Nat
          /\ e \in Nat /\ e <= m2
      BY <1>7, <1>8, <1>10, <1>14, <2>3
    <3>2. x = IF a <= m - e THEN a ELSE m - e
      BY <1>2, <1>13
    <3>3. x2 = IF a2 <= m2 - e THEN a2 ELSE m2 - e
      BY <1>10, <2>1, <2>4
    <3> HIDE DEF a, a2, m, m2, e, x, x2
    <3>4. x2 < x
      BY <3>1, <3>2, <3>3
    <3>. QED
      BY <3>4 DEF x, x2
  <2>. QED
    BY <1>12, <2>5 DEF d, n
<1>. QED
  BY <1>15, <1>16

\* A change that may be made, is allowed, and leaves less to repair.
Repair(ch) ==
  /\ ch \in AllChanges /\ Applies(work, {ch}) /\ PreDecision({ch}) = "allow"
  /\ LET next == Apply(work, {ch})
     IN  Burden(next, SessionReport(Diff(next, head), next, head)) < Burden(work, Debt)

\* A slot that does not parse is blanked.
LEMMA RepairManifest ==
  ASSUME TypeOK, NEW s \in Slots, work.approvals[s] = Unparsable
  PROVE  Repair(Blanking(work, s))
<1> DEFINE ch == Blanking(work, s)
           u == Apply(work, {ch})
<1>1. work \in Trees /\ head \in Trees /\ work.approvals[s] # Blank
  BY DEF TypeOK, Blank, Unparsable
<1>2. /\ ch \in AllChanges /\ Applies(work, {ch}) /\ u \in Trees
      /\ \A r \in Slots : u.approvals[r] = IF r = s THEN Blank ELSE work.approvals[r]
  BY <1>1, Blanked
<1>3. PreDecision({ch}) = "allow"
  BY BlankAllowed
<1> HIDE DEF ch, u
<1>4. Cardinality(Bad(u)) < Cardinality(Bad(work)) /\ Cardinality(Bad(u)) <= Cardinality(Bad(work))
  <2>1. Bad(u) = Bad(work) \ {s}
    BY <1>1, <1>2, BlankedSets
  <2>2. s \in Bad(work) /\ Bad(work) \in SUBSET Slots
    BY DEF Bad
  <2>3. IsFiniteSet(Bad(work)) /\ Cardinality(Bad(work)) \in Nat
    BY <2>2, LinesAssumption, FS_Subset, FS_CardinalityType
  <2>4. Cardinality(Bad(work) \ {s}) = Cardinality(Bad(work)) - 1
    BY <2>2, <2>3, FS_RemoveElement
  <2>. QED
    BY <2>1, <2>3, <2>4
<1>5. Burden(u, SessionReport(Diff(u, head), u, head)) < Burden(work, Debt)
  BY <1>1, <1>2, <1>4, LessToRepair DEF Debt, Here
<1>. QED
  BY <1>2, <1>3, <1>5 DEF Repair, ch, u

\* An entry that covers nothing, or of a file that does not resolve, is blanked.
LEMMA RepairEntry ==
  ASSUME TypeOK, work # head, NEW f \in Files, NEW s \in EntriesOf(work, f),
         Broken(work, f) \/ Cardinality(Occ(work, f)) < Cardinality(EntriesOf(work, f))
  PROVE  Repair(Blanking(work, s))
<1> DEFINE ch == Blanking(work, s)
           u == Apply(work, {ch})
           r == SessionReport(Diff(work, head), work, head)
           r2 == SessionReport(Diff(u, head), u, head)
           c == Cardinality(r.uncovered) + Cardinality(r.orphans)
           c2 == Cardinality(r2.uncovered) + Cardinality(r2.orphans)
<1>1. work \in Trees /\ head \in Trees /\ s \in Slots /\ work.approvals[s] = f /\ f # Blank
  BY EntriesAssumption DEF TypeOK, EntriesOf, Blank
<1>2. /\ ch \in AllChanges /\ Applies(work, {ch}) /\ u \in Trees
      /\ u.files = work.files /\ u.excluded = work.excluded
      /\ \A q \in Slots : u.approvals[q] = IF q = s THEN Blank ELSE work.approvals[q]
  BY <1>1, Blanked
<1>3. PreDecision({ch}) = "allow"
  BY <1>1, BlankAllowed
<1> HIDE DEF ch, u
<1>4. /\ Bad(u) = Bad(work) \ {s} /\ Filled(u) = Filled(work) \ {s}
      /\ \A g \in Files : EntriesOf(u, g) = EntriesOf(work, g) \ {s}
      /\ \A q \in Slots \ {s} : q \in AddedSlots(u, head) <=> q \in AddedSlots(work, head)
  BY <1>1, <1>2, BlankedSets
<1>5. Cardinality(Bad(u)) <= Cardinality(Bad(work))
  <2>1. Bad(work) \in SUBSET Slots /\ Bad(u) \in SUBSET Bad(work)
    BY <1>4 DEF Bad
  <2>2. IsFiniteSet(Bad(work))
    BY <2>1, LinesAssumption, FS_Subset
  <2>. QED
    BY <2>1, <2>2, FS_Subset
<1>6. Cardinality(Filled(u)) < Cardinality(Filled(work))
  <2>1. s \in Filled(work) /\ Filled(work) \in SUBSET Slots
    BY <1>1 DEF Filled
  <2>2. IsFiniteSet(Filled(work)) /\ Cardinality(Filled(work)) \in Nat
    BY <2>1, LinesAssumption, FS_Subset, FS_CardinalityType
  <2>3. Cardinality(Filled(work) \ {s}) = Cardinality(Filled(work)) - 1
    BY <2>1, <2>2, FS_RemoveElement
  <2>. QED
    BY <1>4, <2>2, <2>3
<1>7. /\ IsFiniteSet(r.unresolvable) /\ Cardinality(r.unresolvable) \in Nat
      /\ Cardinality(r.uncovered) \in Nat /\ Cardinality(r.orphans) \in Nat
  BY <1>1, ReportSizes
<1>8. Cardinality(r2.unresolvable) <= Cardinality(r.unresolvable) /\ c2 <= c
  <2>1. CASE u = head
    <3>1. Diff(u, head).none
      BY <1>1, <1>2, <2>1, DiffParts
    <3>2. r2.uncovered = {} /\ r2.orphans = {} /\ r2.unresolvable = {}
      BY <3>1, NoneReport
    <3> HIDE DEF r, r2
    <3>. QED
      BY <1>7, <3>2, FS_EmptySet
  <2>2. CASE u # head
    <3> DEFINE d == Diff(work, head)
               n == Diff(u, head)
    <3>1. ASSUME NEW g \in Files \ {f}
          PROVE  /\ UncoveredIn(n, u, g) = UncoveredIn(d, work, g)
                 /\ OrphansIn(n, u, head, g) = OrphansIn(d, work, head, g)
                 /\ UnresolvedIn(n, u, head, g) <=> UnresolvedIn(d, work, head, g)
      <4>1. s \notin EntriesOf(work, g) /\ EntriesOf(work, g) \subseteq Slots
        BY <1>1 DEF EntriesOf
      <4>2. EntriesOf(u, g) = EntriesOf(work, g)
        BY <1>4, <4>1
      <4>3. \A q \in EntriesOf(work, g) : q \in AddedSlots(u, head) <=> q \in AddedSlots(work, head)
        BY <1>4, <4>1
      <4>. QED
        BY <1>1, <1>2, <4>2, <4>3, ElsewhereSame
    <3>2. /\ UncoveredIn(n, u, f) = {} /\ UncoveredIn(d, work, f) = {}
          /\ Cardinality(OrphansIn(n, u, head, f)) <= Cardinality(OrphansIn(d, work, head, f))
          /\ UnresolvedIn(n, u, head, f) => UnresolvedIn(d, work, head, f)
      BY <1>1, <1>2, BlankReport
    <3>3. /\ \E p \in Nat : /\ Cardinality(r.uncovered) = p + Cardinality(UncoveredIn(d, work, f))
                            /\ Cardinality(r2.uncovered) = p + Cardinality(UncoveredIn(n, u, f))
          /\ \E p \in Nat : /\ Cardinality(r.orphans) = p + Cardinality(OrphansIn(d, work, head, f))
                            /\ Cardinality(r2.orphans) = p + Cardinality(OrphansIn(n, u, head, f))
          /\ r.unresolvable \subseteq Files /\ r2.unresolvable \subseteq Files
          /\ \A g \in Files \ {f} : g \in r2.unresolvable <=> g \in r.unresolvable
          /\ f \in r.unresolvable <=> UnresolvedIn(d, work, head, f)
          /\ f \in r2.unresolvable <=> UnresolvedIn(n, u, head, f)
      BY <1>1, <1>2, <2>2, <3>1, OtherFiles
    <3> HIDE DEF d, n, r, r2
    <3>4. r2.unresolvable \in SUBSET r.unresolvable
      BY <3>2, <3>3
    <3>5. Cardinality(r2.unresolvable) <= Cardinality(r.unresolvable)
      BY <1>7, <3>4, FS_Subset
    <3>6. Cardinality(r2.uncovered) = Cardinality(r.uncovered)
      BY <3>2, <3>3
    <3>7. Cardinality(r2.orphans) <= Cardinality(r.orphans)
      <4> DEFINE x == Cardinality(OrphansIn(d, work, head, f))
                 x2 == Cardinality(OrphansIn(n, u, head, f))
      <4>1. PICK p \in Nat : Cardinality(r.orphans) = p + x /\ Cardinality(r2.orphans) = p + x2
        BY <3>3
      <4>2. IsFiniteSet(OrphansIn(d, work, head, f)) /\ IsFiniteSet(OrphansIn(n, u, head, f))
        <5>1. /\ OrphansIn(d, work, head, f) \in SUBSET EntriesOf(work, f)
              /\ OrphansIn(n, u, head, f) \in SUBSET EntriesOf(u, f)
          BY DEF OrphansIn, Left, Surplus
        <5>2. IsFiniteSet(EntriesOf(work, f)) /\ IsFiniteSet(EntriesOf(u, f))
          BY <1>1, <1>2, Finite
        <5>. QED
          BY <5>1, <5>2, FS_Subset
      <4>3. x \in Nat /\ x2 \in Nat /\ x2 <= x
        BY <3>2, <4>2, FS_CardinalityType
      <4> HIDE DEF x, x2
      <4>. QED
        BY <4>1, <4>3
    <3>8. c2 <= c
      BY <1>7, <3>3, <3>6, <3>7, <1>1, <1>2, ReportSizes DEF r2
    <3>. QED
      BY <3>5, <3>8
  <2>. QED
    BY <2>1, <2>2
<1>9. Burden(u, r2) < Burden(work, r)
  BY <1>1, <1>2, <1>5, <1>6, <1>8, LessToRepair
<1>. QED
  BY <1>2, <1>3, <1>9 DEF Repair, ch, u, Debt, Here

\* A change of one file, and the entries of the files.
LEMMA FileOnly ==
  ASSUME NEW t \in Trees, NEW u \in Trees, NEW h \in Trees, NEW f \in Files,
         u.approvals = t.approvals, u.excluded = t.excluded,
         \A g \in Files \ {f} : u.files[g] = t.files[g]
  PROVE  /\ Bad(u) = Bad(t) /\ AddedSlots(u, h) = AddedSlots(t, h)
         /\ \A g \in Files \ {f} :
              /\ UncoveredIn(Diff(u, h), u, g) = UncoveredIn(Diff(t, h), t, g)
              /\ OrphansIn(Diff(u, h), u, h, g) = OrphansIn(Diff(t, h), t, h, g)
              /\ UnresolvedIn(Diff(u, h), u, h, g) <=> UnresolvedIn(Diff(t, h), t, h, g)
<1>1. Bad(u) = Bad(t) /\ AddedSlots(u, h) = AddedSlots(t, h)
  BY DEF Bad, AddedSlots
<1>2. ASSUME NEW g \in Files \ {f}
      PROVE  /\ UncoveredIn(Diff(u, h), u, g) = UncoveredIn(Diff(t, h), t, g)
             /\ OrphansIn(Diff(u, h), u, h, g) = OrphansIn(Diff(t, h), t, h, g)
             /\ UnresolvedIn(Diff(u, h), u, h, g) <=> UnresolvedIn(Diff(t, h), t, h, g)
  <2>1. g \in Files /\ u.files[g] = t.files[g] /\ EntriesOf(u, g) = EntriesOf(t, g)
    BY DEF EntriesOf
  <2>2. (g \in u.excluded <=> g \in t.excluded)
        /\ \A s \in EntriesOf(t, g) : s \in AddedSlots(u, h) <=> s \in AddedSlots(t, h)
    BY <1>1
  <2>. QED
    BY <2>1, <2>2, ElsewhereSame
<1>. QED
  BY <1>1, <1>2

\* What a file owes is counted in the report.
LEMMA OneFile ==
  ASSUME NEW t \in Trees, NEW h \in Trees, NEW f \in Files, t # h
  PROVE  LET r == SessionReport(Diff(t, h), t, h)
             x == UncoveredIn(Diff(t, h), t, f)
             y == OrphansIn(Diff(t, h), t, h, f)
         IN  /\ f \in r.unresolvable <=> UnresolvedIn(Diff(t, h), t, h, f)
             /\ Cardinality(x) \in Nat /\ Cardinality(y) \in Nat
             /\ Cardinality(x) <= Cardinality(r.uncovered)
<1> DEFINE r == SessionReport(Diff(t, h), t, h)
           x == UncoveredIn(Diff(t, h), t, f)
           y == OrphansIn(Diff(t, h), t, h, f)
<1>1. f \in r.unresolvable <=> UnresolvedIn(Diff(t, h), t, h, f)
  BY OtherFiles
<1>2. \E p \in Nat : Cardinality(r.uncovered) = p + Cardinality(x)
  BY OtherFiles
<1>3. Cardinality(x) \in Nat /\ Cardinality(y) \in Nat
  <2>1. x \in SUBSET Lines /\ y \in SUBSET Slots
    BY Finite DEF UncoveredIn, OrphansIn, Over, Left, Surplus
  <2> HIDE DEF x, y
  <2>. QED
    BY <2>1, LinesAssumption, FS_Subset, FS_CardinalityType
<1> HIDE DEF r, x, y
<1>4. Cardinality(x) <= Cardinality(r.uncovered)
  BY <1>2, <1>3
<1>. QED
  BY <1>1, <1>3, <1>4 DEF r, x, y

\* A change of one file that makes it resolve, or takes away debt of it.
LEMMA FileLighter ==
  ASSUME NEW t \in Trees, NEW u \in Trees, NEW h \in Trees, NEW f \in Files, t # h,
         u.approvals = t.approvals, u.excluded = t.excluded,
         \A g \in Files \ {f} : u.files[g] = t.files[g],
         ~UnresolvedIn(Diff(u, h), u, h, f),
         \/ UnresolvedIn(Diff(t, h), t, h, f)
         \/ /\ Cardinality(UncoveredIn(Diff(u, h), u, f))
                 < Cardinality(UncoveredIn(Diff(t, h), t, f))
            /\ OrphansIn(Diff(u, h), u, h, f) = {}
  PROVE  Burden(u, SessionReport(Diff(u, h), u, h)) < Burden(t, SessionReport(Diff(t, h), t, h))
<1> DEFINE d == Diff(t, h)
           n == Diff(u, h)
           r == SessionReport(d, t, h)
           r2 == SessionReport(n, u, h)
           x == Cardinality(UncoveredIn(d, t, f))
           x2 == Cardinality(UncoveredIn(n, u, f))
           y == Cardinality(OrphansIn(d, t, h, f))
           y2 == Cardinality(OrphansIn(n, u, h, f))
           m == Cardinality(r.unresolvable)
           m2 == Cardinality(r2.unresolvable)
           a == Cardinality(r.uncovered)
           a2 == Cardinality(r2.uncovered)
           b == Cardinality(r.orphans)
           b2 == Cardinality(r2.orphans)
<1>1. Bad(u) = Bad(t)
  BY FileOnly
<1>2. \A g \in Files \ {f} :
        /\ UncoveredIn(Diff(u, h), u, g) = UncoveredIn(Diff(t, h), t, g)
        /\ OrphansIn(Diff(u, h), u, h, g) = OrphansIn(Diff(t, h), t, h, g)
        /\ UnresolvedIn(Diff(u, h), u, h, g) <=> UnresolvedIn(Diff(t, h), t, h, g)
  BY FileOnly
<1>3. IsFiniteSet(r.unresolvable) /\ m \in Nat /\ a \in Nat /\ b \in Nat
  BY ReportSizes
<1>4. IsFiniteSet(r2.unresolvable) /\ m2 \in Nat /\ a2 \in Nat /\ b2 \in Nat
  BY ReportSizes
<1>5. (f \in r.unresolvable <=> UnresolvedIn(d, t, h, f)) /\ x \in Nat /\ y \in Nat /\ x <= a
  BY OneFile
<1>6. m2 < m \/ (m2 <= m /\ a2 + b2 < a + b)
  <2>1. CASE u = h
    <3>1. n.none
      BY <2>1, DiffParts
    <3>2. r2.uncovered = {} /\ r2.orphans = {} /\ r2.unresolvable = {}
      BY <3>1, NoneReport
    <3>3. m2 = 0 /\ a2 = 0 /\ b2 = 0
      BY <3>2, FS_EmptySet
    <3>4. UncoveredIn(n, u, f) \in SUBSET Lines
      BY Finite DEF UncoveredIn, Over, Surplus
    <3>5. x2 \in Nat
      BY <3>4, LinesAssumption, FS_Subset, FS_CardinalityType
    <3>6. UnresolvedIn(d, t, h, f) => m # 0
      <4> HIDE DEF r
      <4>. QED
        BY <1>3, <1>5, FS_EmptySet
    <3>7. UnresolvedIn(d, t, h, f) \/ x2 < x
      OBVIOUS
    <3> HIDE DEF d, n, r, r2, x, x2, y, y2, m, m2, a, a2, b, b2
    <3>. QED
      BY <1>3, <1>5, <3>3, <3>5, <3>6, <3>7
  <2>2. CASE u # h
    <3>1. /\ \E p \in Nat : /\ Cardinality(SessionReport(Diff(t, h), t, h).uncovered)
                                = p + Cardinality(UncoveredIn(Diff(t, h), t, f))
                            /\ Cardinality(SessionReport(Diff(u, h), u, h).uncovered)
                                = p + Cardinality(UncoveredIn(Diff(u, h), u, f))
          /\ \E p \in Nat : /\ Cardinality(SessionReport(Diff(t, h), t, h).orphans)
                                = p + Cardinality(OrphansIn(Diff(t, h), t, h, f))
                            /\ Cardinality(SessionReport(Diff(u, h), u, h).orphans)
                                = p + Cardinality(OrphansIn(Diff(u, h), u, h, f))
      BY <1>2, <2>2, OtherFiles
    <3>2. /\ r.unresolvable \subseteq Files /\ r2.unresolvable \subseteq Files
          /\ \A g \in Files \ {f} : g \in r2.unresolvable <=> g \in r.unresolvable
          /\ f \notin r2.unresolvable
      BY <1>2, <2>2, OtherFiles
    <3>3. (UnresolvedIn(d, t, h, f)) \/ (x2 < x /\ OrphansIn(n, u, h, f) = {})
      OBVIOUS
    <3>4. y2 = 0 \/ OrphansIn(n, u, h, f) # {}
      BY FS_EmptySet
    <3>5. PICK p \in Nat : a = p + x /\ a2 = p + x2
      BY <3>1
    <3>6. PICK q \in Nat : b = q + y /\ b2 = q + y2
      BY <3>1
    <3>7. x2 \in Nat
      BY <2>2, OneFile
    <3> HIDE DEF r, r2
    <3>8. r2.unresolvable = r.unresolvable \ {f}
      BY <3>2
    <3>9. m2 <= m
      BY <1>3, <3>8, FS_Subset
    <3>10. ASSUME UnresolvedIn(d, t, h, f)
           PROVE  m2 = m - 1
      <4>1. f \in r.unresolvable
        BY <1>5, <3>10
      <4>2. Cardinality(r.unresolvable \ {f}) = Cardinality(r.unresolvable) - 1
        BY <1>3, <4>1, FS_RemoveElement
      <4>. QED
        BY <3>8, <4>2
    <3> HIDE DEF d, n, x, x2, y, y2, m, m2, a, a2, b, b2
    <3>. QED
      BY <1>3, <1>4, <1>5, <3>3, <3>4, <3>5, <3>6, <3>7, <3>9, <3>10
  <2>. QED
    BY <2>1, <2>2
<1>7. Cardinality(Bad(u)) <= Cardinality(Bad(t))
  <2>1. Bad(t) \in SUBSET Slots
    BY DEF Bad
  <2>. QED
    BY <1>1, <2>1, LinesAssumption, FS_Subset
<1>. QED
  BY <1>6, <1>7, LessToRepair

\* Such a change of a file in debt that is not excluded is a repair.
LEMMA FileRepair ==
  ASSUME TypeOK, work # head, Readable, NEW f \in Files, f \in FilesOf(Debt), f \notin work.excluded,
         NEW ch \in AllChanges, ch.on = f, Applies(work, {ch}),
         NEW u \in Trees, u = Apply(work, {ch}),
         u.approvals = work.approvals, u.excluded = work.excluded,
         \A g \in Files \ {f} : u.files[g] = work.files[g],
         ~UnresolvedIn(Diff(u, head), u, head, f),
         \/ UnresolvedIn(Diff(work, head), work, head, f)
         \/ /\ Cardinality(UncoveredIn(Diff(u, head), u, f))
                 < Cardinality(UncoveredIn(Diff(work, head), work, f))
            /\ OrphansIn(Diff(u, head), u, head, f) = {}
  PROVE  Repair(ch)
<1>1. work \in Trees /\ head \in Trees
  BY DEF TypeOK
<1>2. PreDecision({ch}) = "allow"
  BY FileAllowed
<1>3. Burden(u, SessionReport(Diff(u, head), u, head))
        < Burden(work, SessionReport(Diff(work, head), work, head))
  BY <1>1, FileLighter
<1>. QED
  BY <1>2, <1>3 DEF Repair, Debt, Here

\* There is a repair whenever one is called for.
LEMMA RepairableAlways == ASSUME TypeOK PROVE DebtIsRepairable
<1>1. SUFFICES ASSUME ~(Readable /\ Clean(Debt))
               PROVE  \E ch : Repair(ch)
  BY DEF DebtIsRepairable, Repair
<1>2. work \in Trees /\ head \in Trees
  BY DEF TypeOK
<1>3. CASE ~Parses(work)
  <2>1. PICK s \in Slots : work.approvals[s] = Unparsable
    BY <1>3 DEF Parses
  <2>. QED
    BY <2>1, RepairManifest
<1>4. CASE Parses(work)
  <2> DEFINE d == Diff(work, head)
  <2>1. Readable
    BY <1>4 DEF Readable, ReadableFrom
  <2>2. ~Clean(SessionReport(d, work, head))
    BY <1>1, <2>1 DEF Debt, Here
  <2>3. ~d.none /\ \E g \in Files : Indebted(d, work, head, g)
    BY <1>2, <2>2, CleanReport
  <2>4. PICK f \in Files : Indebted(d, work, head, f)
    BY <2>3
  <2>5. work # head
    BY <1>2, <2>3, DiffParts
  <2>6. f \in FilesOf(Debt)
    BY <1>2, <2>4, <2>5, InDebtWhen DEF InDebt, Debt, Here
  <2>7. CASE Broken(work, f)
    <3>1. CASE EntriesOf(work, f) # {}
      BY <2>5, <2>7, <3>1, RepairEntry
    <3>2. CASE EntriesOf(work, f) = {}
      <4> DEFINE ch == Mending(f)
                 u == Apply(work, {ch})
      <4>1. /\ ch \in AllChanges /\ ch.on = f /\ Applies(work, {ch}) /\ u \in Trees
            /\ u.approvals = work.approvals /\ u.excluded = work.excluded
            /\ u.files[f].kind = "ok"
            /\ \A g \in Files \ {f} : u.files[g] = work.files[g]
        BY <1>2, <2>7, Mended
      <4> HIDE DEF ch, u
      <4>2. f \notin work.excluded
        BY <2>7 DEF Broken, Included
      <4>3. UnresolvedIn(d, work, head, f)
        BY <2>4, <2>7 DEF Indebted, UncoveredIn, OrphansIn
      <4>4. ~UnresolvedIn(Diff(u, head), u, head, f)
        <5>1. ~Broken(u, f)
          BY <4>1 DEF Broken
        <5>2. EntriesOf(u, f) = {}
          BY <3>2, <4>1 DEF EntriesOf
        <5>3. Left(Diff(u, head), u, f) = {}
          BY <5>2 DEF Left, Surplus
        <5>. QED
          BY <5>1, <5>3 DEF UnresolvedIn, LookedAt
      <4>5. Repair(ch)
        BY <2>1, <2>5, <2>6, <4>1, <4>2, <4>3, <4>4, FileRepair DEF u
      <4>. QED
        BY <4>5
    <3>. QED
      BY <3>1, <3>2
  <2>8. CASE ~Broken(work, f) /\ UncoveredIn(d, work, f) # {}
    <3>1. PICK i \in UncoveredIn(d, work, f) : TRUE
      BY <2>8
    <3>2. i \in Occ(work, f) /\ f \notin work.excluded
      BY <3>1 DEF UncoveredIn, Over, Surplus, Occ, Included
    <3> DEFINE ch == Unmarking(f, i)
               u == Apply(work, {ch})
    <3>3. /\ ch \in AllChanges /\ ch.on = f /\ Applies(work, {ch}) /\ u \in Trees
          /\ Without(work, u, f, i)
      BY <1>2, <3>2, Unmarked
    <3> HIDE DEF ch, u
    <3>4. /\ Cardinality(UncoveredIn(Diff(u, head), u, f)) < Cardinality(UncoveredIn(d, work, f))
          /\ OrphansIn(Diff(u, head), u, head, f) = {} /\ ~UnresolvedIn(Diff(u, head), u, head, f)
      BY <1>2, <2>8, <3>1, <3>3, UnmarkReport
    <3>5. /\ u.approvals = work.approvals /\ u.excluded = work.excluded
          /\ \A g \in Files \ {f} : u.files[g] = work.files[g]
      BY <3>3 DEF Without
    <3>6. Repair(ch)
      BY <2>1, <2>5, <2>6, <3>2, <3>3, <3>4, <3>5, FileRepair DEF u
    <3>. QED
      BY <3>6
  <2>9. CASE ~Broken(work, f) /\ UncoveredIn(d, work, f) = {}
    <3>1. Left(d, work, f) # {}
      BY <2>4, <2>9 DEF Indebted, OrphansIn, UnresolvedIn, LookedAt
    <3> DEFINE o == Cardinality(Occ(work, f))
               e == Cardinality(EntriesOf(work, f))
               cov == Covered(work, f)
    <3>2. /\ EntriesOf(work, f) \in SUBSET Nat /\ IsFiniteSet(EntriesOf(work, f))
          /\ o \in Nat /\ e \in Nat /\ cov \in Nat /\ cov <= e /\ (cov = o \/ cov = e) /\ cov <= o
      BY <1>2, Finite, CoveredBound
    <3>3. cov # e
      BY <3>1, <3>2, SurplusNone DEF Left
    <3>4. Cardinality(Occ(work, f)) < Cardinality(EntriesOf(work, f))
      <4>1. o < e
        <5> HIDE DEF o, e, cov
        <5>. QED
          BY <3>2, <3>3
      <4>. QED
        BY <4>1
    <3>5. EntriesOf(work, f) # {}
      BY <3>1 DEF Left, Surplus
    <3>6. PICK s \in EntriesOf(work, f) : TRUE
      BY <3>5
    <3>7. Repair(Blanking(work, s))
      BY <2>5, <3>4, <3>6, RepairEntry
    <3>. QED
      BY <3>7
  <2>. QED
    BY <2>7, <2>8, <2>9
<1>. QED
  BY <1>3, <1>4

\* The gate never wedges the agent: whatever the session owes, and whatever the
\* manifest holds, there is a change that the pre hook allows without the owner
\* and that leaves less to repair.
THEOREM RepairSafe == Spec => []DebtIsRepairable
<1>1. TypeOK => DebtIsRepairable
  BY RepairableAlways
<1>. QED
  BY <1>1, TypeInvariant, PTL
=============================================================================
