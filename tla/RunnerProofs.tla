---------------------------- MODULE RunnerProofs ----------------------------
(***************************************************************************)
(* The runner's parts.  First a test file (TestFile): every test has one   *)
(* result, a serial group stops and every setup is torn down, for any file *)
(* the runner can be given.  The scopes that are open are those around the *)
(* scope at hand; what lies below each of them has either been reported or *)
(* has not begun, and the strengthening says for every open scope which.   *)
(*                                                                         *)
(* Then the budget of a body or hook (BoundedRun), for any number of runs  *)
(* and any budget: why a run is cut off when it is due, and why nothing a  *)
(* given-up run left behind reaches the device.                            *)
(***************************************************************************)
EXTENDS TestFile, BoundedRun, SequenceTheorems, FiniteSetTheorems, NaturalsInduction, WellFoundedInduction, TLAPS

-----------------------------------------------------------------------------
(* The tree of scopes.                                                     *)

Own(s) == {file.tests[s][i] : i \in DOMAIN file.tests[s]}
Kids(s) == {file.kids[s][i] : i \in DOMAIN file.kids[s]}

LEMMA Tree ==
    ASSUME file \in Shapes
    PROVE  /\ NoScope \notin Scopes /\ NoTest \notin Tests
           /\ file.root \in Scopes /\ Path(file.root) = <<file.root>>
           /\ \A s \in Scopes : /\ Path(s) \in Seq(Scopes) /\ Path(s) # <<>> /\ Path(s)[Len(Path(s))] = s
                                /\ file.kids[s] \in Seq(Scopes) /\ file.tests[s] \in Seq(Tests)
                                /\ PolicyOf(s) \in Policy
           /\ file.serial \subseteq Scopes /\ file.before \subseteq Scopes /\ file.after \subseteq Scopes
           /\ file.out \subseteq Tests /\ file.canReset \in BOOLEAN
<1>1. WellFormed(file)
  BY FileAssumption
<1>2. /\ file.path \in [Scopes -> Seq(Scopes) \ {<<>>}] /\ file.kids \in [Scopes -> Seq(Scopes)]
      /\ file.tests \in [Scopes -> Seq(Tests)] /\ file.policy \in [Scopes -> Policy]
  BY <1>1 DEF WellFormed, Scopes, Tests
<1>3. \A s \in Scopes : Path(s)[Len(Path(s))] = s
  BY <1>1 DEF WellFormed, Scopes, Path
<1>4. /\ NoScope \notin Scopes /\ NoTest \notin Tests
      /\ file.root \in Scopes /\ Path(file.root) = <<file.root>>
      /\ file.serial \subseteq Scopes /\ file.before \subseteq Scopes /\ file.after \subseteq Scopes
      /\ file.out \subseteq Tests /\ file.canReset \in BOOLEAN
  BY <1>1 DEF WellFormed, Scopes, Tests, Path
<1>. QED  BY <1>2, <1>3, <1>4 DEF Path, PolicyOf

LEMMA Prefix ==
    ASSUME file \in Shapes, NEW s \in Scopes, NEW i \in DOMAIN Path(s)
    PROVE  Path(Path(s)[i]) = SubSeq(Path(s), 1, i)
BY FileAssumption DEF WellFormed, Scopes, Path

LEMMA KidPath ==
    ASSUME file \in Shapes, NEW s \in Scopes, NEW k \in Kids(s)
    PROVE  k \in Scopes /\ Path(k) = Append(Path(s), k)
<1>1. PICK i \in DOMAIN file.kids[s] : k = file.kids[s][i]
  BY DEF Kids
<1>a. file.kids[s] \in Seq(Scopes)
  BY Tree
<1>2. k \in Scopes
  BY <1>a, <1>1, ElementOfSeq
<1>3. Path(k) = Append(Path(s), k)
  BY <1>1, FileAssumption DEF WellFormed, Scopes, Path
<1>. QED  BY <1>2, <1>3

LEMMA IsKid ==
    ASSUME file \in Shapes, NEW s \in Scopes, s # file.root
    PROVE  \E p \in Scopes : s \in Kids(p)
<1>1. WellFormed(file)
  BY FileAssumption
<1>2. PICK p \in Scopes : \E i \in DOMAIN file.kids[p] : file.kids[p][i] = s
  BY <1>1 DEF WellFormed, Scopes
<1>. QED  BY <1>2 DEF Kids

LEMMA OnePlace ==
    ASSUME file \in Shapes, NEW s \in Scopes, NEW c \in Scopes
    PROVE  /\ \A i \in DOMAIN file.kids[s], j \in DOMAIN file.kids[c] :
                  file.kids[s][i] = file.kids[c][j] => s = c /\ i = j
           /\ \A i \in DOMAIN file.tests[s], j \in DOMAIN file.tests[c] :
                  file.tests[s][i] = file.tests[c][j] => s = c /\ i = j
BY FileAssumption DEF WellFormed, Scopes

\* The parent of a scope.
LEMMA ParentOf ==
    ASSUME file \in Shapes, NEW p \in Scopes, NEW k \in Kids(p)
    PROVE  ~IsRoot(k) /\ Parent(k) = p /\ Len(Path(k)) = Len(Path(p)) + 1 /\ k # file.root
<1>1. k \in Scopes /\ Path(k) = Append(Path(p), k)
  BY KidPath
<1>2. Path(p) \in Seq(Scopes) /\ Path(p) # <<>> /\ Path(p)[Len(Path(p))] = p
  BY Tree
<1>3. Len(Path(p)) \in Nat \ {0}
  BY <1>2, EmptySeq, LenProperties
<1>4. Len(Path(k)) = Len(Path(p)) + 1 /\ \A i \in 1..Len(Path(p)) : Path(k)[i] = Path(p)[i]
  BY <1>1, <1>2, AppendProperties
<1>5. Path(k)[Len(Path(p))] = p
  BY <1>2, <1>3, <1>4
<1>6. Len(Path(file.root)) = 1
  BY Tree
<1>7. Len(Path(k)) # 1 /\ Len(Path(k)) - 1 = Len(Path(p))
  BY <1>3, <1>4
<1>. QED  BY <1>4, <1>5, <1>6, <1>7 DEF IsRoot, Parent

LEMMA RootOrKid ==
    ASSUME file \in Shapes, NEW s \in Scopes
    PROVE  /\ IsRoot(s) => s = file.root /\ Parent(s) = NoScope
           /\ ~IsRoot(s) => Parent(s) \in Scopes /\ s \in Kids(Parent(s))
           /\ IsRoot(file.root)
<1>1. IsRoot(file.root)
  BY Tree DEF IsRoot
<1>2. CASE s = file.root
  BY <1>1, <1>2 DEF Parent
<1>3. CASE s # file.root
  BY <1>1, <1>3, IsKid, ParentOf
<1>. QED  BY <1>1, <1>2, <1>3

\* What is below a scope.
LEMMA WithinIs ==
    ASSUME file \in Shapes, NEW s \in Scopes, NEW c \in Within(s)
    PROVE  /\ c \in Scopes /\ Len(Path(s)) \in 1..Len(Path(c)) /\ Path(c)[Len(Path(s))] = s
           /\ Path(s) = SubSeq(Path(c), 1, Len(Path(s)))
<1>1. PICK i \in DOMAIN Path(c) : Path(c)[i] = s
  BY DEF Within
<1>2. c \in Scopes
  BY DEF Within
<1>3. Path(c) \in Seq(Scopes)
  BY <1>2, Tree
<1>4. i \in 1..Len(Path(c)) /\ Len(Path(c)) \in Nat
  BY <1>1, <1>3, LenProperties
<1>5. Path(s) = SubSeq(Path(c), 1, i)
  BY <1>1, <1>2, Prefix
<1>6. Len(Path(s)) = i
  BY <1>3, <1>4, <1>5, SubSeqProperties
<1>. QED  BY <1>1, <1>2, <1>4, <1>5, <1>6

LEMMA WithinSelf ==
    ASSUME file \in Shapes, NEW s \in Scopes
    PROVE  s \in Within(s)
<1>1. Path(s) \in Seq(Scopes) /\ Path(s) # <<>> /\ Path(s)[Len(Path(s))] = s
  BY Tree
<1>2. Len(Path(s)) \in DOMAIN Path(s)
  BY <1>1, EmptySeq, LenProperties
<1>. QED  BY <1>1, <1>2 DEF Within

LEMMA WithinTrans ==
    ASSUME file \in Shapes, NEW s \in Scopes, NEW c \in Within(s), NEW d \in Within(c)
    PROVE  d \in Within(s)
<1>1. c \in Scopes /\ Len(Path(s)) \in 1..Len(Path(c)) /\ Path(c)[Len(Path(s))] = s
  BY WithinIs
<1>2. d \in Scopes /\ Len(Path(c)) \in 1..Len(Path(d)) /\ Path(c) = SubSeq(Path(d), 1, Len(Path(c)))
  BY <1>1, WithinIs
<1>3. Path(d) \in Seq(Scopes) /\ Path(c) \in Seq(Scopes)
  BY <1>1, <1>2, Tree
<1>4. Path(d)[Len(Path(s))] = s /\ Len(Path(s)) \in DOMAIN Path(d)
  <2>1. Len(Path(s)) \in 1..Len(Path(d))
    BY <1>1, <1>2, <1>3, LenProperties
  <2>2. Path(c)[Len(Path(s))] = Path(d)[Len(Path(s))]
    BY <1>1, <1>2, <1>3, LenProperties, SubSeqProperties
  <2>. QED  BY <1>1, <1>3, <2>1, <2>2, LenProperties
<1>. QED  BY <1>2, <1>4 DEF Within

LEMMA WithinKid ==
    ASSUME file \in Shapes, NEW s \in Scopes, NEW c \in Within(s), c # s
    PROVE  \E k \in Kids(s) : c \in Within(k)
<1>. DEFINE n == Len(Path(s)) + 1
            k == Path(c)[n]
<1>1. c \in Scopes /\ Len(Path(s)) \in 1..Len(Path(c)) /\ Path(c)[Len(Path(s))] = s
  BY WithinIs
<1>2. Path(c) \in Seq(Scopes) /\ Path(c)[Len(Path(c))] = c /\ Len(Path(c)) \in Nat
  BY <1>1, Tree, LenProperties
<1>3. Len(Path(s)) # Len(Path(c))
  BY <1>1, <1>2
<1>4. n \in 1..Len(Path(c)) /\ n - 1 \in 1..Len(Path(c)) /\ n >= 2 /\ n - 1 = Len(Path(s))
  BY <1>1, <1>2, <1>3
<1>5. DOMAIN Path(c) = 1..Len(Path(c))
  BY <1>2, LenProperties
<1>6. k \in Scopes /\ c \in Within(k)
  BY <1>1, <1>2, <1>4, <1>5, ElementOfSeq DEF Within
<1>7. Path(k) = SubSeq(Path(c), 1, n)
  BY <1>1, <1>4, <1>5, Prefix
<1>8. Len(Path(k)) = n /\ Path(k)[n - 1] = s
  BY <1>1, <1>2, <1>4, <1>7, SubSeqProperties
<1>9. ~IsRoot(k) /\ Parent(k) = s
  BY <1>4, <1>8 DEF IsRoot, Parent
<1>10. k \in Kids(s)
  BY <1>6, <1>9, RootOrKid
<1>. QED  BY <1>6, <1>10

LEMMA KidWithin ==
    ASSUME file \in Shapes, NEW s \in Scopes, NEW k \in Kids(s), NEW c \in Within(k)
    PROVE  c \in Within(s) /\ c # s /\ k \in Scopes
<1>1. k \in Scopes /\ Path(k) = Append(Path(s), k) /\ Len(Path(k)) = Len(Path(s)) + 1
  BY KidPath, ParentOf
<1>2. Path(s) \in Seq(Scopes) /\ Path(s) # <<>> /\ Path(s)[Len(Path(s))] = s
  BY Tree
<1>3. Len(Path(s)) \in 1..Len(Path(k)) /\ Len(Path(s)) \in Nat
  BY <1>1, <1>2, EmptySeq, LenProperties
<1>4. Path(k) \in Seq(Scopes)
  BY <1>1, Tree
<1>5. Path(k)[Len(Path(s))] = s /\ Len(Path(s)) \in DOMAIN Path(k)
  BY <1>1, <1>2, <1>3, <1>4, AppendProperties, LenProperties
<1>6. k \in Within(s)
  BY <1>1, <1>5 DEF Within
<1>7. c # s
  <2>1. Len(Path(k)) \in 1..Len(Path(c))
    BY <1>1, WithinIs
  <2>. QED  BY <1>1, <1>3, <2>1
<1>. QED  BY <1>1, <1>6, <1>7, WithinTrans

LEMMA KidsApart ==
    ASSUME file \in Shapes, NEW s \in Scopes, NEW k \in Kids(s), NEW l \in Kids(s),
           NEW c, c \in Within(k), c \in Within(l)
    PROVE  k = l
<1>1. k \in Scopes /\ l \in Scopes /\ Len(Path(k)) = Len(Path(s)) + 1 /\ Len(Path(l)) = Len(Path(s)) + 1
  BY KidPath, ParentOf
<1>2. Path(c)[Len(Path(k))] = k /\ Path(c)[Len(Path(l))] = l
  BY <1>1, WithinIs
<1>. QED  BY <1>1, <1>2

LEMMA RootHoldsAll ==
    ASSUME file \in Shapes, NEW c \in Scopes
    PROVE  c \in Within(file.root)
<1>1. Path(c) \in Seq(Scopes) /\ Path(c) # <<>>
  BY Tree
<1>2. 1 \in DOMAIN Path(c) /\ 1 \in 1..Len(Path(c)) /\ Path(c)[1] \in Scopes
  BY <1>1, EmptySeq, LenProperties, ElementOfSeq
<1>3. Path(Path(c)[1]) = SubSeq(Path(c), 1, 1)
  BY <1>2, Prefix
<1>4. Len(SubSeq(Path(c), 1, 1)) = 1
  BY <1>1, <1>2, LenProperties, SubSeqProperties
<1>5. Path(c)[1] = file.root
  BY <1>2, <1>3, <1>4, RootOrKid DEF IsRoot
<1>. QED  BY <1>2, <1>5 DEF Within

\* A scope within two is within one that is within the other.
LEMMA WithinBoth ==
    ASSUME file \in Shapes, NEW s \in Scopes, NEW p \in Scopes, NEW c, c \in Within(s), c \in Within(p),
           Len(Path(p)) <= Len(Path(s))
    PROVE  s \in Within(p)
<1>1. c \in Scopes /\ Len(Path(s)) \in 1..Len(Path(c)) /\ Path(s) = SubSeq(Path(c), 1, Len(Path(s)))
  BY WithinIs
<1>2. Len(Path(p)) \in 1..Len(Path(c)) /\ Path(c)[Len(Path(p))] = p
  BY WithinIs
<1>3. Path(c) \in Seq(Scopes) /\ Path(s) \in Seq(Scopes)
  BY <1>1, Tree
<1>4. Len(Path(p)) \in 1..Len(Path(s)) /\ Len(Path(s)) \in Nat
  BY <1>1, <1>2, <1>3, LenProperties
<1>5. Path(s)[Len(Path(p))] = p
  BY <1>1, <1>2, <1>3, <1>4, LenProperties, SubSeqProperties
<1>6. Len(Path(p)) \in DOMAIN Path(s)
  BY <1>3, <1>4, LenProperties
<1>. QED  BY <1>5, <1>6 DEF Within

\* Between a scope and one it holds nothing is in between a scope and its kid.
LEMMA AboveKid ==
    ASSUME file \in Shapes, NEW p \in Scopes, NEW k \in Kids(p), NEW s \in Scopes, k \in Within(s), s # k
    PROVE  p \in Within(s)
<1>1. k \in Scopes /\ Path(k) = Append(Path(p), k) /\ Len(Path(k)) = Len(Path(p)) + 1
  BY KidPath, ParentOf
<1>2. Len(Path(s)) \in 1..Len(Path(k)) /\ Path(k)[Len(Path(s))] = s
  BY <1>1, WithinIs
<1>3. Path(k) \in Seq(Scopes) /\ Path(k)[Len(Path(k))] = k /\ Path(p) \in Seq(Scopes)
  BY <1>1, Tree
<1>4. Len(Path(p)) \in Nat
  BY <1>3, LenProperties
<1>5. Len(Path(s)) <= Len(Path(p))
  BY <1>1, <1>2, <1>3, <1>4
<1>6. k \in Within(k) /\ k \in Within(p)
  BY <1>1, WithinSelf, KidWithin
<1>. QED  BY <1>5, <1>6, WithinBoth

-----------------------------------------------------------------------------
(* Tests of a scope and of those below it.                                 *)

LEMMA KeptIs ==
    ASSUME file \in Shapes, NEW s \in Scopes, NEW t
    PROVE  t \in Kept(s) <=> t \notin file.out /\ \E c \in Within(s) : t \in Own(c)
BY DEF Kept, Own

LEMMA OwnAreTests ==
    ASSUME file \in Shapes, NEW c \in Scopes, NEW t \in Own(c)
    PROVE  t \in Tests
BY DEF Own, Tests, TestsIn, Scopes

LEMMA TestHasScope ==
    ASSUME file \in Shapes, NEW t \in Tests
    PROVE  \E c \in Scopes : t \in Own(c)
BY DEF Own, Tests, TestsIn, Scopes

LEMMA OneHome ==
    ASSUME file \in Shapes, NEW s \in Scopes, NEW c \in Scopes, NEW t, t \in Own(s), t \in Own(c)
    PROVE  s = c
<1>1. PICK i \in DOMAIN file.tests[s] : t = file.tests[s][i]
  BY DEF Own
<1>2. PICK j \in DOMAIN file.tests[c] : t = file.tests[c][j]
  BY DEF Own
<1>3. file.tests[s][i] = file.tests[c][j] => s = c /\ i = j
  BY OnePlace
<1>. QED  BY <1>1, <1>2, <1>3

-----------------------------------------------------------------------------
(* Serial groups.                                                          *)

LEMMA LeastNumber ==
    ASSUME NEW S \in SUBSET Nat, S # {}
    PROVE  \E m \in S : \A n \in S : m <= n
<1>1. PICK m \in S : \A n \in S : ~(<<n, m>> \in OpToRel(<, Nat))
  BY NatLessThanWellFounded, WFMin, Zenon
<1>2. \A n \in S : n < m => <<n, m>> \in OpToRel(<, Nat)
  BY DEF OpToRel
<1>3. \A n \in S : ~(n < m)
  BY <1>1, <1>2, Zenon
<1>. QED  BY <1>3

FirstSerial(s, i) ==
    /\ i \in DOMAIN Path(s) /\ Path(s)[i] \in file.serial
    /\ \A j \in DOMAIN Path(s) : Path(s)[j] \in file.serial => i <= j

LEMMA GroupOfFirst ==
    ASSUME file \in Shapes, NEW s \in Scopes, NEW i, FirstSerial(s, i)
    PROVE  Group(s) = Path(s)[i]
<1>. DEFINE S == {j \in DOMAIN Path(s) : Path(s)[j] \in file.serial}
<1>1. i \in S /\ \A j \in S : i <= j
  BY DEF FirstSerial
<1>2. S \in SUBSET Nat
  BY Tree, LenProperties
<1>3. (CHOOSE m \in S : \A j \in S : m <= j) = i
  <2>. HIDE DEF S
  <2>1. \A m \in S : (\A j \in S : m <= j) => m = i
    BY <1>1, <1>2
  <2>. QED  BY <1>1, <2>1
<1>. QED  BY <1>1, <1>3 DEF Group

LEMMA FirstOfGroup ==
    ASSUME file \in Shapes, NEW s \in Scopes, Group(s) # NoScope
    PROVE  \E i : FirstSerial(s, i)
<1>. DEFINE S == {j \in DOMAIN Path(s) : Path(s)[j] \in file.serial}
<1>1. S # {}
  BY DEF Group
<1>2. S \in SUBSET Nat
  BY Tree, LenProperties
<1>3. PICK i \in S : \A j \in S : i <= j
  <2>. HIDE DEF S
  <2>. QED  BY <1>1, <1>2, LeastNumber
<1>4. FirstSerial(s, i)
  BY <1>3 DEF FirstSerial
<1>. QED  BY <1>4

LEMMA GroupHolds ==
    ASSUME file \in Shapes, NEW s \in Scopes, Group(s) # NoScope
    PROVE  Group(s) \in Scopes /\ s \in Within(Group(s)) /\ Group(Group(s)) = Group(s)
<1>1. PICK i : FirstSerial(s, i)
  BY FirstOfGroup
<1>. DEFINE g == Path(s)[i]
<1>2. Path(s) \in Seq(Scopes) /\ i \in DOMAIN Path(s) /\ i \in 1..Len(Path(s)) /\ Len(Path(s)) \in Nat
  BY <1>1, Tree, LenProperties DEF FirstSerial
<1>3. g \in Scopes /\ s \in Within(g) /\ Group(s) = g
  BY <1>1, <1>2, ElementOfSeq, GroupOfFirst DEF Within
<1>4. Path(g) = SubSeq(Path(s), 1, i)
  BY <1>2, Prefix
<1>5. Len(Path(g)) = i /\ \A j \in 1..i : Path(g)[j] = Path(s)[j]
  BY <1>2, <1>4, SubSeqProperties
<1>6. DOMAIN Path(g) = 1..i
  BY <1>3, <1>5, Tree, LenProperties
<1>7. FirstSerial(g, i)
  BY <1>1, <1>2, <1>5, <1>6 DEF FirstSerial
<1>8. Group(g) = Path(g)[i]
  BY <1>3, <1>7, GroupOfFirst
<1>. QED  BY <1>2, <1>3, <1>5, <1>8

LEMMA GroupBelow ==
    ASSUME file \in Shapes, NEW p \in Scopes, NEW c \in Within(p), Group(p) # NoScope
    PROVE  Group(c) = Group(p)
<1>1. PICK i : FirstSerial(p, i)
  BY FirstOfGroup
<1>2. /\ c \in Scopes /\ Len(Path(p)) \in 1..Len(Path(c))
      /\ Path(p) = SubSeq(Path(c), 1, Len(Path(p)))
  BY WithinIs
<1>3. Path(c) \in Seq(Scopes) /\ Path(p) \in Seq(Scopes) /\ Len(Path(c)) \in Nat /\ Len(Path(p)) \in Nat
      /\ DOMAIN Path(p) = 1..Len(Path(p)) /\ DOMAIN Path(c) = 1..Len(Path(c))
  BY <1>2, Tree, LenProperties
<1>4. \A j \in 1..Len(Path(p)) : Path(p)[j] = Path(c)[j]
  BY <1>2, <1>3, SubSeqProperties
<1>5. i \in 1..Len(Path(p)) /\ Path(p)[i] \in file.serial
      /\ \A j \in 1..Len(Path(p)) : Path(p)[j] \in file.serial => i <= j
  BY <1>1, <1>3 DEF FirstSerial
<1>6. i \in 1..Len(Path(c)) /\ Path(c)[i] \in file.serial
  BY <1>2, <1>3, <1>4, <1>5
<1>7. ASSUME NEW j \in 1..Len(Path(c)), Path(c)[j] \in file.serial
      PROVE  i <= j
  <2>1. CASE j <= Len(Path(p))
    <3>1. j \in 1..Len(Path(p))
      BY <1>3, <2>1
    <3>. QED  BY <1>4, <1>5, <1>7, <3>1
  <2>2. CASE ~(j <= Len(Path(p)))
    BY <1>3, <1>5, <2>2
  <2>. QED  BY <2>1, <2>2
<1>8. FirstSerial(c, i)
  BY <1>3, <1>6, <1>7 DEF FirstSerial
<1>9. Group(c) = Path(c)[i] /\ Group(p) = Path(p)[i]
  BY <1>1, <1>2, <1>8, GroupOfFirst
<1>. QED  BY <1>4, <1>5, <1>9

-----------------------------------------------------------------------------
(* The elements of a sequence that are in a set.                           *)

\* The recursion Those is defined by, up to m.
Collects(f, seq, kept, m) ==
    f = [n \in 0..m |-> IF n = 0 THEN <<>>
                        ELSE IF seq[n] \in kept THEN Append(f[n - 1], seq[n]) ELSE f[n - 1]]

LEMMA CollectsStep ==
    ASSUME NEW f, NEW seq, NEW kept, NEW m \in Nat, Collects(f, seq, kept, m)
    PROVE  /\ f[0] = <<>>
           /\ \A n \in 1..m : f[n] = IF seq[n] \in kept THEN Append(f[n - 1], seq[n]) ELSE f[n - 1]
           /\ DOMAIN f = 0..m
<1>1. DOMAIN f = 0..m
  BY Zenon DEF Collects
<1>2. \A n \in 0..m : f[n] = IF n = 0 THEN <<>>
                             ELSE IF seq[n] \in kept THEN Append(f[n - 1], seq[n]) ELSE f[n - 1]
  BY Zenon DEF Collects
<1>3. 0 \in 0..m
  OBVIOUS
<1>4. f[0] = <<>>
  BY <1>2, <1>3
<1>5. ASSUME NEW n \in 1..m
      PROVE  f[n] = IF seq[n] \in kept THEN Append(f[n - 1], seq[n]) ELSE f[n - 1]
  <2>1. n \in 0..m /\ n # 0
    OBVIOUS
  <2>. QED  BY <1>2, <2>1, Zenon
<1>. QED  BY <1>1, <1>4, <1>5

LEMMA CollectsExists ==
    ASSUME NEW seq, NEW kept, NEW l \in Nat
    PROVE  \E f : Collects(f, seq, kept, l)
<1>. DEFINE B == {m \in Nat : ~\E f : Collects(f, seq, kept, m)}
<1>1. ASSUME B # {}  PROVE FALSE
  <2>1. PICK m \in B : \A n \in B : m <= n
    <3>. HIDE DEF B
    <3>1. B \in SUBSET Nat
      BY DEF B
    <3>. QED  BY <1>1, <3>1, LeastNumber
  <2>2. CASE m = 0
    <3>1. Collects([n \in 0..0 |-> <<>>], seq, kept, 0)
      BY DEF Collects
    <3>. QED  BY <2>1, <2>2, <3>1
  <2>3. CASE m # 0
    <3>1. m - 1 \in Nat /\ m - 1 \notin B
      <4>1. m - 1 \in Nat /\ ~(m <= m - 1)
        BY <2>1, <2>3
      <4>. HIDE DEF B
      <4>. QED  BY <2>1, <4>1
    <3>2. PICK f : Collects(f, seq, kept, m - 1)
      BY <3>1
    <3>. DEFINE g == [n \in 0..m |-> IF n < m THEN f[n]
                                     ELSE IF seq[m] \in kept THEN Append(f[m - 1], seq[m]) ELSE f[m - 1]]
    <3>3. /\ f[0] = <<>>
          /\ \A n \in 1..m - 1 : f[n] = IF seq[n] \in kept THEN Append(f[n - 1], seq[n]) ELSE f[n - 1]
      BY <3>1, <3>2, CollectsStep
    <3>4. g[0] = <<>> /\ \A n \in 0..m - 1 : g[n] = f[n]
      BY <2>1, <2>3, <3>3
    <3>5. ASSUME NEW n \in 0..m
          PROVE  g[n] = IF n = 0 THEN <<>>
                        ELSE IF seq[n] \in kept THEN Append(g[n - 1], seq[n]) ELSE g[n - 1]
      <4>1. CASE n = 0
        BY <3>4, <4>1
      <4>2. CASE n \in 1..m - 1
        <5>1. n - 1 \in 0..m - 1 /\ n \in 0..m - 1 /\ n # 0
          BY <2>1, <4>2
        <5>2. g[n] = f[n] /\ g[n - 1] = f[n - 1]
          BY <3>4, <5>1
        <5>. HIDE DEF g
        <5>. QED  BY <3>3, <4>2, <5>1, <5>2
      <4>3. CASE n = m
        <5>1. m - 1 \in 0..m - 1 /\ ~(m < m)
          BY <2>1, <2>3
        <5>2. g[m - 1] = f[m - 1]
          BY <3>4, <5>1
        <5>3. g[m] = IF seq[m] \in kept THEN Append(f[m - 1], seq[m]) ELSE f[m - 1]
          BY <2>1, <5>1
        <5>. HIDE DEF g
        <5>. QED  BY <2>3, <4>3, <5>2, <5>3
      <4>. QED  BY <2>1, <4>1, <4>2, <4>3
    <3>6. Collects(g, seq, kept, m)
      <4>1. g = [n \in 0..m |-> g[n]]
        OBVIOUS
      <4>. HIDE DEF g
      <4>2. [n \in 0..m |-> g[n]] = [n \in 0..m |-> IF n = 0 THEN <<>>
                        ELSE IF seq[n] \in kept THEN Append(g[n - 1], seq[n]) ELSE g[n - 1]]
        BY <3>5
      <4>. QED  BY <4>1, <4>2, Zenon DEF Collects
    <3>. QED  BY <2>1, <3>6
  <2>. QED  BY <2>2, <2>3
<1>. QED  BY <1>1

LEMMA ThoseIs ==
    ASSUME NEW seq, NEW kept, Len(seq) \in Nat
    PROVE  \E f : Collects(f, seq, kept, Len(seq)) /\ Those(seq, kept) = f[Len(seq)]
<1>. DEFINE f == CHOOSE g : Collects(g, seq, kept, Len(seq))
<1>1. Collects(f, seq, kept, Len(seq))
  BY CollectsExists
<1>2. Those(seq, kept) = f[Len(seq)]
  BY Zenon DEF Those, Collects
<1>. QED  BY <1>1, <1>2

\* Two of them agree as far as the sequences do.
LEMMA CollectsAgree ==
    ASSUME NEW s, NEW r, NEW kept, NEW l \in Nat, NEW m \in Nat, l <= m,
           \A i \in 1..l : s[i] = r[i],
           NEW f, Collects(f, s, kept, l), NEW g, Collects(g, r, kept, m)
    PROVE  \A n \in 0..l : f[n] = g[n]
<1>. DEFINE B == {n \in 0..l : f[n] # g[n]}
<1>1. ASSUME B # {}  PROVE FALSE
  <2>1. PICK n \in B : \A i \in B : n <= i
    <3>. HIDE DEF B
    <3>1. B \in SUBSET Nat
      BY DEF B
    <3>. QED  BY <1>1, <3>1, LeastNumber
  <2>2. n \in 0..l /\ f[n] # g[n]
    BY <2>1
  <2>3. f[0] = <<>> /\ g[0] = <<>>
    BY CollectsStep
  <2>4. n # 0 /\ n - 1 \in 0..l /\ n \in 1..l /\ n \in 1..m
    BY <2>2, <2>3
  <2>5. f[n - 1] = g[n - 1]
    <3>1. n - 1 \notin B
      <4>1. ~(n <= n - 1)
        BY <2>2
      <4>. HIDE DEF B
      <4>. QED  BY <2>1, <4>1
    <3>. QED  BY <2>4, <3>1
  <2>6. f[n] = IF s[n] \in kept THEN Append(f[n - 1], s[n]) ELSE f[n - 1]
    BY <2>4, CollectsStep
  <2>7. g[n] = IF r[n] \in kept THEN Append(g[n - 1], r[n]) ELSE g[n - 1]
    BY <2>4, CollectsStep
  <2>. QED  BY <2>2, <2>4, <2>5, <2>6, <2>7
<1>. QED  BY <1>1

LEMMA ThoseEmpty ==
    ASSUME NEW kept
    PROVE  Those(<<>>, kept) = <<>>
<1>1. Len(<<>>) = 0
  BY LenProperties, EmptySeq
<1>2. PICK f : Collects(f, <<>>, kept, 0) /\ Those(<<>>, kept) = f[0]
  BY <1>1, ThoseIs
<1>. QED  BY <1>2, CollectsStep

LEMMA ThoseAppend ==
    ASSUME NEW S, NEW seq \in Seq(S), NEW x \in S, NEW kept
    PROVE  Those(Append(seq, x), kept) = IF x \in kept THEN Append(Those(seq, kept), x) ELSE Those(seq, kept)
<1>. DEFINE l == Len(seq)
            r == Append(seq, x)
<1>1. l \in Nat /\ Len(r) = l + 1 /\ r[l + 1] = x /\ \A i \in 1..l : seq[i] = r[i]
  BY LenProperties, AppendProperties
<1>2. PICK f : Collects(f, seq, kept, l) /\ Those(seq, kept) = f[l]
  BY <1>1, ThoseIs
<1>. HIDE DEF l, r
<1>3. PICK m \in Nat : m = l + 1
  BY <1>1
<1>4. Len(r) = m /\ r[m] = x /\ l <= m /\ l \in 0..l /\ m \in 1..m /\ m - 1 = l
  BY <1>1, <1>3
<1>5. PICK g : Collects(g, r, kept, m) /\ Those(r, kept) = g[m]
  BY <1>4, ThoseIs
<1>6. \A n \in 0..l : f[n] = g[n]
  BY <1>1, <1>2, <1>4, <1>5, CollectsAgree
<1>7. \A n \in 1..m : g[n] = IF r[n] \in kept THEN Append(g[n - 1], r[n]) ELSE g[n - 1]
  BY <1>5, CollectsStep
<1>. QED  BY <1>2, <1>4, <1>5, <1>6, <1>7 DEF r

LEMMA ThoseTyped ==
    ASSUME NEW S, NEW seq \in Seq(S), NEW kept
    PROVE  Those(seq, kept) \in Seq(S \cap kept)
<1>. DEFINE l == Len(seq)
<1>1. l \in Nat /\ \A i \in 1..l : seq[i] \in S
  BY LenProperties, ElementOfSeq
<1>2. PICK f : Collects(f, seq, kept, l) /\ Those(seq, kept) = f[l]
  BY <1>1, ThoseIs
<1>. DEFINE B == {n \in 0..l : f[n] \notin Seq(S \cap kept)}
<1>3. ASSUME B # {}  PROVE FALSE
  <2>1. PICK n \in B : \A i \in B : n <= i
    <3>. HIDE DEF B
    <3>1. B \in SUBSET Nat
      BY <1>1 DEF B
    <3>. QED  BY <1>3, <3>1, LeastNumber
  <2>2. n \in 0..l /\ f[n] \notin Seq(S \cap kept)
    BY <2>1
  <2>3. f[0] = <<>> /\ <<>> \in Seq(S \cap kept)
    BY <1>1, <1>2, CollectsStep, EmptySeq
  <2>4. n # 0 /\ n - 1 \in 0..l /\ n \in 1..l
    <3>1. n # 0
      BY <2>2, <2>3, Zenon
    <3>. QED  BY <1>1, <2>2, <3>1
  <2>5. f[n - 1] \in Seq(S \cap kept)
    <3>1. n - 1 \notin B
      <4>1. ~(n <= n - 1)
        BY <1>1, <2>2
      <4>. HIDE DEF B
      <4>. QED  BY <2>1, <4>1
    <3>. QED  BY <2>4, <3>1
  <2>6. f[n] = IF seq[n] \in kept THEN Append(f[n - 1], seq[n]) ELSE f[n - 1]
    BY <1>1, <1>2, <2>4, CollectsStep
  <2>7. seq[n] \in kept => seq[n] \in S \cap kept
    BY <1>1, <2>4
  <2>. QED  BY <2>2, <2>5, <2>6, <2>7, AppendProperties
<1>4. f[l] \in Seq(S \cap kept)
  BY <1>1, <1>3
<1>. QED  BY <1>2, <1>4

-----------------------------------------------------------------------------
(* Types.                                                                  *)

\* The resets and hooks of some scopes.
ItemsOf(some) ==
    {Item("afterAll", s) : s \in some \cap file.after} \cup {Item("beforeAll", s) : s \in some \cap file.before}
        \cup {Item("reset", s) : s \in some} \cup {Item("freshReset", s) : s \in some}
        \cup {Item("rebuilt", NoScope)}

Phases == {"new", "setup", "tests", "suites", "over", "broken"}
AppState == [live : Seq(Scopes), soiled : BOOLEAN, torn : BOOLEAN, waived : BOOLEAN, lost : BOOLEAN]

PlaceTyped ==
    /\ file \in Shapes /\ cur \in Scopes \cup {NoScope}
    /\ phase \in [Scopes -> Phases] /\ at \in [Scopes -> Nat \ {0}]
    /\ skipping \in SUBSET Scopes /\ serialFailed \in SUBSET Scopes
    /\ stopped \in {"no", "user", "infra"} /\ thrown \in BOOLEAN

AttemptTyped ==
    /\ test \in Tests \cup {NoTest} /\ attempt \in Nat
    /\ status \in {"ready", "passed", "failed", "skipped"}
    /\ infra \in BOOLEAN /\ failedBefore \in BOOLEAN /\ rebuilt \in BOOLEAN

AgendaTyped == agenda \in Seq(ItemsOf(Scopes))

DeviceTyped ==
    /\ setupBroken \in BOOLEAN /\ freshStart \in BOOLEAN
    /\ applied \in Policy \cup {NoPolicy} /\ prepared \in Policy \cup {NoPolicy}
    /\ app \in AppState /\ up \in SUBSET Scopes

ReportTyped ==
    /\ results \in [Tests -> {"none", "passed", "failed", "skipped"}]
    /\ reports \in [Tests -> Nat]

FileTypeOK == PlaceTyped /\ AttemptTyped /\ AgendaTyped /\ DeviceTyped /\ ReportTyped

\* The file is the same all along, and so is all that is said of it alone.
LEMMA SameFile ==
    ASSUME file' = file
    PROVE  /\ Scopes' = Scopes /\ Tests' = Tests
           /\ \A s : /\ Path(s)' = Path(s) /\ Within(s)' = Within(s) /\ Own(s)' = Own(s) /\ Kids(s)' = Kids(s)
                     /\ Kept(s)' = Kept(s) /\ Group(s)' = Group(s) /\ Parent(s)' = Parent(s)
           /\ \A s : HasRunnable(s)' = HasRunnable(s)
BY DEF Scopes, Tests, Path, Within, Own, Kids, Kept, Group, Parent, IsRoot, HasRunnable, SkippedFrom

LEMMA FileStays == Next => file' = file
BY DEF Next, Enter, SetUp, StartTest, PassOver, TestsDone, Descend, SkipSuite, Close, Reset, BeforeAllHook, BeforeAll,
       AfterAll, Rebuilt, SetupFails, EntryThrows, SetupSkips, SetupStopped, AttemptSetupFails, Body, Retry, EndTest, Stop, Over,
       vars

LEMMA ItemsInclude ==
    ASSUME NEW A, NEW B, A \subseteq B
    PROVE  ItemsOf(A) \subseteq ItemsOf(B)
BY DEF ItemsOf

\* What a fresh start does is for the scopes of its chain.
LEMMA FreshStartTyped ==
    ASSUME file \in Shapes, NEW C \in SUBSET Scopes, NEW chain \in Seq(C)
    PROVE  FreshStart(chain) \in Seq(ItemsOf(C))
<1>. DEFINE n == Len(chain)
            inner == [i \in 1..n |-> Item("afterAll", chain[n + 1 - i])]
            steps == [i \in 1..(2 * n) |->
                         Item(IF i % 2 = 1 THEN "freshReset" ELSE "beforeAll", chain[(i + 1) \div 2])]
            All == {Item(op, s) : op \in {"afterAll", "beforeAll", "freshReset"}, s \in C}
<1>1. n \in Nat /\ \A i \in 1..n : chain[i] \in C
  BY LenProperties, ElementOfSeq
<1>2. inner \in Seq(All)
  <2>1. \A i \in 1..n : n + 1 - i \in 1..n
    BY <1>1
  <2>2. \A i \in 1..n : inner[i] \in All
    BY <1>1, <2>1
  <2>. QED  BY <1>1, <2>2, IsASeq
<1>3. steps \in Seq(All)
  <2>1. \A i \in 1..(2 * n) : (i + 1) \div 2 \in 1..n
    BY <1>1
  <2>2. ASSUME NEW i \in 1..(2 * n)  PROVE  steps[i] \in All
    <3>1. chain[(i + 1) \div 2] \in C
      BY <1>1, <2>1
    <3>. QED  BY <3>1
  <2>3. 2 * n \in Nat
    BY <1>1
  <2>. QED  BY <2>2, <2>3, IsASeq
<1>4. All \cap Existing \subseteq ItemsOf(C)
  BY DEF Existing, ItemsOf, Item
<1>5. Item("rebuilt", NoScope) \in ItemsOf(C)
  BY DEF ItemsOf
<1>. HIDE DEF All, inner, steps
<1>6. Those(inner, Existing) \in Seq(ItemsOf(C)) /\ Those(steps, Existing) \in Seq(ItemsOf(C))
  BY <1>2, <1>3, <1>4, ThoseTyped, SeqMonotonic
<1>7. Teardown(chain) \in Seq(ItemsOf(C))
  BY <1>6 DEF Teardown, inner
<1>8. Rebuild(chain) = Append(Those(steps, Existing), Item("rebuilt", NoScope))
  BY DEF Rebuild, steps
<1>9. Rebuild(chain) \in Seq(ItemsOf(C))
  BY <1>5, <1>6, <1>8, AppendProperties
<1>. QED  BY <1>7, <1>9, ConcatProperties, EmptySeq DEF FreshStart

Above(s) == {c \in Scopes : s \in Within(c)}

LEMMA PathAbove ==
    ASSUME file \in Shapes, NEW s \in Scopes
    PROVE  Path(s) \in Seq(Above(s)) /\ Enclosing(s) \in Seq(Above(s)) /\ Above(s) \subseteq Scopes
<1>1. Path(s) \in Seq(Scopes)
  BY Tree
<1>2. \A i \in 1..Len(Path(s)) : Path(s)[i] \in Above(s)
  BY <1>1, LenProperties, ElementOfSeq DEF Above, Within
<1>3. Path(s) \in Seq(Above(s))
  <2>1. \A t \in Seq(Scopes) : (\A i \in 1..Len(t) : t[i] \in Above(s)) => t \in Seq(Above(s))
    BY LenProperties, IsASeq
  <2>. QED  BY <1>1, <1>2, <2>1
<1>4. CASE IsRoot(s)
  BY <1>3, <1>4, EmptySeq DEF Enclosing, Above
<1>5. CASE ~IsRoot(s)
  <2>. DEFINE p == Parent(s)
  <2>1. p \in Scopes /\ s \in Kids(p)
    BY <1>5, RootOrKid
  <2>2. Path(p) \in Seq(Scopes) /\ Path(s) = Append(Path(p), s)
    BY <2>1, Tree, KidPath
  <2>3. \A i \in 1..Len(Path(p)) : i \in 1..Len(Path(s)) /\ Path(p)[i] = Path(s)[i]
    BY <2>2, LenProperties, AppendProperties
  <2>4. \A i \in 1..Len(Path(p)) : Path(p)[i] \in Above(s)
    BY <1>2, <2>3
  <2>5. Path(p) \in Seq(Above(s))
    <3>1. \A t \in Seq(Scopes) : (\A i \in 1..Len(t) : t[i] \in Above(s)) => t \in Seq(Above(s))
      BY LenProperties, IsASeq
    <3>. QED  BY <2>2, <2>4, <3>1
  <2>. QED  BY <1>3, <1>5, <2>5 DEF Enclosing, Above
<1>. QED  BY <1>4, <1>5

\* What is said of types of the variables the steps change together.
LEMMA LeaveTyped ==
    ASSUME FileTypeOK, file' = file, NEW s \in Scopes, NEW ended \in {"over", "broken"}, Leave(s, ended)
    PROVE  /\ cur' \in Scopes \cup {NoScope} /\ phase' \in [Scopes -> Phases] /\ at' \in [Scopes -> Nat \ {0}]
           /\ serialFailed' \in SUBSET Scopes
<1>1. Parent(s) \in Scopes \cup {NoScope}
  BY RootOrKid DEF FileTypeOK, PlaceTyped, Parent
<1>2. \A g : g = (IF IsRoot(s) THEN NoScope ELSE Group(Parent(s))) /\ g # NoScope => g \in Scopes
  BY RootOrKid, GroupHolds DEF FileTypeOK, PlaceTyped
<1>3. cur' = Parent(s) /\ phase' = [phase EXCEPT ![s] = ended]
      /\ at' = [c \in Scopes |-> IF c = Parent(s) THEN at[c] + 1 ELSE at[c]]
      /\ \E g \in {IF IsRoot(s) THEN NoScope ELSE Group(Parent(s))} :
            serialFailed' \in {serialFailed} \cup {serialFailed \cup {h} : h \in {g} \ {NoScope}}
  BY DEF Leave
<1>4. phase' \in [Scopes -> Phases] /\ at' \in [Scopes -> Nat \ {0}]
  BY <1>3 DEF FileTypeOK, PlaceTyped, Phases
<1>5. serialFailed' \in SUBSET Scopes
  <2>1. PICK g : /\ g = (IF IsRoot(s) THEN NoScope ELSE Group(Parent(s)))
                 /\ serialFailed' \in {serialFailed} \cup {serialFailed \cup {h} : h \in {g} \ {NoScope}}
    BY <1>3, Zenon
  <2>. QED  BY <1>2, <2>1 DEF FileTypeOK, PlaceTyped
<1>. QED  BY <1>1, <1>3, <1>4, <1>5

LEMMA ReportKeepsTypes ==
    ASSUME ReportTyped, file' = file, NEW ts, NEW result \in {"passed", "failed", "skipped"}, Report(ts, result)
    PROVE  ReportTyped'
<1>1. Tests' = Tests
  BY SameFile
<1>. QED  BY <1>1 DEF ReportTyped, Report

LEMMA SucceedTyped ==
    ASSUME NEW S, agenda \in Seq(S), agenda # <<>>, Succeed
    PROVE  agenda' \in Seq(S) /\ NextItem \in S
BY HeadTailProperties DEF Succeed, NextItem

LEMMA InitTyped == Init => FileTypeOK
<1>. SUFFICES ASSUME Init PROVE FileTypeOK
  OBVIOUS
<1>1. file \in Shapes
  BY DEF Init
<1>2. PlaceTyped
  <2>1. file.root \in Scopes
    BY <1>1, Tree
  <2>2. phase \in [Scopes -> Phases] /\ at \in [Scopes -> Nat \ {0}]
    BY DEF Init, Phases
  <2>. QED  BY <1>1, <2>1, <2>2 DEF Init, PlaceTyped
<1>3. AttemptTyped
  BY DEF Init, AttemptTyped
<1>4. AgendaTyped
  BY EmptySeq DEF Init, AgendaTyped
<1>5. DeviceTyped
  <2>1. prepared \in Policy \cup {NoPolicy}
    BY DEF Init, Policy
  <2>2. app \in AppState
    BY EmptySeq DEF Init, AppState, Untouched
  <2>. QED  BY <2>1, <2>2 DEF Init, DeviceTyped
<1>6. ReportTyped
  BY DEF Init, ReportTyped
<1>. QED  BY <1>2, <1>3, <1>4, <1>5, <1>6 DEF FileTypeOK

\* The agenda of a scope's setup, and of an attempt.
LEMMA EnterAgenda ==
    ASSUME FileTypeOK, NEW s \in Scopes, Enter(s)
    PROVE  agenda' \in Seq(ItemsOf(Above(s)))
<1>1. file \in Shapes
  BY DEF FileTypeOK, PlaceTyped
<1>2. s \in Above(s)
  BY <1>1, WithinSelf DEF Above
<1>3. FreshStart(Enclosing(s)) \in Seq(ItemsOf(Above(s)))
  BY <1>1, PathAbove, FreshStartTyped
<1>4. Item("reset", s) \in ItemsOf(Above(s))
  BY <1>2 DEF ItemsOf
<1>5. s \in file.before => Item("beforeAll", s) \in ItemsOf(Above(s))
  BY <1>2 DEF ItemsOf
<1>6. PICK one, two, three \in Seq(ItemsOf(Above(s))) : agenda' = <<>> \/ agenda' = (one \o two) \o three
  <2>1. <<>> \in Seq(ItemsOf(Above(s))) /\ <<Item("reset", s)>> \in Seq(ItemsOf(Above(s)))
    BY <1>4, EmptySeq
  <2>2. (IF s \in file.before THEN <<Item("beforeAll", s)>> ELSE <<>>) \in Seq(ItemsOf(Above(s)))
    BY <1>5, <2>1
  <2>. DEFINE holds == IF FreshStartAtEntry(s) \/ applied = NoPolicy THEN ParentPolicy(s) ELSE applied
  <2>3. agenda' = IF ~HasRunnable(s) THEN <<>>
                  ELSE ((IF FreshStartAtEntry(s) THEN FreshStart(Enclosing(s)) ELSE <<>>)
                          \o (IF NeedsScopeReset(s, holds) THEN <<Item("reset", s)>> ELSE <<>>))
                          \o (IF s \in file.before THEN <<Item("beforeAll", s)>> ELSE <<>>)
    BY DEF Enter
  <2>. HIDE DEF holds
  <2>. QED  BY <1>3, <2>1, <2>2, <2>3
<1>7. one \o two \in Seq(ItemsOf(Above(s)))
  BY ConcatProperties
<1>8. (one \o two) \o three \in Seq(ItemsOf(Above(s)))
  BY <1>7, ConcatProperties
<1>. QED  BY <1>6, <1>8, EmptySeq

LEMMA BeginAgenda ==
    ASSUME FileTypeOK, cur \in Scopes, NEW t, NEW k, Begin(t, k)
    PROVE  agenda' \in Seq(ItemsOf(Above(cur)))
<1>1. file \in Shapes
  BY DEF FileTypeOK, PlaceTyped
<1>2. cur \in Above(cur)
  BY <1>1, WithinSelf DEF Above
<1>3. FreshStart(Path(cur)) \in Seq(ItemsOf(Above(cur)))
  BY <1>1, PathAbove, FreshStartTyped
<1>4. Item("reset", cur) \in ItemsOf(Above(cur))
  BY <1>2 DEF ItemsOf
<1>5. PICK one, two \in Seq(ItemsOf(Above(cur))) : agenda' = one \o two
  <2>1. <<>> \in Seq(ItemsOf(Above(cur))) /\ <<Item("reset", cur)>> \in Seq(ItemsOf(Above(cur)))
    BY <1>4, EmptySeq
  <2>. QED  BY <1>3, <2>1 DEF Begin
<1>. QED  BY <1>5, ConcatProperties

LEMMA AboveTyped ==
    ASSUME NEW s, NEW q \in Seq(ItemsOf(Above(s)))
    PROVE  q \in Seq(ItemsOf(Scopes))
<1>1. Above(s) \subseteq Scopes
  BY DEF Above
<1>. QED  BY <1>1, ItemsInclude, SeqMonotonic

\* What stays of the types when the variables behind them do.
LEMMA SamePlace ==
    PlaceTyped /\ UNCHANGED <<file, cur, phase, at, skipping, serialFailed, stopped, thrown>> => PlaceTyped'
BY SameFile DEF PlaceTyped

LEMMA SameAttempt == AttemptTyped /\ file' = file /\ UNCHANGED testVars => AttemptTyped'
BY SameFile DEF AttemptTyped, testVars

LEMMA SameItems ==
    ASSUME file' = file, NEW S
    PROVE  ItemsOf(S)' = ItemsOf(S)
BY DEF ItemsOf, Item

LEMMA SameAgenda == AgendaTyped /\ file' = file /\ UNCHANGED agenda => AgendaTyped'
<1>. SUFFICES ASSUME AgendaTyped, file' = file, UNCHANGED agenda PROVE AgendaTyped'
  OBVIOUS
<1>1. Scopes' = Scopes /\ ItemsOf(Scopes)' = ItemsOf(Scopes)
  BY SameFile, SameItems DEF ItemsOf, Item
<1>. QED  BY <1>1 DEF AgendaTyped

LEMMA NewAgenda ==
    ASSUME file' = file, agenda' \in Seq(ItemsOf(Scopes))
    PROVE  AgendaTyped'
<1>1. ItemsOf(Scopes)' = ItemsOf(Scopes)
  BY SameFile DEF ItemsOf, Item
<1>. QED  BY <1>1 DEF AgendaTyped

LEMMA SameReports == ReportTyped /\ file' = file /\ UNCHANGED resultVars => ReportTyped'
BY SameFile DEF ReportTyped, resultVars

LEMMA SameDevice ==
    DeviceTyped /\ file' = file /\ UNCHANGED <<retryVars, deviceVars>> => DeviceTyped'
<1>. SUFFICES ASSUME DeviceTyped, file' = file, UNCHANGED <<retryVars, deviceVars>> PROVE DeviceTyped'
  OBVIOUS
<1>1. Scopes' = Scopes
  BY SameFile
<1>2. AppState' = AppState
  BY <1>1 DEF AppState
<1>. QED  BY <1>1, <1>2 DEF DeviceTyped, retryVars, deviceVars

\* The next item of an agenda.
LEMMA NextItemIs ==
    ASSUME FileTypeOK, agenda # <<>>
    PROVE  /\ NextItem \in ItemsOf(Scopes) /\ Tail(agenda) \in Seq(ItemsOf(Scopes))
           /\ NextItem.op \in {"reset", "freshReset", "afterAll", "beforeAll", "rebuilt"}
           /\ NextItem.op # "rebuilt" => NextItem.of \in Scopes /\ PolicyOf(NextItem.of) \in Policy
<1>1. NextItem \in ItemsOf(Scopes) /\ Tail(agenda) \in Seq(ItemsOf(Scopes))
  BY HeadTailProperties DEF NextItem, FileTypeOK, AgendaTyped
<1>2. /\ NextItem.op \in {"reset", "freshReset", "afterAll", "beforeAll", "rebuilt"}
      /\ NextItem.op # "rebuilt" => NextItem.of \in Scopes
  BY <1>1 DEF ItemsOf, Item
<1>. QED  BY <1>1, <1>2, Tree DEF FileTypeOK, PlaceTyped

LEMMA AppMarked ==
    ASSUME NEW a \in AppState, NEW b \in BOOLEAN
    PROVE  /\ [a EXCEPT !.soiled = TRUE, !.waived = b] \in AppState /\ [a EXCEPT !.waived = b] \in AppState
           /\ [a EXCEPT !.torn = TRUE, !.waived = b] \in AppState
BY DEF AppState

LEMMA AttemptEndedTyped ==
    ASSUME DeviceTyped, NEW end, NEW inPlace \in BOOLEAN, AttemptEnded(end, inPlace)
    PROVE  app' \in AppState
<1>1. app \in AppState /\ app.soiled \in BOOLEAN /\ app.torn \in BOOLEAN /\ app.waived \in BOOLEAN
  BY DEF DeviceTyped, AppState
<1>. DEFINE b == inPlace /\ (app.waived \/ ~(app.soiled \/ app.torn))
<1>2. b \in BOOLEAN
  BY <1>1
<1>3. app' = app \/ app' = [app EXCEPT !.soiled = TRUE, !.waived = b]
  BY DEF AttemptEnded
<1>. HIDE DEF b
<1>. QED  BY <1>1, <1>2, <1>3, AppMarked

LEMMA AppCarries ==
    ASSUME NEW a \in AppState, NEW l \in Seq(Scopes)
    PROVE  /\ [a EXCEPT !.live = l] \in AppState
           /\ [a EXCEPT !.live = l, !.lost = TRUE] \in AppState
BY DEF AppState

LEMMA UntouchedTyped == Untouched \in AppState
BY EmptySeq DEF AppState, Untouched

LEMMA BeginTyped ==
    ASSUME NEW t, NEW k, Begin(t, k)
    PROVE  rebuilt' \in BOOLEAN /\ setupBroken' \in BOOLEAN /\ freshStart' \in BOOLEAN
<1>. DEFINE runs == ReplaysOnRetry(cur) /\ (k > 0 \/ setupBroken \/ freshStart)
<1>1. rebuilt' = runs /\ setupBroken' = (setupBroken \/ runs) /\ freshStart' = (freshStart /\ ~runs)
  BY DEF Begin
<1>2. runs \in BOOLEAN
  OBVIOUS
<1>. HIDE DEF runs
<1>. QED  BY <1>1, <1>2

LEMMA ReportTypedParts ==
    ASSUME FileTypeOK
    PROVE  PlaceTyped /\ AttemptTyped /\ AgendaTyped /\ DeviceTyped /\ ReportTyped /\ file \in Shapes
BY DEF FileTypeOK, PlaceTyped

LEMMA ScopeStepsTyped ==
    ASSUME FileTypeOK, NEW s \in Scopes,
           Enter(s) \/ SetUp(s) \/ StartTest(s) \/ PassOver(s) \/ TestsDone(s)
              \/ Descend(s) \/ SkipSuite(s) \/ Close(s)
    PROVE  FileTypeOK'
<1>0. PlaceTyped /\ AttemptTyped /\ AgendaTyped /\ DeviceTyped /\ ReportTyped /\ file \in Shapes
  BY ReportTypedParts
<1>1. CASE Enter(s)
  <2>1. PlaceTyped'
    <3>1. Scopes' = Scopes
      BY <1>1, SameFile DEF Enter
    <3>. QED  BY <1>0, <1>1, <3>1 DEF Enter, PlaceTyped, Phases
  <2>2. AttemptTyped' /\ ReportTyped'
    BY <1>0, <1>1, SameAttempt, SameReports DEF Enter
  <2>3. AgendaTyped'
    BY <1>1, EnterAgenda, AboveTyped, NewAgenda DEF Enter
  <2>4. DeviceTyped'
    <3>1. Scopes' = Scopes /\ AppState' = AppState
      BY <1>1, SameFile DEF Enter, AppState
    <3>2. setupBroken' \in BOOLEAN /\ freshStart' \in BOOLEAN /\ UNCHANGED deviceVars
      BY <1>1 DEF Enter
    <3>. QED  BY <1>0, <3>1, <3>2 DEF DeviceTyped, deviceVars
  <2>. QED  BY <2>1, <2>2, <2>3, <2>4 DEF FileTypeOK
<1>2. CASE SetUp(s) \/ TestsDone(s) \/ Descend(s)
  <2>1. file' = file
    BY <1>2 DEF SetUp, TestsDone, Descend
  <2>2. PlaceTyped'
    <3>1. Scopes' = Scopes
      BY <2>1, SameFile
    <3>2. CASE SetUp(s)
      BY <1>0, <3>1, <3>2 DEF SetUp, PlaceTyped, Phases
    <3>3. CASE TestsDone(s)
      BY <1>0, <3>1, <3>3 DEF TestsDone, PlaceTyped, Phases
    <3>4. CASE Descend(s)
      <4>1. ThisSuite(s) \in Scopes
        <5>1. file.kids[s] \in Seq(Scopes)
          BY <1>0, Tree
        <5>2. at[s] \in 1..Len(file.kids[s])
          BY <1>0, <3>4, <5>1, LenProperties DEF Descend, SuiteLeft, PlaceTyped
        <5>. QED  BY <5>1, <5>2, ElementOfSeq DEF ThisSuite
      <4>. QED  BY <1>0, <3>1, <3>4, <4>1 DEF Descend, PlaceTyped
    <3>. QED  BY <1>2, <3>2, <3>3, <3>4
  <2>3. UNCHANGED <<testVars, agenda, resultVars, retryVars, deviceVars>>
    BY <1>2 DEF SetUp, TestsDone, Descend
  <2>. QED  BY <1>0, <2>1, <2>2, <2>3, SameAttempt, SameAgenda, SameReports, SameDevice DEF FileTypeOK
<1>3. CASE StartTest(s)
  <2>1. file' = file /\ cur = s
    BY <1>3 DEF StartTest, AtTest
  <2>2. PlaceTyped'
    BY <1>0, <1>3, SamePlace DEF StartTest
  <2>3. ThisTest(s) \in Tests
    <3>1. file.tests[s] \in Seq(Tests)
      BY <1>0, Tree
    <3>2. at[s] \in 1..Len(file.tests[s])
      BY <1>0, <1>3, <3>1, LenProperties DEF StartTest, TestLeft, PlaceTyped
    <3>. QED  BY <3>1, <3>2, ElementOfSeq DEF ThisTest
  <2>4. AttemptTyped'
    <3>1. Tests' = Tests
      BY <2>1, SameFile
    <3>2. rebuilt' \in BOOLEAN
      BY <1>3, BeginTyped DEF StartTest
    <3>. QED  BY <1>3, <2>3, <3>1, <3>2 DEF StartTest, Begin, AttemptTyped
  <2>5. AgendaTyped'
    BY <1>3, <2>1, BeginAgenda, AboveTyped, NewAgenda DEF StartTest
  <2>6. DeviceTyped'
    <3>1. Scopes' = Scopes /\ AppState' = AppState
      BY <2>1, SameFile DEF AppState
    <3>2. setupBroken' \in BOOLEAN /\ freshStart' \in BOOLEAN /\ UNCHANGED deviceVars
      BY <1>3, BeginTyped DEF StartTest
    <3>. QED  BY <1>0, <3>1, <3>2 DEF DeviceTyped, deviceVars
  <2>7. ReportTyped'
    BY <1>0, <1>3, <2>1, SameReports DEF StartTest
  <2>. QED  BY <2>2, <2>4, <2>5, <2>6, <2>7 DEF FileTypeOK
<1>4. CASE PassOver(s) \/ SkipSuite(s)
  <2>1. file' = file
    BY <1>4 DEF PassOver, SkipSuite
  <2>2. PlaceTyped'
    <3>1. Scopes' = Scopes
      BY <2>1, SameFile
    <3>2. at' = [at EXCEPT ![s] = @ + 1]
      BY <1>4 DEF PassOver, SkipSuite
    <3>3. at' \in [Scopes -> Nat \ {0}]
      BY <1>0, <3>2 DEF PlaceTyped
    <3>4. UNCHANGED <<file, cur, phase, skipping, serialFailed, stopped, thrown>>
      BY <1>4 DEF PassOver, SkipSuite
    <3>. QED  BY <1>0, <3>1, <3>3, <3>4 DEF PlaceTyped
  <2>3. ReportTyped'
    <3>1. \E ts : Report(ts, "skipped")
      BY <1>4 DEF PassOver, SkipSuite
    <3>. QED  BY <1>0, <2>1, <3>1, ReportKeepsTypes
  <2>4. UNCHANGED <<testVars, agenda, retryVars, deviceVars>>
    BY <1>4 DEF PassOver, SkipSuite
  <2>. QED  BY <1>0, <2>1, <2>2, <2>3, <2>4, SameAttempt, SameAgenda, SameDevice DEF FileTypeOK
<1>5. CASE Close(s)
  <2>1. file' = file /\ Scopes' = Scopes
    BY <1>5, SameFile DEF Close
  <2>2. PlaceTyped'
    <3>1. /\ cur' \in Scopes \cup {NoScope} /\ phase' \in [Scopes -> Phases] /\ at' \in [Scopes -> Nat \ {0}]
          /\ serialFailed' \in SUBSET Scopes
      BY <1>5, <2>1, LeaveTyped DEF Close
    <3>. QED  BY <1>0, <1>5, <2>1, <3>1 DEF Close, PlaceTyped
  <2>3. DeviceTyped'
    <3>1. AppState' = AppState
      BY <2>1 DEF AppState
    <3>2. app' \in AppState /\ up' \in SUBSET Scopes
      <4>1. CASE ~Closes(s)
        BY <1>0, <1>5, <4>1 DEF Close, DeviceTyped
      <4>2. CASE Closes(s)
        <5>1. Those(app.live, Scopes \ {s}) \in Seq(Scopes)
          <6>1. app.live \in Seq(Scopes)
            BY <1>0 DEF DeviceTyped, AppState
          <6>2. Scopes \cap (Scopes \ {s}) \subseteq Scopes
            OBVIOUS
          <6>. QED  BY <6>1, <6>2, ThoseTyped, SeqMonotonic
        <5>2. app' = [app EXCEPT !.live = Those(app.live, Scopes \ {s})] /\ up' = up \ {s}
          BY <1>5, <4>2 DEF Close, RanAfterAll
        <5>. QED  BY <1>0, <5>1, <5>2, AppCarries DEF DeviceTyped
      <4>. QED  BY <4>1, <4>2
    <3>3. UNCHANGED <<retryVars, applied, prepared>>
      BY <1>5 DEF Close
    <3>. QED  BY <1>0, <2>1, <3>1, <3>2, <3>3 DEF DeviceTyped, retryVars
  <2>4. UNCHANGED <<testVars, agenda, resultVars>>
    BY <1>5 DEF Close
  <2>. QED  BY <1>0, <2>1, <2>2, <2>3, <2>4, SameAttempt, SameAgenda, SameReports DEF FileTypeOK
<1>. QED  BY <1>1, <1>2, <1>3, <1>4, <1>5

\* What is run is the scope's setup or the test it is at.
RunInv ==
    /\ cur = NoScope => test = NoTest /\ agenda = <<>>
    /\ test # NoTest => /\ phase[cur] = "tests" /\ at[cur] \in DOMAIN file.tests[cur]
                        /\ test = ThisTest(cur) /\ test \notin file.out
    /\ test = NoTest /\ agenda # <<>> => phase[cur] = "setup"

LEMMA AgendaStepsTyped ==
    ASSUME FileTypeOK, Reset \/ BeforeAll \/ AfterAll \/ Rebuilt
    PROVE  FileTypeOK'
<1>0. PlaceTyped /\ AttemptTyped /\ AgendaTyped /\ DeviceTyped /\ ReportTyped /\ file \in Shapes
  BY ReportTypedParts
<1>1. /\ agenda # <<>> /\ agenda' = Tail(agenda)
      /\ UNCHANGED <<file, cur, phase, at, skipping, serialFailed, stopped, thrown, testVars, resultVars>>
  BY DEF Reset, BeforeAll, AfterAll, Rebuilt, Doing, Succeed
<1>2. PlaceTyped' /\ AttemptTyped' /\ ReportTyped'
  BY <1>0, <1>1, SamePlace, SameAttempt, SameReports
<1>3. AgendaTyped'
  BY <1>1, NextItemIs, NewAgenda
<1>4. DeviceTyped'
  <2>1. Scopes' = Scopes /\ AppState' = AppState
    BY <1>1, SameFile DEF AppState
  <2>2. CASE Reset
    <3>1. NextItem.of \in Scopes /\ PolicyOf(NextItem.of) \in Policy
      BY <1>1, <2>2, NextItemIs DEF Reset, Doing
    <3>2. app' \in AppState
      <4>1. app.soiled \in BOOLEAN /\ app.torn \in BOOLEAN /\ app.waived \in BOOLEAN /\ app \in AppState
        BY <1>0 DEF DeviceTyped, AppState
      <4>. DEFINE b == app.waived \/ app.soiled \/ app.torn
      <4>2. b \in BOOLEAN
        BY <4>1
      <4>3. app' = app \/ app' = [app EXCEPT !.waived = b] \/ app' = Untouched
        BY <2>2 DEF Reset
      <4>. HIDE DEF b
      <4>. QED  BY <4>1, <4>2, <4>3, UntouchedTyped, AppMarked
    <3>3. applied' \in Policy /\ prepared' \in Policy \cup {NoPolicy} /\ UNCHANGED <<retryVars, up>>
      BY <1>0, <2>2, <3>1 DEF Reset, DeviceTyped
    <3>. QED  BY <1>0, <2>1, <3>2, <3>3 DEF DeviceTyped, retryVars
  <2>3. CASE BeforeAll
    <3>1. NextItem.of \in Scopes
      BY <1>1, <2>3, NextItemIs DEF BeforeAll, Doing
    <3>2. app' \in AppState
      <4>1. app.live \in Seq(Scopes)
        BY <1>0 DEF DeviceTyped, AppState
      <4>2. Append(app.live, NextItem.of) \in Seq(Scopes)
        BY <3>1, <4>1, AppendProperties
      <4>3. app' = [app EXCEPT !.live = Append(app.live, NextItem.of)]
        BY <2>3 DEF BeforeAll
      <4>. QED  BY <1>0, <4>2, <4>3, AppCarries DEF DeviceTyped
    <3>3. prepared' = NoPolicy /\ up' \in SUBSET Scopes /\ UNCHANGED <<retryVars, applied>>
      BY <1>0, <2>3, <3>1 DEF BeforeAll, HookCompleted, DeviceTyped
    <3>. QED  BY <1>0, <2>1, <3>2, <3>3 DEF DeviceTyped, retryVars
  <2>4. CASE AfterAll
    <3>2. app' \in AppState
      <4>1. app.live \in Seq(Scopes)
        BY <1>0 DEF DeviceTyped, AppState
      <4>2. Those(app.live, Scopes \ {NextItem.of}) \in Seq(Scopes)
        <5>1. Scopes \cap (Scopes \ {NextItem.of}) \subseteq Scopes
          OBVIOUS
        <5>. QED  BY <4>1, <5>1, ThoseTyped, SeqMonotonic
      <4>3. app' = [app EXCEPT !.live = Those(app.live, Scopes \ {NextItem.of})]
        BY <2>4 DEF AfterAll, RanAfterAll
      <4>. QED  BY <1>0, <4>2, <4>3, AppCarries DEF DeviceTyped
    <3>3. up' \in SUBSET Scopes /\ UNCHANGED <<retryVars, applied, prepared>>
      BY <1>0, <2>4 DEF AfterAll, RanAfterAll, DeviceTyped
    <3>. QED  BY <1>0, <2>1, <3>2, <3>3 DEF DeviceTyped, retryVars
  <2>5. CASE Rebuilt
    BY <1>0, <2>1, <2>5 DEF Rebuilt, DeviceTyped, deviceVars
  <2>. QED  BY <2>2, <2>3, <2>4, <2>5
<1>. QED  BY <1>2, <1>3, <1>4 DEF FileTypeOK

LEMMA HookTyped ==
    ASSUME FileTypeOK, BeforeAllHook
    PROVE  FileTypeOK'
<1>0. PlaceTyped /\ AttemptTyped /\ AgendaTyped /\ DeviceTyped /\ ReportTyped
  BY ReportTypedParts
<1>1. /\ agenda # <<>> /\ agenda' = agenda
      /\ UNCHANGED <<file, cur, phase, at, skipping, serialFailed, stopped, thrown, testVars, resultVars>>
  BY DEF BeforeAllHook, Doing
<1>2. PlaceTyped' /\ AttemptTyped' /\ AgendaTyped' /\ ReportTyped'
  BY <1>0, <1>1, SamePlace, SameAttempt, SameAgenda, SameReports
<1>3. NextItem.of \in Scopes
  BY <1>1, NextItemIs DEF BeforeAllHook, Doing
<1>4. Scopes' = Scopes /\ AppState' = AppState
  BY <1>1, SameFile DEF AppState
<1>5. /\ prepared' = NoPolicy /\ up' \in SUBSET Scopes /\ retryVars' = retryVars
      /\ applied' = applied /\ app' = app
  BY <1>0, <1>3 DEF BeforeAllHook, HookCompleted, DeviceTyped
<1>6. DeviceTyped'
  BY <1>0, <1>4, <1>5 DEF DeviceTyped, retryVars
<1>. QED  BY <1>2, <1>6 DEF FileTypeOK

\* What an item that fails leaves.
LEMMA BrokeTyped ==
    ASSUME FileTypeOK, Broke
    PROVE  app' \in AppState /\ prepared' \in Policy \cup {NoPolicy}
<1>1. app \in AppState /\ prepared \in Policy \cup {NoPolicy}
  BY DEF FileTypeOK, DeviceTyped
<1>2. app' \in {app, [app EXCEPT !.soiled = TRUE, !.waived = FALSE], [app EXCEPT !.torn = TRUE, !.waived = FALSE]}
      /\ prepared' \in {prepared, NoPolicy}
  BY DEF Broke
<1>. QED  BY <1>1, <1>2, AppMarked

LEMMA FailuresTyped ==
    ASSUME FileTypeOK, RunInv, SetupFails \/ EntryThrows \/ SetupSkips \/ SetupStopped \/ AttemptSetupFails
    PROVE  FileTypeOK'
<1>0. PlaceTyped /\ AttemptTyped /\ AgendaTyped /\ DeviceTyped /\ ReportTyped /\ file \in Shapes
  BY ReportTypedParts
<1>1. file' = file /\ agenda' = <<>>
  BY DEF SetupFails, EntryThrows, SetupSkips, SetupStopped, AttemptSetupFails
<1>2. Scopes' = Scopes /\ Tests' = Tests /\ AppState' = AppState
  BY <1>1, SameFile DEF AppState
<1>3. AgendaTyped'
  BY <1>1, EmptySeq, NewAgenda
<1>4. CASE SetupFails
  <2>1. cur \in Scopes
    BY <1>0, <1>4 DEF SetupFails, Fallible, Doing, PlaceTyped
  <2>2. PlaceTyped'
    <3>1. /\ cur' \in Scopes \cup {NoScope} /\ phase' \in [Scopes -> Phases] /\ at' \in [Scopes -> Nat \ {0}]
          /\ serialFailed' \in SUBSET Scopes
      BY <1>1, <1>4, <2>1, LeaveTyped DEF SetupFails
    <3>. QED  BY <1>0, <1>2, <1>4, <3>1 DEF SetupFails, PlaceTyped
  <2>3. AttemptTyped'
    BY <1>0, <1>1, <1>4, SameAttempt DEF SetupFails
  <2>4. ReportTyped'
    BY <1>0, <1>1, <1>4, ReportKeepsTypes DEF SetupFails
  <2>5. DeviceTyped'
    <3>1. app' \in AppState /\ prepared' \in Policy \cup {NoPolicy}
      BY <1>4, BrokeTyped DEF SetupFails
    <3>2. freshStart' \in BOOLEAN /\ UNCHANGED <<setupBroken, applied, up>>
      BY <1>4 DEF SetupFails
    <3>. QED  BY <1>0, <1>2, <3>1, <3>2 DEF DeviceTyped
  <2>. QED  BY <1>3, <2>2, <2>3, <2>4, <2>5 DEF FileTypeOK
<1>5. CASE EntryThrows
  <2>1. PlaceTyped'
    BY <1>0, <1>2, <1>5 DEF EntryThrows, PlaceTyped
  <2>2. AttemptTyped' /\ ReportTyped'
    BY <1>0, <1>1, <1>5, SameAttempt, SameReports DEF EntryThrows
  <2>3. DeviceTyped'
    <3>1. app' \in AppState /\ prepared' \in Policy \cup {NoPolicy}
      BY <1>5, BrokeTyped DEF EntryThrows
    <3>2. UNCHANGED <<retryVars, applied, up>>
      BY <1>5 DEF EntryThrows
    <3>. QED  BY <1>0, <1>2, <3>1, <3>2 DEF DeviceTyped, retryVars
  <2>. QED  BY <1>3, <2>1, <2>2, <2>3 DEF FileTypeOK
<1>6. CASE SetupSkips
  <2>1. cur \in Scopes
    BY <1>0, <1>6 DEF SetupSkips, Doing, PlaceTyped
  <2>2. PlaceTyped'
    BY <1>0, <1>2, <1>6, <2>1 DEF SetupSkips, PlaceTyped
  <2>3. AttemptTyped' /\ ReportTyped'
    BY <1>0, <1>1, <1>6, SameAttempt, SameReports DEF SetupSkips
  <2>4. DeviceTyped'
    BY <1>0, <1>2, <1>6 DEF SetupSkips, DeviceTyped, retryVars
  <2>. QED  BY <1>3, <2>2, <2>3, <2>4 DEF FileTypeOK
<1>7. CASE SetupStopped
  <2>1. PlaceTyped'
    <3>1. cur \in Scopes
      BY <1>0, <1>7 DEF SetupStopped, InSetup, RunInv, PlaceTyped
    <3>2. /\ cur' \in Scopes \cup {NoScope} /\ phase' \in [Scopes -> Phases] /\ at' \in [Scopes -> Nat \ {0}]
          /\ serialFailed' \in SUBSET Scopes
      BY <1>1, <1>7, <3>1, LeaveTyped DEF SetupStopped
    <3>. QED  BY <1>0, <1>2, <1>7, <3>2 DEF SetupStopped, PlaceTyped
  <2>2. AttemptTyped' /\ ReportTyped' /\ DeviceTyped'
    BY <1>0, <1>1, <1>7, SameAttempt, SameReports, SameDevice DEF SetupStopped
  <2>. QED  BY <1>3, <2>1, <2>2 DEF FileTypeOK
<1>8. CASE AttemptSetupFails
  <2>1. PlaceTyped' /\ ReportTyped'
    BY <1>0, <1>8, <1>1, SamePlace, SameReports DEF AttemptSetupFails
  <2>2. AttemptTyped'
    BY <1>0, <1>2, <1>8 DEF AttemptSetupFails, AttemptTyped
  <2>3. DeviceTyped'
    <3>1. app' \in AppState /\ prepared' \in Policy \cup {NoPolicy}
      BY <1>0, <1>8, BrokeTyped DEF AttemptSetupFails, DeviceTyped
    <3>2. UNCHANGED <<retryVars, applied, up>>
      BY <1>8 DEF AttemptSetupFails
    <3>. QED  BY <1>0, <1>2, <3>1, <3>2 DEF DeviceTyped, retryVars
  <2>. QED  BY <1>3, <2>1, <2>2, <2>3 DEF FileTypeOK
<1>. QED  BY <1>4, <1>5, <1>6, <1>7, <1>8

LEMMA TestStepsTyped ==
    ASSUME FileTypeOK, RunInv, Body \/ Retry \/ EndTest \/ Stop \/ Over
    PROVE  FileTypeOK'
<1>0. PlaceTyped /\ AttemptTyped /\ AgendaTyped /\ DeviceTyped /\ ReportTyped /\ file \in Shapes
  BY ReportTypedParts
<1>1. file' = file
  BY DEF Body, Retry, EndTest, Stop, Over, vars
<1>2. Scopes' = Scopes /\ Tests' = Tests /\ AppState' = AppState
  BY <1>1, SameFile DEF AppState
<1>3. CASE Body
  <2>1. PlaceTyped' /\ AgendaTyped' /\ ReportTyped'
    BY <1>0, <1>1, <1>3, SamePlace, SameAgenda, SameReports DEF Body
  <2>2. AttemptTyped'
    BY <1>0, <1>2, <1>3 DEF Body, AttemptTyped
  <2>3. DeviceTyped'
    <3>1. Recovered \in AppState
      BY <1>0, AppCarries, EmptySeq DEF Recovered, DeviceTyped
    <3>2. app' \in AppState
      BY <1>0, <1>3, <3>1 DEF Body, DeviceTyped
    <3>. QED  BY <1>0, <1>2, <1>3, <3>2 DEF Body, DeviceTyped, retryVars
  <2>. QED  BY <2>1, <2>2, <2>3 DEF FileTypeOK
<1>4. CASE Retry
  <2>1. cur \in Scopes
    BY <1>0, <1>4 DEF Retry, InSetup, RunInv, PlaceTyped
  <2>2. PlaceTyped' /\ ReportTyped'
    BY <1>0, <1>1, <1>4, SamePlace, SameReports DEF Retry
  <2>3. AttemptTyped'
    <3>1. rebuilt' \in BOOLEAN
      BY <1>4, BeginTyped DEF Retry
    <3>2. attempt' \in Nat
      BY <1>0, <1>4 DEF Retry, Begin, AttemptTyped
    <3>3. test' = test /\ status' = "ready" /\ infra' = FALSE /\ failedBefore' = TRUE
      BY <1>4 DEF Retry, Begin
    <3>4. test' \in Tests' \cup {NoTest}
      BY <1>0, <1>2, <3>3 DEF AttemptTyped
    <3>. QED  BY <3>1, <3>2, <3>3, <3>4 DEF AttemptTyped
  <2>4. AgendaTyped'
    BY <1>1, <1>4, <2>1, BeginAgenda, AboveTyped, NewAgenda DEF Retry
  <2>5. DeviceTyped'
    <3>1. app' \in AppState
      <4>1. \E end \in Ends : AttemptEnded(end, Group(cur) # NoScope)
        BY <1>4 DEF Retry
      <4>. QED  BY <1>0, <4>1, AttemptEndedTyped
    <3>2. setupBroken' \in BOOLEAN /\ freshStart' \in BOOLEAN /\ UNCHANGED <<applied, prepared, up>>
      BY <1>4, BeginTyped DEF Retry
    <3>. QED  BY <1>0, <1>2, <3>1, <3>2 DEF DeviceTyped
  <2>. QED  BY <2>2, <2>3, <2>4, <2>5 DEF FileTypeOK
<1>5. CASE EndTest
  <2>1. cur \in Scopes
    BY <1>0, <1>5 DEF EndTest, InSetup, RunInv, PlaceTyped
  <2>2. PICK end \in Ends :
          /\ AttemptEnded(end, FALSE) /\ Report({test}, Final(end)) /\ FreshNeeded(Final(end))
          /\ serialFailed' = IF Final(end) = "failed" /\ Group(cur) # NoScope
                             THEN serialFailed \cup {Group(cur)} ELSE serialFailed
          /\ stopped' = IF Recovers(end) /\ stopped = "no" THEN "infra" ELSE stopped
    BY <1>5 DEF EndTest
  <2>3. /\ at' = [at EXCEPT ![cur] = @ + 1]
        /\ test' = NoTest /\ attempt' = 0 /\ status' = "ready" /\ infra' = FALSE
        /\ failedBefore' = FALSE /\ rebuilt' = FALSE
        /\ UNCHANGED <<cur, phase, agenda, skipping, setupBroken, applied, prepared, up, thrown>>
        /\ status # "ready"
    BY <1>5 DEF EndTest
  <2>4. PlaceTyped'
    <3>1. at' \in [Scopes -> Nat \ {0}]
      BY <1>0, <2>1, <2>3 DEF PlaceTyped
    <3>2. serialFailed' \in SUBSET Scopes
      BY <1>0, <2>1, <2>2, GroupHolds DEF PlaceTyped
    <3>. QED  BY <1>0, <1>1, <1>2, <2>2, <2>3, <3>1, <3>2 DEF PlaceTyped
  <2>5. AttemptTyped'
    BY <1>2, <2>3 DEF AttemptTyped
  <2>6. AgendaTyped'
    BY <1>0, <1>1, <2>3, SameAgenda
  <2>7. DeviceTyped'
    <3>1. app' \in AppState
      BY <1>0, <2>2, AttemptEndedTyped
    <3>2. freshStart' \in BOOLEAN
      BY <2>2 DEF FreshNeeded
    <3>. QED  BY <1>0, <1>2, <2>3, <3>1, <3>2 DEF DeviceTyped
  <2>8. ReportTyped'
    <3>1. Final(end) \in {"passed", "failed", "skipped"}
      BY <1>0, <2>3 DEF Final, Ends, AttemptTyped
    <3>. QED  BY <1>0, <1>1, <2>2, <3>1, ReportKeepsTypes
  <2>. QED  BY <2>4, <2>5, <2>6, <2>7, <2>8 DEF FileTypeOK
<1>6. CASE Stop \/ Over
  <2>1. /\ UNCHANGED <<file, cur, phase, at, agenda, testVars, skipping, serialFailed, retryVars, deviceVars,
                       resultVars, thrown>>
        /\ stopped' \in {stopped, "user"}
    BY <1>6 DEF Stop, Over, vars
  <2>2. PlaceTyped'
    BY <1>0, <1>2, <2>1 DEF PlaceTyped
  <2>. QED  BY <1>0, <2>1, <2>2, SameAttempt, SameAgenda, SameReports, SameDevice DEF FileTypeOK
<1>. QED  BY <1>3, <1>4, <1>5, <1>6

LEMMA NextTyped == FileTypeOK /\ RunInv /\ [Next]_vars => FileTypeOK'
<1>. SUFFICES ASSUME FileTypeOK, RunInv, [Next]_vars PROVE FileTypeOK'
  OBVIOUS
<1>1. CASE Next
  <2>1. \/ \E s \in Scopes : \/ Enter(s) \/ SetUp(s) \/ StartTest(s) \/ PassOver(s) \/ TestsDone(s)
                              \/ Descend(s) \/ SkipSuite(s) \/ Close(s)
        \/ Reset \/ BeforeAllHook \/ BeforeAll \/ AfterAll \/ Rebuilt
        \/ SetupFails \/ EntryThrows \/ SetupSkips \/ SetupStopped \/ AttemptSetupFails
        \/ Body \/ Retry \/ EndTest \/ Stop \/ Over
    BY <1>1 DEF Next
  <2>. QED  BY <2>1, ScopeStepsTyped, AgendaStepsTyped, HookTyped, FailuresTyped, TestStepsTyped
<1>2. CASE UNCHANGED vars
  <2>1. UNCHANGED <<file, cur, phase, at, agenda, testVars, skipping, serialFailed, retryVars, deviceVars,
                    resultVars, stopped, thrown>>
    BY <1>2 DEF vars
  <2>. QED  BY <2>1, ReportTypedParts, SamePlace, SameAttempt, SameAgenda, SameReports, SameDevice DEF FileTypeOK
<1>. QED  BY <1>1, <1>2

-----------------------------------------------------------------------------
(* What is run belongs to the scope at hand.                               *)

LEMMA InitRuns == Init => RunInv
<1>. SUFFICES ASSUME Init PROVE RunInv
  OBVIOUS
<1>. QED  BY Tree DEF Init, RunInv

\* RunInv of a state is about file, cur, phase, at, test and agenda.
LEMMA NoTestRuns ==
    ASSUME test' = NoTest, agenda' = <<>>
    PROVE  RunInv'
BY DEF RunInv

LEMMA SameRun ==
    ASSUME RunInv, UNCHANGED <<file, cur, phase, at, test, agenda>>
    PROVE  RunInv'
<1>1. cur # NoScope => ThisTest(cur)' = ThisTest(cur)
  BY DEF ThisTest
<1>. QED  BY <1>1 DEF RunInv, ThisTest

LEMMA LessToDo ==
    ASSUME FileTypeOK, RunInv, UNCHANGED <<file, cur, phase, at, test>>, agenda # <<>>
    PROVE  RunInv'
BY DEF RunInv, ThisTest

LEMMA NextRuns == FileTypeOK /\ RunInv /\ [Next]_vars => RunInv'
<1>. SUFFICES ASSUME FileTypeOK, RunInv, [Next]_vars PROVE RunInv'
  OBVIOUS
<1>0. PlaceTyped /\ AttemptTyped /\ file \in Shapes /\ NoTest \notin Tests /\ NoScope \notin Scopes
  BY ReportTypedParts, Tree
<1>1. ASSUME NEW s \in Scopes, Enter(s)  PROVE RunInv'
  <2>1. test = NoTest
    BY <1>1 DEF Enter, RunInv
  <2>2. cur' = s /\ phase'[s] = "setup" /\ test' = test
    BY <1>0, <1>1 DEF Enter, testVars, PlaceTyped
  <2>. QED  BY <1>0, <2>1, <2>2 DEF RunInv
<1>2. ASSUME NEW s \in Scopes, SetUp(s) \/ TestsDone(s) \/ PassOver(s)  PROVE RunInv'
  <2>1. test = NoTest
    BY <1>2 DEF SetUp, TestsDone, PassOver, AtTest, RunInv
  <2>2. agenda = <<>>
    BY <1>2, <2>1 DEF SetUp, TestsDone, PassOver, AtTest, RunInv
  <2>3. test' = NoTest /\ agenda' = <<>>
    BY <1>2, <2>1, <2>2 DEF SetUp, TestsDone, PassOver, testVars
  <2>. QED  BY <2>3, NoTestRuns
<1>3. ASSUME NEW s \in Scopes, StartTest(s)  PROVE RunInv'
  <2>1. cur = s /\ phase[s] = "tests" /\ at[s] <= Len(file.tests[s]) /\ ThisTest(s) \notin file.out
        /\ UNCHANGED <<file, cur, phase, at>> /\ test' = ThisTest(s)
    BY <1>3 DEF StartTest, AtTest, TestLeft, Begin
  <2>2. at[s] \in DOMAIN file.tests[s]
    <3>1. file.tests[s] \in Seq(Tests)
      BY <1>0, Tree
    <3>2. DOMAIN file.tests[s] = 1..Len(file.tests[s]) /\ Len(file.tests[s]) \in Nat
      BY <3>1, LenProperties
    <3>. QED  BY <1>0, <2>1, <3>2 DEF PlaceTyped
  <2>3. ThisTest(s) \in Tests
    BY <1>0, <2>2, Tree, LenProperties, ElementOfSeq DEF ThisTest
  <2>. QED  BY <1>0, <2>1, <2>2, <2>3 DEF RunInv, ThisTest
<1>4. ASSUME NEW s \in Scopes, Descend(s) \/ SkipSuite(s) \/ Close(s)  PROVE RunInv'
  <2>1. phase[cur] = "suites" /\ UNCHANGED <<testVars, agenda>>
    BY <1>4 DEF Descend, SkipSuite, Close, AtSuite
  <2>2. test = NoTest /\ agenda = <<>>
    BY <2>1 DEF RunInv
  <2>. QED  BY <2>1, <2>2, NoTestRuns DEF testVars
<1>5. CASE Reset \/ BeforeAll \/ AfterAll \/ Rebuilt
  <2>1. UNCHANGED <<file, cur, phase, at, test>> /\ agenda # <<>>
    BY <1>5 DEF Reset, BeforeAll, AfterAll, Rebuilt, Doing, testVars
  <2>. QED  BY <2>1, LessToDo
<1>6. CASE SetupFails \/ EntryThrows \/ SetupSkips \/ SetupStopped
  <2>1. test' = NoTest /\ agenda' = <<>>
    BY <1>6 DEF SetupFails, EntryThrows, SetupSkips, SetupStopped, InSetup, testVars
  <2>. QED  BY <2>1, NoTestRuns
<1>7. CASE AttemptSetupFails
  <2>1. UNCHANGED <<file, cur, phase, at, test>> /\ agenda # <<>>
    BY <1>7 DEF AttemptSetupFails
  <2>. QED  BY <2>1, LessToDo
<1>8. CASE BeforeAllHook \/ Body \/ Stop \/ Over \/ UNCHANGED vars
  <2>1. UNCHANGED <<file, cur, phase, at, test, agenda>>
    BY <1>8 DEF BeforeAllHook, Body, Stop, Over, vars, testVars
  <2>. QED  BY <2>1, SameRun
<1>9. CASE Retry
  <2>1. UNCHANGED <<file, cur, phase, at, test>> /\ test # NoTest
    BY <1>9 DEF Retry, Begin, InSetup
  <2>. QED  BY <2>1 DEF RunInv, ThisTest
<1>10. CASE EndTest
  <2>1. test' = NoTest /\ agenda' = <<>>
    BY <1>10 DEF EndTest
  <2>. QED  BY <2>1, NoTestRuns
<1>. QED  BY <1>1, <1>2, <1>3, <1>4, <1>5, <1>6, <1>7, <1>8, <1>9, <1>10 DEF Next

-----------------------------------------------------------------------------
(* Every test is reported once.                                            *)

NoneReported(c) == \A t \in Own(c) : reports[t] = 0
AllReported(c) == \A t \in Own(c) : t \notin file.out => reports[t] = 1

\* Nothing below s has begun, or all of it has been reported.
Fresh(s) == \A c \in Within(s) : phase[c] = "new" /\ at[c] = 1 /\ NoneReported(c)
Settled(s) == \A c \in Within(s) : AllReported(c)

TestsProgress(s) ==
    \A i \in DOMAIN file.tests[s] :
        /\ i >= at[s] => reports[file.tests[s][i]] = 0
        /\ i < at[s] /\ file.tests[s][i] \notin file.out => reports[file.tests[s][i]] = 1

SuitesProgress(s) ==
    \A i \in DOMAIN file.kids[s] :
        /\ i > at[s] \/ (i = at[s] /\ s = cur) => Fresh(file.kids[s][i])
        /\ i < at[s] /\ stopped = "no" => Settled(file.kids[s][i])

\* How far a scope that is open has come.
Progress(s) ==
    /\ phase[s] \notin {"over", "broken"}
    /\ phase[s] \in {"new", "setup"} => at[s] = 1 /\ NoneReported(s)
    /\ phase[s] # "suites" => \A k \in Kids(s) : Fresh(k)
    /\ phase[s] = "tests" => TestsProgress(s)
    /\ phase[s] = "suites" => SuitesProgress(s) /\ (stopped = "no" => AllReported(s))
    /\ s # cur => phase[s] = "suites" /\ at[s] \in DOMAIN file.kids[s] /\ cur \in Within(file.kids[s][at[s]])

OnceInv ==
    \A t \in Tests : /\ reports[t] \in {0, 1} /\ (t \in file.out => reports[t] = 0)
                     /\ reports[t] = 0 => results[t] = "none"

OpenInv == \A s \in Above(cur) : Progress(s)

OverInv == cur = NoScope /\ ~thrown /\ stopped = "no" => \A c \in Scopes : AllReported(c)

ReportInv == OnceInv /\ OpenInv /\ OverInv

\* A step that changes nothing outside a scope.
Local(top) ==
    \A c \in Scopes \ Within(top) :
        phase'[c] = phase[c] /\ at'[c] = at[c] /\ \A t \in Own(c) : reports'[t] = reports[t]

LEMMA KidAt ==
    ASSUME file \in Shapes, NEW s \in Scopes, NEW i \in DOMAIN file.kids[s]
    PROVE  file.kids[s][i] \in Kids(s) /\ file.kids[s][i] \in Scopes
<1>1. file.kids[s][i] \in Kids(s)
  BY DEF Kids
<1>. QED  BY <1>1, KidPath

LEMMA AncestorStays ==
    ASSUME file \in Shapes, file' = file, NEW s \in Scopes, s # cur, Progress(s),
           Local(file.kids[s][at[s]]), cur' \in Within(file.kids[s][at[s]]),
           stopped' = "no" => stopped = "no"
    PROVE  Progress(s)'
<1>. DEFINE k == file.kids[s][at[s]]
<1>0. /\ Scopes' = Scopes
      /\ \A c : Within(c)' = Within(c) /\ Own(c)' = Own(c) /\ Kids(c)' = Kids(c)
  BY SameFile
<1>1. phase[s] = "suites" /\ at[s] \in DOMAIN file.kids[s] /\ SuitesProgress(s)
      /\ (stopped = "no" => AllReported(s))
  BY DEF Progress
<1>2. k \in Kids(s) /\ k \in Scopes
  BY <1>1, KidAt
<1>3. s \notin Within(k) /\ s # cur'
  BY <1>2, KidWithin
<1>4. phase'[s] = "suites" /\ at'[s] = at[s] /\ \A t \in Own(s) : reports'[t] = reports[t]
  BY <1>1, <1>3 DEF Local
<1>5. ASSUME NEW i \in DOMAIN file.kids[s], i # at[s], NEW c \in Within(file.kids[s][i])
      PROVE  c \in Scopes \ Within(k)
  <2>1. file.kids[s][i] \in Kids(s)
    BY KidAt
  <2>2. file.kids[s][i] # k
    BY <1>1, <1>5, OnePlace
  <2>3. c \notin Within(k)
    BY <1>2, <2>1, <2>2, KidsApart
  <2>. QED  BY <2>3 DEF Within
<1>6. ASSUME NEW i \in DOMAIN file.kids[s], i # at[s]
      PROVE  /\ Fresh(file.kids[s][i]) => Fresh(file.kids[s][i])'
             /\ Settled(file.kids[s][i]) => Settled(file.kids[s][i])'
  <2>1. \A c \in Within(file.kids[s][i]) :
            phase'[c] = phase[c] /\ at'[c] = at[c] /\ \A t \in Own(c) : reports'[t] = reports[t]
    BY <1>5, <1>6 DEF Local
  <2>. QED  BY <1>0, <2>1 DEF Fresh, Settled, NoneReported, AllReported
<1>7. SuitesProgress(s)'
  <2>1. ASSUME NEW i \in DOMAIN file.kids[s]
        PROVE  /\ i > at[s] => Fresh(file.kids[s][i])'
               /\ i < at[s] /\ stopped' = "no" => Settled(file.kids[s][i])'
    <3>1. i > at[s] => i # at[s] /\ Fresh(file.kids[s][i])
      <4>1. at[s] \in Nat /\ i \in Nat
        <5>1. file.kids[s] \in Seq(Scopes)
          BY Tree
        <5>. QED  BY <1>1, <5>1, LenProperties
      <4>. QED  BY <1>1, <4>1 DEF SuitesProgress
    <3>2. i < at[s] /\ stopped' = "no" => i # at[s] /\ Settled(file.kids[s][i])
      <4>1. at[s] \in Nat /\ i \in Nat
        <5>1. file.kids[s] \in Seq(Scopes)
          BY Tree
        <5>. QED  BY <1>1, <5>1, LenProperties
      <4>. QED  BY <1>1, <4>1 DEF SuitesProgress
    <3>. QED  BY <1>6, <3>1, <3>2
  <2>. QED  BY <1>3, <1>4, <2>1 DEF SuitesProgress
<1>8. (stopped' = "no" => AllReported(s)')
  BY <1>0, <1>1, <1>4 DEF AllReported
<1>9. (phase[s] = "suites" /\ at[s] \in DOMAIN file.kids[s] /\ cur \in Within(file.kids[s][at[s]]))'
  BY <1>1, <1>4 DEF Within, Scopes, Path
<1>. QED  BY <1>7, <1>8, <1>9 DEF Progress

\* The scopes that are open with the one at hand stay as they are.
LEMMA OpenStays ==
    ASSUME file \in Shapes, file' = file, cur \in Scopes, cur' = cur, OpenInv, Local(cur),
           stopped' = "no" => stopped = "no", Progress(cur)'
    PROVE  OpenInv'
<1>0. Scopes' = Scopes /\ \A c : Within(c)' = Within(c)
  BY SameFile
<1>1. ASSUME NEW s \in Scopes, cur \in Within(s), s # cur  PROVE Progress(s)'
  <2>1. Progress(s)
    BY <1>1 DEF OpenInv, Above
  <2>2. at[s] \in DOMAIN file.kids[s] /\ cur \in Within(file.kids[s][at[s]])
    BY <1>1, <2>1 DEF Progress
  <2>3. file.kids[s][at[s]] \in Scopes
    BY <2>2, KidAt
  <2>4. Local(file.kids[s][at[s]])
    <3>1. \A c \in Within(cur) : c \in Within(file.kids[s][at[s]])
      BY <2>2, <2>3, WithinTrans
    <3>. QED  BY <3>1 DEF Local
  <2>. QED  BY <1>1, <2>1, <2>2, <2>4, AncestorStays
<1>2. \A s \in Scopes : cur' \in Within(s) => Progress(s)'
  <2>1. \A s : s = cur => Progress(s)'
    <3>1. ASSUME NEW s, s = cur PROVE Progress(s)'
      BY <3>1 DEF Progress, NoneReported, Kids, Fresh, TestsProgress, SuitesProgress, AllReported, Settled, Own, Within
    <3>. QED  BY <3>1
  <2>. QED  BY <1>1, <2>1
<1>. QED  BY <1>0, <1>2 DEF OpenInv, Above

LEMMA ReportedFirst ==
    ASSUME FileTypeOK, file' = file, OnceInv, NEW ts \in SUBSET Tests,
           \A t \in ts : reports[t] = 0 /\ t \notin file.out, NEW result, Report(ts, result)
    PROVE  OnceInv' /\ \A t \in Tests : reports'[t] = IF t \in ts THEN 1 ELSE reports[t]
<1>1. Tests' = Tests
  BY SameFile
<1>2. \A t \in Tests : /\ reports'[t] = IF t \in ts THEN reports[t] + 1 ELSE reports[t]
                       /\ results'[t] = IF t \in ts THEN result ELSE results[t]
  BY DEF Report
<1>3. \A t \in Tests : reports'[t] = IF t \in ts THEN 1 ELSE reports[t]
  BY <1>2
<1>. QED  BY <1>1, <1>2, <1>3 DEF OnceInv

LEMMA SameOnce ==
    OnceInv /\ UNCHANGED <<file, resultVars>> => OnceInv'
BY SameFile DEF OnceInv, resultVars

\* A parent that gets the turn back goes on to its next describe.
LEMMA Leaves ==
    ASSUME FileTypeOK, file' = file, NEW own \in Scopes, own = cur, OpenInv,
           NEW ended \in {"over", "broken"}, Leave(own, ended),
           UNCHANGED <<stopped, thrown>>,
           \A c \in Scopes \ Within(own) : \A t \in Own(c) : reports'[t] = reports[t],
           stopped = "no" => Settled(own)'
    PROVE  OpenInv' /\ OverInv'
<1>0. /\ file \in Shapes /\ phase \in [Scopes -> Phases] /\ at \in [Scopes -> Nat \ {0}] /\ NoScope \notin Scopes
      /\ Scopes' = Scopes
      /\ \A c : Within(c)' = Within(c) /\ Own(c)' = Own(c) /\ Kids(c)' = Kids(c)
  BY SameFile, ReportTypedParts, Tree DEF PlaceTyped
<1>1. /\ cur' = Parent(own)
      /\ \A c \in Scopes : c # own => phase'[c] = phase[c]
      /\ \A c \in Scopes : at'[c] = IF c = Parent(own) THEN at[c] + 1 ELSE at[c]
  BY <1>0 DEF Leave
<1>2. CASE IsRoot(own)
  <2>1. own = file.root /\ cur' = NoScope
    BY <1>0, <1>1, <1>2, RootOrKid
  <2>2. OpenInv'
    BY <1>0, <2>1 DEF OpenInv, Above, Within
  <2>3. OverInv'
    <3>1. \A c \in Scopes : c \in Within(own)
      BY <1>0, <2>1, RootHoldsAll
    <3>. QED  BY <1>0, <3>1 DEF OverInv, Settled
  <2>. QED  BY <2>2, <2>3
<1>3. CASE ~IsRoot(own)
  <2>1. PICK p \in Scopes : p = Parent(own) /\ own \in Kids(p)
    BY <1>0, <1>3, RootOrKid
  <2>2. own \in Within(own) /\ own \in Within(p) /\ p \notin Within(own) /\ p # own /\ p # cur
    BY <1>0, <2>1, WithinSelf, KidWithin
  <2>3. Progress(p)
    BY <2>1, <2>2 DEF OpenInv, Above
  <2>4. phase[p] = "suites" /\ at[p] \in DOMAIN file.kids[p] /\ own \in Within(file.kids[p][at[p]])
        /\ SuitesProgress(p) /\ (stopped = "no" => AllReported(p))
    BY <2>2, <2>3 DEF Progress
  <2>5. own = file.kids[p][at[p]]
    BY <1>0, <2>1, <2>2, <2>4, KidAt, KidsApart
  <2>6. phase'[p] = "suites" /\ at'[p] = at[p] + 1 /\ \A t \in Own(p) : reports'[t] = reports[t]
    BY <1>1, <2>1, <2>2, <2>4
  <2>7. ASSUME NEW i \in DOMAIN file.kids[p], i # at[p]
        PROVE  /\ Fresh(file.kids[p][i]) => Fresh(file.kids[p][i])'
               /\ Settled(file.kids[p][i]) => Settled(file.kids[p][i])'
    <3>0. file.kids[p][i] # own
      <4>1. \A a, b \in DOMAIN file.kids[p] : file.kids[p][a] = file.kids[p][b] => a = b
        BY <1>0, <2>1, OnePlace
      <4>. QED  BY <2>4, <2>5, <2>7, <4>1
    <3>1. file.kids[p][i] \in Kids(p) /\ file.kids[p][i] # own
      BY <1>0, <2>1, <3>0, KidAt
    <3>2. ASSUME NEW c \in Within(file.kids[p][i])
          PROVE  phase'[c] = phase[c] /\ at'[c] = at[c] /\ \A t \in Own(c) : reports'[t] = reports[t]
      <4>1. c \in Scopes /\ c # p
        BY <1>0, <2>1, <3>1, <3>2, KidWithin DEF Within
      <4>2. c \notin Within(own)
        BY <1>0, <2>1, <3>1, <3>2, KidsApart
      <4>3. c # own
        BY <2>2, <4>2
      <4>4. phase'[c] = phase[c] /\ at'[c] = at[c]
        BY <1>1, <2>1, <4>1, <4>3
      <4>. QED  BY <4>1, <4>2, <4>4
    <3>. QED  BY <1>0, <3>2 DEF Fresh, Settled, NoneReported, AllReported
  <2>8. DOMAIN file.kids[p] \subseteq Nat
    <3>1. file.kids[p] \in Seq(Scopes)
      BY <1>0, <2>1, Tree
    <3>. QED  BY <3>1, LenProperties
  <2>9. SuitesProgress(p)'
    <3>1. ASSUME NEW i \in DOMAIN file.kids[p]
          PROVE  /\ i >= at[p] + 1 => Fresh(file.kids[p][i])'
                 /\ i < at[p] + 1 /\ stopped' = "no" => Settled(file.kids[p][i])'
      <4>1. i >= at[p] + 1 => i # at[p] /\ Fresh(file.kids[p][i])
        BY <1>0, <2>4, <2>8 DEF SuitesProgress
      <4>2. i < at[p] + 1 /\ stopped' = "no" => i = at[p] \/ Settled(file.kids[p][i])
        BY <1>0, <2>1, <2>4, <2>8 DEF SuitesProgress
      <4>3. i = at[p] /\ stopped' = "no" => Settled(file.kids[p][i])'
        <5>1. i = at[p] => file.kids[p][i] = own
          BY <2>5
        <5>. QED  BY <5>1 DEF Settled, AllReported, Own, Within, Scopes, Path
      <4>. QED  BY <2>7, <4>1, <4>2, <4>3
    <3>2. \A i \in DOMAIN file.kids[p] : (i > at[p] + 1 \/ i = at[p] + 1) => i >= at[p] + 1
      BY <1>0, <2>1, <2>8
    <3>. QED  BY <2>6, <3>1, <3>2 DEF SuitesProgress
  <2>10. AllReported(p)' \/ stopped' # "no"
    BY <1>0, <2>4, <2>6 DEF AllReported
  <2>11. Progress(p)'
    <3>1. p = cur' /\ phase'[p] = "suites"
      BY <1>1, <2>1, <2>6
    <3>. QED  BY <2>9, <2>10, <3>1 DEF Progress
  <2>12. ASSUME NEW s \in Scopes, p \in Within(s), s # p  PROVE Progress(s)'
    <3>1. own \in Within(s)
      BY <1>0, <2>2, <2>12, <2>1, WithinTrans
    <3>2. s # own
      <4>1. Len(Path(s)) \in 1..Len(Path(p)) /\ Len(Path(p)) \in Nat
        BY <1>0, <2>12, <2>1, WithinIs, Tree, LenProperties
      <4>2. Len(Path(own)) = Len(Path(p)) + 1
        BY <1>0, <2>1, ParentOf
      <4>. QED  BY <4>1, <4>2
    <3>3. Progress(s)
      BY <3>1 DEF OpenInv, Above
    <3>. DEFINE k == file.kids[s][at[s]]
    <3>4. at[s] \in DOMAIN file.kids[s] /\ own \in Within(k)
      BY <3>2, <3>3 DEF Progress
    <3>5. k \in Kids(s) /\ k \in Scopes
      BY <1>0, <3>4, KidAt
    <3>6. k # own
      BY <1>0, <2>1, <2>12, <3>5, ParentOf
    <3>7. p \in Within(k)
      BY <1>0, <2>1, <3>4, <3>5, <3>6, AboveKid
    <3>8. Local(k)
      <4>1. ASSUME NEW c \in Scopes \ Within(k)  PROVE c # p /\ c # own /\ c \notin Within(own)
        <5>1. c \notin Within(own)
          BY <1>0, <3>4, <3>5, <4>1, WithinTrans
        <5>. QED  BY <2>2, <3>7, <4>1, <5>1
      <4>2. ASSUME NEW c \in Scopes \ Within(k)
            PROVE  phase'[c] = phase[c] /\ at'[c] = at[c] /\ \A t \in Own(c) : reports'[t] = reports[t]
        BY <1>1, <2>1, <4>1, <4>2
      <4>. QED  BY <4>2 DEF Local
    <3>9. cur' = p /\ s # cur
      BY <1>1, <2>1, <3>2
    <3>10. cur' \in Within(file.kids[s][at[s]])
      BY <3>7, <3>9
    <3>11. stopped' = "no" => stopped = "no"
      OBVIOUS
    <3>. HIDE DEF k
    <3>12. Local(file.kids[s][at[s]])
      BY <3>8 DEF k
    <3>. QED  BY <1>0, <3>3, <3>9, <3>10, <3>11, <3>12, AncestorStays
  <2>13. OpenInv'
    <3>1. ASSUME NEW s \in Scopes, cur' \in Within(s)  PROVE Progress(s)'
      <4>1. CASE s = p
        <5>. QED  BY <2>11, <4>1
      <4>2. CASE s # p
        <5>1. p \in Within(s)
          BY <1>1, <2>1, <3>1
        <5>. QED  BY <2>12, <3>1, <4>2, <5>1
      <4>. QED  BY <4>1, <4>2
    <3>. QED  BY <1>0, <3>1 DEF OpenInv, Above
  <2>. QED  BY <1>0, <1>1, <2>1, <2>13 DEF OverInv
<1>. QED  BY <1>2, <1>3

LEMMA OpenHere ==
    ASSUME file \in Shapes, file' = file, NEW s \in Scopes, cur = s, cur' = s, OpenInv, Local(s),
           stopped' = "no" => stopped = "no", Progress(s)'
    PROVE  OpenInv'
<1>1. cur \in Scopes /\ cur' = cur /\ Local(cur)
  BY DEF Local
<1>2. Progress(cur)'
  BY DEF Progress, NoneReported, Kids, Fresh, TestsProgress, SuitesProgress, AllReported, Settled, Own, Within
<1>. QED  BY <1>1, <1>2, OpenStays

LEMMA SameOpen ==
    ASSUME FileTypeOK, UNCHANGED <<file, cur, phase, at, reports>>, stopped' = "no" => stopped = "no", OpenInv
    PROVE  OpenInv'
<1>0. /\ file \in Shapes /\ Scopes' = Scopes
      /\ \A c : Within(c)' = Within(c) /\ Own(c)' = Own(c) /\ Kids(c)' = Kids(c)
  BY SameFile, ReportTypedParts
<1>1. ASSUME NEW s \in Scopes, cur \in Within(s)  PROVE Progress(s)'
  <2>1. Progress(s)
    BY <1>1 DEF OpenInv, Above
  <2>2. \A c : Fresh(c)' = Fresh(c) /\ Settled(c)' = Settled(c) /\ NoneReported(c)' = NoneReported(c)
               /\ AllReported(c)' = AllReported(c)
    BY <1>0 DEF Fresh, Settled, NoneReported, AllReported
  <2>3. TestsProgress(s)' = TestsProgress(s)
    BY <1>0 DEF TestsProgress
  <2>4. SuitesProgress(s) => SuitesProgress(s)'
    BY <1>0, <2>2 DEF SuitesProgress
  <2>. QED  BY <1>0, <2>1, <2>2, <2>3, <2>4 DEF Progress
<1>. QED  BY <1>0, <1>1 DEF OpenInv, Above

\* What is below a scope is as it was when a step changes the scope alone.
LEMMA FreshStays ==
    ASSUME file' = file, NEW k,
           \A c \in Within(k) : phase'[c] = phase[c] /\ at'[c] = at[c] /\ \A t \in Own(c) : reports'[t] = reports[t]
    PROVE  (Fresh(k) => Fresh(k)') /\ (Settled(k) => Settled(k)')
<1>0. Within(k)' = Within(k) /\ \A c : Own(c)' = Own(c)
  BY SameFile
<1>. QED  BY <1>0 DEF Fresh, Settled, NoneReported, AllReported

\* A step of the scope at hand that changes its own tests' reports, if any.
LEMMA KidsStay ==
    ASSUME FileTypeOK, file' = file, NEW s \in Scopes,
           \A c \in Scopes \ {s} : phase'[c] = phase[c] /\ at'[c] = at[c],
           \A t \in Tests \ Own(s) : reports'[t] = reports[t]
    PROVE  /\ Local(s)
           /\ \A k \in Kids(s) : (Fresh(k) => Fresh(k)') /\ (Settled(k) => Settled(k)')
<1>0. file \in Shapes
  BY ReportTypedParts
<1>1. ASSUME NEW c \in Scopes, c # s
      PROVE  phase'[c] = phase[c] /\ at'[c] = at[c] /\ \A t \in Own(c) : reports'[t] = reports[t]
  <2>1. \A t \in Own(c) : t \in Tests \ Own(s)
    BY <1>0, <1>1, OwnAreTests, OneHome
  <2>. QED  BY <1>1, <2>1
<1>2. Local(s)
  BY <1>0, <1>1, WithinSelf DEF Local
<1>3. ASSUME NEW k \in Kids(s), NEW c \in Within(k)  PROVE c \in Scopes /\ c # s
  BY <1>0, <1>3, KidWithin DEF Within
<1>4. ASSUME NEW k \in Kids(s)  PROVE (Fresh(k) => Fresh(k)') /\ (Settled(k) => Settled(k)')
  BY <1>1, <1>3, FreshStays
<1>. QED  BY <1>2, <1>4

LEMMA EnterOpens ==
    ASSUME FileTypeOK, OpenInv, NEW s \in Scopes, Enter(s) \/ SetUp(s) \/ TestsDone(s)
    PROVE  OpenInv'
<1>0. file \in Shapes /\ phase \in [Scopes -> Phases] /\ at \in [Scopes -> Nat \ {0}]
  BY ReportTypedParts DEF PlaceTyped
<1>1. file' = file /\ cur = s /\ cur' = s /\ reports' = reports /\ stopped' = stopped
  BY DEF Enter, SetUp, TestsDone, AtTest, resultVars
<1>2. \A c \in Scopes \ {s} : phase'[c] = phase[c] /\ at'[c] = at[c]
  BY <1>0 DEF Enter, SetUp, TestsDone
<1>3. Local(s) /\ \A k \in Kids(s) : (Fresh(k) => Fresh(k)') /\ (Settled(k) => Settled(k)')
  BY <1>1, <1>2, KidsStay
<1>4. Scopes' = Scopes /\ Own(s)' = Own(s) /\ Kids(s)' = Kids(s)
  BY <1>1, SameFile
<1>5. Progress(s)
  BY <1>0, <1>1, WithinSelf DEF OpenInv, Above
<1>6. phase[s] # "suites"
  BY DEF Enter, SetUp, TestsDone, AtTest
<1>7. \A k \in Kids(s) : Fresh(k)'
  BY <1>3, <1>5, <1>6 DEF Progress
<1>8. NoneReported(s)' = NoneReported(s) /\ AllReported(s)' = AllReported(s)
  BY <1>1, <1>4 DEF NoneReported, AllReported
<1>9. file.tests[s] \in Seq(Tests) /\ file.kids[s] \in Seq(Scopes)
  BY <1>0, Tree
<1>10. DOMAIN file.tests[s] = 1..Len(file.tests[s]) /\ DOMAIN file.kids[s] = 1..Len(file.kids[s])
       /\ Len(file.tests[s]) \in Nat
  BY <1>9, LenProperties
<1>11. Progress(s)'
  <2>1. CASE Enter(s)
    <3>1. phase[s] = "new" /\ phase'[s] = "setup" /\ at'[s] = at[s]
      BY <1>0, <2>1 DEF Enter
    <3>. QED  BY <1>1, <1>4, <1>5, <1>7, <1>8, <3>1 DEF Progress
  <2>2. CASE SetUp(s)
    <3>1. phase[s] = "setup" /\ phase'[s] = "tests" /\ at'[s] = at[s]
      BY <1>0, <2>2 DEF SetUp
    <3>2. TestsProgress(s)'
      <4>1. at'[s] = 1 /\ NoneReported(s)
        BY <1>5, <3>1 DEF Progress
      <4>2. \A i \in DOMAIN file.tests[s] : reports[file.tests[s][i]] = 0
        BY <4>1 DEF NoneReported, Own
      <4>. QED  BY <1>1, <1>10, <4>1, <4>2 DEF TestsProgress
    <3>. QED  BY <1>1, <1>4, <1>7, <3>1, <3>2 DEF Progress
  <2>3. CASE TestsDone(s)
    <3>1. phase[s] = "tests" /\ phase'[s] = "suites" /\ at'[s] = 1 /\ (TestLeft(s) => stopped # "no")
      BY <1>0, <2>3 DEF TestsDone, AtTest
    <3>2. SuitesProgress(s)'
      <4>1. \A i \in DOMAIN file.kids[s] : Fresh(file.kids[s][i])'
        BY <1>1, <1>7 DEF Kids, Fresh, Within, Own, NoneReported, Scopes, Path
      <4>. QED  BY <1>1, <1>10, <3>1, <4>1 DEF SuitesProgress
    <3>3. stopped = "no" => AllReported(s)
      <4>1. TestsProgress(s)
        BY <1>5, <3>1 DEF Progress
      <4>2. stopped = "no" => \A i \in DOMAIN file.tests[s] : i < at[s]
        BY <1>0, <1>10, <3>1 DEF TestLeft
      <4>. QED  BY <4>1, <4>2 DEF AllReported, Own, TestsProgress
    <3>. QED  BY <1>1, <1>4, <1>8, <3>1, <3>2, <3>3 DEF Progress
  <2>. QED  BY <2>1, <2>2, <2>3
<1>. QED  BY <1>0, <1>1, <1>3, <1>11, OpenHere

\* A test gets its result and the scope goes on to the next.
LEMMA TestReported ==
    ASSUME FileTypeOK, OnceInv, OpenInv, file' = file, NEW s \in Scopes, cur = s, cur' = s, phase[s] = "tests",
           NEW t, at[s] \in DOMAIN file.tests[s], t = file.tests[s][at[s]],
           NEW result, Report({t} \ file.out, result),
           phase' = phase, at' = [at EXCEPT ![s] = @ + 1], stopped' = "no" => stopped = "no"
    PROVE  OnceInv' /\ OpenInv'
<1>0. file \in Shapes /\ phase \in [Scopes -> Phases] /\ at \in [Scopes -> Nat \ {0}]
  BY ReportTypedParts DEF PlaceTyped
<1>1. file.tests[s] \in Seq(Tests) /\ DOMAIN file.tests[s] = 1..Len(file.tests[s]) /\ Len(file.tests[s]) \in Nat
  BY <1>0, Tree, LenProperties
<1>2. t \in Own(s) /\ t \in Tests
  BY <1>0, OwnAreTests DEF Own
<1>3. Progress(s) /\ TestsProgress(s)
  <2>1. Progress(s)
    BY <1>0, WithinSelf DEF OpenInv, Above
  <2>. QED  BY <2>1 DEF Progress
<1>4. reports[t] = 0
  <2>1. at[s] >= at[s]
    BY <1>1
  <2>. QED  BY <1>3, <2>1 DEF TestsProgress
<1>5. OnceInv' /\ \A u \in Tests : reports'[u] = IF u \in {t} \ file.out THEN 1 ELSE reports[u]
  <2>1. {t} \ file.out \in SUBSET Tests
    BY <1>2
  <2>. QED  BY <1>4, <2>1, ReportedFirst
<1>6. \A c \in Scopes \ {s} : phase'[c] = phase[c] /\ at'[c] = at[c]
  BY <1>0
<1>7. Local(s) /\ \A k \in Kids(s) : Fresh(k) => Fresh(k)'
  <2>1. \A u \in Tests \ Own(s) : reports'[u] = reports[u]
    BY <1>2, <1>5
  <2>. QED  BY <1>6, <2>1, KidsStay
<1>8. at'[s] = at[s] + 1 /\ at[s] \in Nat
  BY <1>0
<1>9. TestsProgress(s)'
  <2>1. ASSUME NEW i \in DOMAIN file.tests[s]
        PROVE  /\ i >= at[s] + 1 => reports'[file.tests[s][i]] = 0
               /\ i < at[s] + 1 /\ file.tests[s][i] \notin file.out => reports'[file.tests[s][i]] = 1
    <3>1. file.tests[s][i] \in Tests
      BY <1>1, ElementOfSeq
    <3>2. file.tests[s][i] = t => i = at[s]
      BY <1>0, OnePlace
    <3>3. i \in Nat
      BY <1>1
    <3>4. i >= at[s] + 1 => i >= at[s] /\ i # at[s]
      BY <1>8, <3>3
    <3>5. i < at[s] + 1 => i < at[s] \/ i = at[s]
      BY <1>8, <3>3
    <3>. QED  BY <1>3, <1>5, <3>1, <3>2, <3>4, <3>5 DEF TestsProgress
  <2>. QED  BY <1>8, <2>1 DEF TestsProgress
<1>10. Progress(s)'
  <2>1. \A k \in Kids(s) : Fresh(k)'
    BY <1>3, <1>7 DEF Progress
  <2>2. Kids(s)' = Kids(s)
    BY SameFile
  <2>3. phase'[s] = "tests"
    OBVIOUS
  <2>. QED  BY <1>9, <2>1, <2>2, <2>3 DEF Progress
<1>. QED  BY <1>0, <1>5, <1>7, <1>10, OpenHere

LEMMA SkipReported ==
    ASSUME FileTypeOK, OnceInv, OpenInv, NEW s \in Scopes, SkipSuite(s)
    PROVE  OnceInv' /\ OpenInv'
<1>. PICK k : k = file.kids[s][at[s]]
  OBVIOUS
<1>0. file \in Shapes /\ phase \in [Scopes -> Phases] /\ at \in [Scopes -> Nat \ {0}]
  BY ReportTypedParts DEF PlaceTyped
<1>1. /\ file' = file /\ cur = s /\ cur' = s /\ stopped' = stopped /\ stopped = "no" /\ phase' = phase
      /\ phase[s] = "suites" /\ at[s] <= Len(file.kids[s]) /\ at' = [at EXCEPT ![s] = @ + 1]
      /\ Report(Kept(k), "skipped")
  BY DEF SkipSuite, AtSuite, SuiteLeft, ThisSuite
<1>2. file.kids[s] \in Seq(Scopes) /\ DOMAIN file.kids[s] = 1..Len(file.kids[s]) /\ Len(file.kids[s]) \in Nat
  BY <1>0, Tree, LenProperties
<1>3. at[s] \in DOMAIN file.kids[s] /\ at[s] \in Nat /\ at'[s] = at[s] + 1
  BY <1>0, <1>1, <1>2
<1>4. k \in Kids(s) /\ k \in Scopes
  BY <1>0, <1>3, KidAt
<1>5. SuitesProgress(s) /\ AllReported(s)
  <2>1. Progress(s)
    BY <1>0, <1>1, WithinSelf DEF OpenInv, Above
  <2>. QED  BY <1>1, <2>1 DEF Progress
<1>6. Fresh(k)
  BY <1>1, <1>3, <1>5 DEF SuitesProgress
<1>7. \A t \in Kept(k) : t \in Tests /\ reports[t] = 0 /\ t \notin file.out
  <2>1. ASSUME NEW t \in Kept(k)  PROVE t \in Tests /\ reports[t] = 0 /\ t \notin file.out
    <3>1. PICK c \in Within(k) : t \in Own(c)
      BY <1>0, <1>4, KeptIs
    <3>2. t \notin file.out
      BY <1>0, <1>4, KeptIs
    <3>3. c \in Scopes
      BY <3>1 DEF Within
    <3>. QED  BY <1>0, <1>6, <3>1, <3>2, <3>3, OwnAreTests DEF Fresh, NoneReported
  <2>. QED  BY <2>1
<1>8. OnceInv' /\ \A t \in Tests : reports'[t] = IF t \in Kept(k) THEN 1 ELSE reports[t]
  <2>1. Kept(k) \in SUBSET Tests
    BY <1>7
  <2>. QED  BY <1>1, <1>7, <2>1, ReportedFirst
<1>9. ASSUME NEW c \in Scopes \ Within(k)  PROVE \A t \in Own(c) : reports'[t] = reports[t]
  <2>1. ASSUME NEW t \in Own(c)  PROVE t \notin Kept(k)
    <3>1. ASSUME NEW d \in Within(k), t \in Own(d) PROVE FALSE
      <4>1. d \in Scopes
        BY <3>1 DEF Within
      <4>. QED  BY <1>0, <1>9, <2>1, <3>1, <4>1, OneHome
    <3>. QED  BY <1>0, <1>4, <3>1, KeptIs
  <2>. QED  BY <1>0, <1>8, <1>9, <2>1, OwnAreTests
<1>10. Settled(k)'
  <2>1. Within(k)' = Within(k) /\ \A c : Own(c)' = Own(c)
    BY <1>1, SameFile
  <2>2. ASSUME NEW c \in Within(k), NEW t \in Own(c), t \notin file.out  PROVE reports'[t] = 1
    <3>1. c \in Scopes
      BY DEF Within
    <3>. QED  BY <1>0, <1>4, <1>8, <2>2, <3>1, KeptIs, OwnAreTests
  <2>. QED  BY <1>1, <2>1, <2>2 DEF Settled, AllReported
<1>11. \A c \in Scopes \ {s} : phase'[c] = phase[c] /\ at'[c] = at[c]
  BY <1>0, <1>1
<1>12. s \notin Within(k)
  BY <1>0, <1>4, KidWithin
<1>13. Local(s)
  <2>1. ASSUME NEW c \in Scopes, c \notin Within(s)  PROVE c # s /\ c \notin Within(k)
    BY <1>0, <1>4, <2>1, WithinSelf, KidWithin
  <2>. QED  BY <1>9, <1>11, <2>1 DEF Local
<1>14. ASSUME NEW i \in DOMAIN file.kids[s], i # at[s], NEW l, l = file.kids[s][i]
       PROVE  (Fresh(l) => Fresh(l)') /\ (Settled(l) => Settled(l)')
  <2>1. l \in Kids(s) /\ l # k
    BY <1>0, <1>3, <1>14, KidAt, OnePlace
  <2>2. ASSUME NEW c \in Within(l)  PROVE c \in Scopes \ Within(k) /\ c # s
    BY <1>0, <1>4, <2>1, <2>2, KidsApart, KidWithin DEF Within
  <2>. QED  BY <1>1, <1>9, <1>11, <2>2, FreshStays
<1>15. SuitesProgress(s)'
  <2>1. ASSUME NEW i \in DOMAIN file.kids[s], NEW l, l = file.kids[s][i]
        PROVE  /\ i >= at[s] + 1 => Fresh(l)'
               /\ i < at[s] + 1 => Settled(l)'
    <3>1. i \in Nat
      BY <1>2
    <3>2. i >= at[s] + 1 => i > at[s] /\ i # at[s]
      BY <1>3, <3>1
    <3>3. i < at[s] + 1 => (i < at[s] /\ i # at[s]) \/ i = at[s]
      BY <1>3, <3>1
    <3>4. i = at[s] => l = k
      BY <2>1
    <3>5. i > at[s] => Fresh(l)
      BY <1>5, <2>1 DEF SuitesProgress
    <3>6. i < at[s] => Settled(l)
      BY <1>1, <1>5, <2>1 DEF SuitesProgress
    <3>. QED  BY <1>10, <1>14, <2>1, <3>2, <3>3, <3>4, <3>5, <3>6
  <2>2. \A i \in DOMAIN file.kids[s] : (i > at[s] + 1 \/ i = at[s] + 1) => i >= at[s] + 1
    BY <1>2, <1>3
  <2>3. \A i \in DOMAIN file.kids[s] : \A l : l = file.kids[s][i] =>
            (i >= at[s] + 1 => Fresh(l)') /\ (i < at[s] + 1 => Settled(l)')
    BY <2>1
  <2>. QED  BY <1>1, <1>3, <2>2, <2>3 DEF SuitesProgress, Fresh, Settled, Within, Own, NoneReported, AllReported, Scopes, Path
<1>16. AllReported(s)'
  <2>1. Own(s)' = Own(s)
    BY <1>1, SameFile
  <2>. QED  BY <1>1, <1>5, <1>9, <1>12, <2>1 DEF AllReported
<1>17. Progress(s)'
  BY <1>1, <1>15, <1>16 DEF Progress
<1>. QED  BY <1>0, <1>1, <1>8, <1>13, <1>17, OpenHere

LEMMA DescendOpens ==
    ASSUME FileTypeOK, OpenInv, NEW s \in Scopes, Descend(s)
    PROVE  OpenInv'
<1>. PICK k : k = file.kids[s][at[s]]
  OBVIOUS
<1>0. file \in Shapes /\ phase \in [Scopes -> Phases] /\ at \in [Scopes -> Nat \ {0}]
  BY ReportTypedParts DEF PlaceTyped
<1>1. /\ file' = file /\ cur = s /\ cur' = k /\ stopped' = stopped /\ phase' = phase /\ at' = at
      /\ reports' = reports /\ phase[s] = "suites" /\ at[s] <= Len(file.kids[s])
  BY DEF Descend, AtSuite, SuiteLeft, ThisSuite, resultVars
<1>2. file.kids[s] \in Seq(Scopes) /\ DOMAIN file.kids[s] = 1..Len(file.kids[s]) /\ Len(file.kids[s]) \in Nat
  BY <1>0, Tree, LenProperties
<1>3. at[s] \in DOMAIN file.kids[s] /\ at[s] \in Nat
  BY <1>0, <1>1, <1>2
<1>4. k \in Kids(s) /\ k \in Scopes
  BY <1>0, <1>3, KidAt
<1>5. Progress(s) /\ SuitesProgress(s)
  <2>1. Progress(s)
    BY <1>0, <1>1, WithinSelf DEF OpenInv, Above
  <2>. QED  BY <1>1, <2>1 DEF Progress
<1>6. Fresh(k)
  BY <1>1, <1>3, <1>5 DEF SuitesProgress
<1>7. \A c : /\ Within(c)' = Within(c) /\ Own(c)' = Own(c) /\ Kids(c)' = Kids(c)
             /\ Fresh(c)' = Fresh(c) /\ Settled(c)' = Settled(c) /\ NoneReported(c)' = NoneReported(c)
             /\ AllReported(c)' = AllReported(c)
  <2>1. \A c : Within(c)' = Within(c) /\ Own(c)' = Own(c) /\ Kids(c)' = Kids(c)
    BY <1>1, SameFile
  <2>. QED  BY <1>1, <2>1 DEF Fresh, Settled, NoneReported, AllReported
<1>8. Progress(k)'
  <2>1. phase[k] = "new" /\ at[k] = 1 /\ NoneReported(k)
    BY <1>0, <1>4, <1>6, WithinSelf DEF Fresh
  <2>2. ASSUME NEW l \in Kids(k)  PROVE Fresh(l)
    <3>1. \A c \in Within(l) : c \in Within(k)
      BY <1>0, <1>4, <2>2, KidWithin
    <3>. QED  BY <1>6, <3>1 DEF Fresh
  <2>3. phase'[k] = "new" /\ at'[k] = 1 /\ NoneReported(k)'
    BY <1>1, <1>7, <2>1
  <2>4. \A l \in Kids(k) : Fresh(l)'
    BY <1>7, <2>2
  <2>. QED  BY <1>1, <1>7, <2>3, <2>4 DEF Progress
<1>9. k # s /\ k \in Within(k)
  BY <1>0, <1>4, WithinSelf, KidWithin
<1>10. Progress(s)'
  <2>1. SuitesProgress(s)'
    <3>1. \A i \in DOMAIN file.kids[s] : Fresh(file.kids[s][i])' = Fresh(file.kids[s][i])
      BY <1>1, <1>7 DEF Fresh, NoneReported, Within, Own, Scopes, Path
    <3>2. \A i \in DOMAIN file.kids[s] : Settled(file.kids[s][i])' = Settled(file.kids[s][i])
      BY <1>1, <1>7 DEF Settled, AllReported, Within, Own, Scopes, Path
    <3>. QED  BY <1>1, <1>5, <1>9, <3>1, <3>2 DEF SuitesProgress
  <2>2. (stopped = "no" => AllReported(s))'
    <3>1. stopped = "no" => AllReported(s)
      BY <1>1, <1>5 DEF Progress
    <3>. QED  BY <1>1, <1>7, <3>1
  <2>3. (at[s] \in DOMAIN file.kids[s] /\ cur \in Within(file.kids[s][at[s]]))'
    BY <1>1, <1>3, <1>9 DEF Within, Scopes, Path
  <2>. QED  BY <1>1, <2>1, <2>2, <2>3 DEF Progress
<1>11. ASSUME NEW c \in Scopes, k \in Within(c), c # k, c # s  PROVE Progress(c)'
  <2>1. s \in Within(c)
    BY <1>0, <1>4, <1>11, AboveKid
  <2>2. Progress(c)
    BY <1>1, <2>1 DEF OpenInv, Above
  <2>3. at[c] \in DOMAIN file.kids[c] /\ s \in Within(file.kids[c][at[c]])
    BY <1>1, <1>11, <2>2 DEF Progress
  <2>4. file.kids[c][at[c]] \in Scopes /\ k \in Within(s)
    BY <1>0, <1>4, <1>9, <2>3, KidAt, KidWithin
  <2>5. k \in Within(file.kids[c][at[c]])
    BY <1>0, <2>3, <2>4, WithinTrans
  <2>6. Local(file.kids[c][at[c]])
    BY <1>1 DEF Local
  <2>. QED  BY <1>0, <1>1, <1>11, <2>2, <2>5, <2>6, AncestorStays
<1>12. \A c \in Scopes : cur' \in Within(c) => Progress(c)'
  <2>1. ASSUME NEW c \in Scopes, k \in Within(c)  PROVE Progress(c)'
    BY <1>8, <1>10, <1>11, <2>1
  <2>. QED  BY <1>1, <2>1
<1>. QED  BY <1>1, <1>7, <1>12, SameFile DEF OpenInv, Above

\* A setup that fails: the tests of the scope and of those below it get their result.
LEMMA SetupFailsReported ==
    ASSUME FileTypeOK, RunInv, OnceInv, OpenInv, SetupFails
    PROVE  OnceInv' /\ OpenInv' /\ OverInv'
<1>. PICK s : s = cur
  OBVIOUS
<1>0. file \in Shapes /\ phase \in [Scopes -> Phases] /\ at \in [Scopes -> Nat \ {0}] /\ cur \in Scopes \cup {NoScope}
  BY ReportTypedParts DEF PlaceTyped
<1>1. /\ file' = file /\ stopped' = stopped /\ thrown' = thrown /\ Leave(s, "broken") /\ Report(Kept(s), "failed")
      /\ s # NoScope /\ phase[s] = "setup"
  BY DEF SetupFails, Fallible, Doing, InSetup, RunInv
<1>2. s \in Scopes
  BY <1>0, <1>1
<1>3. Fresh(s) \/ \A c \in Within(s) : NoneReported(c)
  <2>1. Progress(s)
    BY <1>0, <1>2, WithinSelf DEF OpenInv, Above
  <2>2. NoneReported(s) /\ \A k \in Kids(s) : Fresh(k)
    BY <1>1, <2>1 DEF Progress
  <2>3. ASSUME NEW c \in Within(s), c # s  PROVE NoneReported(c)
    BY <1>0, <1>2, <2>2, <2>3, WithinKid DEF Fresh
  <2>. QED  BY <2>2, <2>3
<1>4. ASSUME NEW t \in Kept(s)  PROVE t \in Tests /\ reports[t] = 0 /\ t \notin file.out
  <2>1. PICK c \in Within(s) : t \in Own(c)
    BY <1>0, <1>2, KeptIs
  <2>2. t \notin file.out /\ c \in Scopes
    BY <1>0, <1>2, <2>1, KeptIs DEF Within
  <2>. QED  BY <1>0, <1>3, <2>1, <2>2, OwnAreTests DEF Fresh, NoneReported
<1>5. OnceInv' /\ \A t \in Tests : reports'[t] = IF t \in Kept(s) THEN 1 ELSE reports[t]
  <2>1. Kept(s) \in SUBSET Tests
    BY <1>4
  <2>. QED  BY <1>1, <1>4, <2>1, ReportedFirst
<1>6. ASSUME NEW c \in Scopes \ Within(s), NEW t \in Own(c)  PROVE reports'[t] = reports[t]
  <2>1. t \notin Kept(s)
    <3>1. ASSUME NEW d \in Within(s), t \in Own(d) PROVE FALSE
      <4>1. d \in Scopes
        BY <3>1 DEF Within
      <4>. QED  BY <1>0, <1>6, <3>1, <4>1, OneHome
    <3>. QED  BY <1>0, <1>2, <3>1, KeptIs
  <2>. QED  BY <1>0, <1>5, <1>6, <2>1, OwnAreTests
<1>7. Settled(s)'
  <2>1. Within(s)' = Within(s) /\ \A c : Own(c)' = Own(c)
    BY <1>1, SameFile
  <2>2. ASSUME NEW c \in Within(s), NEW t \in Own(c), t \notin file.out  PROVE reports'[t] = 1
    <3>1. c \in Scopes
      BY DEF Within
    <3>. QED  BY <1>0, <1>2, <1>5, <2>2, <3>1, KeptIs, OwnAreTests
  <2>. QED  BY <1>1, <2>1, <2>2 DEF Settled, AllReported
<1>. QED  BY <1>1, <1>2, <1>5, <1>6, <1>7, Leaves

LEMMA StopLeaves ==
    ASSUME FileTypeOK, RunInv, OpenInv, SetupStopped
    PROVE  OpenInv' /\ OverInv'
<1>. PICK s : s = cur
  OBVIOUS
<1>0. file \in Shapes /\ cur \in Scopes \cup {NoScope}
  BY ReportTypedParts DEF PlaceTyped
<1>1. /\ file' = file /\ stopped' = stopped /\ thrown' = thrown /\ Leave(s, "broken") /\ reports' = reports
      /\ stopped # "no" /\ s # NoScope
  BY DEF SetupStopped, RunInv, resultVars
<1>2. s \in Scopes
  BY <1>0, <1>1
<1>. QED  BY <1>1, <1>2, Leaves

LEMMA CloseReported ==
    ASSUME FileTypeOK, OpenInv, NEW s \in Scopes, Close(s)
    PROVE  OpenInv' /\ OverInv'
<1>0. file \in Shapes /\ at \in [Scopes -> Nat \ {0}]
  BY ReportTypedParts DEF PlaceTyped
<1>1. /\ file' = file /\ stopped' = stopped /\ thrown' = thrown /\ cur = s /\ Leave(s, "over") /\ reports' = reports
      /\ phase[s] = "suites" /\ (SuiteLeft(s) => stopped # "no")
  BY DEF Close, AtSuite, resultVars
<1>2. Progress(s)
  BY <1>0, <1>1, WithinSelf DEF OpenInv, Above
<1>3. ASSUME stopped = "no"  PROVE Settled(s)
  <2>1. AllReported(s) /\ SuitesProgress(s)
    BY <1>1, <1>2, <1>3 DEF Progress
  <2>2. file.kids[s] \in Seq(Scopes) /\ DOMAIN file.kids[s] = 1..Len(file.kids[s]) /\ Len(file.kids[s]) \in Nat
    BY <1>0, Tree, LenProperties
  <2>3. \A i \in DOMAIN file.kids[s] : i < at[s]
    BY <1>0, <1>1, <1>3, <2>2 DEF SuiteLeft
  <2>4. \A k \in Kids(s) : Settled(k)
    BY <1>3, <2>1, <2>3 DEF SuitesProgress, Kids
  <2>5. ASSUME NEW c \in Within(s), c # s  PROVE AllReported(c)
    BY <1>0, <2>4, <2>5, WithinKid DEF Settled
  <2>. QED  BY <2>1, <2>5 DEF Settled
<1>4. stopped = "no" => Settled(s)'
  <2>1. Settled(s) => Settled(s)'
    BY <1>1, SameFile DEF Settled, AllReported
  <2>. QED  BY <1>3, <2>1
<1>. QED  BY <1>1, <1>4, Leaves

LEMMA InitReports == Init => ReportInv
<1>. SUFFICES ASSUME Init PROVE ReportInv
  OBVIOUS
<1>0. file \in Shapes /\ cur = file.root /\ cur \in Scopes /\ cur # NoScope
  BY Tree DEF Init
<1>1. OnceInv
  BY DEF Init, OnceInv
<1>2. \A c \in Scopes : phase[c] = "new" /\ at[c] = 1 /\ NoneReported(c)
  BY <1>0, OwnAreTests DEF Init, NoneReported
<1>3. \A c \in Scopes : Fresh(c)
  BY <1>2 DEF Fresh, Within
<1>4. Progress(cur)
  <2>1. \A k \in Kids(cur) : Fresh(k)
    BY <1>0, <1>3, KidPath
  <2>. QED  BY <1>0, <1>2, <2>1 DEF Progress
<1>5. ASSUME NEW s \in Above(cur)  PROVE s = cur
  <2>1. s \in Scopes /\ Len(Path(s)) \in 1..Len(Path(cur)) /\ Path(cur)[Len(Path(s))] = s
    BY <1>0, WithinIs DEF Above
  <2>2. Path(cur) = <<cur>>
    BY <1>0, Tree
  <2>3. Len(Path(cur)) = 1
    BY <2>2
  <2>4. Len(Path(s)) = 1
    BY <2>1, <2>3
  <2>. QED  BY <2>1, <2>2, <2>4
<1>. QED  BY <1>0, <1>1, <1>4, <1>5 DEF ReportInv, OpenInv, OverInv

LEMMA NextReports == FileTypeOK /\ RunInv /\ ReportInv /\ [Next]_vars => ReportInv'
<1>. SUFFICES ASSUME FileTypeOK, RunInv, OnceInv, OpenInv, OverInv, [Next]_vars  PROVE ReportInv'
  BY DEF ReportInv
<1>0. file \in Shapes /\ NoScope \notin Scopes
  BY ReportTypedParts, Tree
<1>1. ASSUME NEW s \in Scopes, Enter(s) \/ SetUp(s) \/ TestsDone(s)  PROVE ReportInv'
  <2>1. OpenInv'
    BY <1>1, EnterOpens
  <2>2. file' = file /\ cur' = s /\ UNCHANGED resultVars
    BY <1>1 DEF Enter, SetUp, TestsDone, AtTest
  <2>. QED  BY <1>0, <2>1, <2>2, SameOnce DEF ReportInv, OverInv
<1>2. ASSUME NEW s \in Scopes, PassOver(s)  PROVE ReportInv'
  <2>1. /\ file' = file /\ cur = s /\ cur' = s /\ phase[s] = "tests" /\ phase' = phase
        /\ at' = [at EXCEPT ![s] = @ + 1] /\ stopped' = stopped /\ at[s] <= Len(file.tests[s])
        /\ Report({file.tests[s][at[s]]} \ file.out, "skipped")
    BY <1>2 DEF PassOver, AtTest, TestLeft, ThisTest
  <2>2. at[s] \in DOMAIN file.tests[s]
    <3>1. file.tests[s] \in Seq(Tests) /\ at[s] \in Nat \ {0}
      BY <1>0, Tree, ReportTypedParts DEF PlaceTyped
    <3>. QED  BY <2>1, <3>1, LenProperties
  <2>3. OnceInv' /\ OpenInv'
    BY <2>1, <2>2, TestReported
  <2>. QED  BY <1>0, <2>1, <2>3 DEF ReportInv, OverInv
<1>3. ASSUME NEW s \in Scopes, SkipSuite(s)  PROVE ReportInv'
  <2>1. OnceInv' /\ OpenInv'
    BY <1>3, SkipReported
  <2>2. cur' = s
    BY <1>3 DEF SkipSuite, AtSuite
  <2>. QED  BY <1>0, <2>1, <2>2 DEF ReportInv, OverInv
<1>4. ASSUME NEW s \in Scopes, Descend(s)  PROVE ReportInv'
  <2>1. OpenInv'
    BY <1>4, DescendOpens
  <2>2. file' = file /\ UNCHANGED resultVars /\ cur' = file.kids[s][at[s]] /\ at[s] <= Len(file.kids[s])
    BY <1>4 DEF Descend, SuiteLeft, ThisSuite
  <2>3. cur' \in Scopes
    <3>1. file.kids[s] \in Seq(Scopes) /\ at[s] \in Nat \ {0}
      BY <1>0, Tree, ReportTypedParts DEF PlaceTyped
    <3>. QED  BY <2>2, <3>1, LenProperties, ElementOfSeq
  <2>. QED  BY <1>0, <2>1, <2>2, <2>3, SameOnce DEF ReportInv, OverInv
<1>5. ASSUME NEW s \in Scopes, Close(s)  PROVE ReportInv'
  <2>1. OpenInv' /\ OverInv'
    BY <1>5, CloseReported
  <2>2. file' = file /\ UNCHANGED resultVars
    BY <1>5 DEF Close
  <2>. QED  BY <2>1, <2>2, SameOnce DEF ReportInv
<1>6. CASE SetupFails
  BY <1>6, SetupFailsReported DEF ReportInv
<1>7. CASE SetupStopped
  <2>1. OpenInv' /\ OverInv'
    BY <1>7, StopLeaves
  <2>2. file' = file /\ UNCHANGED resultVars
    BY <1>7 DEF SetupStopped
  <2>. QED  BY <2>1, <2>2, SameOnce DEF ReportInv
<1>8. CASE EntryThrows
  <2>1. file' = file /\ UNCHANGED resultVars /\ cur' = NoScope /\ thrown'
    BY <1>8 DEF EntryThrows
  <2>2. OpenInv'
    BY <1>0, <2>1, SameFile DEF OpenInv, Above, Within
  <2>. QED  BY <2>1, <2>2, SameOnce DEF ReportInv, OverInv
<1>9. CASE EndTest
  <2>. PICK s : s = cur
    OBVIOUS
  <2>1. test # NoTest /\ s # NoScope
    BY <1>9 DEF EndTest, InSetup, RunInv
  <2>2. s \in Scopes
    BY <2>1, ReportTypedParts DEF PlaceTyped
  <2>3. /\ phase[s] = "tests" /\ at[s] \in DOMAIN file.tests[s] /\ test = file.tests[s][at[s]] /\ test \notin file.out
    BY <2>1 DEF RunInv, ThisTest
  <2>4. /\ file' = file /\ cur' = s /\ phase' = phase /\ at' = [at EXCEPT ![s] = @ + 1]
        /\ stopped' = "no" => stopped = "no"
    BY <1>9 DEF EndTest
  <2>5. PICK end \in Ends : Report({test}, Final(end))
    BY <1>9 DEF EndTest
  <2>6. {test} \ file.out = {test}
    BY <2>3
  <2>7. OnceInv' /\ OpenInv'
    <3>. PICK t : t = test
      OBVIOUS
    <3>1. Report({t} \ file.out, Final(end))
      BY <2>5, <2>6
    <3>. QED  BY <2>2, <2>3, <2>4, <3>1, TestReported
  <2>. QED  BY <1>0, <2>2, <2>4, <2>7 DEF ReportInv, OverInv
<1>10. CASE \/ \E s \in Scopes : StartTest(s)
            \/ Reset \/ BeforeAllHook \/ BeforeAll \/ AfterAll \/ Rebuilt \/ SetupSkips \/ AttemptSetupFails
            \/ Body \/ Retry \/ Stop \/ Over \/ UNCHANGED vars
  <2>1. UNCHANGED <<file, cur, phase, at, resultVars>>
    BY <1>10 DEF StartTest, Begin, Reset, BeforeAllHook, BeforeAll, AfterAll, Rebuilt, SetupSkips, AttemptSetupFails,
                 Body, Retry, Stop, Over, vars, resultVars
  <2>2. (stopped' = "no" => stopped = "no") /\ (thrown' = thrown)
    BY <1>10 DEF StartTest, Reset, BeforeAllHook, BeforeAll, AfterAll, Rebuilt, SetupSkips, AttemptSetupFails,
                 Body, Retry, Stop, Over, vars
  <2>3. OpenInv' /\ OnceInv'
    BY <2>1, <2>2, SameOpen, SameOnce DEF resultVars
  <2>4. OverInv'
    <3>1. Scopes' = Scopes /\ \A c : AllReported(c)' = AllReported(c)
      BY <2>1, SameFile DEF AllReported, resultVars
    <3>. QED  BY <2>1, <2>2, <3>1 DEF OverInv
  <2>. QED  BY <2>3, <2>4 DEF ReportInv
<1>. QED  BY <1>1, <1>2, <1>3, <1>4, <1>5, <1>6, <1>7, <1>8, <1>9, <1>10 DEF Next

-----------------------------------------------------------------------------
(* A serial group whose test failed is noted while a scope of it is run.   *)

FailedIn(g) == \E t \in Kept(g) : results[t] = "failed"

SerialInv ==
    /\ test # NoTest => Group(cur) \notin serialFailed
    /\ \A g \in Above(cur) : Group(g) = g /\ FailedIn(g) => g \in serialFailed

\* No test fails in a step, and the groups noted stay noted.
LEMMA SerialStays ==
    ASSUME file \in Shapes, file' = file, cur' = cur, serialFailed \subseteq serialFailed', SerialInv,
           \A t \in Tests : results'[t] = "failed" => results[t] = "failed",
           test' = NoTest \/ (test' = test /\ serialFailed' = serialFailed)
    PROVE  SerialInv'
<1>1. \A c : Group(c)' = Group(c) /\ Kept(c)' = Kept(c) /\ Within(c)' = Within(c)
  BY SameFile
<1>2. Scopes' = Scopes /\ Group(cur)' = Group(cur) /\ Above(cur)' = Above(cur)
  <2>1. Scopes' = Scopes
    BY SameFile
  <2>. PICK s : s = cur
    OBVIOUS
  <2>2. cur' = s
    OBVIOUS
  <2>3. Group(cur)' = Group(cur)
    BY DEF Group, Path
  <2>4. Above(cur)' = Above(cur)
    BY <2>1 DEF Above, Within, Path
  <2>. QED  BY <2>1, <2>3, <2>4
<1>3. ASSUME NEW g \in Above(cur)  PROVE FailedIn(g)' => FailedIn(g)
  <2>1. \A t \in Kept(g) : t \in Tests
    <3>1. g \in Scopes
      BY DEF Above
    <3>2. ASSUME NEW t \in Kept(g)  PROVE t \in Tests
      <4>1. PICK c \in Within(g) : t \in Own(c)
        BY <3>1, KeptIs
      <4>2. c \in Scopes
        BY <4>1 DEF Within
      <4>. QED  BY <4>1, <4>2, OwnAreTests
    <3>. QED  BY <3>2
  <2>. QED  BY <1>1, <2>1 DEF FailedIn
<1>. QED  BY <1>1, <1>2, <1>3 DEF SerialInv

LEMMA SerialDescends ==
    ASSUME FileTypeOK, OnceInv, OpenInv, SerialInv, test = NoTest, NEW s \in Scopes, Descend(s)
    PROVE  SerialInv'
<1>. PICK k : k = file.kids[s][at[s]]
  OBVIOUS
<1>0. file \in Shapes /\ at \in [Scopes -> Nat \ {0}]
  BY ReportTypedParts DEF PlaceTyped
<1>1. /\ file' = file /\ cur = s /\ cur' = k /\ results' = results /\ phase[s] = "suites" /\ test' = test
      /\ at[s] <= Len(file.kids[s]) /\ serialFailed' = serialFailed
  BY DEF Descend, AtSuite, SuiteLeft, ThisSuite, resultVars, testVars
<1>2. file.kids[s] \in Seq(Scopes) /\ DOMAIN file.kids[s] = 1..Len(file.kids[s]) /\ Len(file.kids[s]) \in Nat
  BY <1>0, Tree, LenProperties
<1>3. at[s] \in DOMAIN file.kids[s]
  BY <1>0, <1>1, <1>2
<1>4. k \in Kids(s) /\ k \in Scopes
  BY <1>0, <1>3, KidAt
<1>5. Fresh(k)
  <2>1. Progress(s)
    BY <1>0, <1>1, WithinSelf DEF OpenInv, Above
  <2>2. SuitesProgress(s)
    BY <1>1, <2>1 DEF Progress
  <2>. QED  BY <1>1, <1>3, <2>2 DEF SuitesProgress
<1>6. ~FailedIn(k)
  <2>1. ASSUME NEW t \in Kept(k)  PROVE results[t] # "failed"
    <3>1. PICK c \in Within(k) : t \in Own(c)
      BY <1>0, <1>4, KeptIs
    <3>2. c \in Scopes
      BY <3>1 DEF Within
    <3>3. t \in Tests /\ reports[t] = 0
      BY <1>0, <1>5, <3>1, <3>2, OwnAreTests DEF Fresh, NoneReported
    <3>. QED  BY <3>3 DEF OnceInv
  <2>. QED  BY <2>1 DEF FailedIn
<1>7. ASSUME NEW g \in Scopes, k \in Within(g), Group(g) = g, FailedIn(g)  PROVE g \in serialFailed
  <2>1. g # k
    BY <1>6, <1>7
  <2>2. s \in Within(g)
    BY <1>0, <1>4, <1>7, <2>1, AboveKid
  <2>. QED  BY <1>1, <1>7, <2>2 DEF SerialInv, Above
<1>8. Scopes' = Scopes /\ \A c : Group(c)' = Group(c) /\ Within(c)' = Within(c) /\ FailedIn(c)' = FailedIn(c)
  BY <1>1, SameFile DEF FailedIn
<1>. QED  BY <1>1, <1>7, <1>8 DEF SerialInv, Above

\* Leaving a scope in which a test failed notes the group it is in.
LEMMA SerialLeaves ==
    ASSUME FileTypeOK, SerialInv, test' = NoTest, file' = file, NEW s \in Scopes, s = cur, NEW ended, Leave(s, ended),
           \A t \in Tests \ Kept(s) : results'[t] = results[t]
    PROVE  SerialInv'
<1>. PICK p : p = Parent(s)
  OBVIOUS
<1>0. file \in Shapes /\ NoScope \notin Scopes
  BY ReportTypedParts, Tree
<1>1. Scopes' = Scopes /\ \A c : Group(c)' = Group(c) /\ Kept(c)' = Kept(c) /\ Within(c)' = Within(c)
  BY SameFile
<1>2. cur' = p
  BY DEF Leave
<1>3. ASSUME NEW g \in Scopes, p \in Within(g), Group(g) = g, FailedIn(g)'  PROVE g \in serialFailed'
  <2>1. p \in Scopes /\ p # NoScope
    BY <1>0, <1>3 DEF Within
  <2>2. ~IsRoot(s) /\ s \in Kids(p)
    BY <1>0, <2>1, RootOrKid
  <2>3. s \in Within(p) /\ s \in Within(g)
    <3>1. s \in Within(p)
      BY <1>0, <2>1, <2>2, WithinSelf, KidWithin
    <3>. QED  BY <1>0, <1>3, <3>1, WithinTrans
  <2>4. Group(p) = g /\ g # NoScope
    BY <1>0, <1>3, GroupBelow
  <2>5. PICK t \in Kept(g) : results'[t] = "failed"
    BY <1>1, <1>3 DEF FailedIn
  <2>6. CASE t \in Kept(s)
    BY <2>2, <2>4, <2>5, <2>6 DEF Leave
  <2>7. CASE t \notin Kept(s)
    <3>1. t \in Tests
      <4>1. PICK c \in Within(g) : t \in Own(c)
        BY <1>0, KeptIs
      <4>2. c \in Scopes
        BY <4>1 DEF Within
      <4>. QED  BY <1>0, <4>1, <4>2, OwnAreTests
    <3>2. FailedIn(g)
      BY <2>5, <2>7, <3>1 DEF FailedIn
    <3>3. g \in serialFailed
      BY <1>3, <2>3, <3>2 DEF SerialInv, Above
    <3>. QED  BY <3>3 DEF Leave
  <2>. QED  BY <2>6, <2>7
<1>. QED  BY <1>1, <1>2, <1>3 DEF SerialInv, Above

LEMMA InitSerial == Init => SerialInv
BY DEF Init, SerialInv, FailedIn, Kept, Tests, TestsIn, Within, Scopes

LEMMA NextSerial == FileTypeOK /\ RunInv /\ ReportInv /\ SerialInv /\ [Next]_vars => SerialInv'
<1>. SUFFICES ASSUME FileTypeOK, RunInv, OnceInv, OpenInv, SerialInv, [Next]_vars  PROVE SerialInv'
  BY DEF ReportInv
<1>0. file \in Shapes /\ NoScope \notin Scopes /\ NoTest \notin Tests
  BY ReportTypedParts, Tree
<1>1. ASSUME NEW s \in Scopes, StartTest(s)  PROVE SerialInv'
  <2>1. /\ cur = s /\ Group(s) \notin serialFailed /\ UNCHANGED <<file, cur, serialFailed, resultVars>>
    BY <1>1 DEF StartTest, AtTest, SkipsTests
  <2>2. SerialInv' <=> (test' # NoTest => Group(s) \notin serialFailed)
                       /\ \A g \in Above(s) : Group(g) = g /\ FailedIn(g) => g \in serialFailed
    <3>1. Scopes' = Scopes /\ \A c : Group(c)' = Group(c) /\ Within(c)' = Within(c) /\ FailedIn(c)' = FailedIn(c)
      BY <2>1, SameFile DEF FailedIn, resultVars
    <3>2. cur' = s
      BY <2>1
    <3>. QED  BY <2>1, <3>1, <3>2 DEF SerialInv, Above
  <2>. QED  BY <2>1, <2>2 DEF SerialInv
<1>2. ASSUME NEW s \in Scopes, Enter(s) \/ SetUp(s) \/ TestsDone(s) \/ PassOver(s) \/ SkipSuite(s)  PROVE SerialInv'
  <2>1. file' = file /\ cur' = cur /\ serialFailed' = serialFailed /\ test' = test
    BY <1>2 DEF Enter, SetUp, TestsDone, PassOver, SkipSuite, testVars
  <2>2. \A t \in Tests : results'[t] = "failed" => results[t] = "failed"
    BY <1>2 DEF Enter, SetUp, TestsDone, PassOver, SkipSuite, Report, resultVars
  <2>. QED  BY <1>0, <2>1, <2>2, SerialStays
<1>3. ASSUME NEW s \in Scopes, Descend(s)  PROVE SerialInv'
  <2>1. test = NoTest
    BY <1>3 DEF Descend, AtSuite, RunInv
  <2>. QED  BY <1>3, <2>1, SerialDescends
<1>4. ASSUME NEW s \in Scopes, Close(s)  PROVE SerialInv'
  <2>1. test = NoTest
    BY <1>4 DEF Close, AtSuite, RunInv
  <2>2. file' = file /\ test' = test /\ s = cur /\ Leave(s, "over") /\ results' = results
    BY <1>4 DEF Close, AtSuite, testVars, resultVars
  <2>. QED  BY <2>1, <2>2, SerialLeaves
<1>5. CASE SetupFails \/ SetupStopped
  <2>. PICK s : s = cur
    OBVIOUS
  <2>1. s \in Scopes
    BY <1>5, ReportTypedParts DEF SetupFails, SetupStopped, Fallible, Doing, RunInv, PlaceTyped
  <2>2. file' = file /\ test' = NoTest /\ Leave(s, "broken") /\ \A t \in Tests \ Kept(s) : results'[t] = results[t]
    BY <1>5 DEF SetupFails, SetupStopped, InSetup, Report, testVars, resultVars
  <2>. QED  BY <2>1, <2>2, SerialLeaves
<1>6. CASE EntryThrows
  <2>1. file' = file /\ cur' = NoScope /\ test' = NoTest
    BY <1>6 DEF EntryThrows, InSetup, testVars
  <2>. QED  BY <1>0, <2>1, SameFile DEF SerialInv, Above, Within
<1>7. CASE EndTest
  <2>. PICK s : s = cur
    OBVIOUS
  <2>1. test # NoTest /\ s \in Scopes /\ file' = file /\ cur' = s /\ test' = NoTest
    BY <1>7, ReportTypedParts DEF EndTest, InSetup, RunInv, PlaceTyped
  <2>2. PICK end \in Ends : /\ Report({test}, Final(end))
                            /\ serialFailed' = IF Final(end) = "failed" /\ Group(s) # NoScope
                                               THEN serialFailed \cup {Group(s)} ELSE serialFailed
    BY <1>7 DEF EndTest
  <2>3. Scopes' = Scopes /\ \A c : Group(c)' = Group(c) /\ Kept(c)' = Kept(c) /\ Within(c)' = Within(c)
    BY <2>1, SameFile
  <2>4. ASSUME NEW g \in Scopes, s \in Within(g), Group(g) = g, FailedIn(g)'  PROVE g \in serialFailed'
    <3>1. Group(s) = g /\ g # NoScope
      BY <1>0, <2>4, GroupBelow
    <3>2. PICK t \in Kept(g) : results'[t] = "failed"
      BY <2>3, <2>4 DEF FailedIn
    <3>3. t \in Tests
      <4>1. PICK c \in Within(g) : t \in Own(c)
        BY <1>0, KeptIs
      <4>2. c \in Scopes
        BY <4>1 DEF Within
      <4>. QED  BY <1>0, <4>1, <4>2, OwnAreTests
    <3>4. CASE Final(end) = "failed"
      BY <2>2, <3>1, <3>4
    <3>5. CASE Final(end) # "failed"
      <4>1. results[t] = "failed"
        BY <2>2, <3>2, <3>3, <3>5 DEF Report
      <4>2. g \in serialFailed
        BY <2>4, <4>1 DEF SerialInv, Above, FailedIn
      <4>. QED  BY <2>2, <4>2
    <3>. QED  BY <3>4, <3>5
  <2>. QED  BY <2>1, <2>3, <2>4 DEF SerialInv, Above
<1>8. CASE Reset \/ BeforeAllHook \/ BeforeAll \/ AfterAll \/ Rebuilt \/ SetupSkips \/ AttemptSetupFails
           \/ Body \/ Retry \/ Stop \/ Over \/ UNCHANGED vars
  <2>1. UNCHANGED <<file, cur, serialFailed, resultVars, test>>
    BY <1>8 DEF Begin, Reset, BeforeAllHook, BeforeAll, AfterAll, Rebuilt, SetupSkips, AttemptSetupFails, Body,
                 Retry, Stop, Over, vars, resultVars, testVars
  <2>. QED  BY <1>0, <2>1, SerialStays DEF resultVars
<1>. QED  BY <1>1, <1>2, <1>3, <1>4, <1>5, <1>6, <1>7, <1>8 DEF Next

-----------------------------------------------------------------------------
LEMMA Reporting == Spec => [](FileTypeOK /\ RunInv /\ ReportInv /\ SerialInv)
<1>. DEFINE Inv == FileTypeOK /\ RunInv /\ ReportInv /\ SerialInv
<1>1. Init => Inv
  BY InitTyped, InitRuns, InitReports, InitSerial
<1>2. Inv /\ [Next]_vars => Inv'
  BY NextTyped, NextRuns, NextReports, NextSerial
<1>. QED  BY <1>1, <1>2, PTL DEF Spec

\* FileTypeOK: a file's run keeps its place, its attempt, what it still has to do and
\* what the app carries within their types, in every file, tree of scopes and policy.
THEOREM FileTypeCorrect == Spec => []FileTypeOK
BY Reporting, PTL

\* Reported: a test is reported at most once, exactly once when the file ran to its
\* end (ReportedOnce), and none starts in a serial group in which one failed
\* (SerialStops), with any number of scopes, tests, hooks and retries.
THEOREM FileReported == Spec => []Reported
<1>1. FileTypeOK /\ ReportInv => ReportedOnce
  <2>. SUFFICES ASSUME FileTypeOK, OnceInv, OverInv, NEW t \in Tests
                PROVE  /\ reports[t] <= IF t \in file.out THEN 0 ELSE 1
                       /\ cur = NoScope /\ stopped = "no" /\ ~thrown /\ t \notin file.out => reports[t] = 1
    BY DEF ReportInv, ReportedOnce
  <2>1. PICK c \in Scopes : t \in Own(c)
    BY ReportTypedParts, TestHasScope
  <2>. QED  BY <2>1 DEF OnceInv, OverInv, AllReported
<1>2. FileTypeOK /\ RunInv /\ SerialInv => SerialStops
  <2>. SUFFICES ASSUME FileTypeOK, RunInv, SerialInv, test # NoTest, Group(cur) # NoScope
                PROVE  \A t \in Kept(Group(cur)) : results[t] # "failed"
    BY DEF SerialStops, Starting
  <2>1. file \in Shapes /\ cur \in Scopes
    BY ReportTypedParts DEF RunInv, PlaceTyped
  <2>2. Group(cur) \in Above(cur) /\ Group(Group(cur)) = Group(cur)
    BY <2>1, GroupHolds DEF Above
  <2>. QED  BY <2>2 DEF SerialInv, FailedIn
<1>. QED  BY <1>1, <1>2, Reporting, PTL DEF Reported

-----------------------------------------------------------------------------
(* Every beforeAll that completed is followed by its afterAll, unless the  *)
(* scope's own setup then broke.                                           *)

\* The agenda's beforeAll hooks are of scopes that are open and will close, or
\* break; what is up is such a scope, or one that broke.
AgendaRuns ==
    \A i \in DOMAIN agenda :
        agenda[i].op = "beforeAll" => agenda[i].of \in Above(cur) /\ HasRunnable(agenda[i].of)

UpInv ==
    /\ \A s \in Above(cur) \ {cur} : s \notin file.skipScopes
    /\ test # NoTest => cur \notin file.skipScopes /\ test \notin file.skip
    /\ AgendaRuns
    /\ \A s \in up : s \in file.after /\ HasRunnable(s) /\ (thrown \/ s \in Above(cur) \/ phase[s] = "broken")
    /\ thrown => cur = NoScope

LEMMA Antisymmetric ==
    ASSUME file \in Shapes, NEW s \in Scopes, NEW c \in Within(s), s \in Within(c)
    PROVE  s = c
<1>. SUFFICES ASSUME s # c PROVE FALSE
  OBVIOUS
<1>1. PICK k \in Kids(s) : c \in Within(k)
  BY WithinKid
<1>2. k \in Scopes
  BY KidPath
<1>3. s \in Within(k)
  BY <1>1, <1>2, WithinTrans
<1>. QED  BY <1>3, KidWithin

LEMMA OnPath ==
    ASSUME file \in Shapes, NEW c \in Scopes, NEW i \in DOMAIN Path(c)
    PROVE  Path(c)[i] \in Scopes /\ c \in Within(Path(c)[i])
BY Tree, ElementOfSeq DEF Within

\* A scope around one whose tests run has tests that run.
LEMMA RunnableAbove ==
    ASSUME file \in Shapes, NEW s \in Scopes, NEW d \in Within(s), HasRunnable(d),
           \A a \in Above(d) \ {d} : a \notin file.skipScopes
    PROVE  HasRunnable(s)
<1>1. d \in Scopes
  BY DEF Within
<1>2. PICK c \in Within(d) : /\ ~SkippedFrom(d, c)
                             /\ \E i \in DOMAIN file.tests[c] : file.tests[c][i] \notin file.out \cup file.skip
  BY DEF HasRunnable
<1>3. c \in Within(s) /\ c \in Scopes
  BY <1>1, <1>2, WithinTrans DEF Within
<1>4. ASSUME NEW i \in DOMAIN Path(c), Path(c)[i] \in file.skipScopes  PROVE FALSE
  <2>. PICK a : a = Path(c)[i]
    OBVIOUS
  <2>1. a \in Scopes /\ c \in Within(a) /\ a \in file.skipScopes
    BY <1>3, <1>4, OnPath
  <2>2. a \notin Within(d)
    BY <1>2, <1>4 DEF SkippedFrom
  <2>3. d \in Within(a)
    <3>1. Len(Path(a)) \in Nat /\ Len(Path(d)) \in Nat
      BY <1>1, <2>1, Tree, LenProperties
    <3>2. Len(Path(a)) <= Len(Path(d)) \/ Len(Path(d)) <= Len(Path(a))
      BY <3>1
    <3>. QED  BY <1>1, <1>2, <2>1, <2>2, <3>2, WithinBoth
  <2>4. a # d
    BY <1>1, <2>2, WithinSelf
  <2>. QED  BY <2>1, <2>3, <2>4 DEF Above
<1>. QED  BY <1>2, <1>3, <1>4 DEF HasRunnable, SkippedFrom

LEMMA RunnableHere ==
    ASSUME file \in Shapes, NEW s \in Scopes, s \notin file.skipScopes,
           NEW i \in DOMAIN file.tests[s], file.tests[s][i] \notin file.out \cup file.skip
    PROVE  HasRunnable(s)
<1>1. s \in Within(s)
  BY WithinSelf
<1>2. ~SkippedFrom(s, s)
  <2>1. ASSUME NEW j \in DOMAIN Path(s), Path(s)[j] \in Within(s)  PROVE Path(s)[j] = s
    <3>. PICK a : a = Path(s)[j]
      OBVIOUS
    <3>1. a \in Scopes /\ s \in Within(a) /\ a \in Within(s)
      BY <2>1, OnPath
    <3>. QED  BY <3>1, Antisymmetric
  <2>. QED  BY <2>1 DEF SkippedFrom
<1>. QED  BY <1>1, <1>2 DEF HasRunnable

LEMMA RootAlone ==
    ASSUME file \in Shapes, NEW s \in Scopes, IsRoot(s), NEW a \in Above(s)
    PROVE  a = s
<1>1. a \in Scopes /\ s \in Within(a)
  BY DEF Above
<1>2. s = file.root
  BY RootOrKid
<1>3. a \in Within(s)
  BY <1>1, <1>2, RootHoldsAll
<1>. QED  BY <1>1, <1>3, Antisymmetric

\* UpInv once the scope at hand is r.
LEMMA UpAt ==
    ASSUME file' = file, NEW r, cur' = r,
           \A s \in Above(r) \ {r} : s \notin file.skipScopes,
           test' # NoTest => r \notin file.skipScopes /\ test' \notin file.skip,
           \A i \in DOMAIN agenda' :
               agenda'[i].op = "beforeAll" => agenda'[i].of \in Above(r) /\ HasRunnable(agenda'[i].of),
           \A s \in up' : s \in file.after /\ HasRunnable(s) /\ (thrown' \/ s \in Above(r) \/ phase'[s] = "broken"),
           thrown' => r = NoScope
    PROVE  UpInv'
<1>1. \A s : HasRunnable(s)' = HasRunnable(s)
  BY SameFile
<1>2. Above(cur)' = Above(r)
  BY SameFile DEF Above, Within, Path
<1>3. \A i \in DOMAIN agenda' : HasRunnable(agenda[i].of)' = HasRunnable(agenda'[i].of)
  BY DEF HasRunnable, SkippedFrom, Within, Scopes, Path
<1>. QED  BY <1>1, <1>2, <1>3 DEF UpInv, AgendaRuns, Item

\* With nothing to do, a step of the scope at hand.
LEMMA NothingToDo ==
    ASSUME UpInv, file' = file, cur' = cur, agenda' = <<>>, up' = up, thrown' = thrown,
           \A s \in up : phase[s] = "broken" => phase'[s] = "broken",
           test' = NoTest \/ test' = test
    PROVE  UpInv'
<1>. PICK r : r = cur
  OBVIOUS
<1>1. cur' = r
  OBVIOUS
<1>2. DOMAIN agenda' = {}
  OBVIOUS
<1>. QED  BY <1>1, <1>2, UpAt DEF UpInv

LEMMA SameUp ==
    ASSUME UpInv, UNCHANGED <<file, cur, phase, test, agenda, up, thrown>>
    PROVE  UpInv'
<1>. PICK r : r = cur
  OBVIOUS
<1>. QED  BY UpAt DEF UpInv, AgendaRuns

\* A hook completes, or an item of the agenda is done.
LEMMA ItemDone ==
    ASSUME FileTypeOK, RunInv, UpInv, UNCHANGED <<file, cur, phase, test, thrown>>, agenda # <<>>,
           agenda' = agenda \/ Succeed,
           up' \in SUBSET up \/ (NextItem.op = "beforeAll" /\ HookCompleted)
    PROVE  UpInv'
<1>. PICK r : r = cur
  OBVIOUS
<1>0. agenda \in Seq(ItemsOf(Scopes)) /\ Len(agenda) \in Nat \ {0}
  <2>1. agenda \in Seq(ItemsOf(Scopes))
    BY ReportTypedParts DEF AgendaTyped
  <2>. QED  BY <2>1, EmptySeq, LenProperties
<1>1. ASSUME NEW i \in DOMAIN agenda', agenda'[i].op = "beforeAll"
      PROVE  agenda'[i].of \in Above(r) /\ HasRunnable(agenda'[i].of)
  <2>1. CASE agenda' = agenda
    BY <1>1, <2>1 DEF UpInv, AgendaRuns
  <2>2. CASE Succeed
    <3>1. agenda' = Tail(agenda) /\ agenda' \in Seq(ItemsOf(Scopes)) /\ Len(agenda') = Len(agenda) - 1
          /\ \A n \in 1..(Len(agenda) - 1) : agenda'[n] = agenda[n + 1]
      BY <1>0, <2>2, HeadTailProperties DEF Succeed
    <3>2. DOMAIN agenda' = 1..(Len(agenda) - 1) /\ DOMAIN agenda = 1..Len(agenda)
      BY <1>0, <3>1, LenProperties
    <3>3. i + 1 \in DOMAIN agenda /\ agenda'[i] = agenda[i + 1]
      <4>. PICK n : n = Len(agenda)
        OBVIOUS
      <4>1. i \in 1..(n - 1) /\ n \in Nat /\ \A m \in 1..(n - 1) : agenda'[m] = agenda[m + 1]
        BY <1>0, <3>1, <3>2
      <4>2. i + 1 \in 1..n
        BY <4>1
      <4>. QED  BY <3>2, <4>1, <4>2
    <3>4. agenda[i + 1].of \in Above(r) /\ HasRunnable(agenda[i + 1].of)
      BY <1>1, <3>3 DEF UpInv, AgendaRuns
    <3>. QED  BY <3>3, <3>4
  <2>. QED  BY <2>1, <2>2
<1>2. up' \in SUBSET up \/ /\ NextItem.op = "beforeAll" /\ NextItem.of \in file.after
                           /\ up' = up \cup {NextItem.of}
  BY DEF HookCompleted
<1>3. NextItem.op = "beforeAll" => NextItem.of \in Above(r) /\ HasRunnable(NextItem.of)
  <2>1. 1 \in DOMAIN agenda /\ NextItem = agenda[1]
    BY <1>0, LenProperties, HeadTailProperties DEF NextItem
  <2>2. agenda[1].op = "beforeAll" => agenda[1].of \in Above(r) /\ HasRunnable(agenda[1].of)
    BY <2>1 DEF UpInv, AgendaRuns
  <2>. QED  BY <2>1, <2>2
<1>4. \A s \in up' : s \in file.after /\ HasRunnable(s) /\ (thrown' \/ s \in Above(r) \/ phase'[s] = "broken")
  BY <1>2, <1>3 DEF UpInv
<1>5. /\ \A s \in Above(r) \ {r} : s \notin file.skipScopes
      /\ test' # NoTest => r \notin file.skipScopes /\ test' \notin file.skip
      /\ thrown' => r = NoScope
  BY DEF UpInv
<1>. QED  BY <1>1, <1>4, <1>5, UpAt

LEMMA BeforeAllOf ==
    ASSUME NEW C, NEW item \in ItemsOf(C), item.op = "beforeAll"
    PROVE  item.of \in C /\ item = Item("beforeAll", item.of)
BY DEF ItemsOf, Item

LEMMA EnterUp ==
    ASSUME FileTypeOK, RunInv, UpInv, NEW s \in Scopes, Enter(s)
    PROVE  UpInv'
<1>0. file \in Shapes /\ phase \in [Scopes -> Phases] /\ NoScope \notin Scopes
  BY ReportTypedParts, Tree DEF PlaceTyped
<1>1. /\ file' = file /\ cur = s /\ cur' = s /\ test' = test /\ up' = up /\ thrown' = thrown /\ phase[s] = "new"
      /\ phase'[s] = "setup"
  BY <1>0 DEF Enter, testVars, deviceVars
<1>2. test = NoTest
  BY <1>1 DEF RunInv
<1>3. \A a \in up : phase[a] = "broken" => phase'[a] = "broken"
  BY <1>0, <1>1 DEF Enter, UpInv, DeviceTyped, FileTypeOK
<1>4. \A a \in Above(s) \ {s} : a \notin file.skipScopes
  BY <1>1 DEF UpInv
<1>5. ASSUME NEW i \in DOMAIN agenda', agenda'[i].op = "beforeAll"
      PROVE  agenda'[i].of \in Above(s) /\ HasRunnable(agenda'[i].of)
  <2>. PICK item : item = agenda'[i]
    OBVIOUS
  <2>1. item \in ItemsOf(Above(s))
    BY EnterAgenda, ElementOfSeq, LenProperties
  <2>2. item.of \in Above(s)
    BY <1>5, <2>1, BeforeAllOf
  <2>3. HasRunnable(s)
    <3>1. agenda' # <<>>
      BY <1>5
    <3>. QED  BY <3>1 DEF Enter
  <2>4. item.of \in Scopes /\ s \in Within(item.of)
    BY <2>2 DEF Above
  <2>5. HasRunnable(item.of)
    BY <1>0, <1>4, <2>3, <2>4, RunnableAbove
  <2>. QED  BY <2>2, <2>5
<1>6. \A a \in up : a \in file.after /\ HasRunnable(a) /\ (thrown \/ a \in Above(s) \/ phase'[a] = "broken")
  BY <1>1, <1>3 DEF UpInv
<1>7. ~thrown
  BY <1>0, <1>1 DEF UpInv
<1>. QED  BY <1>1, <1>2, <1>4, <1>5, <1>6, <1>7, UpAt

\* An attempt's agenda is about the scopes around its test.
LEMMA BeginUp ==
    ASSUME FileTypeOK, UpInv, NEW s \in Scopes, cur = s, NEW t \in Tests, NEW k, Begin(t, k),
           NEW n \in DOMAIN file.tests[s], t = file.tests[s][n], t \notin file.out \cup file.skip, s \notin file.skipScopes,
           UNCHANGED <<file, cur, phase, up, thrown>>
    PROVE  UpInv'
<1>0. file \in Shapes /\ NoTest \notin Tests /\ NoScope \notin Scopes
  BY ReportTypedParts, Tree
<1>1. cur' = s /\ test' = t /\ test' # NoTest
  BY <1>0 DEF Begin
<1>2. \A a \in Above(s) \ {s} : a \notin file.skipScopes
  BY DEF UpInv
<1>3. ASSUME NEW i \in DOMAIN agenda', agenda'[i].op = "beforeAll"
      PROVE  agenda'[i].of \in Above(s) /\ HasRunnable(agenda'[i].of)
  <2>. PICK item : item = agenda'[i]
    OBVIOUS
  <2>1. item \in ItemsOf(Above(s))
    BY BeginAgenda, ElementOfSeq, LenProperties
  <2>2. item.of \in Above(s)
    BY <1>3, <2>1, BeforeAllOf
  <2>3. HasRunnable(s)
    BY <1>0, RunnableHere
  <2>4. item.of \in Scopes /\ s \in Within(item.of)
    BY <2>2 DEF Above
  <2>5. HasRunnable(item.of)
    BY <1>0, <1>2, <2>3, <2>4, RunnableAbove
  <2>. QED  BY <2>2, <2>5
<1>4. \A a \in up : a \in file.after /\ HasRunnable(a) /\ (thrown \/ a \in Above(s) \/ phase[a] = "broken")
  BY DEF UpInv
<1>5. ~thrown
  BY <1>0 DEF UpInv
<1>. QED  BY <1>1, <1>2, <1>3, <1>4, <1>5, UpAt

\* A scope is left with its afterAll behind it, or broken.
LEMMA LeavesUp ==
    ASSUME FileTypeOK, UpInv, file' = file, NEW s \in Scopes, s = cur, NEW ended, Leave(s, ended),
           up' \in SUBSET up, s \in up' => ended = "broken", agenda' = <<>>, test' = NoTest, thrown' = thrown
    PROVE  UpInv'
<1>. PICK p : p = Parent(s)
  OBVIOUS
<1>0. file \in Shapes /\ NoScope \notin Scopes /\ phase \in [Scopes -> Phases] /\ up \in SUBSET Scopes
  BY ReportTypedParts, Tree DEF PlaceTyped, DeviceTyped
<1>1. cur' = p /\ phase'[s] = ended /\ \A c \in Scopes \ {s} : phase'[c] = phase[c]
  BY <1>0 DEF Leave
<1>2. ~thrown
  BY <1>0 DEF UpInv
<1>3. DOMAIN agenda' = {}
  OBVIOUS
<1>4. ASSUME NEW a \in up'
      PROVE  /\ a \in file.after /\ HasRunnable(a)
             /\ (phase'[a] = "broken" \/ a \in Above(s) \ {s})
  <2>1. a \in file.after /\ HasRunnable(a) /\ (a \in Above(s) \/ phase[a] = "broken") /\ a \in Scopes
    BY <1>0, <1>2 DEF UpInv
  <2>. QED  BY <1>1, <1>4, <2>1
<1>5. CASE IsRoot(s)
  <2>1. p = NoScope
    BY <1>0, <1>5, RootOrKid
  <2>2. Above(p) = {}
    BY <1>0, <2>1 DEF Above, Within
  <2>3. \A a \in up' : a \in file.after /\ HasRunnable(a) /\ phase'[a] = "broken"
    BY <1>0, <1>4, <1>5, RootAlone
  <2>. QED  BY <1>1, <1>2, <1>3, <2>1, <2>2, <2>3, UpAt
<1>6. CASE ~IsRoot(s)
  <2>1. p \in Scopes /\ s \in Kids(p)
    BY <1>0, <1>6, RootOrKid
  <2>2. s \in Within(p) /\ s # p
    BY <1>0, <2>1, WithinSelf, KidWithin
  <2>3. ASSUME NEW a \in Above(p)  PROVE a \in Above(s) /\ a # s
    <3>1. a \in Scopes /\ p \in Within(a)
      BY DEF Above
    <3>. QED  BY <1>0, <2>1, <2>2, <3>1, WithinTrans, KidWithin DEF Above
  <2>4. \A a \in Above(p) \ {p} : a \notin file.skipScopes
    BY <2>3 DEF UpInv
  <2>5. ASSUME NEW a \in up'
        PROVE  a \in file.after /\ HasRunnable(a) /\ (a \in Above(p) \/ phase'[a] = "broken")
    <3>1. ASSUME a \in Above(s) \ {s}  PROVE a \in Above(p)
      <4>1. p \in Within(a) /\ a \in Scopes
        BY <1>0, <2>1, <3>1, AboveKid DEF Above
      <4>. QED  BY <4>1 DEF Above
    <3>. QED  BY <1>4, <3>1
  <2>. QED  BY <1>1, <1>2, <1>3, <2>4, <2>5, UpAt
<1>. QED  BY <1>5, <1>6

LEMMA DescendUp ==
    ASSUME FileTypeOK, RunInv, UpInv, NEW s \in Scopes, Descend(s)
    PROVE  UpInv'
<1>. PICK k : k = file.kids[s][at[s]]
  OBVIOUS
<1>0. file \in Shapes /\ NoScope \notin Scopes /\ at \in [Scopes -> Nat \ {0}]
  BY ReportTypedParts, Tree DEF PlaceTyped
<1>1. /\ file' = file /\ cur = s /\ cur' = k /\ phase[s] = "suites" /\ at[s] <= Len(file.kids[s])
      /\ up' = up /\ thrown' = thrown /\ agenda' = agenda /\ test' = test /\ s \notin file.skipScopes
      /\ phase' = phase
  BY DEF Descend, AtSuite, SuiteLeft, ThisSuite, SkipsSuite, SkipsTests, deviceVars, testVars
<1>2. test = NoTest /\ agenda = <<>>
  BY <1>1 DEF RunInv
<1>3. at[s] \in DOMAIN file.kids[s]
  <2>1. file.kids[s] \in Seq(Scopes)
    BY <1>0, Tree
  <2>. QED  BY <1>0, <1>1, <2>1, LenProperties
<1>4. k \in Kids(s) /\ k \in Scopes
  BY <1>0, <1>3, KidAt
<1>5. k \in Within(s) /\ k # s
  BY <1>0, <1>4, WithinSelf, KidWithin
<1>6. ~thrown
  BY <1>0, <1>1 DEF UpInv
<1>7. \A a \in Above(k) \ {k} : a \notin file.skipScopes
  <2>1. ASSUME NEW a \in Above(k), a # k  PROVE a \notin file.skipScopes
    <3>1. a \in Scopes /\ k \in Within(a)
      BY <2>1 DEF Above
    <3>2. s \in Within(a)
      BY <1>0, <1>4, <2>1, <3>1, AboveKid
    <3>. QED  BY <1>1, <3>1, <3>2 DEF UpInv, Above
  <2>. QED  BY <2>1
<1>8. ASSUME NEW a \in up  PROVE a \in file.after /\ HasRunnable(a) /\ (a \in Above(k) \/ phase[a] = "broken")
  <2>1. a \in file.after /\ HasRunnable(a) /\ (phase[a] = "broken" \/ (a \in Scopes /\ s \in Within(a)))
    BY <1>1, <1>6 DEF UpInv, Above
  <2>2. ASSUME a \in Scopes, s \in Within(a)  PROVE a \in Above(k)
    BY <1>0, <1>5, <2>2, WithinTrans DEF Above
  <2>. QED  BY <2>1, <2>2
<1>9. DOMAIN agenda' = {}
  BY <1>1, <1>2
<1>. QED  BY <1>1, <1>2, <1>6, <1>7, <1>8, <1>9, UpAt

LEMMA InitUp == Init => UpInv
<1>. SUFFICES ASSUME Init PROVE UpInv
  OBVIOUS
<1>0. file \in Shapes /\ cur = file.root /\ cur \in Scopes /\ IsRoot(cur)
  BY Tree, RootOrKid DEF Init
<1>1. Above(cur) \ {cur} = {}
  BY <1>0, RootAlone
<1>2. test = NoTest /\ agenda = <<>> /\ up = {} /\ thrown = FALSE
  BY DEF Init
<1>. QED  BY <1>1, <1>2 DEF UpInv, AgendaRuns

LEMMA NextUp == FileTypeOK /\ RunInv /\ ReportInv /\ UpInv /\ [Next]_vars => UpInv'
<1>. SUFFICES ASSUME FileTypeOK, RunInv, OpenInv, UpInv, [Next]_vars  PROVE UpInv'
  BY DEF ReportInv
<1>0. /\ file \in Shapes /\ NoScope \notin Scopes /\ phase \in [Scopes -> Phases] /\ at \in [Scopes -> Nat \ {0}]
      /\ cur \in Scopes \cup {NoScope} /\ up \in SUBSET Scopes
  BY ReportTypedParts, Tree DEF PlaceTyped, DeviceTyped
<1>1. ASSUME NEW s \in Scopes, Enter(s)  PROVE UpInv'
  BY <1>1, EnterUp
<1>2. ASSUME NEW s \in Scopes, SetUp(s) \/ TestsDone(s) \/ PassOver(s) \/ SkipSuite(s)  PROVE UpInv'
  <2>1. cur = s /\ test = NoTest /\ agenda = <<>>
    BY <1>2 DEF SetUp, TestsDone, PassOver, SkipSuite, AtTest, AtSuite, RunInv
  <2>2. file' = file /\ cur' = cur /\ agenda' = agenda /\ up' = up /\ thrown' = thrown /\ test' = test
    BY <1>2 DEF SetUp, TestsDone, PassOver, SkipSuite, testVars, deviceVars
  <2>3. \A a \in up : phase[a] = "broken" => phase'[a] = "broken"
    BY <1>0, <1>2 DEF SetUp, TestsDone, PassOver, SkipSuite, AtTest, AtSuite
  <2>. QED  BY <2>1, <2>2, <2>3, NothingToDo
<1>3. ASSUME NEW s \in Scopes, StartTest(s)  PROVE UpInv'
  <2>. PICK t : t = file.tests[s][at[s]]
    OBVIOUS
  <2>1. /\ cur = s /\ phase[s] = "tests" /\ at[s] <= Len(file.tests[s]) /\ Begin(t, 0)
        /\ t \notin file.out \cup file.skip /\ s \notin file.skipScopes
        /\ UNCHANGED <<file, cur, phase, up, thrown>>
    BY <1>3 DEF StartTest, AtTest, TestLeft, ThisTest, SkipsTests, deviceVars
  <2>2. at[s] \in DOMAIN file.tests[s] /\ t \in Tests
    <3>1. file.tests[s] \in Seq(Tests)
      BY <1>0, Tree
    <3>. QED  BY <1>0, <2>1, <3>1, LenProperties, ElementOfSeq
  <2>. QED  BY <2>1, <2>2, BeginUp
<1>4. ASSUME NEW s \in Scopes, Descend(s)  PROVE UpInv'
  BY <1>4, DescendUp
<1>5. ASSUME NEW s \in Scopes, Close(s)  PROVE UpInv'
  <2>1. /\ s = cur /\ phase[s] = "suites" /\ file' = file /\ Leave(s, "over") /\ agenda' = agenda
        /\ test' = test /\ thrown' = thrown
    BY <1>5 DEF Close, AtSuite, testVars
  <2>2. test = NoTest /\ agenda = <<>>
    BY <2>1 DEF RunInv
  <2>3. up' \in SUBSET up /\ s \notin up'
    <3>1. CASE Closes(s)
      BY <1>5, <3>1 DEF Close, RanAfterAll
    <3>2. CASE ~Closes(s)
      <4>1. up' = up
        BY <1>5, <3>2 DEF Close
      <4>2. s \notin up
        BY <3>2 DEF Closes, UpInv
      <4>. QED  BY <4>1, <4>2
    <3>. QED  BY <3>1, <3>2
  <2>. QED  BY <2>1, <2>2, <2>3, LeavesUp
<1>6. CASE SetupFails \/ SetupStopped
  <2>. PICK s : s = cur
    OBVIOUS
  <2>1. test = NoTest /\ agenda # <<>> /\ s \in Scopes
    BY <1>0, <1>6 DEF SetupFails, SetupStopped, Fallible, Doing, InSetup, RunInv
  <2>2. file' = file /\ Leave(s, "broken") /\ agenda' = <<>> /\ test' = NoTest /\ thrown' = thrown /\ up' = up
    BY <1>6, <2>1 DEF SetupFails, SetupStopped, testVars, deviceVars
  <2>. QED  BY <2>1, <2>2, LeavesUp
<1>7. CASE EntryThrows
  <2>1. file' = file /\ cur' = NoScope /\ test' = NoTest /\ agenda' = <<>> /\ up' = up /\ thrown'
    BY <1>7 DEF EntryThrows, InSetup, testVars
  <2>2. Above(NoScope) = {}
    BY <1>0 DEF Above, Within
  <2>3. DOMAIN agenda' = {}
    BY <2>1
  <2>4. \A s \in up' : s \in file.after /\ HasRunnable(s)
    BY <2>1 DEF UpInv
  <2>. QED  BY <2>1, <2>2, <2>3, <2>4, UpAt
<1>8. CASE SetupSkips \/ AttemptSetupFails \/ EndTest
  <2>1. agenda' = <<>>
    BY <1>8 DEF SetupSkips, AttemptSetupFails, EndTest
  <2>2. file' = file /\ cur' = cur /\ phase' = phase /\ up' = up /\ thrown' = thrown /\ (test' = NoTest \/ test' = test)
    BY <1>8 DEF SetupSkips, AttemptSetupFails, EndTest, testVars
  <2>. QED  BY <2>1, <2>2, NothingToDo
<1>9. CASE Reset \/ BeforeAllHook \/ BeforeAll \/ AfterAll \/ Rebuilt
  <2>1. UNCHANGED <<file, cur, phase, test, thrown>> /\ agenda # <<>> /\ (agenda' = agenda \/ Succeed)
    BY <1>9 DEF Reset, BeforeAllHook, BeforeAll, AfterAll, Rebuilt, Doing, testVars
  <2>2. up' \in SUBSET up \/ (NextItem.op = "beforeAll" /\ HookCompleted)
    <3>1. CASE Reset \/ AfterAll \/ Rebuilt
      BY <3>1 DEF Reset, AfterAll, Rebuilt, RanAfterAll, deviceVars
    <3>2. CASE BeforeAllHook \/ BeforeAll
      BY <3>2 DEF BeforeAllHook, BeforeAll, Doing
    <3>. QED  BY <1>9, <3>1, <3>2
  <2>. QED  BY <2>1, <2>2, ItemDone
<1>10. CASE Retry
  <2>. PICK s : s = cur
    OBVIOUS
  <2>. PICK t : t = test
    OBVIOUS
  <2>1. t # NoTest /\ s \in Scopes
    BY <1>0, <1>10 DEF Retry, InSetup, RunInv
  <2>2. phase[s] = "tests" /\ at[s] \in DOMAIN file.tests[s] /\ t = file.tests[s][at[s]] /\ t \notin file.out
    BY <2>1 DEF RunInv, ThisTest
  <2>3. t \in Tests
    BY <1>0, <2>1, <2>2, OwnAreTests DEF Own
  <2>4. s \notin file.skipScopes /\ t \notin file.skip
    BY <2>1 DEF UpInv
  <2>5. Begin(t, attempt + 1) /\ UNCHANGED <<file, cur, phase, up, thrown>>
    BY <1>10 DEF Retry
  <2>. QED  BY <2>1, <2>2, <2>3, <2>4, <2>5, BeginUp
<1>11. CASE Body \/ Stop \/ Over \/ UNCHANGED vars
  <2>1. UNCHANGED <<file, cur, phase, test, agenda, up, thrown>>
    BY <1>11 DEF Body, Stop, Over, vars, testVars, deviceVars
  <2>. QED  BY <2>1, SameUp
<1>. QED  BY <1>1, <1>2, <1>3, <1>4, <1>5, <1>6, <1>7, <1>8, <1>9, <1>10, <1>11 DEF Next

\* EverySetupTornDown: when the file is over every beforeAll hook that completed, of
\* a setup, of a fresh start or of a retry, has been followed by its scope's
\* afterAll, unless the scope's own setup then failed or was stopped.
THEOREM FileTornDown == Spec => []EverySetupTornDown
<1>1. Init => UpInv
  BY InitUp
<1>2. FileTypeOK /\ RunInv /\ ReportInv /\ UpInv /\ [Next]_vars => UpInv'
  BY NextUp
<1>3. FileTypeOK /\ UpInv => EverySetupTornDown
  <2>. SUFFICES ASSUME FileTypeOK, UpInv, cur = NoScope, ~thrown  PROVE \A s \in up : phase[s] = "broken"
    BY DEF EverySetupTornDown
  <2>1. NoScope \notin Scopes
    BY ReportTypedParts, Tree
  <2>2. Above(cur) = {}
    BY <2>1 DEF Above, Within
  <2>. QED  BY <2>2 DEF UpInv
<1>. QED  BY <1>1, <1>2, <1>3, Reporting, PTL DEF Spec

-----------------------------------------------------------------------------
(* The budget.  It counts the wall clock less the time in actions that the *)
(* listener saw; the properties speak of the time the run itself had no    *)
(* action in flight.  The strengthening compares the two: the listener's   *)
(* depth is never below the run's own actions until an action of another   *)
(* run ends, and equal to them while no other run has any.                 *)

Outcomes == {"new", "running", "ended", "timedOut", "stopped"}

BudgetTypeOK ==
    /\ kind \in [Runs -> Kinds]
    /\ run \in Runs
    /\ outcome \in [Runs -> Outcomes]
    /\ abandoned \in BOOLEAN /\ aborted \in BOOLEAN /\ disturbed \in BOOLEAN
    /\ token \in [Runs -> BOOLEAN]
    /\ inFlight \in [Runs -> Nat]
    /\ wall \in Nat /\ total \in Nat /\ depth \in Nat /\ since \in Nat /\ spent \in Nat
    /\ timer \in Int

\* Runs follow one another; one that has not started has no action.
SequenceInv ==
    \A r \in Runs :
        /\ r > run => outcome[r] = "new"
        /\ r < run => outcome[r] \in {"ended", "timedOut", "stopped"}
        /\ outcome[r] = "new" => inFlight[r] = 0

\* A run that was given up is abandoned, and a run before the one at hand that
\* was given up or was a test body has its token closed.
FenceInv ==
    /\ outcome[run] \in {"timedOut", "stopped"} => abandoned
    /\ \A r \in Runs : r < run => token[r] \/ (outcome[r] = "ended" /\ kind[r] # "body")

\* No run but the one at hand can have an action.
Alone == \A r \in 1..run - 1 : inFlight[r] = 0 /\ token[r]

\* The clocks of a run that has not started stand at 0; the check of one that
\* runs comes before the cap on its wall clock.
ClockInv ==
    /\ outcome[run] = "new" =>
          wall = 0 /\ total = 0 /\ depth = 0 /\ since = 0 /\ spent = 0 /\ ~disturbed
    /\ depth = 0 => since = 0
    /\ Running => timer >= -Late /\ wall + timer <= WallCap

\* What is counted, against the run's own time, and the check against the budget.
CountInv ==
    Running /\ ~disturbed =>
        /\ depth >= inFlight[run] /\ Counted <= spent
        /\ Alone => depth = inFlight[run] /\ Counted = spent /\ spent + timer <= Timeout

DueInv == outcome[run] = "timedOut" /\ ~disturbed => spent >= Timeout \/ wall >= WallCap

BudgetInv == BudgetTypeOK /\ SequenceInv /\ FenceInv /\ ClockInv /\ CountInv /\ DueInv

-----------------------------------------------------------------------------
LEMMA RunsNumbered == run \in Runs => run \in Nat /\ \A r \in Runs : r \in Nat
BY BudgetAssumption DEF Runs

LEMMA Fits ==
    ASSUME NEW x \in Nat, NEW y \in Nat, NEW z \in Nat, x <= z - y
    PROVE  y + x <= z
OBVIOUS

LEMMA BudgetInvInit == BudgetInit => BudgetInv
<1>. SUFFICES ASSUME BudgetInit PROVE BudgetInv
  OBVIOUS
<1>0. 1 \in Runs
  BY BudgetAssumption DEF Runs
<1>1. BudgetTypeOK
  <2>1. abandoned \in BOOLEAN /\ aborted \in BOOLEAN /\ disturbed \in BOOLEAN
    BY DEF BudgetInit
  <2>2. token \in [Runs -> BOOLEAN] /\ outcome \in [Runs -> Outcomes]
    BY DEF BudgetInit, Outcomes
  <2>3. run \in Runs /\ kind \in [Runs -> Kinds] /\ inFlight \in [Runs -> Nat]
    BY <1>0 DEF BudgetInit
  <2>4. /\ wall \in Nat /\ total \in Nat /\ depth \in Nat /\ since \in Nat /\ spent \in Nat
        /\ timer \in Int
    BY DEF BudgetInit
  <2>. QED  BY <2>1, <2>2, <2>3, <2>4 DEF BudgetTypeOK
<1>2. SequenceInv /\ FenceInv
  BY <1>0, BudgetAssumption DEF BudgetInit, SequenceInv, FenceInv, Runs
<1>3. ClockInv /\ CountInv /\ DueInv
  BY <1>0 DEF BudgetInit, ClockInv, CountInv, DueInv, Running
<1>. QED  BY <1>1, <1>2, <1>3 DEF BudgetInv

LEMMA StartInv ==
    ASSUME BudgetInv, Start
    PROVE  BudgetInv'
<1>1. /\ outcome[run] = "new"
      /\ timer' = Least(Poll, Timeout)
      /\ outcome' = [outcome EXCEPT ![run] = "running"]
      /\ abandoned' = FALSE
      /\ UNCHANGED <<kind, run, token, inFlight, wall, total, depth, since, aborted, spent, disturbed>>
  BY DEF Start
<1>2. BudgetTypeOK /\ run \in Runs /\ inFlight[run] = 0
      /\ wall = 0 /\ total = 0 /\ depth = 0 /\ since = 0 /\ spent = 0
  BY <1>1 DEF BudgetInv, BudgetTypeOK, SequenceInv, ClockInv
<1>3. timer' \in Nat /\ timer' <= Timeout /\ Timeout <= WallCap /\ Late \in Nat
      /\ WallCap \in Nat /\ Timeout \in Nat
  BY <1>1, BudgetAssumption DEF Least
<1>4. outcome'[run] = "running" /\ \A r \in Runs \ {run} : outcome'[r] = outcome[r]
  BY <1>1, <1>2 DEF BudgetTypeOK
<1>5. BudgetTypeOK'
  <2>1. outcome' \in [Runs -> Outcomes]
    BY <1>1, <1>2 DEF BudgetTypeOK, Outcomes
  <2>2. abandoned' \in BOOLEAN
    BY <1>1
  <2>. QED  BY <1>1, <1>2, <1>3, <2>1, <2>2 DEF BudgetTypeOK
<1>6. SequenceInv'
  BY <1>1, <1>2, <1>4, RunsNumbered DEF BudgetInv, SequenceInv
<1>7. FenceInv'
  <2>1. \A r \in Runs : r < run => r # run
    BY <1>2, RunsNumbered
  <2>. QED  BY <1>1, <1>2, <1>4, <2>1 DEF BudgetInv, FenceInv
<1>8. ClockInv'
  BY <1>1, <1>2, <1>3, <1>4 DEF ClockInv
<1>9. CountInv' /\ DueInv'
  BY <1>1, <1>2, <1>3, <1>4 DEF CountInv, DueInv, Counted
<1>. QED  BY <1>5, <1>6, <1>7, <1>8, <1>9 DEF BudgetInv

LEMMA ActionStartsInv ==
    ASSUME NEW r \in Runs, BudgetInv, ActionStarts(r)
    PROVE  BudgetInv'
<1>1. /\ outcome[r] # "new" /\ ~token[r]
      /\ inFlight' = [inFlight EXCEPT ![r] = inFlight[r] + 1]
      /\ depth' = depth + (IF Running THEN 1 ELSE 0)
      /\ UNCHANGED <<kind, run, outcome, abandoned, token, wall, total, since, timer, aborted, spent, disturbed>>
  BY DEF ActionStarts
<1>2. BudgetTypeOK /\ run \in Runs
  BY DEF BudgetInv, BudgetTypeOK
<1>3. inFlight'[r] = inFlight[r] + 1 /\ \A u \in Runs \ {r} : inFlight'[u] = inFlight[u]
  BY <1>1, <1>2 DEF BudgetTypeOK
<1>4. r <= run
  BY <1>1, <1>2, RunsNumbered DEF BudgetInv, SequenceInv
<1>5. BudgetTypeOK'
  BY <1>1, <1>2 DEF BudgetTypeOK
<1>6. SequenceInv'
  BY <1>1, <1>3 DEF BudgetInv, SequenceInv
<1>7. FenceInv' /\ DueInv'
  BY <1>1 DEF BudgetInv, FenceInv, DueInv
<1>8. ClockInv'
  BY <1>1, <1>2 DEF BudgetInv, ClockInv, Running, BudgetTypeOK
<1>9. CountInv'
  <2>. SUFFICES ASSUME Running', ~disturbed' PROVE CountInv'
    BY DEF CountInv
  <2>1. Running /\ ~disturbed /\ depth' = depth + 1
    BY <1>1 DEF Running
  <2>2. Counted' = Counted
    BY <1>1, <1>2, <2>1 DEF BudgetInv, ClockInv, Counted, BudgetTypeOK
  <2>3. depth >= inFlight[run] /\ Counted <= spent
        /\ (Alone => depth = inFlight[run] /\ Counted = spent /\ spent + timer <= Timeout)
    BY <2>1 DEF BudgetInv, CountInv
  <2>4. inFlight'[run] <= inFlight[run] + 1
    BY <1>2, <1>3 DEF BudgetTypeOK
  <2>5. depth' >= inFlight'[run] /\ Counted' <= spent'
    BY <1>1, <1>2, <1>5, <2>1, <2>2, <2>3, <2>4 DEF BudgetTypeOK
  <2>6. ASSUME Alone'
        PROVE  depth' = inFlight'[run] /\ Counted' = spent' /\ spent' + timer' <= Timeout
    <3>1. r = run
      <4>1. \A u \in 1..run - 1 : token[u]
        BY <1>1, <2>6 DEF Alone
      <4>. QED  BY <1>1, <1>2, <1>4, <4>1, RunsNumbered DEF Runs
    <3>2. \A u \in 1..run - 1 : u \in Runs \ {r}
      BY <1>2, <3>1, BudgetAssumption DEF Runs
    <3>3. Alone
      BY <1>1, <1>3, <2>6, <3>2 DEF Alone
    <3>. QED  BY <1>1, <1>3, <2>1, <2>2, <2>3, <3>1, <3>3
  <2>. QED  BY <1>1, <2>5, <2>6 DEF CountInv
<1>. QED  BY <1>5, <1>6, <1>7, <1>8, <1>9 DEF BudgetInv

LEMMA ActionEndsInv ==
    ASSUME NEW r \in Runs, BudgetInv, ActionEnds(r)
    PROVE  BudgetInv'
<1>1. /\ inFlight[r] > 0
      /\ inFlight' = [inFlight EXCEPT ![r] = inFlight[r] - 1]
      /\ disturbed' = (disturbed \/ (Running /\ r # run))
      /\ UNCHANGED <<kind, run, outcome, abandoned, token, wall, timer, aborted, spent>>
  BY DEF ActionEnds
<1>2. IF Running /\ depth > 0
      THEN /\ depth' = depth - 1
           /\ total' = IF depth = 1 THEN total + since ELSE total
           /\ since' = IF depth = 1 THEN 0 ELSE since
      ELSE UNCHANGED <<depth, total, since>>
  BY DEF ActionEnds
<1>3. BudgetTypeOK /\ run \in Runs
  BY DEF BudgetInv, BudgetTypeOK
<1>4. inFlight'[r] = inFlight[r] - 1 /\ \A u \in Runs \ {r} : inFlight'[u] = inFlight[u]
  BY <1>1, <1>3 DEF BudgetTypeOK
<1>5. BudgetTypeOK'
  <2>1. inFlight' \in [Runs -> Nat]
    BY <1>1, <1>3 DEF BudgetTypeOK
  <2>2. depth' \in Nat /\ total' \in Nat /\ since' \in Nat
    BY <1>2, <1>3 DEF BudgetTypeOK
  <2>3. disturbed' \in BOOLEAN
    BY <1>1, <1>3 DEF BudgetTypeOK
  <2>. QED  BY <1>1, <1>3, <2>1, <2>2, <2>3 DEF BudgetTypeOK
<1>6. SequenceInv'
  BY <1>1, <1>4 DEF BudgetInv, SequenceInv
<1>7. FenceInv' /\ DueInv'
  BY <1>1 DEF BudgetInv, FenceInv, DueInv
<1>8. ClockInv'
  <2>1. outcome[r] # "new"
    BY <1>1 DEF BudgetInv, SequenceInv
  <2>2. outcome[run] = "new" => ~Running /\ r # run
    BY <2>1 DEF Running
  <2>. QED  BY <1>1, <1>2, <1>3, <2>2 DEF BudgetInv, ClockInv, Running, BudgetTypeOK
<1>9. CountInv'
  <2>. SUFFICES ASSUME Running', ~disturbed' PROVE CountInv'
    BY DEF CountInv
  <2>1. Running /\ ~disturbed /\ r = run
    BY <1>1 DEF Running
  <2>2. depth >= inFlight[run] /\ Counted <= spent
        /\ (Alone => depth = inFlight[run] /\ Counted = spent /\ spent + timer <= Timeout)
    BY <2>1 DEF BudgetInv, CountInv
  <2>3. depth > 0 /\ depth' = depth - 1
    BY <1>1, <1>2, <1>3, <2>1, <2>2 DEF BudgetTypeOK
  <2>4. Counted' = Counted
    <3>1. depth = 1 => total' = total + since /\ depth' = 0
      BY <1>2, <2>1, <2>3
    <3>2. depth # 1 => total' = total /\ since' = since /\ depth' > 0
      BY <1>2, <1>3, <2>1, <2>3 DEF BudgetTypeOK
    <3>. QED  BY <1>1, <1>3, <2>3, <3>1, <3>2 DEF Counted, BudgetTypeOK
  <2>5. depth' >= inFlight'[run] /\ Counted' <= spent'
    BY <1>1, <1>3, <1>4, <2>1, <2>2, <2>3, <2>4 DEF BudgetTypeOK
  <2>6. ASSUME Alone'
        PROVE  depth' = inFlight'[run] /\ Counted' = spent' /\ spent' + timer' <= Timeout
    <3>1. \A u \in 1..run - 1 : u \in Runs \ {r}
      BY <1>3, <2>1, BudgetAssumption DEF Runs
    <3>2. Alone
      BY <1>1, <1>4, <2>6, <3>1 DEF Alone
    <3>. QED  BY <1>1, <1>4, <2>1, <2>2, <2>3, <2>4, <3>2
  <2>. QED  BY <1>1, <2>5, <2>6 DEF CountInv
<1>. QED  BY <1>5, <1>6, <1>7, <1>8, <1>9 DEF BudgetInv

LEMMA TickInv ==
    ASSUME BudgetInv, Tick
    PROVE  BudgetInv'
<1>1. /\ Running /\ timer > -Late
      /\ wall' = wall + 1 /\ timer' = timer - 1
      /\ since' = IF depth > 0 THEN since + 1 ELSE since
      /\ spent' = IF inFlight[run] = 0 THEN spent + 1 ELSE spent
      /\ UNCHANGED <<kind, run, outcome, abandoned, token, inFlight, total, depth, aborted, disturbed>>
  BY DEF Tick
<1>2. BudgetTypeOK /\ Late \in Nat /\ WallCap \in Nat /\ inFlight[run] \in Nat
  BY BudgetAssumption DEF BudgetInv, BudgetTypeOK
<1>3. BudgetTypeOK'
  <2>1. wall' \in Nat /\ timer' \in Int /\ since' \in Nat /\ spent' \in Nat
    BY <1>1, <1>2 DEF BudgetTypeOK
  <2>. QED  BY <1>1, <1>2, <2>1 DEF BudgetTypeOK
<1>4. SequenceInv' /\ FenceInv' /\ DueInv'
  <2>1. outcome'[run'] = "running"
    BY <1>1 DEF Running
  <2>. QED  BY <1>1, <2>1 DEF BudgetInv, SequenceInv, FenceInv, DueInv
<1>5. ClockInv'
  <2>1. timer' >= -Late /\ wall' + timer' = wall + timer
    BY <1>1, <1>2 DEF BudgetTypeOK
  <2>. QED  BY <1>1, <1>2, <2>1 DEF BudgetInv, ClockInv, Running, BudgetTypeOK
<1>6. CountInv'
  <2>. SUFFICES ASSUME ~disturbed' PROVE CountInv'
    BY DEF CountInv
  <2>1. depth >= inFlight[run] /\ Counted <= spent
        /\ (Alone => depth = inFlight[run] /\ Counted = spent /\ spent + timer <= Timeout)
    BY <1>1 DEF BudgetInv, CountInv
  <2>2. Counted' = Counted + (IF depth > 0 THEN 0 ELSE 1) /\ Counted \in Int
    BY <1>1, <1>2 DEF Counted, BudgetTypeOK
  <2>3. spent' = spent + (IF inFlight[run] = 0 THEN 1 ELSE 0)
    BY <1>1, <1>2 DEF BudgetTypeOK
  <2>4. Counted' <= spent'
    BY <1>2, <2>1, <2>2, <2>3 DEF BudgetTypeOK
  <2>5. Alone' => Alone
    BY <1>1 DEF Alone
  <2>6. Alone => Counted' = spent' /\ spent' + timer' <= Timeout
    <3>1. Alone => (depth > 0 <=> inFlight[run] # 0)
      BY <1>2, <2>1 DEF BudgetTypeOK
    <3>. QED  BY <1>1, <1>2, <2>1, <2>2, <2>3, <3>1, BudgetAssumption DEF BudgetTypeOK
  <2>. QED  BY <1>1, <2>1, <2>4, <2>5, <2>6 DEF CountInv
<1>. QED  BY <1>3, <1>4, <1>5, <1>6 DEF BudgetInv

LEMMA CheckInv ==
    ASSUME BudgetInv, Check
    PROVE  BudgetInv'
<1>1. /\ Running
      /\ UNCHANGED <<kind, run, token, inFlight, wall, total, depth, since, aborted, spent, disturbed>>
  BY DEF Check
<1>2. BudgetTypeOK /\ run \in Runs /\ Counted \in Int
  BY DEF BudgetInv, BudgetTypeOK, Counted
<1>3. outcome[run] = "running"
  BY <1>1 DEF Running
<1>4. CASE Counted >= Timeout \/ wall >= WallCap
  <2>1. /\ outcome' = [outcome EXCEPT ![run] = "timedOut"] /\ abandoned' = TRUE
        /\ UNCHANGED timer
    BY <1>4 DEF Check
  <2>2. outcome'[run] = "timedOut" /\ \A r \in Runs \ {run} : outcome'[r] = outcome[r]
    BY <1>2, <2>1 DEF BudgetTypeOK
  <2>3. BudgetTypeOK'
    <3>1. outcome' \in [Runs -> Outcomes]
      BY <1>2, <2>1 DEF BudgetTypeOK, Outcomes
    <3>2. abandoned' \in BOOLEAN
      BY <2>1
    <3>. QED  BY <1>1, <1>2, <2>1, <3>1, <3>2 DEF BudgetTypeOK
  <2>4. SequenceInv'
    BY <1>1, <1>2, <2>2, RunsNumbered DEF BudgetInv, SequenceInv
  <2>5. FenceInv'
    <3>1. \A r \in Runs : r < run => r # run
      BY <1>2, RunsNumbered
    <3>. QED  BY <1>1, <2>1, <2>2, <3>1 DEF BudgetInv, FenceInv
  <2>6. ClockInv' /\ CountInv'
    BY <1>1, <2>2 DEF BudgetInv, ClockInv, CountInv, Running
  <2>7. DueInv'
    <3>1. ~disturbed => Counted <= spent
      BY <1>1 DEF BudgetInv, CountInv
    <3>. QED  BY <1>1, <1>2, <1>4, <3>1, BudgetAssumption DEF DueInv, BudgetTypeOK
  <2>. QED  BY <2>3, <2>4, <2>5, <2>6, <2>7 DEF BudgetInv
<1>5. CASE ~(Counted >= Timeout \/ wall >= WallCap)
  <2>1. timer' = Rearm /\ UNCHANGED <<outcome, abandoned>>
    BY <1>5 DEF Check
  <2>2. timer' \in Nat /\ timer' <= Timeout - Counted /\ timer' <= WallCap - wall
    BY <1>2, <1>5, <2>1, BudgetAssumption DEF Rearm, Most, Least, BudgetTypeOK
  <2>3. BudgetTypeOK'
    BY <1>1, <1>2, <2>1, <2>2 DEF BudgetTypeOK
  <2>4. SequenceInv' /\ FenceInv' /\ DueInv'
    BY <1>1, <2>1 DEF BudgetInv, SequenceInv, FenceInv, DueInv
  <2>5. ClockInv'
    BY <1>1, <1>2, <1>3, <2>1, <2>2, BudgetAssumption DEF BudgetInv, ClockInv, BudgetTypeOK
  <2>6. CountInv'
    <3>1. Counted' = Counted /\ (Alone' => Alone)
      BY <1>1, <2>1 DEF Counted, Alone
    <3>2. spent \in Nat /\ Timeout \in Nat /\ timer' \in Nat
      BY <1>2, <2>2, BudgetAssumption DEF BudgetTypeOK
    <3>3. Counted = spent => spent + timer' <= Timeout
      BY <2>2, <3>2, Fits
    <3>4. Running /\ ~disturbed =>
            /\ depth >= inFlight[run] /\ Counted <= spent
            /\ Alone => depth = inFlight[run] /\ Counted = spent
      BY DEF BudgetInv, CountInv
    <3>. QED  BY <1>1, <3>1, <3>3, <3>4 DEF CountInv
  <2>. QED  BY <2>3, <2>4, <2>5, <2>6 DEF BudgetInv
<1>. QED  BY <1>4, <1>5

\* The function returns, or a stop ends the race.
LEMMA RaceEndsInv ==
    ASSUME BudgetInv, FunctionEnds \/ StopHeard
    PROVE  BudgetInv'
<1>1. /\ UNCHANGED <<kind, run, token, inFlight, wall, total, depth, since, timer, spent, disturbed, aborted>>
      /\ outcome[run] # "new"
      /\ \/ outcome' = [outcome EXCEPT ![run] = "ended"] /\ abandoned' = abandoned /\ Running
         \/ outcome' = [outcome EXCEPT ![run] = "stopped"] /\ abandoned' = TRUE /\ Running
         \/ outcome' = outcome /\ abandoned' = TRUE /\ ~Running
  BY DEF FunctionEnds, StopHeard, StopDue, Running, clockVars
<1>2. BudgetTypeOK /\ run \in Runs
  BY DEF BudgetInv, BudgetTypeOK
<1>3. /\ outcome'[run] \in {"ended", "stopped", "timedOut"}
      /\ outcome'[run] \in {"stopped", "timedOut"} => abandoned'
      /\ outcome'[run] = "timedOut" => outcome[run] = "timedOut"
      /\ \A r \in Runs \ {run} : outcome'[r] = outcome[r]
      /\ outcome' \in [Runs -> Outcomes]
  BY <1>1, <1>2 DEF BudgetTypeOK, Outcomes, Running
<1>4. BudgetTypeOK'
  <2>1. abandoned' \in BOOLEAN
    BY <1>1, <1>2 DEF BudgetTypeOK
  <2>. QED  BY <1>1, <1>2, <1>3, <2>1 DEF BudgetTypeOK
<1>5. SequenceInv'
  BY <1>1, <1>2, <1>3, RunsNumbered DEF BudgetInv, SequenceInv
<1>6. FenceInv'
  <2>1. \A r \in Runs : r < run => r # run
    BY <1>2, RunsNumbered
  <2>. QED  BY <1>1, <1>3, <2>1 DEF BudgetInv, FenceInv
<1>7. ClockInv' /\ CountInv' /\ DueInv'
  BY <1>1, <1>3 DEF BudgetInv, ClockInv, CountInv, DueInv, Running
<1>. QED  BY <1>4, <1>5, <1>6, <1>7 DEF BudgetInv

LEMMA AbortInv ==
    ASSUME BudgetInv, Abort
    PROVE  BudgetInv'
<1>1. /\ aborted' = TRUE
      /\ UNCHANGED <<kind, run, outcome, abandoned, token, inFlight, wall, total, depth, since, timer, spent, disturbed>>
  BY DEF Abort, clockVars
<1>2. aborted' \in BOOLEAN
  BY <1>1
<1>. QED  BY <1>1, <1>2 DEF BudgetInv, BudgetTypeOK, SequenceInv, FenceInv, ClockInv, CountInv,
                          DueInv, Running, Counted, Alone

LEMMA SettleInv ==
    ASSUME BudgetInv, Settle
    PROVE  BudgetInv'
<1>1. /\ outcome[run] \notin {"new", "running"}
      /\ token' = [token EXCEPT ![run] = ClosesToken(run)]
      /\ run < NumRuns /\ run' = run + 1
      /\ wall' = 0 /\ total' = 0 /\ depth' = 0 /\ since' = 0 /\ timer' = 0
      /\ spent' = 0 /\ disturbed' = FALSE
      /\ UNCHANGED <<kind, outcome, abandoned, inFlight, aborted>>
  BY DEF Settle
<1>2. BudgetTypeOK /\ run \in Runs
  BY DEF BudgetInv, BudgetTypeOK
<1>3. run + 1 \in Runs /\ \A r \in Runs : r < run + 1 <=> r < run \/ r = run
  BY <1>1, <1>2, BudgetAssumption DEF Runs
<1>4. outcome[run] \in {"ended", "timedOut", "stopped"} /\ outcome[run + 1] = "new"
  <2>1. run + 1 > run
    BY <1>2, BudgetAssumption DEF Runs
  <2>. QED  BY <1>1, <1>2, <1>3, <2>1 DEF BudgetInv, SequenceInv, BudgetTypeOK, Outcomes
<1>5. BudgetTypeOK'
  <2>1. token' \in [Runs -> BOOLEAN]
    <3>1. ClosesToken(run) \in BOOLEAN
      BY <1>2 DEF ClosesToken, BudgetTypeOK
    <3>. QED  BY <1>1, <1>2, <3>1 DEF BudgetTypeOK
  <2>2. disturbed' \in BOOLEAN /\ run' \in Runs
    BY <1>1, <1>3
  <2>3. /\ wall' \in Nat /\ total' \in Nat /\ depth' \in Nat /\ since' \in Nat /\ spent' \in Nat
        /\ timer' \in Int
    BY <1>1
  <2>. QED  BY <1>1, <1>2, <2>1, <2>2, <2>3 DEF BudgetTypeOK
<1>6. SequenceInv'
  <2>1. \A r \in Runs : r > run + 1 => r > run
    BY <1>2, RunsNumbered
  <2>. QED  BY <1>1, <1>3, <1>4, <2>1 DEF BudgetInv, SequenceInv
<1>7. FenceInv'
  <2>1. token'[run] \/ (outcome[run] = "ended" /\ kind[run] # "body")
    <3>1. token'[run] = ClosesToken(run)
      BY <1>1, <1>2 DEF BudgetTypeOK
    <3>2. outcome[run] # "ended" => abandoned
      BY <1>4 DEF BudgetInv, FenceInv
    <3>. QED  BY <3>1, <3>2, <1>4 DEF ClosesToken
  <2>2. \A r \in Runs : r < run => (token'[r] <=> token[r])
    BY <1>1, <1>2, RunsNumbered DEF BudgetTypeOK
  <2>. QED  BY <1>1, <1>3, <1>4, <2>1, <2>2 DEF BudgetInv, FenceInv
<1>8. ClockInv' /\ CountInv' /\ DueInv'
  BY <1>1, <1>4 DEF ClockInv, CountInv, DueInv, Running
<1>. QED  BY <1>5, <1>6, <1>7, <1>8 DEF BudgetInv

LEMMA BudgetStep == BudgetInv /\ [BudgetNext]_boundedVars => BudgetInv'
<1>. SUFFICES ASSUME BudgetInv, [BudgetNext]_boundedVars PROVE BudgetInv'
  OBVIOUS
<1>1. CASE UNCHANGED boundedVars
  BY <1>1 DEF boundedVars, clockVars, BudgetInv, BudgetTypeOK, SequenceInv, FenceInv, ClockInv,
              CountInv, DueInv, Running, Counted, Alone
<1>2. CASE BudgetNext
  BY <1>1, <1>2, StartInv, ActionStartsInv, ActionEndsInv, TickInv, CheckInv, RaceEndsInv, AbortInv,
     SettleInv DEF BudgetNext, Finished
<1>. QED  BY <1>1, <1>2

-----------------------------------------------------------------------------
LEMMA DueFromInv == BudgetInv => CutWhenDue
<1>. SUFFICES ASSUME BudgetInv PROVE CutWhenDue
  OBVIOUS
<1>1. Running => wall <= WallCap + Late
  BY BudgetAssumption DEF BudgetInv, BudgetTypeOK, ClockInv
<1>2. Running /\ Alone /\ ~disturbed => spent <= Timeout + Late
  BY BudgetAssumption DEF BudgetInv, BudgetTypeOK, ClockInv, CountInv
<1>3. outcome[run] = "timedOut" /\ ~disturbed => spent >= Timeout \/ wall >= WallCap
  BY DEF BudgetInv, DueInv
<1>. QED  BY <1>1, <1>2, <1>3 DEF CutWhenDue, Alone

\* runBounded cuts a run off neither before its budget is spent nor later than the
\* timer is late, however many actions start and end meanwhile.
THEOREM CutOffWhenDue == BudgetSpec => []CutWhenDue
BY BudgetInvInit, BudgetStep, DueFromInv, PTL DEF BudgetSpec

LEMMA FencedStep ==
    ASSUME BudgetInv, NEW r \in Runs, ActionStarts(r), r < run
    PROVE  outcome[r] = "ended" /\ kind[r] # "body"
BY DEF ActionStarts, BudgetInv, FenceInv

\* What a run left behind starts no action on the device once a later run has begun,
\* if the run was given up or was a test body (the finally block closes its token).
THEOREM GivenUpFenced == BudgetSpec => GivenUpIsFenced
<1>1. BudgetInv /\ [BudgetNext]_boundedVars =>
        [\A r \in Runs : ActionStarts(r) /\ r < run => outcome[r] = "ended" /\ kind[r] # "body"]_boundedVars
  BY FencedStep
<1>. QED  BY <1>1, BudgetInvInit, BudgetStep, PTL DEF BudgetSpec, GivenUpIsFenced
=============================================================================
