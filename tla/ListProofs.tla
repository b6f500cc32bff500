----------------------------- MODULE ListProofs -----------------------------
(***************************************************************************)
(* What the loops of bestMatch and of Expand compute, for lists of every   *)
(* length.  The library's induction rules are over operators; here an      *)
(* induction is the absence of a least counterexample (Least).             *)
(***************************************************************************)
EXTENDS DecisionsProofs, WellFoundedInduction

\* A set of numbers that is not empty has a least one.
LEMMA Least ==
  ASSUME NEW T \in SUBSET Nat, T # {}
  PROVE  \E x \in T : \A y \in T : x <= y
<1> DEFINE R == OpToRel(<, Nat)
<1>1. IsWellFoundedOn(R, Nat)
  BY NatLessThanWellFounded
<1>2. \A x, y \in Nat : <<x, y>> \in R <=> x < y
  BY DEF OpToRel
<1> HIDE DEF R
<1>3. PICK x \in T : \A y \in T : ~(<<y, x>> \in R)
  BY <1>1, WFMin
<1>4. ASSUME NEW y \in T PROVE x <= y
  <2>1. x \in Nat /\ y \in Nat
    OBVIOUS
  <2>2. ~(y < x)
    BY <1>2, <1>3, <2>1
  <2> QED
    BY <2>1, <2>2
<1> QED
  BY <1>4

\* Induction over the numbers up to n, for a set of numbers.
LEMMA Induction ==
  ASSUME NEW n \in Nat, NEW S, 0 \in S,
         \A i \in 1..n : i - 1 \in S => i \in S
  PROVE  n \in S
<1> SUFFICES ASSUME n \notin S
             PROVE  FALSE
  OBVIOUS
<1> DEFINE T == {i \in 0..n : i \notin S}
<1>1. T \in SUBSET Nat /\ n \in T
  OBVIOUS
<1> HIDE DEF T
<1>2. PICK i \in T : \A j \in T : i <= j
  BY <1>1, Least
<1>3. i \in 0..n /\ i \notin S /\ \A j \in 0..n : j \notin S => i <= j
  BY <1>2 DEF T
<1>4. i # 0 /\ i - 1 \in 0..n /\ i \in 1..n
  BY <1>3
<1>5. i - 1 \in S
  BY <1>3, <1>4
<1> QED
  BY <1>3, <1>4, <1>5

\* The turns of a loop over n elements that keeps its state in A, and the
\* states it goes through.
Turns(n, A) == [1..n -> [A -> A]]
HasRun(n, A, base, G) ==
  \E f \in [0..n -> A] : f[0] = base /\ \A i \in 1..n : f[i] = G[i][f[i - 1]]

\* A loop has its states.
LEMMA LoopExists ==
  ASSUME NEW n \in Nat, NEW A, NEW base \in A, NEW G \in Turns(n, A)
  PROVE  HasRun(n, A, base, G)
<1> USE DEF Turns
<1> DEFINE Runs(f, i) == f[0] = base /\ \A j \in 1..i : f[j] = G[j][f[j - 1]]
           S == {i \in 0..n : \E f \in [0..i -> A] : Runs(f, i)}
<1>1. 0 \in S
  <2>1. [j \in 0..0 |-> base] \in [0..0 -> A] /\ Runs([j \in 0..0 |-> base], 0)
    OBVIOUS
  <2>2. \E f \in [0..0 -> A] : Runs(f, 0)
    BY <2>1
  <2> HIDE DEF Runs
  <2> QED
    BY <2>2
<1>2. ASSUME NEW i \in 1..n, i - 1 \in S
      PROVE  i \in S
  <2>1. PICK f \in [0..(i - 1) -> A] : Runs(f, i - 1)
    BY <1>2
  <2> DEFINE g == [j \in 0..i |-> IF j = i THEN G[i][f[i - 1]] ELSE f[j]]
  <2>2. f[i - 1] \in A /\ G[i] \in [A -> A]
    BY <2>1
  <2>3. G[i][f[i - 1]] \in A
    BY <2>2
  <2>4. ASSUME NEW j \in 0..i
        PROVE  (IF j = i THEN G[i][f[i - 1]] ELSE f[j]) \in A
    <3>1. j # i => j \in 0..(i - 1)
      OBVIOUS
    <3> QED
      BY <2>1, <2>3, <3>1
  <2>5. g \in [0..i -> A]
    BY <2>4
  <2>6. /\ \A j \in 0..(i - 1) : g[j] = f[j]
        /\ g[i] = G[i][f[i - 1]]
    OBVIOUS
  <2>7. g[0] = base
    BY <2>1, <2>6
  <2>8. ASSUME NEW j \in 1..i PROVE g[j] = G[j][g[j - 1]]
    <3>1. j - 1 \in 0..(i - 1)
      OBVIOUS
    <3>2. CASE j = i
      BY <2>6, <3>1, <3>2
    <3>3. CASE j # i
      <4>1. j \in 1..(i - 1) /\ j \in 0..(i - 1)
        BY <3>3
      <4> QED
        BY <2>1, <2>6, <3>1, <4>1
    <3> QED
      BY <3>2, <3>3
  <2> HIDE DEF g
  <2>9. Runs(g, i)
    BY <2>7, <2>8
  <2>10. \E h \in [0..i -> A] : Runs(h, i)
    BY <2>5, <2>9
  <2> HIDE DEF Runs
  <2> QED
    BY <2>10
<1>3. n \in S
  <2> HIDE DEF S
  <2> QED
    BY <1>1, <1>2, Induction
<1> QED
  BY <1>3 DEF HasRun

-----------------------------------------------------------------------------
\* Versions are ordered: nothing is above itself, or above something that is
\* above what it is not above.
LEMMA HigherOrder ==
  ASSUME NEW u \in Versions, NEW v \in Versions, NEW w \in Versions
  PROVE  /\ ~Higher(u, u)
         /\ Higher(u, v) /\ Higher(v, w) => Higher(u, w)
<1>1. \A x \in Versions : x[1] \in Nat /\ x[2] \in Nat /\ x[3] \in Nat
  BY TagAssumption
<1>2. \A x, y \in Versions :
        Higher(x, y) <=> \/ x[1] > y[1]
                         \/ x[1] = y[1] /\ x[2] > y[2]
                         \/ x[1] = y[1] /\ x[2] = y[2] /\ x[3] > y[3]
  <2> SUFFICES ASSUME NEW x \in Versions, NEW y \in Versions
               PROVE  Higher(x, y) <=> \/ x[1] > y[1]
                                       \/ x[1] = y[1] /\ x[2] > y[2]
                                       \/ x[1] = y[1] /\ x[2] = y[2] /\ x[3] > y[3]
    OBVIOUS
  <2> DEFINE At(i) == x[i] > y[i] /\ \A j \in 1..(i - 1) : x[j] = y[j]
  <2>1. Higher(x, y) <=> At(1) \/ At(2) \/ At(3)
    BY DEF Higher
  <2>2. At(1) <=> x[1] > y[1]
    OBVIOUS
  <2>3. At(2) <=> x[1] = y[1] /\ x[2] > y[2]
    OBVIOUS
  <2>4. At(3) <=> x[1] = y[1] /\ x[2] = y[2] /\ x[3] > y[3]
    OBVIOUS
  <2> HIDE DEF At
  <2> QED
    BY <2>1, <2>2, <2>3, <2>4
<1> QED
  BY <1>1, <1>2

\* What bestMatch keeps: a version and a digest, or neither.
Best == [version : Versions \cup {NotSemver}, digest : TagDigest \cup {NoDigest}]
NoBest == [version |-> NotSemver, digest |-> NoDigest]

\* BestMatch is the end of a run through the tags, each state of it made of
\* the one before.
BestRuns(n, tags, scope, constraint) ==
  \E best : /\ best[0] = NoBest
            /\ \A i \in 1..n : best[i] = Better(best[i - 1], tags[i], scope, constraint)
            /\ BestMatch(tags, scope, constraint) = best[n].digest

\* The loop of bestMatch has such a run.
LEMMA BestMatchLoop ==
  ASSUME NEW n \in Nat, NEW tags \in [1..n -> Tag], NEW scope, NEW constraint
  PROVE  BestRuns(n, tags, scope, constraint)
<1> DEFINE Turn(b, i) == Better(b, tags[i], scope, constraint)
           Run(f) == [i \in 0..n |-> IF i = 0 THEN NoBest ELSE Turn(f[i - 1], i)]
           G == [i \in 1..n |-> [b \in Best |-> Turn(b, i)]]
           best == CHOOSE f : f = Run(f)
<1>1. ASSUME NEW b \in Best, NEW i \in 1..n PROVE Turn(b, i) \in Best
  <2>1. tags[i].version \in Versions \cup {NotSemver} /\ tags[i].digest \in TagDigest
    BY DEF Tag
  <2> QED
    BY <2>1 DEF Better, Best
<1>2. NoBest \in Best
  BY DEF NoBest, Best
<1>3. Len(tags) = n
  OBVIOUS
<1> HIDE DEF Turn
<1>4. G \in [1..n -> [Best -> Best]]
  BY <1>1
<1> HIDE DEF G
<1>5. PICK f \in [0..n -> Best] : f[0] = NoBest /\ \A i \in 1..n : f[i] = G[i][f[i - 1]]
  <2> HIDE DEF Run, best
  <2>1. G \in Turns(n, Best)
    BY <1>4 DEF Turns
  <2>2. HasRun(n, Best, NoBest, G)
    BY <1>2, <2>1, LoopExists
  <2> QED
    BY <2>2 DEF HasRun
<1>6. \A i \in 1..n : f[i] = Turn(f[i - 1], i)
  <2> SUFFICES ASSUME NEW i \in 1..n
               PROVE  f[i] = Turn(f[i - 1], i)
    OBVIOUS
  <2>1. i - 1 \in 0..n
    OBVIOUS
  <2>2. f[i - 1] \in Best
    BY <2>1
  <2>3. G[i][f[i - 1]] = Turn(f[i - 1], i)
    BY <2>2 DEF G
  <2> QED
    BY <1>5, <2>3
<1>7. f = Run(f)
  <2>1. \A i \in 0..n : f[i] = IF i = 0 THEN NoBest ELSE Turn(f[i - 1], i)
    BY <1>5, <1>6
  <2> QED
    BY <2>1
<1>8. best = Run(best)
  BY <1>7, Zenon
<1>9. BestMatch(tags, scope, constraint) = best[n].digest
  BY <1>3, Zenon DEF BestMatch, Turn, NoBest
<1> HIDE DEF best
<1>10. /\ best[0] = NoBest
       /\ \A i \in 1..n : best[i] = Turn(best[i - 1], i)
  <2>1. \A i \in 0..n : best[i] = Run(best)[i]
    BY <1>8
  <2>2. \A i \in 0..n : Run(best)[i] = IF i = 0 THEN NoBest ELSE Turn(best[i - 1], i)
    OBVIOUS
  <2> HIDE DEF Run
  <2> QED
    BY <2>1, <2>2
<1> QED
  BY <1>9, <1>10 DEF Turn, BestRuns

\* The best of the first i tags: there is none and none fits, or it is one
\* that fits and that no other that fits is above.
BestOf(b, tags, i, scope, constraint) ==
  LET fits(k) == Satisfies(tags[k], scope, constraint)
  IN \/ b = NoBest /\ \A k \in 1..i : ~fits(k)
     \/ \E k \in 1..i : /\ fits(k)
                        /\ b = [version |-> tags[k].version, digest |-> tags[k].digest]
                        /\ \A j \in 1..i : fits(j) => ~Higher(tags[j].version, tags[k].version)

\* One turn of the loop keeps it so.
LEMMA BestOfTurn ==
  ASSUME NEW n \in Nat, NEW tags \in [1..n -> Tag], NEW scope, NEW constraint,
         NEW i \in 1..n, NEW b, BestOf(b, tags, i - 1, scope, constraint)
  PROVE  BestOf(Better(b, tags[i], scope, constraint), tags, i, scope, constraint)
<1> DEFINE fits(k) == Satisfies(tags[k], scope, constraint)
           entry(k) == [version |-> tags[k].version, digest |-> tags[k].digest]
           Top(k, m) == \A j \in 1..m : fits(j) => ~Higher(tags[j].version, tags[k].version)
<1>1. \A k \in 1..n : fits(k) => tags[k].version \in Versions /\ tags[k].version # NotSemver
  BY DEF Tag, Satisfies
<1>2. Better(b, tags[i], scope, constraint)
        = IF fits(i) /\ (b.version = NotSemver \/ Higher(tags[i].version, b.version))
          THEN entry(i) ELSE b
  BY DEF Better
<1>3. /\ \A j \in 1..i : j = i \/ j \in 1..(i - 1)
      /\ 1..(i - 1) \subseteq 1..n /\ 1..(i - 1) \subseteq 1..i /\ i \in 1..i
  OBVIOUS
<1>4. \/ b = NoBest /\ \A k \in 1..(i - 1) : ~fits(k)
      \/ \E k \in 1..(i - 1) : fits(k) /\ b = entry(k) /\ Top(k, i - 1)
  BY DEF BestOf
<1>5. ASSUME NEW k \in 1..i, fits(k), Top(k, i)
      PROVE  BestOf(entry(k), tags, i, scope, constraint)
  BY <1>5 DEF BestOf
<1>6. ASSUME fits(i) PROVE ~Higher(tags[i].version, tags[i].version)
  BY <1>1, <1>6, HigherOrder
<1> HIDE DEF fits, entry
<1>7. CASE b = NoBest /\ \A k \in 1..(i - 1) : ~fits(k)
  <2>1. CASE fits(i)
    <3>1. Better(b, tags[i], scope, constraint) = entry(i)
      BY <1>2, <1>7, <2>1 DEF NoBest
    <3>2. Top(i, i)
      BY <1>3, <1>6, <1>7, <2>1
    <3> QED
      BY <1>3, <1>5, <2>1, <3>1, <3>2
  <2>2. CASE ~fits(i)
    <3>1. \A k \in 1..i : ~fits(k)
      BY <1>3, <1>7, <2>2
    <3>2. Better(b, tags[i], scope, constraint) = NoBest
      BY <1>2, <1>7, <2>2
    <3> QED
      BY <3>1, <3>2 DEF BestOf, fits
  <2> QED
    BY <2>1, <2>2
<1>8. CASE \E k \in 1..(i - 1) : fits(k) /\ b = entry(k) /\ Top(k, i - 1)
  <2>1. PICK k \in 1..(i - 1) : fits(k) /\ b = entry(k) /\ Top(k, i - 1)
    BY <1>8
  <2>2. b.version = tags[k].version /\ b.version # NotSemver /\ k \in 1..i
    BY <1>1, <1>3, <2>1 DEF entry
  <2>3. CASE fits(i) /\ Higher(tags[i].version, tags[k].version)
    <3>1. Better(b, tags[i], scope, constraint) = entry(i)
      BY <1>2, <2>2, <2>3
    <3>2. ASSUME NEW j \in 1..(i - 1), fits(j)
          PROVE  ~Higher(tags[j].version, tags[i].version)
      <4>1. ~Higher(tags[j].version, tags[k].version)
        BY <2>1, <3>2
      <4>2. /\ tags[j].version \in Versions /\ tags[i].version \in Versions
            /\ tags[k].version \in Versions
        BY <1>1, <1>3, <2>1, <2>3, <3>2
      <4> QED
        BY <2>3, <4>1, <4>2, HigherOrder
    <3>3. Top(i, i)
      BY <1>3, <1>6, <2>3, <3>2
    <3> QED
      BY <1>3, <1>5, <2>3, <3>1, <3>3
  <2>4. CASE ~(fits(i) /\ Higher(tags[i].version, tags[k].version))
    <3>1. Better(b, tags[i], scope, constraint) = entry(k)
      BY <1>2, <2>1, <2>2, <2>4
    <3>2. Top(k, i)
      BY <1>3, <2>1, <2>4
    <3> QED
      BY <1>5, <2>1, <2>2, <3>1, <3>2
  <2> QED
    BY <2>3, <2>4
<1> QED
  BY <1>4, <1>7, <1>8

\* What bestMatch returns is the newest of the tags that fit, whatever the
\* order they are listed in; it returns nothing only if none fits.
LEMMA BestIsNewest ==
  ASSUME NEW n \in Nat, NEW tags \in [1..n -> Tag], NEW scope, NEW constraint
  PROVE  LET digest == BestMatch(tags, scope, constraint)
             newest == Newest(tags, scope, constraint)
         IN \/ digest = NoDigest /\ newest = {}
            \/ digest # NoDigest /\ digest \in newest
<1> DEFINE digest == BestMatch(tags, scope, constraint)
           newest == Newest(tags, scope, constraint)
           fits(k) == Satisfies(tags[k], scope, constraint)
           fit == {t \in ToSet(tags) : Satisfies(t, scope, constraint)}
           top == {t \in fit : \A u \in fit : ~Higher(u.version, t.version)}
<1>1. PICK best : /\ best[0] = NoBest
                  /\ \A i \in 1..n : best[i] = Better(best[i - 1], tags[i], scope, constraint)
                  /\ digest = best[n].digest
  <2>1. BestRuns(n, tags, scope, constraint)
    BY BestMatchLoop
  <2> QED
    BY <2>1 DEF BestRuns
<1>2. BestOf(best[n], tags, n, scope, constraint)
  <2> DEFINE S == {i \in 0..n : BestOf(best[i], tags, i, scope, constraint)}
  <2>1. 0 \in S
    BY <1>1 DEF BestOf
  <2>2. ASSUME NEW i \in 1..n, i - 1 \in S PROVE i \in S
    <3>1. BestOf(best[i - 1], tags, i - 1, scope, constraint)
      BY <2>2
    <3>2. BestOf(Better(best[i - 1], tags[i], scope, constraint), tags, i, scope, constraint)
      BY <3>1, BestOfTurn
    <3> QED
      BY <1>1, <3>2
  <2> HIDE DEF S
  <2>3. n \in S
    BY <2>1, <2>2, Induction
  <2> QED
    BY <2>3 DEF S
<1>3. ToSet(tags) = {tags[k] : k \in 1..n}
  BY DEF ToSet
<1>4. newest = {t.digest : t \in top}
  BY DEF Newest
<1> HIDE DEF digest, newest
<1>5. CASE best[n] = NoBest /\ \A k \in 1..n : ~fits(k)
  <2>1. fit = {}
    BY <1>3, <1>5
  <2>2. newest = {}
    BY <1>4, <2>1
  <2>3. digest = NoDigest
    BY <1>1, <1>5 DEF NoBest
  <2> QED
    BY <2>2, <2>3 DEF digest, newest
<1>6. ASSUME NEW k \in 1..n, fits(k),
             best[n] = [version |-> tags[k].version, digest |-> tags[k].digest],
             \A j \in 1..n : fits(j) => ~Higher(tags[j].version, tags[k].version)
      PROVE  digest # NoDigest /\ digest \in newest
  <2>1. tags[k] \in fit
    BY <1>3, <1>6
  <2>2. \A u \in fit : ~Higher(u.version, tags[k].version)
    BY <1>3, <1>6
  <2>3. tags[k] \in top
    BY <2>1, <2>2
  <2>4. digest = tags[k].digest
    BY <1>1, <1>6
  <2>5. tags[k].digest \in TagDigest
    BY DEF Tag
  <2> HIDE DEF top
  <2> QED
    BY <1>4, <2>3, <2>4, <2>5, TagAssumption
<1>7. \/ best[n] = NoBest /\ \A k \in 1..n : ~fits(k)
      \/ \E k \in 1..n : /\ fits(k)
                         /\ best[n] = [version |-> tags[k].version, digest |-> tags[k].digest]
                         /\ \A j \in 1..n : fits(j) => ~Higher(tags[j].version, tags[k].version)
  BY <1>2 DEF BestOf
<1> HIDE DEF fits
<1> QED
  BY <1>5, <1>6, <1>7 DEF digest, newest

\* A constraint selects one of the newest global releases, and one of the
\* service's own only where no global one fits, for lists of tags of every
\* length: bestMatch's loop and Resolve's preference between the scopes.
THEOREM PickedSafety == Spec => []PickedIsNewest
<1>1. Init => PickedIsNewest
  BY DEF Init, PickedIsNewest, Answered
<1>2. QuestionInv /\ PickedIsNewest /\ [Next]_vars => PickedIsNewest'
  <2> SUFFICES ASSUME QuestionInv, PickedIsNewest, [Next]_vars, Answered("tag")',
                      question'.constraint # NotSemver
               PROVE  PickedIsNewest'
    BY DEF PickedIsNewest
  <2>1. CASE UNCHANGED vars
    BY <2>1 DEF PickedIsNewest, Answered, vars
  <2>2. CASE Pick
    <3> DEFINE tags == question.tags
               constraint == question.constraint
               bare == Newest(tags, "bare", constraint)
               own == Newest(tags, "own", constraint)
               b == BestMatch(tags, "bare", constraint)
               o == BestMatch(tags, "own", constraint)
    <3>1. question' = question /\ answer'.digest = Resolve(tags, constraint)
      BY <2>2 DEF Pick
    <3>2. \E n \in Nat : tags \in [1..n -> Tag]
      <4>1. question \in TagQuestions
        BY <2>2, Kinds DEF Pick
      <4>2. tags \in UNION {[1..n -> Tag] : n \in 0..MaxTags}
        BY <4>1 DEF TagQuestions
      <4> QED
        BY <4>2
    <3> HIDE DEF tags, constraint
    <3>3. /\ \/ b = NoDigest /\ bare = {}
             \/ b # NoDigest /\ b \in bare
          /\ \/ o = NoDigest /\ own = {}
             \/ o # NoDigest /\ o \in own
      BY <3>2, BestIsNewest
    <3>4. Resolve(tags, constraint)
            = IF o # NoDigest /\ (b = NoDigest \/ o = b) THEN o ELSE b
      BY <3>1 DEF Resolve, Resolved, constraint
    <3> HIDE DEF bare, own, b, o
    <3>5. Resolve(tags, constraint)
            \in (IF bare # {} THEN bare ELSE IF own # {} THEN own ELSE {NoDigest})
      BY <3>3, <3>4
    <3> QED
      BY <3>1, <3>5 DEF PickedIsNewest, bare, own, tags, constraint
  <2> QED
    BY <2>1, <2>2, OwnStep
<1> QED
  BY <1>1, <1>2, Questions, PTL DEF Spec

-----------------------------------------------------------------------------
\* What Expand starts from, and all that it can come to.
NoUnits == [units |-> {}, err |-> FALSE]
Sofar(root) ==
  {Refused} \cup
  [units : SUBSET UNION {NewUnits(root, root.apps[i]) : i \in 1..Len(root.apps)}, err : {FALSE}]

\* Expand is the end of a run through the apps, each state of it made of the
\* one before.
ExpandRuns(root) ==
  \E sofar : /\ sofar[0] = NoUnits
             /\ \A i \in 1..Len(root.apps) :
                  sofar[i] = Expanded(root, sofar[i - 1], root.apps[i])
             /\ Expand(root) = sofar[Len(root.apps)]

\* The loop of Expand has such a run.
LEMMA ExpandLoop ==
  ASSUME NEW root, Len(root.apps) \in Nat
  PROVE  ExpandRuns(root)
<1> DEFINE n == Len(root.apps)
           A == Sofar(root)
           Turn(b, i) == Expanded(root, b, root.apps[i])
           Run(f) == [i \in 0..n |-> IF i = 0 THEN NoUnits ELSE Turn(f[i - 1], i)]
           G == [i \in 1..n |-> [b \in A |-> Turn(b, i)]]
           sofar == CHOOSE f : f = Run(f)
<1>1. ASSUME NEW b \in A, NEW i \in 1..n PROVE Turn(b, i) \in A
  <2> DEFINE X == UNION {NewUnits(root, root.apps[k]) : k \in 1..n}
  <2>1. NewUnits(root, root.apps[i]) \subseteq X
    OBVIOUS
  <2> HIDE DEF X
  <2>2. A = {Refused} \cup [units : SUBSET X, err : {FALSE}]
    BY DEF Sofar, X
  <2>3. Refused.units = {}
    BY DEF Refused
  <2>4. b.units \cup NewUnits(root, root.apps[i]) \subseteq X
    BY <2>1, <2>2, <2>3
  <2> QED
    BY <2>2, <2>4 DEF Expanded
<1>2. NoUnits \in A
  BY DEF NoUnits, Sofar
<1> HIDE DEF Turn, A
<1>4. G \in Turns(n, A)
  BY <1>1 DEF Turns
<1> HIDE DEF G
<1>5. PICK f \in [0..n -> A] : f[0] = NoUnits /\ \A i \in 1..n : f[i] = G[i][f[i - 1]]
  <2> HIDE DEF Run, sofar
  <2>1. n \in Nat
    OBVIOUS
  <2> HIDE DEF n
  <2>2. HasRun(n, A, NoUnits, G)
    BY <1>2, <1>4, <2>1, LoopExists
  <2> QED
    BY <2>2 DEF HasRun
<1>6. \A i \in 1..n : f[i] = Turn(f[i - 1], i)
  <2> SUFFICES ASSUME NEW i \in 1..n
               PROVE  f[i] = Turn(f[i - 1], i)
    OBVIOUS
  <2>1. f[i - 1] \in A
    OBVIOUS
  <2>2. G[i][f[i - 1]] = Turn(f[i - 1], i)
    BY <2>1 DEF G
  <2> QED
    BY <1>5, <2>2
<1>7. f = Run(f)
  <2>1. \A i \in 0..n : f[i] = IF i = 0 THEN NoUnits ELSE Turn(f[i - 1], i)
    BY <1>5, <1>6
  <2> QED
    BY <2>1
<1>8. sofar = Run(sofar)
  BY <1>7, Zenon
<1>9. Expand(root) = sofar[n]
  BY Zenon DEF Expand, Turn, NoUnits
<1> HIDE DEF sofar
<1>10. /\ sofar[0] = NoUnits
       /\ \A i \in 1..n : sofar[i] = Turn(sofar[i - 1], i)
  <2>1. \A i \in 0..n : sofar[i] = Run(sofar)[i]
    BY <1>8
  <2>2. \A i \in 0..n : Run(sofar)[i] = IF i = 0 THEN NoUnits ELSE Turn(sofar[i - 1], i)
    OBVIOUS
  <2> HIDE DEF Run
  <2> QED
    BY <2>1, <2>2
<1> QED
  BY <1>9, <1>10 DEF Turn, ExpandRuns

\* What Expand has after i apps: a mistake in one of them, or in two that
\* collide, or else all their units.
Amiss(root, i) ==
  \E k \in 1..i :
    \/ Faulty(root, root.apps[k])
    \/ \E j \in 1..(k - 1) :
         Collides(NewUnits(root, root.apps[j]), NewUnits(root, root.apps[k]))

UnitsUpTo(root, i) == UNION {NewUnits(root, root.apps[k]) : k \in 1..i}

SofarIs(root, s, i) ==
  s = IF Amiss(root, i) THEN Refused ELSE [units |-> UnitsUpTo(root, i), err |-> FALSE]

\* One turn of the loop keeps it so.
LEMMA SofarTurn ==
  ASSUME NEW root, NEW n \in Nat, NEW i \in 1..n, NEW s, SofarIs(root, s, i - 1)
  PROVE  SofarIs(root, Expanded(root, s, root.apps[i]), i)
<1> DEFINE new == NewUnits(root, root.apps[i])
           hit(k) == \/ Faulty(root, root.apps[k])
                     \/ \E j \in 1..(k - 1) :
                          Collides(NewUnits(root, root.apps[j]), NewUnits(root, root.apps[k]))
<1>1. /\ \A j \in 1..i : j = i \/ j \in 1..(i - 1)
      /\ 1..(i - 1) \subseteq 1..i /\ i \in 1..i
  OBVIOUS
<1>2. Amiss(root, i) <=> Amiss(root, i - 1) \/ hit(i)
  <2>1. Amiss(root, i) <=> \E k \in 1..i : hit(k)
    BY DEF Amiss
  <2>2. Amiss(root, i - 1) <=> \E k \in 1..(i - 1) : hit(k)
    BY DEF Amiss
  <2> HIDE DEF hit
  <2> QED
    BY <1>1, <2>1, <2>2
<1>3. UnitsUpTo(root, i) = UnitsUpTo(root, i - 1) \cup new
  BY <1>1 DEF UnitsUpTo
<1>4. Collides(UnitsUpTo(root, i - 1), new)
        <=> \E j \in 1..(i - 1) : Collides(NewUnits(root, root.apps[j]), new)
  BY DEF UnitsUpTo, Collides
<1>5. Expanded(root, s, root.apps[i])
        = IF s.err \/ Faulty(root, root.apps[i]) \/ Collides(s.units, new)
          THEN Refused ELSE [units |-> s.units \cup new, err |-> FALSE]
  BY DEF Expanded
<1>6. hit(i) <=> Faulty(root, root.apps[i]) \/ Collides(UnitsUpTo(root, i - 1), new)
  BY <1>4
<1> HIDE DEF new, hit
<1>7. CASE Amiss(root, i - 1)
  <2>1. s.err
    BY <1>7 DEF SofarIs, Refused
  <2> QED
    BY <1>2, <1>5, <1>7, <2>1 DEF SofarIs
<1>8. CASE ~Amiss(root, i - 1)
  <2>1. ~s.err /\ s.units = UnitsUpTo(root, i - 1)
    BY <1>8 DEF SofarIs
  <2> QED
    BY <1>2, <1>3, <1>5, <1>6, <1>8, <2>1 DEF SofarIs
<1> QED
  BY <1>7, <1>8

\* What Expand computes.
LEMMA ExpandIs ==
  ASSUME NEW root, Len(root.apps) \in Nat
  PROVE  SofarIs(root, Expand(root), Len(root.apps))
<1> DEFINE n == Len(root.apps)
<1>1. PICK sofar : /\ sofar[0] = NoUnits
                   /\ \A i \in 1..n : sofar[i] = Expanded(root, sofar[i - 1], root.apps[i])
                   /\ Expand(root) = sofar[n]
  <2>1. ExpandRuns(root)
    BY ExpandLoop
  <2> QED
    BY <2>1 DEF ExpandRuns
<1> DEFINE S == {i \in 0..n : SofarIs(root, sofar[i], i)}
<1>2. 0 \in S
  <2>1. ~Amiss(root, 0) /\ UnitsUpTo(root, 0) = {}
    BY DEF Amiss, UnitsUpTo
  <2>2. SofarIs(root, NoUnits, 0)
    BY <2>1 DEF SofarIs, NoUnits
  <2>3. SofarIs(root, sofar[0], 0)
    BY <1>1, <2>2
  <2> QED
    BY <2>3
<1>3. n \in Nat
  OBVIOUS
<1>4. ASSUME NEW i \in 1..n, i - 1 \in S PROVE i \in S
  <2>1. SofarIs(root, sofar[i - 1], i - 1)
    BY <1>4
  <2>2. SofarIs(root, Expanded(root, sofar[i - 1], root.apps[i]), i)
    BY <1>3, <2>1, SofarTurn
  <2> QED
    BY <1>1, <2>2
<1> HIDE DEF S, n
<1>5. n \in S
  BY <1>2, <1>3, <1>4, Induction
<1> QED
  BY <1>1, <1>5 DEF S, n

-----------------------------------------------------------------------------
\* A document as the folders complete it: its environments have the projects
\* P, and all else is as it was written.
Completes(full, root, P) ==
  /\ full.apps = root.apps /\ full.layer = root.layer
  /\ \A e \in EnvName : /\ full.envs[e].projects = P[e]
                        /\ full.envs[e].layer = root.envs[e].layer

\* The region of a unit is the most specific one that is given.
LEMMA RegionIs ==
  ASSUME NEW full, NEW root, NEW P, Completes(full, root, P),
         NEW a, a.env \in EnvName, NEW p
  PROVE  LET region == RegionOf(full, full.envs[a.env], a.overrides[p])
             given == Given(root, a, p)
         IN /\ region = Blank <=> given = {}
            /\ given # {} => region = Settings(root, a, p)[CHOOSE i \in given : \A j \in given : i <= j]
<1> DEFINE region == RegionOf(full, full.envs[a.env], a.overrides[p])
           given == Given(root, a, p)
           x == Settings(root, a, p)
           First(i) == i \in given /\ \A j \in given : i <= j
           first == CHOOSE i \in given : \A j \in given : i <= j
<1>1. full.layer = root.layer /\ full.envs[a.env].layer = root.envs[a.env].layer
  BY DEF Completes
<1>2. /\ x[1] = IF a.overrides[p] = Blank THEN Blank ELSE a.overrides[p].region
      /\ x[2] = root.envs[a.env].layer.region
      /\ x[3] = root.layer.region
  BY DEF Settings
<1>3. region = IF x[1] # Blank THEN x[1] ELSE IF x[2] # Blank THEN x[2] ELSE x[3]
  BY <1>1, <1>2 DEF RegionOf, Merge
<1>4. /\ \A i \in given : i \in {1, 2, 3} /\ x[i] # Blank
      /\ \A i \in {1, 2, 3} : x[i] # Blank => i \in given
  BY DEF Given
<1> HIDE DEF region, x, given
<1>5. region = Blank <=> given = {}
  BY <1>3, <1>4
<1>6. ASSUME given # {} PROVE region = x[first]
  <2>1. \E i \in given : \A j \in given : i <= j
    <3>1. CASE x[1] # Blank
      BY <1>4, <3>1
    <3>2. CASE x[1] = Blank /\ x[2] # Blank
      BY <1>4, <3>2
    <3>3. CASE x[1] = Blank /\ x[2] = Blank
      BY <1>4, <1>6, <3>3
    <3> QED
      BY <3>1, <3>2, <3>3
  <2>2. First(first)
    BY <2>1, Zenon
  <2> HIDE DEF first
  <2>3. /\ first \in {1, 2, 3} /\ x[first] # Blank
        /\ \A j \in {1, 2, 3} : x[j] # Blank => first <= j
    BY <1>4, <2>2
  <2> QED
    BY <1>3, <2>3
<1> QED
  BY <1>5, <1>6 DEF region, x, given

\* Expand's units for an app are the ones the document stands for, its
\* mistakes are mistakes of the document, and so are its collisions.
LEMMA AppIs ==
  ASSUME NEW full, NEW root, NEW P, Completes(full, root, P), NEW a \in AppSpec
  PROVE  /\ Faulty(full, a) <=> Wrong(root, P, a)
         /\ ~Faulty(full, a) => NewUnits(full, a) = UnitsOf(root, P, a)
<1> DEFINE region(p) == RegionOf(full, full.envs[a.env], a.overrides[p])
           given(p) == Given(root, a, p)
           first(p) == CHOOSE i \in given(p) : \A j \in given(p) : i <= j
           auto == root.envs[a.env].layer.auto
           unit(p) == [app |-> a.name, project |-> p, env |-> a.env, region |-> region(p),
                       auto |-> Merge(full.layer.auto, full.envs[a.env].layer.auto)]
<1>1. a.env \in EnvName /\ a.exclude \subseteq Project /\ Overridden(a) \subseteq Project
  BY DEF AppSpec, Overridden
<1>2. /\ full.envs[a.env].projects = P[a.env] /\ full.layer = root.layer
      /\ full.envs[a.env].layer = root.envs[a.env].layer
  BY <1>1 DEF Completes
<1>3. \A p : /\ region(p) = Blank <=> given(p) = {}
             /\ given(p) # {} => region(p) = Settings(root, a, p)[first(p)]
  BY <1>1, RegionIs
<1>4. NewUnits(full, a) = {unit(p) : p \in Claimed(P, a)}
  BY <1>2 DEF NewUnits, Claimed
<1>5. \A p : unit(p).region = region(p)
  OBVIOUS
<1>6. Merge(full.layer.auto, full.envs[a.env].layer.auto)
        = IF auto # Blank THEN auto ELSE root.layer.auto
  BY <1>2 DEF Merge
<1>7. UnitsOf(root, P, a)
        = {[app |-> a.name, project |-> p, env |-> a.env,
            region |-> Settings(root, a, p)[first(p)],
            auto |-> IF auto # Blank THEN auto ELSE root.layer.auto] : p \in Claimed(P, a)}
  BY DEF UnitsOf
<1> HIDE DEF region, given, first
<1>8. (\E u \in NewUnits(full, a) : u.region = Blank)
        <=> \E p \in Claimed(P, a) : given(p) = {}
  <2>1. (\E u \in NewUnits(full, a) : u.region = Blank)
          <=> \E p \in Claimed(P, a) : unit(p).region = Blank
    <3> HIDE DEF unit
    <3> QED
      BY <1>4
  <2> QED
    BY <1>3, <1>5, <2>1
<1>9. Faulty(full, a) <=> Wrong(root, P, a)
  <2>1. Faulty(full, a) <=> \/ ~(Overridden(a) \subseteq P[a.env])
                            \/ ~(a.exclude \subseteq P[a.env])
                            \/ Overridden(a) \cap a.exclude # {}
                            \/ \E p \in Claimed(P, a) : given(p) = {}
    BY <1>2, <1>8 DEF Faulty
  <2>2. Wrong(root, P, a) <=> \/ \E p \in Overridden(a) \cup a.exclude :
                                   p \notin P[a.env] \/ p \in Overridden(a) \cap a.exclude
                              \/ \E p \in Claimed(P, a) : given(p) = {}
    BY DEF Wrong, given
  <2>3. (\E p \in Overridden(a) \cup a.exclude :
           p \notin P[a.env] \/ p \in Overridden(a) \cap a.exclude)
          <=> \/ ~(Overridden(a) \subseteq P[a.env])
              \/ ~(a.exclude \subseteq P[a.env])
              \/ Overridden(a) \cap a.exclude # {}
    OBVIOUS
  <2> QED
    BY <2>1, <2>2, <2>3
<1>10. ASSUME ~Faulty(full, a) PROVE NewUnits(full, a) = UnitsOf(root, P, a)
  <2>1. \A p \in Claimed(P, a) : region(p) = Settings(root, a, p)[first(p)]
    BY <1>3, <1>8, <1>10 DEF Faulty
  <2> QED
    BY <1>4, <1>6, <1>7, <2>1
<1> QED
  BY <1>9, <1>10

\* Two apps collide if they have the same name and claim the same project.
LEMMA CollisionIs ==
  ASSUME NEW full, NEW root, NEW P, Completes(full, root, P),
         NEW a \in AppSpec, NEW b \in AppSpec
  PROVE  Collides(NewUnits(full, a), NewUnits(full, b)) <=> Clash(P, a, b)
<1>1. ASSUME NEW c \in AppSpec
      PROVE  /\ \A u \in NewUnits(full, c) : u.app = c.name /\ u.project \in Claimed(P, c)
             /\ \A p \in Claimed(P, c) : \E u \in NewUnits(full, c) : u.app = c.name /\ u.project = p
  <2> DEFINE unit(p) == [app |-> c.name, project |-> p, env |-> c.env,
                         region |-> RegionOf(full, full.envs[c.env], c.overrides[p]),
                         auto |-> Merge(full.layer.auto, full.envs[c.env].layer.auto)]
  <2>1. full.envs[c.env].projects = P[c.env]
    BY DEF AppSpec, Completes
  <2>2. NewUnits(full, c) = {unit(p) : p \in Claimed(P, c)}
    BY <2>1 DEF NewUnits, Claimed
  <2>3. \A p : unit(p).app = c.name /\ unit(p).project = p
    OBVIOUS
  <2> HIDE DEF unit
  <2> QED
    BY <2>2, <2>3
<1>2. ASSUME Collides(NewUnits(full, a), NewUnits(full, b)) PROVE Clash(P, a, b)
  BY <1>1, <1>2 DEF Collides, Clash
<1>3. ASSUME Clash(P, a, b) PROVE Collides(NewUnits(full, a), NewUnits(full, b))
  <2>1. PICK p : p \in Claimed(P, a) /\ p \in Claimed(P, b)
    BY <1>3 DEF Clash
  <2>2. PICK u \in NewUnits(full, a) : u.app = a.name /\ u.project = p
    BY <1>1, <2>1
  <2>3. PICK v \in NewUnits(full, b) : v.app = b.name /\ v.project = p
    BY <1>1, <2>1
  <2> QED
    BY <1>3, <2>2, <2>3 DEF Collides, Clash
<1> QED
  BY <1>2, <1>3

\* Expand finds every mistake of a document, wherever in the list of apps it
\* is, and nothing else; without one its units are the document's.
LEMMA ExpandExact ==
  ASSUME NEW root \in Document, NEW full, NEW P, Completes(full, root, P)
  PROVE  /\ Expand(full).err <=> Mistake(root, P)
         /\ ~Expand(full).err =>
              Expand(full).units = UNION {UnitsOf(root, P, root.apps[i]) : i \in DOMAIN root.apps}
<1> DEFINE n == Len(root.apps)
           app(i) == root.apps[i]
<1>1. root.apps \in Seq(AppSpec)
  BY DEF Document
<1>2. n \in Nat /\ DOMAIN root.apps = 1..n /\ \A i \in 1..n : app(i) \in AppSpec
  BY <1>1
<1>3. full.apps = root.apps
  BY DEF Completes
<1>4. SofarIs(full, Expand(full), n)
  BY <1>2, <1>3, ExpandIs
<1>5. \A i \in 1..n : /\ Faulty(full, app(i)) <=> Wrong(root, P, app(i))
                      /\ ~Faulty(full, app(i)) => NewUnits(full, app(i)) = UnitsOf(root, P, app(i))
  BY <1>2, AppIs
<1>6. \A i, j \in 1..n :
        Collides(NewUnits(full, app(i)), NewUnits(full, app(j))) <=> Clash(P, app(i), app(j))
  BY <1>2, CollisionIs
<1>7. \A a, b : Clash(P, a, b) <=> Clash(P, b, a)
  BY DEF Clash
<1>8. Amiss(full, n) <=> Mistake(root, P)
  <2>1. Amiss(full, n)
          <=> \E k \in 1..n :
                \/ Faulty(full, app(k))
                \/ \E j \in 1..(k - 1) : Collides(NewUnits(full, app(j)), NewUnits(full, app(k)))
    BY <1>3 DEF Amiss
  <2>2. Mistake(root, P)
          <=> \E k \in 1..n : \/ Wrong(root, P, app(k))
                              \/ \E j \in (1..n) \ {k} : Clash(P, app(k), app(j))
    BY <1>2 DEF Mistake
  <2> HIDE DEF n, app
  <2>3. ASSUME NEW k \in 1..n, NEW j \in 1..(k - 1)
        PROVE  j \in (1..n) \ {k}
    BY <1>2
  <2>4. ASSUME NEW k \in 1..n, NEW j \in (1..n) \ {k}
        PROVE  j \in 1..(k - 1) \/ k \in 1..(j - 1)
    BY <1>2
  <2>5. ASSUME Amiss(full, n) PROVE Mistake(root, P)
    <3>1. PICK k \in 1..n :
                \/ Faulty(full, app(k))
                \/ \E j \in 1..(k - 1) : Collides(NewUnits(full, app(j)), NewUnits(full, app(k)))
      BY <2>1, <2>5
    <3>2. CASE Faulty(full, app(k))
      BY <1>5, <2>2, <3>2
    <3>3. ASSUME NEW j \in 1..(k - 1), Collides(NewUnits(full, app(j)), NewUnits(full, app(k)))
          PROVE  Mistake(root, P)
      <4>1. j \in (1..n) \ {k}
        BY <2>3
      <4>2. Clash(P, app(k), app(j))
        BY <1>6, <1>7, <3>3, <4>1
      <4> QED
        BY <2>2, <4>1, <4>2
    <3> QED
      BY <3>1, <3>2, <3>3
  <2>6. ASSUME Mistake(root, P) PROVE Amiss(full, n)
    <3>1. PICK k \in 1..n : \/ Wrong(root, P, app(k))
                            \/ \E j \in (1..n) \ {k} : Clash(P, app(k), app(j))
      BY <2>2, <2>6
    <3>2. CASE Wrong(root, P, app(k))
      BY <1>5, <2>1, <3>2
    <3>3. ASSUME NEW j \in (1..n) \ {k}, Clash(P, app(k), app(j))
          PROVE  Amiss(full, n)
      <4>1. /\ Collides(NewUnits(full, app(j)), NewUnits(full, app(k)))
            /\ Collides(NewUnits(full, app(k)), NewUnits(full, app(j)))
        BY <1>6, <1>7, <3>3
      <4> QED
        BY <2>1, <2>4, <4>1
    <3> QED
      BY <3>1, <3>2, <3>3
  <2> QED
    BY <2>5, <2>6
<1>9. ASSUME ~Amiss(full, n)
      PROVE  UnitsUpTo(full, n) = UNION {UnitsOf(root, P, root.apps[i]) : i \in DOMAIN root.apps}
  <2>1. \A i \in 1..n : NewUnits(full, app(i)) = UnitsOf(root, P, app(i))
    BY <1>3, <1>5, <1>9 DEF Amiss
  <2>2. UnitsUpTo(full, n) = UNION {NewUnits(full, app(i)) : i \in 1..n}
    BY <1>3 DEF UnitsUpTo
  <2> QED
    BY <1>2, <2>1, <2>2
<1>10. CASE Amiss(full, n)
  BY <1>4, <1>8, <1>10 DEF SofarIs, Refused
<1>11. CASE ~Amiss(full, n)
  <2>1. Expand(full) = [units |-> UnitsUpTo(full, n), err |-> FALSE]
    BY <1>4, <1>11 DEF SofarIs
  <2> QED
    BY <1>8, <1>9, <1>11, <2>1
<1> QED
  BY <1>10, <1>11

\* Folders only add projects, so what Parse refuses is a mistake with them too.
LEMMA ParseFindsMistakes ==
  ASSUME NEW root \in Document, NEW P,
         \A e \in EnvName : root.envs[e].projects \subseteq P[e],
         ~Mistake(root, P)
  PROVE  Parses(root)
<1> SUFFICES ASSUME NEW i \in DOMAIN root.apps, NEW j \in DOMAIN root.apps, i < j,
                    root.apps[i].name = root.apps[j].name,
                    NEW p \in root.envs[root.apps[i].env].projects \ root.apps[i].exclude,
                    p \in root.envs[root.apps[j].env].projects \ root.apps[j].exclude
             PROVE  FALSE
  BY DEF Parses
<1>1. root.apps \in Seq(AppSpec)
  BY DEF Document
<1>2. /\ root.apps[i] \in AppSpec /\ root.apps[j] \in AppSpec
      /\ i \in Int /\ j \in Int
  BY <1>1
<1>3. root.apps[i].env \in EnvName /\ root.apps[j].env \in EnvName
  BY <1>2 DEF AppSpec
<1>4. p \in Claimed(P, root.apps[i]) \cap Claimed(P, root.apps[j])
  BY <1>3 DEF Claimed
<1>5. Clash(P, root.apps[i], root.apps[j])
  BY <1>4 DEF Clash
<1>6. j \in DOMAIN root.apps \ {i}
  BY <1>2
<1> QED
  BY <1>5, <1>6 DEF Mistake

\* ResolveConfig completes a document with the projects of the folders that
\* answer, and changes nothing else of it.
LEMMA ResolveCompletes ==
  ASSUME NEW root \in Document, NEW under \in FolderMembership, NEW down
  PROVE  Completes(ResolveConfig(root, under, down), root, ProjectsOf(root, under, down))
<1> DEFINE P == ProjectsOf(root, under, down)
           full == ResolveConfig(root, under, down)
<1>1. /\ DOMAIN root = {"layer", "envs", "apps"}
      /\ \A e \in EnvName : root.envs[e] \in EnvSpec
  BY DEF Document
<1>2. full.apps = root.apps /\ full.layer = root.layer
  BY <1>1 DEF ResolveConfig
<1>3. ASSUME NEW e \in EnvName
      PROVE  full.envs[e].projects = P[e] /\ full.envs[e].layer = root.envs[e].layer
  <2> DEFINE added == UNION {under[f] : f \in root.envs[e].folders \ down}
  <2>1. /\ DOMAIN root.envs[e] = {"projects", "folders", "layer"}
        /\ root.envs[e].projects \subseteq Project /\ root.envs[e].folders \subseteq FolderID
    BY <1>1 DEF EnvSpec
  <2>2. full.envs[e] = [root.envs[e] EXCEPT !.projects = @ \cup added]
    BY <1>1 DEF ResolveConfig
  <2>3. /\ full.envs[e].layer = root.envs[e].layer
        /\ full.envs[e].projects = root.envs[e].projects \cup added
    BY <2>1, <2>2
  <2>4. \A f \in FolderID : under[f] \subseteq Project
    BY DEF FolderMembership
  <2>5. P[e] = root.envs[e].projects \cup added
    <3>1. P[e] = {p \in Project : \/ p \in root.envs[e].projects
                                  \/ \E f \in root.envs[e].folders \ down : p \in under[f]}
      BY DEF ProjectsOf
    <3> QED
      BY <2>1, <2>4, <3>1
  <2> QED
    BY <2>3, <2>5
<1> QED
  BY <1>2, <1>3 DEF Completes

\* More projects, more units; none of them changes.
LEMMA UnitsGrow ==
  ASSUME NEW root, NEW P, NEW Q, NEW a, P[a.env] \subseteq Q[a.env]
  PROVE  UnitsOf(root, P, a) \subseteq UnitsOf(root, Q, a)
  BY DEF UnitsOf, Claimed

\* The projects of a document are declared, or under a folder that answers.
LEMMA ProjectsGrow ==
  ASSUME NEW root \in Document, NEW under, NEW down, NEW e \in EnvName
  PROVE  /\ root.envs[e].projects \subseteq ProjectsOf(root, under, down)[e]
         /\ ProjectsOf(root, under, down)[e] \subseteq ProjectsOf(root, under, {})[e]
<1>1. root.envs[e].projects \subseteq Project
  BY DEF Document, EnvSpec
<1>2. \A d : ProjectsOf(root, under, d)[e]
               = {p \in Project : \/ p \in root.envs[e].projects
                                  \/ \E f \in root.envs[e].folders \ d : p \in under[f]}
  BY DEF ProjectsOf
<1> QED
  BY <1>1, <1>2

\* A load is refused for a mistake and for nothing else, and brings the units
\* the document stands for.
LEMMA LoadExact ==
  ASSUME NEW root \in Document, NEW under \in FolderMembership, NEW down
  PROVE  LET P == ProjectsOf(root, under, down)
             load == LoadUnits(root, under, down)
         IN /\ load.err <=> Mistake(root, P)
            /\ ~load.err =>
                 load.units = UNION {UnitsOf(root, P, root.apps[i]) : i \in DOMAIN root.apps}
<1> DEFINE P == ProjectsOf(root, under, down)
           full == ResolveConfig(root, under, down)
<1>1. CASE Parses(root)
  <2>1. LoadUnits(root, under, down) = Expand(full)
    BY <1>1 DEF LoadUnits
  <2>2. Completes(full, root, P)
    BY ResolveCompletes
  <2> HIDE DEF P, full
  <2>3. /\ Expand(full).err <=> Mistake(root, P)
        /\ ~Expand(full).err =>
             Expand(full).units = UNION {UnitsOf(root, P, root.apps[i]) : i \in DOMAIN root.apps}
    BY <2>2, ExpandExact
  <2> QED
    BY <2>1, <2>3 DEF P
<1>2. CASE ~Parses(root)
  <2>1. LoadUnits(root, under, down) = Refused
    BY <1>2 DEF LoadUnits
  <2>2. \A e \in EnvName : root.envs[e].projects \subseteq P[e]
    BY ProjectsGrow
  <2> HIDE DEF P
  <2>3. Mistake(root, P)
    BY <1>2, <2>2, ParseFindsMistakes
  <2> QED
    BY <2>1, <2>3 DEF P, Refused
<1> QED
  BY <1>1, <1>2

\* The linter refuses a document for a mistake and for nothing else, where
\* the folders add no project.
LEMMA LintExact ==
  ASSUME NEW root \in Document, NEW under, NEW down,
         \A e \in EnvName : ProjectsOf(root, under, down)[e] \subseteq root.envs[e].projects
  PROVE  ValidateRepo(root) <=> ~Mistake(root, ProjectsOf(root, under, down))
<1> DEFINE P == ProjectsOf(root, under, down)
<1>1. \A e \in EnvName : P[e] = root.envs[e].projects
  BY ProjectsGrow
<1> HIDE DEF P
<1>2. Completes(root, root, P)
  BY <1>1 DEF Completes
<1>3. Expand(root).err <=> Mistake(root, P)
  BY <1>2, ExpandExact
<1>4. ~Mistake(root, P) => Parses(root)
  BY <1>1, ParseFindsMistakes
<1> QED
  BY <1>3, <1>4 DEF ValidateRepo, P

\* What UnitsAreExact says of a question and its answer.
LoadIsExact(q, load, lint) ==
  LET P == ProjectsOf(q.root, q.under, q.down)
      all == LoadUnits(q.root, q.under, {})
  IN /\ load.err <=> Mistake(q.root, P)
     /\ ~load.err =>
          load.units = UNION {UnitsOf(q.root, P, q.root.apps[i]) : i \in DOMAIN q.root.apps}
     /\ ~load.err /\ ~all.err => load.units \subseteq all.units
     /\ (\A e \in EnvName : P[e] \subseteq q.root.envs[e].projects)
          => (lint <=> ~Mistake(q.root, P))

\* A load is all or nothing, and exact, for documents with any number of apps:
\* config.Parse, ResolveConfig and the loop of Expand together; a folder that
\* does not answer adds and changes no unit; the linter agrees where the
\* folders add nothing.
THEOREM ExpansionSafety == Spec => []UnitsAreExact
<1>1. Init => UnitsAreExact
  BY DEF Init, UnitsAreExact, Answered
<1>2. QuestionInv /\ UnitsAreExact /\ [Next]_vars => UnitsAreExact'
  <2> SUFFICES ASSUME QuestionInv, UnitsAreExact, [Next]_vars, Answered("units")'
               PROVE  UnitsAreExact'
    BY DEF UnitsAreExact
  <2>1. CASE UNCHANGED vars
    BY <2>1 DEF UnitsAreExact, Answered, vars
  <2>2. CASE Load
    <3> DEFINE root == question.root
               under == question.under
               P == ProjectsOf(root, under, question.down)
               Q == ProjectsOf(root, under, {})
               load == LoadUnits(root, under, question.down)
               all == LoadUnits(root, under, {})
    <3>1. /\ question' = question
          /\ answer'.load = load /\ answer'.lint = ValidateRepo(root)
      BY <2>2 DEF Load
    <3>2. root \in Document /\ under \in FolderMembership
      <4>1. question \in UnitQuestions
        BY <2>2, Kinds DEF Load
      <4> QED
        BY <4>1, DecisionsAssumption DEF UnitQuestions
    <3>3. /\ load.err <=> Mistake(root, P)
          /\ ~load.err =>
               load.units = UNION {UnitsOf(root, P, root.apps[i]) : i \in DOMAIN root.apps}
      BY <3>2, LoadExact
    <3>4. ~all.err => all.units = UNION {UnitsOf(root, Q, root.apps[i]) : i \in DOMAIN root.apps}
      BY <3>2, LoadExact
    <3>5. \A i \in DOMAIN root.apps :
            UnitsOf(root, P, root.apps[i]) \subseteq UnitsOf(root, Q, root.apps[i])
      <4>1. \A e \in EnvName : P[e] \subseteq Q[e]
        BY <3>2, ProjectsGrow
      <4>2. \A i \in DOMAIN root.apps : root.apps[i].env \in EnvName
        <5>1. root.apps \in Seq(AppSpec)
          BY <3>2 DEF Document
        <5> HIDE DEF root
        <5>2. \A i \in DOMAIN root.apps : root.apps[i] \in AppSpec
          BY <5>1
        <5>3. \A a \in AppSpec : a.env \in EnvName
          BY DEF AppSpec
        <5> QED
          BY <5>2, <5>3
      <4> HIDE DEF P, Q, root
      <4> QED
        BY <4>1, <4>2, UnitsGrow
    <3>6. (\A e \in EnvName : P[e] \subseteq root.envs[e].projects)
            => (ValidateRepo(root) <=> ~Mistake(root, P))
      BY <3>2, LintExact
    <3> HIDE DEF load, all, P, Q, root, under
    <3>7. ~load.err /\ ~all.err => load.units \subseteq all.units
      BY <3>3, <3>4, <3>5
    <3>8. LoadIsExact(question, load, ValidateRepo(root))
      BY <3>3, <3>6, <3>7 DEF LoadIsExact, root, under, P, all
    <3>9. LoadIsExact(question', answer'.load, answer'.lint)
      BY <3>1, <3>8
    <3> QED
      BY <3>9 DEF UnitsAreExact, LoadIsExact
  <2> QED
    BY <2>1, <2>2, OwnStep
<1> QED
  BY <1>1, <1>2, Questions, PTL DEF Spec
=============================================================================
