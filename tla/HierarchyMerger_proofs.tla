------------------------ MODULE HierarchyMerger_proofs ------------------------
(***************************************************************************)
(* Proofs about HierarchyMerger, for any number of files of any length and *)
(* the tree that run_impl builds over them: at any time what was pushed to *)
(* a queue is a beginning of the merge of the files below it               *)
(* (EveryQueueMerges).  So sorted files have one possible output           *)
(* (OutputIsStable), and the tree implements KWayMerge (TreeMerges).       *)
(*                                                                         *)
(* The parts: the shape of the tree, which files each queue stands for and *)
(* that a queue has one reader; what the merge of a set of files is, and   *)
(* that the earlier of two heads goes next in the merge of both sets; the  *)
(* invariant, and the steps; what follows for output_.                     *)
(***************************************************************************)
EXTENDS HierarchyMerger, FiniteSetTheorems, WellFoundedInduction, TLAPS

\* A finite set of numbers has a least one: no finite set is the smallest without.
LEMMA LeastExists ==
  ASSUME NEW P, IsFiniteSet(P), P \subseteq Nat, P # {}
  PROVE  \E p \in P : \A q \in P : p <= q
<1> DEFINE least(S) == \E p \in S : \A q \in S : p <= q
           wrong == {S \in SUBSET P : S # {} /\ ~least(S)}
<1>1. wrong = {}
  <2> SUFFICES ASSUME wrong # {} PROVE FALSE
    OBVIOUS
  <2>1. wrong \subseteq FiniteSubsetsOf(P)
    BY FS_FiniteSubsetsOfFinite
  <2>2. PICK S \in wrong : \A T \in wrong : <<T, S>> \notin StrictSubsetOrdering(P)
    BY <2>1, FS_StrictSubsetOrderingWellFounded, WFMin
  <2>3. PICK x \in S : TRUE
    OBVIOUS
  <2>4. S \subseteq P /\ ~least(S) /\ x \in Nat
    OBVIOUS
  <2>5. S \ {x} \notin wrong
    <3>1. S \in SUBSET P /\ S \ {x} \in SUBSET P /\ S \ {x} # S
      BY <2>4
    <3>2. <<S \ {x}, S>> \in StrictSubsetOrdering(P)
      BY <3>1 DEF StrictSubsetOrdering
    <3> HIDE DEF wrong
    <3> QED BY <2>2, <3>2
  <2>6. S \ {x} # {}
    <3> SUFFICES ASSUME S \ {x} = {} PROVE FALSE
      OBVIOUS
    <3>1. \A q \in S : q = x
      OBVIOUS
    <3> QED BY <2>4, <3>1
  <2>7. PICK y \in S \ {x} : \A q \in S \ {x} : y <= q
    BY <2>4, <2>5, <2>6
  <2>8. y \in Nat /\ \A q \in S : q \in Nat
    BY <2>4, <2>7
  <2>9. CASE x <= y
    <3>1. \A q \in S : x <= q
      BY <2>4, <2>7, <2>8, <2>9
    <3> QED BY <2>4, <3>1
  <2>10. CASE y <= x
    <3>1. \A q \in S : y <= q
      BY <2>4, <2>7, <2>8, <2>10
    <3> QED BY <2>4, <2>7, <3>1
  <2> QED BY <2>4, <2>8, <2>9, <2>10
<1> QED BY <1>1

\* Induction over an interval: there is no least number that is not in R.
LEMMA UpTo ==
  ASSUME NEW lo \in Nat, NEW hi \in Nat, NEW R, lo \in R,
         \A n \in lo + 1 .. hi : n - 1 \in R => n \in R
  PROVE  \A n \in lo .. hi : n \in R
<1> DEFINE rest == (lo .. hi) \ R
<1>1. rest = {}
  <2> SUFFICES ASSUME rest # {} PROVE FALSE
    OBVIOUS
  <2>1. IsFiniteSet(rest)
    <3>1. IsFiniteSet(lo .. hi)
      BY FS_Interval
    <3> QED BY <3>1, FS_Subset
  <2>2. PICK n \in rest : \A m \in rest : n <= m
    <3>1. rest \subseteq Nat
      OBVIOUS
    <3> HIDE DEF rest
    <3> QED BY <2>1, <3>1, LeastExists
  <2>3. n \in lo + 1 .. hi
    BY <2>2
  <2>4. n - 1 \in R
    BY <2>2, <2>3
  <2> QED BY <2>3, <2>4
<1> QED BY <1>1

-----------------------------------------------------------------------------
(* The tree: where the events of a file pass at each stage *)

\* x, and its halves, rounded up, as many as m times.
Halved(f, x, m) == /\ f = [s \in 0 .. m |-> f[s]] /\ f[0] = x
                   /\ \A s \in 1 .. m : f[s] = (f[s - 1] + 1) \div 2

\* Halving N times is well defined.
LEMMA HalvingExists ==
  ASSUME NEW x
  PROVE  \E f : f = [s \in 0 .. N |-> IF s = 0 THEN x ELSE (f[s - 1] + 1) \div 2]
<1> DEFINE R == {m \in 0 .. N : \E f : Halved(f, x, m)}
<1>1. N \in Nat
  BY FileAssumption
<1>2. 0 \in R
  <2>1. Halved([s \in 0 .. 0 |-> x], x, 0)
    BY DEF Halved
  <2> QED BY <1>1, <2>1
<1>3. ASSUME NEW m \in 0 + 1 .. N, m - 1 \in R PROVE m \in R
  <2>1. PICK f : Halved(f, x, m - 1)
    BY <1>3
  <2> DEFINE g == [s \in 0 .. m |-> IF s = m THEN (f[m - 1] + 1) \div 2 ELSE f[s]]
  <2>2. g[0] = x
    BY <1>1, <2>1 DEF Halved
  <2>3. ASSUME NEW s \in 1 .. m PROVE g[s] = (g[s - 1] + 1) \div 2
    <3>1. s - 1 \in 0 .. m - 1 /\ s - 1 \in 0 .. m /\ s - 1 # m /\ s # 0
      BY <1>1, <1>3
    <3>2. g[s - 1] = f[s - 1]
      BY <3>1
    <3>3. CASE s = m
      BY <3>2, <3>3
    <3>4. CASE s # m
      <4>1. s \in 1 .. m - 1
        BY <1>1, <1>3, <3>4
      <4>2. f[s] = (f[s - 1] + 1) \div 2
        BY <2>1, <4>1 DEF Halved
      <4> QED BY <3>2, <3>4, <4>2
    <3> QED BY <3>3, <3>4
  <2>4. Halved(g, x, m)
    <3>1. g = [s \in 0 .. m |-> g[s]]
      OBVIOUS
    <3> HIDE DEF g
    <3> QED BY <2>2, <2>3, <3>1 DEF Halved
  <2> HIDE DEF g
  <2> QED BY <1>1, <1>3, <2>4
<1>4. \A m \in 0 .. N : m \in R
  <2> HIDE DEF R
  <2> QED BY <1>1, <1>2, <1>3, UpTo
<1>5. PICK f : Halved(f, x, N)
  BY <1>1, <1>4
<1>6. ASSUME NEW s \in 0 .. N
      PROVE  f[s] = IF s = 0 THEN x ELSE (f[s - 1] + 1) \div 2
  <2>1. f[0] = x /\ \A t \in 1 .. N : f[t] = (f[t - 1] + 1) \div 2
    BY <1>5 DEF Halved
  <2>2. CASE s = 0
    BY <2>1, <2>2
  <2>3. CASE s \in 1 .. N
    BY <1>1, <2>1, <2>3
  <2> QED BY <1>1, <2>2, <2>3
<1>7. f = [s \in 0 .. N |-> f[s]]
  BY <1>5 DEF Halved
<1> QED BY <1>6, <1>7

\* The number of the queue that file i's events are in at each stage.
Place(i) == LET p[s \in 0 .. N] == IF s = 0 THEN i ELSE (p[s - 1] + 1) \div 2
            IN  p

\* What the recursion says.
LEMMA HalvesOf ==
  ASSUME NEW f, NEW x, f = [s \in 0 .. N |-> IF s = 0 THEN x ELSE (f[s - 1] + 1) \div 2]
  PROVE  f[0] = x /\ \A s \in 1 .. N : f[s] = (f[s - 1] + 1) \div 2
BY FileAssumption

\* The widths are halves.
LEMMA Widths == Width[0] = N /\ \A s \in 1 .. N : Width[s] = (Width[s - 1] + 1) \div 2
<1>1. Width = [s \in 0 .. N |-> IF s = 0 THEN N ELSE (Width[s - 1] + 1) \div 2]
  BY HalvingExists DEF Width
<1> QED BY <1>1, HalvesOf

\* So are the places.
LEMMA Places ==
  ASSUME NEW i
  PROVE  Place(i)[0] = i /\ \A s \in 1 .. N : Place(i)[s] = (Place(i)[s - 1] + 1) \div 2
<1>1. Place(i) = [s \in 0 .. N |-> IF s = 0 THEN i ELSE (Place(i)[s - 1] + 1) \div 2]
  BY HalvingExists DEF Place
<1> QED BY <1>1, HalvesOf

\* Half of a number, rounded up.
LEMMA Half ==
  ASSUME NEW a \in Nat \ {0}, NEW b \in Nat \ {0}, a <= b
  PROVE  /\ (a + 1) \div 2 \in Nat \ {0} /\ (a + 1) \div 2 <= (b + 1) \div 2
         /\ a = 1 => (a + 1) \div 2 = 1
         /\ a > 1 => (a + 1) \div 2 < a
         /\ \/ a = 2 * ((a + 1) \div 2)
            \/ a = 2 * ((a + 1) \div 2) - 1
BY SMT

\* A stage has a queue; a file's events are in one of its queues, and files keep
\* their order.
LEMMA StagesFit ==
  ASSUME NEW s \in 0 .. N
  PROVE  /\ Width[s] \in Nat \ {0}
         /\ \A i \in Files : Place(i)[s] \in 1 .. Width[s]
         /\ \A i, j \in Files : i <= j => Place(i)[s] <= Place(j)[s]
<1> DEFINE Fits(t) == /\ Width[t] \in Nat \ {0}
                      /\ \A i \in Files : Place(i)[t] \in 1 .. Width[t]
                      /\ \A i, j \in Files : i <= j => Place(i)[t] <= Place(j)[t]
           R == {t \in 0 .. N : Fits(t)}
<1>1. N \in Nat \ {0}
  BY FileAssumption
<1>2. Fits(0)
  BY <1>1, Widths, Places DEF Files
<1>3. ASSUME NEW t \in 0 + 1 .. N, Fits(t - 1) PROVE Fits(t)
  <2>1. /\ t \in 1 .. N /\ Width[t] = (Width[t - 1] + 1) \div 2
        /\ \A i : Place(i)[t] = (Place(i)[t - 1] + 1) \div 2
    BY <1>1, Widths, Places
  <2>2. Width[t] \in Nat \ {0}
    BY <1>3, <2>1, Half
  <2>3. ASSUME NEW i \in Files
        PROVE  /\ Place(i)[t - 1] \in Nat \ {0} /\ Place(i)[t - 1] <= Width[t - 1]
               /\ Place(i)[t] \in 1 .. Width[t]
    <3>1. Place(i)[t - 1] \in Nat \ {0} /\ Place(i)[t - 1] <= Width[t - 1]
      BY <1>3
    <3>2. Place(i)[t] \in Nat \ {0} /\ Place(i)[t] <= Width[t]
      BY <1>3, <2>1, <3>1, Half
    <3> QED BY <2>2, <3>1, <3>2
  <2>4. ASSUME NEW i \in Files, NEW j \in Files, i <= j
        PROVE  Place(i)[t] <= Place(j)[t]
    BY <1>3, <2>1, <2>3, <2>4, Half
  <2> QED BY <2>2, <2>3, <2>4
<1> HIDE DEF Fits
<1>4. \A t \in 0 .. N : t \in R
  <2>1. 0 \in R /\ \A t \in 0 + 1 .. N : t - 1 \in R => t \in R
    BY <1>1, <1>2, <1>3
  <2> HIDE DEF R
  <2> QED BY <1>1, <2>1, UpTo
<1> QED BY <1>4 DEF Fits

\* Once there is one queue there is one.
LEMMA OneStays ==
  ASSUME NEW s \in 0 .. N, Width[s] = 1, NEW t \in s .. N
  PROVE  Width[t] = 1
<1> DEFINE R == {u \in s .. N : Width[u] = 1}
<1>1. N \in Nat
  BY FileAssumption
<1>2. ASSUME NEW u \in s + 1 .. N, u - 1 \in R PROVE u \in R
  <2>1. u \in 1 .. N /\ u \in s .. N
    BY <1>1
  <2>2. Width[u] = (1 + 1) \div 2
    BY <1>2, <2>1, Widths
  <2> QED BY <2>1, <2>2
<1>3. \A u \in s .. N : u \in R
  <2>1. s \in R
    BY <1>1
  <2> HIDE DEF R
  <2> QED BY <1>1, <1>2, <2>1, UpTo
<1> QED BY <1>3

\* There are queues enough for as many stages as there are files.
LEMMA OneAtEnd == Width[N] = 1
<1> DEFINE R == {u \in 0 .. N : Width[u] = 1 \/ Width[u] <= N - u}
<1>1. N \in Nat
  BY FileAssumption
<1>2. ASSUME NEW u \in 0 + 1 .. N, u - 1 \in R PROVE u \in R
  <2>1. /\ Width[u] = (Width[u - 1] + 1) \div 2 /\ Width[u - 1] \in Nat \ {0}
        /\ Width[u] \in Nat \ {0}
    BY <1>1, <1>2, Widths, StagesFit
  <2>2. CASE Width[u - 1] = 1
    BY <2>1, <2>2, Half
  <2>3. CASE Width[u - 1] > 1
    <3>1. Width[u] < Width[u - 1] /\ Width[u - 1] <= N - (u - 1)
      BY <1>2, <2>1, <2>3, Half
    <3> QED BY <1>1, <2>1, <3>1
  <2> QED BY <2>1, <2>2, <2>3
<1>3. 0 \in R
  BY <1>1, Widths
<1>4. \A u \in 0 .. N : u \in R
  <2> HIDE DEF R
  <2> QED BY <1>1, <1>2, <1>3, UpTo
<1>5. Width[N] = 1 \/ Width[N] <= N - N
  BY <1>1, <1>4
<1> QED BY <1>1, <1>5, StagesFit

\* The last stage has one queue, and the stages before it have more.
LEMMA TopIs ==
  /\ Top \in 1 .. N /\ Width[Top] = 1
  /\ N > 1 => \A s \in 0 .. Top - 1 : Width[s] > 1
  /\ N = 1 => Top = 1
<1>1. N \in Nat \ {0}
  BY FileAssumption
<1>2. CASE N = 1
  BY <1>1, <1>2, OneAtEnd DEF Top
<1>3. CASE N > 1
  <2> DEFINE ones == {s \in 0 .. N : Width[s] = 1}
  <2>1. PICK p \in ones : \A s \in ones : p <= s
    <3>1. IsFiniteSet(0 .. N)
      BY <1>1, FS_Interval
    <3>2. IsFiniteSet(ones) /\ ones \subseteq Nat /\ N \in ones
      BY <1>1, <3>1, FS_Subset, OneAtEnd
    <3> HIDE DEF ones
    <3> QED BY <3>2, LeastExists
  <2>2. p # 0
    BY <1>3, <2>1, Widths
  <2>3. p \in 1 .. N /\ p - 1 \in 0 .. N /\ p - 1 \notin ones
    BY <1>1, <2>1, <2>2
  <2>4. Width[p] = 1 /\ Width[p - 1] > 1
    BY <1>1, <2>1, <2>3, StagesFit
  <2>5. Top \in 1 .. N /\ Width[Top] = 1 /\ Width[Top - 1] > 1
    BY <1>3, <2>3, <2>4 DEF Top
  <2>6. ASSUME NEW s \in 0 .. Top - 1 PROVE Width[s] > 1
    <3>1. s \in 0 .. N /\ Top - 1 \in s .. N
      BY <1>1, <2>5
    <3>2. Width[s] # 1
      BY <2>5, <3>1, OneStays
    <3> QED BY <3>1, <3>2, StagesFit
  <2> QED BY <1>3, <2>5, <2>6
<1> QED BY <1>1, <1>2, <1>3
-----------------------------------------------------------------------------
(* The names of the queues *)

\* A queue that is carried over: the last of an odd number.
Carried(s, i) == 2 * i - 1 = Width[s - 1] /\ N > 1

\* The queues of stage s, from those of the stage before, q.
NextStage(q, s) == [i \in 1 .. Width[s] |-> IF Carried(s, i) THEN q[2 * i - 1] ELSE <<s, i>>]

\* The queues of the stages up to m.
Staged(f, m) == /\ f = [s \in 0 .. m |-> f[s]]
                /\ f[0] = [i \in 1 .. Width[0] |-> <<0, i>>]
                /\ \A s \in 1 .. m : f[s] = NextStage(f[s - 1], s)

\* Carrying queues over N times is well defined.
LEMMA StagesExist ==
  \E f : f = [s \in 0 .. N |->
                [i \in 1 .. Width[s] |-> 
                   IF s > 0 /\ 2 * i - 1 = Width[s - 1] /\ N > 1
                   THEN f[s - 1][2 * i - 1] ELSE <<s, i>>]]
<1> DEFINE R == {m \in 0 .. N : \E f : Staged(f, m)}
<1>1. N \in Nat
  BY FileAssumption
<1>2. 0 \in R
  <2>1. Staged([s \in 0 .. 0 |-> [i \in 1 .. Width[0] |-> <<0, i>>]], 0)
    BY DEF Staged
  <2> QED BY <1>1, <2>1
<1>3. ASSUME NEW m \in 0 + 1 .. N, m - 1 \in R PROVE m \in R
  <2>1. PICK f : Staged(f, m - 1)
    BY <1>3
  <2> DEFINE g == [s \in 0 .. m |-> IF s = m THEN NextStage(f[m - 1], m) ELSE f[s]]
  <2>2. g[0] = [i \in 1 .. Width[0] |-> <<0, i>>]
    BY <1>1, <2>1 DEF Staged
  <2>3. ASSUME NEW s \in 1 .. m PROVE g[s] = NextStage(g[s - 1], s)
    <3>1. s - 1 \in 0 .. m - 1 /\ s - 1 \in 0 .. m /\ s - 1 # m /\ s # 0
      BY <1>1, <1>3
    <3>2. g[s - 1] = f[s - 1]
      BY <3>1
    <3>3. CASE s = m
      BY <3>2, <3>3
    <3>4. CASE s # m
      <4>1. s \in 1 .. m - 1
        BY <1>1, <1>3, <3>4
      <4>2. f[s] = NextStage(f[s - 1], s)
        BY <2>1, <4>1 DEF Staged
      <4> QED BY <3>2, <3>4, <4>2
    <3> QED BY <3>3, <3>4
  <2>4. Staged(g, m)
    <3>1. g = [s \in 0 .. m |-> g[s]]
      OBVIOUS
    <3> HIDE DEF g
    <3> QED BY <2>2, <2>3, <3>1 DEF Staged
  <2> HIDE DEF g
  <2> QED BY <1>1, <1>3, <2>4
<1>4. \A m \in 0 .. N : m \in R
  <2> HIDE DEF R
  <2> QED BY <1>1, <1>2, <1>3, UpTo
<1>5. PICK f : Staged(f, N)
  BY <1>1, <1>4
<1>6. ASSUME NEW s \in 0 .. N
      PROVE  f[s] = [i \in 1 .. Width[s] |->
                       IF s > 0 /\ 2 * i - 1 = Width[s - 1] /\ N > 1
                       THEN f[s - 1][2 * i - 1] ELSE <<s, i>>]
  <2>1. CASE s = 0
    BY <1>5, <2>1 DEF Staged
  <2>2. CASE s \in 1 .. N
    <3>1. f[s] = NextStage(f[s - 1], s)
      BY <1>5, <2>2 DEF Staged
    <3>2. s > 0
      BY <2>2
    <3> QED BY <3>1, <3>2 DEF NextStage, Carried
  <2> QED BY <1>1, <2>1, <2>2
<1>7. f = [s \in 0 .. N |-> f[s]]
  BY <1>5 DEF Staged
<1> DEFINE stage(s) == [i \in 1 .. Width[s] |->
                          IF s > 0 /\ 2 * i - 1 = Width[s - 1] /\ N > 1
                          THEN f[s - 1][2 * i - 1] ELSE <<s, i>>]
<1>8. \A s \in 0 .. N : f[s] = stage(s)
  BY <1>6
<1>9. f = [s \in 0 .. N |-> stage(s)]
  <2> HIDE DEF stage
  <2> QED BY <1>7, <1>8
<1> QED BY <1>9

\* The queues of a stage are the carried ones and new ones.
LEMMA QueuesOf ==
  /\ QueueAt[0] = [i \in Files |-> InputOf(i)]
  /\ \A s \in 1 .. N : QueueAt[s] = NextStage(QueueAt[s - 1], s)
<1>1. N \in Nat
  BY FileAssumption
<1>2. QueueAt = [s \in 0 .. N |->
                   [i \in 1 .. Width[s] |->
                      IF s > 0 /\ 2 * i - 1 = Width[s - 1] /\ N > 1
                      THEN QueueAt[s - 1][2 * i - 1] ELSE <<s, i>>]]
  BY StagesExist DEF QueueAt
<1>3. QueueAt[0] = [i \in 1 .. Width[0] |-> <<0, i>>]
  BY <1>1, <1>2
<1>4. ASSUME NEW s \in 1 .. N PROVE QueueAt[s] = NextStage(QueueAt[s - 1], s)
  <2>1. s \in 0 .. N /\ s > 0
    BY <1>1
  <2>2. QueueAt[s] = [i \in 1 .. Width[s] |->
                        IF s > 0 /\ 2 * i - 1 = Width[s - 1] /\ N > 1
                        THEN QueueAt[s - 1][2 * i - 1] ELSE <<s, i>>]
    BY <1>2, <2>1
  <2> QED BY <2>1, <2>2 DEF NextStage, Carried
<1> QED BY <1>3, <1>4, Widths DEF Files, InputOf

\* The files whose events pass through q.
Span(q) == {j \in Files : Place(j)[q[1]] = q[2]}

\* A queue keeps the name that it had at the stage where it was made; one made
\* before stage s is at stage s because it was carried over.
Named(s, i, q) ==
  /\ q = <<q[1], q[2]>> /\ q[1] \in 0 .. s /\ q[2] \in 1 .. Width[q[1]]
  /\ QueueAt[q[1]][q[2]] = q
  /\ Span(q) = {j \in Files : Place(j)[s] = i}
  /\ q[1] = s => q[2] = i /\ (s > 0 => ~Carried(s, i))
  /\ q[1] < s => Carried(s, i) /\ QueueAt[s - 1][2 * i - 1] = q

\* A stage that is not the first, and its two queues before the i-th.
LEMMA StageBefore ==
  ASSUME NEW s \in 1 .. N, NEW i \in 1 .. Width[s]
  PROVE  /\ s - 1 \in 0 .. N /\ s \in 0 .. N /\ i \in Nat \ {0}
         /\ 2 * i - 1 \in 1 .. Width[s - 1] /\ Width[s - 1] \in Nat \ {0}
         /\ {j \in Files : Place(j)[s] = i}
              = {j \in Files : Place(j)[s - 1] = 2 * i - 1}
                  \union {j \in Files : Place(j)[s - 1] = 2 * i}
         /\ 2 * i > Width[s - 1] => {j \in Files : Place(j)[s - 1] = 2 * i} = {}
<1>1. N \in Nat
  BY FileAssumption
<1>2. /\ s - 1 \in 0 .. N /\ s \in 0 .. N
      /\ Width[s] = (Width[s - 1] + 1) \div 2
  BY <1>1, Widths
<1>3. Width[s] \in Nat \ {0} /\ Width[s - 1] \in Nat \ {0}
  BY <1>2, StagesFit
<1>4. i \in Nat \ {0} /\ 2 * i - 1 \in 1 .. Width[s - 1]
  BY <1>2, <1>3, Half
<1>5. ASSUME NEW j \in Files
      PROVE  /\ Place(j)[s] = i <=> Place(j)[s - 1] = 2 * i - 1 \/ Place(j)[s - 1] = 2 * i
             /\ Place(j)[s - 1] <= Width[s - 1] /\ Place(j)[s - 1] \in Nat
  <2>1. Place(j)[s] = (Place(j)[s - 1] + 1) \div 2
    BY Places
  <2>2. Place(j)[s - 1] \in Nat \ {0} /\ Place(j)[s - 1] <= Width[s - 1]
    BY <1>2, <1>3, StagesFit
  <2> QED BY <1>4, <2>1, <2>2
<1> QED BY <1>2, <1>3, <1>4, <1>5

\* Every queue of every stage is so named.
LEMMA NamesFit ==
  ASSUME NEW s \in 0 .. N, NEW i \in 1 .. Width[s]
  PROVE  Named(s, i, QueueAt[s][i])
<1> DEFINE Fits(t) == \A k \in 1 .. Width[t] : Named(t, k, QueueAt[t][k])
           R == {t \in 0 .. N : Fits(t)}
<1>1. N \in Nat
  BY FileAssumption
<1>2. Fits(0)
  <2> SUFFICES ASSUME NEW k \in 1 .. Width[0] PROVE Named(0, k, QueueAt[0][k])
    OBVIOUS
  <2>1. QueueAt[0][k] = <<0, k>> /\ k \in Nat
    BY <1>1, QueuesOf, Widths DEF Files, InputOf
  <2> QED BY <2>1 DEF Named, Span
<1>3. ASSUME NEW t \in 0 + 1 .. N, Fits(t - 1) PROVE Fits(t)
  <2> SUFFICES ASSUME NEW k \in 1 .. Width[t] PROVE Named(t, k, QueueAt[t][k])
    OBVIOUS
  <2>1. t \in 1 .. N
    BY <1>1
  <2>2. /\ t - 1 \in 0 .. N /\ k \in Nat /\ 2 * k - 1 \in 1 .. Width[t - 1]
        /\ QueueAt[t] = NextStage(QueueAt[t - 1], t)
    BY <2>1, StageBefore, QueuesOf
  <2>3. CASE Carried(t, k)
    <3> DEFINE q == QueueAt[t - 1][2 * k - 1]
    <3>1. QueueAt[t][k] = q
      BY <2>2, <2>3 DEF NextStage
    <3>2. Named(t - 1, 2 * k - 1, q)
      BY <1>3, <2>2
    <3>3. {j \in Files : Place(j)[t] = k} = {j \in Files : Place(j)[t - 1] = 2 * k - 1}
      <4>1. 2 * k > Width[t - 1]
        BY <2>2, <2>3 DEF Carried
      <4> QED BY <2>1, <4>1, StageBefore
    <3> HIDE DEF q
    <3>4. q[1] \in 0 .. t /\ q[1] < t
      BY <1>1, <2>1, <3>2 DEF Named
    <3>5. Named(t, k, q)
      BY <2>3, <3>2, <3>3, <3>4 DEF Named, q
    <3> QED BY <3>1, <3>5
  <2>4. CASE ~Carried(t, k)
    <3>1. QueueAt[t][k] = <<t, k>>
      BY <2>2, <2>4 DEF NextStage
    <3>2. t \in 0 .. t /\ ~(t < t)
      BY <2>1
    <3> QED BY <2>4, <3>1, <3>2 DEF Named, Span
  <2> QED BY <2>3, <2>4
<1> HIDE DEF Fits
<1>4. \A t \in 0 .. N : t \in R
  <2>1. 0 \in R /\ \A t \in 0 + 1 .. N : t - 1 \in R => t \in R
    BY <1>1, <1>2, <1>3
  <2> HIDE DEF R
  <2> QED BY <1>1, <2>1, UpTo
<1> QED BY <1>4 DEF Fits

\* A stage has every queue once.
LEMMA NamesDiffer ==
  ASSUME NEW s \in 0 .. N, NEW i \in 1 .. Width[s], NEW j \in 1 .. Width[s],
         QueueAt[s][i] = QueueAt[s][j]
  PROVE  i = j
<1> DEFINE q == QueueAt[s][i]
<1>1. Named(s, i, q) /\ Named(s, j, q)
  BY NamesFit
<1>2. i \in Nat /\ j \in Nat
  BY StagesFit
<1> HIDE DEF q
<1>3. CASE q[1] = s
  BY <1>1, <1>3 DEF Named
<1>4. CASE q[1] < s
  <2>1. 2 * i - 1 = 2 * j - 1
    BY <1>1, <1>4 DEF Named, Carried
  <2> QED BY <1>2, <2>1
<1>5. q[1] = s \/ q[1] < s
  BY <1>1 DEF Named
<1> QED BY <1>3, <1>4, <1>5

\* A queue that a worker reads is gone at the later stages.
LEMMA QueueGone ==
  ASSUME NEW s \in 1 .. N, NEW i \in 1 .. Width[s], ~Carried(s, i),
         NEW a \in 1 .. Width[s - 1], a = 2 * i - 1 \/ a = 2 * i,
         NEW t \in s .. N, NEW k \in 1 .. Width[t]
  PROVE  QueueAt[t][k] # QueueAt[s - 1][a]
<1> DEFINE q == QueueAt[s - 1][a]
           R == {u \in s .. N : \A l \in 1 .. Width[u] : QueueAt[u][l] # q}
<1>1. N \in Nat /\ s - 1 \in 0 .. N /\ s \in Nat
  BY FileAssumption
<1>2. q[1] \in 0 .. s - 1
  BY <1>1, NamesFit DEF Named
<1>3. ASSUME NEW u \in s .. N, NEW l \in 1 .. Width[u], QueueAt[u][l] = q
      PROVE  /\ u \in 1 .. N /\ Carried(u, l) /\ QueueAt[u - 1][2 * l - 1] = q
             /\ 2 * l - 1 \in 1 .. Width[u - 1] /\ l \in Nat
  <2>1. u \in 1 .. N
    BY <1>1
  <2>2. Named(u, l, q) /\ q[1] < u
    BY <1>1, <1>2, <1>3, NamesFit
  <2>3. 2 * l - 1 \in 1 .. Width[u - 1] /\ l \in Nat
    BY <2>1, StageBefore
  <2> HIDE DEF q
  <2> QED BY <2>1, <2>2, <2>3 DEF Named
<1>4. s \in R
  <2> SUFFICES ASSUME NEW l \in 1 .. Width[s], QueueAt[s][l] = q PROVE FALSE
    BY <1>1
  <2>1. Carried(s, l) /\ 2 * l - 1 \in 1 .. Width[s - 1] /\ QueueAt[s - 1][2 * l - 1] = q
        /\ l \in Nat
    BY <1>1, <1>3
  <2>2. a = 2 * l - 1
    BY <1>1, <2>1, NamesDiffer
  <2>3. i \in Nat
    BY StageBefore
  <2>4. i = l
    BY <2>1, <2>2, <2>3
  <2> QED BY <2>1, <2>4
<1>5. ASSUME NEW u \in s + 1 .. N, u - 1 \in R PROVE u \in R
  <2> SUFFICES ASSUME NEW l \in 1 .. Width[u], QueueAt[u][l] = q PROVE FALSE
    BY <1>1
  <2>1. u \in s .. N
    BY <1>1
  <2>2. 2 * l - 1 \in 1 .. Width[u - 1] /\ QueueAt[u - 1][2 * l - 1] = q
    BY <1>3, <2>1
  <2> QED BY <1>5, <2>2
<1>6. \A u \in s .. N : u \in R
  <2> HIDE DEF R
  <2> QED BY <1>1, <1>4, <1>5, UpTo
<1> QED BY <1>6
-----------------------------------------------------------------------------
(* The workers and the queues that they read *)

Inputs(w) == {Left(w)} \union IF HasRight(w) THEN {Right(w)} ELSE {}

\* A queue is a queue of some stage.
LEMMA QueuesAre ==
  \A q : q \in Queues <=> \E s \in 0 .. Top : \E i \in 1 .. Width[s] : q = QueueAt[s][i]
<1>1. ASSUME NEW s \in 0 .. Top PROVE DOMAIN QueueAt[s] = 1 .. Width[s]
  <2>1. Top \in Nat /\ Top <= N /\ N \in Nat
    BY TopIs, FileAssumption
  <2>2. CASE s = 0
    BY <2>2, QueuesOf, Widths DEF Files
  <2>3. CASE s \in 1 .. N
    BY <2>3, QueuesOf DEF NextStage
  <2> QED BY <2>1, <2>2, <2>3
<1>2. ASSUME NEW s \in 0 .. Top, NEW q
      PROVE  q \in Range(QueueAt[s]) <=> \E i \in 1 .. Width[s] : q = QueueAt[s][i]
  BY <1>1 DEF Range
<1>3. \A q : q \in Queues <=> \E s \in 0 .. Top : q \in Range(QueueAt[s])
  BY DEF Queues
<1>4. ASSUME NEW q, q \in Queues
      PROVE  \E s \in 0 .. Top : \E i \in 1 .. Width[s] : q = QueueAt[s][i]
  BY <1>2, <1>3, <1>4
<1>5. ASSUME NEW q, NEW s \in 0 .. Top, NEW i \in 1 .. Width[s], q = QueueAt[s][i]
      PROVE  q \in Queues
  BY <1>2, <1>3, <1>5
<1> QED BY <1>4, <1>5

\* A worker's queue was made for it, of one or two queues of the stage before.
LEMMA WorkersAre ==
  ASSUME NEW w \in Workers
  PROVE  /\ w = <<w[1], w[2]>> /\ w[1] \in 1 .. Top /\ w[1] \in 1 .. N
         /\ w[2] \in 1 .. Width[w[1]] /\ w[2] \in Nat
         /\ QueueAt[w[1]][w[2]] = w /\ ~Carried(w[1], w[2])
<1>1. N \in Nat /\ Top \in 1 .. N
  BY TopIs, FileAssumption
<1>2. PICK s \in 0 .. Top : \E i \in 1 .. Width[s] : w = QueueAt[s][i]
  BY QueuesAre DEF Workers
<1>3. PICK i \in 1 .. Width[s] : w = QueueAt[s][i]
  BY <1>2
<1>4. Named(s, i, w) /\ s \in 0 .. N
  BY <1>1, <1>3, NamesFit
<1>5. w[1] \in 1 .. Top /\ w[1] \in 1 .. N /\ w[1] \in 0 .. N
  BY <1>1, <1>4 DEF Named, Workers
<1>6. w[2] \in 1 .. Width[w[1]] /\ w = QueueAt[w[1]][w[2]]
  BY <1>4 DEF Named
<1>7. Named(w[1], w[2], w)
  BY <1>5, <1>6, NamesFit
<1>8. ~Carried(w[1], w[2]) /\ w = <<w[1], w[2]>>
  BY <1>5, <1>7 DEF Named
<1> QED BY <1>5, <1>6, <1>8, StagesFit

\* The queues that a worker reads: where they are.
LEMMA InputsAre ==
  ASSUME NEW w \in Workers
  PROVE  /\ w[1] - 1 \in 0 .. Top /\ w[1] - 1 \in 0 .. N
         /\ 2 * w[2] - 1 \in 1 .. Width[w[1] - 1]
         /\ HasRight(w) => 2 * w[2] \in 1 .. Width[w[1] - 1]
<1>1. N \in Nat /\ Top \in 1 .. N
  BY TopIs, FileAssumption
<1>2. w[1] \in 1 .. Top /\ w[1] \in 1 .. N /\ w[2] \in 1 .. Width[w[1]] /\ w[2] \in Nat
  BY WorkersAre
<1>3. w[1] - 1 \in 0 .. Top
  BY <1>1, <1>2
<1>4. /\ w[1] - 1 \in 0 .. N /\ 2 * w[2] - 1 \in 1 .. Width[w[1] - 1]
      /\ Width[w[1] - 1] \in Nat /\ w[2] \in Nat \ {0}
  BY <1>2, StageBefore
<1> QED BY <1>3, <1>4 DEF HasRight

\* They are queues of other names, made before the worker's.
LEMMA InputsKnown ==
  ASSUME NEW w \in Workers, NEW q \in Inputs(w)
  PROVE  /\ q \in Queues /\ q # w
         /\ \E a \in 1 .. Width[w[1] - 1] : 
              (a = 2 * w[2] - 1 \/ a = 2 * w[2]) /\ q = QueueAt[w[1] - 1][a]
<1>1. PICK a \in 1 .. Width[w[1] - 1] :
        (a = 2 * w[2] - 1 \/ a = 2 * w[2]) /\ q = QueueAt[w[1] - 1][a]
  BY InputsAre DEF Inputs, Left, Right
<1>2. q \in Queues
  BY <1>1, InputsAre, QueuesAre
<1>3. q # w
  <2>1. q[1] \in 0 .. w[1] - 1 /\ w[1] \in 1 .. N
    BY <1>1, InputsAre, WorkersAre, NamesFit DEF Named
  <2> QED BY <2>1, FileAssumption
<1> QED BY <1>1, <1>2, <1>3

\* The two queues that a worker reads differ.
LEMMA LeftIsNotRight ==
  ASSUME NEW w \in Workers, HasRight(w)
  PROVE  Left(w) # Right(w)
<1>1. w[2] \in Nat
  BY WorkersAre
<1> QED BY <1>1, InputsAre, NamesDiffer DEF Left, Right

\* No queue is read by two workers.
LEMMA OneReader ==
  ASSUME NEW w \in Workers, NEW v \in Workers, NEW q, q \in Inputs(w), q \in Inputs(v)
  PROVE  w = v
<1>1. N \in Nat
  BY FileAssumption
<1>2. /\ w[1] \in 1 .. N /\ w[2] \in 1 .. Width[w[1]] /\ ~Carried(w[1], w[2])
      /\ v[1] \in 1 .. N /\ v[2] \in 1 .. Width[v[1]] /\ ~Carried(v[1], v[2])
      /\ w[2] \in Nat /\ v[2] \in Nat /\ w = <<w[1], w[2]>> /\ v = <<v[1], v[2]>>
  BY WorkersAre
<1>3. PICK a \in 1 .. Width[w[1] - 1] :
        (a = 2 * w[2] - 1 \/ a = 2 * w[2]) /\ q = QueueAt[w[1] - 1][a]
  BY InputsKnown
<1>4. PICK b \in 1 .. Width[v[1] - 1] :
        (b = 2 * v[2] - 1 \/ b = 2 * v[2]) /\ q = QueueAt[v[1] - 1][b]
  BY InputsKnown
<1>5. ~(v[1] - 1 \in w[1] .. N)
  BY <1>2, <1>3, <1>4, QueueGone
<1>6. ~(w[1] - 1 \in v[1] .. N)
  BY <1>2, <1>3, <1>4, QueueGone
<1>7. v[1] = w[1]
  BY <1>1, <1>2, <1>5, <1>6
<1>8. a = b
  <2>1. w[1] - 1 \in 0 .. N
    BY InputsAre
  <2> QED BY <1>3, <1>4, <1>7, <2>1, NamesDiffer
<1>9. v[2] = w[2]
  BY <1>2, <1>3, <1>4, <1>8
<1> QED BY <1>2, <1>7, <1>9

\* What passes through a worker's queue is what passes through those it reads,
\* and the files of the left one come first.
LEMMA SpanOfWorker ==
  ASSUME NEW w \in Workers
  PROVE  /\ HasRight(w) => /\ Span(w) = Span(Left(w)) \union Span(Right(w))
                           /\ \A i \in Span(Left(w)), j \in Span(Right(w)) : i < j
         /\ ~HasRight(w) => Span(w) = Span(Left(w))
<1> DEFINE s == w[1]
           l == 2 * w[2] - 1
           r == 2 * w[2]
<1>1. /\ s \in 1 .. N /\ w[2] \in 1 .. Width[s] /\ w[2] \in Nat
      /\ s - 1 \in 0 .. N /\ l \in 1 .. Width[s - 1] /\ Width[s - 1] \in Nat
  BY WorkersAre, InputsAre, StagesFit
<1>2. Span(w) = {j \in Files : Place(j)[s - 1] = l} \union {j \in Files : Place(j)[s - 1] = r}
  BY <1>1, StageBefore DEF Span
<1>3. Span(Left(w)) = {j \in Files : Place(j)[s - 1] = l}
  BY <1>1, NamesFit DEF Named, Left
<1>4. CASE HasRight(w)
  <2>1. Span(Right(w)) = {j \in Files : Place(j)[s - 1] = r}
    BY <1>1, <1>4, InputsAre, NamesFit DEF Named, Right
  <2>2. ASSUME NEW i \in Files, NEW j \in Files, Place(i)[s - 1] = l, Place(j)[s - 1] = r
        PROVE  i < j
    <3>1. i \in Nat /\ j \in Nat
      BY FileAssumption DEF Files
    <3>2. ~(j <= i)
      <4> SUFFICES ASSUME j <= i PROVE FALSE
        OBVIOUS
      <4>1. r <= l
        BY <1>1, <2>2, StagesFit
      <4> QED BY <1>1, <4>1
    <3> QED BY <3>1, <3>2
  <2> QED BY <1>2, <1>3, <1>4, <2>1, <2>2
<1>5. CASE ~HasRight(w)
  <2>1. 2 * w[2] > Width[s - 1]
    BY <1>1, <1>5 DEF HasRight
  <2>2. {j \in Files : Place(j)[s - 1] = r} = {}
    BY <1>1, <2>1, StageBefore
  <2> QED BY <1>2, <1>3, <1>5, <2>2
<1> QED BY <1>4, <1>5

\* The other queues are the files'.
LEMMA FileQueues ==
  /\ \A i \in Files : /\ InputOf(i) \in Queues /\ InputOf(i) \notin Workers
                      /\ Span(InputOf(i)) = {i}
  /\ \A q \in Queues \ Workers : \E i \in Files : q = InputOf(i)
<1>1. N \in Nat /\ Top \in 1 .. N /\ 0 \in 0 .. Top /\ 0 \in 0 .. N
  BY TopIs, FileAssumption
<1>2. ASSUME NEW i \in Files
      PROVE  /\ InputOf(i) \in Queues /\ InputOf(i) \notin Workers
             /\ Span(InputOf(i)) = {i}
  <2>1. InputOf(i) = QueueAt[0][i] /\ i \in 1 .. Width[0]
    BY QueuesOf, Widths DEF Files
  <2>2. InputOf(i) \in Queues
    BY <1>1, <2>1, QueuesAre
  <2> QED BY <2>2, Places DEF Workers, InputOf, Span
<1>3. ASSUME NEW q \in Queues \ Workers PROVE \E i \in Files : q = InputOf(i)
  <2>1. PICK s \in 0 .. Top : \E i \in 1 .. Width[s] : q = QueueAt[s][i]
    BY QueuesAre
  <2>2. PICK i \in 1 .. Width[s] : q = QueueAt[s][i]
    BY <2>1
  <2>3. s \in 0 .. N
    BY <1>1
  <2>4. Named(s, i, q)
    BY <2>2, <2>3, NamesFit
  <2>5. q[1] = 0
    BY <1>1, <1>3, <2>4 DEF Named, Workers
  <2> QED BY <2>4, <2>5, Widths DEF Named, Files, InputOf
<1> QED BY <1>2, <1>3

\* The worker of output_ has all files.
LEMMA OutputIs == Output \in Workers /\ Span(Output) = Files
<1>1. N \in Nat \ {0} /\ Top \in 1 .. N /\ Width[Top] = 1 /\ Top \in 0 .. N
  BY TopIs, FileAssumption
<1>2. ~Carried(Top, 1)
  <2> SUFFICES ASSUME N > 1 PROVE 1 # Width[Top - 1]
    BY DEF Carried
  <2>1. Top - 1 \in 0 .. Top - 1
    BY <1>1
  <2> QED BY <2>1, TopIs
<1>3. QueueAt[Top][1] = Output
  <2>1. QueueAt[Top] = NextStage(QueueAt[Top - 1], Top) /\ 1 \in 1 .. Width[Top]
    BY <1>1, QueuesOf
  <2> QED BY <1>2, <2>1 DEF NextStage, Output
<1>4. Output \in Queues
  <2>1. Top \in 0 .. Top /\ 1 \in 1 .. Width[Top]
    BY <1>1
  <2> QED BY <1>3, <2>1, QueuesAre
<1>5. \A j \in Files : Place(j)[Top] = 1
  BY <1>1, StagesFit
<1> QED BY <1>1, <1>4, <1>5 DEF Workers, Output, Span
-----------------------------------------------------------------------------
(* What the merge of some files is *)

Time(f, e) == f[e[1]][e[2]]
Events(f, S) == {e \in S \X Nat : e[2] \in 1 .. Len(f[e[1]])}
First(s, n) == {s[k] : k \in 1 .. n}

\* The event e is the first of its file that was not seen.
IsNext(e, seen) == e \notin seen /\ \A m \in 1 .. e[2] - 1 : <<e[1], m>> \in seen

\* Of two files' events of the same time the first file's goes first.
NotLater(f, d, e) == \/ Time(f, d) < Time(f, e)
                     \/ Time(f, d) = Time(f, e) /\ d[1] <= e[1]

\* The event d goes next, when those seen have gone.
GoesNext(f, d, seen, S) ==
  /\ d \in Events(f, S) /\ IsNext(d, seen)
  /\ \A e \in Events(f, S) : IsNext(e, seen) => NotLater(f, d, e)

\* The sequence s is a beginning of the merge of the files S; it is all of it.
Merged(f, s, S) == \A k \in 1 .. Len(s) : GoesNext(f, s[k], First(s, k - 1), S)
Whole(f, s, S) == Events(f, S) \subseteq First(s, Len(s))

\* The order of the events.
LEMMA NotLaterTransitive ==
  ASSUME NEW f \in [Files -> Streams], NEW c \in Events(f, Files), NEW d \in Events(f, Files),
         NEW e \in Events(f, Files), NotLater(f, c, d), NotLater(f, d, e)
  PROVE  NotLater(f, c, e)
<1>1. ASSUME NEW x \in Events(f, Files) PROVE Time(f, x) \in Nat /\ x[1] \in Nat
  <2>1. x[1] \in Files /\ x[2] \in 1 .. Len(f[x[1]])
    BY DEF Events
  <2>2. f[x[1]] \in Seq(Nat) /\ x[1] \in Nat
    BY <2>1, FileAssumption DEF Files
  <2> QED BY <2>1, <2>2 DEF Time
<1> QED BY <1>1 DEF NotLater

\* A sequence with one more.
LEMMA FirstOfMore ==
  ASSUME NEW E, NEW s \in Seq(E), NEW d \in E
  PROVE  /\ Append(s, d) \in Seq(E) /\ Len(Append(s, d)) = Len(s) + 1 /\ Len(s) \in Nat
         /\ Append(s, d)[Len(s) + 1] = d
         /\ \A k \in 1 .. Len(s) : Append(s, d)[k] = s[k]
         /\ \A n \in 0 .. Len(s) : First(Append(s, d), n) = First(s, n)
         /\ First(Append(s, d), Len(s) + 1) = First(s, Len(s)) \union {d}
<1>1. /\ Append(s, d) \in Seq(E) /\ Len(Append(s, d)) = Len(s) + 1 /\ Len(s) \in Nat
      /\ Append(s, d)[Len(s) + 1] = d
      /\ \A k \in 1 .. Len(s) : Append(s, d)[k] = s[k]
  OBVIOUS
<1> DEFINE t == Append(s, d)
<1> HIDE DEF t
<1>2. ASSUME NEW n \in 0 .. Len(s) PROVE First(t, n) = First(s, n)
  BY <1>1 DEF First, t
<1>3. First(t, Len(s) + 1) = First(s, Len(s)) \union {d}
  BY <1>1 DEF First, t
<1> QED BY <1>1, <1>2, <1>3 DEF t

\* Events not seen are no earlier than the next one of a merge.
LEMMA MergedOneMore ==
  ASSUME NEW f, NEW S, NEW E, NEW s \in Seq(E), NEW d \in E,
         Merged(f, s, S), GoesNext(f, d, First(s, Len(s)), S)
  PROVE  Merged(f, Append(s, d), S)
<1> DEFINE t == Append(s, d)
<1>1. /\ Len(t) = Len(s) + 1 /\ Len(s) \in Nat /\ t[Len(s) + 1] = d
      /\ \A k \in 1 .. Len(s) : t[k] = s[k]
      /\ \A n \in 0 .. Len(s) : First(t, n) = First(s, n)
  BY FirstOfMore
<1> HIDE DEF t
<1> SUFFICES ASSUME NEW k \in 1 .. Len(t) PROVE GoesNext(f, t[k], First(t, k - 1), S)
  BY DEF Merged, t
<1>2. CASE k = Len(s) + 1
  <2>1. t[k] = d /\ k - 1 = Len(s) /\ First(t, k - 1) = First(s, Len(s))
    BY <1>1, <1>2
  <2> QED BY <2>1
<1>3. CASE k \in 1 .. Len(s)
  <2>1. t[k] = s[k] /\ First(t, k - 1) = First(s, k - 1)
    BY <1>1, <1>3
  <2> QED BY <1>3, <2>1 DEF Merged
<1> QED BY <1>1, <1>2, <1>3

\* What goes next of A goes next of A and B, if no next one of B is before it.
LEMMA NextOfBoth ==
  ASSUME NEW f, NEW A, NEW B, A \intersect B = {}, NEW seenA, NEW seenB, NEW d,
         seenA \subseteq Events(f, A), seenB \subseteq Events(f, B),
         GoesNext(f, d, seenA, A),
         \A e \in Events(f, B) : IsNext(e, seenB) => NotLater(f, d, e)
  PROVE  GoesNext(f, d, seenA \union seenB, A \union B)
<1>1. /\ \A e \in seenA : e[1] \in A
      /\ \A e \in seenB : e[1] \in B
      /\ \A i, m : <<i, m>>[1] = i
  BY DEF Events
<1>2. ASSUME NEW e \in Events(f, A), NEW m PROVE <<e[1], m>> \notin seenB /\ e \notin seenB
  BY <1>1 DEF Events
<1>3. ASSUME NEW e \in Events(f, B), NEW m PROVE <<e[1], m>> \notin seenA /\ e \notin seenA
  BY <1>1 DEF Events
<1>4. d \in Events(f, A \union B) /\ IsNext(d, seenA \union seenB)
  BY <1>2 DEF GoesNext, IsNext, Events
<1>5. ASSUME NEW e \in Events(f, A \union B), IsNext(e, seenA \union seenB)
      PROVE  NotLater(f, d, e)
  <2>1. CASE e \in Events(f, A)
    <3>1. IsNext(e, seenA)
      BY <1>2, <1>5, <2>1 DEF IsNext
    <3> QED BY <2>1, <3>1 DEF GoesNext
  <2>2. CASE e \in Events(f, B)
    <3>1. IsNext(e, seenB)
      BY <1>3, <1>5, <2>2 DEF IsNext
    <3> QED BY <2>2, <3>1
  <2> QED BY <2>1, <2>2 DEF Events
<1> QED BY <1>4, <1>5 DEF GoesNext

\* An event that is before the next of a merge is before all that were not seen.
LEMMA NextOfOther ==
  ASSUME NEW f \in [Files -> Streams], NEW B \in SUBSET Files, NEW d \in Events(f, Files),
         NEW b, Merged(f, b, B), NEW m \in 1 .. Len(b), NotLater(f, d, b[m])
  PROVE  \A e \in Events(f, B) : IsNext(e, First(b, m - 1)) => NotLater(f, d, e)
<1> SUFFICES ASSUME NEW e \in Events(f, B), IsNext(e, First(b, m - 1)) PROVE NotLater(f, d, e)
  OBVIOUS
<1>1. b[m] \in Events(f, B) /\ NotLater(f, b[m], e)
  BY DEF Merged, GoesNext
<1>2. b[m] \in Events(f, Files) /\ e \in Events(f, Files)
  BY <1>1 DEF Events
<1> QED BY <1>1, <1>2, NotLaterTransitive

\* After the whole of a merge there is no next one.
LEMMA NoNextOfWhole ==
  ASSUME NEW f, NEW B, NEW b, Whole(f, b, B)
  PROVE  \A e \in Events(f, B) : ~IsNext(e, First(b, Len(b)))
BY DEF Whole, IsNext

\* A merge has events of its files.
LEMMA MergedEvents ==
  ASSUME NEW f, NEW S, NEW s, Merged(f, s, S), Len(s) \in Nat, NEW n \in 0 .. Len(s)
  PROVE  First(s, n) \subseteq Events(f, S)
<1>1. ASSUME NEW k \in 1 .. n PROVE s[k] \in Events(f, S)
  <2>1. k \in 1 .. Len(s)
    OBVIOUS
  <2> QED BY <2>1 DEF Merged, GoesNext
<1> QED BY <1>1 DEF First
-----------------------------------------------------------------------------
(* A queue, its reader's position n and the event h in the reader's hand *)

Held(s, n, h) == h = <<>> \/ (n > 0 /\ h = <<s[n]>>)
Passed(s, n, h) == First(s, n - Len(h))

\* After pop_one the event is in the hand, or the queue has ended.
LEMMA PopTakes ==
  ASSUME NEW E, NEW s \in Seq(E), NEW n \in Nat, n <= Len(s), NEW n2,
         \/ n < Len(s) /\ n2 = n + 1
         \/ n = Len(s) /\ n2 = n,
         NEW h, h = IF n < Len(s) THEN <<s[n + 1]>> ELSE <<>>
  PROVE  /\ n2 \in Nat /\ n2 <= Len(s) /\ h \in Seq(E)
         /\ Held(s, n2, h) /\ Passed(s, n2, h) = Passed(s, n, <<>>)
         /\ h = <<>> => n = Len(s) /\ n2 = n
<1>1. Len(s) \in Nat /\ Len(<<>>) = 0 /\ n - 0 = n
  OBVIOUS
<1>2. CASE n < Len(s)
  <2>1. n2 = n + 1 /\ h = <<s[n2]>> /\ n2 \in 1 .. Len(s) /\ s[n2] \in E
    BY <1>1, <1>2
  <2>2. Len(h) = 1 /\ h # <<>> /\ h \in Seq(E) /\ n2 - Len(h) = n
    BY <2>1
  <2> QED BY <1>1, <2>1, <2>2 DEF Held, Passed
<1>3. CASE n = Len(s)
  BY <1>1, <1>3 DEF Held, Passed
<1> QED BY <1>1, <1>2, <1>3

\* What is pushed behind it does not matter to the reader.
LEMMA PushBehind ==
  ASSUME NEW E, NEW s \in Seq(E), NEW d \in E, NEW n \in Nat, n <= Len(s), NEW h,
         Held(s, n, h)
  PROVE  /\ Held(Append(s, d), n, h)
         /\ Passed(Append(s, d), n, h) = Passed(s, n, h)
<1>1. /\ Len(s) \in Nat /\ \A k \in 1 .. Len(s) : Append(s, d)[k] = s[k]
      /\ \A m \in 0 .. Len(s) : First(Append(s, d), m) = First(s, m)
  BY FirstOfMore
<1>2. CASE h = <<>>
  <2>1. n - Len(h) \in 0 .. Len(s)
    BY <1>1, <1>2
  <2> QED BY <1>1, <1>2, <2>1 DEF Held, Passed
<1>3. CASE n > 0 /\ h = <<s[n]>>
  <2>1. n - Len(h) \in 0 .. Len(s) /\ Append(s, d)[n] = s[n]
    BY <1>1, <1>3
  <2> QED BY <1>1, <1>3, <2>1 DEF Held, Passed
<1> QED BY <1>2, <1>3 DEF Held

\* When the event in the hand is passed on, one more has passed.
LEMMA HandPasses ==
  ASSUME NEW E, NEW s \in Seq(E), NEW n \in Nat, n <= Len(s), NEW h, Held(s, n, h), h # <<>>
  PROVE  /\ n \in 1 .. Len(s) /\ h = <<s[n]>> /\ h[1] = s[n] /\ s[n] \in E
         /\ Passed(s, n, h) = First(s, n - 1)
         /\ Passed(s, n, <<>>) = Passed(s, n, h) \union {s[n]}
<1>1. /\ n \in 1 .. Len(s) /\ h = <<s[n]>> /\ h[1] = s[n] /\ s[n] \in E /\ Len(h) = 1
      /\ Len(<<>>) = 0 /\ n - 0 = n
  BY DEF Held
<1>2. First(s, n) = First(s, n - 1) \union {s[n]}
  <2>1. \A k : k \in 1 .. n <=> k \in 1 .. n - 1 \/ k = n
    BY <1>1
  <2> QED BY <2>1 DEF First
<1> QED BY <1>1, <1>2 DEF Passed
-----------------------------------------------------------------------------
(* The invariant *)

Event == Files \X Nat
WorkerPcs == {"first", "second", "merge", "left", "right", "done"}

TreeTypes ==
  /\ file \in [Files -> Streams]
  /\ pushed \in [Queues -> Seq(Event)] /\ popped \in [Queues -> Nat]
  /\ \A q \in Queues : popped[q] <= Len(pushed[q])
  /\ closed \in [Queues -> BOOLEAN] /\ wpc \in [Workers -> WorkerPcs]
  /\ ea \in [Workers -> Seq(Event)] /\ eb \in [Workers -> Seq(Event)]

\* What was pushed to a queue is a beginning of the merge of its files; it is
\* closed when that is whole.
QueueInv(q) == /\ Merged(file, pushed[q], Span(q))
               /\ closed[q] => Whole(file, pushed[q], Span(q))

\* A file's queue has its events in order.
FileInv(i) ==
  LET q == InputOf(i)
  IN  /\ Len(pushed[q]) <= Len(file[i])
      /\ \A k \in 1 .. Len(pushed[q]) : pushed[q][k] = <<i, k>>
      /\ closed[q] => Len(pushed[q]) = Len(file[i])

\* A worker has in its hands the events popped last, or none, and has passed on
\* all the others.
LeftPassed(w)  == Passed(pushed[Left(w)], popped[Left(w)], ea[w])
RightPassed(w) == IF HasRight(w) THEN Passed(pushed[Right(w)], popped[Right(w)], eb[w]) ELSE {}
HandsInv(w) ==
  /\ Held(pushed[Left(w)], popped[Left(w)], ea[w])
  /\ HasRight(w) => Held(pushed[Right(w)], popped[Right(w)], eb[w])
  /\ First(pushed[w], Len(pushed[w])) = LeftPassed(w) \union RightPassed(w)

\* A hand is empty when it is about to take, or when its queue has ended.
Ended(q) == closed[q] /\ popped[q] = Len(pushed[q])
EmptyInv(w) ==
  /\ wpc[w] \in {"first", "left"} => ea[w] = <<>>
  /\ wpc[w] \in {"first", "second", "right"} => eb[w] = <<>>
  /\ wpc[w] \in {"second", "right"} => HasRight(w)
  /\ ~HasRight(w) => eb[w] = <<>>
  /\ wpc[w] \notin {"first", "left"} /\ ea[w] = <<>> => Ended(Left(w))
  /\ wpc[w] \in {"left", "merge", "done"} /\ eb[w] = <<>> /\ HasRight(w) => Ended(Right(w))
  /\ closed[w] <=> wpc[w] = "done"

WorkerInv(w) == HandsInv(w) /\ EmptyInv(w)

TreeInv == /\ TreeTypes
           /\ \A q \in Queues : QueueInv(q)
           /\ \A i \in Files : FileInv(i)
           /\ \A w \in Workers : WorkerInv(w)

\* A file is a sequence of numbers.
LEMMA FileTypes ==
  ASSUME file \in [Files -> Streams], NEW i \in Files
  PROVE  /\ file[i] \in Seq(Nat) /\ Len(file[i]) \in Nat
         /\ DOMAIN file[i] = 1 .. Len(file[i])
<1>1. file[i] \in Seq(Nat)
  BY FileAssumption
<1> QED BY <1>1

\* The workers and their queues.
LEMMA WorkerQueues ==
  ASSUME NEW w \in Workers
  PROVE  /\ w \in Queues /\ Left(w) \in Queues /\ Left(w) # w /\ Left(w) \in Inputs(w)
         /\ HasRight(w) => /\ Right(w) \in Queues /\ Right(w) # w /\ Right(w) \in Inputs(w)
                           /\ Right(w) # Left(w)
BY InputsKnown, LeftIsNotRight DEF Workers, Inputs

\* At first nothing is pushed, and all files may have events to come.
LEMMA InitTree == Init => TreeInv
<1> SUFFICES ASSUME Init PROVE TreeInv
  OBVIOUS
<1>1. TreeTypes
  <2>1. <<>> \in Seq(Event) /\ Len(<<>>) = 0
    OBVIOUS
  <2> QED BY <2>1 DEF Init, TreeTypes, WorkerPcs
<1>2. ASSUME NEW q \in Queues
      PROVE  pushed[q] = <<>> /\ popped[q] = 0 /\ ~closed[q] /\ Len(pushed[q]) = 0
  BY DEF Init
<1>3. \A q \in Queues : QueueInv(q)
  BY <1>2 DEF QueueInv, Merged
<1>4. ASSUME NEW i \in Files PROVE FileInv(i)
  BY <1>1, <1>2, FileQueues, FileTypes DEF FileInv, TreeTypes
<1>5. ASSUME NEW w \in Workers PROVE WorkerInv(w)
  <2>1. wpc[w] = "first" /\ ea[w] = <<>> /\ eb[w] = <<>>
    BY DEF Init
  <2>2. First(<<>>, 0) = {} /\ Passed(<<>>, 0, <<>>) = {}
    BY DEF First, Passed
  <2>3. HandsInv(w)
    BY <1>2, <2>1, <2>2, WorkerQueues DEF HandsInv, Held, LeftPassed, RightPassed
  <2>4. EmptyInv(w)
    BY <1>2, <2>1, WorkerQueues DEF EmptyInv
  <2> QED BY <2>3, <2>4 DEF WorkerInv
<1> QED BY <1>1, <1>3, <1>4, <1>5 DEF TreeInv
-----------------------------------------------------------------------------
\* A queue that its reader sees as before: if it is pushed to, it was open.
SeenAlike(q) ==
  /\ closed[q] => closed'[q] /\ pushed'[q] = pushed[q]
  /\ pushed'[q] = pushed[q] \/ \E d \in Event : pushed'[q] = Append(pushed[q], d)

\* What others do does not disturb a worker.
LEMMA OthersKeepWorker ==
  ASSUME TreeTypes, NEW v \in Workers, WorkerInv(v),
         wpc'[v] = wpc[v], ea'[v] = ea[v], eb'[v] = eb[v],
         pushed'[v] = pushed[v], closed'[v] = closed[v],
         \A q \in Inputs(v) : popped'[q] = popped[q] /\ SeenAlike(q)
  PROVE  WorkerInv(v)'
<1>1. ASSUME NEW q \in Queues, SeenAlike(q), popped'[q] = popped[q], 
             NEW h, Held(pushed[q], popped[q], h)
      PROVE  /\ Held(pushed'[q], popped'[q], h)
             /\ Passed(pushed'[q], popped'[q], h) = Passed(pushed[q], popped[q], h)
             /\ Ended(q) => Ended(q)'
  <2>1. Ended(q) => Ended(q)'
    BY <1>1 DEF Ended, SeenAlike
  <2>2. CASE pushed'[q] = pushed[q]
    BY <1>1, <2>1, <2>2
  <2>3. ASSUME NEW d \in Event, pushed'[q] = Append(pushed[q], d)
        PROVE  /\ Held(pushed'[q], popped'[q], h)
               /\ Passed(pushed'[q], popped'[q], h) = Passed(pushed[q], popped[q], h)
    <3>1. pushed[q] \in Seq(Event) /\ popped[q] \in Nat /\ popped[q] <= Len(pushed[q])
      BY DEF TreeTypes
    <3> QED BY <1>1, <2>3, <3>1, PushBehind
  <2> QED BY <1>1, <2>1, <2>2, <2>3 DEF SeenAlike
<1>2. /\ Left(v) \in Queues /\ SeenAlike(Left(v)) /\ popped'[Left(v)] = popped[Left(v)]
      /\ HasRight(v) => /\ Right(v) \in Queues /\ SeenAlike(Right(v))
                        /\ popped'[Right(v)] = popped[Right(v)]
  BY WorkerQueues
<1>3. HandsInv(v)'
  <2>1. Held(pushed'[Left(v)], popped'[Left(v)], ea'[v]) /\ LeftPassed(v)' = LeftPassed(v)
    BY <1>1, <1>2 DEF WorkerInv, HandsInv, LeftPassed
  <2>2. CASE HasRight(v)
    <3>1. Held(pushed'[Right(v)], popped'[Right(v)], eb'[v]) /\ RightPassed(v)' = RightPassed(v)
      BY <1>1, <1>2, <2>2 DEF WorkerInv, HandsInv, RightPassed
    <3> QED BY <2>1, <2>2, <3>1 DEF WorkerInv, HandsInv
  <2>3. CASE ~HasRight(v)
    BY <2>1, <2>3 DEF WorkerInv, HandsInv, RightPassed
  <2> QED BY <2>2, <2>3
<1>4. EmptyInv(v)'
  <2>1. Ended(Left(v)) => Ended(Left(v))'
    BY <1>1, <1>2 DEF WorkerInv, HandsInv
  <2>2. HasRight(v) => (Ended(Right(v)) => Ended(Right(v))')
    BY <1>1, <1>2 DEF WorkerInv, HandsInv
  <2> QED BY <2>1, <2>2 DEF WorkerInv, EmptyInv
<1> QED BY <1>3, <1>4 DEF WorkerInv
-----------------------------------------------------------------------------
(* The threads that feed the files *)

\* An event pushed to a queue that is open.
LEMMA PushTypes ==
  ASSUME TreeTypes, NEW q \in Queues, NEW d \in Event,
         pushed' = [pushed EXCEPT ![q] = Append(@, d)], UNCHANGED <<popped>>
  PROVE  /\ pushed' \in [Queues -> Seq(Event)]
         /\ \A r \in Queues : popped'[r] <= Len(pushed'[r])
         /\ pushed'[q] = Append(pushed[q], d)
         /\ \A r \in Queues \ {q} : pushed'[r] = pushed[r]
<1>1. /\ pushed' \in [Queues -> Seq(Event)] /\ pushed'[q] = Append(pushed[q], d)
      /\ \A r \in Queues \ {q} : pushed'[r] = pushed[r]
  BY DEF TreeTypes
<1>2. Len(pushed'[q]) = Len(pushed[q]) + 1 /\ Len(pushed[q]) \in Nat
  BY <1>1, FirstOfMore DEF TreeTypes
<1>3. \A r \in Queues : popped[r] <= Len(pushed[r]) /\ popped[r] \in Nat
  BY DEF TreeTypes
<1>4. ASSUME NEW r \in Queues PROVE popped'[r] <= Len(pushed'[r])
  BY <1>1, <1>2, <1>3
<1> QED BY <1>1, <1>4

\* A queue that is as before keeps its invariant, and so does the file's.
LEMMA QueueAlike ==
  ASSUME NEW q \in Queues, QueueInv(q), file' = file, pushed'[q] = pushed[q],
         closed'[q] = closed[q]
  PROVE  QueueInv(q)'
BY DEF QueueInv

\* So does what is known of a file's queue.
LEMMA FileAlike ==
  ASSUME NEW i \in Files, FileInv(i), file' = file,
         pushed'[InputOf(i)] = pushed[InputOf(i)], closed'[InputOf(i)] = closed[InputOf(i)]
  PROVE  FileInv(i)'
BY DEF FileInv

\* A file's queue has what was fed of it: the next event goes next.
LEMMA FileGoesNext ==
  ASSUME TreeTypes, NEW i \in Files, FileInv(i), Len(pushed[InputOf(i)]) < Len(file[i])
  PROVE  LET s == pushed[InputOf(i)]
         IN  GoesNext(file, <<i, Len(s) + 1>>, First(s, Len(s)), {i})
<1> DEFINE s == pushed[InputOf(i)]
           d == <<i, Len(s) + 1>>
           seen == First(s, Len(s))
<1>1. Len(s) \in Nat /\ Len(file[i]) \in Nat /\ Len(s) < Len(file[i]) /\ i \in Nat
  <2>1. s \in Seq(Event) /\ file \in [Files -> Streams]
    BY FileQueues DEF TreeTypes
  <2>2. Len(s) < Len(file[i])
    OBVIOUS
  <2>3. i \in Nat
    BY FileAssumption DEF Files
  <2> HIDE DEF s
  <2> QED BY <2>1, <2>2, <2>3, FileTypes
<1>2. \A k \in 1 .. Len(s) : s[k] = <<i, k>>
  BY DEF FileInv
<1> HIDE DEF s
<1>3. \A m \in Nat : <<i, m>> \in seen <=> m \in 1 .. Len(s)
  BY <1>1, <1>2 DEF First
<1> HIDE DEF seen
<1>4. d \in Events(file, {i}) /\ IsNext(d, seen)
  BY <1>1, <1>3 DEF Events, IsNext
<1>5. ASSUME NEW e \in Events(file, {i}), IsNext(e, seen) PROVE e = d
  <2>1. PICK m \in Nat : e = <<i, m>> /\ m \in 1 .. Len(file[i])
    BY DEF Events
  <2>2. m > Len(s)
    BY <1>1, <1>3, <1>5, <2>1 DEF IsNext
  <2>3. ~(m > Len(s) + 1)
    <3> SUFFICES ASSUME m > Len(s) + 1 PROVE FALSE
      OBVIOUS
    <3>1. Len(s) + 1 \in 1 .. e[2] - 1 /\ e[1] = i
      BY <1>1, <2>1
    <3>2. <<i, Len(s) + 1>> \in seen
      BY <1>5, <3>1 DEF IsNext
    <3> QED BY <1>1, <1>3, <3>2
  <2>4. m = Len(s) + 1
    BY <1>1, <2>1, <2>2, <2>3
  <2> QED BY <2>1, <2>4
<1>6. NotLater(file, d, d)
  BY <1>1 DEF NotLater
<1> QED BY <1>4, <1>5, <1>6 DEF GoesNext, s, seen

\* Feeding a file.
LEMMA FeedTree == ASSUME TreeInv, NEW i \in Files, Feed(i) PROVE TreeInv'
<1> DEFINE q == InputOf(i)
           d == <<i, Len(pushed[q]) + 1>>
<1>1. /\ TreeTypes /\ FileInv(i) /\ q \in Queues /\ q \notin Workers /\ QueueInv(q)
      /\ Span(q) = {i} /\ d \in Event
  BY FileQueues DEF TreeInv, TreeTypes, Event
<1>2. /\ Len(pushed[q]) < Len(file[i])
      /\ pushed' = [pushed EXCEPT ![q] = Append(@, d)]
      /\ UNCHANGED <<file, popped, closed, wpc, ea, eb, returned>>
  BY <1>1 DEF Feed, TreeTypes
<1>3. Len(pushed[q]) \in Nat /\ Len(file[i]) \in Nat /\ ~closed[q]
  BY <1>1, <1>2, FileTypes DEF TreeTypes, FileInv
<1>4. GoesNext(file, d, First(pushed[q], Len(pushed[q])), Span(q))
  BY <1>1, <1>2, FileGoesNext
<1> HIDE DEF d, q
<1>5. /\ pushed'[q] = Append(pushed[q], d) /\ TreeTypes'
      /\ \A r \in Queues \ {q} : pushed'[r] = pushed[r]
  BY <1>1, <1>2, PushTypes DEF TreeTypes
<1>6. ASSUME NEW r \in Queues PROVE QueueInv(r)'
  <2>1. CASE r = q
    <3>1. Merged(file, Append(pushed[q], d), Span(q))
      BY <1>1, <1>4, MergedOneMore DEF QueueInv, TreeTypes
    <3> QED BY <1>2, <1>3, <1>5, <2>1, <3>1 DEF QueueInv
  <2>2. CASE r # q
    BY <1>2, <1>5, <2>2, QueueAlike DEF TreeInv
  <2> QED BY <2>1, <2>2
<1>7. ASSUME NEW j \in Files PROVE FileInv(j)'
  <2>1. CASE j = i
    <3>1. /\ Len(pushed'[q]) = Len(pushed[q]) + 1 /\ pushed'[q][Len(pushed[q]) + 1] = d
          /\ \A k \in 1 .. Len(pushed[q]) : pushed'[q][k] = pushed[q][k]
      BY <1>1, <1>5, FirstOfMore DEF TreeTypes
    <3>2. \A k \in 1 .. Len(pushed'[q]) : pushed'[q][k] = <<i, k>>
      BY <1>1, <1>3, <3>1 DEF FileInv, q, d
    <3>3. Len(pushed'[q]) <= Len(file'[i]) /\ ~closed'[q]
      BY <1>2, <1>3, <3>1
    <3> QED BY <2>1, <3>2, <3>3 DEF FileInv, q
  <2>2. CASE j # i
    <3>1. InputOf(j) \in Queues \ {q}
      BY <2>2, FileQueues DEF q, InputOf
    <3> QED BY <1>2, <1>5, <3>1, FileAlike DEF TreeInv
  <2> QED BY <2>1, <2>2
<1>8. ASSUME NEW w \in Workers PROVE WorkerInv(w)'
  <2>1. w \in Queues \ {q}
    BY <1>1, WorkerQueues
  <2>2. \A r \in Queues : popped'[r] = popped[r] /\ SeenAlike(r)
    BY <1>1, <1>2, <1>3, <1>5 DEF SeenAlike
  <2>3. \A r \in Inputs(w) : popped'[r] = popped[r] /\ SeenAlike(r)
    BY <2>2, InputsKnown
  <2> QED BY <1>1, <1>2, <1>5, <2>1, <2>3, OthersKeepWorker DEF TreeInv
<1> QED BY <1>5, <1>6, <1>7, <1>8 DEF TreeInv

\* All events of the file are in its queue when it is closed.
LEMMA CloseFileTree == ASSUME TreeInv, NEW i \in Files, CloseFile(i) PROVE TreeInv'
<1> DEFINE q == InputOf(i)
<1>1. /\ TreeTypes /\ FileInv(i) /\ q \in Queues /\ q \notin Workers /\ QueueInv(q)
      /\ Span(q) = {i}
  BY FileQueues DEF TreeInv
<1>2. /\ Len(pushed[q]) = Len(file[i]) /\ closed' = [closed EXCEPT ![q] = TRUE]
      /\ UNCHANGED <<file, pushed, popped, wpc, ea, eb, returned>>
  BY DEF CloseFile
<1>3. Whole(file, pushed[q], Span(q))
  <2> SUFFICES ASSUME NEW e \in Events(file, {i}) PROVE e \in First(pushed[q], Len(pushed[q]))
    BY <1>1 DEF Whole
  <2>1. e[2] \in 1 .. Len(pushed[q]) /\ e = <<i, e[2]>>
    BY <1>2 DEF Events
  <2>2. pushed[q][e[2]] = e
    BY <1>1, <2>1 DEF FileInv
  <2> QED BY <2>1, <2>2 DEF First
<1>4. /\ TreeTypes' /\ closed'[q] /\ \A r \in Queues \ {q} : closed'[r] = closed[r]
  BY <1>1, <1>2 DEF TreeTypes
<1>5. ASSUME NEW r \in Queues PROVE QueueInv(r)'
  <2>1. CASE r = q
    BY <1>1, <1>2, <1>3, <2>1 DEF QueueInv
  <2>2. CASE r # q
    BY <1>2, <1>4, <2>2, QueueAlike DEF TreeInv
  <2> QED BY <2>1, <2>2
<1>6. ASSUME NEW j \in Files PROVE FileInv(j)'
  <2>1. CASE j = i
    BY <1>1, <1>2, <2>1 DEF FileInv
  <2>2. CASE j # i
    <3>1. InputOf(j) \in Queues \ {q}
      BY <2>2, FileQueues DEF InputOf
    <3> QED BY <1>2, <1>4, <3>1, FileAlike DEF TreeInv
  <2> QED BY <2>1, <2>2
<1>7. ASSUME NEW w \in Workers PROVE WorkerInv(w)'
  <2>1. w \in Queues \ {q}
    BY <1>1, WorkerQueues
  <2>2. \A r \in Queues : popped'[r] = popped[r] /\ SeenAlike(r)
    BY <1>1, <1>2, <1>4 DEF SeenAlike, TreeTypes
  <2>3. \A r \in Inputs(w) : popped'[r] = popped[r] /\ SeenAlike(r)
    BY <2>2, InputsKnown
  <2> QED BY <1>1, <1>2, <1>4, <2>1, <2>3, OthersKeepWorker DEF TreeInv
<1> QED BY <1>4, <1>5, <1>6, <1>7 DEF TreeInv
-----------------------------------------------------------------------------
(* The workers *)

\* A pop leaves the queue as it is for all that do not read it.
LEMMA PopKeepsOthers ==
  ASSUME TreeInv, NEW w \in Workers, NEW q \in Inputs(w), PopOne(q),
         UNCHANGED <<file, pushed, closed>>,
         \A v \in Workers \ {w} : wpc'[v] = wpc[v] /\ ea'[v] = ea[v] /\ eb'[v] = eb[v]
  PROVE  /\ popped' \in [Queues -> Nat]
         /\ \A r \in Queues : popped'[r] <= Len(pushed'[r])
         /\ \A r \in Queues \ {q} : popped'[r] = popped[r]
         /\ \A r \in Queues : QueueInv(r)'
         /\ \A i \in Files : FileInv(i)'
         /\ \A v \in Workers \ {w} : WorkerInv(v)'
         /\ LET h == Popped(q)
            IN  /\ h \in Seq(Event) /\ Held(pushed'[q], popped'[q], h)
                /\ Passed(pushed'[q], popped'[q], h) = Passed(pushed[q], popped[q], <<>>)
                /\ h = <<>> => Ended(q)'
<1>1. TreeTypes /\ q \in Queues
  BY InputsKnown DEF TreeInv
<1>2. \/ popped[q] < Len(pushed[q]) /\ popped' = [popped EXCEPT ![q] = @ + 1]
      \/ popped[q] = Len(pushed[q]) /\ closed[q] /\ popped' = popped
  BY DEF PopOne
<1>3. /\ popped' \in [Queues -> Nat]
      /\ \A r \in Queues \ {q} : popped'[r] = popped[r]
      /\ \/ popped[q] < Len(pushed[q]) /\ popped'[q] = popped[q] + 1
         \/ popped[q] = Len(pushed[q]) /\ closed[q] /\ popped'[q] = popped[q]
  <2>1. popped \in [Queues -> Nat]
    BY <1>1 DEF TreeTypes
  <2>2. CASE popped[q] < Len(pushed[q]) /\ popped' = [popped EXCEPT ![q] = @ + 1]
    BY <1>1, <2>1, <2>2
  <2>3. CASE popped[q] = Len(pushed[q]) /\ closed[q] /\ popped' = popped
    BY <1>1, <2>1, <2>3
  <2> QED BY <1>2, <2>2, <2>3
<1> DEFINE h == Popped(q)
<1>4. /\ popped'[q] \in Nat /\ popped'[q] <= Len(pushed[q])
      /\ h \in Seq(Event) /\ Held(pushed[q], popped'[q], h)
      /\ Passed(pushed[q], popped'[q], h) = Passed(pushed[q], popped[q], <<>>)
      /\ h = <<>> => closed[q] /\ popped'[q] = Len(pushed[q])
  <2> DEFINE s == pushed[q]
             n == popped[q]
             n2 == popped'[q]
  <2>1. /\ s \in Seq(Event) /\ n \in Nat /\ n <= Len(s)
        /\ h = IF n < Len(s) THEN <<s[n + 1]>> ELSE <<>>
    BY <1>1 DEF TreeTypes, Popped
  <2>2. /\ \/ n < Len(s) /\ n2 = n + 1
           \/ n = Len(s) /\ n2 = n
        /\ n = Len(s) => closed[q]
    BY <1>3
  <2> HIDE DEF h, s, n, n2
  <2>3. /\ n2 \in Nat /\ n2 <= Len(s) /\ h \in Seq(Event)
        /\ Held(s, n2, h) /\ Passed(s, n2, h) = Passed(s, n, <<>>)
        /\ h = <<>> => n = Len(s) /\ n2 = n
    BY <2>1, <2>2, PopTakes
  <2> QED BY <2>2, <2>3 DEF s, n, n2
<1>5. \A r \in Queues : popped'[r] <= Len(pushed'[r])
  BY <1>1, <1>3, <1>4 DEF TreeTypes
<1>6. \A r \in Queues : QueueInv(r)'
  BY QueueAlike DEF TreeInv
<1>7. \A i \in Files : FileInv(i)'
  BY FileAlike DEF TreeInv
<1>8. ASSUME NEW v \in Workers \ {w} PROVE WorkerInv(v)'
  <2>1. ASSUME NEW r \in Inputs(v) PROVE popped'[r] = popped[r] /\ SeenAlike(r)
    <3>1. r # q /\ r \in Queues
      BY OneReader, InputsKnown
    <3> QED BY <1>3, <3>1 DEF SeenAlike
  <2> QED BY <1>1, <2>1, OthersKeepWorker DEF TreeInv
<1> HIDE DEF h
<1> QED BY <1>3, <1>4, <1>5, <1>6, <1>7, <1>8 DEF Ended, h

\* Taking from the left queue.
LEMMA PopLeftTree == ASSUME TreeInv, NEW w \in Workers, PopLeft(w) PROVE TreeInv'
<1> DEFINE q == Left(w)
           h == Popped(q)
<1>1. /\ TreeTypes /\ WorkerInv(w) /\ q \in Queues /\ q # w /\ q \in Inputs(w)
      /\ HasRight(w) => Right(w) \in Queues /\ Right(w) # q
  BY WorkerQueues DEF TreeInv
<1>2. /\ wpc[w] \in {"first", "left"} /\ PopOne(q)
      /\ ea' = [ea EXCEPT ![w] = h]
      /\ wpc' = [wpc EXCEPT ![w] = IF @ = "first" /\ HasRight(w) THEN "second" ELSE "merge"]
      /\ UNCHANGED <<file, pushed, closed, eb, returned>>
  BY DEF PopLeft
<1> HIDE DEF h, q
<1>3. /\ ea[w] = <<>> /\ ea'[w] = h
      /\ wpc'[w] = IF wpc[w] = "first" /\ HasRight(w) THEN "second" ELSE "merge"
      /\ \A v \in Workers \ {w} : wpc'[v] = wpc[v] /\ ea'[v] = ea[v] /\ eb'[v] = eb[v]
  BY <1>1, <1>2 DEF TreeTypes, WorkerInv, EmptyInv
<1>4. /\ popped' \in [Queues -> Nat]
      /\ \A r \in Queues : popped'[r] <= Len(pushed'[r])
      /\ \A r \in Queues \ {q} : popped'[r] = popped[r]
      /\ \A r \in Queues : QueueInv(r)'
      /\ \A i \in Files : FileInv(i)'
      /\ \A v \in Workers \ {w} : WorkerInv(v)'
      /\ h \in Seq(Event) /\ Held(pushed'[q], popped'[q], h)
      /\ Passed(pushed'[q], popped'[q], h) = Passed(pushed[q], popped[q], <<>>)
      /\ h = <<>> => Ended(q)'
  BY <1>1, <1>2, <1>3, PopKeepsOthers DEF h
<1>5. TreeTypes'
  <2>1. ea' \in [Workers -> Seq(Event)]
    BY <1>1, <1>2, <1>4 DEF TreeTypes
  <2>2. wpc' \in [Workers -> WorkerPcs]
    BY <1>1, <1>2 DEF TreeTypes, WorkerPcs
  <2> QED BY <1>1, <1>2, <1>4, <2>1, <2>2 DEF TreeTypes
<1>6. HandsInv(w)'
  <2>1. LeftPassed(w)' = LeftPassed(w)
    BY <1>3, <1>4 DEF LeftPassed, q
  <2>2. RightPassed(w)' = RightPassed(w)
    BY <1>1, <1>2, <1>4 DEF RightPassed, q
  <2>3. HasRight(w) => popped'[Right(w)] = popped[Right(w)]
    BY <1>1, <1>4
  <2>4. Held(pushed'[Left(w)], popped'[Left(w)], ea'[w])
    BY <1>3, <1>4 DEF q
  <2> QED BY <1>1, <1>2, <2>1, <2>2, <2>3, <2>4 DEF WorkerInv, HandsInv
<1>7. EmptyInv(w)'
  <2>1. HasRight(w) => Ended(Right(w))' = Ended(Right(w))
    BY <1>1, <1>2, <1>4 DEF Ended
  <2>2. wpc[w] = "left" \/ (wpc[w] = "first" /\ eb[w] = <<>>)
    BY <1>1, <1>2 DEF WorkerInv, EmptyInv
  <2>3. ea'[w] = <<>> => Ended(Left(w))'
    BY <1>3, <1>4 DEF q
  <2> QED BY <1>1, <1>2, <1>3, <2>1, <2>2, <2>3 DEF WorkerInv, EmptyInv
<1> QED BY <1>4, <1>5, <1>6, <1>7 DEF TreeInv, WorkerInv

\* Taking from the right queue.
LEMMA PopRightTree == ASSUME TreeInv, NEW w \in Workers, PopRight(w) PROVE TreeInv'
<1> DEFINE q == Right(w)
           h == Popped(q)
<1>1. /\ TreeTypes /\ WorkerInv(w) /\ HasRight(w) /\ q \in Queues /\ q # w /\ q \in Inputs(w)
      /\ Left(w) \in Queues /\ Left(w) # q
  BY WorkerQueues DEF TreeInv, WorkerInv, EmptyInv, PopRight
<1>2. /\ wpc[w] \in {"second", "right"} /\ PopOne(q)
      /\ eb' = [eb EXCEPT ![w] = h]
      /\ wpc' = [wpc EXCEPT ![w] = "merge"]
      /\ UNCHANGED <<file, pushed, closed, ea, returned>>
  BY DEF PopRight
<1> HIDE DEF h, q
<1>3. /\ eb[w] = <<>> /\ eb'[w] = h /\ wpc'[w] = "merge"
      /\ \A v \in Workers \ {w} : wpc'[v] = wpc[v] /\ ea'[v] = ea[v] /\ eb'[v] = eb[v]
  BY <1>1, <1>2 DEF TreeTypes, WorkerInv, EmptyInv
<1>4. /\ popped' \in [Queues -> Nat]
      /\ \A r \in Queues : popped'[r] <= Len(pushed'[r])
      /\ \A r \in Queues \ {q} : popped'[r] = popped[r]
      /\ \A r \in Queues : QueueInv(r)'
      /\ \A i \in Files : FileInv(i)'
      /\ \A v \in Workers \ {w} : WorkerInv(v)'
      /\ h \in Seq(Event) /\ Held(pushed'[q], popped'[q], h)
      /\ Passed(pushed'[q], popped'[q], h) = Passed(pushed[q], popped[q], <<>>)
      /\ h = <<>> => Ended(q)'
  BY <1>1, <1>2, <1>3, PopKeepsOthers DEF h
<1>5. TreeTypes'
  <2>1. eb' \in [Workers -> Seq(Event)]
    BY <1>1, <1>2, <1>4 DEF TreeTypes
  <2>2. wpc' \in [Workers -> WorkerPcs]
    BY <1>1, <1>2 DEF TreeTypes, WorkerPcs
  <2> QED BY <1>1, <1>2, <1>4, <2>1, <2>2 DEF TreeTypes
<1>6. HandsInv(w)'
  <2>1. RightPassed(w)' = RightPassed(w)
    BY <1>3, <1>4 DEF RightPassed, q
  <2>2. LeftPassed(w)' = LeftPassed(w) /\ popped'[Left(w)] = popped[Left(w)]
    BY <1>1, <1>2, <1>4 DEF LeftPassed
  <2>3. Held(pushed'[Right(w)], popped'[Right(w)], eb'[w])
    BY <1>3, <1>4 DEF q
  <2> QED BY <1>1, <1>2, <2>1, <2>2, <2>3 DEF WorkerInv, HandsInv
<1>7. EmptyInv(w)'
  <2>1. Ended(Left(w))' = Ended(Left(w))
    BY <1>1, <1>2, <1>4 DEF Ended
  <2>2. eb'[w] = <<>> => Ended(Right(w))'
    BY <1>3, <1>4 DEF q
  <2> QED BY <1>1, <1>2, <1>3, <2>1, <2>2 DEF WorkerInv, EmptyInv
<1> QED BY <1>4, <1>5, <1>6, <1>7 DEF TreeInv, WorkerInv

\* The event d of one input of w is pushed to its queue.
LEMMA PushKeepsOthers ==
  ASSUME TreeInv, NEW w \in Workers, ~closed[w], NEW d \in Event,
         GoesNext(file, d, First(pushed[w], Len(pushed[w])), Span(w)),
         pushed' = [pushed EXCEPT ![w] = Append(@, d)],
         UNCHANGED <<file, popped, closed>>,
         \A v \in Workers \ {w} : wpc'[v] = wpc[v] /\ ea'[v] = ea[v] /\ eb'[v] = eb[v]
  PROVE  /\ pushed' \in [Queues -> Seq(Event)]
         /\ \A r \in Queues : popped'[r] <= Len(pushed'[r])
         /\ \A r \in Queues \ {w} : pushed'[r] = pushed[r]
         /\ First(pushed'[w], Len(pushed'[w])) = First(pushed[w], Len(pushed[w])) \union {d}
         /\ \A r \in Queues : QueueInv(r)'
         /\ \A i \in Files : FileInv(i)'
         /\ \A v \in Workers \ {w} : WorkerInv(v)'
<1>1. TreeTypes /\ w \in Queues /\ QueueInv(w)
  BY WorkerQueues DEF TreeInv
<1>2. /\ pushed' \in [Queues -> Seq(Event)] /\ pushed'[w] = Append(pushed[w], d)
      /\ \A r \in Queues : popped'[r] <= Len(pushed'[r])
      /\ \A r \in Queues \ {w} : pushed'[r] = pushed[r]
  BY <1>1, PushTypes
<1>3. First(pushed'[w], Len(pushed'[w])) = First(pushed[w], Len(pushed[w])) \union {d}
  BY <1>1, <1>2, FirstOfMore DEF TreeTypes
<1>4. ASSUME NEW r \in Queues PROVE QueueInv(r)'
  <2>1. CASE r = w
    <3>1. Merged(file, Append(pushed[w], d), Span(w))
      BY <1>1, MergedOneMore DEF QueueInv, TreeTypes
    <3> QED BY <1>2, <2>1, <3>1 DEF QueueInv
  <2>2. CASE r # w
    BY <1>2, <2>2, QueueAlike DEF TreeInv
  <2> QED BY <2>1, <2>2
<1>5. ASSUME NEW i \in Files PROVE FileInv(i)'
  BY <1>2, FileQueues, FileAlike DEF TreeInv
<1>6. ASSUME NEW v \in Workers \ {w} PROVE WorkerInv(v)'
  <2>1. ASSUME NEW r \in Inputs(v) PROVE popped'[r] = popped[r] /\ SeenAlike(r)
    <3>1. r \in Queues
      BY InputsKnown
    <3> QED BY <1>2, <3>1 DEF SeenAlike
  <2>2. v \in Queues \ {w}
    BY WorkerQueues
  <2> QED BY <1>1, <1>2, <2>1, <2>2, OthersKeepWorker DEF TreeInv
<1> QED BY <1>2, <1>3, <1>4, <1>5, <1>6

\* The inputs of a worker that merges: two merges of files in order.
LEMMA InputsMerge ==
  ASSUME TreeInv, NEW w \in Workers
  PROVE  /\ TreeTypes /\ WorkerInv(w) /\ Left(w) \in Queues /\ w \in Queues /\ Left(w) # w
         /\ Merged(file, pushed[Left(w)], Span(Left(w))) /\ Span(Left(w)) \in SUBSET Files
         /\ pushed[Left(w)] \in Seq(Event)
         /\ popped[Left(w)] \in Nat /\ popped[Left(w)] <= Len(pushed[Left(w)])
         /\ closed[Left(w)] => Whole(file, pushed[Left(w)], Span(Left(w)))
         /\ HasRight(w) =>
              /\ Right(w) \in Queues /\ Right(w) # w
              /\ Merged(file, pushed[Right(w)], Span(Right(w))) /\ Span(Right(w)) \in SUBSET Files
              /\ pushed[Right(w)] \in Seq(Event)
              /\ popped[Right(w)] \in Nat /\ popped[Right(w)] <= Len(pushed[Right(w)])
              /\ closed[Right(w)] => Whole(file, pushed[Right(w)], Span(Right(w)))
BY WorkerQueues DEF TreeInv, TreeTypes, QueueInv, Span

\* The event of the left hand goes next, if it is not later than the right one's.
LEMMA LeftGoesNext ==
  ASSUME TreeInv, NEW w \in Workers, wpc[w] = "merge", LeftFirst(w)
  PROVE  GoesNext(file, ea[w][1], First(pushed[w], Len(pushed[w])), Span(w))
<1> DEFINE l == pushed[Left(w)]
           r == pushed[Right(w)]
           m == popped[Left(w)]
           n == popped[Right(w)]
           A == Span(Left(w))
           B == Span(Right(w))
           d == ea[w][1]
<1>1. /\ TreeTypes /\ WorkerInv(w) /\ file \in [Files -> Streams]
      /\ Merged(file, l, A) /\ A \in SUBSET Files /\ l \in Seq(Event) /\ m \in Nat /\ m <= Len(l)
  BY InputsMerge DEF TreeTypes
<1>2. Held(l, m, ea[w]) /\ ea[w] # <<>>
  BY <1>1 DEF WorkerInv, HandsInv, LeftFirst
<1> HIDE DEF l, r, m, n, A, B
<1>3. /\ m \in 1 .. Len(l) /\ d = l[m] /\ ea[w] = <<d>> /\ Passed(l, m, ea[w]) = First(l, m - 1)
      /\ Len(l) \in Nat
  BY <1>1, <1>2, HandPasses
<1>4. GoesNext(file, d, First(l, m - 1), A) /\ First(l, m - 1) \subseteq Events(file, A)
  BY <1>1, <1>3, MergedEvents DEF Merged
<1>5. d \in Events(file, Files) /\ d[1] \in A
  BY <1>1, <1>4 DEF GoesNext, Events
<1>6. CASE ~HasRight(w)
  <2>1. Span(w) = A /\ First(pushed[w], Len(pushed[w])) = First(l, m - 1)
    BY <1>1, <1>3, <1>6, SpanOfWorker
       DEF WorkerInv, HandsInv, LeftPassed, RightPassed, l, m, A
  <2> QED BY <1>4, <2>1
<1>7. CASE HasRight(w)
  <2>1. /\ Merged(file, r, B) /\ B \in SUBSET Files /\ r \in Seq(Event) /\ n \in Nat /\ n <= Len(r)
        /\ Held(r, n, eb[w])
        /\ closed[Right(w)] => Whole(file, r, B)
    BY <1>1, <1>7, InputsMerge DEF r, n, B, WorkerInv, HandsInv
  <2>2. /\ Span(w) = A \union B /\ \A i \in A, j \in B : i < j
        /\ First(pushed[w], Len(pushed[w])) = First(l, m - 1) \union Passed(r, n, eb[w])
    BY <1>1, <1>3, <1>7, SpanOfWorker
       DEF WorkerInv, HandsInv, LeftPassed, RightPassed, l, m, A, r, n, B
  <2>3. A \intersect B = {}
    <3>1. \A i \in A : i \in Nat
      BY <1>1, FileAssumption DEF Files
    <3> QED BY <2>2, <3>1
  <2>4. /\ Passed(r, n, eb[w]) \subseteq Events(file, B)
        /\ \A e \in Events(file, B) : IsNext(e, Passed(r, n, eb[w])) => NotLater(file, d, e)
    <3>1. CASE eb[w] = <<>>
      <4>1. closed[Right(w)] /\ n = Len(r)
        BY <1>1, <1>7, <3>1 DEF WorkerInv, EmptyInv, Ended, r, n
      <4>2. Passed(r, n, eb[w]) = First(r, Len(r)) /\ Len(r) \in Nat
        BY <2>1, <3>1, <4>1 DEF Passed
      <4> QED BY <2>1, <4>1, <4>2, NoNextOfWhole, MergedEvents
    <3>2. CASE eb[w] # <<>>
      <4>1. /\ n \in 1 .. Len(r) /\ eb[w][1] = r[n] /\ Passed(r, n, eb[w]) = First(r, n - 1)
            /\ Len(r) \in Nat
        BY <2>1, <3>2, HandPasses
      <4>2. NotLater(file, d, r[n])
        <5>1. Ts(d) <= Ts(eb[w][1])
          BY <3>2 DEF LeftFirst
        <5>2. r[n][1] \in B /\ r[n] \in Events(file, Files)
          BY <2>1, <4>1 DEF Merged, GoesNext, Events
        <5>3. Time(file, d) <= Time(file, r[n])
          BY <4>1, <5>1 DEF Ts, Time
        <5>4. d[1] < r[n][1]
          BY <1>5, <2>2, <5>2
        <5>5. ASSUME NEW x \in Events(file, Files) PROVE Time(file, x) \in Nat /\ x[1] \in Nat
          <6>1. x[1] \in Files /\ x[2] \in 1 .. Len(file[x[1]])
            BY DEF Events
          <6>2. file[x[1]] \in Seq(Nat) /\ x[1] \in Nat
            BY <1>1, <6>1, FileTypes, FileAssumption DEF Files
          <6> QED BY <6>1, <6>2 DEF Time
        <5> QED BY <1>5, <5>2, <5>3, <5>4, <5>5 DEF NotLater
      <4>3. First(r, n - 1) \subseteq Events(file, B)
        BY <2>1, <4>1, MergedEvents
      <4> QED BY <1>1, <1>5, <2>1, <4>1, <4>2, <4>3, NextOfOther
    <3> QED BY <3>1, <3>2
  <2> HIDE DEF d
  <2>5. GoesNext(file, d, First(l, m - 1) \union Passed(r, n, eb[w]), A \union B)
    BY <1>4, <2>3, <2>4, NextOfBoth
  <2> QED BY <2>2, <2>5 DEF d
<1> QED BY <1>6, <1>7

\* The event of the right hand goes next, if there is no left one or it is later.
LEMMA RightGoesNext ==
  ASSUME TreeInv, NEW w \in Workers, wpc[w] = "merge", ~LeftFirst(w), eb[w] # <<>>
  PROVE  GoesNext(file, eb[w][1], First(pushed[w], Len(pushed[w])), Span(w))
<1> DEFINE l == pushed[Left(w)]
           r == pushed[Right(w)]
           m == popped[Left(w)]
           n == popped[Right(w)]
           A == Span(Left(w))
           B == Span(Right(w))
           d == eb[w][1]
<1>1. /\ TreeTypes /\ WorkerInv(w) /\ file \in [Files -> Streams] /\ HasRight(w)
      /\ Merged(file, l, A) /\ A \in SUBSET Files /\ l \in Seq(Event) /\ m \in Nat /\ m <= Len(l)
      /\ Merged(file, r, B) /\ B \in SUBSET Files /\ r \in Seq(Event) /\ n \in Nat /\ n <= Len(r)
      /\ closed[Left(w)] => Whole(file, l, A)
  BY InputsMerge DEF TreeTypes, WorkerInv, EmptyInv
<1>2. Held(l, m, ea[w]) /\ Held(r, n, eb[w])
  BY <1>1 DEF WorkerInv, HandsInv
<1>3. /\ Span(w) = A \union B /\ \A i \in A, j \in B : i < j
      /\ First(pushed[w], Len(pushed[w])) = Passed(l, m, ea[w]) \union Passed(r, n, eb[w])
  BY <1>1, SpanOfWorker DEF WorkerInv, HandsInv, LeftPassed, RightPassed
<1>4. ea[w] = <<>> => closed[Left(w)] /\ m = Len(l)
  BY <1>1 DEF WorkerInv, EmptyInv, Ended
<1> HIDE DEF l, r, m, n, A, B
<1>5. /\ n \in 1 .. Len(r) /\ d = r[n] /\ Passed(r, n, eb[w]) = First(r, n - 1)
      /\ Len(r) \in Nat
  BY <1>1, <1>2, HandPasses
<1>6. GoesNext(file, d, First(r, n - 1), B) /\ First(r, n - 1) \subseteq Events(file, B)
  BY <1>1, <1>5, MergedEvents DEF Merged
<1>7. d \in Events(file, Files) /\ d[1] \in B
  BY <1>1, <1>6 DEF GoesNext, Events
<1>8. B \intersect A = {}
  <2>1. \A i \in A : i \in Nat
    BY <1>1, FileAssumption DEF Files
  <2> QED BY <1>3, <2>1
<1>9. /\ Passed(l, m, ea[w]) \subseteq Events(file, A)
      /\ \A e \in Events(file, A) : IsNext(e, Passed(l, m, ea[w])) => NotLater(file, d, e)
  <2>1. CASE ea[w] = <<>>
    <3>1. Passed(l, m, ea[w]) = First(l, Len(l)) /\ Len(l) \in Nat
      BY <1>1, <1>4, <2>1 DEF Passed
    <3> QED BY <1>1, <1>4, <2>1, <3>1, NoNextOfWhole, MergedEvents
  <2>2. CASE ea[w] # <<>>
    <3>1. /\ m \in 1 .. Len(l) /\ ea[w][1] = l[m] /\ Passed(l, m, ea[w]) = First(l, m - 1)
          /\ Len(l) \in Nat
      BY <1>1, <1>2, <2>2, HandPasses
    <3>2. NotLater(file, d, l[m])
      <4>1. ~(Ts(ea[w][1]) <= Ts(d))
        BY <2>2 DEF LeftFirst
      <4>2. l[m] \in Events(file, Files)
        BY <1>1, <3>1 DEF Merged, GoesNext, Events
      <4>3. ~(Time(file, l[m]) <= Time(file, d))
        BY <3>1, <4>1 DEF Ts, Time
      <4>4. ASSUME NEW x \in Events(file, Files) PROVE Time(file, x) \in Nat
        <5>1. x[1] \in Files /\ x[2] \in 1 .. Len(file[x[1]])
          BY DEF Events
        <5>2. file[x[1]] \in Seq(Nat)
          BY <1>1, <5>1, FileTypes
        <5> QED BY <5>1, <5>2 DEF Time
      <4>5. Time(file, l[m]) \in Nat /\ Time(file, d) \in Nat
        BY <1>7, <4>2, <4>4
      <4> QED BY <4>3, <4>5 DEF NotLater
    <3>3. First(l, m - 1) \subseteq Events(file, A)
      BY <1>1, <3>1, MergedEvents
    <3> QED BY <1>1, <1>7, <3>1, <3>2, <3>3, NextOfOther
  <2> QED BY <2>1, <2>2
<1> HIDE DEF d
<1>10. GoesNext(file, d, First(r, n - 1) \union Passed(l, m, ea[w]), B \union A)
  BY <1>6, <1>8, <1>9, NextOfBoth
<1>11. /\ First(r, n - 1) \union Passed(l, m, ea[w]) = First(pushed[w], Len(pushed[w]))
       /\ B \union A = Span(w)
  BY <1>3, <1>5
<1> QED BY <1>10, <1>11 DEF d

\* Pushing the event of the left hand.
LEMMA PushLeftTree == ASSUME TreeInv, NEW w \in Workers, PushLeft(w) PROVE TreeInv'
<1> DEFINE q == Left(w)
           d == ea[w][1]
<1>1. /\ TreeTypes /\ WorkerInv(w) /\ q \in Queues /\ q # w /\ pushed[q] \in Seq(Event)
      /\ popped[q] \in Nat /\ popped[q] <= Len(pushed[q])
      /\ HasRight(w) => Right(w) \in Queues /\ Right(w) # w
  BY InputsMerge
<1>2. /\ wpc[w] = "merge" /\ LeftFirst(w) /\ ea[w] # <<>>
      /\ pushed' = [pushed EXCEPT ![w] = @ \o ea[w]]
      /\ ea' = [ea EXCEPT ![w] = <<>>] /\ wpc' = [wpc EXCEPT ![w] = "left"]
      /\ UNCHANGED <<file, popped, closed, eb, returned>>
  BY DEF PushLeft, LeftFirst
<1>3. /\ ea[w] = <<d>> /\ d \in Event
      /\ Passed(pushed[q], popped[q], <<>>) = Passed(pushed[q], popped[q], ea[w]) \union {d}
  <2>1. Held(pushed[q], popped[q], ea[w])
    BY <1>1 DEF WorkerInv, HandsInv
  <2> QED BY <1>1, <1>2, <2>1, HandPasses
<1>4. GoesNext(file, d, First(pushed[w], Len(pushed[w])), Span(w))
  BY <1>2, LeftGoesNext
<1>5. ~closed[w]
  BY <1>1, <1>2 DEF WorkerInv, EmptyInv
<1> HIDE DEF d, q
<1>6. pushed' = [pushed EXCEPT ![w] = Append(@, d)]
  <2>1. pushed[w] \in Seq(Event)
    BY <1>1, WorkerQueues DEF TreeTypes
  <2>2. pushed[w] \o ea[w] = Append(pushed[w], d)
    BY <1>3, <2>1
  <2> QED BY <1>2, <2>2
<1>7. /\ ea'[w] = <<>> /\ wpc'[w] = "left"
      /\ \A v \in Workers \ {w} : wpc'[v] = wpc[v] /\ ea'[v] = ea[v] /\ eb'[v] = eb[v]
  BY <1>1, <1>2 DEF TreeTypes
<1>8. /\ pushed' \in [Queues -> Seq(Event)]
      /\ \A r \in Queues : popped'[r] <= Len(pushed'[r])
      /\ \A r \in Queues \ {w} : pushed'[r] = pushed[r]
      /\ First(pushed'[w], Len(pushed'[w])) = First(pushed[w], Len(pushed[w])) \union {d}
      /\ \A r \in Queues : QueueInv(r)'
      /\ \A i \in Files : FileInv(i)'
      /\ \A v \in Workers \ {w} : WorkerInv(v)'
  BY <1>2, <1>3, <1>4, <1>5, <1>6, <1>7, PushKeepsOthers
<1>9. TreeTypes'
  <2>1. ea' \in [Workers -> Seq(Event)]
    <3>1. <<>> \in Seq(Event)
      OBVIOUS
    <3> QED BY <1>1, <1>2, <3>1 DEF TreeTypes
  <2>2. wpc' \in [Workers -> WorkerPcs]
    BY <1>1, <1>2 DEF TreeTypes, WorkerPcs
  <2> QED BY <1>1, <1>2, <1>8, <2>1, <2>2 DEF TreeTypes
<1>10. HandsInv(w)'
  <2>1. LeftPassed(w)' = LeftPassed(w) \union {d}
    BY <1>1, <1>2, <1>3, <1>7, <1>8 DEF LeftPassed, q
  <2>2. RightPassed(w)' = RightPassed(w)
    BY <1>1, <1>2, <1>8 DEF RightPassed
  <2>3. Held(pushed'[Left(w)], popped'[Left(w)], ea'[w])
    BY <1>7 DEF Held
  <2>4. HasRight(w) => pushed'[Right(w)] = pushed[Right(w)]
    BY <1>1, <1>8
  <2>5. /\ First(pushed[w], Len(pushed[w])) = LeftPassed(w) \union RightPassed(w)
        /\ HasRight(w) => Held(pushed[Right(w)], popped[Right(w)], eb[w])
    BY <1>1 DEF WorkerInv, HandsInv
  <2>6. First(pushed'[w], Len(pushed'[w])) = LeftPassed(w)' \union RightPassed(w)'
    BY <1>8, <2>1, <2>2, <2>5
  <2> QED BY <1>2, <2>3, <2>4, <2>5, <2>6 DEF HandsInv
<1>11. EmptyInv(w)'
  <2>1. HasRight(w) => Ended(Right(w))' = Ended(Right(w))
    BY <1>1, <1>2, <1>8 DEF Ended
  <2> QED BY <1>1, <1>2, <1>7, <2>1 DEF WorkerInv, EmptyInv
<1> QED BY <1>8, <1>9, <1>10, <1>11 DEF TreeInv, WorkerInv

\* Pushing the event of the right hand.
LEMMA PushRightTree == ASSUME TreeInv, NEW w \in Workers, PushRight(w) PROVE TreeInv'
<1> DEFINE q == Right(w)
           d == eb[w][1]
<1>1. /\ wpc[w] = "merge" /\ ~LeftFirst(w) /\ eb[w] # <<>>
      /\ pushed' = [pushed EXCEPT ![w] = @ \o eb[w]]
      /\ eb' = [eb EXCEPT ![w] = <<>>] /\ wpc' = [wpc EXCEPT ![w] = "right"]
      /\ UNCHANGED <<file, popped, closed, ea, returned>>
  BY DEF PushRight
<1>2. /\ TreeTypes /\ WorkerInv(w) /\ HasRight(w) /\ q \in Queues /\ q # w
      /\ pushed[q] \in Seq(Event) /\ popped[q] \in Nat /\ popped[q] <= Len(pushed[q])
      /\ Left(w) \in Queues /\ Left(w) # w
  BY <1>1, InputsMerge DEF WorkerInv, EmptyInv
<1>3. /\ eb[w] = <<d>> /\ d \in Event
      /\ Passed(pushed[q], popped[q], <<>>) = Passed(pushed[q], popped[q], eb[w]) \union {d}
  <2>1. Held(pushed[q], popped[q], eb[w])
    BY <1>2 DEF WorkerInv, HandsInv
  <2> QED BY <1>1, <1>2, <2>1, HandPasses
<1>4. GoesNext(file, d, First(pushed[w], Len(pushed[w])), Span(w))
  BY <1>1, RightGoesNext
<1>5. ~closed[w]
  BY <1>1, <1>2 DEF WorkerInv, EmptyInv
<1> HIDE DEF d, q
<1>6. pushed' = [pushed EXCEPT ![w] = Append(@, d)]
  <2>1. pushed[w] \in Seq(Event)
    BY <1>2, WorkerQueues DEF TreeTypes
  <2>2. pushed[w] \o eb[w] = Append(pushed[w], d)
    BY <1>3, <2>1
  <2> QED BY <1>1, <2>2
<1>7. /\ eb'[w] = <<>> /\ wpc'[w] = "right"
      /\ \A v \in Workers \ {w} : wpc'[v] = wpc[v] /\ ea'[v] = ea[v] /\ eb'[v] = eb[v]
  BY <1>1, <1>2 DEF TreeTypes
<1>8. /\ pushed' \in [Queues -> Seq(Event)]
      /\ \A r \in Queues : popped'[r] <= Len(pushed'[r])
      /\ \A r \in Queues \ {w} : pushed'[r] = pushed[r]
      /\ First(pushed'[w], Len(pushed'[w])) = First(pushed[w], Len(pushed[w])) \union {d}
      /\ \A r \in Queues : QueueInv(r)'
      /\ \A i \in Files : FileInv(i)'
      /\ \A v \in Workers \ {w} : WorkerInv(v)'
  BY <1>1, <1>3, <1>4, <1>5, <1>6, <1>7, PushKeepsOthers
<1>9. TreeTypes'
  <2>1. eb' \in [Workers -> Seq(Event)]
    <3>1. <<>> \in Seq(Event)
      OBVIOUS
    <3> QED BY <1>1, <1>2, <3>1 DEF TreeTypes
  <2>2. wpc' \in [Workers -> WorkerPcs]
    BY <1>1, <1>2 DEF TreeTypes, WorkerPcs
  <2> QED BY <1>1, <1>2, <1>8, <2>1, <2>2 DEF TreeTypes
<1>10. HandsInv(w)'
  <2>1. RightPassed(w)' = RightPassed(w) \union {d}
    BY <1>1, <1>2, <1>3, <1>7, <1>8 DEF RightPassed, q
  <2>2. LeftPassed(w)' = LeftPassed(w) /\ pushed'[Left(w)] = pushed[Left(w)]
    BY <1>1, <1>2, <1>8 DEF LeftPassed
  <2>3. Held(pushed'[Right(w)], popped'[Right(w)], eb'[w])
    BY <1>7 DEF Held
  <2>4. /\ First(pushed[w], Len(pushed[w])) = LeftPassed(w) \union RightPassed(w)
        /\ Held(pushed[Left(w)], popped[Left(w)], ea[w])
    BY <1>2 DEF WorkerInv, HandsInv
  <2>5. First(pushed'[w], Len(pushed'[w])) = LeftPassed(w)' \union RightPassed(w)'
    BY <1>8, <2>1, <2>2, <2>4
  <2> QED BY <1>1, <2>2, <2>3, <2>4, <2>5 DEF HandsInv
<1>11. EmptyInv(w)'
  <2>1. Ended(Left(w))' = Ended(Left(w))
    BY <1>1, <1>2, <1>8 DEF Ended
  <2> QED BY <1>1, <1>2, <1>7, <2>1 DEF WorkerInv, EmptyInv
<1> QED BY <1>8, <1>9, <1>10, <1>11 DEF TreeInv, WorkerInv

\* A worker closes its queue when all events of its files are in it.
LEMMA CloseOutTree == ASSUME TreeInv, NEW w \in Workers, CloseOut(w) PROVE TreeInv'
<1>1. /\ wpc[w] = "merge" /\ ea[w] = <<>> /\ eb[w] = <<>>
      /\ closed' = [closed EXCEPT ![w] = TRUE] /\ wpc' = [wpc EXCEPT ![w] = "done"]
      /\ UNCHANGED <<file, pushed, popped, ea, eb, returned>>
  BY DEF CloseOut
<1>2. TreeTypes /\ WorkerInv(w) /\ w \in Queues /\ QueueInv(w)
  BY WorkerQueues DEF TreeInv
<1>3. Whole(file, pushed[w], Span(w))
  <2>1. ASSUME NEW q \in Queues, Ended(q), QueueInv(q)
        PROVE  Events(file, Span(q)) \subseteq Passed(pushed[q], popped[q], <<>>)
    <3>1. popped[q] = Len(pushed[q]) /\ popped[q] \in Nat /\ Len(<<>>) = 0 
      BY <1>2, <2>1 DEF Ended, TreeTypes
    <3> QED BY <2>1, <3>1 DEF QueueInv, Whole, Ended, Passed
  <2>2. Events(file, Span(Left(w))) \subseteq LeftPassed(w)
    BY <1>1, <1>2, <2>1, WorkerQueues DEF TreeInv, WorkerInv, EmptyInv, LeftPassed
  <2>3. HasRight(w) => Events(file, Span(Right(w))) \subseteq RightPassed(w)
    BY <1>1, <1>2, <2>1, WorkerQueues DEF TreeInv, WorkerInv, EmptyInv, RightPassed
  <2>4. Events(file, Span(w)) \subseteq LeftPassed(w) \union RightPassed(w)
    BY <2>2, <2>3, SpanOfWorker DEF Events
  <2> QED BY <1>2, <2>4 DEF WorkerInv, HandsInv, Whole
<1>4. /\ TreeTypes' /\ closed'[w] /\ wpc'[w] = "done"
      /\ \A r \in Queues \ {w} : closed'[r] = closed[r]
      /\ \A v \in Workers \ {w} : wpc'[v] = wpc[v]
  BY <1>1, <1>2 DEF TreeTypes, WorkerPcs
<1>5. ASSUME NEW r \in Queues PROVE QueueInv(r)'
  <2>1. CASE r = w
    BY <1>1, <1>2, <1>3, <2>1 DEF QueueInv
  <2>2. CASE r # w
    BY <1>1, <1>4, <2>2, QueueAlike DEF TreeInv
  <2> QED BY <2>1, <2>2
<1>6. ASSUME NEW i \in Files PROVE FileInv(i)'
  BY <1>1, <1>4, FileQueues, FileAlike DEF TreeInv
<1>7. \A r \in Queues : popped'[r] = popped[r] /\ SeenAlike(r)
  BY <1>1, <1>2, <1>4 DEF SeenAlike, TreeTypes
<1>8. ASSUME NEW v \in Workers PROVE WorkerInv(v)'
  <2>1. CASE v = w
    <3>1. HandsInv(w)'
      BY <1>1, <1>2 DEF WorkerInv, HandsInv, LeftPassed, RightPassed
    <3>2. Ended(Left(w)) /\ (HasRight(w) => Ended(Right(w)))
      BY <1>1, <1>2 DEF WorkerInv, EmptyInv
    <3>3. Ended(Left(w))' /\ (HasRight(w) => Ended(Right(w))')
      BY <1>1, <1>7, <3>2, WorkerQueues DEF Ended, SeenAlike
    <3>4. EmptyInv(w)'
      BY <1>1, <1>2, <1>4, <3>3 DEF WorkerInv, EmptyInv
    <3> QED BY <2>1, <3>1, <3>4 DEF WorkerInv
  <2>2. CASE v # w
    <3>1. v \in Queues \ {w} /\ \A r \in Inputs(v) : popped'[r] = popped[r] /\ SeenAlike(r)
      BY <1>7, <2>2, WorkerQueues, InputsKnown
    <3> QED BY <1>1, <1>2, <1>4, <2>2, <3>1, OthersKeepWorker DEF TreeInv
  <2> QED BY <2>1, <2>2
<1> QED BY <1>4, <1>5, <1>6, <1>8 DEF TreeInv

\* Every step keeps the invariant.
LEMMA StepTree == TreeInv /\ [Next]_vars => TreeInv'
<1> SUFFICES ASSUME TreeInv, [Next]_vars PROVE TreeInv'
  OBVIOUS
<1>1. CASE Join \/ UNCHANGED vars
  <2>1. UNCHANGED <<file, pushed, popped, closed, wpc, ea, eb>>
    BY <1>1 DEF Join, vars
  <2>2. TreeTypes'
    BY <2>1 DEF TreeInv, TreeTypes
  <2>3. \A q \in Queues : QueueInv(q)'
    BY <2>1, QueueAlike DEF TreeInv
  <2>4. \A i \in Files : FileInv(i)'
    BY <2>1, FileAlike DEF TreeInv
  <2>5. ASSUME NEW w \in Workers PROVE WorkerInv(w)'
    <3>1. \A q \in Inputs(w) : popped'[q] = popped[q] /\ SeenAlike(q)
      BY <2>1 DEF SeenAlike
    <3> QED BY <2>1, <3>1, OthersKeepWorker DEF TreeInv
  <2> QED BY <2>2, <2>3, <2>4, <2>5 DEF TreeInv
<1>2. ASSUME NEW w \in Workers, Worker(w) PROVE TreeInv'
  BY <1>2, PopLeftTree, PopRightTree, PushLeftTree, PushRightTree, CloseOutTree DEF Worker
<1> QED BY <1>1, <1>2, FeedTree, CloseFileTree DEF Next, Terminated

\* In every state, each queue has a beginning of the merge of its files.
THEOREM EveryQueueMerges == Spec => []TreeInv
BY InitTree, StepTree, PTL DEF Spec
-----------------------------------------------------------------------------
(* What the merge of all files is *)

\* What goes next is not later than any event of the files that was not seen:
\* the first of its file that was not seen lies between.
LEMMA NextIsFirst ==
  ASSUME NEW f \in [Files -> Streams], \A i \in Files : Abstract!Ascending(f[i]),
         NEW d, NEW e \in Events(f, Files), NEW seen,
         GoesNext(f, d, seen, Files), e \notin seen, e # d
  PROVE  \/ Time(f, d) < Time(f, e)
         \/ Time(f, d) = Time(f, e) /\ d[1] < e[1]
         \/ Time(f, d) = Time(f, e) /\ d[1] = e[1] /\ d[2] < e[2]
<1> DEFINE i == e[1]
           n == e[2]
           P == {m \in 1 .. n : <<i, m>> \notin seen}
<1>1. /\ i \in Files /\ i \in Nat /\ n \in 1 .. Len(f[i]) /\ e = <<i, n>> /\ f[i] \in Seq(Nat)
      /\ d \in Events(f, Files)
  BY FileAssumption DEF Events, Files, GoesNext
<1>2. /\ d[1] \in Files /\ d[1] \in Nat /\ d[2] \in 1 .. Len(f[d[1]]) /\ d = <<d[1], d[2]>>
      /\ f[d[1]] \in Seq(Nat)
  BY <1>1, FileAssumption DEF Events, Files
<1>3. IsFiniteSet(P) /\ P \subseteq Nat /\ n \in P
  <2>1. n \in Nat /\ 1 \in Int /\ n \in Int /\ n \in 1 .. n
    BY <1>1
  <2>2. n \in P
    BY <1>1, <2>1
  <2>3. P \subseteq 1 .. n
    OBVIOUS
  <2> HIDE DEF n, P
  <2>4. IsFiniteSet(1 .. n)
    BY <2>1, FS_Interval
  <2>5. IsFiniteSet(P)
    BY <2>3, <2>4, FS_Subset
  <2>6. 1 .. n \subseteq Nat
    BY <2>1
  <2> QED BY <2>2, <2>3, <2>5, <2>6
<1>4. PICK m \in P : \A x \in P : m <= x
  BY <1>3, LeastExists
<1> DEFINE e0 == <<i, m>>
<1>5. m \in 1 .. n /\ e0 \notin seen
  BY <1>4
<1>6. \A x \in 1 .. m - 1 : <<i, x>> \in seen
  <2> SUFFICES ASSUME NEW x \in 1 .. m - 1, <<i, x>> \notin seen PROVE FALSE
    OBVIOUS
  <2>1. x \in 1 .. n /\ ~(m <= x)
    BY <1>1, <1>5
  <2> QED BY <1>4, <2>1
<1>7. NotLater(f, d, e0)
  <2>1. e0 \in Events(f, Files)
    BY <1>1, <1>5 DEF Events
  <2>2. IsNext(e0, seen)
    BY <1>5, <1>6 DEF IsNext
  <2> QED BY <2>1, <2>2 DEF GoesNext
<1>8. /\ Time(f, e0) = f[i][m] /\ Time(f, e) = f[i][n] /\ Time(f, d) = f[d[1]][d[2]]
      /\ f[i][m] \in Nat /\ f[i][n] \in Nat /\ f[d[1]][d[2]] \in Nat /\ e0[1] = i
  <2>1. Time(f, e0) = f[i][m] /\ Time(f, e) = f[i][n] /\ Time(f, d) = f[d[1]][d[2]] /\ e0[1] = i
    BY DEF Time
  <2>2. m \in 1 .. Len(f[i])
    BY <1>1, <1>5
  <2> HIDE DEF i, n
  <2>3. f[i][m] \in Nat /\ f[i][n] \in Nat
    BY <1>1, <2>2
  <2>4. f[d[1]][d[2]] \in Nat
    BY <1>2
  <2> QED BY <2>1, <2>3, <2>4
<1>9. f[i][m] <= f[i][n]
  <2>1. CASE m = n
    BY <1>8, <2>1
  <2>2. CASE m < n
    <3>1. Abstract!Ascending(f[i]) /\ DOMAIN f[i] = 1 .. Len(f[i]) /\ Len(f[i]) \in Nat
      BY <1>1
    <3>2. m \in 1 .. Len(f[i])
      BY <1>1, <1>5, <3>1
    <3> QED BY <1>1, <2>2, <3>1, <3>2 DEF Abstract!Ascending
  <2> QED BY <1>1, <1>5, <2>1, <2>2
<1>10. ASSUME d[1] = i PROVE d[2] < n
  <2>1. d[2] # n
    BY <1>1, <1>2, <1>10
  <2>2. ~(n \in 1 .. d[2] - 1)
    BY <1>1, <1>10 DEF GoesNext, IsNext
  <2> QED BY <1>1, <1>2, <1>10, <2>1, <2>2
<1> HIDE DEF P, e0, i, n
<1>11. Time(f, d) < Time(f, e0) \/ (Time(f, d) = Time(f, e0) /\ d[1] <= i)
  BY <1>7, <1>8 DEF NotLater
<1>12. Time(f, d) \in Nat /\ Time(f, e0) \in Nat /\ Time(f, e) \in Nat /\ Time(f, e0) <= Time(f, e)
  BY <1>8, <1>9
<1> QED BY <1>1, <1>2, <1>10, <1>11, <1>12 DEF i, n

\* A merge of sorted files has one order.
LEMMA MergeIsStable ==
  ASSUME NEW f \in [Files -> Streams], \A i \in Files : Abstract!Ascending(f[i]),
         NEW s, Merged(f, s, Files), Len(s) \in Nat,
         NEW j \in 1 .. Len(s), NEW k \in 1 .. Len(s), j < k
  PROVE  \/ Time(f, s[j]) < Time(f, s[k])
         \/ Time(f, s[j]) = Time(f, s[k]) /\ s[j][1] < s[k][1]
         \/ Time(f, s[j]) = Time(f, s[k]) /\ s[j][1] = s[k][1] /\ s[j][2] < s[k][2]
<1>1. GoesNext(f, s[j], First(s, j - 1), Files) /\ GoesNext(f, s[k], First(s, k - 1), Files)
  BY DEF Merged
<1>2. First(s, j - 1) \subseteq First(s, k - 1) /\ s[j] \in First(s, k - 1)
  BY DEF First
<1>3. s[k] \in Events(f, Files) /\ s[k] \notin First(s, k - 1)
  BY <1>1 DEF GoesNext, IsNext
<1> QED BY <1>1, <1>2, <1>3, NextIsFirst

\* What is known of output_.
LEMMA OutputMerges ==
  ASSUME TreeInv
  PROVE  /\ Output \in Workers /\ Output \in Queues
         /\ out \in Seq(Event) /\ Len(out) \in Nat /\ DOMAIN out = 1 .. Len(out)
         /\ file \in [Files -> Streams] /\ Merged(file, out, Files)
         /\ closed[Output] => Whole(file, out, Files)
<1>1. Output \in Workers /\ Output \in Queues /\ Span(Output) = Files
  BY OutputIs, WorkerQueues
<1>2. out \in Seq(Event) /\ file \in [Files -> Streams]
  BY <1>1 DEF TreeInv, TreeTypes, out
<1> QED BY <1>1, <1>2 DEF TreeInv, QueueInv, out

\* run_impl of HierarchyMerger, given sorted files, has one possible output: the
\* left queue goes first at every stage when the times are equal.
THEOREM OutputIsStable == Spec => []StableOutput
<1>1. TreeInv => StableOutput
  <2> SUFFICES ASSUME TreeInv, \A i \in Files : Abstract!Ascending(file[i]),
                      NEW j \in DOMAIN out, NEW k \in DOMAIN out, j < k
               PROVE  Before(out[j], out[k])
    BY DEF StableOutput
  <2>1. /\ \/ Time(file, out[j]) < Time(file, out[k])
           \/ Time(file, out[j]) = Time(file, out[k]) /\ out[j][1] < out[k][1]
           \/ /\ Time(file, out[j]) = Time(file, out[k]) /\ out[j][1] = out[k][1]
              /\ out[j][2] < out[k][2]
    BY OutputMerges, MergeIsStable
  <2> QED BY <2>1 DEF Before, Ts, Time
<1> QED BY <1>1, EveryQueueMerges, PTL
-----------------------------------------------------------------------------
(* The tree implements KWayMerge *)

\* Where the events of a file are in the output; what is there are the file's
\* first events, as many as there are places.
PlacesOf(s, i) == {k \in DOMAIN s : s[k][1] = i}
Counted(s, i) ==
  /\ IsFiniteSet(PlacesOf(s, i))
  /\ \A m \in Nat \ {0} : <<i, m>> \in First(s, Len(s)) <=> m <= Cardinality(PlacesOf(s, i))

\* The event that goes next is the one after those counted.
LEMMA NextIsCounted ==
  ASSUME NEW s, NEW d \in Files \X (Nat \ {0}), IsNext(d, First(s, Len(s))), Counted(s, d[1])
  PROVE  d[2] = Cardinality(PlacesOf(s, d[1])) + 1
<1> DEFINE c == Cardinality(PlacesOf(s, d[1]))
<1>1. c \in Nat /\ d = <<d[1], d[2]>> /\ d[2] \in Nat \ {0}
  BY FS_CardinalityType DEF Counted
<1>2. \A m \in Nat \ {0} : <<d[1], m>> \in First(s, Len(s)) <=> m <= c
  BY DEF Counted
<1> HIDE DEF c
<1>3. ~(d[2] <= c)
  BY <1>1, <1>2 DEF IsNext
<1>4. CASE d[2] = 1
  BY <1>1, <1>3, <1>4 DEF c
<1>5. CASE d[2] > 1
  <2>1. d[2] - 1 \in 1 .. d[2] - 1 /\ d[2] - 1 \in Nat \ {0}
    BY <1>1, <1>5
  <2>2. d[2] - 1 <= c
    BY <1>2, <2>1 DEF IsNext
  <2> QED BY <1>1, <1>3, <2>2 DEF c
<1> QED BY <1>1, <1>4, <1>5

\* It is counted when it is there.
LEMMA CountOneMore ==
  ASSUME NEW s \in Seq(Event), NEW d \in Files \X (Nat \ {0}), IsNext(d, First(s, Len(s))),
         Counted(s, d[1]), NEW i \in Files, Counted(s, i)
  PROVE  /\ Counted(Append(s, d), i)
         /\ Cardinality(PlacesOf(Append(s, d), i)) =
              Cardinality(PlacesOf(s, i)) + (IF i = d[1] THEN 1 ELSE 0)
<1> DEFINE t == Append(s, d)
           c == Cardinality(PlacesOf(s, i))
<1>1. d \in Event /\ d = <<d[1], d[2]>>
  BY DEF Event
<1>2. /\ Len(t) = Len(s) + 1 /\ Len(s) \in Nat /\ t[Len(s) + 1] = d
      /\ \A k \in 1 .. Len(s) : t[k] = s[k]
      /\ First(t, Len(t)) = First(s, Len(s)) \union {d}
      /\ DOMAIN t = 1 .. Len(t) /\ DOMAIN s = 1 .. Len(s)
  <2>1. t \in Seq(Event)
    BY <1>1
  <2> QED BY <1>1, <2>1, FirstOfMore
<1>3. IsFiniteSet(PlacesOf(s, i)) /\ c \in Nat
  BY FS_CardinalityType DEF Counted
<1>4. \A m \in Nat \ {0} : <<i, m>> \in First(s, Len(s)) <=> m <= c
  BY DEF Counted
<1> HIDE DEF t
<1>5. CASE i = d[1]
  <2>1. PlacesOf(t, i) = PlacesOf(s, i) \union {Len(s) + 1} /\ Len(s) + 1 \notin PlacesOf(s, i)
    BY <1>2, <1>5 DEF PlacesOf
  <2>2. IsFiniteSet(PlacesOf(t, i)) /\ Cardinality(PlacesOf(t, i)) = c + 1
    BY <1>3, <2>1, FS_AddElement
  <2>3. d = <<i, c + 1>>
    BY <1>1, <1>5, NextIsCounted
  <2> HIDE DEF c
  <2>4. ASSUME NEW m \in Nat \ {0} PROVE <<i, m>> \in First(t, Len(t)) <=> m <= c + 1
    <3>1. <<i, m>> \in First(t, Len(t)) <=> m <= c \/ m = c + 1
      BY <1>2, <1>4, <2>3
    <3> QED BY <1>3, <3>1
  <2> QED BY <1>5, <2>2, <2>4 DEF Counted, t, c
<1>6. CASE i # d[1]
  <2>1. PlacesOf(t, i) = PlacesOf(s, i)
    BY <1>2, <1>6 DEF PlacesOf
  <2>2. \A m \in Nat \ {0} : <<i, m>> \in First(t, Len(t)) <=> <<i, m>> \in First(s, Len(s))
    BY <1>1, <1>2, <1>6
  <2>3. Counted(t, i)
    BY <1>3, <1>4, <2>1, <2>2 DEF Counted
  <2> QED BY <1>3, <1>6, <2>1, <2>3 DEF t
<1> QED BY <1>5, <1>6

CountInv == \A i \in Files : Counted(out, i)

\* What a step does to output_: nothing, or the next event is pushed, or it is
\* closed when all events were.
OutputPush(d) ==
  /\ GoesNext(file, d, First(out, Len(out)), Files)
  /\ out' = Append(out, d) /\ file' = file /\ closed'[Output] = closed[Output]
OutputEnd == /\ Whole(file, out, Files) /\ closed'[Output] = TRUE
             /\ out' = out /\ file' = file
OutputStep == \/ \E d \in Event : OutputPush(d)
              \/ OutputEnd
              \/ out' = out /\ file' = file /\ closed'[Output] = closed[Output]

\* A step of a worker.
LEMMA WorkerOutputs ==
  ASSUME TreeInv, TreeInv', NEW w \in Workers, Worker(w) PROVE OutputStep
<1>1. /\ Output \in Queues /\ w \in Queues /\ Span(Output) = Files /\ file' = file
      /\ pushed \in [Queues -> Seq(Event)] /\ closed \in [Queues -> BOOLEAN]
      /\ WorkerInv(w) /\ TreeTypes
  BY OutputMerges, OutputIs, WorkerQueues
     DEF TreeInv, TreeTypes, Worker, PopLeft, PopRight, PushLeft, PushRight, CloseOut
<1>2. CASE PopLeft(w) \/ PopRight(w)
  BY <1>2 DEF PopLeft, PopRight, OutputStep, out
<1>3. CASE PushLeft(w)
  <2>1. /\ wpc[w] = "merge" /\ LeftFirst(w) /\ ea[w] # <<>> /\ closed' = closed
        /\ pushed' = [pushed EXCEPT ![w] = @ \o ea[w]]
    BY <1>3 DEF PushLeft, LeftFirst
  <2>2. w # Output => pushed'[Output] = pushed[Output]
    BY <1>1, <2>1
  <2>3. CASE w = Output
    <3>1. GoesNext(file, ea[w][1], First(out, Len(out)), Files)
      BY <1>1, <2>1, <2>3, LeftGoesNext DEF out
    <3>2. ea[w] = <<ea[w][1]>> /\ ea[w][1] \in Event
      <4>1. Held(pushed[Left(w)], popped[Left(w)], ea[w])
        BY <1>1 DEF WorkerInv, HandsInv
      <4> QED BY <1>1, <2>1, <4>1, HandPasses, InputsMerge
    <3>3. pushed'[Output] = Append(pushed[Output], ea[w][1])
      <4>1. pushed'[Output] = pushed[Output] \o ea[w] /\ pushed[Output] \in Seq(Event)
        BY <1>1, <2>1, <2>3
      <4> DEFINE d == ea[w][1]
      <4>2. ea[w] = <<d>> /\ d \in Event
        BY <3>2
      <4> HIDE DEF d
      <4>3. pushed'[Output] = Append(pushed[Output], d)
        BY <4>1, <4>2
      <4> QED BY <4>3 DEF d
    <3> QED BY <1>1, <2>1, <3>1, <3>2, <3>3 DEF OutputStep, OutputPush, out
  <2> QED BY <1>1, <2>1, <2>2, <2>3 DEF OutputStep, out
<1>4. CASE PushRight(w)
  <2>1. /\ wpc[w] = "merge" /\ ~LeftFirst(w) /\ eb[w] # <<>> /\ closed' = closed
        /\ pushed' = [pushed EXCEPT ![w] = @ \o eb[w]]
    BY <1>4 DEF PushRight
  <2>2. w # Output => pushed'[Output] = pushed[Output]
    BY <1>1, <2>1
  <2>3. CASE w = Output
    <3>1. GoesNext(file, eb[w][1], First(out, Len(out)), Files)
      BY <1>1, <2>1, <2>3, RightGoesNext DEF out
    <3>2. eb[w] = <<eb[w][1]>> /\ eb[w][1] \in Event
      <4>1. /\ Held(pushed[Right(w)], popped[Right(w)], eb[w])
            /\ pushed[Right(w)] \in Seq(Event) /\ popped[Right(w)] \in Nat
            /\ popped[Right(w)] <= Len(pushed[Right(w)])
        BY <1>1, <2>1, InputsMerge DEF WorkerInv, HandsInv, EmptyInv
      <4> QED BY <2>1, <4>1, HandPasses
    <3>3. pushed'[Output] = Append(pushed[Output], eb[w][1])
      <4>1. pushed'[Output] = pushed[Output] \o eb[w] /\ pushed[Output] \in Seq(Event)
        BY <1>1, <2>1, <2>3
      <4> DEFINE d == eb[w][1]
      <4>2. eb[w] = <<d>> /\ d \in Event
        BY <3>2
      <4> HIDE DEF d
      <4>3. pushed'[Output] = Append(pushed[Output], d)
        BY <4>1, <4>2
      <4> QED BY <4>3 DEF d
    <3> QED BY <1>1, <2>1, <3>1, <3>2, <3>3 DEF OutputStep, OutputPush, out
  <2> QED BY <1>1, <2>1, <2>2, <2>3 DEF OutputStep, out
<1>5. CASE CloseOut(w)
  <2>1. closed' = [closed EXCEPT ![w] = TRUE] /\ pushed' = pushed
    BY <1>5 DEF CloseOut
  <2>2. w # Output => closed'[Output] = closed[Output]
    BY <1>1, <2>1
  <2>3. CASE w = Output
    <3>1. closed'[Output] = TRUE
      BY <1>1, <2>1, <2>3
    <3>2. QueueInv(Output)'
      BY <1>1 DEF TreeInv
    <3> QED BY <1>1, <2>1, <3>1, <3>2 DEF QueueInv, OutputStep, OutputEnd, out
  <2> QED BY <1>1, <2>1, <2>2, <2>3 DEF OutputStep, out
<1> QED BY <1>2, <1>3, <1>4, <1>5 DEF Worker

\* Every step does one of the three to output_.
LEMMA StepOutputs == TreeInv /\ TreeInv' /\ [Next]_vars => OutputStep
<1> SUFFICES ASSUME TreeInv, TreeInv', [Next]_vars PROVE OutputStep
  OBVIOUS
<1>1. CASE Join \/ UNCHANGED vars
  BY <1>1 DEF Join, vars, OutputStep, out
<1>2. ASSUME NEW i \in Files, Feed(i) \/ CloseFile(i) PROVE OutputStep
  <2>1. InputOf(i) # Output /\ InputOf(i) \in Queues /\ Output \in Queues
    BY FileQueues, OutputMerges
  <2>2. pushed \in [Queues -> Seq(Event)] /\ closed \in [Queues -> BOOLEAN]
    BY DEF TreeInv, TreeTypes
  <2>3. file' = file /\ pushed'[Output] = pushed[Output] /\ closed'[Output] = closed[Output]
    BY <1>2, <2>1, <2>2 DEF Feed, CloseFile
  <2> QED BY <2>3 DEF OutputStep, out
<1> QED BY <1>1, <1>2, WorkerOutputs DEF Next, Terminated

\* Pushing to output_ is emitting a least event.
LEMMA PushEmits ==
  ASSUME TreeInv, CountInv, NEW d \in Event, OutputPush(d)
  PROVE  CountInv' /\ Abstract!Emit(d[1])
<1> DEFINE seen == First(out, Len(out))
           emitted(i) == Cardinality(PlacesOf(out, i))
<1>1. /\ out \in Seq(Event) /\ file \in [Files -> Streams]
      /\ GoesNext(file, d, seen, Files) /\ out' = Append(out, d)
  BY OutputMerges DEF OutputPush
<1>2. /\ d \in Files \X (Nat \ {0}) /\ d[1] \in Files /\ d[2] \in 1 .. Len(file[d[1]])
      /\ d = <<d[1], d[2]>> /\ IsNext(d, seen)
  BY <1>1 DEF GoesNext, Events
<1>3. \A i \in Files : /\ Counted(Append(out, d), i)
                       /\ Cardinality(PlacesOf(Append(out, d), i)) =
                            emitted(i) + (IF i = d[1] THEN 1 ELSE 0)
  BY <1>1, <1>2, CountOneMore DEF CountInv
<1>4. d[2] = emitted(d[1]) + 1
  BY <1>2, NextIsCounted DEF CountInv
<1>5. ASSUME NEW i \in Files PROVE emitted(i) \in Nat /\ Len(file[i]) \in Nat
  BY <1>1, FileTypes, FS_CardinalityType DEF CountInv, Counted
<1>6. ASSUME NEW j \in Files, emitted(j) < Len(file[j])
      PROVE  file[d[1]][d[2]] <= file[j][emitted(j) + 1]
  <2> DEFINE c == emitted(j)
             e == <<j, c + 1>>
  <2>1. c \in Nat /\ Len(file[j]) \in Nat /\ c < Len(file[j])
    BY <1>5, <1>6
  <2>2. \A m \in Nat \ {0} : <<j, m>> \in seen <=> m <= c
    BY DEF CountInv, Counted
  <2> HIDE DEF c
  <2>3. e \in Events(file, Files)
    BY <2>1 DEF Events
  <2>4. IsNext(e, seen)
    BY <2>1, <2>2 DEF IsNext
  <2>5. NotLater(file, d, e)
    BY <1>1, <2>3, <2>4 DEF GoesNext
  <2>6. file[d[1]][d[2]] \in Nat /\ file[j][c + 1] \in Nat
    <3>1. file[j] \in Seq(Nat) /\ file[d[1]] \in Seq(Nat)
      BY <1>1, <1>2, FileTypes
    <3>2. file[d[1]][d[2]] \in Nat
      BY <1>2, <3>1
    <3>3. c + 1 \in 1 .. Len(file[j])
      BY <2>1
    <3>4. file[j][c + 1] \in Nat
      BY <3>1, <3>3
    <3> QED BY <3>2, <3>4
  <2> QED BY <2>5, <2>6 DEF NotLater, Time, c
<1>7. CountInv'
  BY <1>1, <1>3 DEF CountInv
<1> DEFINE counts == [i \in Files |-> emitted(i)]
<1>8. [i \in Files |-> Cardinality(PlacesOf(out', i))] = [counts EXCEPT ![d[1]] = @ + 1]
  <2>1. \A i \in Files : Cardinality(PlacesOf(out', i)) =
                            emitted(i) + (IF i = d[1] THEN 1 ELSE 0)
    BY <1>1, <1>3
  <2> HIDE DEF emitted
  <2>2. \A i \in Files : emitted(i) + 0 = emitted(i)
    BY <1>5
  <2> QED BY <1>2, <1>5, <2>1, <2>2
<1>9. Abstract!Emit(d[1])
  <2>1. emitted(d[1]) < Len(file[d[1]])
    BY <1>2, <1>4, <1>5
  <2>2. out' = Append(out, <<d[1], emitted(d[1]) + 1>>)
    BY <1>1, <1>2, <1>4
  <2>3. closed'[Output] = closed[Output] /\ file' = file
    BY DEF OutputPush
  <2>4. counts[d[1]] = emitted(d[1]) /\ \A j \in Files : counts[j] = emitted(j)
    BY <1>2
  <2> QED BY <1>2, <1>4, <1>6, <1>8, <2>1, <2>2, <2>3, <2>4
          DEF Abstract!Emit, Abstract!HasNext, Abstract!Next_ts, PlacesOf, Files
<1> QED BY <1>7, <1>9

\* Closing output_ ends the merge.
LEMMA EndEnds ==
  ASSUME TreeInv, CountInv, OutputEnd PROVE CountInv' /\ Abstract!End
<1>1. /\ out' = out /\ file' = file /\ closed'[Output] = TRUE /\ Whole(file, out, Files)
      /\ file \in [Files -> Streams]
  BY OutputMerges DEF OutputEnd
<1>2. ASSUME NEW i \in Files PROVE ~(Cardinality(PlacesOf(out, i)) < Len(file[i]))
  <2> DEFINE c == Cardinality(PlacesOf(out, i))
  <2>1. c \in Nat /\ Len(file[i]) \in Nat
    BY <1>1, FileTypes, FS_CardinalityType DEF CountInv, Counted
  <2>2. \A m \in Nat \ {0} : <<i, m>> \in First(out, Len(out)) <=> m <= c
    BY DEF CountInv, Counted
  <2> HIDE DEF c
  <2> SUFFICES ASSUME c < Len(file[i]) PROVE FALSE
    BY DEF c
  <2>3. <<i, c + 1>> \in Events(file, Files)
    BY <2>1 DEF Events
  <2> QED BY <1>1, <2>1, <2>2, <2>3 DEF Whole
<1>3. CountInv'
  BY <1>1 DEF CountInv
<1>4. Abstract!End
  BY <1>1, <1>2 DEF Abstract!End, Abstract!HasNext, PlacesOf, Files
<1> QED BY <1>3, <1>4

\* At first nothing was emitted.
LEMMA InitImplements == Init /\ TreeInv => CountInv /\ Abstract!Init
<1> SUFFICES ASSUME Init, TreeInv PROVE CountInv /\ Abstract!Init
  OBVIOUS
<1>1. out = <<>> /\ closed[Output] = FALSE /\ file \in [Files -> Streams]
  BY OutputMerges DEF Init, out
<1>2. \A i \in Files : PlacesOf(out, i) = {}
  BY <1>1 DEF PlacesOf
<1>3. IsFiniteSet({}) /\ Cardinality({}) = 0
  BY FS_EmptySet
<1>4. CountInv
  <2>1. First(out, Len(out)) = {}
    BY <1>1 DEF First
  <2> QED BY <1>2, <1>3, <2>1 DEF CountInv, Counted
<1>5. Abstract!Init
  BY <1>1, <1>2, <1>3 DEF Abstract!Init, PlacesOf, Files
<1> QED BY <1>4, <1>5

\* The tree of merge_two threads implements KWayMerge: however they interleave,
\* output_ is an interleaving of the files that takes a least next event first,
\* and it closes after the last one.
THEOREM TreeMerges == Spec => ImplementsKWayMerge
<1>1. TreeInv /\ TreeInv' /\ CountInv /\ [Next]_vars
        => CountInv' /\ [Abstract!Next]_(Abstract!vars)
  <2> SUFFICES ASSUME TreeInv, TreeInv', CountInv, [Next]_vars
               PROVE  CountInv' /\ [Abstract!Next]_(Abstract!vars)
    OBVIOUS
  <2>1. ASSUME NEW d \in Event, OutputPush(d) PROVE CountInv' /\ Abstract!Next
    <3>1. d[1] \in 1 .. N
      BY DEF Event, Files
    <3> QED BY <2>1, <3>1, PushEmits DEF Abstract!Next
  <2>2. CASE OutputEnd
    BY <2>2, EndEnds DEF Abstract!Next
  <2>3. CASE out' = out /\ file' = file /\ closed'[Output] = closed[Output]
    BY <2>3 DEF CountInv, Abstract!vars
  <2> QED BY <2>1, <2>2, <2>3, StepOutputs DEF OutputStep
<1> QED BY <1>1, InitImplements, EveryQueueMerges, PTL DEF Spec, ImplementsKWayMerge, Abstract!Spec
=============================================================================
