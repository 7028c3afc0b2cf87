--------------------------- MODULE AdmissionProofs ---------------------------
(***************************************************************************)
(* Proofs about Admission, for every number of passes, controls, items,    *)
(* stages, capacities and budgets.                                         *)
(***************************************************************************)
EXTENDS Admission, WellFoundedInduction, NaturalsInduction,
        FiniteSetTheorems, TLAPS

(***************************************************************************)
(* Finite sets of rows and of numbers.                                     *)
(***************************************************************************)

LEMMA LeastNumber ==
  ASSUME NEW S, S \subseteq Nat, S # {}
  PROVE  \E n \in S : \A m \in S : n <= m
<1>1. PICK n \in S : \A m \in S : <<m, n>> \notin OpToRel(<, Nat)
  BY WFMin, NatLessThanWellFounded, Zenon
<1>2. \A m \in S : ~(m < n)
  BY <1>1, Zenon DEF OpToRel
<1> QED
  BY <1>2

\* The least cardinality of a set without a greatest number is none.
LEMMA GreatestNumber ==
  ASSUME NEW S, S \subseteq Nat, S # {}, IsFiniteSet(S)
  PROVE  \E n \in S : \A m \in S : m <= n
<1> DEFINE Bad == {n \in Nat : \E T \in SUBSET S :
                     /\ IsFiniteSet(T) /\ Cardinality(T) = n /\ T # {}
                     /\ ~(\E k \in T : \A m \in T : m <= k)}
<1> SUFFICES ASSUME ~(\E n \in S : \A m \in S : m <= n)
             PROVE  FALSE
  OBVIOUS
<1>1. Cardinality(S) \in Bad
  BY FS_CardinalityType
<1>2. PICK n \in Bad : \A m \in Bad : n <= m
  <2>1. Bad \subseteq Nat /\ Bad # {}
    BY <1>1
  <2> QED
    BY <2>1, LeastNumber
<1>3. PICK T \in SUBSET S : /\ IsFiniteSet(T) /\ Cardinality(T) = n /\ T # {}
                            /\ ~(\E k \in T : \A m \in T : m <= k)
  BY <1>2
<1>4. PICK x \in T : TRUE
  BY <1>3
<1> DEFINE U == T \ {x}
<1>5. IsFiniteSet(U) /\ Cardinality(U) = n - 1 /\ U \in SUBSET S
  BY <1>3, <1>4, FS_RemoveElement
<1>6. U # {}
  <2>1. ASSUME U = {} PROVE FALSE
    <3>1. \A m \in T : m = x
      BY <2>1
    <3>2. x \in Nat
      BY <1>4
    <3> QED
      BY <1>3, <1>4, <3>1, <3>2
  <2> QED
    BY <2>1
<1>7. n - 1 \notin Bad
  <2>1. n \in Nat
    BY <1>2
  <2> QED
    BY <1>2, <2>1
<1>8. n - 1 \in Nat
  <2>1. Cardinality(U) \in Nat
    BY <1>5, FS_CardinalityType
  <2> QED
    BY <1>5, <2>1
<1>9. PICK k \in U : \A m \in U : m <= k
  BY <1>5, <1>6, <1>7, <1>8
<1>10. k \in Nat /\ x \in Nat /\ k \in T
  BY <1>4, <1>9
<1>11. CASE k <= x
  <2>1. ASSUME NEW m \in T PROVE m <= x
    <3>1. m \in Nat
      BY <1>3
    <3> QED
      BY <1>9, <1>10, <1>11, <3>1
  <2> QED
    BY <1>3, <1>4, <2>1
<1>12. CASE x <= k
  BY <1>3, <1>9, <1>10, <1>12
<1> QED
  BY <1>10, <1>11, <1>12

\* A row is an item and an index; the rows below it are its lower indices.
LEMMA Rows ==
  /\ \A r \in Row : r[1] \in Item /\ r[2] \in 0..MaxIndex /\ r = <<r[1], r[2]>>
  /\ \A i \in Item : \A k \in 0..MaxIndex : <<i, k>> \in Row
  /\ \A r \in Row : \A s : s \in Below(r) <=> s \in Row /\ s[1] = r[1] /\ s[2] < r[2]
  /\ \A i \in Item : \A s : s \in RowsOf(i) <=> s \in Row /\ s[1] = i
BY AdmissionAssumption DEF Row, Index, Below, RowsOf

LEMMA FiniteRows == \A S \in SUBSET Row : IsFiniteSet(S) /\ Cardinality(S) \in Nat
<1>1. IsFiniteSet(Item) /\ IsFiniteSet(Index)
  BY AdmissionAssumption, FS_Interval DEF Index
<1>2. IsFiniteSet(Row)
  BY <1>1, FS_Product DEF Row
<1> QED
  BY <1>2, FS_Subset, FS_CardinalityType

LEMMA Ranks == \A r \in Row : Rank[r] \in Nat
BY AdmissionAssumption

\* Rows have a first and a last in the order of admission.
LEMMA FirstOfRows ==
  ASSUME NEW S \in SUBSET Row, S # {}
  PROVE  \E r \in S : \A s \in S : Rank[r] <= Rank[s]
<1> DEFINE N == {Rank[r] : r \in S}
<1>1. N \subseteq Nat /\ N # {}
  BY Ranks
<1>2. PICK n \in N : \A m \in N : n <= m
  BY <1>1, LeastNumber
<1> QED
  BY <1>2

LEMMA LastOfRows ==
  ASSUME NEW S \in SUBSET Row, S # {}
  PROVE  \E n \in {Rank[r] : r \in S} : \A r \in S : Rank[r] <= n
<1> DEFINE N == {Rank[r] : r \in S}
           f == [r \in S |-> Rank[r]]
<1>1. N \subseteq Nat /\ N # {}
  BY Ranks
<1>2. f \in Surjection(S, N)
  BY DEF Surjection
<1>3. IsFiniteSet(N)
  BY <1>2, FiniteRows, FS_Surjection
<1> QED
  BY <1>1, <1>3, GreatestNumber

\* The first n of the rows of S are at most n.
LEMMA PageIsBounded ==
  ASSUME NEW n \in Nat, NEW S \in SUBSET Row
  PROVE  Cardinality({r \in S : Cardinality({s \in S : Rank[s] < Rank[r]}) < n}) <= n
<1> DEFINE Lower(r) == {s \in S : Rank[s] < Rank[r]}
           First == {r \in S : Cardinality(Lower(r)) < n}
           place == [r \in First |-> Cardinality(Lower(r))]
<1>1. \A r \in S : IsFiniteSet(Lower(r)) /\ Cardinality(Lower(r)) \in Nat
  <2>1. \A r \in S : Lower(r) \in SUBSET Row
    OBVIOUS
  <2> QED
    BY <2>1, FiniteRows
<1>2. \A r \in First : Cardinality(Lower(r)) \in 0..(n - 1)
  BY <1>1
<1>3. ASSUME NEW r \in First, NEW q \in First, Rank[q] < Rank[r]
      PROVE  place[q] # place[r]
  <2>1. Rank[q] \in Nat /\ Rank[r] \in Nat
    BY Ranks
  <2>2. Lower(q) \in SUBSET Lower(r)
    <3>1. ASSUME NEW x \in Lower(q) PROVE x \in Lower(r)
      <4>1. Rank[x] \in Nat
        BY Ranks
      <4> QED
        BY <1>3, <2>1, <4>1
    <3> QED
      BY <3>1
  <2>3. q \in Lower(r) /\ q \notin Lower(q)
    BY <1>3, <2>1
  <2>4. Cardinality(Lower(q)) # Cardinality(Lower(r))
    BY <1>1, <2>2, <2>3, FS_Subset
  <2> QED
    BY <2>4
<1>4. place \in Injection(First, 0..(n - 1))
  <2>1. ASSUME NEW r \in First, NEW q \in First, place[q] = place[r]
        PROVE  q = r
    <3>1. Rank[q] = Rank[r]
      <4>1. Rank[q] \in Nat /\ Rank[r] \in Nat
        BY Ranks
      <4> HIDE DEF place, First
      <4>2. ~(Rank[q] < Rank[r]) /\ ~(Rank[r] < Rank[q])
        BY <1>3, <2>1
      <4> QED
        BY <4>1, <4>2
    <3> QED
      BY <3>1, AdmissionAssumption
  <2> QED
    BY <1>2, <2>1 DEF Injection, IsInjective
<1>5. IsFiniteSet(0..(n - 1)) /\ Cardinality(0..(n - 1)) = n
  BY FS_Interval
<1> QED
  BY <1>4, <1>5, FS_Injection

\* Controls are numbers: a set of them has a least and a greatest.
LEMMA Controls ==
  ASSUME NEW S \in SUBSET Control, S # {}
  PROVE  /\ \E c \in S : \A d \in S : c <= d
         /\ \E c \in S : \A d \in S : d <= c
<1>1. S \subseteq Nat
  BY AdmissionAssumption DEF Control
<1>2. IsFiniteSet(Control)
  BY AdmissionAssumption, FS_Interval DEF Control
<1> QED
  BY <1>1, <1>2, FS_Subset, LeastNumber, GreatestNumber
-----------------------------------------------------------------------------
(***************************************************************************)
(* What each step does to the record of its pass.                          *)
(***************************************************************************)

PassRecord ==
  [step : {"SCAN", "CONTROLS", "EVALUATE"}, after : Nat, considered : Nat,
   locked : SUBSET Row, page : SUBSET Row, taken : SUBSET Row,
   failed : SUBSET Row, unconfigured : SUBSET Stage, full : SUBSET Control,
   known : SUBSET Control, held : SUBSET Control, inserted : SUBSET Control,
   occupancy : [Control -> Nat]]

ShapeOK ==
  /\ capacity \in [Control -> -1..MaxCapacity]
  /\ paused \in [Control -> BOOLEAN]
  /\ faults \in 0..MaxFault
  /\ pass \in [Pass -> PassRecord]

OthersKeep(p) == \A q \in Pass \ {p} : pass'[q] = pass[q]

LEMMA IdleShape == Idle \in PassRecord
BY DEF Idle, PassRecord

LEMMA StagesOfRows == \A r \in Row : StageAt[r] \in Stage
BY DEF Stage

LEMMA LockCandidatesDoes ==
  ASSUME ShapeOK, NEW p \in Pass, LockCandidates(p)
  PROVE  /\ pass' \in [Pass -> PassRecord]
         /\ OthersKeep(p)
         /\ pass[p].step = "SCAN" /\ MayGoOn(p) /\ NextPage(p) # {}
         /\ pass'[p].step = "CONTROLS"
         /\ pass'[p].page = NextPage(p)
         /\ pass'[p].locked = pass[p].locked \cup NextPage(p)
         /\ pass'[p].considered = pass[p].considered + Cardinality(NextPage(p))
         /\ pass'[p].known = {c \in Control : Exists(c) /\ \E r \in NextPage(p) : StageOf[c] = StageAt[r]}
         /\ pass'[p].taken = pass[p].taken /\ pass'[p].failed = pass[p].failed
         /\ pass'[p].held = pass[p].held /\ pass'[p].inserted = pass[p].inserted
<1> DEFINE page == NextPage(p)
           last == CHOOSE n \in {Rank[r] : r \in page} : \A r \in page : Rank[r] <= n
           known == {c \in Control : Exists(c) /\ \E r \in page : StageOf[c] = StageAt[r]}
           seen == pass[p].considered + Cardinality(page)
           new == [pass[p] EXCEPT !.step = "CONTROLS", !.page = page, !.locked = @ \cup page,
                     !.considered = seen, !.after = last, !.known = known]
<1>1. page \in SUBSET Row /\ page # {} /\ pass[p].step = "SCAN" /\ MayGoOn(p)
  BY DEF LockCandidates, NextPage, Available
<1>2. pass' = [pass EXCEPT
         ![p].step = "CONTROLS", ![p].page = page, ![p].locked = @ \cup page,
         ![p].considered = @ + Cardinality(page), ![p].after = last, ![p].known = known]
  BY Zenon DEF LockCandidates
<1>3. last \in Nat
  <2>1. \E n \in {Rank[r] : r \in page} : \A r \in page : Rank[r] <= n
    BY <1>1, LastOfRows
  <2>2. \A r \in page : Rank[r] \in Nat
    BY <1>1, Ranks
  <2> QED
    BY <2>1, <2>2
<1>4. pass[p] \in PassRecord
  BY DEF ShapeOK
<1>5. seen \in Nat /\ known \in SUBSET Control
  <2>1. Cardinality(page) \in Nat /\ pass[p].considered \in Nat
    BY <1>1, <1>4, FiniteRows DEF PassRecord
  <2> QED
    BY <2>1
<1>6. pass' = [pass EXCEPT ![p] = new]
  <2> HIDE DEF page, last, known
  <2> QED
    BY <1>2, <1>4 DEF ShapeOK, PassRecord
<1> HIDE DEF page, last, known, seen
<1>7. new \in PassRecord
  BY <1>1, <1>3, <1>4, <1>5 DEF PassRecord
<1>8. /\ new.step = "CONTROLS" /\ new.page = page /\ new.locked = pass[p].locked \cup page
      /\ new.considered = seen
      /\ new.known = known /\ new.taken = pass[p].taken /\ new.failed = pass[p].failed
      /\ new.held = pass[p].held /\ new.inserted = pass[p].inserted
  BY <1>4 DEF PassRecord
<1> HIDE DEF new
<1>9. pass' \in [Pass -> PassRecord] /\ OthersKeep(p) /\ pass'[p] = new
  BY <1>6, <1>7 DEF ShapeOK, OthersKeep
<1> QED
  BY <1>1, <1>8, <1>9 DEF page, known, seen

\* The control that a waiting pass needs next is the least it does not hold.
LEMMA NextControlIsLeast ==
  ASSUME ShapeOK, NEW p \in Pass, Waits(p)
  PROVE  /\ NextControl(p) \in pass[p].known \ pass[p].held
         /\ NextControl(p) \in Control
         /\ \A d \in pass[p].known \ pass[p].held : NextControl(p) <= d
<1>1. pass[p].known \ pass[p].held \in SUBSET Control /\ pass[p].known \ pass[p].held # {}
  BY DEF Waits, ShapeOK, PassRecord
<1>2. \E c \in pass[p].known \ pass[p].held : \A d \in pass[p].known \ pass[p].held : c <= d
  BY <1>1, Controls
<1> QED
  BY <1>1, <1>2 DEF NextControl

LEMMA LockControlDoes ==
  ASSUME ShapeOK, NEW p \in Pass, LockControl(p)
  PROVE  /\ pass' \in [Pass -> PassRecord]
         /\ OthersKeep(p)
         /\ Waits(p) /\ Free(p, NextControl(p))
         /\ pass'[p].step = "CONTROLS"
         /\ pass'[p].held = pass[p].held \cup {NextControl(p)}
         /\ pass'[p].page = pass[p].page /\ pass'[p].locked = pass[p].locked
         /\ pass'[p].considered = pass[p].considered /\ pass'[p].known = pass[p].known
         /\ pass'[p].taken = pass[p].taken /\ pass'[p].failed = pass[p].failed
         /\ pass'[p].inserted = pass[p].inserted
<1> DEFINE n == NextControl(p)
           new == [pass[p] EXCEPT !.held = @ \cup {n}]
<1>1. Waits(p) /\ Free(p, n) /\ pass' = [pass EXCEPT ![p] = new]
  BY DEF LockControl
<1>2. n \in Control /\ pass[p].step = "CONTROLS"
  BY <1>1, NextControlIsLeast DEF Waits
<1> HIDE DEF n
<1>3. pass[p] \in PassRecord
  BY DEF ShapeOK
<1>4. /\ new \in PassRecord /\ new.held = pass[p].held \cup {n} /\ new.step = pass[p].step
      /\ new.page = pass[p].page /\ new.locked = pass[p].locked
      /\ new.considered = pass[p].considered /\ new.known = pass[p].known
      /\ new.taken = pass[p].taken /\ new.failed = pass[p].failed
      /\ new.inserted = pass[p].inserted
  BY <1>2, <1>3 DEF PassRecord
<1> HIDE DEF new
<1>5. pass' \in [Pass -> PassRecord] /\ OthersKeep(p) /\ pass'[p] = new
  BY <1>1, <1>4 DEF ShapeOK, OthersKeep
<1> QED
  BY <1>1, <1>2, <1>4, <1>5 DEF n

LEMMA Occupied ==
  ASSUME NEW p \in Pass, NEW c \in Control
  PROVE  Occupancy(p, c) \in Nat
<1>1. {r \in Row : Matches(c, r) /\ (state[r] = "ADMITTED" \/ r \in pass[p].taken)} \in SUBSET Row
  OBVIOUS
<1> QED
  BY <1>1, FiniteRows DEF Occupancy

LEMMA LoadOccupancyDoes ==
  ASSUME ShapeOK, NEW p \in Pass, LoadOccupancy(p)
  PROVE  /\ pass' \in [Pass -> PassRecord]
         /\ OthersKeep(p)
         /\ pass[p].step = "CONTROLS" /\ pass[p].known \subseteq pass[p].held
         /\ pass'[p].step = "EVALUATE"
         /\ \A r \in pass'[p].page : /\ r \in pass[p].page
              /\ \E c \in pass[p].known \cap Wide : StageOf[c] = StageAt[r]
         /\ \A c \in pass[p].known : pass'[p].occupancy[c] = Occupancy(p, c)
         /\ pass'[p].locked = pass[p].locked /\ pass'[p].considered = pass[p].considered
         /\ pass'[p].known = pass[p].known /\ pass'[p].held = pass[p].held
         /\ pass'[p].taken = pass[p].taken /\ pass'[p].failed = pass[p].failed
         /\ pass'[p].inserted = pass[p].inserted
<1> DEFINE out == {StageAt[r] : r \in {s \in pass[p].page :
                     \A c \in pass[p].known \cap Wide : StageOf[c] # StageAt[s]}}
           page == {r \in pass[p].page : StageAt[r] \notin out}
           counts == [c \in Control |-> IF c \in pass[p].known THEN Occupancy(p, c) ELSE 0]
           new == [pass[p] EXCEPT !.step = "EVALUATE", !.unconfigured = @ \cup out,
                     !.page = page, !.occupancy = counts]
<1>1. /\ pass[p].step = "CONTROLS" /\ pass[p].known \subseteq pass[p].held
      /\ pass' = [pass EXCEPT ![p] = new]
  BY DEF LoadOccupancy
<1>2. pass[p] \in PassRecord
  BY DEF ShapeOK
<1>3. pass[p].page \in SUBSET Row /\ pass[p].known \in SUBSET Control
  BY <1>2 DEF PassRecord
<1>4. out \in SUBSET Stage /\ page \in SUBSET Row
  BY <1>3, StagesOfRows
<1>5. counts \in [Control -> Nat] /\ \A c \in pass[p].known : counts[c] = Occupancy(p, c)
  <2> HIDE DEF out, page
  <2> QED
    BY <1>3, Occupied
<1>6. \A r \in page : r \in pass[p].page /\ \E c \in pass[p].known \cap Wide : StageOf[c] = StageAt[r]
  OBVIOUS
<1> HIDE DEF out, page, counts
<1>7. new \in PassRecord
  BY <1>2, <1>4, <1>5 DEF PassRecord
<1>8. /\ new.step = "EVALUATE" /\ new.page = page /\ new.occupancy = counts
      /\ new.locked = pass[p].locked /\ new.considered = pass[p].considered
      /\ new.known = pass[p].known /\ new.held = pass[p].held
      /\ new.taken = pass[p].taken /\ new.failed = pass[p].failed
      /\ new.inserted = pass[p].inserted
  BY <1>2 DEF PassRecord
<1> HIDE DEF new
<1>9. pass' \in [Pass -> PassRecord] /\ OthersKeep(p) /\ pass'[p] = new
  BY <1>1, <1>7 DEF ShapeOK, OthersKeep
<1> QED
  BY <1>1, <1>5, <1>6, <1>8, <1>9

\* A step that leaves the locks of p and what it knows of the controls alone.
Keeps(p) ==
  /\ pass'[p].locked = pass[p].locked /\ pass'[p].considered = pass[p].considered
  /\ pass'[p].known = pass[p].known /\ pass'[p].held = pass[p].held
  /\ pass'[p].inserted = pass[p].inserted

LEMMA PageDoneDoes ==
  ASSUME ShapeOK, NEW p \in Pass, PageDone(p)
  PROVE  /\ pass' \in [Pass -> PassRecord]
         /\ OthersKeep(p)
         /\ pass[p].step = "EVALUATE"
         /\ pass'[p].step = "SCAN" /\ pass'[p].page = {} /\ pass'[p].known = {}
         /\ pass'[p].locked = pass[p].locked /\ pass'[p].considered = pass[p].considered
         /\ pass'[p].held = pass[p].held /\ pass'[p].inserted = pass[p].inserted
         /\ pass'[p].taken = pass[p].taken /\ pass'[p].failed = pass[p].failed
<1> DEFINE new == [pass[p] EXCEPT !.step = "SCAN", !.page = {}, !.known = {}]
<1>1. pass[p] \in PassRecord /\ pass[p].step = "EVALUATE"
  BY DEF ShapeOK, PageDone
<1>2. pass' = [pass EXCEPT ![p] = new]
  BY <1>1 DEF PageDone, ShapeOK, PassRecord
<1>3. new \in PassRecord
  BY <1>1 DEF PassRecord
<1>4. /\ new.step = "SCAN" /\ new.page = {} /\ new.known = {}
      /\ new.locked = pass[p].locked /\ new.considered = pass[p].considered
      /\ new.held = pass[p].held /\ new.inserted = pass[p].inserted
      /\ new.taken = pass[p].taken /\ new.failed = pass[p].failed
  BY <1>1 DEF PassRecord
<1> HIDE DEF new
<1>5. pass' \in [Pass -> PassRecord] /\ OthersKeep(p) /\ pass'[p] = new
  BY <1>2, <1>3 DEF ShapeOK, OthersKeep
<1> QED
  BY <1>1, <1>4, <1>5

\* The candidate that is evaluated is the first of its page.
NextCandidate(p) == CHOOSE s \in pass[p].page : \A t \in pass[p].page : Rank[s] <= Rank[t]

LEMMA CandidateExists ==
  ASSUME ShapeOK, NEW p \in Pass, pass[p].page # {}
  PROVE  NextCandidate(p) \in pass[p].page /\ NextCandidate(p) \in Row
<1>1. pass[p].page \in SUBSET Row
  BY DEF ShapeOK, PassRecord
<1> QED
  BY <1>1, FirstOfRows DEF NextCandidate

Evaluates(p) ==
  /\ pass' \in [Pass -> PassRecord]
  /\ OthersKeep(p) /\ Keeps(p)
  /\ pass[p].step = "EVALUATE" /\ pass'[p].step = "EVALUATE"
  /\ pass'[p].page = pass[p].page \ {NextCandidate(p)}

Passes(p) ==
  /\ pass'[p].taken = pass[p].taken /\ pass'[p].occupancy = pass[p].occupancy
  /\ pass'[p].failed \in {pass[p].failed, pass[p].failed \cup {NextCandidate(p)}}

Takes(p) ==
  /\ pass'[p].taken = pass[p].taken \cup {NextCandidate(p)} /\ pass'[p].failed = pass[p].failed
  /\ \A c \in Control : pass'[p].occupancy[c] =
       pass[p].occupancy[c] + (IF c \in Matching(p, NextCandidate(p)) THEN 1 ELSE 0)
  /\ ~Blocked(NextCandidate(p)) /\ \A c \in Matching(p, NextCandidate(p)) : ~paused[c]
  /\ Full(p, NextCandidate(p)) = {}

LEMMA SkipDoes ==
  ASSUME ShapeOK, NEW p \in Pass, pass[p].step = "EVALUATE",
         NEW full \in SUBSET Control, Skip(p, NextCandidate(p), full)
  PROVE  Evaluates(p) /\ Passes(p)
<1> DEFINE r == NextCandidate(p)
<1> HIDE DEF r
<1>1. pass' = [pass EXCEPT ![p].page = @ \ {r}, ![p].full = @ \cup full]
  BY DEF Skip, r
<1> DEFINE new == [pass[p] EXCEPT !.page = @ \ {r}, !.full = @ \cup full]
<1>2. pass[p] \in PassRecord
  BY DEF ShapeOK
<1>7. pass' = [pass EXCEPT ![p] = new]
  BY <1>1, <1>2 DEF ShapeOK, PassRecord
<1>8. /\ new \in PassRecord /\ new.step = pass[p].step /\ new.page = pass[p].page \ {r}
      /\ new.taken = pass[p].taken /\ new.occupancy = pass[p].occupancy
      /\ new.failed = pass[p].failed
      /\ new.locked = pass[p].locked /\ new.considered = pass[p].considered
      /\ new.known = pass[p].known /\ new.held = pass[p].held
      /\ new.inserted = pass[p].inserted
  BY <1>2 DEF PassRecord
<1> HIDE DEF new
<1>9. pass' \in [Pass -> PassRecord] /\ OthersKeep(p) /\ pass'[p] = new
  BY <1>7, <1>8 DEF ShapeOK, OthersKeep
<1> QED
  BY <1>8, <1>9 DEF Evaluates, Passes, Keeps, r

LEMMA RaiseDoes ==
  ASSUME ShapeOK, NEW p \in Pass, pass[p].step = "EVALUATE", pass[p].page # {},
         Raise(p, NextCandidate(p))
  PROVE  Evaluates(p) /\ Passes(p)
<1> DEFINE r == NextCandidate(p)
<1>0. r \in Row
  BY CandidateExists
<1> HIDE DEF r
<1>1. pass' = [pass EXCEPT ![p].page = @ \ {r}, ![p].failed = @ \cup {r}]
  BY DEF Raise, r
<1> DEFINE new == [pass[p] EXCEPT !.page = @ \ {r}, !.failed = @ \cup {r}]
<1>2. pass[p] \in PassRecord
  BY DEF ShapeOK
<1>7. pass' = [pass EXCEPT ![p] = new]
  BY <1>1, <1>2 DEF ShapeOK, PassRecord
<1>8. /\ new \in PassRecord /\ new.step = pass[p].step /\ new.page = pass[p].page \ {r}
      /\ new.taken = pass[p].taken /\ new.occupancy = pass[p].occupancy
      /\ new.failed = pass[p].failed \cup {r}
      /\ new.locked = pass[p].locked /\ new.considered = pass[p].considered
      /\ new.known = pass[p].known /\ new.held = pass[p].held
      /\ new.inserted = pass[p].inserted
  BY <1>0, <1>2 DEF PassRecord
<1> HIDE DEF new
<1>9. pass' \in [Pass -> PassRecord] /\ OthersKeep(p) /\ pass'[p] = new
  BY <1>7, <1>8 DEF ShapeOK, OthersKeep
<1> QED
  BY <1>8, <1>9 DEF Evaluates, Passes, Keeps, r

LEMMA TakeDoes ==
  ASSUME ShapeOK, NEW p \in Pass, pass[p].step = "EVALUATE", pass[p].page # {},
         ~Blocked(NextCandidate(p)), \A c \in Matching(p, NextCandidate(p)) : ~paused[c],
         Full(p, NextCandidate(p)) = {}, Take(p, NextCandidate(p))
  PROVE  Evaluates(p) /\ Takes(p)
<1> DEFINE r == NextCandidate(p)
           occupied == [c \in Control |-> pass[p].occupancy[c] +
                          (IF c \in Matching(p, r) THEN 1 ELSE 0)]
           filled == {c \in Matching(p, r) : occupied[c] >= capacity[c]}
<1>0. r \in Row
  BY CandidateExists
<1>1. pass' = [pass EXCEPT ![p].page = @ \ {r}, ![p].taken = @ \cup {r},
                           ![p].occupancy = occupied, ![p].full = @ \cup filled]
  BY Zenon DEF Take
<1>2. pass[p] \in PassRecord
  BY DEF ShapeOK
<1>3. occupied \in [Control -> Nat]
  BY <1>2 DEF PassRecord
<1>4. filled \in SUBSET Control
  BY DEF Matching, ShapeOK, PassRecord
<1>5. \A c \in Control : occupied[c] = pass[p].occupancy[c] +
        (IF c \in Matching(p, r) THEN 1 ELSE 0)
  OBVIOUS
<1> HIDE DEF r, occupied, filled
<1> DEFINE new == [pass[p] EXCEPT !.page = @ \ {r}, !.taken = @ \cup {r},
                                  !.occupancy = occupied, !.full = @ \cup filled]
<1>7. pass' = [pass EXCEPT ![p] = new]
  BY <1>1, <1>2 DEF ShapeOK, PassRecord
<1>8. /\ new \in PassRecord /\ new.step = pass[p].step /\ new.page = pass[p].page \ {r}
      /\ new.taken = pass[p].taken \cup {r} /\ new.occupancy = occupied
      /\ new.failed = pass[p].failed
      /\ new.locked = pass[p].locked /\ new.considered = pass[p].considered
      /\ new.known = pass[p].known /\ new.held = pass[p].held
      /\ new.inserted = pass[p].inserted
  BY <1>0, <1>2, <1>3, <1>4 DEF PassRecord
<1> HIDE DEF new
<1>9. pass' \in [Pass -> PassRecord] /\ OthersKeep(p) /\ pass'[p] = new
  BY <1>7, <1>8 DEF ShapeOK, OthersKeep
<1> QED
  BY <1>5, <1>8, <1>9 DEF Evaluates, Takes, Keeps, r

LEMMA EvaluateDoes ==
  ASSUME ShapeOK, NEW p \in Pass, Evaluate(p)
  PROVE  /\ pass[p].page # {} /\ Cardinality(pass[p].taken) < BatchSize
         /\ Evaluates(p) /\ (Passes(p) \/ Takes(p))
<1> DEFINE r == NextCandidate(p)
<1>1. /\ pass[p].step = "EVALUATE" /\ pass[p].page # {}
      /\ Cardinality(pass[p].taken) < BatchSize
      /\ \/ Skip(p, r, {}) \/ Skip(p, r, Full(p, r)) \/ Raise(p, r)
         \/ /\ ~Blocked(r) /\ \A c \in Matching(p, r) : ~paused[c]
            /\ Full(p, r) = {} /\ Take(p, r)
  BY DEF Evaluate, NextCandidate
<1>2. Full(p, r) \in SUBSET Control
  BY DEF Full, Matching, ShapeOK, PassRecord
<1> QED
  BY <1>1, <1>2, SkipDoes, RaiseDoes, TakeDoes

\* The ways a pass ends.
LEMMA Ends ==
  ASSUME ShapeOK, NEW p \in Pass, DeadlockAbort(p) \/ Commit(p) \/ Die(p)
  PROVE  pass' \in [Pass -> PassRecord] /\ OthersKeep(p) /\ pass'[p] = Idle
BY IdleShape DEF DeadlockAbort, Commit, Die, ShapeOK, OthersKeep

\* A control that is inserted is noted by the passes that run.
LEMMA SetCapacityDoes ==
  ASSUME ShapeOK, NEW c \in Control, NEW n \in 0..MaxCapacity, SetCapacity(c, n)
  PROVE  /\ pass' \in [Pass -> PassRecord]
         /\ \A p \in Pass :
              /\ pass[p] = Idle => pass'[p] = Idle
              /\ ~Exists(c) => pass'[p] = Idle \/ c \in pass'[p].inserted
              /\ pass'[p].step = pass[p].step /\ pass'[p].page = pass[p].page
              /\ pass'[p].locked = pass[p].locked /\ pass'[p].considered = pass[p].considered
              /\ pass'[p].known = pass[p].known /\ pass'[p].held = pass[p].held
              /\ pass'[p].taken = pass[p].taken /\ pass'[p].failed = pass[p].failed
              /\ pass'[p].occupancy = pass[p].occupancy
              /\ pass[p].inserted \subseteq pass'[p].inserted
<1> DEFINE new(p) == [pass[p] EXCEPT !.inserted = @ \cup {c}]
<1>1. pass' = [p \in Pass |-> IF Exists(c) \/ pass[p] = Idle THEN pass[p] ELSE new(p)]
  BY DEF SetCapacity
<1>2. ASSUME NEW p \in Pass
      PROVE  /\ pass[p] \in PassRecord /\ new(p) \in PassRecord
             /\ new(p).step = pass[p].step /\ new(p).page = pass[p].page
             /\ new(p).locked = pass[p].locked /\ new(p).considered = pass[p].considered
             /\ new(p).known = pass[p].known /\ new(p).held = pass[p].held
             /\ new(p).taken = pass[p].taken /\ new(p).failed = pass[p].failed
             /\ new(p).occupancy = pass[p].occupancy
             /\ new(p).inserted = pass[p].inserted \cup {c}
  <2>1. pass[p] \in PassRecord
    BY DEF ShapeOK
  <2> QED
    BY <2>1 DEF PassRecord
<1> HIDE DEF new
<1>3. pass' \in [Pass -> PassRecord]
  BY <1>1, <1>2
<1>4. \A p \in Pass : pass'[p] = IF Exists(c) \/ pass[p] = Idle THEN pass[p] ELSE new(p)
  BY <1>1
<1> QED
  BY <1>2, <1>3, <1>4
-----------------------------------------------------------------------------
(***************************************************************************)
(* The executions, row by row.                                             *)
(***************************************************************************)

ExecutionsOK == state \in [Row -> State]

Born(r) ==
  /\ state[r] = "ABSENT" /\ state'[r] = "READY"
  /\ \/ \A s \in RowsOf(r[1]) : state[s] = "ABSENT"
     \/ \E s \in Below(r) : state[s] = "ADMITTED"

Moves(r) ==
  /\ facts'[r] = facts[r]
  /\ \/ state[r] = "ADMITTED" /\ state'[r] \in {"SUCCEEDED", "FAILED", "CANCELLED"}
     \/ state[r] \in Nonterminal /\ state'[r] = "CANCELLED" /\ r \notin Locked
     \/ state[r] = "FAILED" /\ state'[r] = "READY"

Stays(r) == state'[r] = state[r] /\ facts'[r] = facts[r]

Opens(r) ==
  /\ facts'[r] = facts[r] /\ ~Blocked(r)
  /\ state[r] = "READY" /\ state'[r] = "ADMITTED"

\* Lifecycle speaks of the same rows as Admission.
LEMMA SameVocabulary ==
  /\ Lifecycle!Row = Row /\ Lifecycle!Fact = Fact
  /\ Lifecycle!NoFacts = NoFacts /\ Lifecycle!Nonterminal = Nonterminal
  /\ \A i : Lifecycle!RowsOf(i) = RowsOf(i)
  /\ \A r : Lifecycle!Above(r) = Above(r)
  /\ \A r, succ : Lifecycle!Fresh(r, succ) = Fresh(r, succ)
BY DEF Lifecycle!Index, Lifecycle!Row, Lifecycle!Fact, Lifecycle!NoFacts,
       Lifecycle!Nonterminal, Lifecycle!RowsOf, Lifecycle!Above, Lifecycle!Fresh,
       Index, Row, Fact, NoFacts, Nonterminal, RowsOf, Above, Fresh

\* What the lifecycle does between the statements of passes.
LEMMA StageRowsMove ==
  ASSUME ExecutionsOK, Stages \/ \E r \in Row : Retry(r)
  PROVE  ExecutionsOK' /\ \A r \in Row : Stays(r) \/ Born(r) \/ Moves(r)
<1> USE DEF ExecutionsOK
<1>1. ASSUME NEW i \in Item, RowsOf(i) \cap Locked = {}, Lifecycle!CancelItem(i)
      PROVE  ExecutionsOK' /\ \A r \in Row : Stays(r) \/ Born(r) \/ Moves(r)
  <2>1. \A r \in Row : r[1] = i => r \notin Locked
    BY <1>1, Rows
  <2>2. state' = [r \in Row |-> IF r[1] = i /\ state[r] \in Nonterminal
                                THEN "CANCELLED" ELSE state[r]] /\ facts' = facts
    BY <1>1, SameVocabulary DEF Lifecycle!CancelItem
  <2> QED
    BY <2>1, <2>2 DEF Stays, Moves, State
<1>2. ASSUME NEW i \in Item, NEW f \in Fact, Lifecycle!Submit(i, f)
      PROVE  ExecutionsOK' /\ \A r \in Row : Stays(r) \/ Born(r) \/ Moves(r)
  <2>1. \A s \in RowsOf(i) : state[s] = "ABSENT"
    BY <1>2, SameVocabulary DEF Lifecycle!Submit
  <2>2. <<i, 0>> \in RowsOf(i) /\ <<i, 0>> \in Row /\ <<i, 0>>[1] = i
    BY Rows, AdmissionAssumption
  <2>3. Born(<<i, 0>>)
    BY <1>2, <2>1, <2>2 DEF Lifecycle!Submit, Born
  <2>4. \A r \in Row : r # <<i, 0>> => Stays(r)
    BY <1>2 DEF Lifecycle!Submit, Stays
  <2> QED
    BY <1>2, <2>3, <2>4 DEF Lifecycle!Submit, State
<1>3. ASSUME NEW q \in Row, Lifecycle!Abandon(q)
      PROVE  ExecutionsOK' /\ \A r \in Row : Stays(r) \/ Born(r) \/ Moves(r)
  BY <1>3 DEF Lifecycle!Abandon, Stays, Moves, State
<1>4. ASSUME NEW q \in Row, Lifecycle!Retry(q)
      PROVE  ExecutionsOK' /\ \A r \in Row : Stays(r) \/ Born(r) \/ Moves(r)
  BY <1>4 DEF Lifecycle!Retry, Stays, Moves, State
<1>5. ASSUME NEW q \in Row, NEW ks \in SUBSET Above(q), NEW succ \in [ks -> Fact],
             Lifecycle!Succeed(q, succ)
      PROVE  ExecutionsOK' /\ \A r \in Row : Stays(r) \/ Born(r) \/ Moves(r)
  <2>1. /\ state[q] = "ADMITTED"
        /\ state' = [s \in Row |-> IF s = q THEN "SUCCEEDED"
                                  ELSE IF s \in Fresh(q, succ) THEN "READY" ELSE state[s]]
        /\ facts' = [s \in Row |-> IF s \in Fresh(q, succ) THEN succ[s[2]] ELSE facts[s]]
    BY <1>5, SameVocabulary DEF Lifecycle!Succeed
  <2>2. ASSUME NEW s \in Fresh(q, succ)
        PROVE  s \in Row /\ state[s] = "ABSENT" /\ q \in Below(s)
    <3>1. s[1] = q[1] /\ s[2] \in ks /\ state[s] = "ABSENT" /\ s = <<s[1], s[2]>>
      BY DEF Fresh
    <3>2. s[2] \in 0..MaxIndex /\ q[2] < s[2]
      BY <3>1, Rows, AdmissionAssumption DEF Above
    <3> QED
      BY <3>1, <3>2, Rows
  <2>3. ASSUME NEW r \in Row PROVE Stays(r) \/ Born(r) \/ Moves(r)
    <3>1. CASE r = q
      BY <2>1, <2>2, <3>1 DEF Moves
    <3>2. CASE r \in Fresh(q, succ)
      BY <2>1, <2>2, <3>2 DEF Born
    <3>3. CASE r # q /\ r \notin Fresh(q, succ)
      BY <2>1, <3>3 DEF Stays
    <3> QED
      BY <3>1, <3>2, <3>3
  <2> QED
    BY <2>1, <2>2, <2>3 DEF State
<1> QED
  BY <1>1, <1>2, <1>3, <1>4, <1>5, SameVocabulary DEF Stages, Retry

(***************************************************************************)
(* The rows a pass has locked: they are its own and READY, and what it     *)
(* writes is among them; the joins it has taken are open.                  *)
(***************************************************************************)

LocksApart == \A p, q \in Pass : p # q => pass[p].locked \cap pass[q].locked = {}

LockedReady == \A p \in Pass : \A r \in pass[p].locked : state[r] = "READY"

Within(p) ==
  /\ pass[p].page \cup pass[p].taken \subseteq pass[p].locked
  /\ pass[p].taken \cap pass[p].failed = {}
  /\ pass[p].page \cap (pass[p].taken \cup pass[p].failed) = {}
  /\ Cardinality(pass[p].taken) <= BatchSize
  /\ pass[p].considered <= BatchSize + MaxSkips

TakenOpen == \A p \in Pass : \A r \in pass[p].taken : ~Blocked(r)

RowInv ==
  /\ ExecutionsOK /\ ShapeOK
  /\ LocksApart /\ LockedReady /\ TakenOpen
  /\ \A p \in Pass : Within(p)

\* Only the commit of a pass admits, and only what the pass has taken.
EachRow ==
  \A r \in Row :
    \/ Stays(r) \/ Born(r) \/ Moves(r)
    \/ Opens(r) /\ \E p \in Pass : r \in pass[p].taken /\ Commit(p)

LEMMA RowsMove ==
  ASSUME RowInv, [Next]_vars
  PROVE  ExecutionsOK' /\ EachRow
<1> USE DEF RowInv
<1>1. CASE Stages \/ \E r \in Row : Retry(r)
  BY <1>1, StageRowsMove DEF EachRow
<1>2. ASSUME NEW p \in Pass, Commit(p)
      PROVE  ExecutionsOK' /\ EachRow
  <2>1. /\ state' = [r \in Row |-> IF r \in pass[p].taken THEN "ADMITTED" ELSE state[r]]
        /\ facts' = facts
    BY <1>2 DEF Commit
  <2>2. \A r \in pass[p].taken : state[r] = "READY" /\ ~Blocked(r)
    BY DEF Within, LockedReady, TakenOpen
  <2>3. ASSUME NEW r \in Row
        PROVE  Stays(r) \/ (Opens(r) /\ r \in pass[p].taken)
    BY <2>1, <2>2 DEF Stays, Opens
  <2> QED
    BY <1>2, <2>1, <2>3 DEF EachRow, ExecutionsOK, State
<1>3. CASE UNCHANGED executions
  BY <1>3 DEF executions, ExecutionsOK, EachRow, Stays
<1>4. ASSUME NEW p \in Pass, Step(p) \/ Die(p), ~Commit(p)
      PROVE  UNCHANGED executions
  BY <1>4 DEF Step, Die, LockCandidates, LockControl, DeadlockAbort, LoadOccupancy,
       Evaluate, PageDone
<1>5. ASSUME NEW c \in Control, SetPaused(c) \/ \E n \in 0..MaxCapacity : SetCapacity(c, n)
      PROVE  UNCHANGED executions
  BY <1>5 DEF SetPaused, SetCapacity
<1>6. CASE UNCHANGED vars
  BY <1>3, <1>6 DEF vars, executions
<1> QED
  BY <1>1, <1>2, <1>3, <1>4, <1>5, <1>6 DEF Next

Finished(r) == \A s \in Below(r) : state[s] \in {"ABSENT", "SUCCEEDED"}

\* Finished lower rows stay as they are while their join exists: a row that
\* appeared among them would come from an admitted one still further below.
LEMMA FinishedStays ==
  ASSUME EachRow, NEW r \in Row, state[r] # "ABSENT", Finished(r)
  PROVE  Finished(r)'
<1> SUFFICES ASSUME NEW s \in Below(r)
             PROVE  state'[s] \in {"ABSENT", "SUCCEEDED"}
  BY DEF Finished, Below
<1>1. s \in Row /\ s[1] = r[1] /\ s[2] < r[2] /\ state[s] \in {"ABSENT", "SUCCEEDED"}
  BY Rows DEF Finished
<1>2. ~Moves(s) /\ ~Opens(s)
  BY <1>1 DEF Moves, Opens, Nonterminal
<1>3. ASSUME Born(s) PROVE FALSE
  <2>1. r \in RowsOf(s[1])
    BY <1>1, Rows
  <2>2. PICK q \in Below(s) : state[q] = "ADMITTED"
    BY <1>3, <2>1 DEF Born
  <2>3. q \in Row /\ q[1] = s[1] /\ q[2] < s[2]
    BY <1>1, Rows, <2>2
  <2>4. q \in Below(r)
    <3>1. q[2] \in Int /\ s[2] \in Int /\ r[2] \in Int
      BY <1>1, <2>3, Rows, AdmissionAssumption
    <3> QED
      BY <1>1, <2>3, <3>1, Rows
  <2> QED
    BY <2>2, <2>4 DEF Finished
<1> QED
  BY <1>1, <1>2, <1>3 DEF EachRow, Stays

\* A row that exists and is open stays open.
LEMMA OpenStays ==
  ASSUME EachRow, NEW r \in Row, state[r] = "READY", ~Blocked(r)
  PROVE  ~Blocked(r)'
<1>1. facts'[r] = facts[r]
  BY DEF EachRow, Stays, Born, Moves, Opens
<1>2. CASE ~facts[r].barrier
  BY <1>1, <1>2 DEF Blocked
<1>3. CASE facts[r].barrier
  <2>1. Finished(r)
    BY <1>3 DEF Blocked, Finished
  <2>2. Finished(r)'
    BY <2>1, FinishedStays
  <2> QED
    BY <2>2 DEF Blocked, Finished
<1> QED
  BY <1>2, <1>3

\* A pass that does not move; a control may be inserted under it.
Unmoved(p) ==
  /\ pass'[p].step = pass[p].step /\ pass'[p].page = pass[p].page
  /\ pass'[p].locked = pass[p].locked /\ pass'[p].considered = pass[p].considered
  /\ pass'[p].known = pass[p].known /\ pass'[p].held = pass[p].held
  /\ pass'[p].taken = pass[p].taken /\ pass'[p].failed = pass[p].failed
  /\ pass'[p].occupancy = pass[p].occupancy

Ended(p) == pass'[p] = Idle

LEMMA EachPass ==
  ASSUME ShapeOK, [Next]_vars, NEW p \in Pass
  PROVE  \/ Unmoved(p) \/ LockCandidates(p) \/ LockControl(p) \/ LoadOccupancy(p)
         \/ Evaluate(p) \/ PageDone(p) \/ Ended(p)
<1>1. CASE pass' = pass
  BY <1>1 DEF Unmoved
<1>2. ASSUME NEW c \in Control, NEW n \in 0..MaxCapacity, SetCapacity(c, n)
      PROVE  Unmoved(p)
  BY <1>2, SetCapacityDoes DEF Unmoved
<1>3. ASSUME NEW q \in Pass, Step(q) \/ Die(q), q # p
      PROVE  Unmoved(p)
  <2>1. OthersKeep(q)
    BY <1>3, LockCandidatesDoes, LockControlDoes, LoadOccupancyDoes, EvaluateDoes,
       PageDoneDoes, Ends DEF Step, Evaluates
  <2> QED
    BY <1>3, <2>1 DEF OthersKeep, Unmoved
<1>4. CASE Step(p) \/ Die(p)
  BY <1>4, Ends DEF Step, Ended
<1>5. CASE Stages \/ (\E r \in Row : Retry(r)) \/ (\E c \in Control : SetPaused(c))
           \/ UNCHANGED vars
  BY <1>1, <1>5 DEF Stages, Retry, SetPaused, vars
<1> QED
  BY <1>2, <1>3, <1>4, <1>5 DEF Next

LEMMA ShapeStep == ShapeOK /\ [Next]_vars => ShapeOK'
<1> SUFFICES ASSUME ShapeOK, [Next]_vars
             PROVE  ShapeOK'
  OBVIOUS
<1> USE DEF ShapeOK
<1>1. CASE Stages \/ UNCHANGED vars
  BY <1>1 DEF Stages, vars, controls
<1>2. ASSUME NEW r \in Row, Retry(r)
      PROVE  ShapeOK'
  BY <1>2, AdmissionAssumption DEF Retry, Fault, controls
<1>3. ASSUME NEW c \in Control, SetPaused(c)
      PROVE  ShapeOK'
  BY <1>3, AdmissionAssumption DEF SetPaused, Fault
<1>4. ASSUME NEW c \in Control, NEW n \in 0..MaxCapacity, SetCapacity(c, n)
      PROVE  ShapeOK'
  <2>1. pass' \in [Pass -> PassRecord]
    BY <1>4, SetCapacityDoes
  <2>2. capacity' \in [Control -> -1..MaxCapacity]
    BY <1>4, AdmissionAssumption DEF SetCapacity
  <2>3. paused' = paused /\ faults' \in 0..MaxFault
    BY <1>4, AdmissionAssumption DEF SetCapacity, Fault
  <2> QED
    BY <2>1, <2>2, <2>3
<1>5. ASSUME NEW p \in Pass, Step(p) \/ Die(p)
      PROVE  ShapeOK'
  <2>1. pass' \in [Pass -> PassRecord]
    BY <1>5, LockCandidatesDoes, LockControlDoes, LoadOccupancyDoes, EvaluateDoes,
       PageDoneDoes, Ends DEF Step, Evaluates
  <2>2. UNCHANGED controls
    BY <1>5 DEF Step, Die, LockCandidates, LockControl, DeadlockAbort, LoadOccupancy,
       Evaluate, PageDone, Commit
  <2>3. UNCHANGED faults \/ Fault
    BY <1>5 DEF Step, Die, LockCandidates, LockControl, DeadlockAbort, LoadOccupancy,
       Evaluate, PageDone, Commit
  <2>4. faults' \in 0..MaxFault
    BY <2>3, AdmissionAssumption DEF Fault
  <2> QED
    BY <2>1, <2>2, <2>4 DEF controls
<1> QED
  BY <1>1, <1>2, <1>3, <1>4, <1>5 DEF Next

\* Until its pass commits, a locked row stays READY.
LEMMA LockedRowsStay ==
  ASSUME RowInv, [Next]_vars, NEW p \in Pass, ~Ended(p), NEW r \in pass[p].locked
  PROVE  state'[r] = "READY" /\ r \in Row
<1>1. r \in Row /\ state[r] = "READY" /\ r \in Locked
  BY DEF RowInv, ShapeOK, PassRecord, LockedReady, Locked
<1>2. ASSUME NEW q \in Pass, r \in pass[q].taken, Commit(q)
      PROVE  FALSE
  <2>1. r \in pass[q].locked
    BY <1>2 DEF RowInv, Within
  <2>2. q = p
    BY <2>1 DEF RowInv, LocksApart
  <2> QED
    BY <1>2, <2>2, Ends DEF RowInv, Ended
<1>3. EachRow
  BY RowsMove
<1> QED
  BY <1>1, <1>2, <1>3 DEF EachRow, Stays, Born, Moves, Nonterminal

\* A page is made of READY rows that no other pass has locked.
LEMMA PageOf ==
  ASSUME ShapeOK, NEW p \in Pass, NEW r \in NextPage(p)
  PROVE  /\ r \in Row /\ state[r] = "READY"
         /\ r \notin pass[p].failed /\ r \notin pass[p].taken
         /\ \A q \in Pass \ {p} : r \notin pass[q].locked
BY DEF NextPage, Available, Candidate

LEMMA PageFits ==
  ASSUME RowInv, NEW p \in Pass, MayGoOn(p)
  PROVE  /\ NextPage(p) \in SUBSET Row /\ Cardinality(NextPage(p)) \in Nat
         /\ Cardinality(NextPage(p)) <= BatchSize + MaxSkips - pass[p].considered
<1>1. /\ Available(p) \in SUBSET Row /\ NextPage(p) \in SUBSET Row
  BY DEF Available, NextPage
<1>2. pass[p].considered \in Nat /\ Cardinality(pass[p].taken) \in Nat
  BY FiniteRows DEF RowInv, ShapeOK, PassRecord
<1>3. Limit(p) \in Nat /\ Limit(p) <= BatchSize + MaxSkips - pass[p].considered
  BY <1>2, AdmissionAssumption DEF MayGoOn, Limit
<1>4. Cardinality(NextPage(p)) <= Limit(p)
  <2> DEFINE S == Available(p)
             n == Limit(p)
  <2> HIDE DEF S, n
  <2>1. Cardinality({r \in S : Cardinality({s \in S : Rank[s] < Rank[r]}) < n}) <= n
    BY <1>1, <1>3, PageIsBounded DEF S, n
  <2> QED
    BY <2>1 DEF NextPage, S, n
<1>5. Cardinality(NextPage(p)) \in Nat
  BY <1>1, FiniteRows
<1> QED
  BY <1>1, <1>2, <1>3, <1>4, <1>5, AdmissionAssumption

LEMMA WithinStep ==
  ASSUME RowInv, [Next]_vars, NEW p \in Pass
  PROVE  Within(p)'
<1> USE DEF Within
<1>0. ShapeOK /\ Within(p)
  BY DEF RowInv
<1>1. CASE Unmoved(p)
  BY <1>0, <1>1 DEF Unmoved
<1>2. CASE LockCandidates(p)
  <2>1. MayGoOn(p) /\ pass[p].considered \in Nat
    BY <1>0, <1>2, LockCandidatesDoes DEF ShapeOK, PassRecord
  <2>2. pass[p].considered + Cardinality(NextPage(p)) <= BatchSize + MaxSkips
    BY <2>1, PageFits, AdmissionAssumption
  <2>3. NextPage(p) \cap (pass[p].taken \cup pass[p].failed) = {}
    BY <1>0, PageOf
  <2> QED
    BY <1>0, <1>2, <2>2, <2>3, LockCandidatesDoes
<1>3. CASE LockControl(p)
  BY <1>0, <1>3, LockControlDoes
<1>4. CASE LoadOccupancy(p)
  BY <1>0, <1>4, LoadOccupancyDoes
<1>5. CASE Evaluate(p)
  <2>1. /\ Evaluates(p) /\ (Passes(p) \/ Takes(p))
        /\ NextCandidate(p) \in pass[p].page /\ Cardinality(pass[p].taken) < BatchSize
    BY <1>0, <1>5, EvaluateDoes, CandidateExists
  <2>2. Cardinality(pass[p].taken \cup {NextCandidate(p)}) <= BatchSize
    <3>1. IsFiniteSet(pass[p].taken) /\ Cardinality(pass[p].taken) \in Nat
      BY <1>0, FiniteRows DEF ShapeOK, PassRecord
    <3>2. Cardinality(pass[p].taken \cup {NextCandidate(p)}) <= Cardinality(pass[p].taken) + 1
      <4>1. Cardinality(pass[p].taken \cup {NextCandidate(p)}) =
              IF NextCandidate(p) \in pass[p].taken THEN Cardinality(pass[p].taken)
              ELSE Cardinality(pass[p].taken) + 1
        BY <3>1, FS_AddElement
      <4> QED
        BY <3>1, <4>1
    <3>3. Cardinality(pass[p].taken \cup {NextCandidate(p)}) \in Nat
      <4>1. pass[p].taken \cup {NextCandidate(p)} \in SUBSET Row
        BY <1>0, <2>1 DEF ShapeOK, PassRecord
      <4> QED
        BY <4>1, FiniteRows
    <3> QED
      BY <2>1, <3>1, <3>2, <3>3, AdmissionAssumption
  <2>3. /\ pass'[p].page = pass[p].page \ {NextCandidate(p)}
        /\ pass'[p].locked = pass[p].locked /\ pass'[p].considered = pass[p].considered
    BY <2>1 DEF Evaluates, Keeps
  <2>4. CASE Takes(p)
    <3>1. pass'[p].taken = pass[p].taken \cup {NextCandidate(p)} /\ pass'[p].failed = pass[p].failed
      BY <2>4 DEF Takes
    <3> QED
      BY <1>0, <2>1, <2>2, <2>3, <3>1
  <2>5. CASE Passes(p)
    <3>1. /\ pass'[p].taken = pass[p].taken
          /\ pass'[p].failed \in {pass[p].failed, pass[p].failed \cup {NextCandidate(p)}}
      BY <2>5 DEF Passes
    <3>2. pass'[p].taken \cap pass'[p].failed = {}
      BY <1>0, <2>1, <3>1
    <3> QED
      BY <1>0, <2>1, <2>3, <3>1, <3>2
  <2> QED
    BY <2>1, <2>4, <2>5
<1>6. CASE PageDone(p)
  BY <1>0, <1>6, PageDoneDoes
<1>7. CASE Ended(p)
  <2>1. Cardinality({}) = 0
    BY FS_EmptySet
  <2> QED
    BY <1>7, <2>1, AdmissionAssumption DEF Ended, Idle
<1> QED
  BY <1>0, <1>1, <1>2, <1>3, <1>4, <1>5, <1>6, <1>7, EachPass

\* What a pass has locked grows by a page of free rows or not at all.
LEMMA LocksOf ==
  ASSUME RowInv, [Next]_vars, NEW p \in Pass
  PROVE  \/ pass'[p].locked \subseteq pass[p].locked
         \/ /\ pass'[p].locked = pass[p].locked \cup NextPage(p)
            /\ OthersKeep(p) /\ UNCHANGED executions
<1>0. ShapeOK
  BY DEF RowInv
<1>1. CASE LockCandidates(p)
  BY <1>0, <1>1, LockCandidatesDoes DEF LockCandidates
<1> QED
  BY <1>0, <1>1, EachPass, LockControlDoes, LoadOccupancyDoes, EvaluateDoes, PageDoneDoes
     DEF Unmoved, Evaluates, Keeps, Ended, Idle

LEMMA TakenOf ==
  ASSUME RowInv, [Next]_vars, NEW p \in Pass, NEW r \in pass'[p].taken
  PROVE  \/ r \in pass[p].taken /\ ~Ended(p)
         \/ /\ Evaluate(p) /\ Takes(p) /\ r = NextCandidate(p) /\ r \in pass[p].page
<1>0. ShapeOK
  BY DEF RowInv
<1>1. ~Ended(p)
  BY DEF Ended, Idle
<1> QED
  BY <1>0, <1>1, EachPass, LockCandidatesDoes, LockControlDoes, LoadOccupancyDoes,
     EvaluateDoes, PageDoneDoes, CandidateExists
     DEF Unmoved, Evaluates, Passes, Takes

LEMMA RowInvStep == RowInv /\ [Next]_vars => RowInv'
<1> SUFFICES ASSUME RowInv, [Next]_vars
             PROVE  RowInv'
  OBVIOUS
<1>1. ExecutionsOK' /\ EachRow
  BY RowsMove
<1>2. ShapeOK'
  BY ShapeStep DEF RowInv
<1>3. LockedReady'
  <2> SUFFICES ASSUME NEW p \in Pass, NEW r \in pass'[p].locked
               PROVE  state'[r] = "READY"
    BY DEF LockedReady
  <2>1. ~Ended(p)
    BY DEF Ended, Idle
  <2>2. CASE r \in pass[p].locked
    BY <2>1, <2>2, LockedRowsStay
  <2>3. CASE r \notin pass[p].locked
    <3>1. r \in NextPage(p) /\ UNCHANGED executions
      BY <2>3, LocksOf
    <3> QED
      BY <3>1, PageOf DEF RowInv, executions
  <2> QED
    BY <2>2, <2>3
<1>4. LocksApart'
  <2> SUFFICES ASSUME NEW p \in Pass, NEW q \in Pass, p # q,
                      NEW r \in pass'[p].locked, r \in pass'[q].locked
               PROVE  FALSE
    BY DEF LocksApart
  <2>1. r \in pass[p].locked \/ (r \in NextPage(p) /\ OthersKeep(p))
    BY LocksOf
  <2>2. r \in pass[q].locked \/ (r \in NextPage(q) /\ OthersKeep(q))
    BY LocksOf
  <2>3. r \in NextPage(p) => r \notin pass[q].locked
    BY PageOf DEF RowInv
  <2>4. r \in NextPage(q) => r \notin pass[p].locked
    BY PageOf DEF RowInv
  <2> QED
    BY <2>1, <2>2, <2>3, <2>4 DEF OthersKeep, RowInv, LocksApart
<1>5. TakenOpen'
  <2> SUFFICES ASSUME NEW p \in Pass, NEW r \in pass'[p].taken
               PROVE  ~Blocked(r)'
    BY DEF TakenOpen
  <2>1. r \in pass[p].locked /\ ~Blocked(r)
    BY TakenOf DEF RowInv, Within, TakenOpen, Takes
  <2>2. r \in Row /\ state[r] = "READY"
    BY <2>1 DEF RowInv, ShapeOK, PassRecord, LockedReady
  <2> QED
    BY <1>1, <2>1, <2>2, OpenStays
<1>6. \A p \in Pass : Within(p)'
  BY WithinStep
<1> QED
  BY <1>1, <1>2, <1>3, <1>4, <1>5, <1>6 DEF RowInv

LEMMA RowInvInit == Init => RowInv
<1> SUFFICES ASSUME Init
             PROVE  RowInv
  OBVIOUS
<1>1. ExecutionsOK
  BY SameVocabulary DEF Init, Lifecycle!Init, ExecutionsOK, State
<1>2. ShapeOK
  BY IdleShape, AdmissionAssumption DEF Init, ShapeOK
<1>3. \A p \in Pass : pass[p] = Idle
  BY DEF Init
<1>4. Cardinality({}) = 0
  BY FS_EmptySet
<1>5. LocksApart /\ LockedReady /\ TakenOpen
  BY <1>3 DEF LocksApart, LockedReady, TakenOpen, Idle
<1>6. \A p \in Pass : Within(p)
  <2>1. Idle.page = {} /\ Idle.taken = {} /\ Idle.locked = {} /\ Idle.considered = 0
    BY DEF Idle
  <2>2. 0 <= BatchSize /\ 0 <= BatchSize + MaxSkips
    BY AdmissionAssumption
  <2>3. \A p \in Pass : /\ pass[p].page = {} /\ pass[p].taken = {} /\ pass[p].locked = {}
                        /\ pass[p].considered = 0
    BY <1>3, <2>1
  <2>4. \A p \in Pass : Cardinality(pass[p].taken) = 0
    BY <1>4, <2>3
  <2> QED
    BY <2>2, <2>3, <2>4 DEF Within
<1> QED
  BY <1>1, <1>2, <1>5, <1>6 DEF RowInv

LEMMA RowsCorrect == Spec => []RowInv
BY RowInvInit, RowInvStep, PTL DEF Spec

\* The types, and that a pass keeps to its rows and budgets.
THEOREM TypeCorrect == Spec => []TypeOK
<1>1. RowInv => TypeOK
  <2> SUFFICES ASSUME RowInv
               PROVE  TypeOK
    OBVIOUS
  <2>1. ASSUME NEW p \in Pass
        PROVE  /\ pass[p].step \in {"SCAN", "CONTROLS", "EVALUATE"}
               /\ pass[p].considered \in 0..(BatchSize + MaxSkips)
    <3>1. pass[p] \in PassRecord /\ pass[p].considered <= BatchSize + MaxSkips
      BY DEF RowInv, ShapeOK, Within
    <3> QED
      BY <3>1, AdmissionAssumption DEF PassRecord
  <2>2. \A p \in Pass :
          /\ Cardinality(pass[p].taken) <= BatchSize
          /\ pass[p].taken \cap pass[p].failed = {}
          /\ pass[p].page \cup pass[p].taken \subseteq pass[p].locked
    BY DEF RowInv, Within
  <2> QED
    BY <2>1, <2>2 DEF TypeOK, RowInv, ExecutionsOK, ShapeOK
<1> QED
  BY <1>1, RowsCorrect, PTL

\* A join that has been admitted, whether it runs, has succeeded or has
\* failed, has nothing left to do below it, whatever is admitted, cancelled or
\* retried afterwards: no retry reaches back under it.
Ran == {"ADMITTED", "SUCCEEDED", "FAILED"}
JoinInv == \A r \in Row : facts[r].barrier /\ state[r] \in Ran => Finished(r)

THEOREM AdmittedJoinsAreFinished == Spec => []JoinInv
<1>1. Init => JoinInv
  BY SameVocabulary DEF Init, Lifecycle!Init, JoinInv, Ran
<1>2. RowInv /\ JoinInv /\ [Next]_vars => JoinInv'
  <2> SUFFICES ASSUME RowInv, JoinInv, [Next]_vars,
                      NEW r \in Row, facts'[r].barrier, state'[r] \in Ran
               PROVE  Finished(r)'
    BY DEF JoinInv, Finished, Ran
  <2>1. EachRow
    BY RowsMove
  <2>2. state[r] # "ABSENT" /\ facts'[r] = facts[r]
    BY <2>1 DEF EachRow, Stays, Born, Moves, Opens, Ran, Nonterminal
  <2>3. Finished(r)
    <3>1. CASE state[r] \in Ran
      BY <2>2, <3>1 DEF JoinInv
    <3>2. CASE state[r] \notin Ran
      <4>1. ~Blocked(r)
        BY <2>1, <3>2 DEF EachRow, Stays, Born, Moves, Opens, Ran, Nonterminal
      <4> QED
        BY <2>2, <4>1 DEF Blocked, Finished
    <3> QED
      BY <3>1, <3>2
  <2> QED
    BY <2>1, <2>2, <2>3, FinishedStays
<1> QED
  BY <1>1, <1>2, RowsCorrect, PTL DEF Spec

LEMMA CommitAdmits ==
  ASSUME RowInv, NEW p \in Pass, Commit(p)
  PROVE  Lifecycle!Next \/ UNCHANGED executions
<1> DEFINE R == pass[p].taken
<1>0. CASE R = {}
  <2>1. state \in [Row -> State]
    BY DEF RowInv, ExecutionsOK
  <2>2. state' = [r \in Row |-> state[r]] /\ UNCHANGED facts
    BY <1>0 DEF Commit
  <2> QED
    BY <2>1, <2>2 DEF executions
<1>1. R \in SUBSET Lifecycle!Admissible
  <2> SUFFICES ASSUME NEW r \in R
               PROVE  r \in Lifecycle!Admissible
    OBVIOUS
  <2>1. r \in pass[p].locked /\ ~Blocked(r)
    BY DEF RowInv, Within, TakenOpen
  <2>2. r \in Row /\ state[r] = "READY"
    BY <2>1 DEF RowInv, ShapeOK, PassRecord, LockedReady
  <2>3. ~Lifecycle!Blocked(r)
    BY <2>1 DEF Blocked, Below, Lifecycle!Blocked, Lifecycle!Below
  <2> QED
    BY <2>2, <2>3, SameVocabulary DEF Lifecycle!Admissible
<1>2. CASE R # {}
  <2>1. Lifecycle!Admit(R)
    BY <1>2, SameVocabulary DEF Commit, Lifecycle!Admit
  <2> QED
    BY <1>1, <2>1, Zenon DEF Lifecycle!Next
<1> QED
  BY <1>0, <1>2

\* Passes implement the lifecycle: whatever pages, locks and savepoints a pass
\* has gone through, its commit is one step in which all of what it has taken
\* was admissible, and nothing else that it does shows.
THEOREM AdmissionsImplementLifecycle == Spec => ImplementsLifecycle
<1>1. Init => Lifecycle!Init
  BY DEF Init
<1>2. ASSUME RowInv, [Next]_vars
      PROVE  Lifecycle!Next \/ UNCHANGED executions
  <2>1. CASE Stages
    BY <2>1, SameVocabulary, Zenon DEF Stages, Lifecycle!Next
  <2>2. ASSUME NEW r \in Row, Retry(r)
        PROVE  Lifecycle!Next
    BY <2>2, SameVocabulary, Zenon DEF Retry, Lifecycle!Next
  <2>3. CASE \E c \in Control : SetPaused(c) \/ \E n \in 0..MaxCapacity : SetCapacity(c, n)
    BY <2>3 DEF SetPaused, SetCapacity
  <2>4. ASSUME NEW p \in Pass, Step(p) \/ Die(p), ~Commit(p)
        PROVE  UNCHANGED executions
    BY <2>4 DEF Step, LockCandidates, LockControl, DeadlockAbort, LoadOccupancy,
                Evaluate, PageDone, Die
  <2>5. CASE UNCHANGED vars
    BY <2>5 DEF vars, executions
  <2> QED
    BY <1>2, <2>1, <2>2, <2>3, <2>4, <2>5, CommitAdmits DEF Next
<1> QED
  BY <1>1, <1>2, RowsCorrect, PTL
  DEF Spec, ImplementsLifecycle, Lifecycle!Spec, executions
-----------------------------------------------------------------------------
(***************************************************************************)
(* The controls: who holds them, and what a pass knows of them.            *)
(***************************************************************************)

HeldApart == \A p, q \in Pass : p # q => pass[p].held \cap pass[q].held = {}

Existing(p) == \A c \in pass[p].held \cup pass[p].known : Exists(c)

\* On its first page a pass holds the first of the controls it knows.
Orderly(p) ==
  /\ pass[p].considered = 0 => pass[p].step = "SCAN" /\ pass[p].held = {}
  /\ pass[p].step = "CONTROLS" /\ OnFirstPage(p) =>
       /\ pass[p].held \subseteq pass[p].known
       /\ \A c \in pass[p].held : \A d \in pass[p].known \ pass[p].held : c < d

\* A pass with the empty selector of a stage keeps all others out of the stage.
HoldsStage(p, s) == \E w \in Wide \cap pass[p].held : StageOf[w] = s

Claims(p) ==
  /\ \A r \in pass[p].taken : HoldsStage(p, StageAt[r])
  /\ pass[p].step = "EVALUATE" => \A r \in pass[p].page : HoldsStage(p, StageAt[r])

Settled(p) == pass[p].step = "EVALUATE" => pass[p].known \subseteq pass[p].held

\* What was not known when the page was read has been inserted since.
Looked(p) ==
  pass[p].step # "SCAN" =>
    \A r \in pass[p].page : \A c \in Control : StageOf[c] = StageAt[r] =>
      /\ c \in pass[p].held => c \in pass[p].known
      /\ Exists(c) => c \in pass[p].known \cup pass[p].inserted

Covered(p) ==
  \A r \in pass[p].taken : \A c \in Control : StageOf[c] = StageAt[r] /\ Exists(c) =>
    c \in pass[p].held \cup pass[p].inserted

Counted(p) ==
  pass[p].step = "EVALUATE" =>
    \A c \in pass[p].known : HoldsStage(p, StageOf[c]) =>
      Occupancy(p, c) <= pass[p].occupancy[c]

Respected(p) ==
  \A r \in pass[p].taken : \A c \in Binding(p, r) :
    ~paused[c] /\ Occupancy(p, c) <= capacity[c]

ControlInv ==
  /\ HeldApart
  /\ \A p \in Pass : /\ Existing(p) /\ Orderly(p) /\ Claims(p) /\ Settled(p)
                     /\ Looked(p) /\ Covered(p) /\ Counted(p) /\ Respected(p)

\* A step of a pass changes no control.
Frozen == UNCHANGED controls

LEMMA MovesFreeze ==
  ASSUME NEW p \in Pass,
         LockCandidates(p) \/ LockControl(p) \/ LoadOccupancy(p) \/ Evaluate(p) \/ PageDone(p)
  PROVE  Frozen
BY DEF LockCandidates, LockControl, LoadOccupancy, Evaluate, PageDone, Frozen

\* What an operator may do to the controls under a pass.
LEMMA ControlsMove ==
  ASSUME ShapeOK, [Next]_vars, NEW p \in Pass, NEW c \in Control
  PROVE  /\ c \in pass[p].held => capacity'[c] = capacity[c] /\ paused'[c] = paused[c]
         /\ Exists(c) => Exists(c)'
         /\ Exists(c)' => Exists(c) \/ Ended(p) \/ c \in pass'[p].inserted
<1>1. CASE Frozen
  BY <1>1 DEF Frozen, controls, Exists
<1>2. ASSUME NEW d \in Control, SetPaused(d)
      PROVE  /\ c \in pass[p].held => capacity'[c] = capacity[c] /\ paused'[c] = paused[c]
             /\ Exists(c)' <=> Exists(c)
  BY <1>2 DEF SetPaused, Held, Exists, ShapeOK
<1>3. ASSUME NEW d \in Control, NEW n \in 0..MaxCapacity, SetCapacity(d, n)
      PROVE  /\ c \in pass[p].held => capacity'[c] = capacity[c] /\ paused'[c] = paused[c]
             /\ Exists(c) => Exists(c)'
             /\ Exists(c)' => Exists(c) \/ Ended(p) \/ c \in pass'[p].inserted
  <2>1. d \notin Held /\ capacity' = [capacity EXCEPT ![d] = n] /\ paused' = paused
    BY <1>3 DEF SetCapacity
  <2>2. c \in pass[p].held => c # d
    BY <2>1 DEF Held
  <2>3. ~Exists(d) => Ended(p) \/ d \in pass'[p].inserted
    BY <1>3, SetCapacityDoes DEF Ended
  <2>4. n >= 0 /\ n \in Int
    BY AdmissionAssumption
  <2> QED
    BY <2>1, <2>2, <2>3, <2>4 DEF Exists, ShapeOK
<1>4. ASSUME NEW q \in Pass, Step(q) \/ Die(q)
      PROVE  Frozen
  BY <1>4 DEF Step, Die, LockCandidates, LockControl, DeadlockAbort, LoadOccupancy,
     Evaluate, PageDone, Commit, Frozen
<1>5. CASE Stages \/ (\E r \in Row : Retry(r)) \/ UNCHANGED vars
  <2>1. Frozen
    BY <1>5 DEF Stages, Retry, vars, Frozen, controls
  <2> QED
    BY <1>1, <2>1
<1> QED
  BY <1>1, <1>2, <1>3, <1>4, <1>5 DEF Next

LEMMA InsertedStay ==
  ASSUME ShapeOK, [Next]_vars, NEW p \in Pass, ~Ended(p)
  PROVE  pass[p].inserted \subseteq pass'[p].inserted
<1>1. ASSUME NEW c \in Control, NEW n \in 0..MaxCapacity, SetCapacity(c, n)
      PROVE  pass[p].inserted \subseteq pass'[p].inserted
  BY <1>1, SetCapacityDoes
<1>2. ASSUME NEW q \in Pass, Step(q) \/ Die(q), q # p
      PROVE  pass'[p] = pass[p]
  <2>1. OthersKeep(q)
    BY <1>2, LockCandidatesDoes, LockControlDoes, LoadOccupancyDoes, EvaluateDoes,
       PageDoneDoes, Ends DEF Step, Evaluates
  <2> QED
    BY <1>2, <2>1 DEF OthersKeep
<1>3. CASE Step(p) \/ Die(p)
  BY <1>3, LockCandidatesDoes, LockControlDoes, LoadOccupancyDoes, EvaluateDoes,
     PageDoneDoes, Ends DEF Step, Ended, Evaluates, Keeps
<1>4. CASE Stages \/ (\E r \in Row : Retry(r)) \/ (\E c \in Control : SetPaused(c))
           \/ UNCHANGED vars
  BY <1>4 DEF Stages, Retry, SetPaused, vars
<1> QED
  BY <1>1, <1>2, <1>3, <1>4 DEF Next

\* What a pass holds grows by the next control it waits for or not at all.
LEMMA HeldOf ==
  ASSUME ShapeOK, [Next]_vars, NEW p \in Pass
  PROVE  \/ Ended(p)
         \/ pass'[p].held = pass[p].held
         \/ LockControl(p)
BY EachPass, LockCandidatesDoes, LoadOccupancyDoes, EvaluateDoes, PageDoneDoes
   DEF Unmoved, Evaluates, Keeps

LEMMA HeldApartStep ==
  ASSUME ShapeOK, HeldApart, [Next]_vars
  PROVE  HeldApart'
<1> SUFFICES ASSUME NEW p \in Pass, NEW q \in Pass, p # q,
                    NEW c \in pass'[p].held, c \in pass'[q].held
             PROVE  FALSE
  BY DEF HeldApart
<1>1. ~Ended(p) /\ ~Ended(q)
  BY DEF Ended, Idle
<1>2. CASE LockControl(p)
  <2>1. pass'[q].held = pass[q].held /\ pass'[p].held = pass[p].held \cup {NextControl(p)}
        /\ NextControl(p) \notin pass[q].held
    BY <1>2, LockControlDoes DEF OthersKeep, Free
  <2> QED
    BY <2>1 DEF HeldApart
<1>3. CASE LockControl(q)
  <2>1. pass'[p].held = pass[p].held /\ pass'[q].held = pass[q].held \cup {NextControl(q)}
        /\ NextControl(q) \notin pass[p].held
    BY <1>3, LockControlDoes DEF OthersKeep, Free
  <2> QED
    BY <2>1 DEF HeldApart
<1>4. CASE pass'[p].held = pass[p].held /\ pass'[q].held = pass[q].held
  BY <1>4 DEF HeldApart
<1> QED
  BY <1>1, <1>2, <1>3, <1>4, HeldOf

\* While a pass holds a stage no other admits there: the count can only fall,
\* but for what the pass itself takes.
Counting(p, c) == {r \in Row : Matches(c, r) /\ (state[r] = "ADMITTED" \/ r \in pass[p].taken)}

LEMMA CountsFall ==
  ASSUME RowInv, ControlInv, [Next]_vars, NEW p \in Pass, ~Ended(p),
         NEW c \in Control, HoldsStage(p, StageOf[c])
  PROVE  /\ Counting(p, c)' \subseteq Counting(p, c) \cup {r \in pass'[p].taken : Matches(c, r)}
         /\ pass'[p].taken \subseteq pass[p].taken => Occupancy(p, c)' <= Occupancy(p, c)
<1>1. ASSUME NEW r \in Row, Matches(c, r), state'[r] = "ADMITTED"
      PROVE  state[r] = "ADMITTED"
  <2>1. ASSUME NEW q \in Pass, r \in pass[q].taken, Commit(q)
        PROVE  FALSE
    <3>1. q # p
      BY <2>1, Ends DEF RowInv, Ended
    <3>2. HoldsStage(q, StageOf[c])
      BY <1>1, <2>1 DEF ControlInv, Claims, Matches
    <3>3. PICK v \in Wide \cap pass[p].held : StageOf[v] = StageOf[c]
      BY DEF HoldsStage
    <3>4. PICK w \in Wide \cap pass[q].held : StageOf[w] = StageOf[c]
      BY <3>2 DEF HoldsStage
    <3>5. v = w
      BY <3>3, <3>4, AdmissionAssumption
    <3> QED
      BY <3>1, <3>3, <3>4, <3>5 DEF ControlInv, HeldApart
  <2> QED
    BY <1>1, <2>1, RowsMove DEF EachRow, Stays, Born, Moves, Opens
<1>2. Counting(p, c)' \subseteq Counting(p, c) \cup {r \in pass'[p].taken : Matches(c, r)}
  BY <1>1 DEF Counting, Matches
<1>3. ASSUME pass'[p].taken \subseteq pass[p].taken
      PROVE  Occupancy(p, c)' <= Occupancy(p, c)
  <2>1. Counting(p, c)' \in SUBSET Counting(p, c)
    BY <1>1, <1>3 DEF Counting, Matches
  <2>2. Counting(p, c) \in SUBSET Row
    BY DEF Counting
  <2> QED
    BY <2>1, <2>2, FiniteRows, FS_Subset DEF Occupancy, Counting
<1> QED
  BY <1>2, <1>3

LEMMA ExistingStep ==
  ASSUME RowInv, ControlInv, [Next]_vars, NEW p \in Pass
  PROVE  Existing(p)'
<1> USE DEF Existing
<1>0. ShapeOK /\ Existing(p)
  BY DEF RowInv, ControlInv
<1>1. \A c \in pass[p].held \cup pass[p].known : c \in Control /\ Exists(c)'
  BY <1>0, ControlsMove DEF ShapeOK, PassRecord
<1>2. CASE Unmoved(p)
  BY <1>1, <1>2 DEF Unmoved
<1>3. CASE LockCandidates(p)
  <2>1. \A c \in Control : Exists(c) => Exists(c)'
    BY <1>0, ControlsMove
  <2> QED
    BY <1>0, <1>1, <1>3, <2>1, LockCandidatesDoes
<1>4. CASE LockControl(p)
  <2>1. NextControl(p) \in pass[p].known
    BY <1>0, <1>4, LockControlDoes, NextControlIsLeast
  <2> QED
    BY <1>0, <1>1, <1>4, <2>1, LockControlDoes
<1>5. CASE LoadOccupancy(p)
  BY <1>0, <1>1, <1>5, LoadOccupancyDoes
<1>6. CASE Evaluate(p)
  BY <1>0, <1>1, <1>6, EvaluateDoes DEF Evaluates, Keeps
<1>7. CASE PageDone(p)
  BY <1>0, <1>1, <1>7, PageDoneDoes
<1>8. CASE Ended(p)
  BY <1>8 DEF Ended, Idle
<1> QED
  BY <1>0, <1>2, <1>3, <1>4, <1>5, <1>6, <1>7, <1>8, EachPass

LEMMA OrderlyStep ==
  ASSUME RowInv, ControlInv, [Next]_vars, NEW p \in Pass
  PROVE  Orderly(p)'
<1> USE DEF Orderly, OnFirstPage
<1>0. ShapeOK /\ Orderly(p)
  BY DEF RowInv, ControlInv
<1>1. pass[p].considered \in Nat
  BY <1>0 DEF ShapeOK, PassRecord
<1>2. CASE Unmoved(p)
  BY <1>0, <1>2 DEF Unmoved
<1>3. CASE LockCandidates(p)
  <2>1. /\ NextPage(p) \in SUBSET Row /\ NextPage(p) # {}
        /\ IsFiniteSet(NextPage(p)) /\ Cardinality(NextPage(p)) \in Nat
    <3>1. NextPage(p) \in SUBSET Row /\ NextPage(p) # {}
      BY <1>0, <1>3, LockCandidatesDoes DEF NextPage, Available
    <3> QED
      BY <3>1, FiniteRows
  <2>2. Cardinality(NextPage(p)) > 0
    BY <2>1, FS_EmptySet
  <2>3. pass'[p].considered = pass[p].considered + Cardinality(NextPage(p))
        /\ pass'[p].page = NextPage(p) /\ pass'[p].held = pass[p].held
    BY <1>0, <1>3, LockCandidatesDoes
  <2>4. pass'[p].considered # 0
    BY <1>1, <2>1, <2>2, <2>3
  <2>5. pass'[p].considered = Cardinality(pass'[p].page) => pass'[p].held = {}
    BY <1>0, <1>1, <2>1, <2>3
  <2> QED
    BY <2>4, <2>5
<1>4. CASE LockControl(p)
  <2>1. /\ NextControl(p) \in pass[p].known \ pass[p].held
        /\ \A d \in pass[p].known \ pass[p].held : NextControl(p) <= d
        /\ pass[p].step = "CONTROLS"
    BY <1>0, <1>4, LockControlDoes, NextControlIsLeast DEF Waits
  <2>2. pass[p].known \subseteq Int
    BY <1>0, AdmissionAssumption DEF ShapeOK, PassRecord, Control
  <2>3. /\ pass'[p].held = pass[p].held \cup {NextControl(p)}
        /\ pass'[p].known = pass[p].known /\ pass'[p].page = pass[p].page
        /\ pass'[p].considered = pass[p].considered
    BY <1>0, <1>4, LockControlDoes
  <2>4. \A d \in pass'[p].known \ pass'[p].held : NextControl(p) < d
    BY <2>1, <2>2, <2>3
  <2> QED
    BY <1>0, <2>1, <2>3, <2>4
<1>5. CASE LoadOccupancy(p)
  BY <1>0, <1>5, LoadOccupancyDoes
<1>6. CASE Evaluate(p)
  BY <1>0, <1>6, EvaluateDoes DEF Evaluates, Keeps
<1>7. CASE PageDone(p)
  BY <1>0, <1>7, PageDoneDoes
<1>8. CASE Ended(p)
  <2>1. Idle.step = "SCAN" /\ Idle.held = {}
    BY DEF Idle
  <2> QED
    BY <1>8, <2>1 DEF Ended
<1> QED
  BY <1>0, <1>2, <1>3, <1>4, <1>5, <1>6, <1>7, <1>8, EachPass

\* A stage stays held until the pass ends.
LEMMA HoldStays ==
  ASSUME ShapeOK, [Next]_vars, NEW p \in Pass, ~Ended(p)
  PROVE  \A s : HoldsStage(p, s) => HoldsStage(p, s)'
<1>1. pass[p].held \subseteq pass'[p].held
  BY HeldOf, LockControlDoes
<1> QED
  BY <1>1 DEF HoldsStage

LEMMA ClaimsStep ==
  ASSUME RowInv, ControlInv, [Next]_vars, NEW p \in Pass
  PROVE  Claims(p)'
<1> USE DEF Claims
<1>0. ShapeOK /\ Claims(p)
  BY DEF RowInv, ControlInv
<1>1. CASE Ended(p)
  <2>1. Idle.step = "SCAN" /\ Idle.taken = {}
    BY DEF Idle
  <2> QED
    BY <1>1, <2>1 DEF Ended
<1>2. CASE ~Ended(p)
  <2>1. ASSUME NEW r \in pass'[p].taken
        PROVE  HoldsStage(p, StageAt[r])'
    <3>1. HoldsStage(p, StageAt[r])
      BY <1>0, TakenOf, EvaluateDoes, <2>1 DEF Evaluates
    <3> QED
      BY <1>0, <1>2, <3>1, HoldStays
  <2>2. ASSUME pass'[p].step = "EVALUATE", NEW r \in pass'[p].page
        PROVE  HoldsStage(p, StageAt[r])'
    <3>1. CASE LoadOccupancy(p)
      BY <1>0, <3>1, <2>2, LoadOccupancyDoes DEF HoldsStage
    <3>2. CASE ~LoadOccupancy(p)
      <4>1. pass[p].step = "EVALUATE" /\ r \in pass[p].page
        BY <1>0, <1>2, <2>2, <3>2, EachPass, LockCandidatesDoes, LockControlDoes, EvaluateDoes,
           PageDoneDoes DEF Unmoved, Evaluates
      <4> QED
        BY <1>0, <1>2, <4>1, HoldStays
    <3> QED
      BY <3>1, <3>2
  <2> QED
    BY <2>1, <2>2
<1> QED
  BY <1>1, <1>2

LEMMA SettledStep ==
  ASSUME RowInv, ControlInv, [Next]_vars, NEW p \in Pass
  PROVE  Settled(p)'
<1> USE DEF Settled
<1>0. ShapeOK /\ Settled(p)
  BY DEF RowInv, ControlInv
<1>1. CASE Unmoved(p)
  BY <1>0, <1>1 DEF Unmoved
<1>2. CASE LockCandidates(p) \/ LockControl(p) \/ LoadOccupancy(p) \/ PageDone(p)
  BY <1>0, <1>2, LockCandidatesDoes, LockControlDoes, LoadOccupancyDoes, PageDoneDoes
<1>3. CASE Evaluate(p)
  BY <1>0, <1>3, EvaluateDoes DEF Evaluates, Keeps
<1>4. CASE Ended(p)
  BY <1>4 DEF Ended, Idle
<1> QED
  BY <1>0, <1>1, <1>2, <1>3, <1>4, EachPass

LEMMA LookedStep ==
  ASSUME RowInv, ControlInv, [Next]_vars, NEW p \in Pass
  PROVE  Looked(p)'
<1> USE DEF Looked
<1>0. ShapeOK /\ Looked(p) /\ Existing(p)
  BY DEF RowInv, ControlInv
<1>1. CASE Ended(p)
  BY <1>1 DEF Ended, Idle
<1>2. CASE Unmoved(p) /\ ~Ended(p)
  <2>1. pass[p].inserted \subseteq pass'[p].inserted
    BY <1>0, <1>2, InsertedStay
  <2>2. \A c \in Control : Exists(c)' => Exists(c) \/ c \in pass'[p].inserted
    BY <1>0, <1>2, ControlsMove
  <2> QED
    BY <1>0, <1>2, <2>1, <2>2 DEF Unmoved
<1>3. CASE LockCandidates(p)
  <2>1. \A c \in Control : Exists(c)' <=> Exists(c)
    BY <1>3, MovesFreeze DEF Frozen, controls, Exists
  <2>2. /\ pass'[p].page = NextPage(p) /\ pass'[p].held = pass[p].held
        /\ pass'[p].known = {c \in Control : Exists(c) /\ \E r \in NextPage(p) : StageOf[c] = StageAt[r]}
    BY <1>0, <1>3, LockCandidatesDoes
  <2> QED
    BY <1>0, <2>1, <2>2 DEF Existing
<1>4. CASE LockControl(p)
  <2>1. \A c \in Control : Exists(c)' <=> Exists(c)
    BY <1>4, MovesFreeze DEF Frozen, controls, Exists
  <2>2. NextControl(p) \in pass[p].known /\ pass[p].step = "CONTROLS"
    BY <1>0, <1>4, LockControlDoes, NextControlIsLeast DEF Waits
  <2> QED
    BY <1>0, <1>4, <2>1, <2>2, LockControlDoes
<1>5. CASE LoadOccupancy(p)
  <2>1. \A c \in Control : Exists(c)' <=> Exists(c)
    BY <1>5, MovesFreeze DEF Frozen, controls, Exists
  <2> QED
    BY <1>0, <1>5, <2>1, LoadOccupancyDoes
<1>6. CASE Evaluate(p)
  <2>1. \A c \in Control : Exists(c)' <=> Exists(c)
    BY <1>6, MovesFreeze DEF Frozen, controls, Exists
  <2> QED
    BY <1>0, <1>6, <2>1, EvaluateDoes DEF Evaluates, Keeps
<1>7. CASE PageDone(p)
  BY <1>0, <1>7, PageDoneDoes
<1> QED
  BY <1>0, <1>1, <1>2, <1>3, <1>4, <1>5, <1>6, <1>7, EachPass

LEMMA CoveredStep ==
  ASSUME RowInv, ControlInv, [Next]_vars, NEW p \in Pass
  PROVE  Covered(p)'
<1> SUFFICES ASSUME NEW r \in pass'[p].taken, NEW c \in Control,
                    StageOf[c] = StageAt[r], Exists(c)'
             PROVE  c \in pass'[p].held \cup pass'[p].inserted
  BY DEF Covered
<1>0. ShapeOK /\ Covered(p) /\ Looked(p) /\ Settled(p) /\ ~Ended(p)
  BY DEF RowInv, ControlInv, Ended, Idle
<1>1. pass[p].held \subseteq pass'[p].held /\ pass[p].inserted \subseteq pass'[p].inserted
  BY <1>0, HeldOf, LockControlDoes, InsertedStay
<1>2. Exists(c) \/ c \in pass'[p].inserted
  BY <1>0, ControlsMove
<1>3. CASE r \in pass[p].taken
  BY <1>0, <1>1, <1>2, <1>3 DEF Covered
<1>4. CASE Evaluate(p) /\ r \in pass[p].page
  <2>1. pass[p].step = "EVALUATE"
    BY <1>0, <1>4, EvaluateDoes DEF Evaluates
  <2> QED
    BY <1>0, <1>1, <1>2, <1>4, <2>1 DEF Looked, Settled
<1> QED
  BY <1>3, <1>4, TakenOf

\* Taking a candidate adds one to each count that it falls under, to no other.
LEMMA CountsAfterTake ==
  ASSUME RowInv, ControlInv, [Next]_vars, NEW p \in Pass, Evaluate(p), Takes(p),
         NEW c \in Control
  PROVE  Occupancy(p, c)' <= Occupancy(p, c) + (IF Matches(c, NextCandidate(p)) THEN 1 ELSE 0)
<1> DEFINE r == NextCandidate(p)
<1>1. /\ pass'[p].taken = pass[p].taken \cup {r} /\ UNCHANGED executions
  BY DEF Takes, Evaluate
<1>2. Counting(p, c) \in SUBSET Row /\ Counting(p, c)' \in SUBSET Row
  BY DEF Counting
<1>3. /\ IsFiniteSet(Counting(p, c)) /\ Cardinality(Counting(p, c)) \in Nat
      /\ IsFiniteSet(Counting(p, c)') /\ Cardinality(Counting(p, c)') \in Nat
  BY <1>2, FiniteRows
<1>4. Occupancy(p, c) = Cardinality(Counting(p, c)) /\ Occupancy(p, c)' = Cardinality(Counting(p, c)')
  BY DEF Occupancy, Counting
<1>5. CASE Matches(c, r)
  <2>1. Counting(p, c)' \subseteq Counting(p, c) \cup {r}
    BY <1>1 DEF Counting, Matches, executions
  <2> DEFINE S == Counting(p, c)
             T == Counting(p, c)'
  <2> HIDE DEF S, T, r
  <2>2. /\ IsFiniteSet(S \cup {r})
        /\ Cardinality(S \cup {r}) = IF r \in S THEN Cardinality(S) ELSE Cardinality(S) + 1
    BY <1>3, FS_AddElement DEF S
  <2>3. T \in SUBSET (S \cup {r})
    BY <2>1 DEF S, T
  <2>4. Cardinality(T) <= Cardinality(S \cup {r})
    BY <2>2, <2>3, FS_Subset
  <2>5. Cardinality(T) <= Cardinality(S) + 1
    <3>1. Cardinality(S) \in Nat /\ Cardinality(T) \in Nat
      BY <1>3 DEF S, T
    <3> QED
      BY <2>2, <2>4, <3>1
  <2> QED
    BY <1>4, <1>5, <2>5 DEF S, T, r
<1>6. CASE ~Matches(c, r)
  <2>1. Counting(p, c)' \subseteq Counting(p, c)
    BY <1>1, <1>6 DEF Counting, Matches, executions
  <2> DEFINE S == Counting(p, c)
             T == Counting(p, c)'
  <2> HIDE DEF S, T, r
  <2>2. T \in SUBSET S /\ IsFiniteSet(S) /\ Cardinality(S) \in Nat /\ Cardinality(T) \in Nat
    BY <1>3, <2>1 DEF S, T
  <2>3. Cardinality(T) <= Cardinality(S)
    BY <2>2, FS_Subset
  <2> QED
    BY <1>4, <1>6, <2>2, <2>3 DEF S, T, r
<1> QED
  BY <1>5, <1>6

LEMMA CountedStep ==
  ASSUME RowInv, ControlInv, [Next]_vars, NEW p \in Pass
  PROVE  Counted(p)'
<1> SUFFICES ASSUME pass'[p].step = "EVALUATE", NEW c \in pass'[p].known,
                    HoldsStage(p, StageOf[c])'
             PROVE  Occupancy(p, c)' <= pass'[p].occupancy[c]
  BY DEF Counted
<1>0. ShapeOK /\ ShapeOK' /\ Counted(p) /\ ~Ended(p)
  BY ShapeStep DEF RowInv, ControlInv, Ended, Idle
<1>1. c \in Control
  BY <1>0 DEF ShapeOK, PassRecord
<1>2. Occupancy(p, c) \in Nat /\ Occupancy(p, c)' \in Nat
  <2>1. Counting(p, c) \in SUBSET Row /\ Counting(p, c)' \in SUBSET Row
    BY DEF Counting
  <2>2. Occupancy(p, c) = Cardinality(Counting(p, c)) /\ Occupancy(p, c)' = Cardinality(Counting(p, c)')
    BY DEF Occupancy, Counting
  <2> QED
    BY <2>1, <2>2, FiniteRows
<1>3. CASE LoadOccupancy(p)
  <2>1. c \in pass[p].known /\ pass'[p].occupancy[c] = Occupancy(p, c)
    BY <1>0, <1>3, LoadOccupancyDoes
  <2>2. pass'[p].taken = pass[p].taken /\ UNCHANGED executions
    BY <1>0, <1>3, LoadOccupancyDoes DEF LoadOccupancy
  <2>3. Occupancy(p, c)' = Occupancy(p, c)
    BY <2>2 DEF Occupancy, executions, Matches
  <2> QED
    BY <1>2, <2>1, <2>3
<1>4. CASE Unmoved(p)
  <2>1. /\ c \in pass[p].known /\ pass[p].step = "EVALUATE" /\ HoldsStage(p, StageOf[c])
        /\ pass'[p].taken = pass[p].taken /\ pass'[p].occupancy = pass[p].occupancy
    BY <1>4 DEF Unmoved, HoldsStage
  <2>2. Occupancy(p, c) <= pass[p].occupancy[c] /\ Occupancy(p, c)' <= Occupancy(p, c)
    BY <1>0, <1>1, <2>1, CountsFall DEF Counted
  <2>3. pass[p].occupancy[c] \in Nat
    BY <1>0, <1>1 DEF ShapeOK, PassRecord
  <2> QED
    BY <1>2, <2>1, <2>2, <2>3
<1>5. CASE Evaluate(p)
  <2>1. /\ Evaluates(p) /\ (Passes(p) \/ Takes(p)) /\ NextCandidate(p) \in pass[p].page
    BY <1>0, <1>5, EvaluateDoes, CandidateExists
  <2>2. c \in pass[p].known /\ pass[p].step = "EVALUATE" /\ HoldsStage(p, StageOf[c])
    BY <2>1 DEF Evaluates, Keeps, HoldsStage
  <2>3. Occupancy(p, c) <= pass[p].occupancy[c] /\ pass[p].occupancy[c] \in Nat
    BY <1>0, <1>1, <2>2 DEF Counted, ShapeOK, PassRecord
  <2>4. CASE Passes(p)
    <3>1. pass'[p].taken = pass[p].taken /\ pass'[p].occupancy = pass[p].occupancy
      BY <2>4 DEF Passes
    <3>2. Occupancy(p, c)' <= Occupancy(p, c)
      BY <1>0, <1>1, <2>2, <3>1, CountsFall
    <3> QED
      BY <1>2, <2>3, <3>1, <3>2
  <2>5. CASE Takes(p)
    <3>1. Occupancy(p, c)' <= Occupancy(p, c) + (IF Matches(c, NextCandidate(p)) THEN 1 ELSE 0)
      BY <1>1, <1>5, <2>5, CountsAfterTake
    <3>2. pass'[p].occupancy[c] = pass[p].occupancy[c] +
            (IF c \in Matching(p, NextCandidate(p)) THEN 1 ELSE 0)
      BY <1>1, <2>5 DEF Takes
    <3>3. c \in Matching(p, NextCandidate(p)) <=> Matches(c, NextCandidate(p))
      BY <2>2 DEF Matching
    <3> QED
      BY <1>2, <2>3, <3>1, <3>2, <3>3
  <2> QED
    BY <2>1, <2>4, <2>5
<1> QED
  BY <1>0, <1>3, <1>4, <1>5, EachPass, LockCandidatesDoes, LockControlDoes, PageDoneDoes

\* The controls that bind what a pass has taken are those that did so before.
LEMMA BindingStays ==
  ASSUME RowInv, ControlInv, [Next]_vars, NEW p \in Pass, ~Ended(p),
         NEW r \in pass[p].taken, NEW c \in Binding(p, r)'
  PROVE  c \in Binding(p, r)
<1>0. ShapeOK /\ Covered(p) /\ Existing(p)
  BY DEF RowInv, ControlInv
<1>1. c \in pass'[p].held /\ c \notin pass'[p].inserted /\ Matches(c, r)
  BY DEF Binding, Matches
<1>2. c \notin pass[p].inserted
  BY <1>0, <1>1, InsertedStay
<1>3. CASE LockControl(p) /\ c \notin pass[p].held
  <2>1. c = NextControl(p) /\ c \in pass[p].known /\ c \in Control
    BY <1>0, <1>1, <1>3, LockControlDoes, NextControlIsLeast
  <2>2. Exists(c) /\ StageOf[c] = StageAt[r]
    BY <1>0, <1>1, <2>1 DEF Existing, Matches
  <2> QED
    BY <1>0, <1>2, <1>3, <2>1, <2>2 DEF Covered
<1>4. CASE c \in pass[p].held
  BY <1>1, <1>2, <1>4 DEF Binding
<1> QED
  BY <1>0, <1>1, <1>3, <1>4, HeldOf

LEMMA RespectedStep ==
  ASSUME RowInv, ControlInv, [Next]_vars, NEW p \in Pass
  PROVE  Respected(p)'
<1> SUFFICES ASSUME NEW r \in pass'[p].taken, NEW c \in Binding(p, r)'
             PROVE  ~paused'[c] /\ Occupancy(p, c)' <= capacity'[c]
  BY DEF Respected
<1>0. /\ ShapeOK /\ ShapeOK' /\ ~Ended(p)
      /\ Respected(p) /\ Looked(p) /\ Counted(p) /\ Claims(p)
  BY ShapeStep DEF RowInv, ControlInv, Ended, Idle
<1>1. c \in Control /\ Matches(c, r)
  BY <1>0 DEF Binding, ShapeOK, PassRecord, Matches
<1>2. Occupancy(p, c) \in Nat /\ Occupancy(p, c)' \in Nat /\ capacity[c] \in Int
  <2>1. Counting(p, c) \in SUBSET Row /\ Counting(p, c)' \in SUBSET Row
    BY DEF Counting
  <2>2. Occupancy(p, c) = Cardinality(Counting(p, c)) /\ Occupancy(p, c)' = Cardinality(Counting(p, c)')
    BY DEF Occupancy, Counting
  <2> QED
    BY <1>0, <1>1, <2>1, <2>2, FiniteRows, AdmissionAssumption DEF ShapeOK
<1>3. CASE Evaluate(p) /\ Takes(p)
  <2>1. /\ Evaluates(p) /\ NextCandidate(p) \in pass[p].page /\ NextCandidate(p) \in Row
        /\ pass[p].step = "EVALUATE" /\ pass'[p].held = pass[p].held
        /\ pass'[p].inserted = pass[p].inserted
    BY <1>0, <1>3, EvaluateDoes, CandidateExists DEF Evaluates, Keeps
  <2>2. capacity' = capacity /\ paused' = paused
    BY <1>3, MovesFreeze DEF Frozen, controls
  <2>3. Occupancy(p, c)' <= Occupancy(p, c) + (IF Matches(c, NextCandidate(p)) THEN 1 ELSE 0)
    BY <1>1, <1>3, CountsAfterTake
  <2>4. CASE Matches(c, NextCandidate(p))
    <3>1. c \in pass[p].known
      BY <1>0, <1>1, <2>1, <2>4 DEF Looked, Matches, Binding
    <3>2. c \in Matching(p, NextCandidate(p))
      BY <2>4, <3>1 DEF Matching
    <3>3. ~paused[c] /\ ~(pass[p].occupancy[c] >= capacity[c])
      BY <1>3, <3>2 DEF Takes, Full
    <3>4. HoldsStage(p, StageOf[c])
      BY <1>0, <2>1, <2>4 DEF Claims, Matches
    <3>5. Occupancy(p, c) <= pass[p].occupancy[c] /\ pass[p].occupancy[c] \in Nat
      BY <1>0, <1>1, <2>1, <3>1, <3>4 DEF Counted, ShapeOK, PassRecord
    <3> QED
      BY <1>2, <2>2, <2>3, <2>4, <3>3, <3>5
  <2>5. CASE ~Matches(c, NextCandidate(p))
    <3>1. r \in pass[p].taken
      BY <1>1, <1>3, <2>5 DEF Takes
    <3>2. c \in Binding(p, r)
      BY <2>1, <1>1 DEF Binding
    <3> QED
      BY <1>0, <1>2, <2>2, <2>3, <2>5, <3>1, <3>2 DEF Respected
  <2> QED
    BY <2>4, <2>5
<1>4. CASE ~(Evaluate(p) /\ Takes(p))
  <2>1. pass'[p].taken \subseteq pass[p].taken /\ r \in pass[p].taken
    BY <1>4, TakenOf
  <2>2. c \in Binding(p, r)
    BY <1>0, <2>1, BindingStays
  <2>3. ~paused[c] /\ Occupancy(p, c) <= capacity[c] /\ c \in pass[p].held
    BY <1>0, <2>1, <2>2 DEF Respected, Binding
  <2>4. capacity'[c] = capacity[c] /\ paused'[c] = paused[c]
    BY <1>0, <1>1, <2>3, ControlsMove
  <2>5. HoldsStage(p, StageOf[c])
    BY <1>0, <1>1, <2>1 DEF Claims, Matches
  <2>6. Occupancy(p, c)' <= Occupancy(p, c)
    BY <1>0, <1>1, <2>1, <2>5, CountsFall
  <2> QED
    BY <1>2, <2>3, <2>4, <2>6
<1> QED
  BY <1>3, <1>4

LEMMA ControlInvInit == Init => ControlInv
<1> SUFFICES ASSUME Init
             PROVE  ControlInv
  OBVIOUS
<1>1. \A p \in Pass : pass[p] = Idle
  BY DEF Init
<1>2. /\ Idle.step = "SCAN" /\ Idle.held = {} /\ Idle.known = {} /\ Idle.taken = {}
  BY DEF Idle
<1> HIDE DEF Idle
<1>3. HeldApart
  BY <1>1, <1>2 DEF HeldApart
<1> QED
  BY <1>1, <1>2, <1>3 DEF ControlInv, Existing, Orderly, Claims, Settled, Looked,
     Covered, Counted, Respected

LEMMA ControlInvStep == RowInv /\ ControlInv /\ [Next]_vars => ControlInv'
<1> SUFFICES ASSUME RowInv, ControlInv, [Next]_vars
             PROVE  ControlInv'
  OBVIOUS
<1>1. HeldApart'
  BY HeldApartStep DEF RowInv, ControlInv
<1>2. ASSUME NEW p \in Pass
      PROVE  /\ Existing(p)' /\ Orderly(p)' /\ Claims(p)' /\ Settled(p)'
             /\ Looked(p)' /\ Covered(p)' /\ Counted(p)' /\ Respected(p)'
  BY ExistingStep, OrderlyStep, ClaimsStep, SettledStep, LookedStep, CoveredStep,
     CountedStep, RespectedStep
<1> QED
  BY <1>1, <1>2 DEF ControlInv

LEMMA ControlsCorrect == Spec => []ControlInv
BY ControlInvInit, ControlInvStep, RowsCorrect, PTL DEF Spec

\* In a circle of first pages each pass waits for a control below the one that
\* its holder waits for, so the one that waits for the greatest is none of it.
THEOREM FirstPagesAreFree == Spec => []FirstPagesDoNotDeadlock
<1>1. RowInv /\ ControlInv => FirstPagesDoNotDeadlock
  <2> SUFFICES ASSUME RowInv, ControlInv,
                      NEW S \in (SUBSET Pass) \ {{}}, Circle(S), \A p \in S : OnFirstPage(p)
               PROVE  FALSE
    BY DEF FirstPagesDoNotDeadlock
  <2> DEFINE T == {NextControl(q) : q \in S}
  <2>1. ASSUME NEW q \in S
        PROVE  /\ q \in Pass /\ Waits(q) /\ OnFirstPage(q)
               /\ NextControl(q) \in pass[q].known \ pass[q].held
               /\ NextControl(q) \in Control
    BY <2>1, NextControlIsLeast DEF Circle, RowInv
  <2>2. T \in SUBSET Control /\ T # {}
    BY <2>1
  <2>3. PICK n \in T : \A m \in T : m <= n
    BY <2>2, Controls
  <2>4. PICK q \in S : n = NextControl(q)
    BY <2>3
  <2>5. PICK h \in S \ {q} : NextControl(q) \in pass[h].held
    BY <2>4 DEF Circle
  <2>6. n < NextControl(h)
    BY <2>1, <2>4, <2>5 DEF ControlInv, Orderly, Waits
  <2>7. NextControl(h) <= n
    BY <2>3, <2>5
  <2>8. n \in Int /\ NextControl(h) \in Int
    BY <2>2, <2>3, <2>5, AdmissionAssumption DEF Control
  <2> QED
    BY <2>6, <2>7, <2>8
<1> QED
  BY <1>1, RowsCorrect, ControlsCorrect, PTL

\* Whatever is admitted was READY, of a stage with an empty selector, and
\* leaves no control that the pass took into account paused or over its
\* capacity at the commit.
THEOREM ControlsAreRespected == Spec => AdmissionsRespectControls
<1> DEFINE A == \A p \in Pass : \A r \in pass[p].taken : Admitted(r) =>
                  /\ state[r] = "READY"
                  /\ \E c \in Wide \cap pass[p].held : StageOf[c] = StageAt[r]
                  /\ \A c \in Binding(p, r) : ~paused[c] /\ CountOf(c)' <= capacity[c]
<1>1. RowInv /\ ControlInv /\ [Next]_vars => A
  <2> SUFFICES ASSUME RowInv, ControlInv, [Next]_vars,
                      NEW p \in Pass, NEW r \in pass[p].taken, Admitted(r)
               PROVE  /\ state[r] = "READY"
                      /\ \E c \in Wide \cap pass[p].held : StageOf[c] = StageAt[r]
                      /\ \A c \in Binding(p, r) : ~paused[c] /\ CountOf(c)' <= capacity[c]
    OBVIOUS
  <2>1. r \in Row /\ r \in pass[p].locked /\ state[r] = "READY"
    BY DEF RowInv, Within, LockedReady, ShapeOK, PassRecord
  <2>2. PICK q \in Pass : r \in pass[q].taken /\ Commit(q)
    BY <2>1, RowsMove DEF EachRow, Stays, Born, Moves, Admitted
  <2>3. q = p
    BY <2>1, <2>2 DEF RowInv, Within, LocksApart
  <2>4. state' = [s \in Row |-> IF s \in pass[p].taken THEN "ADMITTED" ELSE state[s]]
    BY <2>2, <2>3 DEF Commit
  <2>5. HoldsStage(p, StageAt[r])
    BY DEF ControlInv, Claims
  <2>6. ASSUME NEW c \in Binding(p, r)
        PROVE  ~paused[c] /\ CountOf(c)' <= capacity[c]
    <3>1. ~paused[c] /\ Occupancy(p, c) <= capacity[c]
      BY DEF ControlInv, Respected
    <3>2. CountOf(c)' = Occupancy(p, c)
      BY <2>4 DEF CountOf, Occupancy, Matches
    <3> QED
      BY <3>1, <3>2
  <2> QED
    BY <2>1, <2>5, <2>6 DEF HoldsStage
<1> QED
  BY <1>1, RowsCorrect, ControlsCorrect, PTL DEF Spec, AdmissionsRespectControls
=============================================================================
