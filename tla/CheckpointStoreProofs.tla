----------------------- MODULE CheckpointStoreProofs ------------------------
(***************************************************************************)
(* The properties of CheckpointStore for any positions, losses, retention  *)
(* policy and number of generations and crashes.                           *)
(*                                                                         *)
(* The argument: training moves forward, so among the generations on disk  *)
(* the order of the records is that of their numbers (Forward).  The two   *)
(* newest are always there in full (TopTwo), and what a writer prunes is   *)
(* never what the pointers, the keep-set or a reader would select from     *)
(* what is there (PruneInv): selecting gives the same before and after.    *)
(***************************************************************************)
EXTENDS CheckpointStore, FiniteSetTheorems, WellFoundedInduction, TLAPS

\* The run's positions grow with the generations' numbers.
Forward ==
    \A g, h \in Present : g < h => info[g].at <= info[h].at

\* The newest generation is whole, and so is the one before it.
IsTop(n) == n \in Present /\ \A g \in Present : g <= n
TopTwo ==
    \A n \in Generations : IsTop(n) => n \in Whole /\ (n > 1 => n - 1 \in Whole)

\* What a session knows, by where it is.
SessionInv ==
    /\ pc = "closed" => records = Unread
    /\ pc \notin {"closed", "open"} => records # Unread
    /\ records # Unread => IF pc = "prune" THEN records \subseteq Whole ELSE records = Whole
    /\ pc # "prune" => doomed = {}
    /\ pc \in {"rename", "retain"} => saver
    /\ pc = "rename" => MaxGeneration \in Generations \ Present
    /\ pc = "retain" => bound
    /\ bound /\ records # Unread /\ pc # "prune" => Torn = {}

\* While it prunes, nothing of what a selection would find is at stake.
PruneInv ==
    pc = "prune" =>
        /\ doomed # {} /\ doomed \subseteq Present /\ doomed \cap records = {}
        /\ saver
        /\ Whole \subseteq records \cup doomed
        /\ bound => Torn \subseteq doomed
        /\ Protected(Whole) \subseteq records
        /\ bound => KeepSet(Whole) \subseteq records
        /\ keep \subseteq records

\* The pointers, once projected, are what is selected from the directory.
PointerInv ==
    /\ latest # NoGeneration => latest \in Whole
    /\ best # NoGeneration => best \in Whole
    /\ pc = "best" => latest = LastOf(Whole)
    /\ pc \in {"open", "retain", "prune"} /\ records # Unread =>
         latest = LastOf(Whole) /\ best = BestOf(Whole)

KeepInv == (~bound => keep = {}) /\ KeepSetSurvives

\* Under a policy: never more than the plan and the generation being saved; not
\* even that in a trainer's session that has pruned.
RoomInv ==
    /\ stages <= crashes
    /\ bound => Cardinality(Present) <= RetainedUpper + 1
    /\ bound /\ saver /\ records # Unread =>
         /\ pc \in {"open", "rename"} => Cardinality(Present) <= RetainedUpper
         /\ pc = "prune" => Cardinality(records) <= RetainedUpper

\* A reader that has not reported yet has the newest generation ahead of it,
\* unless two were saved since.
ScanInv ==
    /\ scan # Idle => scan.todo # {}
    /\ scan.began # NoGeneration =>
         /\ \E g \in Present : scan.began <= g
         /\ (\A g \in Present : g <= scan.began + 1) => scan.began \in scan.todo

StoreInv ==
    /\ TypeOK
    /\ Forward
    /\ TopTwo
    /\ SessionInv
    /\ PruneInv
    /\ PointerInv
    /\ KeepInv
    /\ RoomInv
    /\ ScanInv

-----------------------------------------------------------------------------
(* Least and greatest. *)

\* A nonempty set of naturals has a least element.
LEMMA LeastNatural ==
    ASSUME NEW T \in SUBSET Nat, T # {}
    PROVE  \E x \in T : \A y \in T : x <= y
<1> DEFINE R == {ss \in Nat \X Nat : ss[1] < ss[2]}
<1>1. IsWellFoundedOn(R, Nat)
  BY NatLessThanWellFounded, Zenon DEF OpToRel
<1>2. PICK x \in T : \A y \in T : ~(<<y, x>> \in R)
  BY <1>1, WFMin
<1>3. \A y \in T : ~(y < x)
  BY <1>2
<1> QED
  BY <1>2, <1>3

\* A nonempty set of generations has a greatest element.
LEMMA GreatestGeneration ==
    ASSUME NEW T \in SUBSET Generations, T # {}
    PROVE  \E x \in T : \A y \in T : y <= x
<1> DEFINE U == {MaxGeneration - x : x \in T}
<1>0. PICK t \in T : TRUE
  OBVIOUS
<1>1. U \in SUBSET Nat /\ U # {}
  <2>1. \A x \in T : MaxGeneration - x \in Nat
    BY CheckpointAssumption DEF Generations
  <2>2. MaxGeneration - t \in U
    BY <1>0
  <2> QED
    BY <2>1, <2>2
<1>2. PICK u \in U : \A v \in U : u <= v
  BY <1>1, LeastNatural
<1>3. PICK x \in T : u = MaxGeneration - x
  OBVIOUS
<1>4. \A y \in T : y <= x
  <2> SUFFICES ASSUME NEW y \in T PROVE y <= x
    OBVIOUS
  <2>1. u <= MaxGeneration - y
    BY <1>2
  <2> QED
    BY <2>1, <1>3, CheckpointAssumption DEF Generations
<1> QED
  BY <1>4

\* What the selections give, for generations on disk.
IsLast(S, g) == IF S = {} THEN g = NoGeneration ELSE g \in S /\ \A h \in S : h <= g
IsFirst(S, g) == IF S = {} THEN g = NoGeneration ELSE g \in S /\ \A h \in S : g <= h
Better(g, h) ==
    \/ info[g].loss < info[h].loss
    \/ info[g].loss = info[h].loss /\ g <= h
IsBest(S, g) ==
    IF \A h \in S : info[h].loss = NoLoss THEN g = NoGeneration
    ELSE /\ g \in S /\ info[g].loss # NoLoss
         /\ \A h \in S : info[h].loss # NoLoss => Better(g, h)

Selects ==
    \A S \in SUBSET Present :
        IsLast(S, LastOf(S)) /\ IsFirst(S, FirstOf(S)) /\ IsBest(S, BestOf(S))

LEMMA ManifestFacts ==
    ASSUME TypeOK, NEW g \in Generations
    PROVE  /\ g \in Nat /\ g >= 1 /\ g <= MaxGeneration
           /\ info[g].at \in Nat
           /\ info[g].loss \in Losses \cup {NoLoss}
<1>1. info[g] \in Manifests
  BY DEF TypeOK
<1>2. info[g].at \in Positions \cup {0} /\ info[g].loss \in Losses \cup {NoLoss}
  BY <1>1 DEF Manifests
<1>3. Positions \subseteq Nat /\ MaxGeneration \in Nat
  BY CheckpointAssumption
<1>4. info[g].at \in Nat
  <2>1. \A p \in Positions \cup {0} : p \in Nat
    BY <1>3
  <2> QED
    BY <1>2, <2>1, Zenon
<1>5. g \in Nat /\ g >= 1 /\ g <= MaxGeneration
  BY <1>3 DEF Generations
<1> QED
  BY <1>2, <1>4, <1>5

LEMMA SelectionsSelect == TypeOK /\ Forward => Selects
<1> SUFFICES ASSUME TypeOK, Forward, NEW S \in SUBSET Present
             PROVE  IsLast(S, LastOf(S)) /\ IsFirst(S, FirstOf(S)) /\ IsBest(S, BestOf(S))
  BY DEF Selects
<1>p. Positions \subseteq Nat /\ Losses \subseteq Nat /\ NoLoss \notin Losses
  BY CheckpointAssumption
<1>i. \A g \in S : /\ g \in Nat /\ info[g].at \in Nat
                   /\ info[g].loss \in Losses \cup {NoLoss}
  BY ManifestFacts DEF Present
<1>f. \A g, h \in S : g < h => info[g].at <= info[h].at
  BY DEF Forward
<1>g. S \in SUBSET Generations
  BY DEF Present
<1>1. CASE S = {}
  BY <1>1 DEF LastOf, FirstOf, BestOf, IsLast, IsFirst, IsBest
<1>2. CASE S # {}
  <2>1. IsLast(S, LastOf(S))
    <3>1. PICK x \in S : \A y \in S : y <= x
      BY <1>2, <1>g, GreatestGeneration
    <3>2. \A h \in S \ {x} : Before(h, x)
      BY <3>1, <1>i, <1>f DEF Before
    <3>3. LastOf(S) \in S /\ \A h \in S \ {LastOf(S)} : Before(h, LastOf(S))
      BY <1>2, <3>2 DEF LastOf
    <3>4. LastOf(S) = x
      BY <3>1, <3>2, <3>3, <1>i DEF Before
    <3> QED
      BY <3>1, <3>4 DEF IsLast
  <2>2. IsFirst(S, FirstOf(S))
    <3>1. PICK x \in S : \A y \in S : x <= y
      BY <1>2, <1>i, LeastNatural
    <3>2. \A h \in S \ {x} : Before(x, h)
      BY <3>1, <1>i, <1>f DEF Before
    <3>3. FirstOf(S) \in S /\ \A h \in S \ {FirstOf(S)} : Before(FirstOf(S), h)
      BY <1>2, <3>2 DEF FirstOf
    <3>4. FirstOf(S) = x
      BY <3>1, <3>2, <3>3, <1>i DEF Before
    <3> QED
      BY <3>1, <3>4 DEF IsFirst
  <2>3. CASE \A h \in S : info[h].loss = NoLoss
    BY <2>1, <2>2, <2>3, <1>2 DEF BestOf, IsBest
  <2>4. CASE ~(\A h \in S : info[h].loss = NoLoss)
    <3> DEFINE E == {g \in S : info[g].loss # NoLoss}
               L == {info[g].loss : g \in E}
    <3>1. E # {} /\ L # {} /\ L \in SUBSET Nat
      BY <2>4, <1>i, <1>p
    <3>2. PICK l \in L : \A k \in L : l <= k
      BY <3>1, LeastNatural
    <3> DEFINE B == {g \in E : info[g].loss = l}
    <3>3. B # {} /\ B \in SUBSET Nat
      BY <3>2, <1>i
    <3>4. PICK x \in B : \A y \in B : x <= y
      BY <3>3, LeastNatural
    <3>5. \A h \in E \ {x} : \/ info[x].loss < info[h].loss
                             \/ info[x].loss = info[h].loss /\ x < h
      <4> SUFFICES ASSUME NEW h \in E \ {x}
                   PROVE  \/ info[x].loss < info[h].loss
                          \/ info[x].loss = info[h].loss /\ x < h
        OBVIOUS
      <4>1. l <= info[h].loss /\ l \in Nat /\ info[h].loss \in Nat /\ info[x].loss = l
        BY <3>2, <3>1
      <4>2. CASE info[h].loss = l
        BY <4>1, <4>2, <3>4, <1>i
      <4> QED
        BY <4>1, <4>2
    <3>6. /\ BestOf(S) \in E
          /\ \A h \in E \ {BestOf(S)} :
                \/ info[BestOf(S)].loss < info[h].loss
                \/ info[BestOf(S)].loss = info[h].loss /\ BestOf(S) < h
      BY <3>1, <3>5 DEF BestOf
    <3>7. IsBest(S, BestOf(S))
      BY <3>6, <1>i, <1>p, <2>4 DEF IsBest, Better
    <3> QED
      BY <2>1, <2>2, <2>4, <3>7, <1>2
  <2> QED
    BY <2>3, <2>4
<1> QED
  BY <1>1, <1>2

\* The same of the directory itself, as the properties use it.
IsPrevious(S, g) == \E l : IsLast(S, l) /\ IsLast(S \ {l}, g)
IsReached(S, m, g) == IsFirst({h \in S : info[h].at >= m}, g)

Selected ==
    /\ IsLast(Whole, LastOf(Whole))
    /\ IsPrevious(Whole, PreviousOf(Whole))
    /\ IsBest(Whole, BestOf(Whole))
    /\ \A m \in Boundaries : IsReached(Whole, m, Reaches(Whole, m))
    /\ IF Present = {} THEN NextGeneration = 1
       ELSE \E n \in Present : IsTop(n) /\ NextGeneration = n + 1

LEMMA DirectorySelects == TypeOK /\ Forward => Selected
<1> SUFFICES ASSUME TypeOK, Forward PROVE Selected
  OBVIOUS
<1>s. Selects
  BY SelectionsSelect
<1>w. Whole \in SUBSET Present /\ Present \in SUBSET Generations
  BY DEF Whole, Present
<1>1. IsLast(Whole, LastOf(Whole)) /\ IsBest(Whole, BestOf(Whole))
  BY <1>s, <1>w DEF Selects
<1>2. IsPrevious(Whole, PreviousOf(Whole))
  <2>1. Whole \ {LastOf(Whole)} \in SUBSET Present
    BY <1>w
  <2> QED
    BY <1>1, <1>s, <2>1 DEF IsPrevious, PreviousOf, Selects
<1>3. ASSUME NEW m \in Boundaries PROVE IsReached(Whole, m, Reaches(Whole, m))
  <2>1. {h \in Whole : info[h].at >= m} \in SUBSET Present
    BY <1>w
  <2> QED
    BY <1>s, <2>1 DEF IsReached, Reaches, Selects
<1>4. IF Present = {} THEN NextGeneration = 1
      ELSE \E n \in Present : IsTop(n) /\ NextGeneration = n + 1
  <2>1. CASE Present = {}
    BY <2>1 DEF NextGeneration
  <2>2. CASE Present # {}
    <3>1. PICK n \in Present : \A g \in Present : g <= n
      BY <2>2, <1>w, GreatestGeneration
    <3>2. \A g \in Present : g \in Nat /\ g >= 1 /\ g <= MaxGeneration
      BY ManifestFacts, <1>w
    <3>3. n + 1 \in 1..(MaxGeneration + 1) /\ (n + 1) - 1 = n
      BY <3>2, CheckpointAssumption
    <3>4. \A g \in Present : g < n + 1
      BY <3>1, <3>2
    <3>5. \A k \in 1..(MaxGeneration + 1) :
            (k - 1 \in Present /\ \A g \in Present : g < k) => k = n + 1
      BY <3>1, <3>2
    <3>6. NextGeneration = n + 1
      <4> DEFINE P(k) == k - 1 \in Present /\ \A g \in Present : g < k
      <4>1. P(n + 1)
        BY <3>3, <3>4
      <4>2. NextGeneration = CHOOSE k \in 1..(MaxGeneration + 1) : P(k)
        BY <2>2 DEF NextGeneration
      <4> QED
        BY <4>1, <4>2, <3>3, <3>5
    <3> QED
      BY <2>2, <3>1, <3>6 DEF IsTop
  <2> QED
    BY <2>1, <2>2
<1> QED
  BY <1>1, <1>2, <1>3, <1>4 DEF Selected

LEMMA DirectorySelectsNext == TypeOK' /\ Forward' => Selected'
BY DirectorySelects, PTL

-----------------------------------------------------------------------------
(* What the writer does to the directory. *)

\* Taking away generations that are not selected changes no selection.
LEMMA SelectionKept ==
    ASSUME TypeOK, TypeOK', Selected, Selected',
           Whole' \subseteq Whole, \A g \in Whole' : info'[g] = info[g],
           Protected(Whole) \subseteq Whole'
    PROVE  /\ LastOf(Whole)' = LastOf(Whole)
           /\ PreviousOf(Whole)' = PreviousOf(Whole)
           /\ BestOf(Whole)' = BestOf(Whole)
           /\ \A m \in Boundaries : Reaches(Whole, m) \in Whole' \cup {NoGeneration} =>
                Reaches(Whole, m)' = Reaches(Whole, m)
<1>w. \A g \in Whole : /\ g \in Nat /\ g # NoGeneration
                       /\ info[g].at \in Nat /\ info[g].loss \in Losses \cup {NoLoss}
  BY ManifestFacts DEF Whole, NoGeneration
<1>p. \A g \in {LastOf(Whole), PreviousOf(Whole), BestOf(Whole)} :
        g # NoGeneration => g \in Whole'
  BY DEF Protected
<1>1. LastOf(Whole)' = LastOf(Whole)
  <2>1. IsLast(Whole, LastOf(Whole)) /\ IsLast(Whole', LastOf(Whole)')
    BY DEF Selected, IsLast
  <2> QED
    BY <1>w, <1>p, <2>1 DEF IsLast
<1>2. PreviousOf(Whole)' = PreviousOf(Whole)
  <2>1. PICK l : IsLast(Whole, l) /\ IsLast(Whole \ {l}, PreviousOf(Whole))
    BY DEF Selected, IsPrevious
  <2>2. PICK k : IsLast(Whole', k) /\ IsLast(Whole' \ {k}, PreviousOf(Whole)')
    BY DEF Selected, IsPrevious, IsLast
  <2>3. l = LastOf(Whole) /\ k = LastOf(Whole)
    <3>1. IsLast(Whole, LastOf(Whole)) /\ IsLast(Whole', LastOf(Whole))
      BY <1>1 DEF Selected, IsLast
    <3> QED
      BY <1>w, <2>1, <2>2, <3>1 DEF IsLast
  <2> QED
    BY <1>w, <1>p, <2>1, <2>2, <2>3 DEF IsLast
<1>3. BestOf(Whole)' = BestOf(Whole)
  <2>1. IsBest(Whole, BestOf(Whole)) /\ IsBest(Whole, BestOf(Whole))'
    BY DEF Selected
  <2>2. CASE \A h \in Whole : info[h].loss = NoLoss
    BY <2>1, <2>2 DEF IsBest
  <2>3. CASE ~\A h \in Whole : info[h].loss = NoLoss
    <3>1. /\ BestOf(Whole) \in Whole /\ info[BestOf(Whole)].loss # NoLoss
          /\ \A h \in Whole : info[h].loss # NoLoss => Better(BestOf(Whole), h)
      BY <2>1, <2>3 DEF IsBest
    <3>2. BestOf(Whole) \in Whole'
      BY <1>p, <1>w, <3>1
    <3>3. /\ BestOf(Whole)' \in Whole' /\ info[BestOf(Whole)'].loss # NoLoss
          /\ \A h \in Whole' : info[h].loss # NoLoss =>
               \/ info[BestOf(Whole)'].loss < info[h].loss
               \/ info[BestOf(Whole)'].loss = info[h].loss /\ BestOf(Whole)' <= h
      BY <2>1, <3>1, <3>2 DEF IsBest, Better
    <3> DEFINE b == BestOf(Whole)
               c == BestOf(Whole)'
    <3>4. /\ b \in Whole /\ c \in Whole
          /\ info[b].loss < info[c].loss \/ (info[b].loss = info[c].loss /\ b <= c)
          /\ info[c].loss < info[b].loss \/ (info[c].loss = info[b].loss /\ c <= b)
      BY <3>1, <3>2, <3>3 DEF Better
    <3>5. info[b].loss \in Nat /\ info[c].loss \in Nat /\ b \in Nat /\ c \in Nat
      BY <3>1, <3>3, <3>4, <1>w, CheckpointAssumption
    <3> QED
      BY <3>4, <3>5
  <2> QED
    BY <2>2, <2>3
<1>4. ASSUME NEW m \in Boundaries, Reaches(Whole, m) \in Whole' \cup {NoGeneration}
      PROVE  Reaches(Whole, m)' = Reaches(Whole, m)
  <2> DEFINE R == {h \in Whole : info[h].at >= m}
             Q == {h \in Whole' : info[h].at >= m}
             r == Reaches(Whole, m)
             q == Reaches(Whole, m)'
  <2>1. IsFirst(R, r)
    BY DEF Selected, IsReached
  <2>2. IsFirst(Q, q)
    <3>1. IsReached(Whole, m, Reaches(Whole, m))'
      BY DEF Selected
    <3>2. {h \in Whole' : info'[h].at >= m} = Q
      OBVIOUS
    <3>3. IsFirst({h \in Whole' : info'[h].at >= m}, q)
      BY <3>1 DEF IsReached, IsFirst
    <3> QED
      BY <3>2, <3>3
  <2>3. Q \subseteq R /\ (r \in R => r \in Q) /\ \A g \in R : g \in Nat /\ g # NoGeneration
    BY <1>4, <1>w
  <2> HIDE DEF R, Q, r, q
  <2>4. q = r
    BY <2>1, <2>2, <2>3 DEF IsFirst
  <2> QED
    BY <2>4 DEF r, q
<1> QED
  BY <1>1, <1>2, <1>3, <1>4

\* The rename adds a generation that is newer than all there are.
Added(n, at, loss) ==
    /\ n \in Generations \ Present
    /\ \A g \in Present : g < n /\ info[g].at <= at
    /\ IF Present = {} THEN n = 1 ELSE IsTop(n - 1)
    /\ Present' = Present \cup {n}
    /\ Whole' = Whole \cup {n}
    /\ Torn' = Torn
    /\ info' = [info EXCEPT ![n] = [at |-> at, loss |-> loss]]

\* Pruning tears a generation that nothing selects ...
Tears(n) ==
    /\ n \in doomed \cap Whole
    /\ Present' = Present
    /\ Whole' = Whole \ {n}
    /\ Torn' = Torn \cup {n}
    /\ info' = info

\* ... and removes what it has torn.
Removes(n) ==
    /\ n \in doomed \cap Torn
    /\ Present' = Present \ {n}
    /\ Whole' = Whole
    /\ Torn' = Torn \ {n}
    /\ info' = [info EXCEPT ![n] = NoInfo]

LEMMA FinalizeAdds ==
    ASSUME StoreInv, NEW at \in Positions, NEW loss \in Losses \cup {NoLoss}, Finalize(at, loss)
    PROVE  Added(NextGeneration, at, loss)
<1> DEFINE n == NextGeneration
<1>s. Selected
  BY DirectorySelects DEF StoreInv
<1>g. \A g \in Present : g \in Nat /\ g >= 1 /\ g <= MaxGeneration /\ info[g].at \in Nat
  BY ManifestFacts DEF StoreInv, Present
<1>m. MaxGeneration \in Generations \ Present /\ records = Whole
  BY DEF Finalize, StoreInv, SessionInv
<1>a. at \in Nat
  BY CheckpointAssumption
<1>1. CASE Present = {}
  <2>1. n = 1 /\ n \in Generations
    BY <1>1, <1>s, <1>m DEF Selected, Generations
  <2> QED
    BY <1>1, <2>1 DEF Added, Finalize, Present, Whole, Torn, StoreInv, TypeOK
<1>2. CASE Present # {}
  <2>1. PICK t \in Present : IsTop(t) /\ n = t + 1
    BY <1>2, <1>s DEF Selected
  <2>2. t \in Generations /\ t # MaxGeneration /\ t \in Nat
    BY <1>g, <1>m DEF Present
  <2>3. n \in Generations \ Present
    <3>1. n \in Generations
      BY <2>1, <2>2, CheckpointAssumption DEF Generations
    <3>2. n \notin Present
      BY <2>1, <2>2 DEF IsTop
    <3> QED
      BY <3>1, <3>2
  <2>4. t \in Whole
    BY <2>1, <2>2 DEF StoreInv, TopTwo
  <2>5. LastOf(records) = t
    <3>1. IsLast(Whole, LastOf(records))
      BY <1>m, <1>s DEF Selected
    <3>2. \A g \in Whole : g \in Present
      BY DEF Whole, Present
    <3> QED
      BY <3>1, <3>2, <2>4, <2>1, <1>g DEF IsLast, IsTop
  <2>6. at >= info[t].at
    BY <2>4, <2>5, <1>m DEF Finalize
  <2>7. \A g \in Present : g < n /\ info[g].at <= at
    <3> SUFFICES ASSUME NEW g \in Present PROVE g < n /\ info[g].at <= at
      OBVIOUS
    <3>1. g <= t
      BY <2>1 DEF IsTop
    <3>2. info[g].at <= info[t].at
      BY <3>1, <2>1, <1>g DEF StoreInv, Forward
    <3> QED
      BY <3>1, <3>2, <2>1, <2>6, <1>g, <1>a
  <2>8. IsTop(n - 1)
    <3>1. n - 1 = t
      BY <2>1, <2>2
    <3> QED
      BY <2>1, <3>1
  <2> QED
    BY <1>2, <2>3, <2>7, <2>8 DEF Added, Finalize, Present, Whole, Torn, StoreInv, TypeOK
<1> QED
  BY <1>1, <1>2

LEMMA PruningFirst ==
    ASSUME StoreInv, pc = "prune"
    PROVE  FirstOf(doomed) \in doomed /\ FirstOf(doomed) \in Generations
<1>1. Selects
  BY SelectionsSelect DEF StoreInv
<1>2. doomed \in SUBSET Present /\ doomed # {}
  BY DEF StoreInv, PruneInv
<1>3. IsFirst(doomed, FirstOf(doomed))
  BY <1>1, <1>2 DEF Selects
<1> QED
  BY <1>2, <1>3 DEF IsFirst, Present

LEMMA UnlinkTears ==
    ASSUME StoreInv, Unlink PROVE Tears(FirstOf(doomed))
<1>1. FirstOf(doomed) \in doomed /\ FirstOf(doomed) \in Generations
  BY PruningFirst DEF Unlink
<1> QED
  BY <1>1 DEF Unlink, Tears, Present, Whole, Torn, StoreInv, TypeOK

LEMMA RemoveRemoves ==
    ASSUME StoreInv, RemoveDirectory PROVE Removes(FirstOf(doomed))
<1>1. FirstOf(doomed) \in doomed /\ FirstOf(doomed) \in Generations
  BY PruningFirst DEF RemoveDirectory
<1> QED
  BY <1>1 DEF RemoveDirectory, Removes, Present, Whole, Torn, StoreInv, TypeOK

\* No other step touches a generation.
LEMMA DirectorySteps ==
    ASSUME StoreInv, [Next]_vars
    PROVE  \/ UNCHANGED <<disk, info>>
           \/ \E at \in Positions, loss \in Losses \cup {NoLoss} : Finalize(at, loss)
           \/ Unlink
           \/ RemoveDirectory
BY DEF Next, Open, Close, Reconcile, Save, Abort, ProjectLatest, ProjectBest, PublishRetention,
       Crash, ScanStart, ScanNext, directory, vars

\* What is kept is there.
LEMMA KeepSetIsThere ==
    ASSUME TypeOK, Forward
    PROVE  Protected(Whole) \subseteq Whole /\ KeepSet(Whole) \subseteq Whole
<1>1. Selected
  BY DirectorySelects
<1>2. LastOf(Whole) \in Whole \cup {NoGeneration} /\ BestOf(Whole) \in Whole \cup {NoGeneration}
  BY <1>1 DEF Selected, IsLast, IsBest
<1>3. PreviousOf(Whole) \in Whole \cup {NoGeneration}
  BY <1>1 DEF Selected, IsPrevious, IsLast
<1>4. \A m \in Boundaries : Reaches(Whole, m) \in Whole \cup {NoGeneration}
  BY <1>1 DEF Selected, IsReached, IsFirst
<1> QED
  BY <1>2, <1>3, <1>4 DEF Protected, KeepSet

-----------------------------------------------------------------------------
(* Every step keeps the invariant, part by part. *)

LEMMA RecordsSelect ==
    ASSUME StoreInv, records # Unread
    PROVE  /\ records \in SUBSET Generations /\ records \subseteq Present
           /\ IsLast(records, LastOf(records))
           /\ IsBest(records, BestOf(records))
<1>1. Selects
  BY SelectionsSelect DEF StoreInv
<1>2. records \in SUBSET Whole
  BY DEF StoreInv, SessionInv
<1>3. records \in SUBSET Present /\ records \in SUBSET Generations
  BY <1>2 DEF Whole, Present
<1> QED
  BY <1>1, <1>3 DEF Selects

\* The type invariant, for every step.
LEMMA TypesKept == StoreInv /\ [Next]_vars => TypeOK'
<1> SUFFICES ASSUME StoreInv, [Next]_vars PROVE TypeOK'
  OBVIOUS
<1>t. TypeOK
  BY DEF StoreInv
<1>1. ASSUME NEW saves \in BOOLEAN, NEW declares \in BOOLEAN, Open(saves, declares) PROVE TypeOK'
  BY <1>t, <1>1 DEF TypeOK, Open
<1>2. CASE Close
  BY <1>t, <1>2 DEF TypeOK, Close, EndSession, directory
<1>3. CASE Reconcile
  <2>1. Whole \in SUBSET Generations
    BY DEF Whole
  <2> QED
    BY <1>t, <1>3, <2>1 DEF TypeOK, Reconcile, EndSession, directory
<1>4. CASE Save
  BY <1>t, <1>4 DEF TypeOK, Save, EndSession, directory
<1>5. CASE Abort
  BY <1>t, <1>5 DEF TypeOK, Abort, EndSession, directory
<1>6. ASSUME NEW at \in Positions, NEW loss \in Losses \cup {NoLoss}, Finalize(at, loss)
      PROVE TypeOK'
  <2>1. Added(NextGeneration, at, loss)
    BY <1>6, FinalizeAdds
  <2>2. NextGeneration \in Generations
    BY <2>1 DEF Added
  <2>3. records \in SUBSET Generations
    BY <1>6, RecordsSelect DEF Finalize, StoreInv, SessionInv
  <2>4. [at |-> at, loss |-> loss] \in Manifests
    BY DEF Manifests
  <2> QED
    BY <1>t, <1>6, <2>2, <2>3, <2>4 DEF TypeOK, Finalize
<1>7. CASE ProjectLatest
  <2>1. records # Unread
    BY <1>7 DEF ProjectLatest, StoreInv, SessionInv
  <2>2. LastOf(records) \in Generations \cup {NoGeneration}
    BY <2>1, RecordsSelect DEF IsLast
  <2> QED
    BY <1>t, <1>7, <2>2 DEF TypeOK, ProjectLatest, EndSession
<1>8. CASE ProjectBest
  <2>1. records # Unread
    BY <1>8 DEF ProjectBest, StoreInv, SessionInv
  <2>2. BestOf(records) \in Generations \cup {NoGeneration} /\ records \in SUBSET Generations
    BY <2>1, RecordsSelect DEF IsBest
  <2> QED
    BY <1>t, <1>8, <2>2 DEF TypeOK, ProjectBest, StartPruning
<1>9. CASE PublishRetention
  <2>1. records # Unread /\ records = Whole
    BY <1>9 DEF PublishRetention, StoreInv, SessionInv
  <2>2. records \in SUBSET Generations
    BY <2>1, RecordsSelect
  <2>3. KeepSet(records) \in SUBSET Generations
    BY <2>1, KeepSetIsThere DEF StoreInv, Whole
  <2> QED
    BY <1>t, <1>9, <2>2, <2>3 DEF TypeOK, PublishRetention, StartPruning
<1>10. CASE Unlink
  BY <1>t, <1>10 DEF TypeOK, Unlink, session
<1>11. CASE RemoveDirectory
  <2>1. NoInfo \in Manifests
    BY DEF NoInfo, Manifests
  <2> QED
    BY <1>t, <1>11, <2>1 DEF TypeOK, RemoveDirectory
<1>12. CASE Crash
  <2>1. stages <= crashes
    BY DEF StoreInv, RoomInv
  <2>2. stages' \in 0..MaxCrashes /\ crashes' \in 0..MaxCrashes
    BY <1>t, <1>12, <2>1, CheckpointAssumption DEF TypeOK, Crash
  <2> QED
    BY <1>t, <1>12, <2>2 DEF TypeOK, Crash, EndSession
<1>13. CASE ScanStart
  <2>1. LastOf(Whole) \in Generations \cup {NoGeneration}
    BY DirectorySelects DEF StoreInv, Selected, IsLast, Whole
  <2>2. Present \in SUBSET Generations
    BY DEF Present
  <2> QED
    BY <1>t, <1>13, <2>1, <2>2 DEF TypeOK, ScanStart, directory, session
<1>14. CASE ScanNext
  <2>1. scan' \in [todo : SUBSET Generations, began : Generations \cup {NoGeneration}]
    BY <1>t, <1>14 DEF TypeOK, ScanNext, Idle
  <2> QED
    BY <1>t, <1>14, <2>1 DEF TypeOK, ScanNext, directory, session
<1>15. CASE UNCHANGED vars
  BY <1>t, <1>15 DEF TypeOK, vars, directory, session
<1> QED
  BY <1>1, <1>2, <1>3, <1>4, <1>5, <1>6, <1>7, <1>8, <1>9, <1>10, <1>11, <1>12, <1>13, <1>14,
     <1>15 DEF Next

\* The two newest generations are protected.
LEMMA TopIsProtected ==
    ASSUME StoreInv, NEW k \in Generations, IsTop(k)
    PROVE  k \in Protected(Whole) /\ (k > 1 => k - 1 \in Protected(Whole))
<1>s. Selected
  BY DirectorySelects DEF StoreInv
<1>g. /\ \A g \in Whole : g \in Nat /\ g # NoGeneration /\ g <= k
      /\ k \in Nat /\ k # NoGeneration
  BY ManifestFacts DEF StoreInv, Whole, Present, NoGeneration, IsTop
<1>k. k \in Whole /\ (k > 1 => k - 1 \in Whole)
  BY DEF StoreInv, TopTwo
<1>l. ASSUME NEW l, IsLast(Whole, l) PROVE l = k
  <2>1. l \in Whole /\ k <= l
    BY <1>l, <1>k DEF IsLast
  <2>2. l \in Nat /\ l <= k
    BY <2>1, <1>g
  <2> QED
    BY <2>1, <2>2, <1>g
<1>1. LastOf(Whole) = k
  BY <1>s, <1>l DEF Selected
<1>2. ASSUME k > 1 PROVE PreviousOf(Whole) = k - 1
  <2>1. PICK l : IsLast(Whole, l) /\ IsLast(Whole \ {l}, PreviousOf(Whole))
    BY <1>s DEF Selected, IsPrevious
  <2>2. l = k
    BY <2>1, <1>l
  <2>3. k - 1 \in Whole \ {k}
    BY <1>2, <1>k, <1>g
  <2>4. PreviousOf(Whole) \in Whole \ {k} /\ k - 1 <= PreviousOf(Whole)
    BY <2>1, <2>2, <2>3 DEF IsLast
  <2> QED
    BY <2>4, <1>g
<1> QED
  BY <1>1, <1>2, <1>g, <1>k DEF Protected

\* Forward and TopTwo, for every step.
LEMMA OrderKept == StoreInv /\ [Next]_vars => Forward' /\ TopTwo'
<1> SUFFICES ASSUME StoreInv, [Next]_vars PROVE Forward' /\ TopTwo'
  OBVIOUS
<1>g. \A g \in Generations : g \in Nat /\ g >= 1 /\ info[g].at \in Nat
  BY ManifestFacts DEF StoreInv
<1>p. Present \subseteq Generations /\ Whole \subseteq Present /\ Torn \subseteq Present
  BY DEF Present, Whole, Torn
<1>q. Present' \subseteq Generations
  BY DEF Present
<1>i. Forward /\ TopTwo /\ info \in [Generations -> Manifests]
  BY DEF StoreInv, TypeOK
<1>1. CASE UNCHANGED <<disk, info>>
  <2>1. Present' = Present /\ Whole' = Whole
    BY <1>1 DEF Present, Whole
  <2> QED
    BY <1>1, <1>i, <2>1 DEF Forward, TopTwo, IsTop
<1>2. ASSUME NEW at \in Positions, NEW loss \in Losses \cup {NoLoss}, Finalize(at, loss)
      PROVE  Forward' /\ TopTwo'
  <2>1. PICK n \in Generations : Added(n, at, loss)
    BY <1>2, FinalizeAdds DEF Added
  <2>2. at \in Nat
    BY CheckpointAssumption
  <2>3. \A g \in Present : info'[g] = info[g] /\ g # n
    BY <2>1, <1>p, <1>i DEF Added
  <2>4. info'[n].at = at /\ Present' = Present \cup {n} /\ Whole' = Whole \cup {n}
    BY <2>1, <1>i DEF Added
  <2>5. Forward'
    <3> SUFFICES ASSUME NEW g \in Present', NEW h \in Present', g < h
                 PROVE  info'[g].at <= info'[h].at
      BY DEF Forward
    <3>1. \A k \in Present : k < n /\ info[k].at <= at
      BY <2>1 DEF Added
    <3>2. CASE g = n
      <4>1. h = n \/ h < n
        BY <2>4, <3>1
      <4> QED
        BY <3>2, <4>1, <1>q, <1>g
    <3>3. CASE g # n /\ h = n
      BY <3>1, <3>3, <2>3, <2>4
    <3>4. CASE g # n /\ h # n
      BY <3>4, <2>3, <2>4, <1>i DEF Forward
    <3> QED
      BY <3>2, <3>3, <3>4
  <2>6. TopTwo'
    <3> SUFFICES ASSUME NEW k \in Generations, k \in Present', \A g \in Present' : g <= k
                 PROVE  k \in Whole' /\ (k > 1 => k - 1 \in Whole')
      BY DEF TopTwo, IsTop
    <3>1. k = n
      BY <2>1, <2>4, <1>g, <1>p DEF Added
    <3>2. n > 1 => n - 1 \in Whole
      <4> SUFFICES ASSUME n > 1 PROVE n - 1 \in Whole
        OBVIOUS
      <4>1. IsTop(n - 1)
        BY <2>1, <1>g DEF Added
      <4>2. n - 1 \in Generations
        BY <4>1, <1>p DEF IsTop
      <4> QED
        BY <4>1, <4>2, <1>i DEF TopTwo
    <3> QED
      BY <3>1, <3>2, <2>4
  <2> QED
    BY <2>5, <2>6
<1>3. CASE Unlink
  <2>1. PICK n : Tears(n) /\ n \in doomed
    BY <1>3, UnlinkTears DEF Tears
  <2>2. n \notin Protected(Whole)
    BY <2>1, <1>3 DEF StoreInv, PruneInv, Unlink
  <2>3. Present' = Present /\ Whole' = Whole \ {n} /\ info' = info
    BY <2>1 DEF Tears
  <2>4. TopTwo'
    <3> SUFFICES ASSUME NEW k \in Generations, k \in Present', \A g \in Present' : g <= k
                 PROVE  k \in Whole' /\ (k > 1 => k - 1 \in Whole')
      BY DEF TopTwo, IsTop
    <3>1. IsTop(k)
      BY <2>3 DEF IsTop
    <3>2. k \in Protected(Whole) /\ (k > 1 => k - 1 \in Protected(Whole))
      BY <3>1, TopIsProtected
    <3>3. k \in Whole /\ (k > 1 => k - 1 \in Whole)
      BY <3>1, <1>i DEF TopTwo
    <3> QED
      BY <2>2, <2>3, <3>2, <3>3
  <2> QED
    BY <2>3, <2>4, <1>i DEF Forward
<1>4. CASE RemoveDirectory
  <2>1. PICK n : Removes(n) /\ n \in Torn
    BY <1>4, RemoveRemoves DEF Removes
  <2>2. Present' = Present \ {n} /\ Whole' = Whole /\ \A g \in Present' : info'[g] = info[g]
    BY <2>1, <1>p, <1>i DEF Removes
  <2>3. Forward'
    BY <2>2, <1>i DEF Forward
  <2>4. TopTwo'
    <3> SUFFICES ASSUME NEW k \in Generations, k \in Present', \A g \in Present' : g <= k
                 PROVE  k \in Whole' /\ (k > 1 => k - 1 \in Whole')
      BY DEF TopTwo, IsTop
    <3>1. PICK t \in Present : IsTop(t)
      BY <2>2, DirectorySelects DEF StoreInv, Selected
    <3>2. t \in Whole /\ t # n
      BY <2>1, <3>1, <1>p, <1>i DEF TopTwo, Torn, Whole
    <3>3. IsTop(k)
      BY <3>1, <3>2, <2>2, <1>p, <1>g DEF IsTop
    <3> QED
      BY <3>3, <2>2, <1>i DEF TopTwo
  <2> QED
    BY <2>3, <2>4
<1> QED
  BY <1>1, <1>2, <1>3, <1>4, DirectorySteps

\* Only the rename moves a selection.
LEMMA OnlyRenameMoves ==
    ASSUME StoreInv, [Next]_vars,
           ~\E at \in Positions, loss \in Losses \cup {NoLoss} : Finalize(at, loss)
    PROVE  /\ Whole' \subseteq Whole /\ \A g \in Whole' : info'[g] = info[g]
           /\ LastOf(Whole)' = LastOf(Whole)
           /\ BestOf(Whole)' = BestOf(Whole)
           /\ Protected(Whole)' = Protected(Whole)
           /\ Protected(Whole) \subseteq Whole'
           /\ bound => /\ KeepSet(Whole)' = KeepSet(Whole)
                       /\ \A m \in Boundaries : Reaches(Whole, m)' = Reaches(Whole, m)
<1>t. TypeOK /\ TypeOK' /\ Forward /\ Forward'
  BY TypesKept, OrderKept DEF StoreInv
<1>s. Selected /\ Selected'
  BY <1>t, DirectorySelects, DirectorySelectsNext
<1>k. Protected(Whole) \subseteq Whole /\ KeepSet(Whole) \subseteq Whole
  BY <1>t, KeepSetIsThere
<1>i. info \in [Generations -> Manifests] /\ Whole \subseteq Generations
  BY <1>t DEF TypeOK, Whole
<1>1. /\ Whole' \subseteq Whole /\ \A g \in Whole' : info'[g] = info[g]
      /\ Protected(Whole) \subseteq Whole'
      /\ bound => KeepSet(Whole) \subseteq Whole'
  <2>1. CASE UNCHANGED <<disk, info>>
    <3>1. Whole' = Whole
      BY <2>1 DEF Whole
    <3> QED
      BY <2>1, <3>1, <1>k
  <2>2. CASE Unlink
    <3>1. PICK n : Tears(n)
      BY <2>2, UnlinkTears
    <3>2. n \in doomed /\ Whole' = Whole \ {n} /\ info' = info
      BY <3>1 DEF Tears
    <3>3. /\ doomed \cap records = {} /\ Protected(Whole) \subseteq records
          /\ bound => KeepSet(Whole) \subseteq records
      BY <2>2 DEF StoreInv, PruneInv, Unlink
    <3> QED
      BY <3>2, <3>3, <1>k
  <2>3. CASE RemoveDirectory
    <3>1. PICK n : Removes(n)
      BY <2>3, RemoveRemoves
    <3>2. n \notin Whole /\ Whole' = Whole
      BY <3>1 DEF Removes, Torn, Whole
    <3>3. \A g \in Whole' : info'[g] = info[g]
      BY <3>1, <3>2, <1>i DEF Removes
    <3> QED
      BY <3>2, <3>3, <1>k
  <2> QED
    BY <2>1, <2>2, <2>3, DirectorySteps
<1>2. /\ LastOf(Whole)' = LastOf(Whole)
      /\ PreviousOf(Whole)' = PreviousOf(Whole)
      /\ BestOf(Whole)' = BestOf(Whole)
      /\ \A m \in Boundaries : Reaches(Whole, m) \in Whole' \cup {NoGeneration} =>
           Reaches(Whole, m)' = Reaches(Whole, m)
  BY <1>1, <1>s, <1>t, SelectionKept
<1>3. Protected(Whole)' = Protected(Whole)
  BY <1>2 DEF Protected
<1>4. ASSUME bound, NEW m \in Boundaries PROVE Reaches(Whole, m)' = Reaches(Whole, m)
  <2>1. Reaches(Whole, m) \in KeepSet(Whole) \cup {NoGeneration}
    BY DEF KeepSet
  <2> QED
    BY <1>1, <1>2, <1>4, <2>1
<1>5. ASSUME bound PROVE KeepSet(Whole)' = KeepSet(Whole)
  BY <1>3, <1>4, <1>5 DEF KeepSet
<1> QED
  BY <1>1, <1>2, <1>3, <1>4, <1>5

\* SessionInv, for every step.
LEMMA SessionKept == StoreInv /\ [Next]_vars => SessionInv'
<1> SUFFICES ASSUME StoreInv, [Next]_vars PROVE SessionInv'
  OBVIOUS
<1>i. SessionInv /\ PruneInv
  BY DEF StoreInv
<1>u. \A S \in SUBSET Generations : S # Unread
  BY DEF Unread, Generations, NoGeneration
<1>w. Whole \in SUBSET Generations
  BY DEF Whole
<1> USE DEF SessionInv
<1>d. ASSUME UNCHANGED disk PROVE Whole' = Whole /\ Torn' = Torn /\ Present' = Present
  BY <1>d DEF Whole, Torn, Present
<1>1. ASSUME NEW saves \in BOOLEAN, NEW declares \in BOOLEAN, Open(saves, declares)
      PROVE SessionInv'
  BY <1>i, <1>1 DEF Open, PruneInv
<1>2. CASE Close \/ Abort \/ Crash
  BY <1>i, <1>2 DEF Close, Abort, Crash, EndSession
<1>3. CASE Reconcile
  BY <1>i, <1>3, <1>d, <1>u, <1>w DEF Reconcile, EndSession, Refused, directory
<1>4. CASE Save
  <2>1. MaxGeneration \in Generations \ Present
    <3>1. Selected
      BY DirectorySelects DEF StoreInv
    <3>2. NextGeneration <= MaxGeneration /\ MaxGeneration \in Nat
      BY <1>4, CheckpointAssumption DEF Save
    <3>3. CASE Present = {}
      BY <3>1, <3>2, <3>3 DEF Selected, Generations
    <3>4. CASE Present # {}
      <4>1. PICK n \in Present : IsTop(n) /\ NextGeneration = n + 1
        BY <3>1, <3>4 DEF Selected
      <4>2. n \in Generations
        BY DEF Present
      <4> QED
        BY <4>1, <4>2, <3>2 DEF Generations, IsTop
    <3> QED
      BY <3>3, <3>4
  <2> QED
    BY <1>i, <1>4, <1>d, <2>1 DEF Save, EndSession, directory
<1>5. ASSUME NEW at \in Positions, NEW loss \in Losses \cup {NoLoss}, Finalize(at, loss)
      PROVE SessionInv'
  <2>1. Whole' = Whole \cup {NextGeneration} /\ Torn' = Torn /\ NextGeneration \in Generations
    BY <1>5, FinalizeAdds DEF Added
  <2> QED
    BY <1>i, <1>5, <1>u, <1>w, <2>1 DEF Finalize
<1>6. CASE ProjectLatest
  BY <1>i, <1>6, <1>d DEF ProjectLatest, EndSession
<1>7. CASE ProjectBest
  <2>1. records \in SUBSET Generations /\ Protected(records) \cap records \in SUBSET Generations
    BY <1>7, RecordsSelect DEF ProjectBest, StoreInv
  <2> QED
    BY <1>i, <1>7, <1>d, <1>u, <2>1 DEF ProjectBest, StartPruning
<1>8. CASE PublishRetention
  <2>1. records \in SUBSET Generations /\ KeepSet(records) \cap records \in SUBSET Generations
    BY <1>8, RecordsSelect DEF PublishRetention, StoreInv
  <2> QED
    BY <1>i, <1>8, <1>d, <1>u, <2>1 DEF PublishRetention, StartPruning
<1>9. CASE Unlink
  <2>1. PICK n : Tears(n)
    BY <1>9, UnlinkTears
  <2>2. n \in doomed /\ Whole' = Whole \ {n}
    BY <2>1 DEF Tears
  <2> QED
    BY <1>i, <1>9, <2>2 DEF Unlink, session, PruneInv
<1>10. CASE RemoveDirectory
  <2>1. PICK n : Removes(n) /\ n = FirstOf(doomed)
    BY <1>10, RemoveRemoves
  <2>2. n \in doomed /\ Whole' = Whole /\ Torn' = Torn \ {n} /\ n \notin Whole
    BY <2>1 DEF Removes, Torn, Whole
  <2> QED
    BY <1>i, <1>10, <2>1, <2>2 DEF RemoveDirectory, PruneInv
<1>11. CASE ScanStart \/ ScanNext \/ UNCHANGED vars
  BY <1>i, <1>11, <1>d DEF ScanStart, ScanNext, vars, directory, session
<1> QED
  BY <1>1, <1>2, <1>3, <1>4, <1>5, <1>6, <1>7, <1>8, <1>9, <1>10, <1>11 DEF Next

\* PruneInv, for every step.
LEMMA PruningKept == StoreInv /\ [Next]_vars => PruneInv'
<1> SUFFICES ASSUME StoreInv, [Next]_vars, pc' = "prune" PROVE PruneInv'
  BY DEF PruneInv
<1>i. SessionInv /\ PruneInv /\ KeepInv
  BY DEF StoreInv
<1>f. ~\E at \in Positions, loss \in Losses \cup {NoLoss} : Finalize(at, loss)
  BY DEF Finalize
<1>m. /\ Protected(Whole)' = Protected(Whole)
      /\ bound => KeepSet(Whole)' = KeepSet(Whole)
  BY <1>f, OnlyRenameMoves
<1>k. Protected(Whole) \subseteq Whole /\ KeepSet(Whole) \subseteq Whole
  BY KeepSetIsThere DEF StoreInv
<1>d. ASSUME UNCHANGED disk PROVE Whole' = Whole /\ Torn' = Torn /\ Present' = Present
  BY <1>d DEF Whole, Torn, Present
<1>p. Whole \subseteq Present
  BY DEF Whole, Present
<1>1. CASE ProjectBest
  <2>1. /\ saver /\ ~bound /\ records = Whole /\ UNCHANGED <<disk, saver, bound, keep>>
        /\ doomed' = records \ Protected(records)
        /\ records' = records \cap Protected(records)
        /\ doomed' # {}
    BY <1>1, <1>i DEF ProjectBest, StartPruning, SessionInv
  <2>2. Protected(records) = Protected(Whole)
    BY <2>1
  <2>3. keep = {}
    BY <2>1, <1>i DEF KeepInv
  <2> QED
    BY <2>1, <2>2, <2>3, <1>m, <1>k, <1>d, <1>p DEF PruneInv
<1>2. CASE PublishRetention
  <2>1. /\ saver /\ bound /\ records = Whole /\ UNCHANGED <<disk, saver, bound>>
        /\ keep' = KeepSet(records)
        /\ doomed' = records \ KeepSet(records)
        /\ records' = records \cap KeepSet(records)
        /\ doomed' # {}
        /\ Torn = {}
    BY <1>2, <1>i DEF PublishRetention, StartPruning, SessionInv
  <2>2. KeepSet(records) = KeepSet(Whole)
    BY <2>1
  <2>3. Protected(Whole) \subseteq KeepSet(Whole)
    BY DEF KeepSet, Protected
  <2> QED
    BY <2>1, <2>2, <2>3, <1>m, <1>k, <1>d, <1>p DEF PruneInv
<1>3. CASE Unlink
  <2>1. PICK n : Tears(n)
    BY <1>3, UnlinkTears
  <2>2. /\ n \in doomed /\ Whole' = Whole \ {n} /\ Present' = Present /\ Torn' = Torn \cup {n}
        /\ pc = "prune" /\ UNCHANGED <<doomed, records, saver, keep, bound>>
    BY <1>3, <2>1 DEF Tears, Unlink, session
  <2> QED
    BY <2>2, <1>m, <1>i DEF PruneInv
<1>4. CASE RemoveDirectory
  <2>1. PICK n : Removes(n) /\ n = FirstOf(doomed)
    BY <1>4, RemoveRemoves
  <2>2. /\ n \in doomed /\ Whole' = Whole /\ Present' = Present \ {n} /\ Torn' = Torn \ {n}
        /\ pc = "prune" /\ doomed' = doomed \ {n} /\ doomed' # {}
        /\ UNCHANGED <<records, saver, keep, bound>>
    BY <1>4, <2>1 DEF Removes, RemoveDirectory
  <2>3. /\ doomed' \subseteq Present' /\ doomed' \cap records = {} /\ saver
        /\ Whole' \subseteq records \cup doomed'
    <3>1. n \notin Whole
      BY <2>1 DEF Removes, Torn, Whole
    <3> QED
      BY <2>2, <3>1, <1>i DEF PruneInv
  <2>4. bound => Torn' \subseteq doomed'
    BY <2>2, <1>i DEF PruneInv
  <2>5. /\ Protected(Whole)' \subseteq records /\ keep \subseteq records
        /\ bound => KeepSet(Whole)' \subseteq records
    BY <2>2, <1>m, <1>i DEF PruneInv
  <2> QED
    BY <2>2, <2>3, <2>4, <2>5 DEF PruneInv
<1>5. CASE ScanStart \/ ScanNext \/ UNCHANGED vars
  <2>1. pc = "prune" /\ UNCHANGED <<disk, doomed, records, saver, keep, bound>>
    BY <1>5 DEF ScanStart, ScanNext, vars, directory, session
  <2> QED
    BY <2>1, <1>m, <1>i, <1>d DEF PruneInv
<1> QED
  BY <1>1, <1>2, <1>3, <1>4, <1>5 DEF Next, Open, Close, Reconcile, Save, Abort, Finalize,
     ProjectLatest, Crash, EndSession

\* PointerInv, for every step.
LEMMA PointersKept == StoreInv /\ [Next]_vars => PointerInv'
<1> SUFFICES ASSUME StoreInv, [Next]_vars PROVE PointerInv'
  OBVIOUS
<1>i. SessionInv /\ PruneInv /\ PointerInv
  BY DEF StoreInv
<1>s. Selected
  BY DirectorySelects DEF StoreInv
<1>l. /\ LastOf(Whole) # NoGeneration => LastOf(Whole) \in Whole
      /\ BestOf(Whole) # NoGeneration => BestOf(Whole) \in Whole
      /\ Whole = {} => LastOf(Whole) = NoGeneration /\ BestOf(Whole) = NoGeneration
  BY <1>s DEF Selected, IsLast, IsBest
<1> USE DEF PointerInv
<1>1. ASSUME NEW at \in Positions, NEW loss \in Losses \cup {NoLoss}, Finalize(at, loss)
      PROVE PointerInv'
  <2>1. Whole' = Whole \cup {NextGeneration}
    BY <1>1, FinalizeAdds DEF Added
  <2> QED
    BY <1>i, <1>1, <2>1 DEF Finalize
<1>2. ASSUME ~\E at \in Positions, loss \in Losses \cup {NoLoss} : Finalize(at, loss)
      PROVE PointerInv'
  <2>m. /\ LastOf(Whole)' = LastOf(Whole) /\ BestOf(Whole)' = BestOf(Whole)
        /\ Protected(Whole) \subseteq Whole'
    BY <1>2, OnlyRenameMoves
  <2>d. ASSUME UNCHANGED disk PROVE Whole' = Whole
    BY <2>d DEF Whole
  <2>1. ASSUME NEW saves \in BOOLEAN, NEW declares \in BOOLEAN, Open(saves, declares)
        PROVE PointerInv'
    BY <1>i, <2>1, <2>d DEF Open, SessionInv
  <2>2. CASE Close \/ Abort \/ Crash \/ Reconcile \/ Save
    BY <1>i, <2>2, <2>d DEF Close, Abort, Crash, Reconcile, Save, EndSession, directory
  <2>3. CASE ProjectLatest
    <3>1. records = Whole /\ records # Unread
      BY <1>i, <2>3 DEF SessionInv, ProjectLatest
    <3>2. LastOf(records) = LastOf(Whole)
      BY <3>1
    <3> QED
      BY <1>i, <1>l, <2>3, <2>m, <2>d, <3>1, <3>2 DEF ProjectLatest, EndSession
  <2>4. CASE ProjectBest
    <3>1. records = Whole /\ records # Unread
      BY <1>i, <2>4 DEF SessionInv, ProjectBest
    <3>2. BestOf(records) = BestOf(Whole)
      BY <3>1
    <3> QED
      BY <1>i, <1>l, <2>4, <2>m, <2>d, <3>1, <3>2 DEF ProjectBest, StartPruning
  <2>5. CASE PublishRetention
    <3>1. records # Unread
      BY <1>i, <2>5 DEF SessionInv, PublishRetention
    <3> QED
      BY <1>i, <2>5, <2>m, <2>d, <3>1 DEF PublishRetention, StartPruning
  <2>6. CASE Unlink \/ RemoveDirectory
    <3>1. pc = "prune" /\ UNCHANGED <<latest, best, records>> /\ pc' \in {"open", "prune"}
      BY <2>6 DEF Unlink, RemoveDirectory, session
    <3>2. records # Unread
      BY <3>1, <1>i DEF SessionInv
    <3>3. latest = LastOf(Whole) /\ best = BestOf(Whole)
      BY <3>1, <3>2, <1>i
    <3>4. {latest, best} \ {NoGeneration} \subseteq Whole'
      BY <3>3, <2>m DEF Protected
    <3> QED
      BY <3>1, <3>3, <3>4, <2>m
  <2>7. CASE ScanStart \/ ScanNext \/ UNCHANGED vars
    BY <1>i, <2>7, <2>d, <2>m DEF ScanStart, ScanNext, vars, directory, session
  <2> QED
    BY <1>2, <2>1, <2>2, <2>3, <2>4, <2>5, <2>6, <2>7 DEF Next
<1> QED
  BY <1>1, <1>2

\* KeepInv, for every step.
LEMMA KeepSetKept == StoreInv /\ [Next]_vars => KeepInv'
<1> SUFFICES ASSUME StoreInv, [Next]_vars PROVE KeepInv'
  OBVIOUS
<1>i. SessionInv /\ PruneInv /\ KeepInv
  BY DEF StoreInv
<1> USE DEF KeepInv, KeepSetSurvives
<1>1. CASE PublishRetention
  <2>1. KeepSet(Whole) \subseteq Whole
    BY KeepSetIsThere DEF StoreInv
  <2>2. bound /\ records = Whole /\ keep' = KeepSet(records) /\ UNCHANGED <<disk, bound>>
    BY <1>1, <1>i DEF PublishRetention, SessionInv
  <2>3. Whole' = Whole
    BY <2>2 DEF Whole
  <2> QED
    BY <2>1, <2>2, <2>3
<1>2. CASE ~PublishRetention
  <2>1. keep' = keep /\ (bound => bound')
    <3>1. ASSUME NEW saves \in BOOLEAN, NEW declares \in BOOLEAN, Open(saves, declares)
          PROVE keep' = keep /\ (bound => bound')
      BY <3>1, Zenon DEF Open
    <3>2. CASE ~\E saves, declares \in BOOLEAN : Open(saves, declares)
      <4>1. keep' = keep /\ bound' = bound
        BY <1>2, <3>2 DEF Next, Close, Reconcile, Save, Abort, Finalize, ProjectLatest,
               ProjectBest, Unlink, RemoveDirectory, Crash, ScanStart, ScanNext, directory, vars
      <4> QED
        BY <4>1, Zenon
    <3> QED
      BY <3>1, <3>2
  <2>2. CASE UNCHANGED <<disk, info>>
    BY <2>1, <2>2, <1>i DEF Whole
  <2>3. ASSUME NEW at \in Positions, NEW loss \in Losses \cup {NoLoss}, Finalize(at, loss)
        PROVE keep \subseteq Whole'
    BY <2>3, <1>i, FinalizeAdds DEF Added
  <2>4. CASE Unlink
    <3>1. PICK n : Tears(n)
      BY <2>4, UnlinkTears
    <3>2. n \in doomed /\ Whole' = Whole \ {n}
      BY <3>1 DEF Tears
    <3> QED
      BY <2>1, <2>4, <3>2, <1>i DEF PruneInv, Unlink
  <2>5. CASE RemoveDirectory
    <3>1. PICK n : Removes(n)
      BY <2>5, RemoveRemoves
    <3> QED
      BY <2>1, <3>1, <1>i DEF Removes
  <2> QED
    BY <2>1, <2>2, <2>3, <2>4, <2>5, <1>i, DirectorySteps
<1> QED
  BY <1>1, <1>2

LEMMA AddOne ==
    ASSUME NEW S, IsFiniteSet(S), NEW x, NEW n \in Nat, Cardinality(S) <= n
    PROVE  IsFiniteSet(S \cup {x}) /\ Cardinality(S \cup {x}) <= n + 1
<1>1. /\ IsFiniteSet(S \cup {x}) /\ Cardinality(S) \in Nat
      /\ Cardinality(S \cup {x}) = IF x \in S THEN Cardinality(S) ELSE Cardinality(S) + 1
  BY FS_AddElement, FS_CardinalityType
<1> QED
  BY <1>1

\* The roles of the policy are as many as the plan counts.
LEMMA KeepSetFits ==
    /\ IsFiniteSet(KeepSet(Whole)) /\ Cardinality(KeepSet(Whole)) <= RetainedUpper
    /\ RetainedUpper \in Nat
<1> DEFINE M == Cardinality(Milestones)
           I == {Reaches(Whole, m) : m \in Boundaries}
           f == [m \in Boundaries |-> Reaches(Whole, m)]
<1>m. IsFiniteSet(Milestones) /\ M \in Nat
  BY CheckpointAssumption, FS_CardinalityType
<1>1. IsFiniteSet(Boundaries) /\ Cardinality(Boundaries) <= M + 1 /\ Cardinality(Boundaries) \in Nat
  BY <1>m, FS_AddElement, FS_CardinalityType DEF Boundaries
<1>2. f \in Surjection(Boundaries, I)
  BY DEF Surjection
<1>3. IsFiniteSet(I) /\ Cardinality(I) <= M + 1 /\ Cardinality(I) \in Nat
  <2>1. IsFiniteSet(I) /\ Cardinality(I) <= Cardinality(Boundaries)
    BY <1>1, <1>2, FS_Surjection
  <2> QED
    BY <2>1, <1>1, <1>m, FS_CardinalityType
<1> HIDE DEF I, f
<1> DEFINE A == I \cup {LastOf(Whole)}
           B == A \cup {PreviousOf(Whole)}
           C == B \cup {BestOf(Whole)}
<1>4. IsFiniteSet(A) /\ Cardinality(A) <= (M + 1) + 1
  <2>1. M + 1 \in Nat
    BY <1>m
  <2> QED
    BY <1>3, <2>1, AddOne
<1>5. IsFiniteSet(B) /\ Cardinality(B) <= (M + 2) + 1
  <2>1. Cardinality(A) <= M + 2 /\ M + 2 \in Nat
    BY <1>4, <1>m
  <2> HIDE DEF A
  <2> QED
    BY <1>4, <2>1, AddOne
<1>6. IsFiniteSet(C) /\ Cardinality(C) <= (M + 3) + 1
  <2>1. Cardinality(B) <= M + 3 /\ M + 3 \in Nat
    BY <1>5, <1>m
  <2> HIDE DEF B
  <2> QED
    BY <1>5, <2>1, AddOne
<1>7. KeepSet(Whole) \in SUBSET C
  BY DEF KeepSet, Protected, I
<1> HIDE DEF C, M
<1>8. /\ IsFiniteSet(KeepSet(Whole)) /\ Cardinality(KeepSet(Whole)) <= Cardinality(C)
      /\ Cardinality(KeepSet(Whole)) \in Nat /\ Cardinality(C) \in Nat
  BY <1>6, <1>7, FS_Subset, FS_CardinalityType
<1>9. Cardinality(KeepSet(Whole)) <= M + 4
  BY <1>6, <1>8, <1>m
<1> QED
  BY <1>8, <1>9, <1>m DEF RetainedUpper, M

\* There are finitely many generations.
LEMMA PresentIsFinite ==
    /\ IsFiniteSet(Present) /\ Cardinality(Present) \in Nat
    /\ IsFiniteSet(Present') /\ Cardinality(Present') \in Nat
<1>1. IsFiniteSet(Generations)
  BY FS_Interval, CheckpointAssumption DEF Generations
<1>2. Present \in SUBSET Generations /\ Present' \in SUBSET Generations
  BY DEF Present
<1> QED
  BY <1>1, <1>2, FS_Subset, FS_CardinalityType

\* RoomInv, for every step.
LEMMA RoomKept == StoreInv /\ [Next]_vars => RoomInv'
<1> SUFFICES ASSUME StoreInv, [Next]_vars PROVE RoomInv'
  OBVIOUS
<1>i. TypeOK /\ SessionInv /\ PruneInv /\ RoomInv
  BY DEF StoreInv
<1>j. SessionInv'
  BY SessionKept
<1>b. bound \in BOOLEAN /\ saver \in BOOLEAN
  BY <1>i DEF TypeOK
<1>u. RetainedUpper \in Nat
  BY KeepSetFits
<1>p. Present = Whole \cup Torn /\ Present' = Whole' \cup Torn'
  BY <1>i, TypesKept DEF Present, Whole, Torn, TypeOK
<1>1. stages' <= crashes'
  <2>1. stages <= crashes /\ stages \in Nat /\ crashes \in Nat
    BY <1>i DEF TypeOK, RoomInv
  <2>2. CASE Crash
    BY <2>1, <2>2 DEF Crash
  <2>3. CASE ~Crash
    <3>1. UNCHANGED <<stages, crashes>>
      BY <2>3 DEF Next, Open, Close, Reconcile, Save, Abort, Finalize, ProjectLatest, ProjectBest,
             PublishRetention, Unlink, RemoveDirectory, ScanStart, ScanNext, directory, vars
    <3> QED
      BY <2>1, <3>1
  <2> QED
    BY <2>2, <2>3
<1>2. ASSUME bound' PROVE Cardinality(Present') <= RetainedUpper + 1
  <2>1. CASE ~bound
    <3>1. Present = {} /\ UNCHANGED disk
      BY <1>2, <2>1 DEF Next, Open, Close, Reconcile, Save, Abort, Finalize, ProjectLatest,
             ProjectBest, PublishRetention, Unlink, RemoveDirectory, Crash, ScanStart, ScanNext,
             directory, vars
    <3>2. Present' = {}
      BY <3>1 DEF Present
    <3> QED
      BY <3>2, FS_EmptySet, <1>u
  <2>2. CASE bound
    <3>1. Cardinality(Present) <= RetainedUpper + 1
      BY <2>2, <1>i DEF RoomInv
    <3>2. CASE Present' \subseteq Present
      BY <3>1, <3>2, <1>u, PresentIsFinite, FS_Subset
    <3>3. ASSUME NEW at \in Positions, NEW loss \in Losses \cup {NoLoss}, Finalize(at, loss)
          PROVE Cardinality(Present') <= RetainedUpper + 1
      <4>1. Cardinality(Present) <= RetainedUpper
        BY <2>2, <3>3, <1>i DEF RoomInv, Finalize, SessionInv
      <4>2. Present' = Present \cup {NextGeneration}
        BY <3>3, FinalizeAdds DEF Added
      <4> QED
        BY <4>1, <4>2, <1>u, PresentIsFinite, FS_AddElement
    <3>4. UNCHANGED disk \/ Unlink \/ RemoveDirectory => Present' \subseteq Present
      BY UnlinkTears, RemoveRemoves DEF Tears, Removes, Present
    <3> QED
      BY <3>2, <3>3, <3>4, DirectorySteps
  <2> QED
    BY <2>1, <2>2
<1>3. ASSUME bound', saver', records' # Unread, pc' \in {"open", "rename"}
      PROVE  Cardinality(Present') <= RetainedUpper
  <2>1. CASE pc \in {"open", "rename"} /\ UNCHANGED <<disk, bound, saver, records>>
    <3>1. Present' = Present
      BY <2>1 DEF Present
    <3> QED
      BY <1>3, <2>1, <3>1, <1>i DEF RoomInv
  <2>2. CASE ProjectLatest
    <3>1. records = {} /\ UNCHANGED <<bound, disk, records>>
      BY <1>3, <2>2 DEF ProjectLatest, EndSession
    <3>2. Present' = {}
      BY <1>3, <3>1, <1>j, <1>p, <2>2 DEF SessionInv, ProjectLatest
    <3> QED
      BY <3>2, FS_EmptySet, <1>u
  <2>3. CASE PublishRetention
    <3>1. records = Whole /\ records' = records \cap KeepSet(records)
      BY <2>3, <1>i DEF PublishRetention, SessionInv, StartPruning
    <3>2. Present' = records'
      BY <1>3, <1>j, <1>p, <2>3 DEF SessionInv
    <3>3. Present' \in SUBSET KeepSet(Whole)
      BY <3>1, <3>2
    <3> QED
      BY <3>3, <1>u, KeepSetFits, FS_Subset, FS_CardinalityType, PresentIsFinite
  <2>4. CASE RemoveDirectory
    <3>1. UNCHANGED <<bound, saver, records>> /\ pc = "prune"
      BY <2>4 DEF RemoveDirectory
    <3>2. Present' = records
      BY <1>3, <3>1, <1>j, <1>p DEF SessionInv
    <3> QED
      BY <1>3, <3>1, <3>2, <1>i DEF RoomInv
  <2> QED
    BY <1>3, <1>i, <2>1, <2>2, <2>3, <2>4 DEF Next, Open, Close, Reconcile, Save, Abort, Finalize,
       ProjectBest, StartPruning, Unlink, Crash, ScanStart, ScanNext, EndSession, directory,
       session, vars, SessionInv
<1>4. ASSUME bound', saver', records' # Unread, pc' = "prune"
      PROVE  Cardinality(records') <= RetainedUpper
  <2>1. CASE PublishRetention
    <3>1. records = Whole /\ records' = records \cap KeepSet(records)
      BY <2>1, <1>i DEF PublishRetention, SessionInv, StartPruning
    <3>2. records' \in SUBSET KeepSet(Whole)
      BY <3>1
    <3> QED
      BY <3>2, <1>u, KeepSetFits, FS_Subset, FS_CardinalityType
  <2>2. CASE pc = "prune" /\ UNCHANGED <<bound, saver, records>>
    BY <1>4, <2>2, <1>i DEF RoomInv
  <2> QED
    BY <1>4, <2>1, <2>2 DEF Next, Open, Close, Reconcile, Save, Abort, Finalize, ProjectLatest,
       ProjectBest, StartPruning, Unlink, RemoveDirectory, Crash, ScanStart, ScanNext, EndSession,
       directory, session, vars
<1> QED
  BY <1>1, <1>2, <1>3, <1>4 DEF RoomInv

\* A generation that at most one is newer than is there in full.
LEMMA NearTopIsWhole ==
    ASSUME StoreInv, NEW b \in Generations, \E g \in Present : b <= g,
           \A g \in Present : g <= b + 1
    PROVE  b \in Whole
<1>g. \A g \in Generations : g \in Nat /\ g >= 1
  BY ManifestFacts DEF StoreInv
<1>1. PICK t \in Present : IsTop(t)
  BY DirectorySelects DEF StoreInv, Selected
<1>2. t \in Generations
  BY DEF Present
<1>3. t \in Whole /\ (t > 1 => t - 1 \in Whole)
  BY <1>1, <1>2 DEF StoreInv, TopTwo
<1>4. b <= t /\ t <= b + 1
  <2>1. PICK g \in Present : b <= g
    OBVIOUS
  <2>2. g <= t /\ g \in Generations
    BY <1>1 DEF IsTop, Present
  <2> QED
    BY <2>1, <2>2, <1>1, <1>2, <1>g
<1>5. CASE t = b
  BY <1>3, <1>5
<1>6. CASE t = b + 1
  BY <1>2, <1>3, <1>6, <1>g
<1> QED
  BY <1>2, <1>4, <1>5, <1>6, <1>g

\* ScanInv, for every step.
LEMMA ScanKept == StoreInv /\ [Next]_vars => ScanInv'
<1> SUFFICES ASSUME StoreInv, [Next]_vars PROVE ScanInv'
  OBVIOUS
<1>i. ScanInv /\ TypeOK
  BY DEF StoreInv
<1>g. \A g \in Generations : g \in Nat /\ g >= 1
  BY ManifestFacts DEF StoreInv
<1>p. Present \subseteq Generations /\ Whole \subseteq Present
  BY DEF Present, Whole
<1>t. scan.todo \in SUBSET Generations /\ scan.began \in Generations \cup {NoGeneration}
  BY <1>i DEF TypeOK
<1>1. CASE UNCHANGED scan
  <2> SUFFICES ASSUME scan.began # NoGeneration
               PROVE  /\ \E g \in Present' : scan.began <= g
                      /\ (\A g \in Present' : g <= scan.began + 1) => scan.began \in scan.todo
    BY <1>1, <1>i DEF ScanInv
  <2>b. scan.began \in Nat
    BY <1>t, <1>g
  <2>i. /\ \E g \in Present : scan.began <= g
        /\ (\A g \in Present : g <= scan.began + 1) => scan.began \in scan.todo
    BY <1>i DEF ScanInv
  <2>1. CASE UNCHANGED <<disk, info>> \/ Unlink
    <3>1. Present' = Present
      BY <2>1, UnlinkTears DEF Tears, Present
    <3> QED
      BY <2>i, <3>1
  <2>2. ASSUME NEW at \in Positions, NEW loss \in Losses \cup {NoLoss}, Finalize(at, loss)
        PROVE  /\ \E g \in Present' : scan.began <= g
               /\ (\A g \in Present' : g <= scan.began + 1) => scan.began \in scan.todo
    <3>1. Present \subseteq Present'
      BY <2>2, FinalizeAdds DEF Added
    <3> QED
      BY <2>i, <3>1
  <2>3. CASE RemoveDirectory
    <3>1. PICK n : Removes(n)
      BY <2>3, RemoveRemoves
    <3>2. PICK t \in Present : IsTop(t)
      BY <2>i, DirectorySelects DEF StoreInv, Selected
    <3>3. t \in Present'
      <4>1. t \in Whole
        BY <3>2, <1>p DEF StoreInv, TopTwo
      <4> QED
        BY <3>1, <4>1, <1>p DEF Removes, Torn, Whole
    <3>4. \A g \in Present : g <= t /\ g \in Nat
      BY <3>2, <1>p, <1>g DEF IsTop
    <3>5. scan.began <= t
      BY <2>i, <2>b, <3>4, <3>2
    <3>6. ASSUME \A g \in Present' : g <= scan.began + 1
          PROVE  \A g \in Present : g <= scan.began + 1
      BY <3>3, <3>4, <3>6, <2>b
    <3> QED
      BY <2>i, <3>3, <3>5, <3>6
  <2> QED
    BY <2>1, <2>2, <2>3, DirectorySteps
<1>2. CASE ScanStart
  <2>1. PICK t \in Present : IsTop(t)
    BY <1>2, DirectorySelects DEF StoreInv, Selected, ScanStart
  <2>2. t \in Whole
    BY <2>1, <1>p DEF StoreInv, TopTwo
  <2>3. LastOf(Whole) \in Whole
    BY <2>2, DirectorySelects DEF StoreInv, Selected, IsLast
  <2>4. LastOf(Whole) \in Present /\ LastOf(Whole) <= LastOf(Whole)
    BY <2>3, <1>p, <1>g
  <2>5. Present' = Present /\ scan' = [todo |-> Present, began |-> LastOf(Whole)]
    BY <1>2 DEF ScanStart, directory, Present
  <2> QED
    BY <2>1, <2>4, <2>5 DEF ScanInv
<1>3. CASE ScanNext
  <2> DEFINE g == ScanOrder(scan.todo)
  <2>1. scan.todo # {} /\ scan # Idle /\ Present' = Present
    BY <1>3, <1>i DEF ScanInv, ScanNext, directory, Present
  <2>2. g \in scan.todo
    <3>1. \E x \in scan.todo : \A y \in scan.todo : y <= x
      BY <2>1, <1>t, GreatestGeneration
    <3> QED
      BY <3>1 DEF ScanOrder
  <2>3. CASE disk[g] = "whole" \/ scan.todo = {g}
    <3>1. scan' = Idle
      BY <1>3, <2>3 DEF ScanNext
    <3> QED
      BY <3>1 DEF ScanInv, Idle
  <2>4. CASE ~(disk[g] = "whole" \/ scan.todo = {g})
    <3>1. scan'.todo = scan.todo \ {g} /\ scan'.began = scan.began
      BY <1>3, <1>i, <2>4 DEF ScanNext, TypeOK
    <3>2. scan'.todo # {}
      BY <2>2, <2>4, <3>1
    <3>3. ASSUME scan.began # NoGeneration, \A h \in Present : h <= scan.began + 1
          PROVE  scan.began \in scan.todo \ {g}
      <4>1. (\E h \in Present : scan.began <= h) /\ scan.began \in scan.todo
        BY <3>3, <1>i DEF ScanInv
      <4>2. scan.began \in Whole
        BY <3>3, <4>1, <1>t, NearTopIsWhole
      <4> QED
        BY <4>1, <4>2, <2>4 DEF Whole
    <3>4. scan.began # NoGeneration => \E h \in Present : scan.began <= h
      BY <1>i DEF ScanInv
    <3> QED
      BY <2>1, <3>1, <3>2, <3>3, <3>4 DEF ScanInv
  <2> QED
    BY <2>3, <2>4
<1> QED
  BY <1>1, <1>2, <1>3 DEF Next, Open, Close, Reconcile, Save, Abort, Finalize, ProjectLatest,
     ProjectBest, PublishRetention, Unlink, RemoveDirectory, Crash, vars

-----------------------------------------------------------------------------
(* The theorems. *)

\* An empty directory satisfies the invariant.
LEMMA StoreStarts == Init => StoreInv
<1> SUFFICES ASSUME Init PROVE StoreInv
  OBVIOUS
<1>p. Present = {} /\ Whole = {} /\ Torn = {}
  BY DEF Init, Present, Whole, Torn
<1>1. TypeOK
  <2>1. NoInfo \in Manifests
    BY DEF NoInfo, Manifests
  <2>2. 0 \in 0..MaxCrashes
    BY CheckpointAssumption
  <2>3. Idle \in [todo : SUBSET Generations, began : Generations \cup {NoGeneration}]
    BY DEF Idle
  <2> QED
    BY <2>1, <2>2, <2>3 DEF Init, TypeOK
<1>2. Forward /\ TopTwo
  BY <1>p DEF Forward, TopTwo, IsTop
<1>3. SessionInv /\ PruneInv /\ PointerInv /\ KeepInv
  BY <1>p DEF Init, SessionInv, PruneInv, PointerInv, KeepInv, KeepSetSurvives
<1>4. RoomInv
  <2>1. ~bound /\ stages <= crashes
    BY DEF Init
  <2> QED
    BY <2>1 DEF RoomInv
<1>5. ScanInv
  BY DEF Init, ScanInv, Idle
<1> QED
  BY <1>1, <1>2, <1>3, <1>4, <1>5 DEF StoreInv

\* The invariant of the checkpoint directory is inductive: save, reconcile,
\* projection and pruning (training/checkpoints.py), a death before any of their
\* steps and a reader beside them keep it.
THEOREM CheckpointInvariant == Spec => []StoreInv
<1>1. Init => StoreInv
  BY StoreStarts
<1>2. StoreInv /\ [Next]_vars => StoreInv'
  BY TypesKept, OrderKept, SessionKept, PruningKept, PointersKept, KeepSetKept, RoomKept,
     ScanKept DEF StoreInv
<1> QED
  BY <1>1, <1>2, PTL DEF Spec

\* The directory, its pointers and files and the writer's locals keep their types.
THEOREM CheckpointTyping == Spec => []TypeOK
<1>1. StoreInv => TypeOK
  BY DEF StoreInv
<1> QED
  BY <1>1, CheckpointInvariant, PTL

\* Whatever was interrupted, latest.json and best.json name generations that
\* are there in full (_project_records).
THEOREM PointersAlwaysResolve == Spec => []PointersResolve
<1>1. StoreInv => PointersResolve
  BY DEF StoreInv, PointerInv, PointersResolve
<1> QED
  BY <1>1, CheckpointInvariant, PTL

\* After a successful reconcile or save both pointers are what the directory
\* selects, however many writers died before (reconcile, _project_records).
THEOREM PointersAlwaysAgree == Spec => []PointersAgree
<1>1. StoreInv => PointersAgree
  BY DEF StoreInv, PointerInv, PointersAgree
<1> QED
  BY <1>1, CheckpointInvariant, PTL

\* Every generation that retention.json retains is there in full.
THEOREM KeepSetAlwaysSurvives == Spec => []KeepSetSurvives
<1>1. StoreInv => KeepSetSurvives
  BY DEF StoreInv, KeepInv
<1> QED
  BY <1>1, CheckpointInvariant, PTL

\* Fewer generations take fewer bytes.
LEMMA BytesGrow ==
    ASSUME NEW a \in Nat, NEW b \in Nat, a <= b
    PROVE  /\ a * GenerationBytes \in Nat /\ b * GenerationBytes \in Nat
           /\ a * GenerationBytes <= b * GenerationBytes
           /\ (a + 1) * GenerationBytes = a * GenerationBytes + GenerationBytes
<1>1. GenerationBytes \in Nat
  BY CheckpointAssumption
<1>2. (b - a) * GenerationBytes >= 0
  BY <1>1
<1>3. b * GenerationBytes = a * GenerationBytes + (b - a) * GenerationBytes
  BY <1>1
<1> QED
  BY <1>1, <1>2, <1>3

\* The plan of CheckpointRetention is enough for every policy, with room for the
\* files beside the generations and for interrupted staging: no save is refused
\* for lack of room, no plan exceeds its limits (admit_write, retention.plan).
THEOREM PlanAlwaysFits == Spec => []PlanFits
<1>1. StoreInv => PlanFits
  <2> SUFFICES ASSUME StoreInv, bound, saver, RoomBeyondPlan
               PROVE  /\ pc = "open" /\ records # Unread => ~AdmissionMayFail
                      /\ pc = "project" => ~PlanMayFail
    BY DEF PlanFits
  <2> DEFINE n == Cardinality(Present)
             u == RetainedUpper
  <2>u. u \in Nat /\ Cardinality(KeepSet(Whole)) <= u
    BY KeepSetFits
  <2>p. n \in Nat /\ stages \in Nat
    BY PresentIsFinite DEF StoreInv, TypeOK
  <2>c. GenerationBytes \in Nat /\ MetadataBytes \in Nat /\ Room \in Nat
    BY CheckpointAssumption
  <2>r. Room >= (u + 1 + stages) * GenerationBytes + MetadataBytes
    BY DEF RoomBeyondPlan
  <2>f. Footprint = (n + stages) * GenerationBytes + MetadataBytes
    BY DEF Footprint
  <2> HIDE DEF n, u
  <2>1. ASSUME pc = "open", records # Unread PROVE ~AdmissionMayFail
    <3>1. n <= u
      BY <2>1 DEF StoreInv, RoomInv, n, u
    <3>2. n + stages \in Nat /\ u + stages \in Nat /\ n + stages <= u + stages
      BY <3>1, <2>u, <2>p
    <3>3. (n + stages) * GenerationBytes <= (u + stages) * GenerationBytes
      BY <3>2, BytesGrow
    <3>4. /\ (n + stages) * GenerationBytes \in Nat /\ (u + stages) * GenerationBytes \in Nat
          /\ (u + stages + 1) * GenerationBytes = (u + stages) * GenerationBytes + GenerationBytes
      BY <3>2, BytesGrow
    <3>5. u + stages + 1 = u + 1 + stages
      BY <2>u, <2>p
    <3> QED
      BY <3>3, <3>4, <3>5, <2>r, <2>f, <2>c DEF AdmissionMayFail
  <2>2. ASSUME pc = "project" PROVE ~PlanMayFail
    <3>1. records = Whole /\ keep \subseteq Whole
      BY <2>2 DEF StoreInv, SessionInv, KeepInv, KeepSetSurvives
    <3>2. ~(Footprint > Room)
      <4>1. n <= u + 1
        BY DEF StoreInv, RoomInv, n, u
      <4>2. n + stages \in Nat /\ u + 1 + stages \in Nat /\ n + stages <= u + 1 + stages
        BY <4>1, <2>u, <2>p
      <4>3. /\ (n + stages) * GenerationBytes <= (u + 1 + stages) * GenerationBytes
            /\ (n + stages) * GenerationBytes \in Nat
            /\ (u + 1 + stages) * GenerationBytes \in Nat
        BY <4>2, BytesGrow
      <4> QED
        BY <4>3, <2>r, <2>f, <2>c
    <3>3. Cardinality(KeepSet(Whole)) \in Nat
      BY KeepSetFits, FS_CardinalityType
    <3>4. ~(Cardinality(KeepSet(records)) > RetainedUpper)
      BY <3>1, <3>3, <2>u DEF u
    <3> QED
      BY <3>1, <3>2, <3>4 DEF PlanMayFail, PlanRefused
  <2> QED
    BY <2>1, <2>2
<1> QED
  BY <1>1, CheckpointInvariant, PTL

\* A report that overlaps at most one save finds the newest generation there
\* was when it began, or a newer one (recovery_report).
THEOREM ScanAlwaysFindsNewest == Spec => []ScanFindsNewest
<1>1. StoreInv => ScanFindsNewest
  <2> SUFFICES ASSUME StoreInv, scan.began # NoGeneration, NextGeneration <= scan.began + 2
               PROVE  scan.began \in scan.todo \cap Whole
    BY DEF ScanFindsNewest
  <2>1. scan.began \in Generations /\ scan.began \in Nat
    BY ManifestFacts DEF StoreInv, TypeOK
  <2>2. \E g \in Present : scan.began <= g
    BY DEF StoreInv, ScanInv
  <2>3. PICK t \in Present : IsTop(t) /\ NextGeneration = t + 1
    BY <2>2, DirectorySelects DEF StoreInv, Selected
  <2>4. \A g \in Present : g \in Nat /\ g <= t
    BY <2>3, ManifestFacts DEF StoreInv, IsTop, Present
  <2>5. \A g \in Present : g <= scan.began + 1
    BY <2>1, <2>3, <2>4
  <2> QED
    BY <2>1, <2>2, <2>5, NearTopIsWhole DEF StoreInv, ScanInv
<1> QED
  BY <1>1, CheckpointInvariant, PTL

-----------------------------------------------------------------------------
(* The directory implements RecoveryPoint. *)

\* What is described after the rename: the new generation where it wins, and
\* everything else as it was.
LEMMA RenameCommits ==
    ASSUME StoreInv, [Next]_vars, NEW at \in Positions, NEW loss \in Losses \cup {NoLoss},
           Finalize(at, loss)
    PROVE  \E n \in Generations : LET g == [id |-> n, at |-> at, loss |-> loss] IN
             /\ Described(LastOf(Whole))' = g /\ g # Nothing
             /\ IF Described(LastOf(Whole)) = Nothing THEN n = 1
                ELSE n = Described(LastOf(Whole)).id + 1 /\ at >= Described(LastOf(Whole)).at
             /\ g # Described(LastOf(Whole))
             /\ Described(BestOf(Whole))' =
                  IF /\ loss # NoLoss
                     /\ \/ Described(BestOf(Whole)) = Nothing
                        \/ loss < Described(BestOf(Whole)).loss
                  THEN g ELSE Described(BestOf(Whole))
             /\ \A m \in Boundaries : Described(Reaches(Whole, m))' =
                  IF Described(Reaches(Whole, m)) = Nothing /\ at >= m
                  THEN g ELSE Described(Reaches(Whole, m))
<1>a. PICK n \in Generations : Added(n, at, loss)
  BY FinalizeAdds DEF Added
<1>t. TypeOK /\ TypeOK' /\ Forward /\ Forward' /\ TopTwo
  BY TypesKept, OrderKept DEF StoreInv
<1>s. Selected /\ Selected'
  BY <1>t, DirectorySelects, DirectorySelectsNext
<1>w. \A g \in Whole : /\ g \in Generations /\ g \in Nat /\ g # NoGeneration /\ g < n
                       /\ info[g].at \in Nat /\ info[g].loss \in Losses \cup {NoLoss}
                       /\ info'[g] = info[g] /\ info[g].at <= at
  <2>1. Whole \subseteq Present /\ Present \subseteq Generations
    BY DEF Whole, Present
  <2> QED
    BY <2>1, <1>a, <1>t, ManifestFacts DEF Added, TypeOK, NoGeneration
<1>n. /\ Whole' = Whole \cup {n} /\ n \notin Whole /\ info'[n] = [at |-> at, loss |-> loss]
      /\ n \in Nat /\ n # NoGeneration
  <2>1. n \in Nat /\ n >= 1
    BY <1>t, ManifestFacts
  <2> QED
    BY <2>1, <1>a, <1>t DEF Added, TypeOK, Whole, Present, NoGeneration
<1>c. at \in Nat /\ (loss # NoLoss => loss \in Nat) /\ Losses \subseteq Nat /\ NoLoss \notin Losses
      /\ \A m \in Boundaries : m \in Nat
  BY CheckpointAssumption DEF Boundaries
<1> DEFINE g == [id |-> n, at |-> at, loss |-> loss]
<1>d. \A x \in Whole : /\ Described(x) = [id |-> x, at |-> info[x].at, loss |-> info[x].loss]
                       /\ Described(x) # Nothing
  BY <1>w DEF Described, Nothing
<1>e. Described(NoGeneration) = Nothing
  BY DEF Described
<1>1. LastOf(Whole)' = n
  <2>1. IsLast(Whole', LastOf(Whole)')
    BY <1>s DEF Selected, IsLast
  <2>2. LastOf(Whole)' \in Whole' /\ \A h \in Whole' : h <= LastOf(Whole)'
    BY <2>1, <1>n DEF IsLast
  <2>3. n <= LastOf(Whole)' /\ (LastOf(Whole)' \in Whole \/ LastOf(Whole)' = n)
    BY <2>2, <1>n
  <2>4. LastOf(Whole)' \in Whole => LastOf(Whole)' \in Nat /\ LastOf(Whole)' < n
    BY <1>w
  <2> QED
    BY <2>3, <2>4, <1>n
<1>2. Described(LastOf(Whole))' = g /\ g # Nothing
  BY <1>1, <1>n DEF Described, Nothing
<1>3. /\ IF Described(LastOf(Whole)) = Nothing THEN n = 1
         ELSE n = Described(LastOf(Whole)).id + 1 /\ at >= Described(LastOf(Whole)).at
      /\ g # Described(LastOf(Whole))
  <2>1. CASE Present = {}
    <3>1. Whole = {} /\ n = 1
      BY <2>1, <1>a DEF Added, Whole, Present
    <3>2. LastOf(Whole) = NoGeneration
      BY <3>1, <1>s DEF Selected, IsLast
    <3> QED
      BY <3>1, <3>2, <1>2, <1>e
  <2>2. CASE Present # {}
    <3>1. IsTop(n - 1) /\ n - 1 \in Generations
      BY <2>2, <1>a DEF Added, IsTop, Present
    <3>2. n - 1 \in Whole
      BY <3>1, <1>t DEF TopTwo
    <3>3. LastOf(Whole) \in Whole /\ n - 1 <= LastOf(Whole)
      BY <3>2, <1>s DEF Selected, IsLast
    <3>4. LastOf(Whole) = n - 1
      BY <3>3, <1>w, <1>n
    <3>5. /\ Described(LastOf(Whole)).id = n - 1 /\ Described(LastOf(Whole)) # Nothing
          /\ Described(LastOf(Whole)).at <= at /\ Described(LastOf(Whole)).at \in Nat
      BY <3>3, <3>4, <1>d, <1>w
    <3> QED
      BY <3>5, <1>n, <1>c
  <2> QED
    BY <2>1, <2>2
<1>4. Described(BestOf(Whole))' =
        IF /\ loss # NoLoss
           /\ \/ Described(BestOf(Whole)) = Nothing
              \/ loss < Described(BestOf(Whole)).loss
        THEN g ELSE Described(BestOf(Whole))
  <2> DEFINE b == BestOf(Whole)
             c == BestOf(Whole)'
  <2>b. IsBest(Whole, b)
    BY <1>s DEF Selected
  <2>c. IF \A h \in Whole' : info'[h].loss = NoLoss THEN c = NoGeneration
        ELSE /\ c \in Whole' /\ info'[c].loss # NoLoss
             /\ \A h \in Whole' : info'[h].loss # NoLoss =>
                  \/ info'[c].loss < info'[h].loss
                  \/ info'[c].loss = info'[h].loss /\ c <= h
    <3>1. IsBest(Whole, BestOf(Whole))'
      BY <1>s DEF Selected
    <3> QED
      BY <3>1 DEF IsBest, Better
  <2>d. Described(BestOf(Whole))' = IF c = NoGeneration THEN Nothing
          ELSE [id |-> c, at |-> info'[c].at, loss |-> info'[c].loss]
    BY DEF Described, Nothing
  <2>l. info'[n].loss = loss /\ info'[n].at = at
    BY <1>n
  <2>1. CASE \A h \in Whole : info[h].loss = NoLoss
    <3>1. Described(b) = Nothing
      BY <2>1, <2>b, <1>e DEF IsBest
    <3>2. CASE loss = NoLoss
      <4>1. c = NoGeneration
        BY <3>2, <2>1, <2>c, <2>l, <1>n, <1>w
      <4> QED
        BY <3>1, <3>2, <4>1, <2>d
    <3>3. CASE loss # NoLoss
      <4>1. c = n
        BY <3>3, <2>1, <2>c, <2>l, <1>n, <1>w
      <4> QED
        BY <3>1, <3>3, <4>1, <2>d, <2>l, <1>n
    <3> QED
      BY <3>2, <3>3
  <2>2. CASE ~\A h \in Whole : info[h].loss = NoLoss
    <3>1. /\ b \in Whole /\ info[b].loss # NoLoss
          /\ \A h \in Whole : info[h].loss # NoLoss =>
               info[b].loss < info[h].loss \/ (info[b].loss = info[h].loss /\ b <= h)
      BY <2>2, <2>b DEF IsBest, Better
    <3>2. \A h \in Whole : info[h].loss # NoLoss => info[h].loss \in Nat
      BY <1>w, <1>c
    <3>3. /\ Described(b) = [id |-> b, at |-> info[b].at, loss |-> info[b].loss]
          /\ Described(b) # Nothing
      BY <3>1, <1>d
    <3>4. /\ c \in Whole' /\ info'[c].loss # NoLoss
          /\ \A h \in Whole' : info'[h].loss # NoLoss =>
               \/ info'[c].loss < info'[h].loss
               \/ info'[c].loss = info'[h].loss /\ c <= h
      BY <3>1, <2>c, <1>n, <1>w
    <3>5. info'[b] = info[b] /\ b < n /\ b \in Whole' /\ b # NoGeneration /\ b \in Nat
      BY <3>1, <1>n, <1>w
    <3>6. CASE loss # NoLoss /\ loss < info[b].loss
      <4>1. c = n
        <5> SUFFICES ASSUME c # n PROVE FALSE
          OBVIOUS
        <5>1. c \in Whole /\ info'[c] = info[c] /\ info[c].loss \in Nat
          BY <3>2, <3>4, <1>n, <1>w
        <5>2. info[b].loss <= info[c].loss /\ info[b].loss \in Nat
          BY <3>1, <3>2, <3>4, <5>1
        <5>3. info[c].loss <= loss
          <6>1. n \in Whole' /\ info'[n].loss = loss /\ loss # NoLoss /\ loss \in Nat
            BY <3>6, <2>l, <1>n, <1>c
          <6>2. info'[c].loss < loss \/ info'[c].loss = loss
            BY <6>1, <3>4
          <6> QED
            BY <6>1, <6>2, <5>1
        <5> QED
          BY <3>6, <5>1, <5>2, <5>3, <1>c
      <4> QED
        BY <3>6, <3>3, <4>1, <2>d, <2>l, <1>n
    <3>7. CASE ~(loss # NoLoss /\ loss < info[b].loss)
      <4>1. c # n
        <5> SUFFICES ASSUME c = n PROVE FALSE
          OBVIOUS
        <5>1. loss # NoLoss /\ loss \in Nat /\ info[b].loss \in Nat
          BY <3>1, <3>2, <3>4, <2>l, <1>c
        <5>2. loss < info[b].loss \/ (loss = info[b].loss /\ n <= b)
          BY <3>1, <3>4, <3>5, <2>l
        <5> QED
          BY <5>1, <5>2, <3>5, <3>7, <1>n
      <4>2. c \in Whole /\ info'[c] = info[c] /\ info[c].loss \in Nat /\ c \in Nat
        BY <4>1, <3>2, <3>4, <1>n, <1>w
      <4>3. /\ info[b].loss < info[c].loss \/ (info[b].loss = info[c].loss /\ b <= c)
            /\ info[c].loss < info[b].loss \/ (info[c].loss = info[b].loss /\ c <= b)
        BY <3>1, <3>4, <3>5, <4>2
      <4>4. c = b
        BY <4>2, <4>3, <3>1, <3>2, <3>5
      <4> QED
        BY <4>4, <3>3, <3>5, <3>7, <2>d
    <3> QED
      BY <3>6, <3>7
  <2> QED
    BY <2>1, <2>2
<1>5. ASSUME NEW m \in Boundaries
      PROVE  Described(Reaches(Whole, m))' =
               IF Described(Reaches(Whole, m)) = Nothing /\ at >= m
               THEN g ELSE Described(Reaches(Whole, m))
  <2> DEFINE r == Reaches(Whole, m)
             q == Reaches(Whole, m)'
             R == {h \in Whole : info[h].at >= m}
             Q == {h \in Whole' : info'[h].at >= m}
  <2>r. IsFirst(R, r)
    BY <1>s DEF Selected, IsReached
  <2>q. IsFirst(Q, q)
    <3>1. IsReached(Whole, m, Reaches(Whole, m))'
      BY <1>s DEF Selected
    <3> QED
      BY <3>1 DEF IsReached, IsFirst
  <2>d. Described(Reaches(Whole, m))' = IF q = NoGeneration THEN Nothing
          ELSE [id |-> q, at |-> info'[q].at, loss |-> info'[q].loss]
    BY DEF Described, Nothing
  <2>e. Q = IF at >= m THEN R \cup {n} ELSE R
    BY <1>n, <1>w
  <2>f. /\ \A h \in R : /\ h \in Whole /\ h \in Nat /\ h < n /\ h # NoGeneration
                        /\ info'[h] = info[h] /\ info[h].at >= m
        /\ R # {} => at >= m
    <3>1. \A h \in R : /\ h \in Whole /\ h \in Nat /\ h < n /\ h # NoGeneration
                       /\ info'[h] = info[h] /\ info[h].at >= m
      BY <1>w
    <3>2. \A h \in R : at >= m
      BY <1>w, <1>c
    <3> QED
      BY <3>1, <3>2
  <2> HIDE DEF R, Q, r, q
  <2>1. CASE R = {}
    <3>1. r = NoGeneration /\ Described(r) = Nothing
      BY <2>1, <2>r, <1>e DEF IsFirst
    <3>2. CASE at >= m
      <4>1. q = n
        BY <2>1, <2>e, <2>q, <3>2 DEF IsFirst
      <4> QED
        BY <3>1, <3>2, <4>1, <2>d, <1>n DEF r
    <3>3. CASE ~(at >= m)
      <4>1. q = NoGeneration
        BY <2>1, <2>e, <2>q, <3>3 DEF IsFirst
      <4> QED
        BY <3>1, <3>3, <4>1, <2>d DEF r
    <3> QED
      BY <3>2, <3>3
  <2>2. CASE R # {}
    <3>1. r \in R /\ \A h \in R : r <= h
      BY <2>2, <2>r DEF IsFirst
    <3>2. q = r
      BY <2>2, <2>e, <2>f, <2>q, <3>1, <1>n DEF IsFirst
    <3>3. /\ Described(r) = [id |-> r, at |-> info[r].at, loss |-> info[r].loss]
          /\ Described(r) # Nothing
      BY <3>1, <2>f, <1>d
    <3> QED
      BY <3>1, <3>2, <3>3, <2>d, <2>f DEF r
  <2> QED
    BY <2>1, <2>2
<1> QED
  BY <1>2, <1>3, <1>4, <1>5

\* A policy is bound while there is nothing to keep, and stays.
LEMMA PolicyIsFirst ==
    ASSUME [Next]_vars, ~bound, bound' PROVE Present = {} /\ UNCHANGED disk
BY DEF Next, Open, Close, Reconcile, Save, Abort, Finalize, ProjectLatest, ProjectBest,
       PublishRetention, Unlink, RemoveDirectory, Crash, ScanStart, ScanNext, directory, vars

\* A bound policy stays bound.
LEMMA PolicyStays == ASSUME [Next]_vars, bound PROVE bound'
<1>1. ASSUME NEW saves \in BOOLEAN, NEW declares \in BOOLEAN, Open(saves, declares) PROVE bound'
  BY <1>1, Zenon DEF Open
<1>2. CASE ~\E saves, declares \in BOOLEAN : Open(saves, declares)
  <2>1. bound' = bound
    BY <1>2 DEF Next, Close, Reconcile, Save, Abort, Finalize, ProjectLatest, ProjectBest,
           PublishRetention, Unlink, RemoveDirectory, Crash, ScanStart, ScanNext, directory, vars
  <2> QED
    BY <2>1, Zenon
<1> QED
  BY <1>1, <1>2

\* Only the rename of a generation moves the newest, the best or a milestone's
\* generation that can be read back; no prune, crash, repair or lost pointer
\* does (RecoveryPoint).
THEOREM DirectoryKeepsPromise == Spec => RecoverySpec
<1>1. Init => Promise!Init
  <2> SUFFICES ASSUME Init PROVE Promise!Init
    OBVIOUS
  <2>1. Whole = {} /\ bound = FALSE
    BY DEF Init, Whole
  <2>2. LastOf(Whole) = NoGeneration /\ BestOf(Whole) = NoGeneration
    BY <2>1 DEF LastOf, BestOf
  <2> QED
    BY <2>1, <2>2 DEF Promise!Init, Described
<1>2. StoreInv /\ [Next]_vars => [Promise!Next]_(Promise!promised)
  <2> SUFFICES ASSUME StoreInv, [Next]_vars
               PROVE  Promise!Next \/ UNCHANGED Promise!promised
    OBVIOUS
  <2>1. ASSUME NEW at \in Positions, NEW loss \in Losses \cup {NoLoss}, Finalize(at, loss)
        PROVE  Promise!Next
    <3>b. bound' = bound
      BY <2>1 DEF Finalize
    <3>1. PICK n \in Generations : LET g == [id |-> n, at |-> at, loss |-> loss] IN
             /\ Described(LastOf(Whole))' = g /\ g # Nothing
             /\ IF Described(LastOf(Whole)) = Nothing THEN n = 1
                ELSE n = Described(LastOf(Whole)).id + 1 /\ at >= Described(LastOf(Whole)).at
             /\ g # Described(LastOf(Whole))
             /\ Described(BestOf(Whole))' =
                  IF /\ loss # NoLoss
                     /\ \/ Described(BestOf(Whole)) = Nothing
                        \/ loss < Described(BestOf(Whole)).loss
                  THEN g ELSE Described(BestOf(Whole))
             /\ \A m \in Boundaries : Described(Reaches(Whole, m))' =
                  IF Described(Reaches(Whole, m)) = Nothing /\ at >= m
                  THEN g ELSE Described(Reaches(Whole, m))
      BY <2>1, RenameCommits
    <3> QED
      BY <3>1, <3>b DEF Promise!Next, Promise!Commit, Promise!Improves
  <2>2. ASSUME ~\E at \in Positions, loss \in Losses \cup {NoLoss} : Finalize(at, loss)
        PROVE  Promise!Next \/ UNCHANGED Promise!promised
    <3>m. /\ \A g \in Whole' : info'[g] = info[g]
          /\ LastOf(Whole)' = LastOf(Whole) /\ BestOf(Whole)' = BestOf(Whole)
          /\ Protected(Whole) \subseteq Whole'
          /\ bound => \A m \in Boundaries : Reaches(Whole, m)' = Reaches(Whole, m)
      BY <2>2, OnlyRenameMoves
    <3>s. Selected /\ Selected'
      BY TypesKept, OrderKept, DirectorySelects, DirectorySelectsNext DEF StoreInv
    <3>1. Described(LastOf(Whole))' = Described(LastOf(Whole))
      <4>1. LastOf(Whole) # NoGeneration => LastOf(Whole) \in Whole'
        BY <3>m DEF Protected
      <4> QED
        BY <4>1, <3>m DEF Described, Nothing
    <3>2. Described(BestOf(Whole))' = Described(BestOf(Whole))
      <4>1. BestOf(Whole) # NoGeneration => BestOf(Whole) \in Whole'
        BY <3>m DEF Protected
      <4> QED
        BY <4>1, <3>m DEF Described, Nothing
    <3>3. CASE bound
      <4>1. bound' = TRUE /\ bound = TRUE
        BY <3>3, PolicyStays DEF StoreInv, TypeOK
      <4>2. ASSUME NEW m \in Boundaries
            PROVE  Described(Reaches(Whole, m))' = Described(Reaches(Whole, m))
        <5>1. Reaches(Whole, m)' # NoGeneration => Reaches(Whole, m)' \in Whole'
          <6>1. IsReached(Whole, m, Reaches(Whole, m))'
            BY <3>s DEF Selected
          <6> QED
            BY <6>1 DEF IsReached, IsFirst
        <5> QED
          BY <5>1, <3>3, <3>m DEF Described, Nothing
      <4> QED
        BY <3>1, <3>2, <4>1, <4>2 DEF Promise!promised
    <3>4. CASE ~bound /\ ~bound'
      BY <3>1, <3>2, <3>4, TypesKept DEF Promise!promised, StoreInv, TypeOK
    <3>5. CASE ~bound /\ bound'
      <4>1. Present = {} /\ UNCHANGED disk
        BY <3>5, PolicyIsFirst
      <4>2. Whole = {} /\ Whole' = {}
        BY <4>1 DEF Whole, Present
      <4>3. Described(LastOf(Whole)) = Nothing
        BY <4>2 DEF LastOf, Described
      <4>4. ASSUME NEW m \in Boundaries PROVE Described(Reaches(Whole, m))' = Nothing
        <5>1. IsReached(Whole, m, Reaches(Whole, m))'
          BY <3>s DEF Selected
        <5>2. Reaches(Whole, m)' = NoGeneration
          BY <5>1, <4>2 DEF IsReached, IsFirst
        <5> QED
          BY <5>2 DEF Described, Nothing
      <4>5. bound' = TRUE
        BY <3>5, TypesKept DEF TypeOK
      <4> QED
        BY <3>1, <3>2, <3>5, <4>3, <4>4, <4>5 DEF Promise!Next, Promise!Declare
    <3> QED
      BY <3>3, <3>4, <3>5
  <2> QED
    BY <2>1, <2>2
<1> QED
  BY <1>1, <1>2, CheckpointInvariant, PTL DEF Spec, RecoverySpec, Promise!Spec
=============================================================================
