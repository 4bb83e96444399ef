---------------------------- MODULE TableProofs ----------------------------
(***************************************************************************)
(* Table for any size and any entries. Inductive beside TableSound: where  *)
(* the gap may be (Phase), what the timeout loop has passed (Passed), and  *)
(* what a report that nothing disturbed has so far (Calm).                 *)
(***************************************************************************)
EXTENDS Table, FunctionTheorems, FiniteSetTheorems, TLAPS

(* Where the engine is in the array. *)
Phase ==
    /\ pc = "grow" =>
          /\ size < MaxSize
          /\ slots[size] \in Entries
          /\ slots[size] \notin Members
    /\ pc \in {"shift", "shrink"} => hole < size
    /\ pc = "shrink" => hole = size - 1
    /\ pc \in {"idle", "grow"} => ~sweeping
    /\ pc \in {"test", "shift"} => sweeping
    /\ sweeping => i <= size
    /\ sweeping /\ pc \in {"shift", "shrink"} => i <= hole

(* What the loop has passed stays, and nothing else was removed. *)
Passed ==
    sweeping =>
       /\ Members \ due = kept
       /\ \A k \in Live : k < i => slots[k] \notin due

(* An undisturbed report is the table's first rows. *)
Calm ==
    calm /\ rpc # "sleep" =>
       /\ count = size
       /\ row <= size
       /\ report = [k \in 1 .. row |-> <<slots[k - 1], slots[k - 1]>>]
       /\ rpc = "rest" => row < size /\ first = slots[row]

TInv == TypeOK /\ TableSound /\ Phase /\ Passed

-----------------------------------------------------------------------------
(* An empty table. *)
LEMMA InitTInv == Init => TInv
<1>. SUFFICES ASSUME Init PROVE TInv
  OBVIOUS
<1>1. TypeOK
  <2>1. 0 \in 0 .. MaxSize /\ 0 \in Indices
    BY TableAssumption DEF Indices
  <2>2. slots \in [Indices -> Entries \cup {Wild}]
    BY DEF Init
  <2>3. report \in Seq((Entries \cup {Wild}) \X (Entries \cup {Wild}))
    BY DEF Init
  <2>. QED
    BY <2>1, <2>2, <2>3 DEF Init, TypeOK
<1>2. Live = {}
  BY TableAssumption DEF Init, Live, Indices
<1>. QED
  BY <1>1, <1>2 DEF Init, TInv, TableSound, Phase, Passed

(* The types, step by step. *)
LEMMA TypeStep ==
    ASSUME TypeOK, TableSound, Phase, [Next]_vars
    PROVE  TypeOK'
<1>. USE TableAssumption DEF TypeOK, Indices
<1>1. CASE \E e \in Entries : AddPut(e)
  BY <1>1 DEF AddPut, readerVars
<1>2. CASE \E k \in Indices : RemoveSwap(k)
  BY <1>2 DEF RemoveSwap, Live, readerVars
<1>3. CASE \E D \in SUBSET Entries : SweepStart(D)
  <2>1. Members \subseteq Entries
    BY DEF Members, TableSound
  <2>. QED
    BY <1>3, <2>1 DEF SweepStart, readerVars
<1>4. CASE Grow
  BY <1>4 DEF Grow, Phase, readerVars
<1>5. CASE TestEntry
  BY <1>5 DEF TestEntry, readerVars
<1>6. CASE Shift
  <2>1. At(hole + 1) \in Entries \cup {Wild}
    BY DEF At
  <2>2. slots' \in [Indices -> Entries \cup {Wild}]
    BY <1>6, <2>1 DEF Shift
  <2>3. hole' \in Indices
    BY <1>6 DEF Shift, Phase
  <2>4. pc' \in {"shift", "shrink"}
    BY <1>6 DEF Shift
  <2>. QED
    BY <1>6, <2>2, <2>3, <2>4 DEF Shift, readerVars
<1>7. CASE Shrink
  <2>1. size' \in 0 .. MaxSize
    BY <1>7 DEF Shrink, Phase
  <2>2. pc' \in {"test", "idle"}
    BY <1>7 DEF Shrink
  <2>3. hole' \in Indices
    BY <1>7 DEF Shrink
  <2>. QED
    BY <1>7, <2>1, <2>2, <2>3 DEF Shrink, readerVars
<1>8. CASE SweepEnd
  <2>1. i' \in 0 .. MaxSize
    BY <1>8 DEF SweepEnd
  <2>. QED
    BY <1>8, <2>1 DEF SweepEnd, readerVars
<1>9. CASE ReadCount
  BY <1>9 DEF ReadCount, engineVars
<1>10. CASE ReadId
  BY <1>10 DEF ReadId, engineVars
<1>11. CASE ReadRest
  <2>1. row \in 0 .. MaxSize - 1
    BY <1>11 DEF ReadRest
  <2>2. slots[row] \in Entries \cup {Wild}
    BY <2>1
  <2>3. report' \in Seq((Entries \cup {Wild}) \X (Entries \cup {Wild}))
    BY <1>11, <2>2 DEF ReadRest
  <2>. QED
    BY <1>11, <2>1, <2>3 DEF ReadRest, engineVars
<1>12. CASE ReadEnd
  BY <1>12 DEF ReadEnd, engineVars
<1>13. CASE UNCHANGED vars
  BY <1>13 DEF vars, engineVars, readerVars
<1>. QED
  BY <1>1, <1>2, <1>3, <1>4, <1>5, <1>6, <1>7, <1>8, <1>9, <1>10, <1>11,
     <1>12, <1>13 DEF Next, Engine, Reader

(* What the table holds stays the same when nothing it depends on changes. *)
LEMMA TableStutter ==
    ASSUME TInv, UNCHANGED engineVars
    PROVE  TableSound' /\ Phase' /\ Passed'
  BY DEF TInv, TableSound, Phase, Passed, Members, Live, engineVars

(* An entry after the last one: it counts from the next step on. *)
LEMMA PutStep ==
    ASSUME TInv, NEW e \in Entries, AddPut(e)
    PROVE  TableSound' /\ Phase' /\ Passed' /\ Members' = Members
<1>. USE TableAssumption DEF Indices
<1>1. Live' = Live
  BY DEF AddPut, Live
<1>2. \A k \in Live : slots'[k] = slots[k]
  BY DEF AddPut, Live, TInv, TypeOK
<1>3. Members' = Members
  BY <1>1, <1>2 DEF Members
<1>4. slots'[size] = e
  BY DEF AddPut, TInv, TypeOK
<1>. QED
  BY <1>1, <1>2, <1>3, <1>4
     DEF AddPut, TInv, TypeOK, TableSound, Phase, Passed

(* It counts. *)
LEMMA GrowStep ==
    ASSUME TInv, Grow
    PROVE  /\ TableSound' /\ Phase' /\ Passed'
           /\ Members' = Members \cup {slots[size]}
<1>. USE TableAssumption DEF Indices
<1>1. Live' = Live \cup {size} /\ size \notin Live
  BY DEF Grow, Live, TInv, TypeOK, Phase
<1>2. slots' = slots
  BY DEF Grow
<1>3. Members' = Members \cup {slots[size]}
  BY <1>1, <1>2 DEF Members
<1>4. \A k \in Live : slots[k] \in Members
  BY DEF Members
<1>5. TableSound'
  BY <1>1, <1>2, <1>4 DEF Grow, TInv, TableSound, Phase
<1>. QED
  BY <1>3, <1>5 DEF Grow, TInv, Phase, Passed

(* The last entry takes the place of the removed one. *)
LEMMA SwapStep ==
    ASSUME TInv, NEW k \in Indices, RemoveSwap(k)
    PROVE  /\ TableSound' /\ Phase' /\ Passed'
           /\ Members' = Members \ {slots[k]}
<1>. USE TableAssumption DEF Indices
<1>1. /\ Live = {j \in Indices : j < size}
      /\ Live' = Live \ {size - 1}
      /\ k \in Live /\ size - 1 \in Live
  BY DEF RemoveSwap, Live, TInv, TypeOK
<1>2. /\ slots'[k] = slots[size - 1]
      /\ \A j \in Live : j # k => slots'[j] = slots[j]
  BY <1>1 DEF RemoveSwap, TInv, TypeOK
<1>3. \A j, l \in Live : slots[j] = slots[l] => j = l
  BY DEF TInv, TableSound
<1>4. Members' = Members \ {slots[k]}
  <2>1. ASSUME NEW m \in Members' PROVE m \in Members /\ m # slots[k]
    <3>1. PICK j \in Live : j # size - 1 /\ m = slots'[j]
      BY <1>1 DEF Members
    <3>. QED
      BY <1>1, <1>2, <1>3, <3>1 DEF Members
  <2>2. ASSUME NEW m \in Members, m # slots[k] PROVE m \in Members'
    <3>1. PICK j \in Live : m = slots[j]
      BY DEF Members
    <3>2. j # k
      BY <2>2, <3>1
    <3>3. CASE j = size - 1
      BY <1>1, <1>2, <3>1, <3>2, <3>3 DEF Members
    <3>4. CASE j # size - 1
      BY <1>1, <1>2, <3>1, <3>2, <3>4 DEF Members
    <3>. QED
      BY <3>3, <3>4
  <2>. QED
    BY <2>1, <2>2
<1>5. TableSound'
  BY <1>1, <1>2, <1>3 DEF TInv, TableSound
<1>. QED
  BY <1>1, <1>4, <1>5 DEF RemoveSwap, TInv, TypeOK, Phase, Passed

(* The loop starts having passed nothing. *)
LEMMA SweepStartStep ==
    ASSUME TInv, NEW D \in SUBSET Entries, SweepStart(D)
    PROVE  TableSound' /\ Phase' /\ Passed' /\ Members' = Members
<1>1. Live' = Live /\ Members' = Members
  BY DEF SweepStart, Live, Members
<1>2. \A k \in Live : k < 0 => FALSE
  BY DEF Live, Indices
<1>3. i' <= size'
  BY DEF SweepStart, TInv, TypeOK
<1>4. Passed'
  BY <1>1, <1>2 DEF SweepStart, Passed
<1>. QED
  BY <1>1, <1>3, <1>4 DEF SweepStart, TInv, TableSound, Phase

(* An entry in time is passed; one whose time is out no longer counts. *)
LEMMA TestStep ==
    ASSUME TInv, TestEntry
    PROVE  /\ TableSound' /\ Phase' /\ Passed'
           /\ Members' = Members \/ Members' = Members \ {slots[i]}
<1>. USE TableAssumption DEF Indices
<1>1. /\ Live = {k \in Indices : k < size}
      /\ i \in Live /\ slots' = slots /\ size' = size /\ sweeping
  BY DEF TestEntry, Live, TInv, TypeOK, Phase
<1>2. CASE slots[i] \in due
  <2>1. Live' = Live \ {i}
    BY <1>1, <1>2 DEF TestEntry, Live, TInv, TypeOK
  <2>2. Members' = Members \ {slots[i]}
    BY <1>1, <2>1 DEF Members, TInv, TableSound
  <2>3. Passed'
    BY <1>1, <1>2, <2>1, <2>2 DEF TestEntry, TInv, Passed
  <2>. QED
    BY <1>1, <1>2, <2>1, <2>2, <2>3 DEF TestEntry, TInv, TypeOK, TableSound, Phase
<1>3. CASE slots[i] \notin due
  <2>1. Live' = Live
    BY <1>1, <1>3 DEF TestEntry, Live, TInv, TypeOK
  <2>2. Members' = Members
    BY <1>1, <2>1 DEF Members
  <2>3. \A k \in Live : k < i + 1 => k < i \/ k = i
    BY DEF Live, TInv, TypeOK
  <2>4. Passed'
    BY <1>1, <1>3, <2>1, <2>2, <2>3 DEF TestEntry, TInv, Passed
  <2>. QED
    BY <1>1, <1>3, <2>1, <2>2, <2>4 DEF TestEntry, TInv, TypeOK, TableSound, Phase
<1>. QED
  BY <1>2, <1>3

(* The gap moves up by one. *)
LEMMA ShiftStep ==
    ASSUME TInv, Shift
    PROVE  TableSound' /\ Phase' /\ Passed' /\ Members' = Members
<1>. USE TableAssumption DEF Indices
<1>1. /\ Live = {k \in Indices : k < size /\ k # hole}
      /\ hole \in Indices /\ hole < size /\ size' = size /\ sweeping /\ i <= hole
  BY DEF Shift, Live, TInv, TypeOK, Phase
<1>2. /\ slots'[hole] = At(hole + 1)
      /\ \A k \in Live : slots'[k] = slots[k]
  BY <1>1 DEF Shift, TInv, TypeOK
<1>3. CASE hole = size - 1
  <2>1. Live' = Live
    BY <1>1, <1>3 DEF Shift, Live
  <2>2. Members' = Members
    BY <1>2, <2>1 DEF Members
  <2>. QED
    BY <1>1, <1>2, <1>3, <2>1, <2>2
       DEF Shift, TInv, TypeOK, TableSound, Phase, Passed
<1>4. CASE hole # size - 1
  <2>1. /\ Live' = (Live \ {hole + 1}) \cup {hole}
        /\ hole + 1 \in Live /\ hole \notin Live
    BY <1>1, <1>4 DEF Shift, Live, TInv, TypeOK
  <2>0. slots'[hole] = slots[hole + 1]
    BY <1>2, <2>1 DEF At, Live
  <2>2. Members' = Members
    BY <1>2, <2>0, <2>1 DEF Members
  <2>3. TableSound'
    BY <1>2, <2>0, <2>1 DEF TInv, TableSound
  <2>4. Passed'
    BY <1>1, <1>2, <2>0, <2>1, <2>2 DEF Shift, TInv, TypeOK, Passed
  <2>. QED
    BY <1>1, <1>4, <2>2, <2>3, <2>4 DEF Shift, TInv, TypeOK, Phase
<1>. QED
  BY <1>3, <1>4

(* The gap at the end goes. *)
LEMMA ShrinkStep ==
    ASSUME TInv, Shrink
    PROVE  TableSound' /\ Phase' /\ Passed' /\ Members' = Members
<1>. USE TableAssumption DEF Indices
<1>1. Live' = Live /\ slots' = slots
  BY DEF Shrink, Live, TInv, TypeOK, Phase
<1>2. Members' = Members
  BY <1>1 DEF Members
<1>. QED
  BY <1>1, <1>2 DEF Shrink, TInv, TypeOK, TableSound, Phase, Passed

(* Idle again. *)
LEMMA SweepEndStep ==
    ASSUME TInv, SweepEnd
    PROVE  TableSound' /\ Phase' /\ Passed' /\ Members' = Members
<1>1. Live' = Live /\ Members' = Members
  BY DEF SweepEnd, Live, Members
<1>. QED
  BY <1>1 DEF SweepEnd, TInv, TableSound, Phase, Passed

-----------------------------------------------------------------------------
(* Every step keeps the invariant. *)
LEMMA NextTInv == TInv /\ [Next]_vars => TInv'
<1>. SUFFICES ASSUME TInv, [Next]_vars PROVE TInv'
  OBVIOUS
<1>1. TypeOK'
  BY TypeStep DEF TInv
<1>2. TableSound' /\ Phase' /\ Passed'
  <2>1. CASE \E e \in Entries : AddPut(e)
    BY <2>1, PutStep
  <2>2. CASE \E k \in Indices : RemoveSwap(k)
    BY <2>2, SwapStep
  <2>3. CASE \E D \in SUBSET Entries : SweepStart(D)
    BY <2>3, SweepStartStep
  <2>4. CASE Engine
    BY <2>4, GrowStep, TestStep, ShiftStep, ShrinkStep, SweepEndStep DEF Engine
  <2>5. CASE ReadCount \/ Reader \/ UNCHANGED vars
    BY <2>5, TableStutter DEF ReadCount, Reader, ReadId, ReadRest, ReadEnd, vars
  <2>. QED
    BY <2>1, <2>2, <2>3, <2>4, <2>5 DEF Next
<1>. QED
  BY <1>1, <1>2 DEF TInv

(* The invariant holds throughout. *)
LEMMA TableInvariance == Spec => []TInv
<1>1. Init => TInv
  BY InitTInv
<1>2. TInv /\ [Next]_vars => TInv'
  BY NextTInv
<1>. QED
  BY <1>1, <1>2, PTL DEF Spec

(* Types, with the bounds of every index: size does not exceed the array,  *)
(* the slots the engine fills and those the reader fetches are in it. The  *)
(* timeout loop's reads end at the slot behind.                            *)
THEOREM TableTypeCorrect == Spec => []TypeOK
<1>1. TInv => TypeOK
  BY DEF TInv
<1>. QED
  BY <1>1, TableInvariance, PTL

(* The table's entries are written ones, and each is there once. *)
THEOREM TableKeepsEntries == Spec => []TableSound
<1>1. TInv => TableSound
  BY DEF TInv
<1>. QED
  BY <1>1, TableInvariance, PTL

(* The timeout loop removes what is due and nothing else. *)
THEOREM TimeoutLoopExact == Spec => []TimeoutsExact
<1>1. TInv => TimeoutsExact
  <2>. SUFFICES ASSUME TInv, sweeping PROVE TimeoutsExact
    BY DEF TimeoutsExact
  <2>1. kept \subseteq Members
    BY DEF TInv, Passed
  <2>2. ASSUME pc = "test", i >= size PROVE Members = kept
    <3>1. \A k \in Live : k < i
      BY <2>2 DEF Live, Indices, TInv, TypeOK
    <3>. QED
      BY <3>1 DEF Members, TInv, Passed
  <2>. QED
    BY <2>1, <2>2 DEF TimeoutsExact
<1>. QED
  BY <1>1, TableInvariance, PTL

(* A report stays the table's first rows until the engine changes it. *)
LEMMA NextCalm == TInv /\ Calm /\ [Next]_vars => Calm'
<1>. SUFFICES ASSUME TInv, Calm, [Next]_vars PROVE Calm'
  OBVIOUS
<1>. USE DEF Calm, TInv, TypeOK, Indices
<1>1. CASE UNCHANGED readerVars /\ Changed
  BY <1>1 DEF readerVars, Changed
<1>2. CASE UNCHANGED readerVars /\ UNCHANGED <<calm, slots, size>>
  BY <1>2 DEF readerVars
<1>3. CASE ReadCount
  <2>1. /\ row' = 0 /\ count' = size' /\ rpc' = "id" /\ 0 <= size'
        /\ report' = [k \in 1 .. 0 |-> <<slots'[k - 1], slots'[k - 1]>>]
    BY <1>3 DEF ReadCount, engineVars
  <2>. QED
    BY <2>1
<1>4. CASE ReadId
  BY <1>4 DEF ReadId, engineVars
<1>5. CASE ReadRest
  <2>. SUFFICES ASSUME calm, rpc # "sleep" PROVE Calm'
    BY <1>5 DEF ReadRest
  <2>1. /\ row \in Nat /\ row < size /\ first = slots[row]
        /\ report = [k \in 1 .. row |-> <<slots[k - 1], slots[k - 1]>>]
    BY <1>5 DEF ReadRest
  <2>2. report' = [k \in 1 .. row + 1 |-> <<slots[k - 1], slots[k - 1]>>]
    BY <1>5, <2>1 DEF ReadRest
  <2>. QED
    BY <1>5, <2>1, <2>2 DEF ReadRest, engineVars
<1>6. CASE ReadEnd
  BY <1>6 DEF ReadEnd
<1>. QED
  BY <1>1, <1>2, <1>3, <1>4, <1>5, <1>6
     DEF Next, Engine, Reader, AddPut, RemoveSwap, SweepStart, Grow, TestEntry,
         Shift, Shrink, SweepEnd, vars, engineVars

(* A report that nothing disturbed says what the table has. *)
THEOREM CalmReportsRight == Spec => []CalmReport
<1>1. Init => Calm
  BY DEF Init, Calm
<1>2. TInv /\ Calm /\ [Next]_vars => Calm'
  BY NextCalm
<1>3. TInv /\ Calm => CalmReport
  <2>. SUFFICES ASSUME TInv, Calm, calm, rpc = "id", row >= size
                PROVE  report = [k \in 1 .. count |-> <<slots[k - 1], slots[k - 1]>>]
    BY DEF CalmReport
  <2>1. row = count
    BY DEF Calm, TInv, TypeOK
  <2>. QED
    BY <2>1 DEF Calm
<1>. QED
  BY <1>1, <1>2, <1>3, TableInvariance, PTL DEF Spec

-----------------------------------------------------------------------------
(* While an entry is being added there is room for it in the set, too. *)
LEMMA RoomInSet ==
    ASSUME TInv, pc = "grow"
    PROVE  Cardinality(Members) < MaxSize
<1>. USE TableAssumption DEF Indices
<1>1. Live = 0 .. size - 1 /\ size \in Nat
  BY DEF Live, TInv, TypeOK
<1>2. IsFiniteSet(Live) /\ Cardinality(Live) = size
  BY <1>1, FS_Interval
<1>. DEFINE f == [k \in Live |-> slots[k]]
<1>3. f \in Surjection(Live, Members)
  BY DEF Surjection, Members
<1>4. IsFiniteSet(Members) /\ Cardinality(Members) <= Cardinality(Live)
  BY <1>2, <1>3, FS_Surjection
<1>5. Cardinality(Members) \in Nat
  BY <1>4, FS_CardinalityType
<1>. QED
  BY <1>2, <1>4, <1>5 DEF TInv, TypeOK, Phase

(* The set's count is this module's. *)
LEMMA SameCount == \A S : Abstract!Cardinality(S) = Cardinality(S)
  BY DEF Abstract!Cardinality, Cardinality

(* The array with its gaps is a set: every step adds an entry when there   *)
(* is room, removes one, or leaves the set as it is.                       *)
THEOREM TableImplementsSet == Spec => SetSpec
<1>1. Init => Abstract!Init
  BY TableAssumption DEF Init, Abstract!Init, Members, Live, Indices
<1>2. TInv /\ [Next]_vars => [Abstract!Next]_Members
  <2>. SUFFICES ASSUME TInv, [Next]_vars PROVE [Abstract!Next]_Members
    OBVIOUS
  <2>. USE DEF Abstract!Next, Abstract!Add, Abstract!Remove
  <2>0. Members \subseteq Entries
    BY DEF Members, TInv, TableSound
  <2>1. CASE \E e \in Entries : AddPut(e)
    BY <2>1, PutStep
  <2>2. CASE \E k \in Indices : RemoveSwap(k)
    <3>1. PICK k \in Indices : RemoveSwap(k)
      BY <2>2
    <3>2. slots[k] \in Members
      BY <3>1 DEF RemoveSwap, Members
    <3>. QED
      BY <3>1, <3>2, SwapStep
  <2>3. CASE \E D \in SUBSET Entries : SweepStart(D)
    BY <2>3, SweepStartStep
  <2>4. CASE Grow
    <3>1. slots[size] \in Entries \ Members
      BY <2>4 DEF Grow, TInv, Phase
    <3>2. Cardinality(Members) < MaxSize
      BY <2>4, RoomInSet DEF Grow
    <3>. QED
      BY <2>4, <3>1, <3>2, GrowStep, SameCount
  <2>5. CASE TestEntry
    <3>1. i \in Live
      BY <2>5, TableAssumption DEF TestEntry, Live, Indices, TInv, TypeOK
    <3>2. slots[i] \in Members
      BY <3>1 DEF Members
    <3>. QED
      BY <2>5, <3>2, TestStep
  <2>6. CASE Shift \/ Shrink \/ SweepEnd
    BY <2>6, ShiftStep, ShrinkStep, SweepEndStep
  <2>7. CASE ReadCount \/ Reader \/ UNCHANGED vars
    <3>1. UNCHANGED engineVars
      BY <2>7 DEF ReadCount, Reader, ReadId, ReadRest, ReadEnd, vars
    <3>. QED
      BY <3>1 DEF engineVars, Members, Live
  <2>. QED
    BY <2>1, <2>2, <2>3, <2>4, <2>5, <2>6, <2>7 DEF Next, Engine
<1>. QED
  BY <1>1, <1>2, TableInvariance, PTL DEF Spec, SetSpec, Abstract!Spec
=============================================================================
