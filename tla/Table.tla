------------------------------- MODULE Table -------------------------------
(***************************************************************************)
(* The neighborhood table as the array it is: entries of malloc'ed         *)
(* pointers, of which the first `size` count. The engine task adds at the  *)
(* end, removes by moving the last entry into the gap, and times entries   *)
(* out by shifting the rest down (spt.c:386-412, 728-755); the measurement *)
(* task, on the other core and without a lock, writes the table into a     *)
(* report meanwhile (hc_measure.c:70-86). A step is one access to the      *)
(* array or to its size. Entries are never freed, so a pointer stands for  *)
(* what it points to.                                                      *)
(***************************************************************************)
EXTENDS Integers, Sequences, FiniteSets

CONSTANTS
    Entries, \* pointers to entries, of different devices
    MaxSize, \* SPT_TABLE_NEIGHBORHOOD_MAX_SIZE
    Wild     \* what memory holds that was not written by the table

ASSUME TableAssumption ==
    /\ MaxSize \in Nat \ {0}
    /\ Wild \notin Entries

VARIABLES
    slots,    \* entries[]
    size,     \* the table's size
    pc,       \* the engine: "idle", "grow", "test", "shift", "shrink"
    i,        \* the timeout loop's index
    hole,     \* the slot whose entry is gone, while the array closes up
    sweeping, \* the timeout loop runs
    due,      \* entries whose time is out, for the running loop
    kept      \* entries that should be left when it ends (history)

VARIABLES
    rpc,      \* the reader: "sleep", "id", "rest"
    row,      \* its index
    count,    \* the number of entries it has written
    first,    \* the entry it has taken the id of
    report,   \* rows: the entries that a row's id and its rest come from
    calm      \* the engine has not changed the table since `count`

engineVars == <<slots, size, pc, i, hole, sweeping, due, kept>>
readerVars == <<rpc, row, count, first, report>>
vars == <<engineVars, readerVars, calm>>

Indices == 0 .. MaxSize - 1

(* What is read at index k: behind the array, whatever lies there. *)
At(k) == IF k \in Indices THEN slots[k] ELSE Wild

(* The indices of entries that are in the table. *)
Live ==
    {k \in Indices : k < size /\ ~(pc \in {"shift", "shrink"} /\ k = hole)}

Members == {slots[k] : k \in Live}

Init ==
    /\ slots = [k \in Indices |-> Wild]
    /\ size = 0
    /\ pc = "idle"
    /\ i = 0
    /\ hole = 0
    /\ sweeping = FALSE
    /\ due = {}
    /\ kept = {}
    /\ rpc = "sleep"
    /\ row = 0
    /\ count = 0
    /\ first = Wild
    /\ report = <<>>
    /\ calm = TRUE

(* A step of the engine that a report under way may show. *)
Changed == calm' = (rpc = "sleep")

-----------------------------------------------------------------------------
(* Mutant of AddPut: the limit is off by one. *)
AddPutOneMore(e) ==
    /\ pc = "idle"
    /\ e \notin Members
    /\ size <= MaxSize
    /\ slots' = [slots EXCEPT ![size] = e]
    /\ pc' = "grow"
    /\ Changed
    /\ UNCHANGED <<size, i, hole, sweeping, due, kept, readerVars>>

(* spt_add_neighbor; a full table is left as it is. *)
AddPut(e) ==
    /\ pc = "idle"
    /\ e \notin Members
    /\ size < MaxSize
    /\ slots' = [slots EXCEPT ![size] = e]
    /\ pc' = "grow"
    /\ Changed
    /\ UNCHANGED <<size, i, hole, sweeping, due, kept, readerVars>>

Grow ==
    /\ pc = "grow"
    /\ size' = size + 1
    /\ pc' = "idle"
    /\ Changed
    /\ UNCHANGED <<slots, i, hole, sweeping, due, kept, readerVars>>

(* Mutant of RemoveSwap: the slot after the last entry fills the gap. *)
RemoveSwapNext(k) ==
    /\ pc = "idle"
    /\ k \in Live
    /\ slots' = [slots EXCEPT ![k] = At(size)]
    /\ hole' = size - 1
    /\ pc' = "shrink"
    /\ Changed
    /\ UNCHANGED <<size, i, sweeping, due, kept, readerVars>>

(* spt_remove_neighbor: the last entry fills the gap. *)
RemoveSwap(k) ==
    /\ pc = "idle"
    /\ k \in Live
    /\ slots' = [slots EXCEPT ![k] = slots[size - 1]]
    /\ hole' = size - 1
    /\ pc' = "shrink"
    /\ Changed
    /\ UNCHANGED <<size, i, sweeping, due, kept, readerVars>>

(* The timeout loop of spt_maintenance: D is what it will find too old.    *)
SweepStart(D) ==
    /\ pc = "idle"
    /\ pc' = "test"
    /\ i' = 0
    /\ sweeping' = TRUE
    /\ due' = D
    /\ kept' = Members \ D
    /\ UNCHANGED <<slots, size, hole, readerVars, calm>>

(* Mutant of TestEntry: the index is set back for entries that stay, too.  *)
TestEntryBack ==
    /\ pc = "test"
    /\ i < size
    /\ IF slots[i] \in due
       THEN pc' = "shift" /\ hole' = i
       ELSE UNCHANGED <<pc, hole>>
    /\ UNCHANGED <<slots, size, i, sweeping, due, kept, readerVars, calm>>

TestEntry ==
    /\ pc = "test"
    /\ i < size
    /\ IF slots[i] \in due
       THEN pc' = "shift" /\ hole' = i /\ UNCHANGED i
       ELSE i' = i + 1 /\ UNCHANGED <<pc, hole>>
    /\ UNCHANGED <<slots, size, sweeping, due, kept, readerVars, calm>>

(* One turn of the inner loop. Its last one copies the slot past the last  *)
(* entry, which is past the array if the table was full.                   *)
Shift ==
    /\ pc = "shift"
    /\ slots' = [slots EXCEPT ![hole] = At(hole + 1)]
    /\ IF hole = size - 1
       THEN pc' = "shrink" /\ UNCHANGED hole
       ELSE hole' = hole + 1 /\ UNCHANGED pc
    /\ Changed
    /\ UNCHANGED <<size, i, sweeping, due, kept, readerVars>>

(* Mutant of Shrink: the index is not set back by one. *)
ShrinkAdvance ==
    /\ pc = "shrink"
    /\ size' = size - 1
    /\ pc' = IF sweeping THEN "test" ELSE "idle"
    /\ i' = IF sweeping THEN i + 1 ELSE i
    /\ Changed
    /\ UNCHANGED <<slots, hole, sweeping, due, kept, readerVars>>

(* size--. In the loop i-- and i++ leave the index where it is. *)
Shrink ==
    /\ pc = "shrink"
    /\ size' = size - 1
    /\ pc' = IF sweeping THEN "test" ELSE "idle"
    /\ hole' = 0
    /\ Changed
    /\ UNCHANGED <<slots, i, sweeping, due, kept, readerVars>>

SweepEnd ==
    /\ pc = "test"
    /\ i >= size
    /\ pc' = "idle"
    /\ i' = 0
    /\ sweeping' = FALSE
    /\ due' = {}
    /\ kept' = {}
    /\ UNCHANGED <<slots, size, hole, readerVars, calm>>

-----------------------------------------------------------------------------
(* log_nodestate: first the number of entries, then the entries.           *)
ReadCount ==
    /\ rpc = "sleep"
    /\ rpc' = "id"
    /\ count' = size
    /\ row' = 0
    /\ report' = <<>>
    /\ calm' = (pc \in {"idle", "test"})
    /\ UNCHANGED <<first, engineVars>>

(* Mutant of ReadId: one entry too many is read. *)
ReadIdOneMore ==
    /\ rpc = "id"
    /\ row <= size
    /\ first' = slots[row]
    /\ rpc' = "rest"
    /\ UNCHANGED <<row, count, report, engineVars, calm>>

(* size is read anew for every row. So is the pointer for every field of   *)
(* it, here once for the id and once (ReadRest) for all the others.        *)
ReadId ==
    /\ rpc = "id"
    /\ row < size
    /\ first' = slots[row]
    /\ rpc' = "rest"
    /\ UNCHANGED <<row, count, report, engineVars, calm>>

ReadRest ==
    /\ rpc = "rest"
    /\ report' = Append(report, <<first, slots[row]>>)
    /\ row' = row + 1
    /\ rpc' = "id"
    /\ first' = Wild
    /\ UNCHANGED <<count, engineVars, calm>>

(* Mutant of ReadEnd: the loop ends at size, not from it on. *)
ReadEndExact ==
    /\ rpc = "id"
    /\ row = size
    /\ rpc' = "sleep"
    /\ row' = 0
    /\ count' = 0
    /\ report' = <<>>
    /\ calm' = TRUE
    /\ UNCHANGED <<first, engineVars>>

ReadEnd ==
    /\ rpc = "id"
    /\ row >= size
    /\ rpc' = "sleep"
    /\ row' = 0
    /\ count' = 0
    /\ report' = <<>>
    /\ calm' = TRUE
    /\ UNCHANGED <<first, engineVars>>

Engine ==
    \/ Grow \/ TestEntry \/ Shift \/ Shrink \/ SweepEnd

Reader == ReadId \/ ReadRest \/ ReadEnd

Next ==
    \/ \E e \in Entries : AddPut(e)
    \/ \E k \in Indices : RemoveSwap(k)
    \/ \E D \in SUBSET Entries : SweepStart(D)
    \/ Engine \/ ReadCount \/ Reader

Spec == Init /\ [][Next]_vars

(* What either task has begun it goes on with: both run at priority 5.     *)
FairSpec == Spec /\ WF_vars(Engine) /\ WF_vars(Reader)

-----------------------------------------------------------------------------
(* Types. size does not exceed the array; what the engine writes, and what *)
(* the reader fetches although the size it has tested changes under it, is *)
(* in the array. What the timeout loop reads is not: hole + 1 is past it   *)
(* when the last entry of a full table goes (spt.c:395).                   *)
TypeOK ==
    /\ slots \in [Indices -> Entries \cup {Wild}]
    /\ size \in 0 .. MaxSize
    /\ pc \in {"idle", "grow", "test", "shift", "shrink"}
    /\ i \in 0 .. MaxSize
    /\ hole \in Indices
    /\ sweeping \in BOOLEAN
    /\ due \subseteq Entries
    /\ kept \subseteq Entries
    /\ rpc \in {"sleep", "id", "rest"}
    /\ row \in 0 .. MaxSize
    /\ rpc = "rest" => row \in Indices
    /\ count \in 0 .. MaxSize
    /\ first \in Entries \cup {Wild}
    /\ report \in Seq((Entries \cup {Wild}) \X (Entries \cup {Wild}))

(* What the table has is there, once: adding, removing by swap and timing  *)
(* out by shifts, in any order, leave no gap, no duplicate, no forgotten   *)
(* pointer below size (spt.c:728-755, 386-412), and no word read past the  *)
(* entries or the array.                                                   *)
TableSound ==
    /\ \A k \in Live : slots[k] \in Entries
    /\ \A j, k \in Live : slots[j] = slots[k] => j = k

(* The timeout loop removes exactly the entries whose time is out, also    *)
(* when they stand next to each other ("we'll set i back by one because    *)
(* we've moved table entries", spt.c:390-391), and none on the way.        *)
TimeoutsExact ==
    sweeping =>
       /\ kept \subseteq Members
       /\ pc = "test" /\ i >= size => Members = kept

Abstract == INSTANCE NeighborSet WITH members <- Members

(* The array implements a set of bounded size, which is what the model of  *)
(* the protocol takes it for.                                              *)
SetSpec == Abstract!Spec

(* A report is right if the engine lets the table alone meanwhile.         *)
CalmReport ==
    calm /\ rpc = "id" /\ row >= size =>
       report = [k \in 1 .. count |-> <<slots[k - 1], slots[k - 1]>>]

(* "First we write the number of entries. Then start writing entries"      *)
(* (hc_measure.c:71-74): a finished report has as many rows as it says,    *)
(* each of one entry.                                                      *)
ReportFaithful ==
    rpc = "id" /\ row >= size =>
       /\ Len(report) = count
       /\ \A r \in 1 .. Len(report) :
             report[r][1] = report[r][2] /\ report[r][1] # Wild

(* Every timeout loop ends, although it sets its index back. *)
SweepEnds == sweeping ~> ~sweeping

(* Every report ends, although the size it runs to changes. *)
ReportEnds == rpc # "sleep" ~> rpc = "sleep"
=============================================================================
