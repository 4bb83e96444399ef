-------------------------- MODULE HcBufferProofs --------------------------
(***************************************************************************)
(* Proofs about HcBuffer for any capacity, any packets and any number of   *)
(* tasks on either side: mutual exclusion, the ring's bookkeeping, and     *)
(* that the ring implements the bounded queue.                             *)
(***************************************************************************)
EXTENDS HcBuffer, SequenceTheorems, TLAPS

(* A packet stored but not counted yet. *)
Entering == IF \E t \in Pushers : pc[t] = "count" THEN 1 ELSE 0

(* The occupied slots, also while a task is half way through: a popper has *)
(* cleared the first, a pusher has filled the one after the last.          *)
Window ==
    \A i \in Indices : Held(i) # NULL <=> Leaving <= i /\ i < current_size + Entering

(* What the task inside the buffer has established before it goes on. *)
InsideOK ==
    /\ \A t \in Pushers :
          /\ pc[t] # "idle" => arg[t] \in Packets
          /\ pc[t] = "count" => current_size < Capacity
    /\ \A t \in Poppers :
          pc[t] = "count" => arg[t] \in Packets /\ current_size > 0

BInv == TypeOK /\ Window /\ InsideOK

-----------------------------------------------------------------------------
(* Wrapped is a one-to-one walk around the ring. *)
LEMMA WrappedType ==
  ASSUME NEW f \in Indices, NEW i \in 0 .. Capacity
  PROVE  Wrapped(f + i) \in Indices
  BY BufferAssumption DEF Wrapped, Indices

(* Two positions of one turn are two slots. *)
LEMMA WrappedInjective ==
  ASSUME NEW f \in Indices, NEW i \in Indices, NEW j \in Indices,
         Wrapped(f + i) = Wrapped(f + j)
  PROVE  i = j
  BY BufferAssumption DEF Wrapped, Indices

(* Moving the front by one moves every position by one. *)
LEMMA WrappedNext ==
  ASSUME NEW f \in Indices, NEW i \in 0 .. Capacity - 2
  PROVE  Wrapped(Wrapped(f + 1) + i) = Wrapped(f + (i + 1))
  BY BufferAssumption DEF Wrapped, Indices

(* The position behind the moved front's last is the old front's own. *)
LEMMA WrappedLast ==
  ASSUME NEW f \in Indices
  PROVE  Wrapped(Wrapped(f + 1) + (Capacity - 1)) = Wrapped(f + 0)
  BY BufferAssumption DEF Wrapped, Indices

(* Nobody inside: no slot is half moved. *)
LEMMA NobodyCounts ==
  ASSUME TypeOK, \A t \in Tasks : pc[t] # "count"
  PROVE  Leaving = 0 /\ Entering = 0
  BY DEF Leaving, Entering, Tasks

-----------------------------------------------------------------------------
(* The ring starts empty and unlocked. *)
LEMMA InitBInv == Init => BInv
<1> SUFFICES ASSUME Init PROVE BInv
  OBVIOUS
<1>1. TypeOK
  BY BufferAssumption DEF Init, TypeOK, Tasks, Indices
<1>2. Leaving = 0 /\ Entering = 0
  BY <1>1, NobodyCounts DEF Init
<1>3. Window
  <2> SUFFICES ASSUME NEW i \in Indices
               PROVE  Held(i) # NULL <=> 0 <= i /\ i < 0
    BY <1>2 DEF Init, Window
  <2>1. Wrapped(front + i) \in Indices
    BY WrappedType, BufferAssumption, <1>1 DEF TypeOK, Indices
  <2>2. Held(i) = NULL
    BY <2>1 DEF Init, Held
  <2> QED BY <2>2, BufferAssumption DEF Indices
<1>4. InsideOK
  BY DEF Init, InsideOK, Tasks
<1> QED BY <1>1, <1>3, <1>4 DEF BInv

(* A step that moves no slot, no counter and nobody in or out of the       *)
(* counting phase keeps the window.                                        *)
LEMMA WindowStutter ==
  ASSUME Window, UNCHANGED <<data, front, current_size>>,
         \A t \in Tasks : pc[t] = "count" <=> pc'[t] = "count"
  PROVE  Window'
<1>1. Leaving' = Leaving /\ Entering' = Entering
  BY DEF Leaving, Entering, Tasks
<1> QED BY <1>1 DEF Window, Held

(* Every half of a call keeps the invariant. *)
LEMMA NextBInv == BInv /\ [Next]_vars => BInv'
<1> SUFFICES ASSUME BInv, [Next]_vars PROVE BInv'
  OBVIOUS
<1> USE DEF BInv
<1>1. ASSUME NEW t \in Tasks, CallPush(t) PROVE BInv'
  <2>1. TypeOK' /\ InsideOK'
    BY <1>1, BufferAssumption DEF CallPush, TypeOK, InsideOK, Tasks
  <2>2. Window'
    BY <1>1, WindowStutter DEF CallPush, TypeOK
  <2> QED BY <2>1, <2>2
<1>2. ASSUME NEW t \in Tasks, CallPop(t) PROVE BInv'
  <2>1. TypeOK' /\ InsideOK'
    BY <1>2, BufferAssumption DEF CallPop, TypeOK, InsideOK, Tasks
  <2>2. Window'
    BY <1>2, WindowStutter DEF CallPop, TypeOK
  <2> QED BY <2>1, <2>2
<1>3. ASSUME NEW t \in Tasks, Lock(t) PROVE BInv'
  <2>1. TypeOK' /\ InsideOK'
    BY <1>3, BufferAssumption DEF Lock, TypeOK, InsideOK, Tasks
  <2>2. Window'
    BY <1>3, WindowStutter DEF Lock, TypeOK
  <2> QED BY <2>1, <2>2
<1>4. ASSUME NEW t \in Tasks, PushFull(t) PROVE BInv'
  <2>1. TypeOK' /\ InsideOK'
    BY <1>4, BufferAssumption DEF PushFull, TypeOK, InsideOK, Tasks
  <2>2. Window'
    BY <1>4, WindowStutter DEF PushFull, TypeOK
  <2> QED BY <2>1, <2>2
<1>5. ASSUME NEW t \in Tasks, PushStore(t) PROVE BInv'
  <2>1. /\ buffer_lock = t /\ arg[t] \in Packets
        /\ current_size \in Indices /\ current_size < Capacity
    BY <1>5, BufferAssumption DEF PushStore, TypeOK, InsideOK, Indices
  <2>2. TypeOK'
    BY <1>5, <2>1, BufferAssumption DEF PushStore, TypeOK, Tasks
  <2>3. InsideOK'
    BY <1>5, <2>1, BufferAssumption DEF PushStore, TypeOK, InsideOK, Tasks
  <2>4. Leaving = 0 /\ Entering = 0
    BY <1>5, <2>1, NobodyCounts DEF PushStore, TypeOK
  <2>5. Leaving' = 0 /\ Entering' = 1
    <3>1. pc' = [pc EXCEPT ![t] = "count"] /\ t \in Pushers /\ t \notin Poppers
      BY <1>5, BufferAssumption DEF PushStore
    <3>2. pc'[t] = "count" /\ \A u \in Poppers : pc'[u] # "count"
      BY <2>1, <3>1 DEF TypeOK, Tasks
    <3> QED BY <3>1, <3>2 DEF Leaving, Entering
  <2>6. \A i \in Indices : Held(i)' = IF i = current_size THEN arg[t] ELSE Held(i)
    <3> SUFFICES ASSUME NEW i \in Indices
                 PROVE  Held(i)' = IF i = current_size THEN arg[t] ELSE Held(i)
      OBVIOUS
    <3>1. front \in Indices /\ data \in [Indices -> Packets \cup {NULL}]
      BY DEF TypeOK
    <3>2. Wrapped(front + i) \in Indices /\ Wrapped(front + current_size) \in Indices
      BY <2>1, <3>1, WrappedType, BufferAssumption DEF Indices
    <3>3. Wrapped(front + i) = Wrapped(front + current_size) <=> i = current_size
      BY <2>1, <3>1, WrappedInjective
    <3>4. data' = [data EXCEPT ![Wrapped(front + current_size)] = arg[t]] /\ front' = front
      BY <1>5 DEF PushStore
    <3> HIDE DEF Wrapped
    <3> QED BY <3>1, <3>2, <3>3, <3>4 DEF Held
  <2>7. Window'
    <3>1. current_size' = current_size /\ arg[t] # NULL
      BY <1>5, <2>1, BufferAssumption DEF PushStore
    <3>2. current_size \in Int /\ \A i \in Indices : i \in Int /\ i >= 0
      BY <2>1, BufferAssumption DEF Indices
    <3> QED BY <2>4, <2>5, <2>6, <3>1, <3>2 DEF Window
  <2> QED BY <2>2, <2>3, <2>7
<1>6. ASSUME NEW t \in Tasks, PushCount(t) PROVE BInv'
  <2>1. buffer_lock = t /\ current_size < Capacity /\ t \notin Poppers
    BY <1>6, BufferAssumption DEF PushCount, TypeOK, InsideOK
  <2>2. TypeOK'
    BY <1>6, <2>1, BufferAssumption DEF PushCount, TypeOK, Tasks
  <2>3. \A u \in Tasks : pc'[u] # "count"
    BY <1>6, <2>1 DEF PushCount, TypeOK
  <2>4. InsideOK'
    BY <1>6, <2>1, <2>3 DEF PushCount, TypeOK, InsideOK, Tasks
  <2>5. Leaving' = 0 /\ Entering' = 0
    BY <2>3 DEF Leaving, Entering, Tasks
  <2>6. Leaving = 0 /\ Entering = 1
    BY <1>6, <2>1 DEF PushCount, TypeOK, Leaving, Entering, Tasks
  <2>7. Window'
    <3> SUFFICES ASSUME NEW i \in Indices
                 PROVE  Held(i)' # NULL
                           <=> Leaving' <= i /\ i < current_size' + Entering'
      BY DEF Window
    <3>1. Held(i)' = Held(i) /\ current_size' = current_size + 1
      BY <1>6 DEF PushCount, Held
    <3>2. Held(i) # NULL <=> 0 <= i /\ i < current_size + 1
      BY <2>6 DEF Window
    <3>3. i \in Nat /\ current_size \in Nat
      BY BufferAssumption DEF TypeOK, Indices
    <3> QED BY <3>1, <3>2, <3>3, <2>5
  <2> QED BY <2>2, <2>4, <2>7
<1>7. ASSUME NEW t \in Tasks, PopEmpty(t) PROVE BInv'
  <2>1. TypeOK' /\ InsideOK'
    BY <1>7, BufferAssumption DEF PopEmpty, TypeOK, InsideOK, Tasks
  <2>2. Window'
    BY <1>7, WindowStutter DEF PopEmpty, TypeOK
  <2> QED BY <2>1, <2>2
<1>8. ASSUME NEW t \in Tasks, PopTake(t) PROVE BInv'
  <2>1. /\ buffer_lock = t /\ current_size \in 1 .. Capacity /\ t \notin Pushers
        /\ front \in Indices /\ data \in [Indices -> Packets \cup {NULL}]
        /\ 0 \in Indices
    BY <1>8, BufferAssumption DEF PopTake, TypeOK, Indices
  <2>2. Leaving = 0 /\ Entering = 0
    BY <1>8, <2>1, NobodyCounts DEF PopTake, TypeOK
  <2>3. Wrapped(front + 0) = front
    BY <2>1, BufferAssumption DEF Wrapped, Indices
  <2>4. data[front] # NULL /\ data[front] \in Packets
    <3>1. Held(0) # NULL
      BY <2>1, <2>2 DEF Window
    <3> QED BY <2>1, <2>3, <3>1 DEF Held
  <2>5. TypeOK'
    BY <1>8, <2>1, <2>4 DEF PopTake, TypeOK, Tasks
  <2>6. InsideOK'
    BY <1>8, <2>1, <2>4 DEF PopTake, TypeOK, InsideOK, Tasks
  <2>7. Leaving' = 1 /\ Entering' = 0
    <3>1. pc' = [pc EXCEPT ![t] = "count"] /\ t \in Poppers
      BY <1>8 DEF PopTake
    <3>2. pc'[t] = "count" /\ \A u \in Pushers : pc'[u] # "count"
      BY <2>1, <3>1 DEF TypeOK, Tasks
    <3> QED BY <3>1, <3>2 DEF Leaving, Entering
  <2>8. \A i \in Indices : Held(i)' = IF i = 0 THEN NULL ELSE Held(i)
    <3> SUFFICES ASSUME NEW i \in Indices
                 PROVE  Held(i)' = IF i = 0 THEN NULL ELSE Held(i)
      OBVIOUS
    <3>1. Wrapped(front + i) \in Indices
      BY <2>1, WrappedType, BufferAssumption DEF Indices
    <3>2. Wrapped(front + i) = front <=> i = 0
      BY <2>1, <2>3, WrappedInjective
    <3>3. data' = [data EXCEPT ![front] = NULL] /\ front' = front
      BY <1>8 DEF PopTake
    <3> QED BY <2>1, <3>1, <3>2, <3>3 DEF Held
  <2>9. Window'
    <3>1. current_size' = current_size
      BY <1>8 DEF PopTake
    <3>2. current_size \in Int /\ \A i \in Indices : i \in Int /\ i >= 0
      BY <2>1, BufferAssumption DEF Indices
    <3> QED BY <2>1, <2>2, <2>7, <2>8, <3>1, <3>2 DEF Window
  <2> QED BY <2>5, <2>6, <2>9
<1>9. ASSUME NEW t \in Tasks, PopCount(t) PROVE BInv'
  <2>1. /\ buffer_lock = t /\ current_size \in 1 .. Capacity /\ t \notin Pushers
        /\ arg[t] \in Packets /\ front \in Indices
    BY <1>9, BufferAssumption DEF PopCount, TypeOK, InsideOK
  <2>2. Wrapped(front + 1) \in Indices
    BY <2>1, WrappedType, BufferAssumption
  <2>3. TypeOK'
    BY <1>9, <2>1, <2>2, BufferAssumption DEF PopCount, TypeOK, Tasks
  <2>4. \A u \in Tasks : pc'[u] # "count"
    BY <1>9, <2>1 DEF PopCount, TypeOK
  <2>5. InsideOK'
    BY <1>9, <2>1, <2>4 DEF PopCount, TypeOK, InsideOK, Tasks
  <2>6. Leaving' = 0 /\ Entering' = 0
    BY <2>4 DEF Leaving, Entering, Tasks
  <2>7. Leaving = 1 /\ Entering = 0
    BY <1>9, <2>1 DEF PopCount, TypeOK, Leaving, Entering, Tasks
  <2>8. /\ \A i \in 0 .. Capacity - 2 : Held(i)' = Held(i + 1)
        /\ Held(Capacity - 1)' = Held(0)
    BY <1>9, <2>1, WrappedNext, WrappedLast DEF PopCount, Held
  <2>9. Window'
    <3> SUFFICES ASSUME NEW i \in Indices
                 PROVE  Held(i)' # NULL <=> i < current_size - 1
      BY <1>9, <2>1, <2>6 DEF PopCount, Window, Indices
    <3>1. CASE i = Capacity - 1
      <4>1. Held(0) = NULL
        BY <2>7, BufferAssumption DEF Window, Indices
      <4> QED BY <2>1, <2>8, <3>1, <4>1, BufferAssumption
    <3>2. CASE i # Capacity - 1
      <4>1. i \in 0 .. Capacity - 2 /\ i + 1 \in Indices
        BY <3>2, BufferAssumption DEF Indices
      <4>2. Held(i + 1) # NULL <=> 1 <= i + 1 /\ i + 1 < current_size
        BY <2>1, <2>7, <4>1 DEF Window
      <4> QED BY <2>1, <2>8, <4>1, <4>2
    <3> QED BY <3>1, <3>2
  <2> QED BY <2>3, <2>5, <2>9
<1>10. CASE UNCHANGED vars
  BY <1>10 DEF vars, TypeOK, InsideOK, Window, Held, Leaving, Entering
<1> QED BY <1>1, <1>2, <1>3, <1>4, <1>5, <1>6, <1>7, <1>8, <1>9, <1>10 DEF Next, Step

(* The ring's invariant holds in every reachable state. *)
THEOREM BufferInvariance == Spec => []BInv
<1>1. Init => BInv
  BY InitBInv
<1>2. BInv /\ [Next]_vars => BInv'
  BY NextBInv
<1> QED BY <1>1, <1>2, PTL DEF Spec

(* Types, with mutual exclusion: only the task that holds the lock is      *)
(* inside the buffer.                                                      *)
THEOREM BufferTypeCorrect == Spec => []TypeOK
<1>1. BInv => TypeOK
  BY DEF BInv
<1> QED BY <1>1, BufferInvariance, PTL

(* While the buffer is unlocked its occupied slots are the current_size    *)
(* ones from the front on.                                                 *)
THEOREM BufferSlotsMatch == Spec => []SlotsMatch
<1>1. BInv => SlotsMatch
  <2> SUFFICES ASSUME BInv, buffer_lock = None
               PROVE  \A i \in Indices : Held(i) # NULL <=> i < current_size
    BY DEF SlotsMatch
  <2>1. \A t \in Tasks : pc[t] # "count"
    BY BufferAssumption DEF BInv, TypeOK, Tasks
  <2>2. Leaving = 0 /\ Entering = 0
    BY <2>1, NobodyCounts DEF BInv
  <2> QED BY <2>2, BufferAssumption DEF BInv, Window, TypeOK, Indices
<1> QED BY <1>1, BufferInvariance, PTL

-----------------------------------------------------------------------------
(* What the refinement needs beside the ring's invariant: packets on their *)
(* way in are no longer fresh and are different, and one that is stored is *)
(* the one behind the last.                                                *)
Apart ==
    /\ \A t \in Pushers : pc[t] # "idle" => arg[t] \notin fresh
    /\ \A t, u \in Pushers :
          pc[t] # "idle" /\ pc[u] # "idle" /\ arg[t] = arg[u] => t = u

Stored == \A t \in Pushers : pc[t] = "count" => Held(current_size) = arg[t]

FInv == BInv /\ Apart /\ Stored

(* A choice with one candidate. *)
LEMMA ChooseOnly ==
  ASSUME NEW S, NEW f, NEW t \in S, f[t] = "count",
         \A u \in S : f[u] = "count" => u = t
  PROVE  (CHOOSE u \in S : f[u] = "count") = t
  OBVIOUS

(* A function on 1 .. n is a sequence of length n. *)
LEMMA SeqOfFunction ==
  ASSUME NEW S, NEW n \in Nat, NEW f \in [1 .. n -> S]
  PROVE  f \in Seq(S) /\ Len(f) = n
<1>1. f \in Seq(S)
  BY SeqDef
<1>2. Len(f) \in Nat /\ DOMAIN f = 1 .. Len(f)
  BY <1>1, LenProperties
<1>3. 1 .. n = 1 .. Len(f)
  BY <1>2
<1> QED BY <1>1, <1>2, <1>3

(* Whoever is inside is there alone. *)
LEMMA InsideAlone ==
  ASSUME TypeOK, NEW t \in Tasks, pc[t] \in {"test", "count"}
  PROVE  \A u \in Tasks : pc[u] \in {"test", "count"} => u = t
  BY DEF TypeOK

(* The packets held, while nobody is between clearing and counting. *)
LEMMA HoldingQuiet ==
  BInv /\ Leaving = 0 =>
      /\ Holding = [i \in 1 .. current_size |-> Held(i - 1)]
      /\ Holding \in Seq(Packets \cup {NULL})
      /\ Len(Holding) = current_size
<1> SUFFICES ASSUME BInv, Leaving = 0
             PROVE  /\ Holding = [i \in 1 .. current_size |-> Held(i - 1)]
                    /\ Holding \in Seq(Packets \cup {NULL})
                    /\ Len(Holding) = current_size
  OBVIOUS
<1>1. current_size \in Nat /\ current_size <= Capacity
  BY BufferAssumption DEF BInv, TypeOK
<1>2. Holding = [i \in 1 .. current_size |-> Held(i - 1)]
  <2>1. current_size - 0 = current_size
    BY <1>1
  <2>2. \A i \in 1 .. current_size : 0 + i - 1 = i - 1
    OBVIOUS
  <2> QED BY <2>1, <2>2 DEF Holding
<1>3. \A i \in 1 .. current_size : Held(i - 1) \in Packets \cup {NULL}
  <2> SUFFICES ASSUME NEW i \in 1 .. current_size
               PROVE  Held(i - 1) \in Packets \cup {NULL}
    OBVIOUS
  <2>1. i - 1 \in 0 .. Capacity /\ front \in Indices
    BY <1>1, BufferAssumption DEF BInv, TypeOK
  <2>2. Wrapped(front + (i - 1)) \in Indices
    BY <2>1, WrappedType
  <2> QED BY <2>2 DEF Held, BInv, TypeOK
<1>4. Holding \in [1 .. current_size -> Packets \cup {NULL}]
  BY <1>2, <1>3
<1> QED BY <1>1, <1>2, <1>4, SeqOfFunction

(* Every step keeps the packets on their way in apart. *)
LEMMA NextApart == BInv /\ Apart /\ [Next]_vars => Apart'
<1> SUFFICES ASSUME BInv, Apart, [Next]_vars PROVE Apart'
  OBVIOUS
<1>0. pc \in [Tasks -> {"idle", "lock", "test", "count"}] /\ Pushers \subseteq Tasks
      /\ arg \in [Tasks -> Packets \cup {NULL}] /\ Poppers \cap Pushers = {}
  BY BufferAssumption DEF BInv, TypeOK, Tasks
<1>1. ASSUME NEW t \in Tasks, CallPush(t) PROVE Apart'
  BY <1>0, <1>1 DEF CallPush, Apart
<1>2. ASSUME NEW t \in Tasks, PushFull(t) \/ PushCount(t) PROVE Apart'
  BY <1>0, <1>2 DEF PushFull, PushCount, Apart
<1>3. ASSUME NEW t \in Tasks, PushStore(t) \/ Lock(t) PROVE Apart'
  BY <1>0, <1>3 DEF PushStore, Lock, Apart
<1>4. ASSUME NEW t \in Tasks, CallPop(t) \/ PopEmpty(t) \/ PopTake(t) \/ PopCount(t)
      PROVE  Apart'
  <2>1. /\ fresh' = fresh
        /\ \A u \in Pushers : pc'[u] = pc[u] /\ arg'[u] = arg[u]
    BY <1>0, <1>4 DEF CallPop, PopEmpty, PopTake, PopCount
  <2> QED BY <2>1 DEF Apart
<1>5. CASE UNCHANGED vars
  BY <1>5 DEF vars, Apart
<1> QED BY <1>1, <1>2, <1>3, <1>4, <1>5 DEF Next, Step

(* A stored packet is where its pusher put it until it is counted. *)
LEMMA NextStored == BInv /\ Stored /\ [Next]_vars => Stored'
<1> SUFFICES ASSUME BInv, Stored, [Next]_vars PROVE Stored'
  OBVIOUS
<1>0. pc \in [Tasks -> {"idle", "lock", "test", "count"}] /\ Pushers \subseteq Tasks
      /\ arg \in [Tasks -> Packets \cup {NULL}] /\ Poppers \cap Pushers = {}
      /\ TypeOK
  BY BufferAssumption DEF BInv, TypeOK, Tasks
<1>1. ASSUME NEW t \in Tasks, CallPush(t) \/ CallPop(t) \/ Lock(t) PROVE Stored'
  <2>1. /\ UNCHANGED <<data, front, current_size>>
        /\ \A u \in Tasks : pc'[u] = "count" => pc[u] = "count" /\ arg'[u] = arg[u]
    BY <1>0, <1>1 DEF CallPush, CallPop, Lock
  <2> QED BY <1>0, <2>1 DEF Stored, Held
<1>2. ASSUME NEW t \in Tasks, PushStore(t) PROVE Stored'
  <2>1. \A u \in Tasks : pc[u] = "count" => u = t
    BY <1>0, <1>2, InsideAlone DEF PushStore
  <2>2. \A u \in Pushers : pc'[u] = "count" => u = t
    BY <1>0, <1>2, <2>1 DEF PushStore
  <2>3. front \in Indices /\ current_size \in 0 .. Capacity
        /\ data \in [Indices -> Packets \cup {NULL}]
    BY <1>0 DEF TypeOK
  <2>4. Wrapped(front + current_size) \in Indices
    BY <2>3, WrappedType
  <2>5. Held(current_size)' = arg[t] /\ arg'[t] = arg[t]
    BY <1>2, <2>3, <2>4 DEF PushStore, Held
  <2> QED BY <2>2, <2>5 DEF Stored
<1>3. ASSUME NEW t \in Tasks,
             \/ PushFull(t) \/ PushCount(t)
             \/ PopEmpty(t) \/ PopTake(t) \/ PopCount(t)
      PROVE  Stored'
  <2>1. pc[t] \in {"test", "count"}
    BY <1>3 DEF PushFull, PushCount, PopEmpty, PopTake, PopCount
  <2>2. \A u \in Tasks : pc[u] = "count" => u = t
    BY <1>0, <2>1, InsideAlone
  <2>3. \A u \in Pushers : pc'[u] # "count"
    BY <1>0, <1>3, <2>2 DEF PushFull, PushCount, PopEmpty, PopTake, PopCount
  <2> QED BY <2>3 DEF Stored
<1>4. CASE UNCHANGED vars
  BY <1>4 DEF vars, Stored, Held
<1> QED BY <1>1, <1>2, <1>3, <1>4 DEF Next, Step

(* Where nothing moves in the ring and nobody clears or counts, what the   *)
(* buffer holds and has given out is the same.                             *)
LEMMA RingSame ==
  ASSUME UNCHANGED <<data, front, current_size, taken>>,
         \A u \in Poppers : pc[u] # "count" /\ pc'[u] # "count"
  PROVE  UNCHANGED <<Holding, Popped>>
<1>1. Leaving = 0 /\ Leaving' = 0
  BY DEF Leaving
<1>2. Popped = taken /\ Popped' = taken'
  BY DEF Popped
<1>3. Holding' = Holding
  BY <1>1 DEF Holding, Held
<1> QED BY <1>2, <1>3

(* Likewise while a popper is between clearing and counting. *)
LEMMA RingSameLeaving ==
  ASSUME TypeOK, UNCHANGED <<data, front, current_size, taken>>,
         \A u \in Poppers : (pc'[u] = "count" <=> pc[u] = "count")
                             /\ (pc[u] = "count" => arg'[u] = arg[u])
  PROVE  UNCHANGED <<Holding, Popped>>
<1>1. CASE \A u \in Poppers : pc[u] # "count"
  BY <1>1, RingSame
<1>2. CASE \E u \in Poppers : pc[u] = "count"
  <2>1. PICK u \in Poppers : pc[u] = "count"
    BY <1>2
  <2>2. \A v \in Poppers : pc[v] = "count" => v = u
    BY <2>1, InsideAlone DEF Tasks
  <2>3. \A v \in Poppers : pc'[v] = "count" => v = u
    BY <2>2
  <2>4. (CHOOSE v \in Poppers : pc[v] = "count") = u
    BY <2>1, <2>2, ChooseOnly
  <2>5. (CHOOSE v \in Poppers : pc'[v] = "count") = u
    BY <2>1, <2>3, ChooseOnly
  <2>6. Popped = Append(taken, arg[u]) /\ Popped' = Append(taken', arg'[u])
    BY <2>1, <2>4, <2>5 DEF Popped
  <2>7. Leaving = 1 /\ Leaving' = 1
    BY <2>1 DEF Leaving
  <2>8. Holding' = Holding
    BY <2>7 DEF Holding, Held
  <2> QED BY <2>1, <2>6, <2>8
<1> QED BY <1>1, <1>2

(* Who is on the way in, when no pusher moves. *)
LEMMA PendingSame ==
  ASSUME \A u \in Pushers : arg'[u] = arg[u] /\ (pc'[u] = "idle" <=> pc[u] = "idle")
  PROVE  Pending' = Pending
  BY DEF Pending

(* A pusher that is done takes its packet, and only it, with it. *)
LEMMA PendingLeaves ==
  ASSUME Apart, NEW t \in Pushers, pc[t] # "idle", pc'[t] = "idle",
         \A u \in Pushers \ {t} : arg'[u] = arg[u] /\ pc'[u] = pc[u],
         fresh' = fresh
  PROVE  /\ arg[t] \in fresh \cup Pending
         /\ (fresh \cup Pending)' = (fresh \cup Pending) \ {arg[t]}
<1>1. Pending' = Pending \ {arg[t]}
  BY DEF Pending, Apart
<1>2. arg[t] \in Pending /\ arg[t] \notin fresh
  BY DEF Pending, Apart
<1> QED BY <1>1, <1>2

(* Each half of a call is a step of the bounded queue or none: a packet is *)
(* in once it is counted and out once its slot is cleared.                 *)
LEMMA StepImplements == FInv /\ BInv' /\ [Next]_vars => [Fifo!Next]_(Fifo!vars)
<1> SUFFICES ASSUME FInv, BInv', [Next]_vars
             PROVE  Fifo!Next \/ UNCHANGED Fifo!vars
  OBVIOUS
<1> DEFINE Stutter == UNCHANGED <<fresh \cup Pending, Holding, Popped, lost>>
<1>0. /\ BInv /\ TypeOK /\ Apart /\ Stored /\ Window
      /\ pc \in [Tasks -> {"idle", "lock", "test", "count"}]
      /\ arg \in [Tasks -> Packets \cup {NULL}]
      /\ Pushers \subseteq Tasks /\ Poppers \subseteq Tasks
      /\ Poppers \cap Pushers = {}
      /\ front \in Indices /\ current_size \in 0 .. Capacity /\ Capacity \in Nat \ {0}
  BY BufferAssumption DEF FInv, BInv, TypeOK, Tasks
<1>1. (BInv /\ Leaving = 0 =>
          /\ Holding = [i \in 1 .. current_size |-> Held(i - 1)]
          /\ Holding \in Seq(Packets \cup {NULL})
          /\ Len(Holding) = current_size)'
  BY HoldingQuiet, PTL
<1>2. Stutter => UNCHANGED Fifo!vars
  BY DEF Fifo!vars
<1>3. ASSUME NEW t \in Tasks, CallPush(t) PROVE Stutter
  <2>1. PICK x \in fresh : arg' = [arg EXCEPT ![t] = x] /\ fresh' = fresh \ {x}
    BY <1>3 DEF CallPush
  <2>2. /\ t \in Pushers /\ pc[t] = "idle" /\ pc' = [pc EXCEPT ![t] = "lock"]
        /\ UNCHANGED <<data, front, current_size, taken, lost>>
    BY <1>3 DEF CallPush
  <2>3. Pending' = Pending \cup {x}
    BY <1>0, <2>1, <2>2 DEF Pending
  <2>4. UNCHANGED <<Holding, Popped>>
    BY <1>0, <2>1, <2>2, RingSameLeaving
  <2> QED BY <2>1, <2>2, <2>3, <2>4
<1>4. ASSUME NEW t \in Tasks, CallPop(t) \/ Lock(t) PROVE Stutter
  <2>1. /\ UNCHANGED <<data, front, current_size, arg, fresh, taken, lost>>
        /\ \A u \in Tasks : pc'[u] = "count" <=> pc[u] = "count"
        /\ \A u \in Pushers : pc'[u] = "idle" <=> pc[u] = "idle"
    BY <1>0, <1>4 DEF CallPop, Lock
  <2>2. UNCHANGED <<Holding, Popped>>
    BY <1>0, <2>1, RingSameLeaving
  <2>3. Pending' = Pending
    BY <2>1, PendingSame
  <2> QED BY <2>1, <2>2, <2>3
<1>5. ASSUME NEW t \in Tasks, pc[t] \in {"test", "count"}, t \in Pushers
      PROVE  /\ Leaving = 0
             /\ \A u \in Poppers : pc[u] # "count"
  BY <1>0, <1>5, InsideAlone DEF Leaving
<1>6. ASSUME NEW t \in Tasks, PushFull(t) PROVE Fifo!Next
  <2>1. /\ t \in Pushers /\ pc[t] = "test" /\ current_size = Capacity
        /\ lost' = lost \cup {arg[t]} /\ arg' = [arg EXCEPT ![t] = NULL]
        /\ pc' = [pc EXCEPT ![t] = "idle"]
        /\ UNCHANGED <<data, front, current_size, fresh, taken>>
    BY <1>6 DEF PushFull
  <2>2. UNCHANGED <<Holding, Popped>>
    BY <1>0, <1>5, <2>1, RingSame
  <2>3. /\ arg[t] \in fresh \cup Pending
        /\ (fresh \cup Pending)' = (fresh \cup Pending) \ {arg[t]}
    BY <1>0, <2>1, PendingLeaves
  <2>4. Len(Holding) = Capacity
    BY <1>0, <1>5, <2>1, HoldingQuiet
  <2>5. arg[t] \in Packets
    BY <1>0, <2>1 DEF BInv, InsideOK
  <2>6. Fifo!TurnAway(arg[t])
    BY <2>1, <2>2, <2>3, <2>4 DEF Fifo!TurnAway
  <2> QED BY <2>5, <2>6 DEF Fifo!Next
<1>7. ASSUME NEW t \in Tasks, PushStore(t) PROVE Stutter
  <2>1. /\ t \in Pushers /\ pc[t] = "test" /\ current_size # Capacity
        /\ data' = [data EXCEPT ![Wrapped(front + current_size)] = arg[t]]
        /\ pc' = [pc EXCEPT ![t] = "count"]
        /\ UNCHANGED <<front, current_size, arg, fresh, taken, lost>>
    BY <1>7 DEF PushStore
  <2>2. \A u \in Poppers : pc[u] # "count" /\ pc'[u] # "count"
    BY <1>0, <1>5, <2>1
  <2>3. Leaving = 0 /\ Leaving' = 0 /\ Popped' = Popped
    BY <2>1, <2>2 DEF Leaving, Popped
  <2>4. current_size \in Indices
    BY <1>0, <2>1 DEF Indices
  <2>5. \A i \in 1 .. current_size : Held(i - 1)' = Held(i - 1)
    <3> SUFFICES ASSUME NEW i \in 1 .. current_size
                 PROVE  Held(i - 1)' = Held(i - 1)
      OBVIOUS
    <3>1. i - 1 \in Indices /\ i - 1 # current_size
      BY <1>0, <2>4 DEF Indices
    <3>2. Wrapped(front + (i - 1)) # Wrapped(front + current_size)
      BY <1>0, <2>4, <3>1, WrappedInjective
    <3>3. data'[Wrapped(front + (i - 1))] = data[Wrapped(front + (i - 1))]
      BY <1>0, <2>1, <3>2 DEF TypeOK
    <3> QED BY <2>1, <3>3 DEF Held
  <2>6. Holding' = Holding
    <3>1. Holding = [i \in 1 .. current_size |-> Held(i - 1)]
      BY <1>0, <2>3, HoldingQuiet
    <3>2. Holding' = [i \in 1 .. current_size |-> Held(i - 1)']
      BY <1>1, <2>1, <2>3
    <3> QED BY <2>5, <3>1, <3>2
  <2>7. Pending' = Pending
    BY <1>0, <2>1, PendingSame
  <2> QED BY <2>1, <2>3, <2>6, <2>7
<1>8. ASSUME NEW t \in Tasks, PushCount(t) PROVE Fifo!Next
  <2>1. /\ t \in Pushers /\ pc[t] = "count" /\ current_size' = current_size + 1
        /\ arg' = [arg EXCEPT ![t] = NULL] /\ pc' = [pc EXCEPT ![t] = "idle"]
        /\ UNCHANGED <<data, front, fresh, taken, lost>>
    BY <1>8 DEF PushCount
  <2>2. \A u \in Poppers : pc[u] # "count" /\ pc'[u] # "count"
    BY <1>0, <1>5, <2>1
  <2>3. Leaving = 0 /\ Leaving' = 0 /\ Popped' = Popped
    BY <2>1, <2>2 DEF Leaving, Popped
  <2>4. current_size < Capacity /\ arg[t] \in Packets /\ Held(current_size) = arg[t]
    BY <1>0, <2>1 DEF BInv, InsideOK, Stored
  <2>5. /\ Holding = [i \in 1 .. current_size |-> Held(i - 1)]
        /\ Holding \in Seq(Packets \cup {NULL}) /\ Len(Holding) = current_size
    BY <1>0, <2>3, HoldingQuiet
  <2>6. /\ Holding' = [i \in 1 .. current_size + 1 |-> Held(i - 1)']
        /\ Holding' \in Seq(Packets \cup {NULL}) /\ Len(Holding') = current_size + 1
    BY <1>1, <2>1, <2>3
  <2>7. Holding' = Append(Holding, arg[t])
    <3>1. \A i \in 1 .. current_size + 1 : Holding'[i] = Held(i - 1)
      BY <2>1, <2>6 DEF Held
    <3>2. \A i \in 1 .. current_size + 1 :
             Append(Holding, arg[t])[i] = IF i = current_size + 1 THEN arg[t] ELSE Held(i - 1)
      BY <1>0, <2>5
    <3>3. (current_size + 1) - 1 = current_size
      BY <1>0
    <3>4. \A i \in 1 .. current_size + 1 : Holding'[i] = Append(Holding, arg[t])[i]
      BY <2>4, <3>1, <3>2, <3>3
    <3>5. /\ Append(Holding, arg[t]) \in Seq(Packets \cup {NULL})
          /\ Len(Append(Holding, arg[t])) = current_size + 1
      <4>1. arg[t] \in Packets \cup {NULL}
        BY <2>4
      <4>2. Holding \in Seq(Packets \cup {NULL}) /\ Len(Holding) = current_size
        BY <2>5
      <4> QED BY ONLY <4>1, <4>2, AppendProperties
    <3> DEFINE old == Append(Holding, arg[t])
               new == Holding'
    <3>6. /\ new \in Seq(Packets \cup {NULL}) /\ old \in Seq(Packets \cup {NULL})
          /\ Len(new) = Len(old) /\ \A i \in 1 .. Len(new) : new[i] = old[i]
      BY <2>6, <3>4, <3>5
    <3> HIDE DEF old, new
    <3>7. new = old
      BY <3>6, SeqEqual
    <3> QED BY <3>7 DEF old, new
  <2>8. /\ arg[t] \in fresh \cup Pending
        /\ (fresh \cup Pending)' = (fresh \cup Pending) \ {arg[t]}
    BY <1>0, <2>1, PendingLeaves
  <2>9. Fifo!Put(arg[t])
    BY <2>1, <2>3, <2>4, <2>5, <2>7, <2>8 DEF Fifo!Put
  <2> QED BY <2>4, <2>9 DEF Fifo!Next
<1>9. ASSUME NEW t \in Tasks, PopEmpty(t) PROVE Stutter
  <2>1. /\ t \in Poppers /\ pc[t] = "test" /\ pc' = [pc EXCEPT ![t] = "idle"]
        /\ UNCHANGED <<data, front, current_size, arg, fresh, taken, lost>>
    BY <1>9 DEF PopEmpty
  <2>2. \A u \in Tasks : pc'[u] = "count" <=> pc[u] = "count"
    BY <1>0, <2>1
  <2>3. UNCHANGED <<Holding, Popped>>
    BY <1>0, <2>1, <2>2, RingSameLeaving
  <2>4. Pending' = Pending
    BY <1>0, <2>1, PendingSame
  <2> QED BY <2>1, <2>3, <2>4
<1>10. ASSUME NEW t \in Tasks, PopTake(t) PROVE Fifo!Next
  <2>1. /\ t \in Poppers /\ pc[t] = "test" /\ current_size # 0
        /\ arg' = [arg EXCEPT ![t] = data[front]]
        /\ data' = [data EXCEPT ![front] = NULL]
        /\ pc' = [pc EXCEPT ![t] = "count"]
        /\ UNCHANGED <<front, current_size, fresh, taken, lost>>
    BY <1>10 DEF PopTake
  <2>2. /\ \A u \in Poppers : pc[u] # "count"
        /\ \A u \in Poppers : pc'[u] = "count" => u = t
        /\ pc'[t] = "count"
    BY <1>0, <2>1, InsideAlone
  <2>3. Leaving = 0 /\ Leaving' = 1 /\ Popped = taken
    BY <2>1, <2>2 DEF Leaving, Popped
  <2>4. Popped' = Append(taken, data[front])
    <3>1. (CHOOSE u \in Poppers : pc'[u] = "count") = t
      BY <2>1, <2>2, ChooseOnly
    <3>2. arg'[t] = data[front]
      BY <1>0, <2>1
    <3> QED BY <2>1, <2>2, <3>1, <3>2 DEF Popped
  <2>5. /\ Holding = [i \in 1 .. current_size |-> Held(i - 1)]
        /\ Holding \in Seq(Packets \cup {NULL}) /\ Len(Holding) = current_size
    BY <1>0, <2>3, HoldingQuiet
  <2>6. current_size \in Nat /\ current_size >= 1 /\ Holding # <<>>
    <3>1. current_size \in Nat /\ current_size >= 1
      BY <1>0, <2>1
    <3> QED BY <2>5, <3>1, EmptySeq
  <2>7. Wrapped(front + 0) = front /\ Held(0) = data[front]
    BY <1>0 DEF Wrapped, Indices, Held
  <2>8. Head(Holding) = data[front]
    <3>1. 1 \in 1 .. current_size /\ 1 - 1 = 0
      BY <2>6
    <3>2. Holding[1] = Held(0)
      BY <2>5, <3>1
    <3> QED BY <2>5, <2>6, <2>7, <3>2
  <2>9. Holding' = [i \in 1 .. current_size - 1 |-> Held(i)']
    <3>1. Holding' = [i \in 1 .. current_size - 1 |-> Held(1 + i - 1)']
      BY <2>1, <2>3 DEF Holding
    <3>2. \A i \in 1 .. current_size - 1 : 1 + i - 1 = i
      OBVIOUS
    <3>3. \A i \in 1 .. current_size - 1 : Held(1 + i - 1)' = Held(i)'
      BY <3>2 DEF Held
    <3> QED BY <3>1, <3>3
  <2>10. \A i \in 1 .. current_size - 1 : Held(i)' = Held(i)
    <3> SUFFICES ASSUME NEW i \in 1 .. current_size - 1 PROVE Held(i)' = Held(i)
      OBVIOUS
    <3>1. i \in Indices /\ 0 \in Indices /\ i # 0
      BY <1>0, <2>6 DEF Indices
    <3>2. Wrapped(front + i) # front
      BY <1>0, <2>7, <3>1, WrappedInjective
    <3>3. data'[Wrapped(front + i)] = data[Wrapped(front + i)]
      BY <1>0, <2>1, <3>2 DEF TypeOK
    <3> QED BY <2>1, <3>3 DEF Held
  <2>11. Holding' = Tail(Holding)
    <3>1. /\ Tail(Holding) \in Seq(Packets \cup {NULL})
          /\ Len(Tail(Holding)) = current_size - 1
          /\ \A i \in 1 .. current_size - 1 : Tail(Holding)[i] = Holding[i + 1]
      BY <2>5, <2>6, HeadTailProperties
    <3>2. \A i \in 1 .. current_size - 1 : Holding[i + 1] = Held(i)
      <4> SUFFICES ASSUME NEW i \in 1 .. current_size - 1
                   PROVE  Holding[i + 1] = Held(i)
        OBVIOUS
      <4>1. i + 1 \in 1 .. current_size /\ (i + 1) - 1 = i
        BY <2>6
      <4> QED BY <2>5, <4>1
    <3>3. Tail(Holding) = [i \in 1 .. current_size - 1 |-> Tail(Holding)[i]]
      BY <3>1, LenProperties
    <3> QED BY <2>9, <2>10, <3>1, <3>2, <3>3
  <2>12. Pending' = Pending
    BY <1>0, <2>1, PendingSame
  <2>13. Fifo!Get
    BY <2>1, <2>3, <2>4, <2>6, <2>8, <2>11, <2>12 DEF Fifo!Get
  <2> QED BY <2>13 DEF Fifo!Next
<1>11. ASSUME NEW t \in Tasks, PopCount(t) PROVE Stutter
  <2>1. /\ t \in Poppers /\ pc[t] = "count" /\ front' = Wrapped(front + 1)
        /\ current_size' = current_size - 1 /\ taken' = Append(taken, arg[t])
        /\ arg' = [arg EXCEPT ![t] = NULL] /\ pc' = [pc EXCEPT ![t] = "idle"]
        /\ UNCHANGED <<data, fresh, lost>>
    BY <1>11 DEF PopCount
  <2>2. /\ \A u \in Poppers : pc[u] = "count" => u = t
        /\ \A u \in Poppers : pc'[u] # "count"
    BY <1>0, <2>1, InsideAlone
  <2>3. Leaving = 1 /\ Leaving' = 0
    BY <2>1, <2>2 DEF Leaving
  <2>4. Popped' = Popped
    <3>1. (CHOOSE u \in Poppers : pc[u] = "count") = t
      BY <2>1, <2>2, ChooseOnly
    <3> QED BY <2>1, <2>2, <3>1 DEF Popped
  <2>5. current_size >= 1
    BY <1>0, <2>1 DEF BInv, InsideOK
  <2>6. Holding = [i \in 1 .. current_size - 1 |-> Held(i)]
    <3>1. \A i \in 1 .. current_size - 1 : 1 + i - 1 = i
      OBVIOUS
    <3> QED BY <2>3, <3>1 DEF Holding
  <2>7. Holding' = [i \in 1 .. current_size - 1 |-> Held(i - 1)']
    BY <1>1, <2>1, <2>3
  <2>8. \A i \in 1 .. current_size - 1 : Held(i - 1)' = Held(i)
    <3> SUFFICES ASSUME NEW i \in 1 .. current_size - 1
                 PROVE  Held(i - 1)' = Held(i)
      OBVIOUS
    <3>1. i - 1 \in 0 .. Capacity - 2 /\ (i - 1) + 1 = i
      BY <1>0
    <3>2. Wrapped(Wrapped(front + 1) + (i - 1)) = Wrapped(front + ((i - 1) + 1))
      BY <1>0, <3>1, WrappedNext
    <3>3. Wrapped(Wrapped(front + 1) + (i - 1)) = Wrapped(front + i)
      BY <3>1, <3>2
    <3> QED BY <2>1, <3>3 DEF Held
  <2>9. Holding' = Holding
    BY <2>6, <2>7, <2>8
  <2>10. Pending' = Pending
    BY <1>0, <2>1, PendingSame
  <2> QED BY <2>1, <2>4, <2>9, <2>10
<1>12. CASE UNCHANGED vars
  BY <1>12 DEF vars, Fifo!vars, Pending, Holding, Popped, Leaving, Held
<1> QED BY <1>2, <1>3, <1>4, <1>6, <1>7, <1>8, <1>9, <1>10, <1>11, <1>12 DEF Next, Step

(* The ring behind its mutex implements the bounded queue: whatever the    *)
(* interleaving of its users, packets come out once each in the order they *)
(* were counted in, and one is turned away only by a full buffer.          *)
THEOREM BufferImplementsFifo == Spec => FifoSpec
<1>1. Init => FInv /\ Fifo!Init
  <2> SUFFICES ASSUME Init PROVE FInv /\ Fifo!Init
    OBVIOUS
  <2>1. FInv
    BY InitBInv DEF Init, FInv, Apart, Stored, Tasks
  <2>2. \A t \in Tasks : pc[t] = "idle"
    BY DEF Init
  <2>3. Pending = {} /\ Leaving = 0 /\ Popped = taken
    BY <2>2 DEF Pending, Leaving, Popped, Tasks
  <2>4. Holding \in Seq(Packets \cup {NULL}) /\ Len(Holding) = 0
    BY <2>1, <2>3, HoldingQuiet DEF FInv, Init
  <2>5. Holding = <<>>
    BY <2>4, EmptySeq
  <2> QED BY <2>1, <2>3, <2>5 DEF Init, Fifo!Init
<1>2. FInv /\ [Next]_vars => FInv' /\ [Fifo!Next]_(Fifo!vars)
  BY NextBInv, NextApart, NextStored, StepImplements DEF FInv
<1> QED BY <1>1, <1>2, PTL DEF Spec, FifoSpec, Fifo!Spec
=============================================================================
