----------------------------- MODULE HcBuffer -----------------------------
(***************************************************************************)
(* The packet buffer between two tasks (hc_buffer.c): a ring of pointers   *)
(* behind a mutex, filled by hc_push_buffer and emptied by hc_pop_buffer.  *)
(* Each call is split where another task can see its work half done: the   *)
(* lock is taken, the slot is written, the counters move and the lock is   *)
(* given back. fresh, taken and lost record what went in and out.          *)
(***************************************************************************)
EXTENDS Integers, Sequences

CONSTANTS
    Packets,    \* the packets that may be pushed, each once
    Capacity,   \* buffer->capacity
    Pushers,    \* tasks that call hc_push_buffer
    Poppers,    \* tasks that call hc_pop_buffer
    NULL, None  \* no packet in a slot; no task

ASSUME BufferAssumption ==
    /\ Capacity \in Nat \ {0}
    /\ NULL \notin Packets
    /\ Pushers \cap Poppers = {}
    /\ None \notin Pushers \cup Poppers

Tasks == Pushers \cup Poppers
Indices == 0 .. Capacity - 1

VARIABLES
    data,          \* buffer->data
    front,         \* buffer->front
    current_size,  \* buffer->current_size
    buffer_lock,   \* the task that holds the mutex
    pc,            \* where each task is in its call
    arg,           \* the packet a task is pushing or has popped
    fresh, taken, lost

vars == <<data, front, current_size, buffer_lock, pc, arg, fresh, taken, lost>>

(* i % capacity, for the sums below 2 * capacity that the code forms. *)
Wrapped(i) == IF i >= Capacity THEN i - Capacity ELSE i

(* hc_allocate_buffer. The array is malloc'ed; no slot is read before it   *)
(* is written, so its first contents do not matter.                        *)
Init ==
    /\ data = [i \in Indices |-> NULL]
    /\ front = 0
    /\ current_size = 0
    /\ buffer_lock = None
    /\ pc = [t \in Tasks |-> "idle"]
    /\ arg = [t \in Tasks |-> NULL]
    /\ fresh = Packets
    /\ taken = <<>>
    /\ lost = {}

(* A task calls hc_push_buffer with its next packet. *)
CallPush(t) ==
    /\ t \in Pushers
    /\ pc[t] = "idle"
    /\ \E x \in fresh :
          /\ arg' = [arg EXCEPT ![t] = x]
          /\ fresh' = fresh \ {x}
    /\ pc' = [pc EXCEPT ![t] = "lock"]
    /\ UNCHANGED <<data, front, current_size, buffer_lock, taken, lost>>

CallPop(t) ==
    /\ t \in Poppers
    /\ pc[t] = "idle"
    /\ pc' = [pc EXCEPT ![t] = "lock"]
    /\ UNCHANGED <<data, front, current_size, buffer_lock, arg, fresh, taken, lost>>

Lock(t) ==
    /\ pc[t] = "lock"
    /\ buffer_lock = None
    /\ buffer_lock' = t
    /\ pc' = [pc EXCEPT ![t] = "test"]
    /\ UNCHANGED <<data, front, current_size, arg, fresh, taken, lost>>

(* Mutants of PushFull: the early return keeps the lock                    *)
(* (hc_buffer.c:44 left out); the buffer passes for full one slot early.   *)
PushFullHolding(t) ==
    /\ t \in Pushers
    /\ pc[t] = "test"
    /\ current_size = Capacity
    /\ lost' = lost \cup {arg[t]}
    /\ arg' = [arg EXCEPT ![t] = NULL]
    /\ pc' = [pc EXCEPT ![t] = "idle"]
    /\ UNCHANGED <<data, front, current_size, buffer_lock, fresh, taken>>

PushFullEarly(t) ==
    /\ t \in Pushers
    /\ pc[t] = "test"
    /\ current_size >= Capacity - 1
    /\ lost' = lost \cup {arg[t]}
    /\ arg' = [arg EXCEPT ![t] = NULL]
    /\ buffer_lock' = None
    /\ pc' = [pc EXCEPT ![t] = "idle"]
    /\ UNCHANGED <<data, front, current_size, fresh, taken>>

(* "Buffer is full": the packet is not taken over. *)
PushFull(t) ==
    /\ t \in Pushers
    /\ pc[t] = "test"
    /\ current_size = Capacity
    /\ lost' = lost \cup {arg[t]}
    /\ arg' = [arg EXCEPT ![t] = NULL]
    /\ buffer_lock' = None
    /\ pc' = [pc EXCEPT ![t] = "idle"]
    /\ UNCHANGED <<data, front, current_size, fresh, taken>>

PushStore(t) ==
    /\ t \in Pushers
    /\ pc[t] = "test"
    /\ current_size # Capacity
    /\ data' = [data EXCEPT ![Wrapped(front + current_size)] = arg[t]]
    /\ pc' = [pc EXCEPT ![t] = "count"]
    /\ UNCHANGED <<front, current_size, buffer_lock, arg, fresh, taken, lost>>

PushCount(t) ==
    /\ t \in Pushers
    /\ pc[t] = "count"
    /\ current_size' = current_size + 1
    /\ arg' = [arg EXCEPT ![t] = NULL]
    /\ buffer_lock' = None
    /\ pc' = [pc EXCEPT ![t] = "idle"]
    /\ UNCHANGED <<data, front, fresh, taken, lost>>

(* Mutant of PopEmpty: the early return keeps the lock (hc_buffer.c:24).   *)
PopEmptyHolding(t) ==
    /\ t \in Poppers
    /\ pc[t] = "test"
    /\ current_size = 0
    /\ pc' = [pc EXCEPT ![t] = "idle"]
    /\ UNCHANGED <<data, front, current_size, buffer_lock, arg, fresh, taken, lost>>

(* "Buffer is empty": the caller gets NULL. *)
PopEmpty(t) ==
    /\ t \in Poppers
    /\ pc[t] = "test"
    /\ current_size = 0
    /\ buffer_lock' = None
    /\ pc' = [pc EXCEPT ![t] = "idle"]
    /\ UNCHANGED <<data, front, current_size, arg, fresh, taken, lost>>

(* Mutant of PopTake: the slot is not cleared (hc_buffer.c:29). *)
PopTakeCopy(t) ==
    /\ t \in Poppers
    /\ pc[t] = "test"
    /\ current_size # 0
    /\ arg' = [arg EXCEPT ![t] = data[front]]
    /\ pc' = [pc EXCEPT ![t] = "count"]
    /\ UNCHANGED <<data, front, current_size, buffer_lock, fresh, taken, lost>>

PopTake(t) ==
    /\ t \in Poppers
    /\ pc[t] = "test"
    /\ current_size # 0
    /\ arg' = [arg EXCEPT ![t] = data[front]]
    /\ data' = [data EXCEPT ![front] = NULL]
    /\ pc' = [pc EXCEPT ![t] = "count"]
    /\ UNCHANGED <<front, current_size, buffer_lock, fresh, taken, lost>>

PopCount(t) ==
    /\ t \in Poppers
    /\ pc[t] = "count"
    /\ front' = Wrapped(front + 1)
    /\ current_size' = current_size - 1
    /\ taken' = Append(taken, arg[t])
    /\ arg' = [arg EXCEPT ![t] = NULL]
    /\ buffer_lock' = None
    /\ pc' = [pc EXCEPT ![t] = "idle"]
    /\ UNCHANGED <<data, fresh, lost>>

Step(t) ==
    \/ CallPush(t) \/ CallPop(t)
    \/ PushFull(t) \/ PushStore(t) \/ PushCount(t)
    \/ PopEmpty(t) \/ PopTake(t) \/ PopCount(t)

Next == \E t \in Tasks : Lock(t) \/ Step(t)

Spec == Init /\ [][Next]_vars

(* A task that may run does. All tasks have the same priority and sleep    *)
(* between their calls (hc_engine.c:40, hc_socket_interface.c:51, 98,      *)
(* 191), so one that waits for the mutex finds it free in its turn again   *)
(* and again: strong fairness of taking it.                                *)
FairSpec ==
    /\ Spec
    /\ \A t \in Tasks : WF_vars(Step(t)) /\ SF_vars(Lock(t))

-----------------------------------------------------------------------------
(* Packets on their way in: asked for, not yet turned away or counted. *)
Pending == {arg[t] : t \in {u \in Pushers : pc[u] # "idle"}}

(* Types; the lock is held exactly by a task inside the buffer. *)
TypeOK ==
    /\ data \in [Indices -> Packets \cup {NULL}]
    /\ front \in Indices
    /\ current_size \in 0 .. Capacity
    /\ buffer_lock \in Tasks \cup {None}
    /\ pc \in [Tasks -> {"idle", "lock", "test", "count"}]
    /\ arg \in [Tasks -> Packets \cup {NULL}]
    /\ fresh \subseteq Packets /\ lost \subseteq Packets
    /\ taken \in Seq(Packets)
    /\ \A t \in Tasks : pc[t] \in {"test", "count"} <=> buffer_lock = t

(* Position i of the ring, counted from the front. *)
Held(i) == data[Wrapped(front + i)]

(* While no task is inside, the slots that hold a packet are exactly the   *)
(* current_size ones from front on: no pointer is returned twice, leaked   *)
(* by being overwritten, or read as NULL (hc_buffer.c:27-31, 55-56).       *)
SlotsMatch ==
    buffer_lock = None =>
        \A i \in Indices : Held(i) # NULL <=> i < current_size

(* The packets a user of the buffer would say it holds: a popped one has   *)
(* left when its slot is cleared, a pushed one is in once it is counted.   *)
Leaving == IF \E t \in Poppers : pc[t] = "count" THEN 1 ELSE 0
Holding == [i \in 1 .. current_size - Leaving |-> Held(Leaving + i - 1)]
Popped == IF \E t \in Poppers : pc[t] = "count"
          THEN Append(taken, arg[CHOOSE t \in Poppers : pc[t] = "count"])
          ELSE taken

(* The ring behind its mutex implements the bounded queue. *)
Fifo == INSTANCE BoundedFifo WITH
            fresh <- fresh \cup Pending, queue <- Holding, taken <- Popped

FifoSpec == Fifo!Spec

(* A task that asks for the buffer comes out of it again, on the early     *)
(* returns too.                                                            *)
CallsReturn == \A t \in Tasks : pc[t] = "lock" ~> pc[t] = "idle"

(* Everything pushed is popped or turned away in the end. *)
Drains == <>[](fresh = {} /\ current_size = 0)
=============================================================================
