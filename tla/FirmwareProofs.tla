--------------------------- MODULE FirmwareProofs ---------------------------
(***************************************************************************)
(* Firmware for any number of retries, any heap and any capacity. The      *)
(* start-up rests on what may be posted when (Posted) and on where         *)
(* app_main is (Phases); ownership is inductive with the engine's variable *)
(* empty when it pops.                                                     *)
(***************************************************************************)
EXTENDS Firmware, SequenceTheorems, TLAPS

(* At most one report of the driver is open. *)
Posted ==
    \/ radio = "off" /\ events = <<>>
    \/ radio = "idle" /\ events = <<>>
    \/ radio = "idle" /\ events = <<"start">>
    \/ radio = "idle" /\ events = <<"disconnected">>
    \/ radio = "idle" /\ events = <<"gotIp", "disconnected">>
    \/ radio = "connecting" /\ events = <<>>
    \/ radio = "up" /\ events = <<>>
    \/ radio = "up" /\ events = <<"gotIp">>

(* The group lives as long as a handler is registered. *)
Phases ==
    /\ main \in {"init", "delete", "done"} => registered = {} /\ handler = "none"
    /\ main = "init" => bits = {}
    /\ main = "dropWifi" => "ip" \notin registered
    /\ main \in {"wait", "dropIp", "dropWifi"} => group = "alive"

(* Each retry was for a failure; giving up is for good. *)
Counted ==
    /\ s_retry_num <= drops
    /\ handler = "fail" \/ "failed" \in bits =>
          drops > MaxRetry /\ radio = "idle" /\ events = <<>>

(* StationTypeOK, but for what Posted says. *)
Names ==
    /\ main \in {"init", "wait", "dropIp", "dropWifi", "delete", "done"}
    /\ group \in {"none", "alive", "deleted"}
    /\ bits \subseteq {"connected", "failed"}
    /\ registered \subseteq {"wifi", "ip"}
    /\ handler \in {"none", "fail", "grant", "spawn"}
    /\ socket \in {"none", "setup", "spin"}
    /\ granted \in BOOLEAN

Counts ==
    /\ s_retry_num \in 0 .. MaxRetry
    /\ started \in 0 .. 4
    /\ drops \in Nat

SInv == Names /\ Counts /\ Posted /\ Phases /\ Counted

DInv ==
    /\ DeviceTypeOK
    /\ Owned
    /\ OnlySentLeak
    /\ pc = "pop" => packet = NULL

-----------------------------------------------------------------------------
(* Taking the head of such a queue leaves one of the others. *)
LEMMA Heads ==
    ASSUME Posted, events # <<>>
    PROVE  /\ Head(events) = "start" => radio = "idle" /\ Tail(events) = <<>>
           /\ Head(events) = "disconnected" => radio = "idle" /\ Tail(events) = <<>>
           /\ Head(events) = "gotIp" =>
                 \/ radio = "up" /\ Tail(events) = <<>>
                 \/ radio = "idle" /\ Tail(events) = <<"disconnected">>
           /\ Head(events) \in {"start", "disconnected", "gotIp"}
<1>1. /\ Tail(<<"start">>) = <<>> /\ Head(<<"start">>) = "start"
      /\ Tail(<<"disconnected">>) = <<>> /\ Head(<<"disconnected">>) = "disconnected"
      /\ Tail(<<"gotIp">>) = <<>> /\ Head(<<"gotIp">>) = "gotIp"
      /\ Tail(<<"gotIp", "disconnected">>) = <<"disconnected">>
      /\ Head(<<"gotIp", "disconnected">>) = "gotIp"
  OBVIOUS
<1>2. /\ "start" # "gotIp" /\ "start" # "disconnected" /\ "gotIp" # "disconnected"
  OBVIOUS
<1>. QED
  BY <1>1, <1>2, Zenon DEF Posted

(* The device at its start. *)
LEMMA InitSInv == StationInit => SInv
<1>. SUFFICES ASSUME StationInit PROVE SInv
  OBVIOUS
<1>1. Posted
  BY DEF StationInit, Posted
<1>2. Names
  BY DEF StationInit, Names
<1>4. Counts
  BY StationAssumption DEF StationInit, Counts
<1>3. Phases /\ Counted
  BY DEF StationInit, Phases, Counted
<1>. QED
  BY <1>1, <1>2, <1>3, <1>4 DEF SInv

LEMMA ResetSInv == StationReset => SInv'
<1>. SUFFICES ASSUME StationReset PROVE SInv'
  OBVIOUS
<1>1. Posted'
  BY DEF StationReset, Posted
<1>2. Names'
  BY DEF StationReset, Names
<1>4. Counts'
  BY StationAssumption DEF StationReset, Counts
<1>3. Phases' /\ Counted'
  BY DEF StationReset, Phases, Counted
<1>. QED
  BY <1>1, <1>2, <1>3, <1>4 DEF SInv

(* app_main's steps. *)
LEMMA MainSInv ==
    ASSUME SInv, Main
    PROVE  SInv'
<1>1. CASE Setup
  <2>1. Posted' /\ radio' = "idle"
    BY <1>1 DEF Setup, Posted
  <2>2. handler = "none" /\ bits = {}
    BY <1>1 DEF Setup, SInv, Phases
  <2>3. Names'
    BY <1>1 DEF Setup, SInv, Names
  <2>4. Counts'
    BY <1>1 DEF Setup, SInv, Counts
  <2>5. Phases' /\ Counted'
    BY <1>1, <2>2 DEF Setup, SInv, Phases, Counted
  <2>. QED
    BY <2>1, <2>3, <2>4, <2>5 DEF SInv
<1>2. CASE Wake \/ DropIp \/ DropWifi \/ DeleteGroup
  <2>1. Posted' /\ Counted'
    BY <1>2 DEF Wake, DropIp, DropWifi, DeleteGroup, SInv, Posted, Counted
  <2>2. Names'
    BY <1>2 DEF Wake, DropIp, DropWifi, DeleteGroup, SInv, Names
  <2>3. Counts'
    BY <1>2 DEF Wake, DropIp, DropWifi, DeleteGroup, SInv, Counts
  <2>4. Phases'
    <3>1. CASE Wake
      BY <3>1 DEF Wake, SInv, Phases
    <3>2. CASE DropIp
      BY <3>2 DEF DropIp, SInv, Phases
    <3>3. CASE DropWifi
      BY <3>3 DEF DropWifi, SInv, Names, Phases
    <3>4. CASE DeleteGroup
      BY <3>4 DEF DeleteGroup, SInv, Phases
    <3>. QED
      BY <1>2, <3>1, <3>2, <3>3, <3>4
  <2>. QED
    BY <2>1, <2>2, <2>3, <2>4 DEF SInv
<1>. QED
  BY <1>1, <1>2 DEF Main

(* The event loop's. *)
LEMMA EventLoopSInv ==
    ASSUME SInv, EventLoop
    PROVE  SInv'
<1>. USE StationAssumption DEF SInv, Names, Counts, Phases, Counted
<1>1. CASE Unheard
  <2>1. Posted'
    BY <1>1, Heads DEF Unheard, Posted
  <2>. QED
    BY <1>1, <2>1 DEF Unheard
<1>2. CASE OnStart
  <2>1. Posted'
    BY <1>2, Heads DEF OnStart, Posted
  <2>. QED
    BY <1>2, <2>1 DEF OnStart
<1>3. CASE OnDrop
  <2>1. radio = "idle" /\ events' = <<>>
    BY <1>3, Heads DEF OnDrop
  <2>2. Posted'
    BY <1>3, <2>1 DEF OnDrop, Posted
  <2>3. main \in {"wait", "dropIp", "dropWifi"}
    BY <1>3 DEF OnDrop
  <2>4. CASE s_retry_num < MaxRetry
    BY <1>3, <2>1, <2>2, <2>3, <2>4 DEF OnDrop
  <2>5. CASE ~(s_retry_num < MaxRetry)
    BY <1>3, <2>1, <2>2, <2>3, <2>5 DEF OnDrop
  <2>. QED
    BY <2>4, <2>5
<1>4. CASE OnGotIp
  <2>1. Posted'
    BY <1>4, Heads DEF OnGotIp, Posted
  <2>. QED
    BY <1>4, <2>1 DEF OnGotIp
<1>5. CASE SetFail
  BY <1>5 DEF SetFail, Posted
<1>6. CASE SetConnected
  BY <1>6 DEF SetConnected, Posted
<1>7. CASE Spawn
  BY <1>7 DEF Spawn, Posted
<1>. QED
  BY <1>1, <1>2, <1>3, <1>4, <1>5, <1>6, <1>7 DEF EventLoop

(* The longest queue is two events. *)
LEMMA AppendTwo == Append(<<"gotIp">>, "disconnected") = <<"gotIp", "disconnected">>
<1>. DEFINE S == {"gotIp", "disconnected"}
            s == Append(<<"gotIp">>, "disconnected")
            t == <<"gotIp", "disconnected">>
<1>1. s \in Seq(S) /\ Len(s) = 2 /\ s[1] = "gotIp" /\ s[2] = "disconnected"
  OBVIOUS
<1>2. t \in Seq(S) /\ Len(t) = 2 /\ t[1] = "gotIp" /\ t[2] = "disconnected"
  OBVIOUS
<1>. HIDE DEF s, t, S
<1>3. Len(s) = Len(t) /\ \A k \in 1 .. Len(s) : s[k] = t[k]
  BY <1>1, <1>2
<1>4. s = t
  BY <1>1, <1>2, <1>3, SeqEqual
<1>. QED
  BY <1>4 DEF s, t

(* What other tasks and the driver do. *)
LEMMA OthersSInv ==
    ASSUME SInv, Spin \/ StartTask \/ Answer \/ LoseLink
    PROVE  SInv'
<1>1. Names' /\ Phases'
  BY DEF Spin, StartTask, Answer, LoseLink, SInv, Names, Phases
<1>2. Counts'
  BY DEF Spin, StartTask, Answer, LoseLink, SInv, Counts, Tasks
<1>3. Counted'
  BY DEF Spin, StartTask, Answer, LoseLink, SInv, Counted
<1>4. Posted'
  <2>1. CASE Spin \/ StartTask
    BY <2>1 DEF Spin, StartTask, SInv, Posted
  <2>2. CASE Answer
    <3>1. events = <<>>
      BY <2>2 DEF Answer, SInv, Posted
    <3>2. \/ radio' = "idle" /\ events' = <<"disconnected">>
          \/ radio' = "up" /\ events' = <<"gotIp">>
      BY <2>2, <3>1 DEF Answer
    <3>. QED
      BY <3>2 DEF Posted
  <2>3. CASE LoseLink
    <3>1. events = <<>> \/ events = <<"gotIp">>
      BY <2>3 DEF LoseLink, SInv, Posted
    <3>2. \/ radio' = "idle" /\ events' = <<"disconnected">>
          \/ radio' = "idle" /\ events' = <<"gotIp", "disconnected">>
      <4>1. Append(<<>>, "disconnected") = <<"disconnected">>
        OBVIOUS
      <4>. QED
        BY <2>3, <3>1, <4>1, AppendTwo, Zenon DEF LoseLink
    <3>. QED
      BY <3>2 DEF Posted
  <2>. QED
    BY <2>1, <2>2, <2>3
<1>. QED
  BY <1>1, <1>2, <1>3, <1>4 DEF SInv

(* Every step of the firmware. *)
LEMMA NextSInv == SInv /\ [Next]_vars => SInv'
<1>. SUFFICES ASSUME SInv, [Next]_vars PROVE SInv'
  OBVIOUS
<1>1. CASE Fault \/ Exhausted
  BY <1>1, ResetSInv DEF Fault, Exhausted
<1>2. CASE StationStep
  BY <1>2, MainSInv, EventLoopSInv, OthersSInv DEF StationStep, Startup
<1>3. CASE UNCHANGED stationVars
  BY <1>3 DEF stationVars, SInv, Names, Counts, Posted, Phases, Counted
<1>. QED
  BY <1>1, <1>2, <1>3 DEF Next, EngineStep, SenderStep, ReceiverStep, vars

LEMMA StationInvariance == Spec => []SInv
<1>1. Init => SInv
  BY InitSInv DEF Init
<1>2. SInv /\ [Next]_vars => SInv'
  BY NextSInv
<1>. QED
  BY <1>1, <1>2, PTL DEF Spec

-----------------------------------------------------------------------------
(* What a buffer holds after a push and after a pop. *)
LEMMA Pushed ==
    ASSUME NEW q \in Seq(Packets), NEW p \in Packets
    PROVE  /\ Append(q, p) \in Seq(Packets)
           /\ Len(Append(q, p)) = Len(q) + 1
           /\ Elements(Append(q, p)) = Elements(q) \cup {p}
           /\ Distinct(q) /\ p \notin Elements(q) => Distinct(Append(q, p))
<1>1. /\ Append(q, p) \in Seq(Packets)
      /\ Len(Append(q, p)) = Len(q) + 1
      /\ \A k \in 1 .. Len(q) : Append(q, p)[k] = q[k]
      /\ Append(q, p)[Len(q) + 1] = p
  OBVIOUS
<1>2. 1 .. Len(q) + 1 = (1 .. Len(q)) \cup {Len(q) + 1}
  OBVIOUS
<1>. QED
  BY <1>1, <1>2 DEF Elements, Distinct

LEMMA Popped ==
    ASSUME NEW q \in Seq(Packets), q # <<>>, Distinct(q)
    PROVE  /\ Tail(q) \in Seq(Packets)
           /\ Len(Tail(q)) = Len(q) - 1
           /\ Head(q) \in Elements(q)
           /\ Elements(Tail(q)) = Elements(q) \ {Head(q)}
           /\ Distinct(Tail(q))
<1>1. /\ Tail(q) \in Seq(Packets)
      /\ Len(q) \in Nat \ {0}
      /\ Len(Tail(q)) = Len(q) - 1
      /\ \A k \in 1 .. Len(q) - 1 : Tail(q)[k] = q[k + 1]
      /\ Head(q) = q[1]
  OBVIOUS
<1>2. Distinct(Tail(q))
  BY <1>1 DEF Distinct
<1>3. Elements(Tail(q)) = Elements(q) \ {Head(q)}
  <2>1. \A k \in 1 .. Len(Tail(q)) : k + 1 \in 1 .. Len(q) /\ k + 1 # 1
    BY <1>1
  <2>2. \A k \in 1 .. Len(q) : k # 1 => k - 1 \in 1 .. Len(Tail(q)) /\ Tail(q)[k - 1] = q[k]
    BY <1>1
  <2>3. ASSUME NEW x \in Elements(Tail(q)) PROVE x \in Elements(q) \ {Head(q)}
    BY <1>1, <2>1 DEF Elements, Distinct
  <2>4. ASSUME NEW x \in Elements(q) \ {Head(q)} PROVE x \in Elements(Tail(q))
    BY <1>1, <2>2 DEF Elements
  <2>. QED
    BY <2>3, <2>4
<1>4. Head(q) \in Elements(q)
  BY <1>1 DEF Elements
<1>. QED
  BY <1>1, <1>2, <1>3, <1>4

(* A message of the engine's own. *)
LEMMA PushSendDInv ==
    ASSUME DInv, pc \in {"maintain", "read"}, pc' \in {"maintain", "free"},
           PushSend \/ UNCHANGED <<sendBuffer, live>>,
           UNCHANGED <<receiveBuffer, packet, sending, sent>>
    PROVE  DInv'
<1>1. CASE UNCHANGED <<sendBuffer, live>>
  <2>1. Held' = Held
    BY <1>1 DEF Held
  <2>2. Owned' /\ OnlySentLeak'
    BY <1>1, <2>1 DEF DInv, Owned, OnlySentLeak
  <2>3. DeviceTypeOK'
    BY <1>1 DEF DInv, DeviceTypeOK
  <2>. QED
    BY <2>2, <2>3 DEF DInv
<1>2. CASE PushSend /\ Len(sendBuffer) # Capacity
  <2>1. PICK p \in Packets \ live :
           sendBuffer' = Append(sendBuffer, p) /\ live' = live \cup {p}
    BY <1>2 DEF PushSend, Malloced
  <2>2. sendBuffer \in Seq(Packets) /\ p \notin Elements(sendBuffer)
    BY <2>1 DEF DInv, DeviceTypeOK, Owned, Held
  <2>3. /\ sendBuffer' \in Seq(Packets) /\ Len(sendBuffer') = Len(sendBuffer) + 1
        /\ Elements(sendBuffer') = Elements(sendBuffer) \cup {p}
        /\ Distinct(sendBuffer')
    BY <2>1, <2>2, Pushed DEF DInv, Owned
  <2>4. p # NULL
    BY DeviceAssumption
  <2>5. DeviceTypeOK'
    BY <1>2, <2>1, <2>3, DeviceAssumption DEF DInv, DeviceTypeOK
  <2>6. Held' = Held \cup {p}
    BY <2>3 DEF Held
  <2>7. p \notin Held \cup sent
    BY <2>1 DEF DInv, Owned
  <2>8. Owned'
    BY <2>1, <2>3, <2>4, <2>6, <2>7 DEF DInv, Owned, Held
  <2>9. OnlySentLeak'
    BY <2>1, <2>6 DEF DInv, OnlySentLeak
  <2>. QED
    BY <2>5, <2>8, <2>9 DEF DInv
<1>3. CASE PushSend /\ Len(sendBuffer) = Capacity
  BY <1>1, <1>3 DEF PushSend
<1>. QED
  BY <1>1, <1>2, <1>3

(* The engine's steps. *)
LEMMA EngineDInv ==
    ASSUME DInv, Engine
    PROVE  DInv'
<1>1. CASE Maintenance \/ Read
  BY <1>1, PushSendDInv DEF Maintenance, Read
<1>2. CASE FreePrevious
  <2>1. packet \notin sent /\ packet \notin Elements(receiveBuffer) \cup Elements(sendBuffer)
    BY DeviceAssumption DEF DInv, DeviceTypeOK, Owned, Held
  <2>2. Held' = Held \ {packet}
    BY <1>2, <2>1, DeviceAssumption DEF FreePrevious, Held, DInv, DeviceTypeOK, Owned
  <2>3. Owned'
    <3>1. /\ live' = live \ {packet} /\ packet' = NULL
          /\ UNCHANGED <<sent, sending, receiveBuffer, sendBuffer>>
      BY <1>2 DEF FreePrevious
    <3>2. NULL \notin Elements(receiveBuffer) \cup Elements(sendBuffer)
      BY DeviceAssumption DEF DInv, DeviceTypeOK, Elements
    <3>3. Elements(receiveBuffer)' = Elements(receiveBuffer)
          /\ Elements(sendBuffer)' = Elements(sendBuffer)
      BY <3>1 DEF Elements
    <3>4. Distinct(receiveBuffer)' /\ Distinct(sendBuffer)'
      BY <3>1 DEF DInv, Owned, Distinct
    <3>5. (Held \cup sent \subseteq live)' /\ (Held \cap sent = {})'
      BY <2>1, <2>2, <3>1 DEF DInv, Owned
    <3>. QED
      BY <3>1, <3>2, <3>3, <3>4, <3>5 DEF DInv, Owned
  <2>4. OnlySentLeak'
    BY <1>2, <2>1, <2>2 DEF FreePrevious, DInv, OnlySentLeak
  <2>5. DeviceTypeOK'
    BY <1>2 DEF FreePrevious, DInv, DeviceTypeOK
  <2>. QED
    BY <1>2, <2>3, <2>4, <2>5 DEF FreePrevious, DInv
<1>3. CASE PopNone
  <2>1. packet = NULL
    BY <1>3 DEF PopNone, DInv
  <2>2. Held' = Held
    BY <1>3, <2>1 DEF PopNone, Held
  <2>3. Owned' /\ OnlySentLeak'
    BY <1>3, <2>1, <2>2 DEF PopNone, DInv, Owned, OnlySentLeak
  <2>4. DeviceTypeOK'
    BY <1>3 DEF PopNone, DInv, DeviceTypeOK
  <2>. QED
    BY <1>3, <2>3, <2>4 DEF PopNone, DInv
<1>4. CASE Pop
  <2>. DEFINE h == Head(receiveBuffer)
  <2>1. /\ packet = NULL /\ packet' = h
        /\ receiveBuffer \in Seq(Packets) /\ receiveBuffer # <<>>
        /\ Distinct(receiveBuffer)
    BY <1>4 DEF Pop, DInv, DeviceTypeOK, Owned
  <2>2. /\ receiveBuffer' \in Seq(Packets)
        /\ Len(receiveBuffer') = Len(receiveBuffer) - 1
        /\ h \in Elements(receiveBuffer)
        /\ Elements(receiveBuffer') = Elements(receiveBuffer) \ {h}
        /\ Distinct(receiveBuffer')
    BY <1>4, <2>1, Popped DEF Pop
  <2>3. h \in Packets /\ h # NULL
    BY <2>1, DeviceAssumption
  <2>. HIDE DEF h
  <2>4. Held' = Held
    BY <1>4, <2>1, <2>2, <2>3 DEF Pop, Held
  <2>5. h # sending /\ h \notin Elements(sendBuffer)
    BY <2>2 DEF DInv, Owned
  <2>6. Owned'
    BY <1>4, <2>1, <2>2, <2>4, <2>5 DEF Pop, DInv, Owned
  <2>7. OnlySentLeak'
    BY <1>4, <2>4 DEF Pop, DInv, OnlySentLeak
  <2>8. DeviceTypeOK'
    BY <1>4, <2>1, <2>2, <2>3, DeviceAssumption DEF Pop, DInv, DeviceTypeOK
  <2>. QED
    BY <1>4, <2>6, <2>7, <2>8 DEF Pop, DInv
<1>. QED
  BY <1>1, <1>2, <1>3, <1>4 DEF Engine

(* The send task's. *)
LEMMA SenderDInv ==
    ASSUME DInv, Sender
    PROVE  DInv'
<1>1. CASE Take
  <2>. DEFINE h == Head(sendBuffer)
  <2>1. /\ sending = NULL /\ sending' = h
        /\ sendBuffer \in Seq(Packets) /\ sendBuffer # <<>>
        /\ Distinct(sendBuffer)
    BY <1>1 DEF Take, DInv, DeviceTypeOK, Owned
  <2>2. /\ sendBuffer' \in Seq(Packets)
        /\ Len(sendBuffer') = Len(sendBuffer) - 1
        /\ h \in Elements(sendBuffer)
        /\ Elements(sendBuffer') = Elements(sendBuffer) \ {h}
        /\ Distinct(sendBuffer')
    BY <1>1, <2>1, Popped DEF Take
  <2>3. h \in Packets /\ h # NULL
    BY <2>1, DeviceAssumption
  <2>. HIDE DEF h
  <2>4. Held' = Held
    BY <1>1, <2>1, <2>2, <2>3 DEF Take, Held
  <2>5. h # packet /\ h \notin Elements(receiveBuffer)
    BY <2>2 DEF DInv, Owned
  <2>6. Owned'
    BY <1>1, <2>1, <2>2, <2>4, <2>5 DEF Take, DInv, Owned
  <2>7. OnlySentLeak'
    BY <1>1, <2>4 DEF Take, DInv, OnlySentLeak
  <2>8. DeviceTypeOK'
    BY <1>1, <2>1, <2>2, <2>3, DeviceAssumption DEF Take, DInv, DeviceTypeOK
  <2>. QED
    BY <1>1, <2>6, <2>7, <2>8 DEF Take, DInv
<1>2. CASE SendTo
  <2>0. /\ sending # NULL /\ sending # packet
        /\ sending \notin Elements(receiveBuffer) \cup Elements(sendBuffer)
    BY <1>2 DEF SendTo, DInv, Owned
  <2>1. Held' = Held \ {sending} /\ sending \in Held
    <3>1. {packet, NULL} \ {NULL} = ({packet, sending} \ {NULL}) \ {sending}
      BY <2>0
    <3>2. Held' = Elements(receiveBuffer) \cup Elements(sendBuffer) \cup ({packet, NULL} \ {NULL})
      BY <1>2 DEF SendTo, Held
    <3>. QED
      BY <2>0, <3>1, <3>2 DEF Held
  <2>2. Owned'
    <3>1. Held' \cup sent' \subseteq live' /\ Held' \cap sent' = {}
      BY <1>2, <2>1 DEF SendTo, DInv, Owned
    <3>2. NULL \notin Held
      BY DeviceAssumption DEF DInv, DeviceTypeOK, Owned
    <3>3. NULL \notin Elements(receiveBuffer) \cup Elements(sendBuffer)
      BY <3>2 DEF Held
    <3>4. {packet, NULL} \cap (Elements(receiveBuffer) \cup Elements(sendBuffer)) = {}
      BY <3>3 DEF DInv, Owned
    <3>. QED
      BY <1>2, <3>1, <3>4 DEF SendTo, DInv, Owned
  <2>3. OnlySentLeak'
    BY <1>2, <2>1 DEF SendTo, DInv, OnlySentLeak
  <2>4. DeviceTypeOK'
    BY <1>2 DEF SendTo, DInv, DeviceTypeOK
  <2>. QED
    BY <1>2, <2>2, <2>3, <2>4 DEF SendTo, DInv
<1>. QED
  BY <1>1, <1>2 DEF Sender

(* The receive task's. *)
LEMMA ReceiveDInv ==
    ASSUME DInv, Receive
    PROVE  DInv'
<1>1. PICK p \in Packets \ live :
         receiveBuffer' = Append(receiveBuffer, p) /\ live' = live \cup {p}
  BY DEF Receive, Malloced
<1>2. receiveBuffer \in Seq(Packets) /\ p \notin Elements(receiveBuffer)
  BY <1>1 DEF DInv, DeviceTypeOK, Owned, Held
<1>3. /\ receiveBuffer' \in Seq(Packets) /\ Len(receiveBuffer') = Len(receiveBuffer) + 1
      /\ Elements(receiveBuffer') = Elements(receiveBuffer) \cup {p}
      /\ Distinct(receiveBuffer')
  BY <1>1, <1>2, Pushed DEF DInv, Owned
<1>4. p # NULL
  BY DeviceAssumption
<1>5. DeviceTypeOK'
  BY <1>1, <1>3, DeviceAssumption DEF Receive, DInv, DeviceTypeOK
<1>6. Held' = Held \cup {p}
  BY <1>3 DEF Receive, Held
<1>7. p \notin Held \cup sent
  BY <1>1 DEF DInv, Owned
<1>8. Owned'
  BY <1>1, <1>3, <1>4, <1>6, <1>7 DEF Receive, DInv, Owned, Held
<1>9. OnlySentLeak'
  BY <1>1, <1>6 DEF Receive, DInv, OnlySentLeak
<1>. QED
  BY <1>5, <1>8, <1>9 DEF Receive, DInv

(* An idle device holds nothing. *)
LEMMA InitDInv == DeviceInit => DInv
<1>. SUFFICES ASSUME DeviceInit PROVE DInv
  OBVIOUS
<1>1. Elements(<<>>) = {} /\ Distinct(<<>>)
  BY DEF Elements, Distinct
<1>2. Held = {}
  BY <1>1 DEF DeviceInit, Held
<1>3. DeviceTypeOK
  BY DeviceAssumption DEF DeviceInit, DeviceTypeOK
<1>4. Owned /\ OnlySentLeak
  BY <1>1, <1>2 DEF DeviceInit, Owned, OnlySentLeak
<1>. QED
  BY <1>3, <1>4 DEF DInv, DeviceInit

LEMMA ResetDInv == DeviceReset => DInv'
<1>. SUFFICES ASSUME DeviceReset PROVE DInv'
  OBVIOUS
<1>1. Elements(<<>>) = {} /\ Distinct(<<>>)
  BY DEF Elements, Distinct
<1>2. Held' = {}
  BY <1>1 DEF DeviceReset, Held
<1>3. DeviceTypeOK'
  BY DeviceAssumption DEF DeviceReset, DeviceTypeOK
<1>4. Owned' /\ OnlySentLeak'
  BY <1>1, <1>2 DEF DeviceReset, Owned, OnlySentLeak
<1>. QED
  BY <1>3, <1>4 DEF DInv, DeviceReset

(* Every step of the firmware. *)
LEMMA NextDInv == DInv /\ [Next]_vars => DInv'
<1>. SUFFICES ASSUME DInv, [Next]_vars PROVE DInv'
  OBVIOUS
<1>1. CASE Fault \/ Exhausted
  BY <1>1, ResetDInv DEF Fault, Exhausted
<1>2. CASE EngineStep \/ SenderStep \/ ReceiverStep
  BY <1>2, EngineDInv, SenderDInv, ReceiveDInv DEF EngineStep, SenderStep, ReceiverStep
<1>3. CASE UNCHANGED deviceVars
  <2>1. Held' = Held
    BY <1>3 DEF deviceVars, Held
  <2>2. Owned' /\ OnlySentLeak'
    BY <1>3, <2>1 DEF deviceVars, DInv, Owned, OnlySentLeak
  <2>3. DeviceTypeOK'
    BY <1>3 DEF deviceVars, DInv, DeviceTypeOK
  <2>. QED
    BY <1>3, <2>2, <2>3 DEF deviceVars, DInv
<1>. QED
  BY <1>1, <1>2, <1>3 DEF Next, StationStep, vars

LEMMA DeviceInvariance == Spec => []DInv
<1>1. Init => DInv
  BY InitDInv DEF Init
<1>2. DInv /\ [Next]_vars => DInv'
  BY NextDInv
<1>. QED
  BY <1>1, <1>2, PTL DEF Spec

-----------------------------------------------------------------------------
(* No use after free, no double free, for any heap and any buffers. *)
THEOREM PacketsOwned == Spec => []Owned
<1>1. DInv => Owned
  BY DEF DInv
<1>. QED
  BY <1>1, DeviceInvariance, PTL

(* The send task is the one leak. *)
THEOREM LeaksAreSent == Spec => []OnlySentLeak
<1>1. DInv => OnlySentLeak
  BY DEF DInv
<1>. QED
  BY <1>1, DeviceInvariance, PTL

(* Types of the whole device. *)
THEOREM FirmwareTypeCorrect == Spec => []TypeOK
<1>. DEFINE F == faults \in 0 .. MaxFaults
<1>1. F /\ [Next]_vars => F'
  BY FirmwareAssumption
     DEF Next, Fault, Exhausted, StationStep, EngineStep, SenderStep, ReceiverStep, vars
<1>2. Init => F
  BY FirmwareAssumption DEF Init
<1>3. Spec => []F
  <2>. HIDE DEF F
  <2>. QED
    BY <1>1, <1>2, PTL DEF Spec
<1>4. SInv => StationTypeOK
  <2>. DEFINE E == {"start", "disconnected", "gotIp"}
  <2>1. /\ <<>> \in Seq(E) /\ <<"start">> \in Seq(E) /\ <<"disconnected">> \in Seq(E)
        /\ <<"gotIp">> \in Seq(E) /\ <<"gotIp", "disconnected">> \in Seq(E)
    OBVIOUS
  <2>2. ASSUME Posted
        PROVE  events \in Seq(E) /\ radio \in {"off", "idle", "connecting", "up"}
    BY <2>1, <2>2, Zenon DEF Posted
  <2>. QED
    BY <2>2 DEF SInv, Names, Counts, StationTypeOK, Tasks
<1>5. SInv /\ DInv /\ F => TypeOK
  BY <1>4 DEF DInv, TypeOK
<1>. HIDE DEF F
<1>. QED
  BY <1>3, <1>5, StationInvariance, DeviceInvariance, PTL

-----------------------------------------------------------------------------
(* No bit is set in the group once app_main has deleted it. *)
THEOREM EventGroupAlive == Spec => []GroupAlive
<1>1. SInv => GroupAlive
  BY DEF SInv, Names, Phases, GroupAlive
<1>. QED
  BY <1>1, StationInvariance, PTL

(* The fail bit takes more failures in a row than there are retries. *)
THEOREM GivesUpHonestly == Spec => []RetriesHonest
<1>1. SInv => RetriesHonest
  BY DEF SInv, Counted, RetriesHonest
<1>. QED
  BY <1>1, StationInvariance, PTL
=============================================================================
