------------------------------ MODULE Station ------------------------------
(***************************************************************************)
(* How the firmware starts (main/network_station_main.c, hypercast.c):     *)
(* app_main starts the Wi-Fi driver and waits for one of two bits; the     *)
(* event loop's task runs event_handler, which asks for connections, sets  *)
(* the bits, and starts hc_socket_init; that starts hc_init, which starts  *)
(* the tasks of Device. app_main meanwhile unregisters the handlers and    *)
(* deletes the event group. The driver and the event loop are external:    *)
(* they answer a connection request with one of two events, and a handler  *)
(* is not unregistered while it runs.                                      *)
(***************************************************************************)
EXTENDS Integers, Sequences

CONSTANT MaxRetry \* NETWORK_MAX_RETRY

ASSUME StationAssumption == MaxRetry \in Nat

VARIABLES
    main,       \* app_main: "init", "wait", "dropIp", "dropWifi", "delete", "done"
    group,      \* s_wifi_event_group: "none", "alive", "deleted"
    bits,       \* its bits
    registered, \* event bases with a handler
    s_retry_num,
    handler,    \* what event_handler is about to do: "none", "fail", "grant", "spawn"
    socket,     \* hc_socket_init: "none", "setup", "spin"
    started,    \* tasks that hc_init has started, or "none", in its order
    drops       \* disconnections in a row that event_handler has seen (history)

VARIABLES
    radio,      \* the driver: "off", "idle", "connecting", "up"
    events,     \* events posted and not handled
    granted     \* it has reported an address since the boot

stationVars == <<main, group, bits, registered, s_retry_num, handler, socket,
                 started, drops, radio, events, granted>>

(* What hc_init starts, one after the other; the last one is its own task. *)
Tasks == <<"recv", "send", "measure", "engine">>

Running(t) == \E k \in 1 .. started : Tasks[k] = t

StationInit ==
    /\ main = "init"
    /\ group = "none"
    /\ bits = {}
    /\ registered = {}
    /\ s_retry_num = 0
    /\ handler = "none"
    /\ socket = "none"
    /\ started = 0
    /\ drops = 0
    /\ radio = "off"
    /\ events = <<>>
    /\ granted = FALSE

(* A panic or an abort restarts the chip. *)
StationReset ==
    /\ main' = "init"
    /\ group' = "none"
    /\ bits' = {}
    /\ registered' = {}
    /\ s_retry_num' = 0
    /\ handler' = "none"
    /\ socket' = "none"
    /\ started' = 0
    /\ drops' = 0
    /\ radio' = "off"
    /\ events' = <<>>
    /\ granted' = FALSE

-----------------------------------------------------------------------------
(* wifi_init_sta up to esp_wifi_start: nothing else runs yet. *)
Setup ==
    /\ main = "init"
    /\ main' = "wait"
    /\ group' = "alive"
    /\ registered' = {"wifi", "ip"}
    /\ radio' = "idle"
    /\ events' = <<"start">>
    /\ UNCHANGED <<bits, s_retry_num, handler, socket, started, drops, granted>>

(* xEventGroupWaitBits: either bit, without a timeout. *)
Wake ==
    /\ main = "wait"
    /\ bits # {}
    /\ main' = "dropIp"
    /\ UNCHANGED <<group, bits, registered, s_retry_num, handler, socket,
                   started, drops, radio, events, granted>>

(* Unregistering waits for the event loop's mutex. *)
DropIp ==
    /\ main = "dropIp"
    /\ handler = "none"
    /\ registered' = registered \ {"ip"}
    /\ main' = "dropWifi"
    /\ UNCHANGED <<group, bits, s_retry_num, handler, socket, started, drops,
                   radio, events, granted>>

(* Mutant of DropWifi: the group goes before the handler. *)
DropWifiLate ==
    /\ main = "dropWifi"
    /\ group' = "deleted"
    /\ main' = "delete"
    /\ UNCHANGED <<bits, registered, s_retry_num, handler, socket, started,
                   drops, radio, events, granted>>

DropWifi ==
    /\ main = "dropWifi"
    /\ handler = "none"
    /\ registered' = registered \ {"wifi"}
    /\ main' = "delete"
    /\ UNCHANGED <<group, bits, s_retry_num, handler, socket, started, drops,
                   radio, events, granted>>

DeleteGroup ==
    /\ main = "delete"
    /\ group' = "deleted"
    /\ main' = "done"
    /\ UNCHANGED <<bits, registered, s_retry_num, handler, socket, started,
                   drops, radio, events, granted>>

Main == Setup \/ Wake \/ DropIp \/ DropWifi \/ DeleteGroup

-----------------------------------------------------------------------------
(* An event nobody listens to any more. *)
Unheard ==
    /\ events # <<>> /\ handler = "none"
    /\ (IF Head(events) = "gotIp" THEN "ip" ELSE "wifi") \notin registered
    /\ events' = Tail(events)
    /\ UNCHANGED <<main, group, bits, registered, s_retry_num, handler, socket,
                   started, drops, radio, granted>>

OnStart ==
    /\ events # <<>> /\ handler = "none" /\ "wifi" \in registered
    /\ Head(events) = "start"
    /\ events' = Tail(events)
    /\ radio' = "connecting"
    /\ UNCHANGED <<main, group, bits, registered, s_retry_num, handler, socket,
                   started, drops, granted>>

(* Mutant of OnDrop: the retries are not counted. *)
OnDropUncounted ==
    /\ events # <<>> /\ handler = "none" /\ "wifi" \in registered
    /\ Head(events) = "disconnected"
    /\ events' = Tail(events)
    /\ drops' = IF drops > MaxRetry THEN drops ELSE drops + 1
    /\ IF s_retry_num < MaxRetry
       THEN radio' = "connecting" /\ UNCHANGED handler
       ELSE handler' = "fail" /\ UNCHANGED radio
    /\ UNCHANGED <<main, group, bits, registered, s_retry_num, socket, started, granted>>

(* A connection attempt failed or a connection broke. *)
OnDrop ==
    /\ events # <<>> /\ handler = "none" /\ "wifi" \in registered
    /\ Head(events) = "disconnected"
    /\ events' = Tail(events)
    /\ drops' = drops + 1
    /\ IF s_retry_num < MaxRetry
       THEN /\ radio' = "connecting"
            /\ s_retry_num' = s_retry_num + 1
            /\ UNCHANGED handler
       ELSE handler' = "fail" /\ UNCHANGED <<radio, s_retry_num>>
    /\ UNCHANGED <<main, group, bits, registered, socket, started, granted>>

(* Mutant of OnGotIp: the retries used are not forgotten. *)
OnGotIpKeepRetries ==
    /\ events # <<>> /\ handler = "none" /\ "ip" \in registered
    /\ Head(events) = "gotIp"
    /\ events' = Tail(events)
    /\ drops' = 0
    /\ handler' = "grant"
    /\ UNCHANGED <<main, group, bits, registered, s_retry_num, socket, started,
                   radio, granted>>

OnGotIp ==
    /\ events # <<>> /\ handler = "none" /\ "ip" \in registered
    /\ Head(events) = "gotIp"
    /\ events' = Tail(events)
    /\ drops' = 0
    /\ s_retry_num' = 0
    /\ handler' = "grant"
    /\ UNCHANGED <<main, group, bits, registered, socket, started, radio, granted>>

(* xEventGroupSetBits. *)
SetFail ==
    /\ handler = "fail"
    /\ bits' = bits \cup {"failed"}
    /\ handler' = "none"
    /\ UNCHANGED <<main, group, registered, s_retry_num, socket, started, drops,
                   radio, events, granted>>

SetConnected ==
    /\ handler = "grant"
    /\ bits' = bits \cup {"connected"}
    /\ handler' = "spawn"
    /\ UNCHANGED <<main, group, registered, s_retry_num, socket, started, drops,
                   radio, events, granted>>

(* Mutant of Spawn: the handler returns after setting the bit. *)
SpawnNothing ==
    /\ handler = "spawn"
    /\ handler' = "none"
    /\ UNCHANGED <<main, group, bits, registered, s_retry_num, socket, started,
                   drops, radio, events, granted>>

(* xTaskCreate(hc_socket_init). *)
Spawn ==
    /\ handler = "spawn"
    /\ socket' = "setup"
    /\ handler' = "none"
    /\ UNCHANGED <<main, group, bits, registered, s_retry_num, started, drops,
                   radio, events, granted>>

EventLoop ==
    \/ Unheard \/ OnStart \/ OnDrop \/ OnGotIp
    \/ SetFail \/ SetConnected \/ Spawn

-----------------------------------------------------------------------------
(* hc_socket_init: the socket calls have gone well; hc_init is started     *)
(* with a pointer into this task's stack, and so the task never ends.      *)
Spin ==
    /\ socket = "setup"
    /\ socket' = "spin"
    /\ UNCHANGED <<main, group, bits, registered, s_retry_num, handler, started,
                   drops, radio, events, granted>>

(* hc_init, after the allocations and hc_install_config. *)
StartTask ==
    /\ socket = "spin"
    /\ started < Len(Tasks)
    /\ started' = started + 1
    /\ UNCHANGED <<main, group, bits, registered, s_retry_num, handler, socket,
                   drops, radio, events, granted>>

-----------------------------------------------------------------------------
(* The driver answers a request to connect. One address per boot while the *)
(* handler listens: a second would start a second engine on the same       *)
(* global, which is not modelled.                                          *)
Answer ==
    /\ radio = "connecting"
    /\ \/ /\ events' = Append(events, "disconnected")
          /\ radio' = "idle"
          /\ UNCHANGED granted
       \/ /\ granted => "ip" \notin registered
          /\ events' = Append(events, "gotIp")
          /\ radio' = "up"
          /\ granted' = TRUE
    /\ UNCHANGED <<main, group, bits, registered, s_retry_num, handler, socket,
                   started, drops>>

(* The access point goes away. *)
LoseLink ==
    /\ radio = "up"
    /\ radio' = "idle"
    /\ events' = Append(events, "disconnected")
    /\ UNCHANGED <<main, group, bits, registered, s_retry_num, handler, socket,
                   started, drops, granted>>

Startup == Main \/ EventLoop \/ Answer \/ Spin \/ StartTask

-----------------------------------------------------------------------------
StationTypeOK ==
    /\ main \in {"init", "wait", "dropIp", "dropWifi", "delete", "done"}
    /\ group \in {"none", "alive", "deleted"}
    /\ bits \subseteq {"connected", "failed"}
    /\ registered \subseteq {"wifi", "ip"}
    /\ s_retry_num \in 0 .. MaxRetry
    /\ handler \in {"none", "fail", "grant", "spawn"}
    /\ socket \in {"none", "setup", "spin"}
    /\ started \in 0 .. Len(Tasks)
    /\ drops \in Nat
    /\ radio \in {"off", "idle", "connecting", "up"}
    /\ events \in Seq({"start", "disconnected", "gotIp"})
    /\ granted \in BOOLEAN

(* The handler never sets a bit in a group that app_main has deleted:      *)
(* "The event will not be processed after unregister"                      *)
(* (network_station_main.c:256-259).                                       *)
GroupAlive == handler \in {"fail", "grant"} => group = "alive"

(* WIFI_FAIL_BIT means that more than the allowed number of attempts in a  *)
(* row failed: what was used up before an address was granted does not     *)
(* count (network_station_main.c:51-63).                                   *)
RetriesHonest == "failed" \in bits => drops > MaxRetry
=============================================================================
