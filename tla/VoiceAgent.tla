----------------------------- MODULE VoiceAgent -----------------------------
(***************************************************************************)
(* brtc_app.c with the reconnect loop of main.c: the voice agent's engine, *)
(* who starts it, who tears it down, and the service status that the       *)
(* platform switches on and off.                                           *)
(*                                                                         *)
(*   "main"    the first brtc_init, then the reconnect loop,               *)
(*   "mqtt"    mqtt_event_task: it handles a service status message,       *)
(*   "engine"  the engine's own thread, which runs the callbacks; a media  *)
(*             setup loads the status saved in flash and may stop the      *)
(*             service from inside the callback; onAudioPlayerOp sends to  *)
(*             the player queue, without a check and without a timeout,    *)
(*   "user"    a task that uses the agent and is not part of it: a key, an *)
(*             incoming call, audio_data_read_task.  They do not wait for  *)
(*             each other, so that one of them stands for all.             *)
(*                                                                         *)
(* brtc_deinit is run by each of the first three, without a lock.  A step  *)
(* is what a task does between two calls that block; a call that uses what *)
(* another task may delete is two steps.  An RTC call with a person is     *)
(* left out: nothing calls parsebrtc_call_message.                         *)
(*                                                                         *)
(* FreeRTOS: a task that waits for an event group is woken when the group  *)
(* is deleted, as if its bits were set; a call with a NULL queue or group  *)
(* fails an assertion and the device restarts.  The engine's library is    *)
(* taken to refuse a NULL engine, which the keys pass without a check.     *)
(***************************************************************************)
EXTENDS Naturals, FiniteSets

CONSTANTS
  MaxReconnectFails, \* MAX_RECONNECT_FAILS: 3
  Slots              \* bound: threads of brtc_init alive at one time

ASSUME FailsPositive == MaxReconnectFails \in Nat \ {0}
ASSUME SlotsFinite == IsFiniteSet(Slots) /\ Slots # {}

VARIABLES
  connected,    \* s_bdrtc.is_connected
  destroying,   \* s_bdrtc.is_destroying
  running,      \* s_bdrtc.byte_rtc_running and data_proc_running
  groups,       \* the event groups and the queue exist
  join,         \* JOIN_EVENT_BIT
  engine,       \* s_bdrtc.engine and how far it has come
  service,      \* is_service_status
  reconnecting, \* is_reconnecting of the main loop
  fails,        \* reconnect_fail_count
  threads,      \* the threads that brtc_init creates
  pc,           \* where each task is
  saved,        \* "SrvStat" in flash
  fault,        \* an assertion failed, or freed memory was used; "player" and
                \* "user": by the player callback, by a task outside
  told,         \* history: the last status the platform sent
  stop          \* history: no stop since the boot, a clean one, or others

agent   == <<connected, engine>>
memory  == <<running, groups, join, threads, fault>>
status  == <<service, saved, told, stop>>
loop    == <<reconnecting, fails>>
vars    == <<agent, destroying, memory, status, loop, pc>>

Deiniters == {"main", "mqtt", "engine"}
Tasks     == Deiniters \cup {"user"}
\* "new" created, "called" a login is under way, then "in" or "refused", and
\* "ready" once the media are set up.
Engines  == {"none", "new", "called", "in", "refused", "ready"}
Statuses == {"on", "off"}
Stops    == {"none", "clean", "other"}
Faults   == {"none", "assert", "freed", "player", "user"}

At(t, p)   == pc[t] = p
Goto(t, p) == pc' = [pc EXCEPT ![t] = p]
Works      == fault = "none"

\* mqtt_init_task is created when the first brtc_init has returned.
PlatformReachable == At("main", "loop") \/ reconnecting

-----------------------------------------------------------------------------
(* brtc_init and brtc_create, in the main task.                            *)

\* brtc_init: the event groups and the queue are new, no bit is set.
CreateGroups ==
  /\ At("main", "init")
  /\ groups' = TRUE
  /\ join' = FALSE
  /\ connected' = FALSE
  /\ Goto("main", "network")
  /\ UNCHANGED <<engine, destroying, running, threads, fault, status, loop>>

\* There is a network, or there was none for 90 seconds: it goes on.
NetworkAwaited ==
  /\ At("main", "network")
  /\ Goto("main", "create")
  /\ UNCHANGED <<agent, destroying, memory, status, loop>>

\* brtc_create after its requests to the platform: the engine, if there is
\* memory for it.
CreateEngine ==
  /\ At("main", "create")
  /\ \/ engine' = "new" /\ Goto("main", "login")
     \/ engine' = "none" /\ Goto("main", "cleanup")
  /\ UNCHANGED <<connected, destroying, memory, status, loop>>

\* A task outside has read the engine's pointer and is inside the library.
DestroysUnderUser == engine # "none" /\ At("user", "calling") /\ fault' = "user"

\* baidu_chat_agent_engine_init: 200, the call is made and the task waits; any
\* other value, the engine is destroyed.  Another task may have destroyed it.
LogIn ==
  /\ At("main", "login")
  /\ \/ /\ engine = "new" /\ engine' = "called"
        /\ Goto("main", "join")
        /\ UNCHANGED fault
     \/ /\ engine = "new" /\ engine' = "none"
        /\ Goto("main", "cleanup")
        /\ UNCHANGED fault \/ DestroysUnderUser
     \/ /\ engine # "new" /\ UNCHANGED engine
        /\ \/ fault' = "freed" /\ UNCHANGED pc
           \/ Goto("main", "cleanup") /\ UNCHANGED fault
  /\ UNCHANGED <<connected, destroying, running, groups, join, threads, status,
                 loop>>

\* xEventGroupWaitBits is called for JOIN_EVENT_BIT, without a timeout.
WaitForJoin ==
  /\ At("main", "join")
  /\ IF groups THEN Goto("main", "joining") /\ UNCHANGED fault
               ELSE fault' = "assert" /\ UNCHANGED pc
  /\ UNCHANGED <<agent, destroying, running, groups, join, threads, status,
                 loop>>

\* The bit is set, and cleared on the way out, or the group is deleted.
Joined ==
  /\ At("main", "joining")
  /\ join \/ ~groups
  /\ join' = FALSE
  /\ Goto("main", "start")
  /\ UNCHANGED <<agent, destroying, running, groups, threads, fault, status,
                 loop>>

\* The tail of brtc_init: the flags, then the threads; the caller clears its
\* failure count.
StartThreads ==
  /\ At("main", "start")
  /\ running' = TRUE
  /\ \E s \in Slots : /\ threads[s] = "none"
                      /\ threads' = [threads EXCEPT ![s] = "check"]
  /\ fails' = 0
  /\ reconnecting' = FALSE
  /\ Goto("main", "loop")
  /\ UNCHANGED <<agent, destroying, groups, join, fault, status>>

\* A thread inside xQueueReceive or xEventGroupWaitBits, for 100 ms at most.
Waiting == {s \in Slots : threads[s] = "wait"}

\* Who is inside a call to the queue or to an event group when they are deleted;
\* the one who waits for JOIN_EVENT_BIT is woken and is not among them.
Caught ==
  {f \in {"freed", "player", "user"} :
     \/ f = "freed" /\ Waiting # {}
     \/ f = "player" /\ At("engine", "send")
     \/ f = "user" /\ At("user", "waking")}

\* The queue and the event groups are deleted, under whoever uses them.
Delete ==
  /\ groups' = FALSE
  /\ join' = FALSE
  /\ fault' \in IF Caught = {} THEN {fault} ELSE Caught

\* Variant: one failure more than MAX_RECONNECT_FAILS before the restart.
CleanUpLate ==
  /\ At("main", "cleanup")
  /\ Delete
  /\ IF reconnecting
       THEN /\ fails' = fails + 1
            /\ reconnecting' = FALSE
            /\ Goto("main", IF fails' > MaxReconnectFails THEN "restart"
                                                          ELSE "loop")
       ELSE Goto("main", "loop") /\ UNCHANGED loop
  /\ UNCHANGED <<agent, destroying, running, threads, status>>


\* cleanup of brtc_init.  The first call's result is ignored; the reconnect
\* loop counts, and restarts the device after MAX_RECONNECT_FAILS in a row.
CleanUp ==
  /\ At("main", "cleanup")
  /\ Delete
  /\ IF reconnecting
       THEN /\ fails' = fails + 1
            /\ reconnecting' = FALSE
            /\ Goto("main", IF fails' >= MaxReconnectFails THEN "restart"
                                                           ELSE "loop")
       ELSE Goto("main", "loop") /\ UNCHANGED loop
  /\ UNCHANGED <<agent, destroying, running, threads, status>>

\* Variant: the loop does not look at the service status.
DecideWithoutService ==
  /\ At("main", "loop")
  /\ ~connected /\ ~destroying
  /\ Goto("main", "begin")
  /\ UNCHANGED <<agent, destroying, memory, status, loop>>

\* The condition of the reconnect loop, every 500 ms.
DecideToReconnect ==
  /\ At("main", "loop")
  /\ ~connected /\ service /\ ~reconnecting /\ ~destroying
  /\ Goto("main", "begin")
  /\ UNCHANGED <<agent, destroying, memory, status, loop>>

\* is_reconnecting, and the first lines of brtc_deinit.
BeginReconnect ==
  /\ At("main", "begin")
  /\ reconnecting' = TRUE
  /\ running' = FALSE
  /\ Goto("main", "delete")
  /\ UNCHANGED <<agent, destroying, groups, join, threads, fault, status,
                 fails>>

-----------------------------------------------------------------------------
(* The rest of brtc_deinit, in the task t.                                 *)

\* Variant: brtc_deinit does not wait before it deletes.
DeleteAtOnce(t) ==
  /\ At(t, "delete")
  /\ Delete
  /\ Goto(t, "destroy")
  /\ UNCHANGED <<agent, destroying, running, threads, status, loop>>

\* After 150 ms, longer than a thread's wait: a thread still waits only if the
\* flags have been set again meanwhile, and then for a queue that is freed.
DeleteGroups(t) ==
  /\ At(t, "delete")
  /\ running \/ Waiting = {}
  /\ Delete
  /\ Goto(t, "destroy")
  /\ UNCHANGED <<agent, destroying, running, threads, status, loop>>

\* byte_rtc_engine_destroy: the flag, then the library is called.
BeginDestroy(t) ==
  /\ At(t, "destroy")
  /\ destroying' = TRUE
  /\ Goto(t, "destroying")
  /\ UNCHANGED <<agent, memory, status, loop>>

\* Where a task goes after brtc_deinit: the loop initialises again, the MQTT
\* task saves the status, the callback returns.
AfterDeinit(t) == CASE t = "main" -> "init" [] t = "mqtt" -> "save"
                    [] t = "engine" -> "idle"

\* The engine is gone.  When two tasks destroy the same one, memory is freed
\* twice; the second may also be late enough to see the cleared pointer.  A task
\* outside that is inside the library uses it after that, or is out in time.
EndDestroy(t) ==
  /\ At(t, "destroying")
  /\ engine' = "none"
  /\ destroying' = FALSE
  /\ \/ UNCHANGED fault
     \/ /\ engine # "none"
        /\ \E u \in Deiniters \ {t} : At(u, "destroying")
        /\ fault' = "freed"
     \/ DestroysUnderUser
  /\ Goto(t, AfterDeinit(t))
  /\ UNCHANGED <<connected, running, groups, join, threads, status, loop>>

-----------------------------------------------------------------------------
(* The service status: parse_service_status and its two callers.           *)

AllBack == At("main", "loop") /\ At("mqtt", "idle") /\ At("engine", "idle")

\* No task is at work on the engine and no callback is to come.
Settled == AllBack /\ engine \in {"ready", "none"}

\* control_device_by_service_status(false) up to the wait of brtc_deinit.
StopService(t) ==
  /\ service' = FALSE
  /\ running' = FALSE
  /\ stop' = IF stop # "none" THEN stop
             ELSE IF Settled THEN "clean" ELSE "other"
  /\ Goto(t, "delete")

\* control_device_by_service_status(true): a prompt, five seconds, a restart.
StartService(t) ==
  /\ service' = TRUE
  /\ stop' = "other"
  /\ Goto(t, "restart")
  /\ UNCHANGED running

\* The platform sends a status.  "off" stops the service, "on" starts it again
\* by a restart; a status that is already in force is only saved.
ServiceStatus(m) ==
  /\ PlatformReachable
  /\ At("mqtt", "idle")
  /\ told' = m
  /\ \/ /\ m = "off" /\ service
        /\ StopService("mqtt")
     \/ /\ m = "on" /\ ~service
        /\ StartService("mqtt")
     \/ /\ service = (m = "on")
        /\ Goto("mqtt", "save")
        /\ UNCHANGED <<service, running, stop>>
  /\ UNCHANGED <<agent, destroying, groups, join, threads, fault, saved, loop>>

\* mqtt_event_task saves the message when its handler has returned.
SaveStatus ==
  /\ At("mqtt", "save")
  /\ saved' = told
  /\ Goto("mqtt", "idle")
  /\ UNCHANGED <<agent, destroying, memory, service, told, stop, loop>>

\* onMediaSetup: mqtt_flash_load applies the saved status.
MediaSetup ==
  /\ At("engine", "idle")
  /\ engine = "in"
  /\ engine' = "ready"
  /\ \/ /\ saved = "off" /\ service
        /\ StopService("engine")
     \/ /\ saved = "on" /\ ~service
        /\ StartService("engine")
     \/ /\ saved = "none" \/ service = (saved = "on")
        /\ UNCHANGED <<service, running, stop, pc>>
  /\ UNCHANGED <<connected, destroying, groups, join, threads, fault, saved,
                 told, loop>>

-----------------------------------------------------------------------------
(* The other callbacks of the engine, and the network switches.            *)

\* onCallStateChangeCallback, AGENT_LOGIN_SUCCESS: ignored during a destroy.
LoginSuccess ==
  /\ At("engine", "idle")
  /\ engine = "called"
  /\ engine' = "in"
  /\ IF destroying THEN UNCHANGED <<connected, pc>>
                   ELSE connected' = TRUE /\ Goto("engine", "bit")
  /\ UNCHANGED <<destroying, memory, status, loop>>

\* The callback goes on and sets JOIN_EVENT_BIT.
SetJoinBit ==
  /\ At("engine", "bit")
  /\ IF groups THEN join' = TRUE /\ UNCHANGED fault
               ELSE fault' = "assert" /\ UNCHANGED join
  /\ Goto("engine", "idle")
  /\ UNCHANGED <<agent, destroying, running, groups, threads, status, loop>>

\* Variant: the one who waits is told of a refused login as of a success.
LoginFailJoins ==
  /\ At("engine", "idle")
  /\ engine = "called"
  /\ engine' = "refused"
  /\ connected' = (connected /\ destroying)
  /\ Goto("engine", IF destroying THEN "idle" ELSE "bit")
  /\ UNCHANGED <<destroying, memory, status, loop>>

\* AGENT_LOGIN_FAIL: nobody who waits for the bit is told.
LoginFail ==
  /\ At("engine", "idle")
  /\ engine = "called"
  /\ engine' = "refused"
  /\ connected' = (connected /\ destroying)
  /\ UNCHANGED <<destroying, memory, status, loop, pc>>

\* onConnectionStateChangeCallback, also during a destroy.
ConnectionState ==
  /\ At("engine", "idle")
  /\ engine \in {"in", "ready"}
  /\ connected' \in BOOLEAN
  /\ UNCHANGED <<engine, destroying, memory, status, loop, pc>>

\* onAudioPlayerOp: the queue is taken as it is; there is none between its
\* deletion and the end of the engine.
onAudioPlayerOp ==
  /\ At("engine", "idle")
  /\ engine \in {"in", "ready"}
  /\ IF groups THEN Goto("engine", "send") /\ UNCHANGED fault
               ELSE fault' = "player" /\ UNCHANGED pc
  /\ UNCHANGED <<agent, destroying, running, groups, join, threads, status,
                 loop>>

\* xQueueSend returns when the queue of two has room, which may be never.
PlayerTold ==
  /\ At("engine", "send")
  /\ Goto("engine", "idle")
  /\ UNCHANGED <<agent, destroying, memory, status, loop>>

\* brtc_force_reconnect: the default route has changed.
brtc_force_reconnect ==
  /\ connected
  /\ connected' = FALSE
  /\ UNCHANGED <<engine, destroying, memory, status, loop, pc>>

-----------------------------------------------------------------------------
(* The threads of brtc_init; audio_player_ctrl_task, button_wakeup_task.    *)

\* The loop condition, then the wait for the queue.
EnterWait(s) ==
  /\ threads[s] = "check"
  /\ IF ~running
       THEN threads' = [threads EXCEPT ![s] = "none"] /\ UNCHANGED fault
       ELSE /\ threads' = [threads EXCEPT ![s] = "wait"]
            /\ fault' = IF groups THEN fault ELSE "assert"
  /\ UNCHANGED <<agent, destroying, running, groups, join, status, loop, pc>>

\* The wait ends: nothing for 100 ms, or something to play or to wake.
LeaveWait(s) ==
  /\ threads[s] = "wait"
  /\ \E next \in {"check", "work"} : threads' = [threads EXCEPT ![s] = next]
  /\ UNCHANGED <<agent, destroying, running, groups, join, fault, status,
                 loop, pc>>

\* What was received is dealt with, however long that takes.
EndWork(s) ==
  /\ threads[s] = "work"
  /\ threads' = [threads EXCEPT ![s] = "check"]
  /\ UNCHANGED <<agent, destroying, running, groups, join, fault, status,
                 loop, pc>>

-----------------------------------------------------------------------------
(* The tasks outside.                                                      *)

\* A text to speak, an interruption or what the microphone heard.
CallEngine ==
  /\ At("user", "idle")
  /\ engine # "none"
  /\ Goto("user", "calling")
  /\ UNCHANGED <<agent, destroying, memory, status, loop>>

\* Key 4 has read the wake-up group, found that it is not NULL and sets its bit.
KeyWakes ==
  /\ At("user", "idle")
  /\ groups
  /\ Goto("user", "waking")
  /\ UNCHANGED <<agent, destroying, memory, status, loop>>

\* The call returns.
UserReturns ==
  /\ pc["user"] \in {"calling", "waking"}
  /\ Goto("user", "idle")
  /\ UNCHANGED <<agent, destroying, memory, status, loop>>

-----------------------------------------------------------------------------
\* A restart keeps what is in flash and nothing else.
Restarted ==
  /\ connected' = FALSE /\ destroying' = FALSE
  /\ running' = FALSE /\ groups' = FALSE /\ join' = FALSE
  /\ engine' = "none" /\ service' = TRUE
  /\ reconnecting' = FALSE /\ fails' = 0
  /\ threads' = [s \in Slots |-> "none"]
  /\ pc' = [t \in Tasks |-> IF t = "main" THEN "init" ELSE "idle"]
  /\ fault' = "none" /\ stop' = "none"
  /\ UNCHANGED <<saved, told>>

\* esp_restart, in whichever task calls it.
esp_restart ==
  /\ \E t \in Tasks : At(t, "restart")
  /\ Restarted

\* A panic ends in a restart.
Panic == ~Works /\ Restarted

\* The power can go at any time.
PowerLoss == Works /\ Restarted

Init ==
  /\ connected = FALSE /\ destroying = FALSE
  /\ running = FALSE /\ groups = FALSE /\ join = FALSE
  /\ engine = "none" /\ service = TRUE
  /\ reconnecting = FALSE /\ fails = 0
  /\ threads = [s \in Slots |-> "none"]
  /\ pc = [t \in Tasks |-> IF t = "main" THEN "init" ELSE "idle"]
  /\ saved = "none" /\ told = "none"
  /\ fault = "none" /\ stop = "none"

MainStep ==
  \/ CreateGroups \/ NetworkAwaited \/ CreateEngine \/ LogIn \/ WaitForJoin
  \/ Joined \/ StartThreads \/ CleanUp \/ DecideToReconnect \/ BeginReconnect

DeinitStep(t) == DeleteGroups(t) \/ BeginDestroy(t) \/ EndDestroy(t)

UserStep == CallEngine \/ KeyWakes \/ UserReturns

ThreadStep(s) == EnterWait(s) \/ LeaveWait(s) \/ EndWork(s)

Next ==
  \/ /\ Works
     /\ \/ MainStep
        \/ \E t \in Deiniters : DeinitStep(t)
        \/ \E s \in Slots : ThreadStep(s)
        \/ \E m \in Statuses : ServiceStatus(m)
        \/ SaveStatus \/ MediaSetup
        \/ LoginSuccess \/ SetJoinBit \/ LoginFail
        \/ ConnectionState \/ onAudioPlayerOp \/ PlayerTold
        \/ brtc_force_reconnect
        \/ UserStep
        \/ esp_restart
  \/ Panic \/ PowerLoss

Spec == Init /\ [][Next]_vars

\* The tasks run, the engine answers a login one way or the other, and a device
\* that is to restart does.  Connections need not last and nobody need speak.
FairSpec ==
  /\ Spec
  /\ WF_vars(Works /\ MainStep)
  /\ \A t \in Deiniters : WF_vars(Works /\ DeinitStep(t))
  /\ \A s \in Slots : /\ WF_vars(Works /\ EnterWait(s))
                      /\ WF_vars(Works /\ LeaveWait(s))
                      /\ WF_vars(Works /\ EndWork(s))
  /\ WF_vars(Works /\ SaveStatus)
  /\ WF_vars(Works /\ (LoginSuccess \/ LoginFail))
  /\ WF_vars(Works /\ SetJoinBit)
  /\ WF_vars(Works /\ esp_restart) /\ WF_vars(Panic)

-----------------------------------------------------------------------------
MainAt   == {"init", "network", "create", "login", "join", "joining", "start",
             "cleanup", "loop", "begin", "delete", "destroy", "destroying",
             "restart"}
DeinitAt == {"idle", "delete", "destroy", "destroying", "restart"}

\* Every variable has its type.
TypeOK ==
  /\ {connected, destroying, running, groups, join, service, reconnecting}
       \subseteq BOOLEAN
  /\ engine \in Engines
  /\ fails \in 0..MaxReconnectFails
  /\ threads \in [Slots -> {"none", "check", "wait", "work"}]
  /\ pc["main"] \in MainAt
  /\ pc["mqtt"] \in DeinitAt \cup {"save"}
  /\ pc["engine"] \in DeinitAt \cup {"bit", "send"}
  /\ pc["user"] \in {"idle", "calling", "waking"}
  /\ DOMAIN pc = Tasks
  /\ {saved, told} \subseteq Statuses \cup {"none"}
  /\ fault \in Faults
  /\ stop \in Stops

\* What the task t, which tears the agent down, does not protect: a task outside
\* that is inside a call to what is deleted, and the player callback between the
\* deletion of its queue and the end of the engine that runs it.
FailsOutside(t) ==
  \/ fault = "user"
  \/ fault = "player" /\ pc[t] \in {"destroy", "destroying"}

\* As long as the platform does not stop the service, no thread of the agent
\* waits for a queue or an event group that is deleted, no login sets a bit in
\* one, no engine is destroyed twice and none is logged in after it is gone,
\* whatever connections and networks do.  The flags, the 150 ms and
\* is_destroying are enough for that, but neither for the tasks outside nor, in
\* the one window between queue and engine, for the player callback.
ReconnectIsSafe == stop = "none" => Works \/ FailsOutside("main")

\* brtc_create of a device that is not stopped returns success for an engine
\* that has logged in, never because of an old bit or a group that is gone.
JoinedIsLoggedIn ==
  At("main", "start") /\ stop = "none" => engine \in {"in", "ready"}

\* A stop that finds the reconnect loop between two attempts takes the agent
\* down for good: when every task is back there is no engine and no thread
\* keeps running.  On the way nothing fails but a task outside or the player
\* callback, for the same two reasons as in a reconnect.
StopTakesAgentDown ==
  stop = "clean" =>
    /\ Works \/ FailsOutside("mqtt")
    /\ ~service /\ AllBack => engine = "none" /\ ~running

=============================================================================
