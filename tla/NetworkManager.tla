--------------------------- MODULE NetworkManager ---------------------------
(***************************************************************************)
(* network_manager.c: which of the two uplinks, WiFi or the 4G module, the *)
(* phone uses, and who decides it.                                         *)
(*                                                                         *)
(*   "main"     runs network_manager_init once there is a network,         *)
(*   "monitor"  network_monitor_task, every ten seconds,                   *)
(*   "link"     the 4G link task, which may switch as soon as the module   *)
(*              is connected; its own states are abstracted to down,       *)
(*              connected and ended.                                       *)
(*                                                                         *)
(* Nobody locks.  A step is one write of a shared flag or what a task does *)
(* between two calls that block; a test that reads both flags is one step. *)
(* WiFi is initialised before the first of these tasks starts (a failure   *)
(* there restarts the device), so that its interface always exists.        *)
(***************************************************************************)
EXTENDS Naturals

CONSTANTS
  CooldownRounds,  \* rounds without WiFi after it failed: 30
  RequiredRecovery \* good WiFi tests to give up a working 4G: 3

ASSUME CooldownPositive == CooldownRounds \in Nat \ {0}
ASSUME RecoveryPositive == RequiredRecovery \in Nat \ {0}

VARIABLES
  is_4g_active, is_wifi_active,
  route,       \* the default interface asked for last
  recovery,    \* wifi_recovery_count
  cooldown,    \* wifi_cooldown_counter
  seen,        \* current_active of network_monitor_task
  internet,    \* internet_connected: the 4G module has an address
  usbNetif,    \* get_usb_netif() # NULL
  wifi,        \* external: what WiFi would answer to a test
  saved,       \* external: WiFi credentials are in flash
  pc,          \* where each task is
  owed         \* history: rounds a steady 4G is kept after WiFi failed

flags       == <<is_4g_active, is_wifi_active>>
monitorVars == <<recovery, cooldown, seen, owed>>
environment == <<internet, usbNetif, wifi, saved>>
vars == <<flags, route, monitorVars, environment, pc>>

Tasks  == {"main", "monitor", "link"}
Routes == {"none", "4G", "WiFi"}

At(t, p)   == pc[t] = p
Goto(t, p) == pc' = [pc EXCEPT ![t] = p]

Only4G   == is_4g_active /\ ~is_wifi_active
OnlyWifi == is_wifi_active /\ ~is_4g_active

\* get_active_netif.
Active == IF is_4g_active THEN "4G"
          ELSE IF is_wifi_active THEN "WiFi" ELSE "none"

\* test_network_connectivity_with_netif for the WiFi interface.
WifiTested == wifi = "ok"

-----------------------------------------------------------------------------
(* The two switches, in the task t.                                        *)

\* Variant: the counters are cleared, the cooldown is not started.
Done4GWithoutCooldown(t) ==
  \/ /\ t = "monitor"
     /\ recovery' = 0
     /\ owed' = IF internet THEN CooldownRounds + RequiredRecovery - 1 ELSE 0
     /\ Goto(t, "align")
     /\ UNCHANGED <<cooldown, seen>>
  \/ /\ t = "link"
     /\ Goto(t, "watch")
     /\ UNCHANGED monitorVars

\* switch_to_4g_network has returned, with or without a switch.  The monitor
\* starts the cooldown.
Done4G(t) ==
  \/ /\ t = "monitor"
     /\ recovery' = 0
     /\ cooldown' = CooldownRounds
     /\ owed' = IF internet THEN CooldownRounds + RequiredRecovery - 1 ELSE 0
     /\ Goto(t, "align")
     /\ UNCHANGED seen
  \/ /\ t = "link"
     /\ Goto(t, "watch")
     /\ UNCHANGED monitorVars

\* switch_to_4g_network: nothing to do, no module, or the route is set.
switch_to_4g_network(t) ==
  /\ At(t, "to4g")
  /\ \/ /\ Only4G \/ ~usbNetif
        /\ Done4G(t)
        /\ UNCHANGED route
     \/ /\ ~Only4G /\ usbNetif
        /\ route' = "4G"
        /\ Goto(t, "set4g")
        /\ UNCHANGED monitorVars
  /\ UNCHANGED <<flags, environment>>

\* Where a task goes once both flags are written: main starts the monitor, the
\* others reconnect the voice agent and wait for the network to settle.
FlagsWritten(t, settle) ==
  pc' = IF t = "main" THEN [pc EXCEPT !["main"] = "done", !["monitor"] = "align"]
                      ELSE [pc EXCEPT ![t] = settle]

\* Variant: the other network's flag is not cleared.
Set4GOnly(t) ==
  /\ At(t, "set4g")
  /\ is_4g_active' = TRUE
  /\ FlagsWritten(t, "settle4g")
  /\ UNCHANGED <<is_wifi_active, route, monitorVars, environment>>

Set4G(t) ==
  /\ At(t, "set4g")
  /\ is_4g_active' = TRUE
  /\ Goto(t, "clearWifi")
  /\ UNCHANGED <<is_wifi_active, route, monitorVars, environment>>

ClearWifi(t) ==
  /\ At(t, "clearWifi")
  /\ is_wifi_active' = FALSE
  /\ FlagsWritten(t, "settle4g")
  /\ UNCHANGED <<is_4g_active, route, monitorVars, environment>>

Settle4G(t) ==
  /\ At(t, "settle4g")
  /\ Done4G(t)
  /\ UNCHANGED <<flags, route, environment>>

\* Variant: the good tests are not forgotten.
DoneWifiKeepsTests == /\ cooldown' = 0
                      /\ Goto("monitor", "align")
                      /\ UNCHANGED <<recovery, seen, owed>>

\* switch_to_wifi_network has returned: the counters are cleared.
DoneWifi == /\ recovery' = 0
            /\ cooldown' = 0
            /\ Goto("monitor", "align")
            /\ UNCHANGED <<seen, owed>>

\* Only the monitor calls switch_to_wifi_network.
switch_to_wifi_network ==
  /\ At("monitor", "toWifi")
  /\ \/ /\ OnlyWifi
        /\ DoneWifi
        /\ UNCHANGED route
     \/ /\ ~OnlyWifi
        /\ route' = "WiFi"
        /\ Goto("monitor", "setWifi")
        /\ UNCHANGED monitorVars
  /\ UNCHANGED <<flags, environment>>

SetWifi(t) ==
  /\ At(t, "setWifi")
  /\ is_wifi_active' = TRUE
  /\ Goto(t, "clear4g")
  /\ UNCHANGED <<is_4g_active, route, monitorVars, environment>>

Clear4G(t) ==
  /\ At(t, "clear4g")
  /\ is_4g_active' = FALSE
  /\ FlagsWritten(t, "settleWifi")
  /\ UNCHANGED <<is_wifi_active, route, monitorVars, environment>>

SettleWifi ==
  /\ At("monitor", "settleWifi")
  /\ DoneWifi
  /\ UNCHANGED <<flags, route, environment>>

-----------------------------------------------------------------------------
(* network_manager_init, in main.                                          *)

\* wait_wifi_connect: WiFi is connected, or the 4G module (with credentials at
\* once, without them after the 90 s in which the user may provide some).
wait_wifi_connect ==
  /\ At("main", "wait")
  /\ wifi # "noip" \/ internet
  /\ Goto("main", "init")
  /\ UNCHANGED <<flags, route, monitorVars, environment>>

\* The link task may have switched to 4G already.  The default route is left
\* alone: the interface asked for, ETH_DEF, does not exist.
network_manager_init ==
  /\ At("main", "init")
  /\ Goto("main", IF internet /\ ~saved THEN "set4g" ELSE "setWifi")
  /\ UNCHANGED <<flags, route, monitorVars, environment>>

-----------------------------------------------------------------------------
(* network_monitor_task.                                                   *)

\* Variant: the route is not set again.
RouteNotAligned ==
  /\ At("monitor", "align")
  /\ Goto("monitor", "sleep")
  /\ UNCHANGED <<flags, route, monitorVars, environment>>

\* The top of the loop: the active network is looked up ...
LookUpActive ==
  /\ At("monitor", "align")
  /\ seen' = Active
  /\ Goto("monitor", IF Active = "none" THEN "sleep" ELSE "default")
  /\ UNCHANGED <<flags, route, recovery, cooldown, owed, environment>>

\* ... and made the default route.
AlignRoute ==
  /\ At("monitor", "default")
  /\ route' = seen
  /\ Goto("monitor", "sleep")
  /\ UNCHANGED <<flags, monitorVars, environment>>

\* WiFi is the active network and does not work.  One failure is enough, so
\* that wifi_fail_count is 0 between rounds.  Without credentials WiFi stays.
WifiLost ==
  \/ /\ saved
     /\ Goto("monitor", "to4g")
     /\ UNCHANGED recovery
  \/ /\ ~saved
     /\ recovery' = 0
     /\ Goto("monitor", "align")

\* On 4G: during the cooldown nothing is done unless 4G is down too; otherwise
\* WiFi is tested when it has an address.
On4G(left) ==
  LET waiting == left > 0 /\ internet IN
  \/ /\ waiting
     /\ Goto("monitor", "align")
     /\ UNCHANGED recovery
  \/ /\ ~waiting /\ wifi = "noip"
     /\ recovery' = 0
     /\ Goto("monitor", "align")
  \/ /\ ~waiting /\ wifi # "noip"
     /\ Goto("monitor", "testWifi")
     /\ UNCHANGED recovery

OnWifi ==
  \/ wifi = "noip" /\ WifiLost
  \/ /\ wifi # "noip"
     /\ Goto("monitor", "watchWifi")
     /\ UNCHANGED recovery

\* Ten seconds later.  With both flags set, or none, the monitor does nothing.
MonitorRound ==
  /\ At("monitor", "sleep")
  /\ cooldown' = IF cooldown > 0 THEN cooldown - 1 ELSE 0
  /\ owed' = IF owed > 0 THEN owed - 1 ELSE 0
  /\ \/ Only4G /\ On4G(cooldown')
     \/ OnlyWifi /\ OnWifi
     \/ /\ is_4g_active = is_wifi_active
        /\ Goto("monitor", "align")
        /\ UNCHANGED recovery
  /\ UNCHANGED <<flags, route, seen, environment>>

\* Variant: a good test is not counted while the 4G module works.
TestIgnoredOn4G ==
  /\ At("monitor", "testWifi")
  /\ IF WifiTested /\ ~internet
       THEN recovery' = recovery + 1 /\ Goto("monitor", "toWifi")
       ELSE recovery' = 0 /\ Goto("monitor", "align")
  /\ UNCHANGED <<flags, route, cooldown, seen, owed, environment>>

\* The test of WiFi while on 4G.  internet_connected is read after it.
TestForReturn ==
  /\ At("monitor", "testWifi")
  /\ \/ /\ WifiTested
        /\ recovery' = recovery + 1
        /\ Goto("monitor",
                IF recovery' >= (IF internet THEN RequiredRecovery ELSE 1)
                  THEN "toWifi" ELSE "align")
     \/ /\ ~WifiTested
        /\ recovery' = 0
        /\ Goto("monitor", "align")
  /\ UNCHANGED <<flags, route, cooldown, seen, owed, environment>>

\* Variant: a WiFi with an address is taken for a working one.
AddressIsEnough ==
  /\ At("monitor", "watchWifi")
  /\ Goto("monitor", "align")
  /\ UNCHANGED <<flags, route, monitorVars, environment>>

\* The test of WiFi while it is in use.
TestInUse ==
  /\ At("monitor", "watchWifi")
  /\ \/ /\ WifiTested
        /\ Goto("monitor", "align")
        /\ UNCHANGED recovery
     \/ ~WifiTested /\ WifiLost
  /\ UNCHANGED <<flags, route, cooldown, seen, owed, environment>>

-----------------------------------------------------------------------------
(* The 4G link task.                                                       *)

\* internet_connected changes; a steady 4G ends with it.
SetInternet(on) == /\ internet' = on
                   /\ owed' = IF on THEN owed ELSE 0
                   /\ UNCHANGED <<recovery, cooldown, seen>>

LinkStarts ==
  /\ At("link", "off")
  /\ usbNetif' = TRUE
  /\ SetInternet(FALSE)
  /\ Goto("link", "down")
  /\ UNCHANGED <<flags, route, wifi, saved>>

\* STATE_CONNECTED.
LinkConnected ==
  /\ At("link", "down")
  /\ SetInternet(TRUE)
  /\ Goto("link", "test")
  /\ UNCHANGED <<flags, route, usbNetif, wifi, saved>>

\* WiFi is tested; 4G is used when it does not work.
LinkTestsWifi ==
  /\ At("link", "test")
  /\ Goto("link", IF WifiTested THEN "watch" ELSE "to4g")
  /\ UNCHANGED <<flags, route, monitorVars, environment>>

LinkLost ==
  /\ At("link", "watch")
  /\ ~internet
  /\ Goto("link", "down")
  /\ UNCHANGED <<flags, route, monitorVars, environment>>

\* STATE_ERROR_NO_SIM: the task ends.
LinkEnds ==
  /\ At("link", "down")
  /\ SetInternet(FALSE)
  /\ Goto("link", "ended")
  /\ UNCHANGED <<flags, route, usbNetif, wifi, saved>>

-----------------------------------------------------------------------------
(* Outside.                                                                *)

\* The module gets or loses its address: iot_event_handle, or the link task on
\* its way up or down.  An interface that gets an address may take the default
\* route.
InternetChanges ==
  /\ usbNetif
  /\ SetInternet(~internet)
  /\ \/ UNCHANGED route
     \/ internet' /\ route' = "4G"
  /\ UNCHANGED <<flags, usbNetif, wifi, saved, pc>>

\* WiFi: no address, an address behind which nothing answers, or the Internet.
WifiChanges ==
  /\ saved
  /\ wifi' \in {"noip", "captive", "ok"} \ {wifi}
  /\ UNCHANGED <<flags, route, monitorVars, internet, usbNetif, saved, pc>>

\* The user provides credentials.
Provisioned ==
  /\ ~saved
  /\ saved' = TRUE
  /\ UNCHANGED <<flags, route, monitorVars, internet, usbNetif, wifi, pc>>

-----------------------------------------------------------------------------

Init ==
  /\ is_4g_active = FALSE
  /\ is_wifi_active = FALSE
  /\ route = "none"
  /\ recovery = 0
  /\ cooldown = 0
  /\ seen = "none"
  /\ internet = FALSE
  /\ usbNetif = FALSE
  /\ wifi = "noip"
  /\ saved \in BOOLEAN
  /\ pc = [t \in Tasks |-> CASE t = "main" -> "wait"
                             [] t = "monitor" -> "none"
                             [] OTHER -> "off"]
  /\ owed = 0

Switching(t) ==
  \/ switch_to_4g_network(t)
  \/ Set4G(t) \/ ClearWifi(t) \/ Settle4G(t)
  \/ SetWifi(t) \/ Clear4G(t)

Monitor ==
  \/ LookUpActive \/ AlignRoute
  \/ MonitorRound
  \/ TestForReturn \/ TestInUse
  \/ switch_to_wifi_network \/ SettleWifi

Outside == InternetChanges \/ WifiChanges \/ Provisioned

Next ==
  \/ \E t \in Tasks : Switching(t)
  \/ wait_wifi_connect \/ network_manager_init
  \/ Monitor
  \/ LinkStarts \/ LinkConnected \/ LinkTestsWifi \/ LinkLost \/ LinkEnds
  \/ Outside

Spec == Init /\ [][Next]_vars

(***************************************************************************)
(* Tasks run and their tests and delays end.  Nobody owes a connection,    *)
(* credentials or a working WiFi.                                          *)
(***************************************************************************)
Fairness ==
  /\ \A t \in Tasks : WF_vars(Switching(t))
  /\ WF_vars(wait_wifi_connect \/ network_manager_init)
  /\ WF_vars(Monitor)
  /\ WF_vars(LinkTestsWifi)

FairSpec == Spec /\ Fairness

-----------------------------------------------------------------------------

MainPlaces    == {"wait", "init", "set4g", "clearWifi", "setWifi", "clear4g",
                  "done"}
ReturnPlaces  == {"toWifi", "setWifi", "clear4g", "settleWifi"}
MonitorPlaces == {"none", "align", "default", "sleep", "testWifi", "watchWifi",
                  "to4g", "set4g", "clearWifi", "settle4g"} \cup ReturnPlaces
LinkPlaces    == {"off", "down", "test", "to4g", "set4g", "clearWifi",
                  "settle4g", "watch", "ended"}
Places        == MainPlaces \cup MonitorPlaces \cup LinkPlaces

\* The type invariant of the flags, the counters and the tasks.
TypeOK ==
  /\ is_4g_active \in BOOLEAN
  /\ is_wifi_active \in BOOLEAN
  /\ route \in Routes
  /\ recovery \in 0..RequiredRecovery
  /\ cooldown \in 0..CooldownRounds
  /\ seen \in Routes
  /\ internet \in BOOLEAN
  /\ usbNetif \in BOOLEAN
  /\ wifi \in {"noip", "captive", "ok"}
  /\ saved \in BOOLEAN
  /\ owed \in 0..(CooldownRounds + RequiredRecovery)
  /\ pc \in [Tasks -> Places]
  /\ pc["main"] \in MainPlaces
  /\ pc["monitor"] \in MonitorPlaces
  /\ pc["link"] \in LinkPlaces
  /\ pc["main"] = "done" <=> pc["monitor"] # "none"
  /\ recovery = RequiredRecovery => pc["monitor"] \in ReturnPlaces

\* No task is between the two writes of a switch.
FlagsAtRest ==
  \A t \in Tasks : pc[t] \notin {"set4g", "clearWifi", "setWifi", "clear4g"}

\* However main, the monitor and the link task overlap, once their switches are
\* over the two networks are not both active, a state in which the monitor would
\* never act again: each sets the flag of the new network before it clears the
\* other.
NeverBothActive == FlagsAtRest => ~(is_4g_active /\ is_wifi_active)

\* After WiFi has failed, a 4G link that stays up is kept for the cooldown and
\* the rounds of good WiFi tests in a row that follow it; the phone does not flap.
SteadyLinkKept ==
  [][pc["monitor"] # "toWifi" /\ pc'["monitor"] = "toWifi" => owed = 0]_vars

\* The default route, taken by another interface or by a switch that overlaps,
\* is the active network's again in the end.
RouteRealigned ==
  Active # "none" /\ route # Active ~> Active = "none" \/ route = Active

NoneActive == ~is_4g_active /\ ~is_wifi_active

\* With credentials, a 4G link that is up and a WiFi that has stopped working
\* for good, the phone ends on 4G (or has no active network: see OneActive).
FailsOver ==
  <>[](saved /\ internet /\ wifi # "ok") => <>[]is_4g_active \/ <>[]NoneActive

\* When WiFi works for good the phone ends on WiFi, whatever 4G does.
ReturnsToWifi ==
  <>[](wifi = "ok") => <>[]OnlyWifi \/ <>[]NoneActive

-----------------------------------------------------------------------------
(* What the comments of the code say and the code does not do.             *)

\* "The monitor switches to the best interface": once it runs there is an
\* active network whenever no switch is going on.
OneActive ==
  pc["main"] = "done" /\ FlagsAtRest => is_4g_active \/ is_wifi_active
=============================================================================
