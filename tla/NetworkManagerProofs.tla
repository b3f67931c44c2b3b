------------------------ MODULE NetworkManagerProofs ------------------------
(***************************************************************************)
(* Safety of the network manager for every length of the cooldown and any  *)
(* number of tests.                                                        *)
(***************************************************************************)
EXTENDS NetworkManager, TLAPS

\* The type invariant by parts.
DataOK ==
  /\ is_4g_active \in BOOLEAN
  /\ is_wifi_active \in BOOLEAN
  /\ route \in Routes
  /\ seen \in Routes
  /\ internet \in BOOLEAN
  /\ usbNetif \in BOOLEAN
  /\ wifi \in {"noip", "captive", "ok"}
  /\ saved \in BOOLEAN

CountersOK ==
  /\ recovery \in 0..RequiredRecovery
  /\ cooldown \in 0..CooldownRounds
  /\ owed \in 0..(CooldownRounds + RequiredRecovery)

PlacesOK ==
  /\ pc \in [Tasks -> Places]
  /\ pc["main"] \in MainPlaces
  /\ pc["monitor"] \in MonitorPlaces
  /\ pc["link"] \in LinkPlaces
  /\ pc["main"] = "done" <=> pc["monitor"] # "none"

TestsOK == recovery = RequiredRecovery => pc["monitor"] \in ReturnPlaces

USE DEF Tasks, At, Goto

LEMMA TypeSplit == TypeOK <=> DataOK /\ CountersOK /\ PlacesOK /\ TestsOK
  BY DEF TypeOK, DataOK, CountersOK, PlacesOK, TestsOK

LEMMA TypeInit == Init => TypeOK
  <1> SUFFICES ASSUME Init PROVE TypeOK
    OBVIOUS
  <1>1. DataOK
    BY DEF Init, DataOK, Routes
  <1>2. CountersOK
    BY CooldownPositive, RecoveryPositive
    DEF Init, CountersOK, CooldownPositive, RecoveryPositive
  <1>3. PlacesOK
    BY DEF Init, PlacesOK, Places, MainPlaces, MonitorPlaces, LinkPlaces
  <1>4. TestsOK
    BY RecoveryPositive DEF Init, TestsOK, RecoveryPositive
  <1> QED
    BY <1>1, <1>2, <1>3, <1>4, TypeSplit

(***************************************************************************)
(* The flags, the route and the surroundings stay typed.                   *)
(***************************************************************************)
LEMMA DataStep == TypeOK /\ [Next]_vars => DataOK'
  <1> SUFFICES ASSUME DataOK, [Next]_vars PROVE DataOK'
    BY TypeSplit
  <1> USE DEF DataOK, Routes, flags, environment, monitorVars
  <1>1. ASSUME NEW t \in Tasks, Switching(t) PROVE DataOK'
    <2>1. CASE switch_to_4g_network(t)
      BY <2>1 DEF switch_to_4g_network, Done4G
    <2>2. CASE Set4G(t) \/ ClearWifi(t) \/ SetWifi(t) \/ Clear4G(t)
      BY <2>2 DEF Set4G, ClearWifi, SetWifi, Clear4G
    <2>3. CASE Settle4G(t)
      BY <2>3 DEF Settle4G, Done4G
    <2> QED
      BY <1>1, <2>1, <2>2, <2>3 DEF Switching
  <1>2. CASE wait_wifi_connect \/ network_manager_init
    BY <1>2 DEF wait_wifi_connect, network_manager_init
  <1>3. CASE Monitor
    <2>1. CASE LookUpActive
      BY <2>1 DEF LookUpActive, Active
    <2>2. CASE AlignRoute \/ MonitorRound
      BY <2>2 DEF AlignRoute, MonitorRound
    <2>3. CASE TestForReturn \/ TestInUse
      BY <2>3 DEF TestForReturn, TestInUse
    <2>4. CASE switch_to_wifi_network \/ SettleWifi
      BY <2>4 DEF switch_to_wifi_network, SettleWifi, DoneWifi
    <2> QED
      BY <1>3, <2>1, <2>2, <2>3, <2>4 DEF Monitor
  <1>4. CASE LinkStarts \/ LinkConnected \/ LinkTestsWifi \/ LinkLost \/ LinkEnds
    <2>1. CASE LinkStarts \/ LinkConnected
      BY <2>1 DEF LinkStarts, LinkConnected, SetInternet
    <2>2. CASE LinkTestsWifi \/ LinkLost
      BY <2>2 DEF LinkTestsWifi, LinkLost
    <2>3. CASE LinkEnds
      BY <2>3 DEF LinkEnds, SetInternet
    <2> QED
      BY <1>4, <2>1, <2>2, <2>3
  <1>5. CASE Outside
    BY <1>5 DEF Outside, InternetChanges, WifiChanges, Provisioned, SetInternet
  <1>6. CASE UNCHANGED vars
    BY <1>6 DEF vars
  <1> QED
    BY <1>1, <1>2, <1>3, <1>4, <1>5, <1>6 DEF Next

(***************************************************************************)
(* The counters.                                                           *)
(***************************************************************************)
LEMMA CountersStep == TypeOK /\ [Next]_vars => CountersOK'
  <1> SUFFICES ASSUME CountersOK, TestsOK, [Next]_vars PROVE CountersOK'
    BY TypeSplit
  <1> USE CooldownPositive, RecoveryPositive
      DEF CountersOK, monitorVars, CooldownPositive, RecoveryPositive
  <1>1. ASSUME NEW t \in Tasks, Switching(t) PROVE CountersOK'
    <2>1. CASE switch_to_4g_network(t)
      BY <2>1 DEF switch_to_4g_network, Done4G
    <2>2. CASE Set4G(t) \/ ClearWifi(t) \/ SetWifi(t) \/ Clear4G(t)
      BY <2>2 DEF Set4G, ClearWifi, SetWifi, Clear4G
    <2>3. CASE Settle4G(t)
      BY <2>3 DEF Settle4G, Done4G
    <2> QED
      BY <1>1, <2>1, <2>2, <2>3 DEF Switching
  <1>2. CASE wait_wifi_connect \/ network_manager_init
    BY <1>2 DEF wait_wifi_connect, network_manager_init
  <1>3. CASE Monitor
    <2>1. CASE LookUpActive \/ AlignRoute
      BY <2>1 DEF LookUpActive, AlignRoute
    <2>2. CASE MonitorRound
      BY <2>2 DEF MonitorRound, On4G, OnWifi, WifiLost
    <2>3. CASE TestForReturn
      BY <2>3 DEF TestForReturn, TestsOK, ReturnPlaces
    <2>4. CASE TestInUse
      BY <2>4 DEF TestInUse, WifiLost
    <2>5. CASE switch_to_wifi_network \/ SettleWifi
      BY <2>5 DEF switch_to_wifi_network, SettleWifi, DoneWifi
    <2> QED
      BY <1>3, <2>1, <2>2, <2>3, <2>4, <2>5 DEF Monitor
  <1>4. CASE LinkStarts \/ LinkConnected \/ LinkTestsWifi \/ LinkLost \/ LinkEnds
    BY <1>4 DEF LinkStarts, LinkConnected, LinkTestsWifi, LinkLost, LinkEnds,
                SetInternet
  <1>5. CASE Outside
    BY <1>5 DEF Outside, InternetChanges, WifiChanges, Provisioned, SetInternet
  <1>6. CASE UNCHANGED vars
    BY <1>6 DEF vars
  <1> QED
    BY <1>1, <1>2, <1>3, <1>4, <1>5, <1>6 DEF Next

(***************************************************************************)
(* The places of the tasks.                                                *)
(***************************************************************************)
LEMMA PlacesStep == TypeOK /\ [Next]_vars => PlacesOK'
  <1> SUFFICES ASSUME PlacesOK, [Next]_vars PROVE PlacesOK'
    BY TypeSplit
  <1> USE DEF PlacesOK, Places, MainPlaces, MonitorPlaces, ReturnPlaces,
              LinkPlaces
  <1>1. ASSUME NEW t \in Tasks, Switching(t) PROVE PlacesOK'
    <2>1. CASE switch_to_4g_network(t)
      BY <2>1 DEF switch_to_4g_network, Done4G
    <2>2. CASE Set4G(t)
      BY <2>2 DEF Set4G
    <2>3. CASE SetWifi(t)
      BY <2>3 DEF SetWifi
    <2>4. CASE ClearWifi(t)
      BY <2>4 DEF ClearWifi, FlagsWritten
    <2>5. CASE Clear4G(t)
      BY <2>5 DEF Clear4G, FlagsWritten
    <2>6. CASE Settle4G(t)
      BY <2>6 DEF Settle4G, Done4G
    <2> QED
      BY <1>1, <2>1, <2>2, <2>3, <2>4, <2>5, <2>6 DEF Switching
  <1>2. CASE wait_wifi_connect \/ network_manager_init
    BY <1>2 DEF wait_wifi_connect, network_manager_init
  <1>3. CASE Monitor
    <2>1. CASE LookUpActive \/ AlignRoute
      BY <2>1 DEF LookUpActive, AlignRoute
    <2>2. CASE MonitorRound
      BY <2>2 DEF MonitorRound, On4G, OnWifi, WifiLost
    <2>3. CASE TestForReturn \/ TestInUse
      BY <2>3 DEF TestForReturn, TestInUse, WifiLost
    <2>4. CASE switch_to_wifi_network \/ SettleWifi
      BY <2>4 DEF switch_to_wifi_network, SettleWifi, DoneWifi
    <2> QED
      BY <1>3, <2>1, <2>2, <2>3, <2>4 DEF Monitor
  <1>4. CASE LinkStarts \/ LinkConnected \/ LinkTestsWifi \/ LinkLost \/ LinkEnds
    <2>1. \E p \in LinkPlaces : pc' = [pc EXCEPT !["link"] = p]
      BY <1>4 DEF LinkStarts, LinkConnected, LinkTestsWifi, LinkLost, LinkEnds
    <2> QED
      BY <2>1
  <1>5. CASE Outside \/ UNCHANGED vars
    BY <1>5 DEF Outside, InternetChanges, WifiChanges, Provisioned, vars
  <1> QED
    BY <1>1, <1>2, <1>3, <1>4, <1>5 DEF Next

\* recovery reaches RequiredRecovery only on the way to WiFi.
LEMMA TestsStep == TypeOK /\ [Next]_vars => TestsOK'
  <1> SUFFICES ASSUME CountersOK, PlacesOK, TestsOK, [Next]_vars
               PROVE  TestsOK'
    BY TypeSplit
  <1> USE RecoveryPositive
      DEF CountersOK, PlacesOK, TestsOK, monitorVars, ReturnPlaces,
          RecoveryPositive
  <1>1. ASSUME NEW t \in Tasks, Switching(t) PROVE TestsOK'
    <2>1. CASE switch_to_4g_network(t)
      BY <2>1 DEF switch_to_4g_network, Done4G
    <2>2. CASE Set4G(t)
      BY <2>2 DEF Set4G
    <2>3. CASE SetWifi(t)
      BY <2>3 DEF SetWifi
    <2>4. CASE ClearWifi(t)
      BY <2>4 DEF ClearWifi, FlagsWritten
    <2>5. CASE Clear4G(t)
      BY <2>5 DEF Clear4G, FlagsWritten
    <2>6. CASE Settle4G(t)
      BY <2>6 DEF Settle4G, Done4G
    <2> QED
      BY <1>1, <2>1, <2>2, <2>3, <2>4, <2>5, <2>6 DEF Switching
  <1>2. CASE wait_wifi_connect \/ network_manager_init
    BY <1>2 DEF wait_wifi_connect, network_manager_init
  <1>3. CASE Monitor
    <2>1. CASE LookUpActive \/ AlignRoute
      BY <2>1 DEF LookUpActive, AlignRoute
    <2>2. CASE MonitorRound
      BY <2>2 DEF MonitorRound, On4G, OnWifi, WifiLost
    <2>3. CASE TestForReturn
      BY <2>3 DEF TestForReturn
    <2>4. CASE TestInUse
      BY <2>4 DEF TestInUse, WifiLost
    <2>5. CASE switch_to_wifi_network \/ SettleWifi
      BY <2>5 DEF switch_to_wifi_network, SettleWifi, DoneWifi
    <2> QED
      BY <1>3, <2>1, <2>2, <2>3, <2>4, <2>5 DEF Monitor
  <1>4. CASE LinkStarts \/ LinkConnected \/ LinkTestsWifi \/ LinkLost \/ LinkEnds
    BY <1>4 DEF LinkStarts, LinkConnected, LinkTestsWifi, LinkLost, LinkEnds,
                SetInternet
  <1>5. CASE Outside \/ UNCHANGED vars
    BY <1>5 DEF Outside, InternetChanges, WifiChanges, Provisioned, vars,
                SetInternet
  <1> QED
    BY <1>1, <1>2, <1>3, <1>4, <1>5 DEF Next

\* Every reachable state of the network manager is well typed.
THEOREM NetworkTypeCorrect == Spec => []TypeOK
  <1>1. TypeOK /\ [Next]_vars => TypeOK'
    <2> SUFFICES ASSUME TypeOK, [Next]_vars PROVE TypeOK'
      OBVIOUS
    <2>1. (DataOK /\ CountersOK /\ PlacesOK /\ TestsOK)'
      BY DataStep, CountersStep, PlacesStep, TestsStep
    <2>2. TypeOK' <=> (DataOK /\ CountersOK /\ PlacesOK /\ TestsOK)'
      BY DEF TypeOK, DataOK, CountersOK, PlacesOK, TestsOK
    <2> QED
      BY <2>1, <2>2
  <1> QED
    BY TypeInit, <1>1, PTL DEF Spec

-----------------------------------------------------------------------------
(***************************************************************************)
(* Both flags are set only while somebody is about to clear one of them.   *)
(***************************************************************************)
SomebodyClears == \E t \in Tasks : pc[t] \in {"clearWifi", "clear4g"}

BothInv == is_4g_active /\ is_wifi_active => SomebodyClears

\* A task that sets its flag goes on to clear the other one.
LEMMA BothStep == TypeOK /\ BothInv /\ [Next]_vars => BothInv'
  <1> SUFFICES ASSUME DataOK, PlacesOK, BothInv, [Next]_vars PROVE BothInv'
    BY TypeSplit
  <1> USE DEF DataOK, PlacesOK, BothInv, SomebodyClears, flags
  <1>1. ASSUME NEW t \in Tasks, Switching(t) PROVE BothInv'
    <2>1. CASE switch_to_4g_network(t)
      BY <2>1 DEF switch_to_4g_network, Done4G
    <2>2. CASE Set4G(t) \/ SetWifi(t)
      BY <2>2 DEF Set4G, SetWifi
    <2>3. CASE ClearWifi(t) \/ Clear4G(t)
      BY <2>3 DEF ClearWifi, Clear4G
    <2>4. CASE Settle4G(t)
      BY <2>4 DEF Settle4G, Done4G
    <2> QED
      BY <1>1, <2>1, <2>2, <2>3, <2>4 DEF Switching
  <1>2. CASE wait_wifi_connect \/ network_manager_init
    BY <1>2 DEF wait_wifi_connect, network_manager_init
  <1>3. CASE Monitor
    <2>1. CASE LookUpActive \/ AlignRoute
      BY <2>1 DEF LookUpActive, AlignRoute
    <2>2. CASE MonitorRound
      BY <2>2 DEF MonitorRound, On4G, OnWifi, WifiLost
    <2>3. CASE TestForReturn \/ TestInUse
      BY <2>3 DEF TestForReturn, TestInUse, WifiLost
    <2>4. CASE switch_to_wifi_network \/ SettleWifi
      BY <2>4 DEF switch_to_wifi_network, SettleWifi, DoneWifi
    <2> QED
      BY <1>3, <2>1, <2>2, <2>3, <2>4 DEF Monitor
  <1>4. CASE LinkStarts \/ LinkConnected \/ LinkTestsWifi \/ LinkLost \/ LinkEnds
    BY <1>4 DEF LinkStarts, LinkConnected, LinkTestsWifi, LinkLost, LinkEnds
  <1>5. CASE Outside \/ UNCHANGED vars
    BY <1>5 DEF Outside, InternetChanges, WifiChanges, Provisioned, vars
  <1> QED
    BY <1>1, <1>2, <1>3, <1>4, <1>5 DEF Next

\* However the switches of main, the monitor and the link task overlap, the two
\* networks are not both active once they are over.
THEOREM OneAtATime == Spec => []NeverBothActive
  <1>1. Init => BothInv
    BY DEF Init, BothInv
  <1>2. BothInv => NeverBothActive
    BY DEF BothInv, SomebodyClears, NeverBothActive, FlagsAtRest
  <1> QED
    BY <1>1, BothStep, <1>2, NetworkTypeCorrect, PTL DEF Spec

-----------------------------------------------------------------------------
(***************************************************************************)
(* What is owed to a steady 4G link is never more than what the cooldown   *)
(* and the missing good tests will take.                                   *)
(***************************************************************************)
RoundsAhead == RequiredRecovery + (IF cooldown > 0 THEN cooldown - 1 ELSE 0)

SteadyInv ==
  /\ pc["monitor"] \in ReturnPlaces => owed = 0
  /\ owed > 0 => internet /\ owed + recovery <= RoundsAhead
  /\ owed > 0 /\ pc["monitor"] = "testWifi" =>
       cooldown = 0 /\ owed + recovery < RequiredRecovery

\* One round less is owed, and at most one less lies ahead.
LEMMA RoundArithmetic ==
  ASSUME NEW o \in Nat, NEW r \in Nat, NEW a \in Nat, NEW r2 \in Nat,
         NEW a2 \in Nat, o > 0, o + r <= a, r2 <= r, a <= a2 + 1
  PROVE  o - 1 + r2 <= a2
  OBVIOUS

\* Every round of the monitor repays one of the rounds owed.
LEMMA SteadyStep == TypeOK /\ SteadyInv /\ [Next]_vars => SteadyInv'
  <1> SUFFICES ASSUME DataOK, CountersOK, PlacesOK, SteadyInv, [Next]_vars
               PROVE  SteadyInv'
    BY TypeSplit
  <1> USE CooldownPositive, RecoveryPositive
      DEF DataOK, CountersOK, PlacesOK, SteadyInv, RoundsAhead, ReturnPlaces,
          monitorVars, environment, CooldownPositive, RecoveryPositive
  <1>1. ASSUME NEW t \in Tasks, Switching(t) PROVE SteadyInv'
    <2>1. CASE switch_to_4g_network(t)
      BY <2>1 DEF switch_to_4g_network, Done4G
    <2>2. CASE Set4G(t)
      BY <2>2 DEF Set4G
    <2>3. CASE SetWifi(t)
      BY <2>3 DEF SetWifi
    <2>4. CASE ClearWifi(t)
      BY <2>4 DEF ClearWifi, FlagsWritten
    <2>5. CASE Clear4G(t)
      BY <2>5 DEF Clear4G, FlagsWritten
    <2>6. CASE Settle4G(t)
      BY <2>6 DEF Settle4G, Done4G
    <2> QED
      BY <1>1, <2>1, <2>2, <2>3, <2>4, <2>5, <2>6 DEF Switching
  <1>2. CASE wait_wifi_connect \/ network_manager_init
    BY <1>2 DEF wait_wifi_connect, network_manager_init
  <1>3. CASE Monitor
    <2>1. CASE LookUpActive \/ AlignRoute
      BY <2>1 DEF LookUpActive, AlignRoute
    <2>2. CASE MonitorRound
      <3>1. owed' > 0 => owed' = owed - 1 /\ internet
        BY <2>2 DEF MonitorRound
      <3>2. pc'["monitor"] \notin ReturnPlaces
        BY <2>2 DEF MonitorRound, On4G, OnWifi, WifiLost
      <3>3. recovery' \in {0, recovery} /\ internet' = internet
        BY <2>2 DEF MonitorRound, On4G, OnWifi, WifiLost
      <3>4. cooldown' = IF cooldown > 0 THEN cooldown - 1 ELSE 0
        BY <2>2 DEF MonitorRound
      <3>5. ASSUME owed' > 0 PROVE owed' + recovery' <= RoundsAhead'
        <4>1. /\ owed \in Nat /\ recovery \in Nat /\ cooldown \in Nat
              /\ owed' = owed - 1 /\ owed > 0
          BY <3>1, <3>5
        <4>2. owed + recovery <= RoundsAhead /\ recovery' <= recovery
          BY <3>3, <4>1
        <4>3. RoundsAhead <= RoundsAhead' + 1
          BY <3>4, <4>1
        <4>4. /\ recovery' \in Nat
              /\ RoundsAhead \in Nat
              /\ RoundsAhead' \in Nat
          BY <3>3, <3>4, <4>1
        <4> QED
          BY <4>1, <4>2, <4>3, <4>4, RoundArithmetic
      <3>6. pc'["monitor"] = "testWifi" =>
              recovery' = recovery /\ (cooldown' = 0 \/ ~internet)
        BY <2>2 DEF MonitorRound, On4G, OnWifi, WifiLost
      <3> QED
        BY <3>1, <3>2, <3>3, <3>4, <3>5, <3>6
    <2>3. CASE TestForReturn
      BY <2>3 DEF TestForReturn
    <2>4. CASE TestInUse
      BY <2>4 DEF TestInUse, WifiLost
    <2>5. CASE switch_to_wifi_network \/ SettleWifi
      BY <2>5 DEF switch_to_wifi_network, SettleWifi, DoneWifi
    <2> QED
      BY <1>3, <2>1, <2>2, <2>3, <2>4, <2>5 DEF Monitor
  <1>4. CASE LinkStarts \/ LinkConnected \/ LinkTestsWifi \/ LinkLost \/ LinkEnds
    BY <1>4 DEF LinkStarts, LinkConnected, LinkTestsWifi, LinkLost, LinkEnds,
                SetInternet
  <1>5. CASE Outside \/ UNCHANGED vars
    BY <1>5 DEF Outside, InternetChanges, WifiChanges, Provisioned, SetInternet,
                vars
  <1> QED
    BY <1>1, <1>2, <1>3, <1>4, <1>5 DEF Next

\* The monitor decides for WiFi only in TestForReturn, which owes nothing new.
LEMMA OwedAtReturn ==
  ASSUME TypeOK, SteadyInv, SteadyInv', [Next]_vars,
         pc["monitor"] # "toWifi", pc'["monitor"] = "toWifi"
  PROVE  owed = 0
  <1> USE DEF PlacesOK, monitorVars
  <1>1. PlacesOK /\ CountersOK
    BY TypeSplit
  <1>2. owed' = 0
    BY DEF SteadyInv, ReturnPlaces
  <1>3. ASSUME NEW t \in Tasks, Switching(t) PROVE FALSE
    BY <1>1, <1>3 DEF Switching, switch_to_4g_network, Done4G, Set4G, ClearWifi,
                      SetWifi, Clear4G, Settle4G, FlagsWritten
  <1>4. CASE Monitor
    <2>1. CASE TestForReturn
      BY <1>2, <2>1 DEF TestForReturn
    <2>2. CASE Monitor /\ ~TestForReturn
      BY <1>1, <2>2
      DEF Monitor, LookUpActive, AlignRoute, MonitorRound, On4G, OnWifi,
          WifiLost, TestInUse, switch_to_wifi_network, SettleWifi, DoneWifi
    <2> QED
      BY <1>4, <2>1, <2>2
  <1>5. CASE \/ wait_wifi_connect \/ network_manager_init
             \/ LinkStarts \/ LinkConnected \/ LinkTestsWifi
             \/ LinkLost \/ LinkEnds
             \/ Outside \/ UNCHANGED vars
    BY <1>1, <1>5
    DEF wait_wifi_connect, network_manager_init, LinkStarts, LinkConnected,
        LinkTestsWifi, LinkLost, LinkEnds, Outside, InternetChanges,
        WifiChanges, Provisioned, vars
  <1> QED
    BY <1>3, <1>4, <1>5 DEF Next

\* For any cooldown and any number of tests: no way back to WiFi before a
\* steady 4G has been kept for as long as it is owed.
THEOREM SteadyKept == Spec => SteadyLinkKept
  <1>1. Init => SteadyInv
    BY DEF Init, SteadyInv, ReturnPlaces
  <1>2. TypeOK /\ SteadyInv /\ SteadyInv' /\ [Next]_vars =>
          [pc["monitor"] # "toWifi" /\ pc'["monitor"] = "toWifi" => owed = 0]_vars
    BY OwedAtReturn
  <1> QED
    BY <1>1, SteadyStep, <1>2, NetworkTypeCorrect, PTL DEF Spec, SteadyLinkKept
-----------------------------------------------------------------------------
(* What becomes of a phone without an active network (see OneActive).      *)

\* The monitor is in its loop, no flag is set and nobody is about to set one.
Dark ==
  /\ NoneActive
  /\ pc["main"] = "done"
  /\ pc["monitor"] \in {"align", "default", "sleep"}
  /\ pc["link"] \notin {"to4g", "set4g"}

\* The link task has connected anew and finds that WiFi does not work.
LinkTurnsTo4G == LinkTestsWifi /\ ~WifiTested

\* Nothing the monitor, WiFi or the user does ends a darkness, only the link
\* task's next switch.
OnlyTheLinkEndsIt == [][Dark => Dark' \/ LinkTurnsTo4G]_vars

\* Reading two flags that are both clear, the monitor does nothing, round after
\* round.
LEMMA DarkMonitor == TypeOK /\ Dark /\ Monitor => Dark'
  <1> SUFFICES ASSUME TypeOK, Dark, Monitor PROVE Dark'
    OBVIOUS
  <1> USE DEF Dark, NoneActive, TypeOK, flags, environment, monitorVars
  <1>1. CASE LookUpActive \/ AlignRoute
    BY <1>1 DEF LookUpActive, AlignRoute
  <1>2. CASE MonitorRound
    BY <1>2 DEF MonitorRound, Only4G, OnlyWifi
  <1> QED
    BY <1>1, <1>2 DEF Monitor, TestForReturn, TestInUse, switch_to_wifi_network,
                      SettleWifi

LEMMA DarkSwitch ==
  ASSUME TypeOK, Dark, NEW t \in Tasks, Switching(t)
  PROVE  Dark'
  <1> USE DEF Dark, NoneActive, TypeOK, flags, environment, monitorVars
  <1>1. t = "link"
    BY DEF Switching, switch_to_4g_network, Set4G, ClearWifi, Settle4G, SetWifi,
           Clear4G
  <1>2. CASE ClearWifi(t)
    BY <1>1, <1>2 DEF ClearWifi, FlagsWritten
  <1>3. CASE Settle4G(t)
    BY <1>1, <1>3 DEF Settle4G, Done4G
  <1>4. pc["link"] \in LinkPlaces
    OBVIOUS
  <1> QED
    BY <1>1, <1>2, <1>3, <1>4
    DEF Switching, switch_to_4g_network, Set4G, SetWifi, Clear4G, LinkPlaces

\* Once the start has left both flags clear, no step of the monitor, of WiFi, of
\* the user or of the 4G link brings a network back, except a link task that
\* connects anew while WiFi does not work: the failure is not repaired by the
\* task that is there to choose the network.
THEOREM DarknessLasts == Spec => OnlyTheLinkEndsIt
  <1>1. ASSUME TypeOK, Dark, Next PROVE Dark' \/ LinkTurnsTo4G
    <2> USE <1>1 DEF Dark, NoneActive, TypeOK, flags, environment, monitorVars
    <2>1. CASE \E t \in Tasks : Switching(t)
      BY <2>1, DarkSwitch
    <2>2. CASE Monitor
      BY <2>2, DarkMonitor
    <2>3. CASE wait_wifi_connect \/ network_manager_init
      BY <2>3 DEF wait_wifi_connect, network_manager_init
    <2>4. CASE LinkStarts \/ LinkConnected \/ LinkLost \/ LinkEnds
      BY <2>4 DEF LinkStarts, LinkConnected, LinkLost, LinkEnds, SetInternet
    <2>5. CASE LinkTestsWifi
      BY <2>5 DEF LinkTestsWifi, LinkTurnsTo4G
    <2>6. CASE Outside
      BY <2>6 DEF Outside, InternetChanges, WifiChanges, Provisioned, SetInternet
    <2> QED
      BY <1>1, <2>1, <2>2, <2>3, <2>4, <2>5, <2>6 DEF Next
  <1>2. TypeOK /\ [Next]_vars => [Dark => Dark' \/ LinkTurnsTo4G]_vars
    BY <1>1
  <1> QED
    BY <1>2, NetworkTypeCorrect, PTL DEF Spec, OnlyTheLinkEndsIt
-----------------------------------------------------------------------------
(* The link task as the network manager sees it is one that LinkPromise     *)
(* allows, the promise that ModemLink is shown to keep.                     *)

LinkPhase == CASE pc["link"] \in {"off", "down"} -> "down"
               [] pc["link"] \in {"watch", "ended"} -> pc["link"]
               [] OTHER -> "test"

Link == INSTANCE LinkPromise WITH phase <- LinkPhase

\* There is no address before the link task has made its interface.
StartInv == /\ pc["link"] = "off" <=> ~usbNetif
            /\ ~usbNetif => ~internet

LEMMA StartStep == TypeOK /\ StartInv /\ [Next]_vars => StartInv'
  <1> SUFFICES ASSUME TypeOK, StartInv, [Next]_vars PROVE StartInv'
    OBVIOUS
  <1> USE DEF StartInv, TypeOK, environment
  <1>1. ASSUME NEW t \in Tasks, Switching(t) PROVE StartInv'
    BY <1>1 DEF Switching, switch_to_4g_network, Set4G, ClearWifi, Settle4G,
      SetWifi, Clear4G, Done4G, FlagsWritten
  <1>2. CASE Monitor
    <2>1. pc'["link"] = pc["link"] /\ UNCHANGED <<usbNetif, internet>>
      BY <1>2 DEF Monitor, LookUpActive, AlignRoute, MonitorRound, On4G, OnWifi,
        WifiLost, TestForReturn, TestInUse, switch_to_wifi_network, SettleWifi,
        DoneWifi
    <2> QED
      BY <2>1
  <1>3. CASE wait_wifi_connect \/ network_manager_init
    BY <1>3 DEF wait_wifi_connect, network_manager_init
  <1>4. CASE LinkStarts \/ LinkConnected \/ LinkTestsWifi \/ LinkLost \/ LinkEnds
    BY <1>4 DEF LinkStarts, LinkConnected, LinkTestsWifi, LinkLost, LinkEnds,
                SetInternet
  <1>5. CASE Outside
    BY <1>5 DEF Outside, InternetChanges, WifiChanges, Provisioned, SetInternet
  <1>6. CASE UNCHANGED vars
    BY <1>6 DEF vars
  <1> QED
    BY <1>1, <1>2, <1>3, <1>4, <1>5, <1>6 DEF Next

LEMMA LinkPromiseStep ==
  TypeOK /\ StartInv /\ [Next]_vars => [Link!Next]_(Link!vars)
  <1> SUFFICES ASSUME TypeOK, StartInv, [Next]_vars
               PROVE  Link!Next \/ UNCHANGED Link!vars
    OBVIOUS
  <1> USE DEF TypeOK, LinkPhase, Link!vars, environment
  <1>1. ASSUME NEW t \in Tasks, Switching(t)
        PROVE  Link!Next \/ UNCHANGED Link!vars
    <2>1. UNCHANGED internet
      BY <1>1 DEF Switching, switch_to_4g_network, Set4G, ClearWifi, Settle4G,
        SetWifi, Clear4G
    <2>2. CASE t # "link"
      <3>1. pc'["link"] = pc["link"]
        BY <1>1, <2>2 DEF Switching, switch_to_4g_network, Set4G, ClearWifi,
          Settle4G, SetWifi, Clear4G, Done4G, FlagsWritten
      <3> QED
        BY <2>1, <3>1
    <2>3. CASE t = "link"
      <3>1. pc["link"] \in {"to4g", "set4g", "clearWifi", "settle4g"}
        BY <1>1, <2>3 DEF Switching, switch_to_4g_network, Set4G, ClearWifi,
          Settle4G, SetWifi, Clear4G, LinkPlaces
      <3>2. pc'["link"] \in {"set4g", "clearWifi", "settle4g", "watch"}
        BY <1>1, <2>3, <3>1 DEF Switching, switch_to_4g_network, Set4G, ClearWifi,
          Settle4G, SetWifi, Clear4G, Done4G, FlagsWritten
      <3> QED
        BY <2>1, <3>1, <3>2 DEF Link!Next, Link!Tested
    <2> QED
      BY <2>2, <2>3
  <1>2. CASE Monitor \/ wait_wifi_connect \/ network_manager_init
    <2>1. pc'["link"] = pc["link"] /\ UNCHANGED internet
      BY <1>2 DEF Monitor, LookUpActive, AlignRoute, MonitorRound, On4G, OnWifi,
        WifiLost, TestForReturn, TestInUse, switch_to_wifi_network, SettleWifi,
        DoneWifi, wait_wifi_connect, network_manager_init
    <2> QED
      BY <2>1
  <1>3. CASE LinkStarts
    BY <1>3 DEF LinkStarts, SetInternet, StartInv
  <1>4. CASE LinkConnected
    BY <1>4 DEF LinkConnected, SetInternet, Link!Next, Link!Connect
  <1>5. CASE LinkTestsWifi
    BY <1>5 DEF LinkTestsWifi, Link!Next, Link!Tested
  <1>6. CASE LinkLost
    BY <1>6 DEF LinkLost, Link!Next, Link!Lost
  <1>7. CASE LinkEnds
    BY <1>7 DEF LinkEnds, SetInternet, Link!Next, Link!End
  <1>8. CASE Outside
    BY <1>8 DEF Outside, InternetChanges, WifiChanges, Provisioned, SetInternet,
                Link!Next, Link!InternetChanges
  <1>9. CASE UNCHANGED vars
    BY <1>9 DEF vars
  <1> QED
    BY <1>1, <1>2, <1>3, <1>4, <1>5, <1>6, <1>7, <1>8, <1>9 DEF Next

\* The network manager and the 4G link are verified apart; what the one takes the
\* other for is what LinkPromise says, on both sides.
THEOREM LinkIsAsPromised == Spec => Link!Spec
  <1>1. Init => StartInv /\ Link!Init
    BY DEF Init, StartInv, Link!Init, LinkPhase
  <1> QED
    BY <1>1, StartStep, LinkPromiseStep, NetworkTypeCorrect, PTL
    DEF Spec, Link!Spec
=============================================================================
