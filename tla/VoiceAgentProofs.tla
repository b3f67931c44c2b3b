-------------------------- MODULE VoiceAgentProofs --------------------------
(***************************************************************************)
(* Safety of the voice agent for any number of threads and any number of   *)
(* failures before a restart.                                              *)
(***************************************************************************)
EXTENDS VoiceAgent, TLAPS

-----------------------------------------------------------------------------
(* The type invariant by parts.                                            *)

FlagsOK ==
  {connected, destroying, running, groups, join, service, reconnecting}
    \subseteq BOOLEAN

DataOK ==
  /\ engine \in Engines
  /\ threads \in [Slots -> {"none", "check", "wait", "work"}]
  /\ {saved, told} \subseteq Statuses \cup {"none"}
  /\ fault \in Faults
  /\ stop \in Stops

PlacesOK ==
  /\ pc["main"] \in MainAt
  /\ pc["mqtt"] \in DeinitAt \cup {"save"}
  /\ pc["engine"] \in DeinitAt \cup {"bit", "send"}
  /\ pc["user"] \in {"idle", "calling", "waking"}
  /\ DOMAIN pc = Tasks

FailsOK == fails \in 0..MaxReconnectFails

\* The last failure leads to a restart and to nothing else.
LastFails == fails = MaxReconnectFails => At("main", "restart")

LEMMA TypeSplit == TypeOK <=> FlagsOK /\ DataOK /\ PlacesOK /\ FailsOK
  BY DEF TypeOK, FlagsOK, DataOK, PlacesOK, FailsOK

USE DEF At, Goto, Tasks, Deiniters

\* What a deletion does to those who use the queue and the groups.
LEMMA DeleteFault ==
  ASSUME Delete
  PROVE  /\ groups' = FALSE /\ join' = FALSE
         /\ fault' \in {fault, "freed", "player", "user"}
         /\ Works => /\ fault' = "freed" => Waiting # {}
                     /\ fault' = "player" => At("engine", "send")
                     /\ fault' = "user" => At("user", "waking")
                     /\ fault' = "none" => ~At("engine", "send")
  BY DEF Delete, Caught, Works

LEMMA TypeInit == Init => TypeOK /\ LastFails
  <1> SUFFICES ASSUME Init PROVE TypeOK /\ LastFails
    OBVIOUS
  <1>1. FlagsOK
    BY DEF Init, FlagsOK
  <1>2. DataOK
    BY DEF Init, DataOK, Engines, Stops, Faults
  <1>3. PlacesOK
    BY DEF Init, PlacesOK, MainAt, DeinitAt
  <1>4. FailsOK /\ LastFails
    BY FailsPositive DEF Init, FailsOK, LastFails, FailsPositive
  <1> QED
    BY <1>1, <1>2, <1>3, <1>4, TypeSplit

LEMMA FlagsStep == TypeOK /\ [Next]_vars => FlagsOK'
  <1> SUFFICES ASSUME FlagsOK, [Next]_vars PROVE FlagsOK'
    BY TypeSplit
  <1> USE DEF FlagsOK, agent, memory, status, loop
  <1>1. CASE UNCHANGED vars
    BY <1>1 DEF vars
  <1>2. CASE MainStep
    BY <1>2, DeleteFault DEF MainStep, CreateGroups, NetworkAwaited, CreateEngine,
      LogIn, WaitForJoin, Joined, StartThreads, CleanUp, DecideToReconnect,
      BeginReconnect
  <1>3. ASSUME NEW t \in Deiniters, DeinitStep(t) PROVE FlagsOK'
    BY <1>3, DeleteFault DEF DeinitStep, DeleteGroups, BeginDestroy, EndDestroy
  <1>4. ASSUME NEW s \in Slots, ThreadStep(s) PROVE FlagsOK'
    BY <1>4 DEF ThreadStep, EnterWait, LeaveWait, EndWork
  <1>5. ASSUME NEW m \in Statuses, ServiceStatus(m) PROVE FlagsOK'
    BY <1>5 DEF ServiceStatus, StopService, StartService
  <1>6. CASE SaveStatus \/ MediaSetup
    BY <1>6 DEF SaveStatus, MediaSetup, StopService, StartService
  <1>7. CASE LoginSuccess \/ SetJoinBit \/ LoginFail
    BY <1>7 DEF LoginSuccess, SetJoinBit, LoginFail
  <1>8. CASE ConnectionState \/ brtc_force_reconnect
    BY <1>8 DEF ConnectionState, brtc_force_reconnect
  <1>9. CASE Restarted
    BY <1>9 DEF Restarted
  <1>10. CASE onAudioPlayerOp \/ PlayerTold
    BY <1>10 DEF onAudioPlayerOp, PlayerTold
  <1>11. CASE UserStep
    BY <1>11 DEF UserStep, CallEngine, KeyWakes, UserReturns
  <1> QED
    BY <1>1, <1>2, <1>3, <1>4, <1>5, <1>6, <1>7, <1>8, <1>9, <1>10,
       <1>11
    DEF Next, esp_restart, Panic, PowerLoss

LEMMA DataStep == TypeOK /\ [Next]_vars => DataOK'
  <1> SUFFICES ASSUME DataOK, [Next]_vars PROVE DataOK'
    BY TypeSplit
  <1> USE DEF DataOK, Engines, Stops, Statuses, Faults,
         DestroysUnderUser, agent, memory, status, loop
  <1>1. CASE UNCHANGED vars
    BY <1>1 DEF vars
  <1>2. CASE MainStep
    BY <1>2, DeleteFault DEF MainStep, CreateGroups, NetworkAwaited, CreateEngine,
      LogIn, WaitForJoin, Joined, StartThreads, CleanUp, DecideToReconnect,
      BeginReconnect
  <1>3. ASSUME NEW t \in Deiniters, DeinitStep(t) PROVE DataOK'
    BY <1>3, DeleteFault DEF DeinitStep, DeleteGroups, BeginDestroy, EndDestroy
  <1>4. ASSUME NEW s \in Slots, ThreadStep(s) PROVE DataOK'
    BY <1>4 DEF ThreadStep, EnterWait, LeaveWait, EndWork
  <1>5. ASSUME NEW m \in Statuses, ServiceStatus(m) PROVE DataOK'
    BY <1>5 DEF ServiceStatus, StopService, StartService
  <1>6. CASE SaveStatus \/ MediaSetup
    BY <1>6 DEF SaveStatus, MediaSetup, StopService, StartService
  <1>7. CASE LoginSuccess \/ SetJoinBit \/ LoginFail
    BY <1>7 DEF LoginSuccess, SetJoinBit, LoginFail
  <1>8. CASE ConnectionState \/ brtc_force_reconnect
    BY <1>8 DEF ConnectionState, brtc_force_reconnect
  <1>9. CASE Restarted
    BY <1>9 DEF Restarted
  <1>10. CASE onAudioPlayerOp \/ PlayerTold
    BY <1>10 DEF onAudioPlayerOp, PlayerTold
  <1>11. CASE UserStep
    BY <1>11 DEF UserStep, CallEngine, KeyWakes, UserReturns
  <1> QED
    BY <1>1, <1>2, <1>3, <1>4, <1>5, <1>6, <1>7, <1>8, <1>9, <1>10,
       <1>11
    DEF Next, esp_restart, Panic, PowerLoss

LEMMA PlacesStep == TypeOK /\ [Next]_vars => PlacesOK'
  <1> SUFFICES ASSUME PlacesOK, [Next]_vars PROVE PlacesOK'
    BY TypeSplit
  <1> USE DEF PlacesOK, MainAt, DeinitAt
  <1>1. CASE UNCHANGED vars
    BY <1>1 DEF vars
  <1>2. CASE MainStep
    BY <1>2, DeleteFault DEF MainStep, CreateGroups, NetworkAwaited, CreateEngine,
      LogIn, WaitForJoin, Joined, StartThreads, CleanUp, DecideToReconnect,
      BeginReconnect
  <1>3. ASSUME NEW t \in Deiniters, DeinitStep(t) PROVE PlacesOK'
    BY <1>3, DeleteFault DEF DeinitStep, DeleteGroups, BeginDestroy, EndDestroy, AfterDeinit
  <1>4. ASSUME NEW s \in Slots, ThreadStep(s) PROVE PlacesOK'
    BY <1>4 DEF ThreadStep, EnterWait, LeaveWait, EndWork
  <1>5. ASSUME NEW m \in Statuses, ServiceStatus(m) PROVE PlacesOK'
    BY <1>5 DEF ServiceStatus, StopService, StartService
  <1>6. CASE SaveStatus \/ MediaSetup
    BY <1>6 DEF SaveStatus, MediaSetup, StopService, StartService
  <1>7. CASE LoginSuccess \/ SetJoinBit \/ LoginFail
    BY <1>7 DEF LoginSuccess, SetJoinBit, LoginFail
  <1>8. CASE ConnectionState \/ brtc_force_reconnect
    BY <1>8 DEF ConnectionState, brtc_force_reconnect
  <1>9. CASE Restarted
    BY <1>9 DEF Restarted
  <1>10. CASE onAudioPlayerOp \/ PlayerTold
    BY <1>10 DEF onAudioPlayerOp, PlayerTold
  <1>11. CASE UserStep
    BY <1>11 DEF UserStep, CallEngine, KeyWakes, UserReturns
  <1> QED
    BY <1>1, <1>2, <1>3, <1>4, <1>5, <1>6, <1>7, <1>8, <1>9, <1>10,
       <1>11
    DEF Next, esp_restart, Panic, PowerLoss

\* The main task alone counts; nothing but a restart leaves "restart".
LEMMA FailsStep == TypeOK /\ LastFails /\ [Next]_vars => FailsOK' /\ LastFails'
  <1> SUFFICES ASSUME PlacesOK, FailsOK, LastFails, [Next]_vars
               PROVE  FailsOK' /\ LastFails'
    BY TypeSplit
  <1> USE FailsPositive DEF PlacesOK, FailsOK, LastFails, FailsPositive, loop
  <1>1. CASE UNCHANGED vars
    BY <1>1 DEF vars
  <1>2. CASE CleanUp
    BY <1>2 DEF CleanUp
  <1>3. CASE MainStep /\ ~CleanUp
    BY <1>3 DEF MainStep, CreateGroups, NetworkAwaited, CreateEngine, LogIn,
      WaitForJoin, Joined, StartThreads, DecideToReconnect, BeginReconnect
  <1>4. ASSUME NEW t \in Deiniters, DeinitStep(t) PROVE FailsOK' /\ LastFails'
    BY <1>4 DEF DeinitStep, DeleteGroups, BeginDestroy, EndDestroy
  <1>5. ASSUME NEW s \in Slots, ThreadStep(s) PROVE FailsOK' /\ LastFails'
    BY <1>5 DEF ThreadStep, EnterWait, LeaveWait, EndWork
  <1>6. ASSUME NEW m \in Statuses, ServiceStatus(m) PROVE FailsOK' /\ LastFails'
    BY <1>6 DEF ServiceStatus, StopService, StartService
  <1>7. CASE SaveStatus \/ MediaSetup
    BY <1>7 DEF SaveStatus, MediaSetup, StopService, StartService
  <1>8. CASE LoginSuccess \/ SetJoinBit \/ LoginFail
    BY <1>8 DEF LoginSuccess, SetJoinBit, LoginFail
  <1>9. CASE ConnectionState \/ brtc_force_reconnect
    BY <1>9 DEF ConnectionState, brtc_force_reconnect
  <1>10. CASE Restarted
    BY <1>10 DEF Restarted
  <1>11. CASE onAudioPlayerOp \/ PlayerTold
    BY <1>11 DEF onAudioPlayerOp, PlayerTold
  <1>12. CASE UserStep
    BY <1>12 DEF UserStep, CallEngine, KeyWakes, UserReturns
  <1> QED
    BY <1>1, <1>2, <1>3, <1>4, <1>5, <1>6, <1>7, <1>8, <1>9, <1>10, <1>11,
       <1>12
    DEF Next, esp_restart, Panic, PowerLoss

\* Every state is well typed: in particular the failures never exceed the number
\* that restarts the device.
THEOREM AgentTypeCorrect == Spec => []TypeOK
  <1>1. TypeOK /\ LastFails /\ [Next]_vars => TypeOK' /\ LastFails'
    <2> SUFFICES ASSUME TypeOK, LastFails, [Next]_vars
                 PROVE  TypeOK' /\ LastFails'
      OBVIOUS
    <2>1. FlagsOK' /\ DataOK' /\ PlacesOK' /\ FailsOK' /\ LastFails'
      BY FlagsStep, DataStep, PlacesStep, FailsStep
    <2> QED
      BY <2>1 DEF TypeOK, FlagsOK, DataOK, PlacesOK, FailsOK
  <1> QED
    BY TypeInit, <1>1, PTL DEF Spec

-----------------------------------------------------------------------------
(* Nobody has stopped the service.                                         *)

\* The places of the main task between brtc_init and its threads.
Starting == {"network", "create", "login", "join", "joining", "start"}
Awaiting == {"join", "joining"}

\* Only the main task tears the agent down, and while a login is under way it
\* waits for it: the callback that sets the bit finds the group, and the bit is
\* set for the login that is waited for.  An engine that has logged in has its
\* queue except while it is torn down; whenever the groups are deleted or the
\* engine ends, no thread of the agent is inside a call to them.
SafeInv ==
  stop = "none" =>
    /\ Works \/ FailsOutside("main")
    /\ fault = "user" =>
         pc["main"] \in {"destroy", "init", "cleanup", "loop", "restart"}
    /\ pc["mqtt"] \in {"idle", "save"}
    /\ pc["engine"] \in {"idle", "bit", "send"}
    /\ running => groups /\ pc["main"] \in {"loop", "begin"}
    /\ Waiting # {} => pc["main"] \in {"loop", "begin", "delete"}
    /\ pc["main"] \in Starting => groups
    /\ pc["main"] \in {"destroy", "destroying"} => ~groups
    /\ pc["main"] \in {"init", "network", "create", "cleanup"} => engine = "none"
    /\ At("main", "login") => engine = "new"
    /\ engine \in {"in", "ready"} =>
         groups \/ pc["main"] \in {"destroy", "destroying"}
    /\ At("engine", "send") /\ Works => groups /\ engine \in {"in", "ready"}
    /\ engine = "called" => /\ pc["main"] \in Awaiting
                            /\ At("engine", "idle") /\ ~join
    /\ At("engine", "bit") => /\ pc["main"] \in Awaiting
                              /\ engine = "in" /\ ~join
    /\ join => pc["main"] \in Awaiting /\ engine \in {"in", "ready"}
    /\ At("main", "start") => engine \in {"in", "ready"}

LEMMA SafeMain == TypeOK /\ SafeInv /\ Works /\ MainStep => SafeInv'
  <1> SUFFICES ASSUME TypeOK, SafeInv, Works, MainStep, stop = "none"
               PROVE  SafeInv'
    BY DEF MainStep, CreateGroups, NetworkAwaited, CreateEngine, LogIn,
      WaitForJoin, Joined, StartThreads, CleanUp, DecideToReconnect,
      BeginReconnect, status, SafeInv
  <1> USE DEF SafeInv, TypeOK, Starting, Awaiting, agent, memory, status, Works,
        FailsOutside
  <1>1. CASE CreateGroups \/ NetworkAwaited \/ CreateEngine
    BY <1>1 DEF CreateGroups, NetworkAwaited, CreateEngine, Waiting
  <1>2. CASE LogIn
    BY <1>2 DEF LogIn, DestroysUnderUser, Waiting
  <1>3. CASE WaitForJoin \/ Joined
    BY <1>3 DEF WaitForJoin, Joined, Waiting
  <1>4. CASE StartThreads
    BY <1>4 DEF StartThreads
  <1>5. CASE CleanUp
    <2>1. Waiting = {} /\ Waiting' = {}
      BY <1>5 DEF CleanUp, Waiting
    <2>2. /\ ~groups' /\ ~join' /\ fault' \in {"none", "user"}
          /\ ~At("engine", "send")
      BY <1>5, <2>1, DeleteFault DEF CleanUp
    <2>3. /\ pc'["main"] \in {"loop", "restart"}
          /\ pc' = [pc EXCEPT !["main"] = pc'["main"]]
      BY <1>5 DEF CleanUp
    <2> QED
      BY <1>5, <2>1, <2>2, <2>3 DEF CleanUp
  <1>6. CASE DecideToReconnect \/ BeginReconnect
    BY <1>6 DEF DecideToReconnect, BeginReconnect, Waiting
  <1> QED
    BY <1>1, <1>2, <1>3, <1>4, <1>5, <1>6 DEF MainStep

LEMMA SafeDeinit ==
  ASSUME TypeOK, SafeInv, Works, NEW t \in Deiniters, DeinitStep(t)
  PROVE  SafeInv'
  <1> SUFFICES ASSUME stop = "none" PROVE SafeInv'
    BY DEF DeinitStep, DeleteGroups, BeginDestroy, EndDestroy, status, SafeInv
  <1>1. t = "main"
    BY DEF SafeInv, DeinitStep, DeleteGroups, BeginDestroy, EndDestroy
  <1> USE <1>1 DEF SafeInv, TypeOK, Starting, Awaiting, agent, memory, status,
        Works, FailsOutside
  <1>2. CASE DeleteGroups(t)
    <2>1. Waiting = {} /\ Waiting' = {}
      BY <1>2 DEF DeleteGroups, Waiting
    <2>2. /\ ~groups' /\ ~join' /\ fault' \in {"none", "player", "user"}
          /\ fault' = "none" => ~At("engine", "send")
      BY <1>2, <2>1, DeleteFault DEF DeleteGroups
    <2> QED
      BY <1>2, <2>1, <2>2 DEF DeleteGroups
  <1>3. CASE BeginDestroy(t)
    BY <1>3 DEF BeginDestroy, Waiting
  <1>4. CASE EndDestroy(t)
    <2>1. fault' \in {"none", "user"} /\ ~At("engine", "send")
      BY <1>4 DEF EndDestroy, DestroysUnderUser
    <2> QED
      BY <1>4, <2>1 DEF EndDestroy, AfterDeinit, Waiting
  <1> QED
    BY <1>2, <1>3, <1>4 DEF DeinitStep

LEMMA SafeStep == TypeOK /\ SafeInv /\ [Next]_vars => SafeInv'
  <1> SUFFICES ASSUME TypeOK, SafeInv, [Next]_vars PROVE SafeInv'
    OBVIOUS
  <1> USE DEF TypeOK, agent, memory, status, Works, FailsOutside
  <1>1. CASE UNCHANGED vars
    BY <1>1 DEF vars, SafeInv, Waiting
  <1>2. CASE Works /\ MainStep
    BY <1>2, SafeMain
  <1>3. ASSUME Works, NEW t \in Deiniters, DeinitStep(t) PROVE SafeInv'
    BY <1>3, SafeDeinit
  <1>4. ASSUME Works, NEW s \in Slots, ThreadStep(s) PROVE SafeInv'
    <2>1. CASE EnterWait(s)
      BY <1>4, <2>1 DEF EnterWait, SafeInv, Waiting
    <2>2. CASE LeaveWait(s) \/ EndWork(s)
      <3>1. Waiting' \subseteq Waiting
        BY <2>2 DEF LeaveWait, EndWork, Waiting
      <3> QED
        BY <1>4, <2>2, <3>1 DEF LeaveWait, EndWork, SafeInv
    <2> QED
      BY <1>4, <2>1, <2>2 DEF ThreadStep
  <1>5. ASSUME Works, NEW m \in Statuses, ServiceStatus(m) PROVE SafeInv'
    BY <1>5 DEF ServiceStatus, StopService, StartService, SafeInv, Waiting
  <1>6. CASE Works /\ SaveStatus
    BY <1>6 DEF SaveStatus, SafeInv, Waiting
  <1>7. CASE Works /\ MediaSetup
    BY <1>7 DEF MediaSetup, StopService, StartService, SafeInv, Waiting
  <1>8. CASE Works /\ (LoginSuccess \/ SetJoinBit)
    BY <1>8 DEF LoginSuccess, SetJoinBit, SafeInv, Awaiting, Starting, Waiting
  <1>9. CASE Works /\ LoginFail
    BY <1>9 DEF LoginFail, SafeInv, Waiting
  <1>10. CASE Works /\ (ConnectionState \/ brtc_force_reconnect)
    BY <1>10 DEF ConnectionState, brtc_force_reconnect, SafeInv, Waiting
  <1>11. CASE Works /\ (onAudioPlayerOp \/ PlayerTold)
    BY <1>11 DEF onAudioPlayerOp, PlayerTold, SafeInv, Waiting
  <1>12. CASE Works /\ UserStep
    BY <1>12 DEF UserStep, CallEngine, KeyWakes, UserReturns, SafeInv, Waiting
  <1>13. CASE Restarted
    BY <1>13 DEF Restarted, SafeInv, Starting, Waiting
  <1> QED
    BY <1>1, <1>2, <1>3, <1>4, <1>5, <1>6, <1>7, <1>8, <1>9, <1>10, <1>11,
       <1>12, <1>13
    DEF Next, esp_restart, Panic, PowerLoss

LEMMA SafeInit == Init => SafeInv
  BY DEF Init, SafeInv, Starting, Works, Waiting

\* However connections, logins and networks come and go, the reconnect loop, the
\* logins and the threads of the agent never use a queue, a group or an engine that
\* is gone.  What can go wrong without a stop is confined to a task outside that
\* is inside a call when what it uses is deleted, and to the player callback while
\* the loop is between the deletion of the queue and the end of the engine.
THEOREM ReconnectSafe == Spec => []ReconnectIsSafe
  <1>1. SafeInv => ReconnectIsSafe
    BY DEF SafeInv, ReconnectIsSafe
  <1> QED
    BY <1>1, SafeInit, SafeStep, AgentTypeCorrect, PTL DEF Spec

\* brtc_create of a device that is not stopped goes on only after its own login.
THEOREM JoinedAfterLogin == Spec => []JoinedIsLoggedIn
  <1>1. SafeInv => JoinedIsLoggedIn
    BY DEF SafeInv, JoinedIsLoggedIn
  <1> QED
    BY <1>1, SafeInit, SafeStep, AgentTypeCorrect, PTL DEF Spec

-----------------------------------------------------------------------------
(* The platform has stopped the service between two attempts.              *)

\* From then on the loop does nothing and mqtt_event_task is alone at work on the
\* engine; when it is done, the engine is gone.
CleanInv ==
  stop = "clean" =>
    /\ Works \/ FailsOutside("mqtt")
    /\ At("main", "loop") /\ pc["engine"] \in {"idle", "send"}
    /\ pc["mqtt"] \in {"delete", "destroy", "destroying", "save", "idle"}
    /\ ~service /\ ~running
    /\ engine \in {"ready", "none"}
    /\ pc["mqtt"] \in {"save", "idle"} => engine = "none"
    /\ pc["mqtt"] \in {"destroy", "destroying"} => ~groups
    /\ engine = "ready" => groups \/ pc["mqtt"] \in {"destroy", "destroying"}
    /\ At("engine", "send") /\ Works => groups /\ engine = "ready"

LEMMA CleanStep == TypeOK /\ SafeInv /\ CleanInv /\ [Next]_vars => CleanInv'
  <1> SUFFICES ASSUME TypeOK, SafeInv, CleanInv, [Next]_vars PROVE CleanInv'
    OBVIOUS
  <1> USE DEF TypeOK, agent, memory, status, Works, FailsOutside
  <1>1. CASE UNCHANGED vars
    BY <1>1 DEF vars, CleanInv
  <1>2. CASE MainStep
    <2>1. UNCHANGED stop
      BY <1>2 DEF MainStep, CreateGroups, NetworkAwaited, CreateEngine, LogIn,
        WaitForJoin, Joined, StartThreads, CleanUp, DecideToReconnect,
        BeginReconnect
    <2>2. ~(At("main", "loop") /\ ~service)
      BY <1>2 DEF MainStep, CreateGroups, NetworkAwaited, CreateEngine, LogIn,
        WaitForJoin, Joined, StartThreads, CleanUp, DecideToReconnect,
        BeginReconnect
    <2> QED
      BY <2>1, <2>2 DEF CleanInv
  <1>3. ASSUME Works, NEW t \in Deiniters, DeinitStep(t) PROVE CleanInv'
    <2> SUFFICES ASSUME stop = "clean" PROVE CleanInv'
      BY <1>3 DEF DeinitStep, DeleteGroups, BeginDestroy, EndDestroy, CleanInv
    <2>1. t = "mqtt"
      BY <1>3 DEF DeinitStep, DeleteGroups, BeginDestroy, EndDestroy, CleanInv
    <2> USE <1>3, <2>1
    <2>2. CASE DeleteGroups(t)
      <3>1. Waiting = {}
        BY <2>2 DEF DeleteGroups, CleanInv
      <3>2. /\ ~groups' /\ fault' \in {"none", "player", "user"}
            /\ fault' = "none" => ~At("engine", "send")
        BY <2>2, <3>1, DeleteFault DEF DeleteGroups
      <3> QED
        BY <2>2, <3>2 DEF DeleteGroups, CleanInv
    <2>3. CASE BeginDestroy(t)
      BY <2>3 DEF BeginDestroy, CleanInv
    <2>4. CASE EndDestroy(t)
      <3>1. fault' \in {"none", "user"} /\ ~At("engine", "send")
        BY <2>4 DEF EndDestroy, DestroysUnderUser, CleanInv
      <3> QED
        BY <2>4, <3>1 DEF EndDestroy, AfterDeinit, CleanInv
    <2> QED
      BY <1>3, <2>2, <2>3, <2>4 DEF DeinitStep
  <1>4. ASSUME Works, NEW s \in Slots, ThreadStep(s) PROVE CleanInv'
    BY <1>4 DEF ThreadStep, EnterWait, LeaveWait, EndWork, CleanInv
  <1>5. ASSUME Works, NEW m \in Statuses, ServiceStatus(m) PROVE CleanInv'
    <2>1. CASE stop = "clean"
      BY <1>5, <2>1 DEF ServiceStatus, StopService, StartService, CleanInv, Statuses
    <2>2. CASE stop = "none"
      BY <1>5, <2>2 DEF ServiceStatus, StopService, StartService, CleanInv,
        SafeInv, Settled, AllBack
    <2>3. CASE stop = "other"
      BY <1>5, <2>3 DEF ServiceStatus, StopService, StartService, CleanInv
    <2> QED
      BY <2>1, <2>2, <2>3 DEF Stops
  <1>6. CASE Works /\ SaveStatus
    BY <1>6 DEF SaveStatus, CleanInv
  <1>7. CASE Works /\ MediaSetup
    BY <1>7 DEF MediaSetup, StopService, StartService, CleanInv, Settled, AllBack
  <1>8. CASE Works /\ (LoginSuccess \/ SetJoinBit \/ LoginFail)
    BY <1>8 DEF LoginSuccess, SetJoinBit, LoginFail, CleanInv
  <1>9. CASE Works /\ (ConnectionState \/ brtc_force_reconnect)
    BY <1>9 DEF ConnectionState, brtc_force_reconnect, CleanInv
  <1>10. CASE Works /\ (onAudioPlayerOp \/ PlayerTold)
    BY <1>10 DEF onAudioPlayerOp, PlayerTold, CleanInv
  <1>11. CASE Works /\ UserStep
    BY <1>11 DEF UserStep, CallEngine, KeyWakes, UserReturns, CleanInv
  <1>12. CASE Restarted
    BY <1>12 DEF Restarted, CleanInv
  <1> QED
    BY <1>1, <1>2, <1>3, <1>4, <1>5, <1>6, <1>7, <1>8, <1>9, <1>10, <1>11,
       <1>12
    DEF Next, esp_restart, Panic, PowerLoss

\* A stop that the platform sends between two attempts leaves no engine and no
\* running thread behind, whatever the callbacks and the networks do meanwhile;
\* on the way it breaks no thread of the agent, only a task outside that is inside
\* a call or the player callback between the queue's end and the engine's.
THEOREM StopIsFinal == Spec => []StopTakesAgentDown
  <1>1. Init => CleanInv
    BY DEF Init, CleanInv, Works
  <1>2. CleanInv => StopTakesAgentDown
    BY DEF CleanInv, StopTakesAgentDown, AllBack
  <1> QED
    BY <1>1, <1>2, CleanStep, SafeInit, SafeStep, AgentTypeCorrect, PTL DEF Spec
-----------------------------------------------------------------------------
(* The wait of brtc_create, which has no timeout.                          *)

\* As long as the service is not stopped, the reconnect loop is ready for the
\* next lost connection whenever it is back, and brtc_create waits for an answer
\* that is there, on its way or still to come, unless the login was refused.
WaitsAreAnswered ==
  stop = "none" =>
    /\ At("main", "loop") => service /\ ~reconnecting /\ ~destroying
    /\ At("main", "joining") =>
         join \/ At("engine", "bit") \/ engine \in {"called", "refused"}

\* A login is ignored only during a destroy, and nobody waits then.
AnswerInv ==
  stop = "none" =>
    /\ service
    /\ At("main", "loop") => ~reconnecting
    /\ destroying => At("main", "destroying")
    /\ pc["main"] \in Awaiting =>
         join \/ At("engine", "bit") \/ engine \in {"called", "refused"}

LEMMA AnswerInit == Init => AnswerInv
  BY DEF Init, AnswerInv, Awaiting

LEMMA AnswerMain ==
  TypeOK /\ SafeInv /\ AnswerInv /\ Works /\ MainStep => AnswerInv'
  <1> SUFFICES ASSUME TypeOK, SafeInv, AnswerInv, MainStep, stop = "none"
               PROVE  AnswerInv'
    BY DEF MainStep, CreateGroups, NetworkAwaited, CreateEngine, LogIn,
      WaitForJoin, Joined, StartThreads, CleanUp, DecideToReconnect,
      BeginReconnect, status, AnswerInv
  <1> USE DEF AnswerInv, TypeOK, Awaiting, agent, memory, status, loop
  <1>1. CASE CreateGroups \/ NetworkAwaited \/ CreateEngine
    BY <1>1 DEF CreateGroups, NetworkAwaited, CreateEngine
  <1>2. CASE LogIn
    BY <1>2 DEF LogIn
  <1>3. CASE WaitForJoin \/ Joined
    BY <1>3 DEF WaitForJoin, Joined
  <1>4. CASE StartThreads \/ CleanUp
    BY <1>4 DEF StartThreads, CleanUp
  <1>5. CASE DecideToReconnect \/ BeginReconnect
    BY <1>5 DEF DecideToReconnect, BeginReconnect
  <1> QED
    BY <1>1, <1>2, <1>3, <1>4, <1>5 DEF MainStep

LEMMA AnswerStep == TypeOK /\ SafeInv /\ AnswerInv /\ [Next]_vars => AnswerInv'
  <1> SUFFICES ASSUME TypeOK, SafeInv, AnswerInv, [Next]_vars PROVE AnswerInv'
    OBVIOUS
  <1> USE DEF TypeOK, AnswerInv, agent, memory, status, loop
  <1>1. CASE UNCHANGED vars
    BY <1>1 DEF vars
  <1>2. CASE Works /\ MainStep
    BY <1>2, AnswerMain
  <1>3. ASSUME NEW t \in Deiniters, DeinitStep(t) PROVE AnswerInv'
    <2> SUFFICES ASSUME stop = "none" PROVE AnswerInv'
      BY <1>3 DEF DeinitStep, DeleteGroups, BeginDestroy, EndDestroy
    <2>1. t = "main"
      BY <1>3 DEF SafeInv, DeinitStep, DeleteGroups, BeginDestroy, EndDestroy
    <2> QED
      BY <1>3, <2>1 DEF DeinitStep, DeleteGroups, BeginDestroy, EndDestroy,
        AfterDeinit, Awaiting
  <1>4. ASSUME NEW s \in Slots, ThreadStep(s) PROVE AnswerInv'
    BY <1>4 DEF ThreadStep, EnterWait, LeaveWait, EndWork
  <1>5. ASSUME NEW m \in Statuses, ServiceStatus(m) PROVE AnswerInv'
    BY <1>5 DEF ServiceStatus, StopService, StartService
  <1>6. CASE SaveStatus \/ MediaSetup
    BY <1>6 DEF SaveStatus, MediaSetup, StopService, StartService
  <1>7. CASE LoginSuccess \/ SetJoinBit
    BY <1>7 DEF LoginSuccess, SetJoinBit, SafeInv, Awaiting, Starting
  <1>8. CASE LoginFail
    BY <1>8 DEF LoginFail
  <1>9. CASE ConnectionState \/ brtc_force_reconnect
    BY <1>9 DEF ConnectionState, brtc_force_reconnect
  <1>10. CASE Restarted
    BY <1>10 DEF Restarted, Awaiting
  <1>11. CASE onAudioPlayerOp \/ PlayerTold
    BY <1>11 DEF onAudioPlayerOp, PlayerTold
  <1>12. CASE UserStep
    BY <1>12 DEF UserStep, CallEngine, KeyWakes, UserReturns
  <1> QED
    BY <1>1, <1>2, <1>3, <1>4, <1>5, <1>6, <1>7, <1>8, <1>9, <1>10, <1>11,
       <1>12
    DEF Next, esp_restart, Panic, PowerLoss

\* brtc_create waits for JOIN_EVENT_BIT with portMAX_DELAY, and is_destroying
\* makes the callback drop a login: neither leaves the loop waiting for an answer
\* that nobody will give, and the loop's four conditions never lock each other.
THEOREM AnswersCome == Spec => []WaitsAreAnswered
  <1>1. TypeOK /\ AnswerInv => WaitsAreAnswered
    BY DEF TypeOK, AnswerInv, WaitsAreAnswered, Awaiting
  <1> QED
    BY <1>1, AnswerInit, AnswerStep, SafeInit, SafeStep, AgentTypeCorrect, PTL
    DEF Spec

\* The exception: the login was refused, and brtc_create waits on.
HangsForLogin ==
  stop = "none" /\ At("main", "joining") /\ engine = "refused"

\* Power that is lost ends it, or a stop from the platform; the platform is not
\* reached before the first brtc_init has returned.
RefusalLasts ==
  [][HangsForLogin =>
       \/ HangsForLogin'
       \/ PowerLoss
       \/ reconnecting /\ ServiceStatus("off")]_vars

\* A refused login (the callback sets no bit for it) is never tried again by the
\* device itself: the failures are not counted, the restart after the third does
\* not come, and if it is the first login not even the platform can help.
THEOREM RefusalIsFinal == Spec => RefusalLasts
  <1> DEFINE Ends == PowerLoss \/ (reconnecting /\ ServiceStatus("off"))
  <1>1. ASSUME TypeOK, SafeInv, AnswerInv, HangsForLogin, Next
        PROVE  HangsForLogin' \/ Ends
    <2> USE <1>1 DEF HangsForLogin, TypeOK, agent, memory, status, loop
    <2>1. /\ fault = "none" /\ groups /\ ~join
          /\ pc["mqtt"] \in {"idle", "save"} /\ At("engine", "idle")
          /\ service
      BY DEF SafeInv, AnswerInv, Starting, Works, FailsOutside
    <2>2. CASE MainStep
      BY <2>1, <2>2 DEF MainStep, CreateGroups, NetworkAwaited, CreateEngine,
        LogIn, WaitForJoin, Joined, StartThreads, CleanUp, DecideToReconnect,
        BeginReconnect
    <2>3. ASSUME NEW t \in Deiniters, DeinitStep(t) PROVE FALSE
      BY <2>1, <2>3 DEF DeinitStep, DeleteGroups, BeginDestroy, EndDestroy
    <2>4. ASSUME NEW s \in Slots, ThreadStep(s) PROVE HangsForLogin'
      BY <2>4 DEF ThreadStep, EnterWait, LeaveWait, EndWork
    <2>5. ASSUME NEW m \in Statuses, ServiceStatus(m) PROVE HangsForLogin' \/ Ends
      <3>1. reconnecting
        BY <2>5 DEF ServiceStatus, PlatformReachable
      <3>2. CASE m = "on"
        BY <2>1, <2>5, <3>2 DEF ServiceStatus
      <3>3. CASE m = "off"
        BY <2>5, <3>1, <3>3
      <3> QED
        BY <3>2, <3>3 DEF Statuses
    <2>6. CASE SaveStatus \/ MediaSetup \/ LoginSuccess \/ SetJoinBit \/ LoginFail
      BY <2>1, <2>6 DEF SaveStatus, MediaSetup, LoginSuccess, SetJoinBit, LoginFail
    <2>7. CASE ConnectionState \/ brtc_force_reconnect
      BY <2>7 DEF ConnectionState, brtc_force_reconnect
    <2>8. CASE UserStep
      BY <2>8 DEF UserStep, CallEngine, KeyWakes, UserReturns
    <2>9. ~onAudioPlayerOp /\ ~PlayerTold
      BY <2>1 DEF onAudioPlayerOp, PlayerTold
    <2>10. ~esp_restart /\ ~Panic
      BY <2>1 DEF esp_restart, Panic, Works
    <2> QED
      BY <1>1, <2>2, <2>3, <2>4, <2>5, <2>6, <2>7, <2>8, <2>9, <2>10
      DEF Next
  <1>2. TypeOK /\ SafeInv /\ AnswerInv /\ [Next]_vars
          => [HangsForLogin => HangsForLogin' \/ Ends]_vars
    BY <1>1
  <1>3. RefusalLasts <=> [][HangsForLogin => HangsForLogin' \/ Ends]_vars
    BY PTL DEF RefusalLasts
  <1> QED
    BY <1>2, <1>3, AnswerInit, AnswerStep, SafeInit, SafeStep, AgentTypeCorrect,
       PTL
    DEF Spec
=============================================================================
