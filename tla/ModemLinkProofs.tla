-------------------------- MODULE ModemLinkProofs --------------------------
(***************************************************************************)
(* Safety of the 4G link, and that it keeps its promise to the network     *)
(* manager, for any number of misfortunes.                                 *)
(***************************************************************************)
EXTENDS ModemLink, TLAPS

-----------------------------------------------------------------------------
(* The type invariant by parts.                                            *)

TaskOK ==
  /\ pc \in Places
  /\ caller \in {"powerOn", "other"}
  /\ at \in BOOLEAN
  /\ internet \in BOOLEAN
  /\ bits \subseteq Bits

DriverOK ==
  /\ port \in BOOLEAN
  /\ flags \subseteq Flags
  /\ todo \subseteq Flags
  /\ answer \in {"none", "up", "down"}
  /\ media \in BOOLEAN
  /\ link \in BOOLEAN
  /\ answer # "none" => todo = {}

OutsideOK ==
  /\ queue \in Seq(Events)
  /\ netif \in {"stopped", "started", "up"}
  /\ lease \in {"none", "held", "lost"}
  /\ level \in Levels
  /\ dialed \in BOOLEAN
  /\ rare \in 0..MaxRare

PortOK == at => port

LEMMA TypeSplit == TypeOK <=> TaskOK /\ DriverOK /\ OutsideOK /\ PortOK
  BY DEF TypeOK, TaskOK, DriverOK, OutsideOK, PortOK

USE DEF At, Goto, Post

-----------------------------------------------------------------------------
(* What the link task, the driver and the surroundings leave alone.        *)

LEMMA TaskStep == TypeOK /\ [Next]_vars => TaskOK'
  <1> SUFFICES ASSUME TaskOK, [Next]_vars PROVE TaskOK'
    BY TypeSplit
  <1> USE DEF TaskOK, Places, Recovery, DataCall, Watching, Bits, task
  <1>1. CASE UNCHANGED vars
    BY <1>1 DEF vars
  <1>2. CASE Start \/ PowerOn \/ Settle \/ AtSync \/ Probe \/ CheckSim
    BY <1>2 DEF Start, PowerOn, Settle, AtSync, Probe, CheckSim, UsesAt,
      RecoverAnyway
  <1>3. CASE CheckNetwork \/ StartDatacall \/ execute_datacall \/ WaitForIp
    BY <1>3 DEF CheckNetwork, StartDatacall, execute_datacall, WaitForIp, UsesAt
  <1>4. CASE NetFail \/ Connected \/ TestWifi \/ Watch \/ Debounce
    BY <1>4 DEF NetFail, Connected, TestWifi, Watch, Debounce, UsesAt,
      RecoverAnyway
  <1>5. CASE ResetHardware \/ StopEth \/ StartEth \/ AwaitLink \/ Restart
    BY <1>5 DEF ResetHardware, StopEth, StartEth, AwaitLink, Restart, Unplugged
  <1>6. CASE Driver
    BY <1>6 DEF Driver, TakeFlags, HandleConnected, HandleDisconnected,
      HandleLineChange, QueryMedia, CompareMedia
  <1>7. CASE EventLoop
    <2>1. UNCHANGED <<pc, caller, at>>
      BY <1>7 DEF EventLoop, OnStart, OnStop, OnConnected, OnDisconnected,
        OnGotIp, OnLostIp, Handle
    <2>2. internet' \in BOOLEAN
      BY <1>7 DEF EventLoop, OnStart, OnStop, OnConnected, OnDisconnected,
        OnGotIp, OnLostIp
    <2>3. bits' \subseteq {"GOT_IP", "LINK_UP", "HW_RESET"}
      BY <1>7 DEF EventLoop, OnStart, OnStop, OnConnected, OnDisconnected,
        OnGotIp, OnLostIp
    <2> QED
      BY <2>1, <2>2, <2>3
  <1>8. CASE Outside
    BY <1>8 DEF Outside, DeviceGone, DeviceFound, GotAddress, AddressChanges,
      AddressTimer, LevelChanges, Unplugged
  <1> QED
    BY <1>1, <1>2, <1>3, <1>4, <1>5, <1>6, <1>7, <1>8 DEF Next, LinkTask

LEMMA DriverStep == TypeOK /\ [Next]_vars => DriverOK'
  <1> SUFFICES ASSUME DriverOK, [Next]_vars PROVE DriverOK'
    BY TypeSplit
  <1> USE DEF DriverOK, Flags, driver
  <1>1. CASE UNCHANGED vars
    BY <1>1 DEF vars
  <1>2. CASE Start \/ PowerOn \/ Settle \/ AtSync \/ Probe \/ CheckSim
    BY <1>2 DEF Start, PowerOn, Settle, AtSync, Probe, CheckSim, UsesAt
  <1>3. CASE CheckNetwork \/ StartDatacall \/ execute_datacall \/ WaitForIp
    BY <1>3 DEF CheckNetwork, StartDatacall, execute_datacall, WaitForIp, UsesAt
  <1>4. CASE NetFail \/ Connected \/ TestWifi \/ Watch \/ Debounce
    BY <1>4 DEF NetFail, Connected, TestWifi, Watch, Debounce, UsesAt
  <1>5. CASE ResetHardware \/ StopEth \/ StartEth \/ AwaitLink \/ Restart
    BY <1>5 DEF ResetHardware, StopEth, StartEth, AwaitLink, Restart, Unplugged
  <1>6. CASE Driver
    BY <1>6 DEF Driver, TakeFlags, HandleConnected, HandleDisconnected,
      HandleLineChange, QueryMedia, CompareMedia, SetLink, Drained
  <1>7. CASE EventLoop
    BY <1>7 DEF EventLoop, OnStart, OnStop, OnConnected, OnDisconnected, OnGotIp,
      OnLostIp, Handle
  <1>8. CASE Outside
    BY <1>8 DEF Outside, DeviceGone, DeviceFound, GotAddress, AddressChanges,
      AddressTimer, LevelChanges, Unplugged
  <1> QED
    BY <1>1, <1>2, <1>3, <1>4, <1>5, <1>6, <1>7, <1>8 DEF Next, LinkTask

\* A step adds an event at the end, takes the first one or restarts.
LEMMA QueueStep ==
  ASSUME queue \in Seq(Events), [Next]_vars
  PROVE  \/ UNCHANGED queue
         \/ \E e \in Events : queue' = Append(queue, e)
         \/ queue # <<>> /\ queue' = Tail(queue)
         \/ queue' = <<>>
  <1> USE DEF Events, ip, module, driver
  <1>1. CASE UNCHANGED vars
    BY <1>1 DEF vars
  <1>2. CASE Start \/ PowerOn \/ Settle \/ AtSync \/ Probe \/ CheckSim
    BY <1>2 DEF Start, PowerOn, Settle, AtSync, Probe, CheckSim, UsesAt
  <1>3. CASE CheckNetwork \/ StartDatacall \/ execute_datacall \/ WaitForIp
    BY <1>3 DEF CheckNetwork, StartDatacall, execute_datacall, WaitForIp, UsesAt
  <1>4. CASE NetFail \/ Connected \/ TestWifi \/ Watch \/ Debounce
    BY <1>4 DEF NetFail, Connected, TestWifi, Watch, Debounce, UsesAt
  <1>5. CASE ResetHardware \/ StopEth \/ StartEth \/ AwaitLink \/ Restart
    BY <1>5 DEF ResetHardware, StopEth, StartEth, AwaitLink, Restart
  <1>6. CASE Driver
    BY <1>6 DEF Driver, TakeFlags, HandleConnected, HandleDisconnected,
      HandleLineChange, QueryMedia, CompareMedia, SetLink
  <1>7. CASE EventLoop
    BY <1>7 DEF EventLoop, OnStart, OnStop, OnConnected, OnDisconnected, OnGotIp,
      OnLostIp, Handle
  <1>8. CASE Outside
    BY <1>8 DEF Outside, DeviceGone, DeviceFound, GotAddress, AddressChanges,
      AddressTimer, LevelChanges
  <1> QED
    BY <1>1, <1>2, <1>3, <1>4, <1>5, <1>6, <1>7, <1>8 DEF Next, LinkTask

LEMMA RareStep ==
  ASSUME rare \in 0..MaxRare, Common \/ Rare \/ Slowly
  PROVE  rare' \in 0..MaxRare
  BY RareBounded DEF Common, Rare, Slowly, RareBounded

LEMMA OutsideStep == TypeOK /\ [Next]_vars => OutsideOK'
  <1> SUFFICES ASSUME OutsideOK, [Next]_vars PROVE OutsideOK'
    BY TypeSplit
  <1>0. queue' \in Seq(Events)
    <2>1. queue \in Seq(Events)
      BY DEF OutsideOK
    <2>2. <<>> \in Seq(Events)
      OBVIOUS
    <2>3. queue # <<>> => Tail(queue) \in Seq(Events)
      BY <2>1
    <2>4. \A e \in Events : Append(queue, e) \in Seq(Events)
      BY <2>1
    <2> HIDE DEF Events
    <2> QED
      BY <2>1, <2>2, <2>3, <2>4, QueueStep
  <1>1. \/ UNCHANGED rare
        \/ Common \/ Rare \/ Slowly
    <2> USE DEF LinkTimeout, UsesAt
    <2>1. CASE UNCHANGED vars
      BY <2>1 DEF vars
    <2>2. CASE LinkTask
      BY <2>2 DEF LinkTask, Start, PowerOn, Settle, AtSync, Probe, CheckSim,
        CheckNetwork, StartDatacall, execute_datacall, WaitForIp, NetFail,
        Connected, TestWifi, Watch, Debounce, ResetHardware, StopEth, StartEth,
        AwaitLink, Restart
    <2>3. CASE Driver
      BY <2>3 DEF Driver, TakeFlags, HandleConnected, HandleDisconnected,
        HandleLineChange, QueryMedia, CompareMedia
    <2>4. CASE EventLoop
      BY <2>4 DEF EventLoop, OnStart, OnStop, OnConnected, OnDisconnected,
        OnGotIp, OnLostIp, Handle
    <2>5. CASE Outside
      BY <2>5 DEF Outside, DeviceGone, DeviceFound, GotAddress, AddressChanges,
        AddressTimer, LevelChanges
    <2> QED
      BY <2>1, <2>2, <2>3, <2>4, <2>5 DEF Next
  <1>2. rare' \in 0..MaxRare
    BY <1>1, RareStep DEF OutsideOK
  <1>3. /\ netif' \in {"stopped", "started", "up"}
        /\ lease' \in {"none", "held", "lost"}
        /\ level' \in Levels
        /\ dialed' \in BOOLEAN
    <2> USE DEF OutsideOK, Levels, ip, module, Dropped
    <2>1. CASE UNCHANGED vars
      BY <2>1 DEF vars
    <2>2. CASE LinkTask
      BY <2>2 DEF LinkTask, Start, PowerOn, Settle, AtSync, Probe, CheckSim,
        CheckNetwork, StartDatacall, execute_datacall, WaitForIp, NetFail,
        Connected, TestWifi, Watch, Debounce, ResetHardware, StopEth, StartEth,
        AwaitLink, Restart, UsesAt, Unplugged
    <2>3. CASE Driver
      BY <2>3 DEF Driver, TakeFlags, HandleConnected, HandleDisconnected,
        HandleLineChange, QueryMedia, CompareMedia
    <2>4. CASE EventLoop
      BY <2>4 DEF EventLoop, OnStart, OnStop, OnConnected, OnDisconnected,
        OnGotIp, OnLostIp, Handle
    <2>5. CASE Outside
      BY <2>5 DEF Outside, DeviceGone, DeviceFound, GotAddress, AddressChanges,
        AddressTimer, LevelChanges, Unplugged
    <2> QED
      BY <2>1, <2>2, <2>3, <2>4, <2>5 DEF Next
  <1> QED
    BY <1>0, <1>2, <1>3 DEF OutsideOK

\* The port is closed when the device goes, and opened only while it is there.
LEMMA PortStep == TypeOK /\ [Next]_vars => PortOK'
  <1> SUFFICES ASSUME TaskOK, DriverOK, PortOK, [Next]_vars PROVE PortOK'
    BY TypeSplit
  <1> USE DEF PortOK, TaskOK, DriverOK, task
  <1>1. CASE UNCHANGED vars
    BY <1>1 DEF vars
  <1>2. CASE Start \/ PowerOn \/ Settle \/ AtSync \/ Probe \/ CheckSim
    BY <1>2 DEF Start, PowerOn, Settle, AtSync, Probe, CheckSim, UsesAt,
      RecoverAnyway
  <1>3. CASE CheckNetwork \/ StartDatacall \/ execute_datacall \/ WaitForIp
    BY <1>3 DEF CheckNetwork, StartDatacall, execute_datacall, WaitForIp, UsesAt
  <1>4. CASE NetFail \/ Connected \/ TestWifi \/ Watch \/ Debounce
    BY <1>4 DEF NetFail, Connected, TestWifi, Watch, Debounce, UsesAt,
      RecoverAnyway
  <1>5. CASE ResetHardware \/ StopEth \/ StartEth \/ AwaitLink \/ Restart
    BY <1>5 DEF ResetHardware, StopEth, StartEth, AwaitLink, Restart, Unplugged
  <1>6. CASE Driver
    BY <1>6 DEF Driver, TakeFlags, HandleConnected, HandleDisconnected,
      HandleLineChange, QueryMedia, CompareMedia
  <1>7. CASE EventLoop
    BY <1>7 DEF EventLoop, OnStart, OnStop, OnConnected, OnDisconnected, OnGotIp,
      OnLostIp, Handle
  <1>8. CASE Outside
    BY <1>8 DEF Outside, DeviceGone, DeviceFound, GotAddress, AddressChanges,
      AddressTimer, LevelChanges, Unplugged
  <1> QED
    BY <1>1, <1>2, <1>3, <1>4, <1>5, <1>6, <1>7, <1>8 DEF Next, LinkTask

LEMMA TypeInit == Init => TypeOK
  <1> SUFFICES ASSUME Init PROVE TypeOK
    OBVIOUS
  <1>1. <<>> \in Seq(Events) /\ rare \in 0..MaxRare /\ pc \in Places
    BY RareBounded DEF Init, Places, RareBounded
  <1> QED
    BY <1>1 DEF Init, TypeOK

\* Every state of the link is well typed; in particular the AT port is open only
\* while the device is there, and a media query is under way only when the driver
\* has no flag left to handle.
THEOREM LinkTypeCorrect == Spec => []TypeOK
  <1>1. TypeOK /\ [Next]_vars => TypeOK'
    <2> SUFFICES ASSUME TypeOK, [Next]_vars PROVE TypeOK'
      OBVIOUS
    <2>1. TaskOK' /\ DriverOK' /\ OutsideOK' /\ PortOK'
      BY TaskStep, DriverStep, OutsideStep, PortStep
    <2> QED
      BY <2>1 DEF TypeOK, TaskOK, DriverOK, OutsideOK, PortOK
  <1> QED
    BY TypeInit, <1>1, PTL DEF Spec

-----------------------------------------------------------------------------
(* Events that are waiting to be handled.                                  *)

Pending(q, b) == \E j \in 1..Len(q) : q[j] = b

\* Every a in the queue is taken back by a later b.
TakenBack(q, a, b) ==
  \A i \in 1..Len(q) : q[i] = a => \E j \in 1..Len(q) : j > i /\ q[j] = b

\* What the end of the queue adds.
LEMMA AppendOther ==
  ASSUME NEW q \in Seq(Events), NEW a, NEW b, NEW e \in Events, e # a
  PROVE  /\ Pending(q, b) => Pending(Append(q, e), b)
         /\ TakenBack(q, a, b) => TakenBack(Append(q, e), a, b)
  <1> DEFINE r == Append(q, e)
  <1>1. /\ Len(q) \in Nat /\ Len(r) = Len(q) + 1
        /\ \A i \in 1..Len(q) : r[i] = q[i]
        /\ r[Len(r)] = e
    OBVIOUS
  <1> HIDE DEF r
  <1>2. Pending(q, b) => Pending(r, b)
    BY <1>1 DEF Pending
  <1>3. TakenBack(q, a, b) => TakenBack(r, a, b)
    <2> SUFFICES ASSUME TakenBack(q, a, b), NEW i \in 1..Len(r), r[i] = a
                 PROVE  \E j \in 1..Len(r) : j > i /\ r[j] = b
      BY DEF TakenBack
    <2>1. i \in 1..Len(q) /\ q[i] = a
      BY <1>1
    <2>2. PICK j \in 1..Len(q) : j > i /\ q[j] = b
      BY <2>1 DEF TakenBack
    <2> QED
      BY <2>2, <1>1
  <1> QED
    BY <1>2, <1>3 DEF r

LEMMA AppendLast ==
  ASSUME NEW q \in Seq(Events), NEW a, NEW b \in Events, a # b
  PROVE  Pending(Append(q, b), b) /\ TakenBack(Append(q, b), a, b)
  <1> DEFINE r == Append(q, b)
  <1>1. /\ Len(r) \in Nat /\ Len(r) > 0
        /\ r[Len(r)] = b
    OBVIOUS
  <1> HIDE DEF r
  <1> QED
    BY <1>1 DEF Pending, TakenBack, r

\* What the head of the queue takes away.
LEMMA TailKeeps ==
  ASSUME NEW q \in Seq(Events), q # <<>>, NEW a, NEW b, TakenBack(q, a, b)
  PROVE  /\ TakenBack(Tail(q), a, b)
         /\ Pending(q, b) /\ Head(q) # b => Pending(Tail(q), b)
         /\ Head(q) = a => Pending(Tail(q), b)
  <1> DEFINE r == Tail(q)
  <1>1. /\ Len(q) \in Nat /\ Len(q) > 0 /\ Len(r) = Len(q) - 1
        /\ \A i \in 1..Len(r) : r[i] = q[i + 1]
        /\ Head(q) = q[1]
    OBVIOUS
  <1> HIDE DEF r
  <1>2. \A j \in 1..Len(q) : j > 1 => j - 1 \in 1..Len(r) /\ r[j - 1] = q[j]
    BY <1>1
  <1>3. TakenBack(r, a, b)
    <2> SUFFICES ASSUME NEW i \in 1..Len(r), r[i] = a
                 PROVE  \E j \in 1..Len(r) : j > i /\ r[j] = b
      BY DEF TakenBack
    <2>1. PICK j \in 1..Len(q) : j > i + 1 /\ q[j] = b
      BY <1>1 DEF TakenBack
    <2>2. j - 1 \in 1..Len(r) /\ j - 1 > i /\ r[j - 1] = b
      BY <2>1, <1>2, <1>1
    <2> QED
      BY <2>2
  <1>4. Pending(q, b) /\ Head(q) # b => Pending(r, b)
    <2> SUFFICES ASSUME NEW j \in 1..Len(q), q[j] = b, q[1] # b
                 PROVE  Pending(r, b)
      BY <1>1 DEF Pending
    <2>1. j > 1
      OBVIOUS
    <2> QED
      BY <2>1, <1>2 DEF Pending
  <1>5. Head(q) = a => Pending(r, b)
    <2> SUFFICES ASSUME q[1] = a PROVE Pending(r, b)
      BY <1>1
    <2>1. PICK j \in 1..Len(q) : j > 1 /\ q[j] = b
      BY <1>1 DEF TakenBack
    <2> QED
      BY <2>1, <1>2 DEF Pending
  <1> QED
    BY <1>3, <1>4, <1>5 DEF r

-----------------------------------------------------------------------------
(* LINK_UP and the driver's link.                                          *)

\* LinkUpIsReported is not inductive: while the link is down, each report that it
\* is up, and the bit itself, must be about to be taken back.
LinkInv ==
  ~link => /\ TakenBack(queue, "CONNECTED", "DISCONNECTED")
           /\ "LINK_UP" \in bits => Pending(queue, "DISCONNECTED")

\* A step that adds nothing but another event, and sets no bit.
LEMMA LinkQuiet ==
  ASSUME queue \in Seq(Events), LinkInv, UNCHANGED link,
         "LINK_UP" \in bits' => "LINK_UP" \in bits,
         \/ UNCHANGED queue
         \/ \E e \in Events \ {"CONNECTED"} : queue' = Append(queue, e)
  PROVE  LinkInv'
  <1>1. CASE UNCHANGED queue
    BY <1>1 DEF LinkInv
  <1>2. ASSUME NEW e \in Events \ {"CONNECTED"}, queue' = Append(queue, e)
        PROVE  LinkInv'
    BY <1>2, AppendOther DEF LinkInv
  <1> QED
    BY <1>1, <1>2

\* iot_eth_on_stage_changed sets the link and posts what it has set.
LEMMA LinkSet ==
  ASSUME queue \in Seq(Events), NEW up \in BOOLEAN, SetLink(up)
  PROVE  LinkInv'
  BY AppendLast DEF SetLink, LinkInv, Events

LEMMA LinkHandled ==
  ASSUME TypeOK, LinkInv, EventLoop
  PROVE  LinkInv'
  <1>1. queue \in Seq(Events) /\ queue # <<>> /\ queue' = Tail(queue) /\ link' = link
    BY DEF TypeOK, EventLoop, OnStart, OnStop, OnConnected, OnDisconnected,
      OnGotIp, OnLostIp, Handle, driver
  <1> SUFFICES ASSUME ~link PROVE LinkInv'
    BY <1>1 DEF LinkInv
  <1>2. /\ TakenBack(queue', "CONNECTED", "DISCONNECTED")
        /\ Pending(queue, "DISCONNECTED") /\ Head(queue) # "DISCONNECTED"
             => Pending(queue', "DISCONNECTED")
        /\ Head(queue) = "CONNECTED" => Pending(queue', "DISCONNECTED")
    BY <1>1, TailKeeps DEF LinkInv
  <1>3. CASE OnConnected
    BY <1>1, <1>2, <1>3 DEF OnConnected, Handle, LinkInv
  <1>4. CASE OnStart \/ OnStop \/ OnDisconnected
    BY <1>1, <1>2, <1>4 DEF OnStart, OnStop, OnDisconnected, LinkInv
  <1>5. CASE OnGotIp \/ OnLostIp
    BY <1>1, <1>2, <1>5 DEF OnGotIp, OnLostIp, Handle, LinkInv
  <1> QED
    BY <1>3, <1>4, <1>5 DEF EventLoop

LEMMA LinkStep == TypeOK /\ LinkInv /\ [Next]_vars => LinkInv'
  <1> SUFFICES ASSUME TypeOK, LinkInv, [Next]_vars PROVE LinkInv'
    OBVIOUS
  <1>0. queue \in Seq(Events)
    BY DEF TypeOK
  <1> DEFINE Quiet == /\ UNCHANGED link
                      /\ "LINK_UP" \in bits' => "LINK_UP" \in bits
                      /\ \/ UNCHANGED queue
                         \/ \E e \in Events \ {"CONNECTED"} :
                              queue' = Append(queue, e)
  <1> USE DEF Events, task, driver, ip, module
  <1>1. CASE UNCHANGED vars
    <2>1. Quiet
      BY <1>1 DEF vars
    <2> QED
      BY <2>1, <1>0, LinkQuiet
  <1>2. CASE LinkTask /\ ~Restart
    <2>1. Quiet
      BY <1>2 DEF LinkTask, Start, PowerOn, Settle, AtSync, Probe, CheckSim,
        CheckNetwork, StartDatacall, execute_datacall, WaitForIp, NetFail,
        Connected, TestWifi, Watch, Debounce, ResetHardware, StopEth, StartEth,
        AwaitLink, UsesAt
    <2> QED
      BY <2>1, <1>0, LinkQuiet
  <1>3. CASE Restart
    <2>1. queue' = <<>> /\ bits' = {}
      BY <1>3 DEF Restart
    <2> QED
      BY <2>1 DEF LinkInv, TakenBack
  <1>4. CASE Driver
    <2>1. CASE HandleDisconnected \/ HandleLineChange
      <3>1. \E up \in BOOLEAN : SetLink(up)
        BY <2>1 DEF HandleDisconnected, HandleLineChange, TypeOK
      <3> QED
        BY <3>1, <1>0, LinkSet
    <2>2. CASE HandleConnected
      <3>1. CASE SetLink(TRUE)
        BY <3>1, <1>0, LinkSet
      <3>2. CASE ~SetLink(TRUE)
        <4>1. Quiet
          BY <2>2, <3>2 DEF HandleConnected
        <4> QED
          BY <4>1, <1>0, LinkQuiet
      <3> QED
        BY <3>1, <3>2
    <2>3. CASE TakeFlags \/ QueryMedia \/ CompareMedia
      <3>1. Quiet
        BY <2>3 DEF TakeFlags, QueryMedia, CompareMedia
      <3> QED
        BY <3>1, <1>0, LinkQuiet
    <2> QED
      BY <1>4, <2>1, <2>2, <2>3 DEF Driver
  <1>5. CASE EventLoop
    BY <1>5, LinkHandled
  <1>6. CASE Outside
    <2>1. Quiet
      BY <1>6 DEF Outside, DeviceGone, DeviceFound, GotAddress, AddressChanges,
        AddressTimer, LevelChanges
    <2> QED
      BY <2>1, <1>0, LinkQuiet
  <1> QED
    BY <1>1, <1>2, <1>3, <1>4, <1>5, <1>6 DEF Next

\* However often the link changes while the events wait, once they are handled the
\* bit that the link task waits for is what the driver last reported.
THEOREM LinkReported == Spec => []LinkUpIsReported
  <1>1. Init => LinkInv
    BY DEF Init, LinkInv, TakenBack
  <1>2. LinkInv => LinkUpIsReported
    BY DEF LinkInv, LinkUpIsReported, Pending
  <1> QED
    BY <1>1, <1>2, LinkStep, LinkTypeCorrect, PTL DEF Spec

-----------------------------------------------------------------------------
(* internet_connected and the address.                                     *)

\* The link task has not declared the link connected.
Before == pc \notin Watching \cup {"test"}

\* Without an address, each report of one, and before the link is connected the
\* flag as well, is about to be taken back.
AddrInv ==
  lease = "none" => /\ TakenBack(queue, "GOT_IP", "LOST_IP")
                    /\ internet /\ Before => Pending(queue, "LOST_IP")

\* A step that adds nothing but another event and does not set the flag.
LEMMA AddrQuiet ==
  ASSUME queue \in Seq(Events), AddrInv,
         lease' = "none" => lease = "none",
         internet' /\ Before' => internet /\ Before,
         \/ UNCHANGED queue
         \/ \E e \in Events \ {"GOT_IP"} : queue' = Append(queue, e)
  PROVE  AddrInv'
  <1>1. CASE UNCHANGED queue
    BY <1>1 DEF AddrInv
  <1>2. ASSUME NEW e \in Events \ {"GOT_IP"}, queue' = Append(queue, e)
        PROVE  AddrInv'
    BY <1>2, AppendOther DEF AddrInv
  <1> QED
    BY <1>1, <1>2

LEMMA AddrHandled ==
  ASSUME TypeOK, AddrInv, EventLoop
  PROVE  AddrInv'
  <1>1. /\ queue \in Seq(Events) /\ queue # <<>> /\ queue' = Tail(queue)
        /\ Before' = Before
        /\ lease' = "none" => lease = "none"
    BY DEF TypeOK, EventLoop, OnStart, OnStop, OnConnected, OnDisconnected,
      OnGotIp, OnLostIp, Handle, Before, Dropped, ip
  <1> SUFFICES ASSUME lease = "none" PROVE AddrInv'
    BY <1>1 DEF AddrInv
  <1>2. /\ TakenBack(queue', "GOT_IP", "LOST_IP")
        /\ Pending(queue, "LOST_IP") /\ Head(queue) # "LOST_IP"
             => Pending(queue', "LOST_IP")
        /\ Head(queue) = "GOT_IP" => Pending(queue', "LOST_IP")
    BY <1>1, TailKeeps DEF AddrInv
  <1>3. CASE OnGotIp
    BY <1>1, <1>2, <1>3 DEF OnGotIp, Handle, AddrInv
  <1>4. CASE OnLostIp \/ OnDisconnected
    BY <1>1, <1>2, <1>4 DEF OnLostIp, OnDisconnected, AddrInv
  <1>5. CASE OnStart \/ OnStop \/ OnConnected
    BY <1>1, <1>2, <1>5 DEF OnStart, OnStop, OnConnected, Handle, AddrInv
  <1> QED
    BY <1>3, <1>4, <1>5 DEF EventLoop

LEMMA AddrStep == TypeOK /\ AddrInv /\ [Next]_vars => AddrInv'
  <1> SUFFICES ASSUME TypeOK, AddrInv, [Next]_vars PROVE AddrInv'
    OBVIOUS
  <1>0. queue \in Seq(Events)
    BY DEF TypeOK
  <1> DEFINE Quiet == /\ lease' = "none" => lease = "none"
                      /\ internet' /\ Before' => internet /\ Before
                      /\ \/ UNCHANGED queue
                         \/ \E e \in Events \ {"GOT_IP"} :
                              queue' = Append(queue, e)
  <1>q. Quiet => AddrInv'
    BY <1>0, AddrQuiet
  <1> USE DEF Events, Before, Watching, task, driver, ip, module
  <1>1. CASE UNCHANGED vars
    <2>1. Quiet
      BY <1>1 DEF vars
    <2> QED
      BY <2>1, <1>q
  <1>2. CASE LinkTask /\ ~Restart
    <2>1. CASE Start \/ PowerOn \/ Settle \/ AtSync \/ Probe \/ CheckSim
      <3>1. Quiet
        BY <2>1 DEF Start, PowerOn, Settle, AtSync, Probe, CheckSim, UsesAt,
          RecoverAnyway
      <3> QED
        BY <3>1, <1>q
    <2>2. CASE CheckNetwork \/ StartDatacall \/ execute_datacall \/ WaitForIp
      <3>1. Quiet
        BY <2>2 DEF CheckNetwork, StartDatacall, execute_datacall, WaitForIp,
          UsesAt
      <3> QED
        BY <3>1, <1>q
    <2>3. CASE NetFail \/ Connected \/ TestWifi \/ Watch \/ Debounce
      <3>1. Quiet
        BY <2>3 DEF NetFail, Connected, TestWifi, Watch, Debounce, UsesAt,
          RecoverAnyway
      <3> QED
        BY <3>1, <1>q
    <2>4. CASE ResetHardware \/ StopEth \/ StartEth \/ AwaitLink
      <3>1. Quiet
        BY <2>4 DEF ResetHardware, StopEth, StartEth, AwaitLink
      <3> QED
        BY <3>1, <1>q
    <2> QED
      BY <1>2, <2>1, <2>2, <2>3, <2>4 DEF LinkTask
  <1>3. CASE Restart
    <2>1. queue' = <<>> /\ internet' = FALSE
      BY <1>3 DEF Restart
    <2> QED
      BY <2>1 DEF AddrInv, TakenBack
  <1>4. CASE Driver
    <2>1. UNCHANGED <<pc, internet, lease>>
      BY <1>4 DEF Driver, TakeFlags, HandleConnected, HandleDisconnected,
        HandleLineChange, QueryMedia, CompareMedia
    <2>2. UNCHANGED queue \/ \E up \in BOOLEAN : SetLink(up)
      BY <1>4 DEF Driver, TakeFlags, HandleConnected, HandleDisconnected,
        HandleLineChange, QueryMedia, CompareMedia, TypeOK
    <2>3. ASSUME NEW up \in BOOLEAN, SetLink(up)
          PROVE  \E e \in Events \ {"GOT_IP"} : queue' = Append(queue, e)
      BY <2>3 DEF SetLink
    <2>4. Quiet
      BY <2>1, <2>2, <2>3
    <2> QED
      BY <2>4, <1>q
  <1>5. CASE EventLoop
    BY <1>5, AddrHandled
  <1>6. CASE Outside
    <2>1. CASE AddressTimer
      BY <2>1, <1>0, AppendLast DEF AddressTimer, AddrInv
    <2>2. CASE GotAddress \/ AddressChanges
      BY <2>2 DEF GotAddress, AddressChanges, AddrInv
    <2>3. CASE DeviceGone \/ DeviceFound \/ LevelChanges
      <3>1. Quiet
        BY <2>3 DEF DeviceGone, DeviceFound, LevelChanges
      <3> QED
        BY <3>1, <1>q
    <2> QED
      BY <1>6, <2>1, <2>2, <2>3 DEF Outside
  <1> QED
    BY <1>1, <1>2, <1>3, <1>4, <1>5, <1>6 DEF Next

\* Before the link is declared connected, internet_connected is never set for an
\* address that is gone, once the events of its loss are handled.
THEOREM InternetIsReal == Spec => []InternetHasAddress
  <1>1. Init => AddrInv
    BY DEF Init, AddrInv, TakenBack
  <1>2. AddrInv => InternetHasAddress
    BY DEF AddrInv, InternetHasAddress, Pending, Before
  <1> QED
    BY <1>1, <1>2, AddrStep, LinkTypeCorrect, PTL DEF Spec

-----------------------------------------------------------------------------
(* The refinement: every step is one of LinkPromise or changes nothing of   *)
(* what the network manager sees.                                           *)

LEMMA PromiseInit == Init => Promise!Init
  BY DEF Init, Promise!Init, Phase, Watching

LEMMA PromiseStep == TypeOK /\ [Next]_vars => [Promise!Next]_(Promise!vars)
  <1> SUFFICES ASSUME TypeOK, [Next]_vars
               PROVE  Promise!Next \/ UNCHANGED Promise!vars
    OBVIOUS
  <1> USE DEF Promise!vars, Phase, Watching, task, driver, ip, module
  <1>0. internet' \in BOOLEAN /\ internet \in BOOLEAN
    BY TaskStep DEF TaskOK, TypeOK
  <1>i. CASE UNCHANGED Phase
    BY <1>0, <1>i DEF Promise!Next, Promise!InternetChanges
  <1>1. CASE UNCHANGED vars
    BY <1>1 DEF vars
  <1>2. CASE Connected
    BY <1>2 DEF Connected, Promise!Next, Promise!Connect
  <1>3. CASE TestWifi
    BY <1>3 DEF TestWifi, Promise!Next, Promise!Tested
  <1>4. CASE CheckSim
    BY <1>4, <1>i DEF CheckSim, Promise!Next, Promise!End
  <1>5. CASE Debounce
    BY <1>5, <1>i DEF Debounce, RecoverAnyway, Promise!Next, Promise!Lost
  <1>6. CASE Start \/ PowerOn \/ Settle \/ AtSync \/ Probe
    BY <1>6, <1>i DEF Start, PowerOn, Settle, AtSync, Probe, RecoverAnyway
  <1>7. CASE CheckNetwork \/ StartDatacall \/ execute_datacall \/ WaitForIp
    BY <1>7, <1>i DEF CheckNetwork, StartDatacall, execute_datacall, WaitForIp
  <1>8. CASE NetFail \/ Watch
    BY <1>8, <1>i DEF NetFail, Watch
  <1>9. CASE ResetHardware \/ StopEth \/ StartEth \/ AwaitLink \/ Restart
    BY <1>9, <1>i DEF ResetHardware, StopEth, StartEth, AwaitLink, Restart
  <1>10. CASE Driver \/ EventLoop \/ Outside
    <2>1. UNCHANGED pc
      BY <1>10 DEF Driver, TakeFlags, HandleConnected, HandleDisconnected,
        HandleLineChange, QueryMedia, CompareMedia, EventLoop, OnStart, OnStop,
        OnConnected, OnDisconnected, OnGotIp, OnLostIp, Handle, Outside,
        DeviceGone, DeviceFound, GotAddress, AddressChanges, AddressTimer,
        LevelChanges
    <2> QED
      BY <2>1, <1>i
  <1> QED
    BY <1>1, <1>2, <1>3, <1>4, <1>5, <1>6, <1>7, <1>8, <1>9, <1>10
    DEF Next, LinkTask

\* Whatever the module and the events do, the link task gives the link up, and
\* resets the module, only while internet_connected is clear; the flag is set when
\* it begins to test WiFi and clear when the task ends.
THEOREM LinkKeepsPromise == Spec => KeepsPromise
  <1> QED
    BY PromiseInit, PromiseStep, LinkTypeCorrect, PTL
    DEF Spec, KeepsPromise, Promise!Spec
-----------------------------------------------------------------------------
(* What becomes of a link task that loses its AT port while it dials.      *)

\* The port is closed, by a device that went, and the link task is between the
\* check of the network and the wait for an address.
Stranded == ~at /\ pc \in {"checkNet", "dial", "dialing", "netFail"}

StrandedForGood == [][Stranded => Stranded']_vars

\* Only STATE_AT_SYNC opens the port, and STATE_ERROR_NET_FAIL goes back to
\* STATE_CHECK_NETWORK "to restore the connection": a device that goes and comes
\* back while the link task dials is asked in vain for ever, nothing resets it and
\* 4G never returns, whatever the module, the driver and the events do.
THEOREM NoWayBackFromDialling == Spec => StrandedForGood
  <1>1. ASSUME TypeOK, Stranded, [Next]_vars PROVE Stranded'
    <2> USE <1>1 DEF Stranded, task
    <2>1. CASE UNCHANGED vars
      BY <2>1 DEF vars
    <2>2. CASE CheckNetwork \/ StartDatacall \/ execute_datacall \/ NetFail
      BY <2>2 DEF CheckNetwork, StartDatacall, execute_datacall, NetFail
    <2>3. ~(Start \/ PowerOn \/ Settle \/ AtSync \/ Probe \/ CheckSim)
      BY DEF Start, PowerOn, Settle, AtSync, Probe, CheckSim
    <2>4. ~(WaitForIp \/ Connected \/ TestWifi \/ Watch \/ Debounce)
      BY DEF WaitForIp, Connected, TestWifi, Watch, Debounce
    <2>5. ~(ResetHardware \/ StopEth \/ StartEth \/ AwaitLink \/ Restart)
      BY DEF ResetHardware, StopEth, StartEth, AwaitLink, Restart
    <2>6. CASE Driver \/ EventLoop \/ Outside
      <3>1. UNCHANGED pc
        BY <2>6 DEF Driver, TakeFlags, HandleConnected, HandleDisconnected,
          HandleLineChange, QueryMedia, CompareMedia, EventLoop, OnStart, OnStop,
          OnConnected, OnDisconnected, OnGotIp, OnLostIp, Handle, Outside,
          DeviceGone, DeviceFound, GotAddress, AddressChanges, AddressTimer,
          LevelChanges
      <3>2. UNCHANGED at \/ ~at'
        BY <2>6 DEF Driver, TakeFlags, HandleConnected, HandleDisconnected,
          HandleLineChange, QueryMedia, CompareMedia, EventLoop, OnStart, OnStop,
          OnConnected, OnDisconnected, OnGotIp, OnLostIp, Handle, Outside,
          DeviceGone, DeviceFound, GotAddress, AddressChanges, AddressTimer,
          LevelChanges, Unplugged
      <3> QED
        BY <3>1, <3>2
    <2> QED
      BY <1>1, <2>1, <2>2, <2>3, <2>4, <2>5, <2>6 DEF Next, LinkTask
  <1>2. TypeOK /\ [Next]_vars => [Stranded => Stranded']_vars
    BY <1>1
  <1> QED
    BY <1>2, LinkTypeCorrect, PTL DEF Spec, StrandedForGood
=============================================================================
