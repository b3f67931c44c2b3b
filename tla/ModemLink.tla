----------------------------- MODULE ModemLink -----------------------------
(***************************************************************************)
(* The 4G link: usb_module_app_init's state machine with the layers that   *)
(* tell it about the USB device.                                           *)
(*                                                                         *)
(*   the link task     usb_module_app_init (usb_rndis_4g_module.c),        *)
(*   the RNDIS driver  _usbh_rndis_task (iot_usbh_rndis.c), which takes    *)
(*                     the flags of its event group in a fixed order,      *)
(*   the event loop    iot_event_handle and the netif glue, which handle   *)
(*                     what iot_eth.c and the DHCP client post, in order,  *)
(*   the USB task      calls back when the device comes or goes; then it   *)
(*                     closes the AT port as well.                         *)
(*                                                                         *)
(* They share no lock.  A step is what one of them does between two calls  *)
(* that block.  The retries of a check are one step, taken when an answer  *)
(* is good or the last one is bad.  The module and the DHCP client are     *)
(* external.  "Rare" steps, at most MaxRare in a behaviour, are what the   *)
(* module does wrong by itself and what only an unlikely timing allows.    *)
(***************************************************************************)
EXTENDS Naturals, Sequences

CONSTANT MaxRare \* bound: rare steps in a behaviour

ASSUME RareBounded == MaxRare \in Nat

VARIABLES
  pc,       \* the link task
  caller,   \* where the link task calls recover_rndis_link from
  at,       \* g_at_ctx: the AT port is open
  internet, \* internet_connected
  bits,     \* g_event_group: "GOT_IP", "LINK_UP", "HW_RESET"
  port,     \* rndis->cdc_port: the device is there
  flags,    \* rndis->event_group
  todo,     \* the flags the driver has taken and not yet handled
  answer,   \* the driver's media query: "none" asked, or its answer
  media,    \* rndis->connect_status
  link,     \* eth->link is IOT_ETH_LINK_UP
  queue,    \* the events posted and not yet handled
  netif,    \* external: the interface is "stopped", "started" or "up"
  lease,    \* external: its address, "none", "held" or "lost"
  level,    \* external: the first check the module fails
  dialed,   \* external: the data call is established
  rare      \* rare steps so far

task   == <<pc, caller, at, internet, bits>>
driver == <<flags, todo, answer, media, link>>
ip     == <<netif, lease>>
module == <<level, dialed>>
vars   == <<task, port, driver, queue, ip, module, rare>>

Levels == {"silent", "noSim", "noNet", "ok"}
Flags  == {"CONNECTED", "DISCONNECTED", "LINE_CHANGE"}
Bits   == {"GOT_IP", "LINK_UP", "HW_RESET"}
Events == {"START", "STOP", "CONNECTED", "DISCONNECTED", "GOT_IP", "LOST_IP"}

At(p)    == pc = p
Goto(p)  == pc' = p
Post(e)  == queue' = Append(queue, e)

Rare   == rare < MaxRare /\ rare' = rare + 1
Common == UNCHANGED rare

\* What takes a second or more finds the flags and the events of before handled:
\* the contrary is rare.
Drained == flags = {} /\ todo = {} /\ queue = <<>>
Slowly  == IF Drained THEN Common ELSE Rare

-----------------------------------------------------------------------------
(* The USB device comes and goes.                                          *)

\* Variant: the AT port is not closed.
UnpluggedOpenPort ==
  /\ port' = FALSE
  /\ media' = FALSE
  /\ flags' = flags \cup {"DISCONNECTED"}
  /\ dialed' = FALSE
  /\ UNCHANGED at

\* usb_event_cb on a device that is gone: _usbh_rndis_disconn_cb, then its ports
\* are closed; _at_port_closed_cb destroys the parser.
Unplugged ==
  /\ port' = FALSE
  /\ media' = FALSE
  /\ flags' = flags \cup {"DISCONNECTED"}
  /\ at' = FALSE
  /\ dialed' = FALSE

DeviceGone ==
  /\ port
  /\ Rare
  /\ Unplugged
  /\ UNCHANGED <<pc, caller, internet, bits, todo, answer, link, queue, ip,
                 level>>

\* _usbh_rndis_conn_cb.  A module that starts needs longer than the driver for
\* its flags and the link task to start Ethernet: the contrary is rare.
DeviceFound ==
  /\ ~port
  /\ port' = TRUE
  /\ flags' = flags \cup {"CONNECTED"}
  /\ IF Drained /\ answer = "none" /\ pc \notin {"start", "clean", "stopped"}
       THEN Common ELSE Rare
  /\ UNCHANGED <<task, todo, answer, media, link, queue, ip, module>>

-----------------------------------------------------------------------------
(* _usbh_rndis_task.                                                       *)

\* xEventGroupWaitBits: all flags are taken and cleared.
TakeFlags ==
  /\ todo = {} /\ answer = "none" /\ flags # {}
  /\ todo' = flags
  /\ flags' = {}
  /\ UNCHANGED <<task, port, answer, media, link, queue, ip, module, rare>>

\* iot_eth_on_stage_changed.
SetLink(up) ==
  /\ link' = up
  /\ Post(IF up THEN "CONNECTED" ELSE "DISCONNECTED")

\* RNDIS_CONNECTED: usbh_rndis_connect, which asks the device for its media
\* status among other things.  The link is up when every request is answered,
\* whatever the status; a request may fail after the status was stored.
HandleConnected ==
  /\ "CONNECTED" \in todo
  /\ todo' = todo \ {"CONNECTED"}
  /\ \/ /\ port
        /\ SetLink(TRUE)
        /\ \/ media' = TRUE /\ Common
           \/ media' = FALSE /\ Rare
     \/ /\ IF port THEN Rare ELSE Common
        /\ media' \in {media, TRUE}
        /\ UNCHANGED <<link, queue>>
  /\ UNCHANGED <<task, port, flags, answer, ip, module>>

\* Variant: the link is not reported down.
DisconnectIgnored ==
  /\ "CONNECTED" \notin todo /\ "DISCONNECTED" \in todo
  /\ todo' = todo \ {"DISCONNECTED"}
  /\ link' = FALSE
  /\ UNCHANGED <<task, port, flags, answer, media, queue, ip, module, rare>>

\* RNDIS_DISCONNECTED, after RNDIS_CONNECTED when both were taken.
HandleDisconnected ==
  /\ "CONNECTED" \notin todo /\ "DISCONNECTED" \in todo
  /\ todo' = todo \ {"DISCONNECTED"}
  /\ SetLink(FALSE)
  /\ UNCHANGED <<task, port, flags, answer, media, ip, module, rare>>

\* RNDIS_LINE_CHANGE.
HandleLineChange ==
  /\ todo = {"LINE_CHANGE"}
  /\ todo' = {}
  /\ SetLink(media)
  /\ UNCHANGED <<task, port, flags, answer, media, ip, module, rare>>

\* A minute without flags: usbh_rndis_get_connect_status asks the device ...
QueryMedia ==
  /\ Drained /\ answer = "none" /\ port
  /\ \/ answer' = "up" /\ Common
     \/ answer' = "down" /\ Rare
  /\ UNCHANGED <<task, port, flags, todo, media, link, queue, ip, module>>

\* ... and compares the answer with connect_status, which the USB task may have
\* cleared in between.
CompareMedia ==
  /\ answer # "none"
  /\ media' = (answer = "up")
  /\ flags' = IF media' # media THEN flags \cup {"LINE_CHANGE"} ELSE flags
  /\ answer' = "none"
  /\ UNCHANGED <<task, port, todo, link, queue, ip, module, rare>>

-----------------------------------------------------------------------------
(* The event loop: iot_event_handle, then the netif glue.                  *)

Handle(e) ==
  /\ queue # <<>> /\ Head(queue) = e
  /\ queue' = Tail(queue)
  /\ UNCHANGED <<pc, caller, at, port, driver, module, rare>>

\* An interface that stops, or whose link goes down, loses its address.
Dropped == IF lease = "held" THEN "lost" ELSE lease

OnStart ==
  /\ Handle("START")
  /\ bits' = bits \ {"LINK_UP", "GOT_IP"}
  /\ netif' = IF netif = "stopped" THEN "started" ELSE netif
  /\ UNCHANGED <<internet, lease>>

OnStop ==
  /\ Handle("STOP")
  /\ bits' = bits \ {"LINK_UP", "GOT_IP"}
  /\ netif' = "stopped"
  /\ lease' = Dropped
  /\ UNCHANGED internet

OnConnected ==
  /\ Handle("CONNECTED")
  /\ bits' = bits \cup {"LINK_UP"}
  /\ netif' = IF netif = "started" THEN "up" ELSE netif
  /\ UNCHANGED <<internet, lease>>

OnDisconnected ==
  /\ Handle("DISCONNECTED")
  /\ internet' = FALSE
  /\ bits' = bits \ {"LINK_UP", "GOT_IP"}
  /\ netif' = IF netif = "up" THEN "started" ELSE netif
  /\ lease' = Dropped

OnGotIp ==
  /\ Handle("GOT_IP")
  /\ internet' = TRUE
  /\ bits' = bits \cup {"GOT_IP"}
  /\ UNCHANGED ip

\* Variant: the flag is not cleared.
LostIpKeepsInternet ==
  /\ Handle("LOST_IP")
  /\ bits' = bits \ {"GOT_IP"}
  /\ UNCHANGED <<internet, ip>>

OnLostIp ==
  /\ Handle("LOST_IP")
  /\ internet' = FALSE
  /\ bits' = bits \ {"GOT_IP"}
  /\ UNCHANGED ip

-----------------------------------------------------------------------------
(* The link task, usb_module_app_init.                                     *)

\* What the checks that use the AT port leave alone.
UsesAt == UNCHANGED <<caller, port, driver, queue, ip, level>>

Start ==
  /\ At("start")
  /\ internet' = FALSE
  /\ bits' = bits \ {"LINK_UP", "GOT_IP"}
  /\ Post("START")
  /\ Goto("powerOn")
  /\ UNCHANGED <<caller, at, port, driver, ip, module, rare>>

\* A wait for the link times out early only when something of 8 seconds' length
\* is still under way.
LinkTimeout ==
  /\ "LINK_UP" \notin bits
  /\ IF port /\ Drained THEN Common ELSE Rare

\* Variant: no recovery, the wait begins again.
PowerOnWaits ==
  /\ At("powerOn")
  /\ \/ "LINK_UP" \in bits /\ Goto("settle") /\ Common
     \/ LinkTimeout /\ Goto("powerOn")
  /\ UNCHANGED <<caller, at, internet, bits, port, driver, queue, ip, module>>

\* STATE_POWER_ON: wait_for_rndis_ready, which waits for the link ...
PowerOn ==
  /\ At("powerOn")
  /\ \/ "LINK_UP" \in bits /\ Goto("settle") /\ Common /\ UNCHANGED caller
     \/ LinkTimeout /\ Goto("reset") /\ caller' = "powerOn"
  /\ UNCHANGED <<at, internet, bits, port, driver, queue, ip, module>>

\* ... and lets it settle, without a second look; the CDC handle is always there.
Settle ==
  /\ At("settle")
  /\ Goto("atSync")
  /\ Slowly
  /\ UNCHANGED <<at, internet, bits, dialed>> /\ UsesAt

\* at_deinit_context, then recover_rndis_link, whose result is not looked at.
RecoverAnyway ==
  /\ at' = FALSE
  /\ caller' = "other"
  /\ Goto("reset")

\* STATE_AT_SYNC: at_init ...
AtSync ==
  /\ At("atSync")
  /\ \/ (at \/ port) /\ at' = TRUE /\ Goto("probe") /\ UNCHANGED caller
     \/ ~at /\ ~port /\ RecoverAnyway
  /\ UNCHANGED <<internet, bits, port, driver, queue, ip, module, rare>>

\* ... and wait_for_at_probe_ready.
Probe ==
  /\ At("probe")
  /\ \/ at /\ level # "silent" /\ Goto("checkSim") /\ UNCHANGED <<at, caller>>
     \/ (~at \/ level = "silent") /\ RecoverAnyway
  /\ UNCHANGED <<internet, bits, port, driver, queue, ip, module, rare>>

\* STATE_CHECK_SIM: any failure counts as no SIM, and the task ends.
CheckSim ==
  /\ At("checkSim")
  /\ \/ /\ at /\ level \in {"noNet", "ok"}
        /\ Goto("checkNet")
        /\ UNCHANGED <<at, internet>>
     \/ /\ ~at \/ level \notin {"noNet", "ok"}
        /\ at' = FALSE
        /\ internet' = FALSE
        /\ Goto("ended")
  /\ UNCHANGED <<bits, dialed, rare>> /\ UsesAt

\* STATE_CHECK_NETWORK.
CheckNetwork ==
  /\ At("checkNet")
  /\ Goto(IF at /\ level = "ok" THEN "dial" ELSE "netFail")
  /\ UNCHANGED <<at, internet, bits, dialed, rare>> /\ UsesAt

\* STATE_START_DATACALL: what is known of an address is forgotten ...
StartDatacall ==
  /\ At("dial")
  /\ bits' = bits \ {"GOT_IP"}
  /\ internet' = FALSE
  /\ Goto("dialing")
  /\ UNCHANGED <<at, dialed, rare>> /\ UsesAt

\* ... execute_datacall ...
execute_datacall ==
  /\ At("dialing")
  /\ \/ at /\ level = "ok" /\ dialed' = TRUE /\ Goto("waitIp")
     \/ ~(at /\ level = "ok") /\ Goto("netFail") /\ UNCHANGED dialed
  /\ UNCHANGED <<at, internet, bits, rare>> /\ UsesAt

\* The DHCP client is going to ask for an address and to be given one.
AddressDue == netif = "up" /\ port /\ dialed /\ level = "ok" /\ lease # "held"

\* ... and wait_for_usb_got_ip: a reset since the last wait counts as a failure.
WaitForIp ==
  /\ At("waitIp")
  /\ \/ /\ "HW_RESET" \in bits
        /\ bits' = bits \ {"HW_RESET"}
        /\ Goto("netFail") /\ Common
     \/ /\ "HW_RESET" \notin bits /\ "GOT_IP" \in bits
        /\ Goto("connected") /\ Common /\ UNCHANGED bits
     \/ /\ "HW_RESET" \notin bits /\ "GOT_IP" \notin bits
        /\ IF Drained /\ ~AddressDue THEN Common ELSE Rare
        /\ Goto("netFail") /\ UNCHANGED bits
  /\ UNCHANGED <<at, internet, dialed>> /\ UsesAt

\* STATE_ERROR_NET_FAIL, ten seconds later.
NetFail ==
  /\ At("netFail")
  /\ Goto("checkNet")
  /\ Slowly
  /\ UNCHANGED <<at, internet, bits, dialed>> /\ UsesAt

\* STATE_CONNECTED.
Connected ==
  /\ At("connected")
  /\ internet' = TRUE
  /\ Goto("test")
  /\ UNCHANGED <<at, bits, dialed, rare>> /\ UsesAt

\* WiFi is tested, and switch_to_4g_network called when it does not work.
TestWifi ==
  /\ At("test")
  /\ Goto("watch")
  /\ UNCHANGED <<at, internet, bits, dialed, rare>> /\ UsesAt

\* The watch, every second ...
Watch ==
  /\ At("watch") /\ ~internet
  /\ Goto("debounce")
  /\ Slowly
  /\ UNCHANGED <<at, internet, bits, dialed>> /\ UsesAt

\* Variant: the link is given up without a second look.
GiveUpAtOnce ==
  /\ At("debounce")
  /\ RecoverAnyway
  /\ Slowly
  /\ UNCHANGED <<internet, bits, port, driver, queue, ip, module>>

\* ... and three seconds later.
Debounce ==
  /\ At("debounce")
  /\ \/ internet /\ Goto("watch") /\ UNCHANGED <<at, caller>>
     \/ ~internet /\ RecoverAnyway
  /\ Slowly
  /\ UNCHANGED <<internet, bits, port, driver, queue, ip, module>>

-----------------------------------------------------------------------------
(* recover_rndis_link, in the link task.                                   *)

\* reset_4g_module_hardware: the module goes off the bus.
ResetHardware ==
  /\ At("reset")
  /\ bits' = bits \cup {"HW_RESET"}
  /\ IF port THEN Unplugged
     ELSE dialed' = FALSE /\ UNCHANGED <<port, media, flags, at>>
  /\ Goto("clean")
  /\ UNCHANGED <<caller, internet, todo, answer, link, queue, ip, level, rare>>

StopEth ==
  /\ At("clean")
  /\ at' = FALSE
  /\ internet' = FALSE
  /\ bits' = bits \ {"LINK_UP", "GOT_IP"}
  /\ Post("STOP")
  /\ Goto("stopped")
  /\ Slowly
  /\ UNCHANGED <<caller, port, driver, ip, module>>

StartEth ==
  /\ At("stopped")
  /\ Post("START")
  /\ Goto("await")
  /\ Slowly
  /\ UNCHANGED <<caller, at, internet, bits, port, driver, ip, module>>

\* wait_for_rndis_link_up.
AwaitLink ==
  /\ At("await")
  /\ \/ "LINK_UP" \in bits /\ Goto("powerOn") /\ Common
     \/ LinkTimeout /\ Goto(IF caller = "powerOn" THEN "restart" ELSE "powerOn")
  /\ caller' = "other"
  /\ UNCHANGED <<at, internet, bits, port, driver, queue, ip, module>>

\* restart_due_to_rndis_timeout: the module is reset and the device restarts.
Restart ==
  /\ At("restart")
  /\ Goto("start") /\ caller' = "other"
  /\ at' = FALSE /\ internet' = FALSE /\ bits' = {}
  /\ port' = FALSE /\ dialed' = FALSE
  /\ flags' = {} /\ todo' = {} /\ answer' = "none"
  /\ media' = FALSE /\ link' = FALSE
  /\ queue' = <<>>
  /\ netif' = "stopped" /\ lease' = "none"
  /\ UNCHANGED <<level, rare>>

-----------------------------------------------------------------------------
(* Outside: the module, its DHCP server and the DHCP client.               *)

GotAddress ==
  /\ netif = "up" /\ port /\ level # "silent" /\ lease # "held"
  /\ lease' = "held"
  /\ Post("GOT_IP")
  /\ Slowly
  /\ UNCHANGED <<task, port, driver, netif, module>>

\* The module hands out another address, or none any more.
AddressChanges ==
  /\ lease = "held"
  /\ Rare
  /\ \/ Post("GOT_IP") /\ UNCHANGED lease
     \/ lease' = "lost" /\ UNCHANGED queue
  /\ UNCHANGED <<task, port, driver, netif, module>>

\* The timer of an interface that has lost its address.
AddressTimer ==
  /\ lease = "lost"
  /\ lease' = "none"
  /\ Post("LOST_IP")
  /\ Slowly
  /\ UNCHANGED <<task, port, driver, netif, module>>

LevelChanges ==
  /\ level' \in Levels \ {level}
  /\ IF level' = "ok" THEN Slowly ELSE Rare
  /\ UNCHANGED <<task, port, driver, queue, ip, dialed>>

-----------------------------------------------------------------------------

Init ==
  /\ pc = "start" /\ caller = "other"
  /\ at = FALSE /\ internet = FALSE /\ bits = {}
  /\ port = FALSE /\ dialed = FALSE
  /\ flags = {} /\ todo = {} /\ answer = "none"
  /\ media = FALSE /\ link = FALSE
  /\ queue = <<>>
  /\ netif = "stopped" /\ lease = "none"
  /\ level \in Levels
  /\ rare = 0

LinkTask ==
  \/ Start \/ PowerOn \/ Settle \/ AtSync \/ Probe \/ CheckSim \/ CheckNetwork
  \/ StartDatacall \/ execute_datacall \/ WaitForIp \/ NetFail
  \/ Connected \/ TestWifi \/ Watch \/ Debounce
  \/ ResetHardware \/ StopEth \/ StartEth \/ AwaitLink \/ Restart

Driver ==
  \/ TakeFlags \/ HandleConnected \/ HandleDisconnected \/ HandleLineChange
  \/ QueryMedia \/ CompareMedia

EventLoop ==
  \/ OnStart \/ OnStop \/ OnConnected \/ OnDisconnected \/ OnGotIp \/ OnLostIp

Outside ==
  \/ DeviceGone \/ DeviceFound
  \/ GotAddress \/ AddressChanges \/ AddressTimer
  \/ LevelChanges

Next == LinkTask \/ Driver \/ EventLoop \/ Outside

Spec == Init /\ [][Next]_vars

(***************************************************************************)
(* The tasks run and their waits end.  A module that is powered enumerates,*)
(* one with a data call answers the DHCP client, and the timer of an       *)
(* address runs out.                                                       *)
(***************************************************************************)
Fairness ==
  /\ WF_vars(LinkTask)
  /\ WF_vars(Driver)
  /\ WF_vars(EventLoop)
  /\ WF_vars(DeviceFound)
  /\ WF_vars(AddressDue /\ GotAddress)
  /\ WF_vars(AddressTimer)

FairSpec == Spec /\ Fairness

-----------------------------------------------------------------------------

Recovery == {"reset", "clean", "stopped", "await", "restart"}
DataCall == {"checkNet", "dial", "dialing", "waitIp", "netFail"}
Watching == {"watch", "debounce"}
Places   ==
  {"start", "powerOn", "settle", "atSync", "probe", "checkSim", "connected",
   "test", "ended"} \cup Recovery \cup DataCall \cup Watching

\* The type invariant of the tasks' states, the flags and the events.
TypeOK ==
  /\ pc \in Places
  /\ caller \in {"powerOn", "other"}
  /\ at \in BOOLEAN
  /\ internet \in BOOLEAN
  /\ bits \subseteq Bits
  /\ port \in BOOLEAN
  /\ flags \subseteq Flags
  /\ todo \subseteq Flags
  /\ answer \in {"none", "up", "down"}
  /\ media \in BOOLEAN
  /\ link \in BOOLEAN
  /\ queue \in Seq(Events)
  /\ netif \in {"stopped", "started", "up"}
  /\ lease \in {"none", "held", "lost"}
  /\ level \in Levels
  /\ dialed \in BOOLEAN
  /\ rare \in 0..MaxRare
  /\ answer # "none" => todo = {}
  /\ at => port

\* What the link task waits for is what the driver last reported: with no event
\* on its way, the link is up when LINK_UP says so.
LinkUpIsReported == queue = <<>> /\ "LINK_UP" \in bits => link

\* Until the link task declares the link connected, nobody takes 4G for working
\* without an address, whatever events and recoveries overlap: with no event on
\* its way internet_connected has an address behind it, or one whose timer runs.
InternetHasAddress ==
  internet /\ queue = <<>> /\ pc \notin Watching \cup {"test"} => lease # "none"

Phase == CASE pc \in Watching -> "watch"
           [] pc \in {"test", "ended"} -> pc
           [] OTHER -> "down"

Promise == INSTANCE LinkPromise WITH phase <- Phase

\* The network manager may rely on LinkPromise: in particular the link is given
\* up, and the module reset, only while internet_connected is clear.
KeepsPromise == Promise!Spec

Up         == pc = "watch" /\ internet /\ lease = "held"
Caught     == /\ pc \in DataCall
              /\ ~at \/ lease = "held" \/ netif # "up"
NotNoticed == pc = "watch" /\ internet /\ lease # "held"

\* A module that is well for good and whose rare misfortunes are over ends up
\* connected, or the link task has ended without a SIM, or it is caught in one
\* of two ways: it dials for ever, without an AT port, with the address it had
\* before, or with an interface started after its link; or it watches a link that
\* it lost before the watch began.  It is never reset for ever.
LinkComesBack ==
  <>[](level = "ok") =>
    <>[]Up \/ <>[](pc = "ended") \/ <>[]Caught \/ <>[]NotNoticed

-----------------------------------------------------------------------------
(* What the comments of the code say and the code does not do.             *)

\* "When RNDIS drops, the event handler sets it to 0" and the watch restarts the
\* link: a watched link that has lost its address gets one again or is given up.
DropNoticed == NotNoticed ~> ~NotNoticed
=============================================================================
