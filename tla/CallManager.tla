---------------------------- MODULE CallManager ----------------------------
(***************************************************************************)
(* The cellular call control of the phone: call_manager.c, the telephone   *)
(* half of button_handler.c and the URC handler of usb_rndis_4g_module.c.  *)
(*                                                                         *)
(* Four kinds of task run this code concurrently, without a common lock:   *)
(*   "rx"     the USB receive task, which calls the URC handler,           *)
(*   "btn"    button_event_task, which serves the keys,                    *)
(*   "tmr"    the FreeRTOS timer task (auto-hangup, delayed dialling),     *)
(*   Dialers  the threads of the voice-agent engine that dial directly.    *)
(* mqtt_app's loop calls call_manager_process_events, one step by itself.  *)
(*                                                                         *)
(* A step runs from one point where the task may block (vTaskDelay, a      *)
(* mutex, an AT exchange, a call into the audio or TTS engine) to the next.*)
(***************************************************************************)
EXTENDS Naturals, Sequences

CONSTANTS
  Dialers,    \* tasks besides "btn" that call at_make_phone_call
  LinkFaults, \* bound: may the 4G link task lose the module and use the parser
  Whitelist,  \* the numbers the platform's rules may let through
  Strangers,  \* numbers no rule lets through
  Hidden,     \* what +CLCC gives for a caller without a number: ""
  MaxUrcs     \* bound: unsolicited lines waiting in the USB receive buffer

ASSUME TasksDistinct == Dialers \cap {"rx", "btn", "free", "fsm"} = {}
ASSUME LinkFaultsBoolean == LinkFaults \in BOOLEAN
ASSUME NumbersDistinct == /\ Whitelist \cap Strangers = {}
                          /\ Hidden \notin Whitelist \cup Strangers
ASSUME UrcBound == MaxUrcs \in Nat \ {0}

Tasks   == {"rx", "btn", "tmr"} \cup Dialers
Numbers == Whitelist \cup Strangers
Callers == Numbers \cup {Hidden}

CallStates == {"IDLE", "RINGING", "IN_CALL", "HANGING_UP"}

VARIABLES
  state,            \* g_current_call.state
  number,           \* g_current_call.caller_number (Hidden stands for "")
  timerActive,      \* g_current_call.auto_hangup_timer
  autoHangupEvent,  \* AUTO_HANGUP_EVENT in g_event_group
  ring,             \* g_is_playing_ringtone
  inCall,           \* g_is_in_call of button_handler.c
  pa,               \* GPIO48: the power amplifier
  route,            \* GPIO47: audio from the 4G module or from the DAC
  atMutex,          \* g_at_mutex: its holder or "free"
  atCommand,        \* g_at_command_buffer
  parser,           \* who has a command in the AT parser: "free", a task, "fsm"
  handle,           \* g_at_handle # NULL
  line,             \* external: the call as the modem sees it
  peer,             \* external: the number at the other end of an incoming call
  urcs,             \* external: unsolicited lines not yet read by "rx"
  job,              \* what each task is executing
  pc                \* where each task is in its job

callVars  == <<state, number, timerActive, autoHangupEvent>>
audioVars == <<inCall, pa, route>>
atVars    == <<atMutex, atCommand, parser>>
modemVars == <<handle, line, peer, urcs>>
taskVars  == <<job, pc>>
vars == <<callVars, ring, audioVars, atVars, modemVars, taskVars>>

Jobs   == {"none", "answer", "reject", "hangup", "dial", "ended", "incoming"}
Places == {"idle", "stopped", "ampOff", "route", "ampOn", "take", "escape",
           "send", "reply", "announce", "arm"}

\* Unsolicited lines: the end of a call, an outgoing and an incoming call.
NoCarrier   == [kind |-> "NO CARRIER", from |-> Hidden]
ClccMO      == [kind |-> "CLCC MO", from |-> Hidden]
ClccMT(n)   == [kind |-> "CLCC MT", from |-> n]
UrcLines    == {NoCarrier, ClccMO} \cup {ClccMT(n) : n \in Callers}

Idle(t)      == pc[t] = "idle"
At(t, p)     == pc[t] = p
Begin(t, j, p) == /\ job' = [job EXCEPT ![t] = j]
                  /\ pc' = [pc EXCEPT ![t] = p]
Goto(t, p)   == /\ pc' = [pc EXCEPT ![t] = p]
                /\ UNCHANGED job
Return(t)    == Begin(t, "none", "idle")

\* The states in which reject, hangup and handle_call_ended act.
HasCall == state \in {"RINGING", "IN_CALL"}

\* stop_ringtone_task up to its 100 ms delay.
stop_ringtone_task == ring' = FALSE

\* xTimerIsTimerActive and xTimerStop.  A timer whose start command still waits
\* for the timer task does not count as active and is not stopped; that can
\* happen only while the timer task is busy.
StopTimer == \/ timerActive' = FALSE
             \/ ~Idle("tmr") /\ UNCHANGED timerActive

\* The reset that ends a call in reject_call and handle_call_ended.
ClearCall == /\ state' = "IDLE"
             /\ number' = Hidden
             /\ StopTimer
             /\ UNCHANGED autoHangupEvent

-----------------------------------------------------------------------------
(* Keys: handle_button_short_press in button_event_task.                   *)

\* Key 40 while ringing: call_manager_answer_call.
PressAnswer ==
  /\ Idle("btn")
  /\ state = "RINGING"
  /\ stop_ringtone_task
  /\ Begin("btn", "answer", "stopped")
  /\ UNCHANGED <<callVars, audioVars, atVars, modemVars>>

\* Key 4 while ringing: call_manager_reject_call.
PressReject ==
  /\ Idle("btn")
  /\ state = "RINGING"
  /\ stop_ringtone_task
  /\ Begin("btn", "reject", "stopped")
  /\ UNCHANGED <<callVars, audioVars, atVars, modemVars>>

\* Key 40 in a call that is not ringing: at_hang_up_phone_call.
PressHangup ==
  /\ Idle("btn")
  /\ state # "RINGING"
  /\ inCall
  /\ handle
  /\ Begin("btn", "hangup", "ampOff")
  /\ UNCHANGED <<callVars, ring, audioVars, atVars, modemVars>>

\* at_make_phone_call up to the first wait.  Keys 38 and 39 dial when no call
\* is held, key 40 when moreover none is ringing; the engine's threads and the
\* delayed-dial timer callback dial without looking at any state.
at_make_phone_call(t) ==
  /\ Idle(t)
  /\ t \in Dialers \/ (t = "btn" /\ ~inCall)
  /\ handle
  /\ Begin(t, "dial", "ampOff")
  /\ UNCHANGED <<callVars, ring, audioVars, atVars, modemVars>>

\* Variant: the early return without a handle forgets to end the job.
RingStoppedJobKept(t) ==
  /\ At(t, "stopped")
  /\ \/ /\ job[t] \in {"answer", "reject"}
        /\ Goto(t, IF handle THEN "take" ELSE "idle")
        /\ UNCHANGED callVars
     \/ /\ job[t] = "ended"
        /\ ClearCall
        /\ Return(t)
  /\ UNCHANGED <<ring, audioVars, atVars, modemVars>>

\* The code after the 100 ms wait of stop_ringtone_task, in each caller.
RingStopped(t) ==
  /\ At(t, "stopped")
  /\ \/ /\ job[t] \in {"answer", "reject"}
        /\ IF handle THEN Goto(t, "take") ELSE Return(t)
        /\ UNCHANGED callVars
     \/ /\ job[t] = "ended"
        /\ ClearCall
        /\ Return(t)
     \/ /\ job[t] = "incoming"
        /\ state' = "IDLE"
        /\ UNCHANGED <<number, timerActive, autoHangupEvent>>
        /\ Return(t)
  /\ UNCHANGED <<ring, audioVars, atVars, modemVars>>

-----------------------------------------------------------------------------
(* The audio switch: amplifier off, 50 ms, route, 50 ms, amplifier on.     *)

AmpOff(t) ==
  /\ At(t, "ampOff")
  /\ pa' = FALSE
  /\ Goto(t, "route")
  /\ UNCHANGED <<callVars, ring, inCall, route, atVars, modemVars>>

SwitchRoute(t) ==
  /\ At(t, "route")
  /\ route' = IF job[t] \in {"answer", "dial"} THEN "4G" ELSE "DAC"
  /\ Goto(t, "ampOn")
  /\ UNCHANGED <<callVars, ring, inCall, pa, atVars, modemVars>>

\* answer_call: the call is taken.
AmpOnAnswer(t) ==
  /\ At(t, "ampOn")
  /\ job[t] = "answer"
  /\ pa' = TRUE
  /\ state' = "IN_CALL"
  /\ inCall' = TRUE
  /\ StopTimer
  /\ Return(t)
  /\ UNCHANGED <<number, autoHangupEvent, ring, route, atVars,
                 modemVars>>

\* at_make_phone_call and at_hang_up_phone_call go on to the AT exchange.
AmpOnExchange(t) ==
  /\ At(t, "ampOn")
  /\ job[t] \in {"dial", "hangup"}
  /\ pa' = TRUE
  /\ inCall' = (job[t] = "dial")
  /\ Goto(t, "take")
  /\ UNCHANGED <<callVars, ring, route, atVars, modemVars>>

\* Variant: hang_up_cleanup does not switch the amplifier on again.
AmpStaysOff(t) ==
  /\ At(t, "ampOn")
  /\ job[t] = "ended"
  /\ inCall' = FALSE
  /\ Return(t)
  /\ UNCHANGED <<callVars, ring, pa, route, atVars, modemVars>>

\* NO CARRIER: hang_up_cleanup is done, call_manager_handle_call_ended starts.
AmpOnEnded(t) ==
  /\ At(t, "ampOn")
  /\ job[t] = "ended"
  /\ pa' = TRUE
  /\ inCall' = FALSE
  /\ IF HasCall THEN stop_ringtone_task /\ Goto(t, "stopped")
                ELSE UNCHANGED ring /\ Return(t)
  /\ UNCHANGED <<callVars, route, atVars, modemVars>>

-----------------------------------------------------------------------------
(* The AT exchange under g_at_mutex.                                       *)

Command(j) == CASE j = "answer" -> "ATA"
                [] j \in {"reject", "hangup"} -> "ATH"
                [] OTHER -> "ATD"

\* Variant: the exchange does not wait for g_at_mutex.
TakeWithoutWaiting(t) ==
  /\ At(t, "take")
  /\ atMutex' = t
  /\ Goto(t, IF job[t] = "dial" THEN "escape" ELSE "send")
  /\ UNCHANGED <<callVars, ring, audioVars, atCommand, parser, modemVars>>

TakeAtMutex(t) ==
  /\ At(t, "take")
  /\ atMutex = "free"
  /\ atMutex' = t
  /\ Goto(t, IF job[t] = "dial" THEN "escape" ELSE "send")
  /\ UNCHANGED <<callVars, ring, audioVars, atCommand, parser,
                 modemVars>>

\* What is left in the buffers when the mutex is given back is dead, each
\* exchange clears them first; the model clears them at once.
GiveAtMutex == atMutex' = "free" /\ atCommand' = ""

TakeParser(t) == /\ parser = "free"
                 /\ parser' = t
                 /\ Goto(t, "reply")
                 /\ UNCHANGED atMutex

\* The parser takes the command once nobody else has one in it
\* (send_cmd_lock); without a handle the call fails at once.
SendCommand(t) ==
  /\ \/ /\ At(t, "escape") /\ handle
        /\ atCommand' = "+++"
        /\ TakeParser(t)
     \/ /\ At(t, "send") /\ handle
        /\ atCommand' = Command(job[t])
        /\ TakeParser(t)
     \/ /\ At(t, "escape") /\ ~handle
        /\ Goto(t, "send")
        /\ UNCHANGED atVars
     \/ /\ At(t, "send") /\ ~handle
        /\ Return(t)
        /\ GiveAtMutex
        /\ UNCHANGED parser
  /\ UNCHANGED <<callVars, ring, audioVars, modemVars>>

\* What the modem does with a command it executes.
Execute(cmd) ==
  \/ /\ cmd = "ATA" /\ line = "alerting"
     /\ line' = "active"
     /\ UNCHANGED <<peer, urcs>>
  \/ /\ cmd = "ATH" /\ line # "none"
     /\ line' = "none"
     /\ peer' = Hidden
     /\ \/ UNCHANGED urcs
        \/ Len(urcs) < MaxUrcs /\ urcs' = Append(urcs, NoCarrier)
  \/ /\ cmd = "ATD" /\ line = "none" /\ Len(urcs) < MaxUrcs
     /\ line' = "outgoing"
     /\ urcs' = Append(urcs, ClccMO)
     /\ UNCHANGED peer

\* Variant: the error path returns without giving g_at_mutex back.
ReplyKeepsMutex(t, ok) ==
  /\ At(t, "reply")
  /\ ~ok
  /\ parser' = "free"
  /\ Return(t)
  /\ UNCHANGED <<callVars, ring, audioVars, atMutex, atCommand, modemVars>>

\* Variant: a command that timed out is sent again.
ReplyRetries(t, ok) ==
  /\ At(t, "reply")
  /\ ~ok
  /\ parser' = "free"
  /\ Goto(t, "send")
  /\ UNCHANGED <<callVars, ring, audioVars, atMutex, atCommand, modemVars>>

\* The exchange ends: ok is at_send_custom_command's ESP_OK, which an ERROR
\* answer gives as well as an OK; otherwise it timed out.  The modem may have
\* executed the command or not.  Answers come through the "rx" task, after the
\* unsolicited lines the modem sent before.
Reply(t, ok) ==
  /\ At(t, "reply")
  /\ ok => handle /\ Idle("rx") /\ urcs = <<>>
  /\ \/ handle /\ Execute(atCommand)
     \/ UNCHANGED <<line, peer, urcs>>
  /\ parser' = "free"
  /\ UNCHANGED <<handle, ring, audioVars>>
  /\ \/ /\ atCommand = "+++"
        /\ Goto(t, "send")
        /\ UNCHANGED <<atMutex, atCommand, callVars>>
     \/ /\ atCommand # "+++"
        /\ GiveAtMutex
        /\ \/ /\ job[t] = "answer" /\ ok
              /\ Goto(t, "ampOff")
              /\ UNCHANGED callVars
           \/ /\ job[t] = "reject" /\ ok
              /\ ClearCall
              /\ Return(t)
           \/ /\ job[t] \in {"answer", "reject"} => ~ok
              /\ Return(t)
              /\ UNCHANGED callVars

-----------------------------------------------------------------------------
(* Unsolicited responses, in the USB receive task.                         *)

\* A line that arrives while a command is in the parser goes to that command's
\* line handler, which drops it; only an idle parser calls the URC handler.
SwallowUrc ==
  /\ Idle("rx")
  /\ urcs # <<>>
  /\ parser # "free"
  /\ urcs' = Tail(urcs)
  /\ UNCHANGED <<callVars, ring, audioVars, atVars, handle, line, peer,
                 taskVars>>

UrcReady(kind) == /\ Idle("rx")
                  /\ parser = "free"
                  /\ urcs # <<>>
                  /\ Head(urcs).kind = kind
                  /\ urcs' = Tail(urcs)

UrcNoCarrier ==
  /\ UrcReady("NO CARRIER")
  /\ Begin("rx", "ended", "ampOff")
  /\ UNCHANGED <<callVars, ring, audioVars, atVars, handle, line, peer>>

UrcOutgoing ==
  /\ UrcReady("CLCC MO")
  /\ inCall' = TRUE
  /\ UNCHANGED <<callVars, ring, pa, route, atVars, handle, line, peer,
                 taskVars>>

\* Variant: the number is stored before the state is looked at.
UrcIncomingStoresFirst ==
  /\ UrcReady("CLCC MT")
  /\ number' = Head(urcs).from
  /\ IF state = "IDLE" /\ number' \in Whitelist
       THEN state' = "RINGING" /\ Begin("rx", "incoming", "announce")
       ELSE UNCHANGED <<state, taskVars>>
  /\ UNCHANGED <<timerActive, autoHangupEvent, ring, audioVars, atVars, handle,
                 line, peer>>

\* call_manager_handle_incoming_call up to the TTS announcement.  A number no
\* rule lets through is stored and handed to call_manager_reject_call, which
\* refuses to act because the state is still IDLE.
UrcIncoming ==
  /\ UrcReady("CLCC MT")
  /\ LET n == Head(urcs).from IN
       IF n = Hidden \/ state # "IDLE"
         THEN UNCHANGED <<state, number, taskVars>>
         ELSE /\ number' = n
              /\ IF n \in Whitelist
                   THEN /\ state' = "RINGING"
                        /\ Begin("rx", "incoming", "announce")
                   ELSE UNCHANGED <<state, taskVars>>
  /\ UNCHANGED <<timerActive, autoHangupEvent, ring, audioVars, atVars,
                 handle, line, peer>>

\* The announcement is sent and start_ringtone_task called; it lowers the flag
\* again when the task cannot be created.
Announce ==
  /\ At("rx", "announce")
  /\ ring' \in BOOLEAN
  /\ Goto("rx", "arm")
  /\ UNCHANGED <<callVars, audioVars, atVars, modemVars>>

\* Variant: a timer that does not start is ignored.
ArmFailureIgnored ==
  /\ At("rx", "arm")
  /\ timerActive' \in BOOLEAN
  /\ Return("rx")
  /\ UNCHANGED <<state, number, autoHangupEvent, ring, audioVars, atVars,
                 modemVars>>

\* xTimerStart of the 5-minute timer; when it fails the call is given up.
ArmHangupTimer ==
  /\ At("rx", "arm")
  /\ \/ /\ timerActive' = TRUE
        /\ Return("rx")
        /\ UNCHANGED ring
     \/ /\ stop_ringtone_task
        /\ Goto("rx", "stopped")
        /\ UNCHANGED timerActive
  /\ UNCHANGED <<state, number, autoHangupEvent, audioVars, atVars,
                 modemVars>>

-----------------------------------------------------------------------------
(* Timer task, MQTT task and ringtone task.                                *)

\* Variant: the expiry of a ringing call only sets the event.
TimerKeepsRinging ==
  /\ Idle("tmr")
  /\ timerActive
  /\ timerActive' = FALSE
  /\ autoHangupEvent' = (state = "RINGING")
  /\ UNCHANGED <<state, number, ring, audioVars, atVars, modemVars, taskVars>>

auto_hangup_timer_callback ==
  /\ Idle("tmr")
  /\ timerActive
  /\ timerActive' = FALSE
  /\ IF state = "RINGING"
       THEN state' = "HANGING_UP" /\ autoHangupEvent' = TRUE
       ELSE UNCHANGED <<state, autoHangupEvent>>
  /\ UNCHANGED <<number, ring, audioVars, atVars, modemVars, taskVars>>

\* The event is consumed.  In HANGING_UP call_manager_hangup_call is invoked,
\* and it returns ESP_ERR_INVALID_STATE: it serves RINGING and IN_CALL only.
call_manager_process_events ==
  /\ autoHangupEvent
  /\ autoHangupEvent' = FALSE
  /\ UNCHANGED <<state, number, timerActive, ring, audioVars, atVars,
                 modemVars, taskVars>>

-----------------------------------------------------------------------------
(* The modem, the network and the 4G link task: external.                  *)

IncomingCall(n) ==
  /\ handle /\ line = "none" /\ Len(urcs) < MaxUrcs
  /\ line' = "alerting"
  /\ peer' = n
  /\ urcs' = Append(urcs, ClccMT(n))
  /\ UNCHANGED <<callVars, ring, audioVars, atVars, handle, taskVars>>

\* The modem reports an existing call again.
ReportCall ==
  /\ handle /\ line # "none" /\ Len(urcs) < MaxUrcs
  /\ urcs' = Append(urcs, IF line = "outgoing" THEN ClccMO ELSE ClccMT(peer))
  /\ UNCHANGED <<callVars, ring, audioVars, atVars, handle, line, peer,
                 taskVars>>

RemoteHangup ==
  /\ handle /\ line # "none" /\ Len(urcs) < MaxUrcs
  /\ line' = "none"
  /\ peer' = Hidden
  /\ urcs' = Append(urcs, NoCarrier)
  /\ UNCHANGED <<callVars, ring, audioVars, atVars, handle, taskVars>>

\* The 4G link task loses the module (at_deinit, port closed) or finds it again.
ModemLost ==
  /\ LinkFaults
  /\ handle
  /\ handle' = FALSE
  /\ line' = "none"
  /\ peer' = Hidden
  /\ urcs' = <<>>
  /\ UNCHANGED <<callVars, ring, audioVars, atVars, taskVars>>

ModemBack ==
  /\ LinkFaults
  /\ ~handle
  /\ handle' = TRUE
  /\ UNCHANGED <<callVars, ring, audioVars, atVars, line, peer, urcs,
                 taskVars>>

\* The 4G link task polls the modem through the parser, not under g_at_mutex.
LinkTaskSends ==
  /\ LinkFaults
  /\ handle /\ parser = "free"
  /\ parser' = "fsm"
  /\ UNCHANGED <<callVars, ring, audioVars, atMutex, atCommand,
                 modemVars, taskVars>>

LinkTaskDone ==
  /\ parser = "fsm"
  /\ parser' = "free"
  /\ UNCHANGED <<callVars, ring, audioVars, atMutex, atCommand,
                 modemVars, taskVars>>

-----------------------------------------------------------------------------

Init ==
  /\ state = "IDLE"
  /\ number = Hidden
  /\ timerActive = FALSE
  /\ autoHangupEvent = FALSE
  /\ ring = FALSE
  /\ inCall = FALSE
  /\ pa = TRUE
  /\ route = "DAC"
  /\ atMutex = "free"
  /\ atCommand = ""
  /\ parser = "free"
  /\ handle = TRUE
  /\ line = "none"
  /\ peer = Hidden
  /\ urcs = <<>>
  /\ job = [t \in Tasks |-> "none"]
  /\ pc = [t \in Tasks |-> "idle"]

\* What a task does once it has begun a job.
Step(t) ==
  \/ RingStopped(t)
  \/ AmpOff(t) \/ SwitchRoute(t)
  \/ AmpOnAnswer(t) \/ AmpOnExchange(t) \/ AmpOnEnded(t)
  \/ SendCommand(t)
  \/ \E ok \in BOOLEAN : Reply(t, ok)

Urc == SwallowUrc \/ UrcNoCarrier \/ UrcOutgoing \/ UrcIncoming

Keys == PressAnswer \/ PressReject \/ PressHangup

Environment ==
  \/ \E n \in Callers : IncomingCall(n)
  \/ ReportCall \/ RemoteHangup
  \/ ModemLost \/ ModemBack
  \/ LinkTaskSends

Next ==
  \/ \E t \in Tasks : Step(t) \/ TakeAtMutex(t) \/ at_make_phone_call(t)
  \/ Keys
  \/ Urc \/ Announce \/ ArmHangupTimer
  \/ auto_hangup_timer_callback
  \/ call_manager_process_events
  \/ Environment
  \/ LinkTaskDone

Spec == Init /\ [][Next]_vars

(***************************************************************************)
(* Tasks keep running; the user, the callers, the platform and the radio   *)
(* link owe nothing.  g_at_mutex and send_cmd_lock are FreeRTOS mutexes:   *)
(* giving one wakes a waiting task, so a task that waits while they are    *)
(* freed again and again gets them (strong fairness).  The timer service   *)
(* task serves an expired timer when it gets back to its list.             *)
(***************************************************************************)
Fairness ==
  /\ \A t \in Tasks : /\ WF_vars(Step(t))
                      /\ SF_vars(TakeAtMutex(t))
  /\ WF_vars(Urc)
  /\ WF_vars(Announce \/ ArmHangupTimer)
  /\ SF_vars(auto_hangup_timer_callback)
  /\ WF_vars(call_manager_process_events)
  /\ WF_vars(LinkTaskDone)

FairSpec == Spec /\ Fairness

-----------------------------------------------------------------------------

\* Which jobs visit a place.
JobsAt(p) ==
  CASE p = "idle" -> {"none"}
    [] p \in {"announce", "arm"} -> {"incoming"}
    [] p = "stopped" -> {"answer", "reject", "ended", "incoming"}
    [] p = "ampOff" -> {"answer", "dial", "hangup", "ended"}
    [] p = "route" -> {"answer", "dial", "hangup", "ended"}
    [] p = "ampOn" -> {"answer", "dial", "hangup", "ended"}
    [] p = "escape" -> {"dial"}
    [] OTHER -> {"answer", "reject", "hangup", "dial"}

\* The type invariant of g_current_call, the audio flags, the AT exchange and
\* the tasks: every task is at a place its job visits, and only the USB receive
\* task handles incoming and ended calls.
TypeOK ==
  /\ state \in CallStates
  /\ number \in Callers
  /\ timerActive \in BOOLEAN
  /\ autoHangupEvent \in BOOLEAN
  /\ ring \in BOOLEAN
  /\ inCall \in BOOLEAN
  /\ pa \in BOOLEAN
  /\ route \in {"4G", "DAC"}
  /\ atMutex \in Tasks \cup {"free"}
  /\ atCommand \in {"", "ATA", "ATH", "ATD", "+++"}
  /\ parser \in Tasks \cup {"free", "fsm"}
  /\ handle \in BOOLEAN
  /\ line \in {"none", "alerting", "active", "outgoing"}
  /\ peer \in Callers
  /\ urcs \in Seq(UrcLines)
  /\ Len(urcs) <= MaxUrcs
  /\ job \in [Tasks -> Jobs]
  /\ pc \in [Tasks -> Places]
  /\ \A t \in Tasks : job[t] \in JobsAt(pc[t])
  /\ \A t \in Tasks : job[t] \in {"incoming", "ended"} => t = "rx"

\* Every ringing call is under its auto-hangup timer, whatever the keys, the
\* network and the timer task do meanwhile, or the receive task is still inside
\* call_manager_handle_incoming_call, on its way to start it or to give up.
RingingIsTimed ==
  state = "RINGING" => \/ timerActive
                       \/ pc["rx"] \in {"announce", "arm"}
                       \/ job["rx"] = "incoming" /\ pc["rx"] = "stopped"

\* The phone never rings for a number that call_manager_check_intercept blocks.
RingingIsListed == state = "RINGING" => number \in Whitelist

\* Nobody leaves the amplifier off: GPIO48 is low only while some task is
\* between the two ends of its audio switch, however the switches interleave.
AmpOffOnlyWhileSwitching == ~pa => \E t \in Tasks : pc[t] \in {"route", "ampOn"}

\* A task that waits for an answer holds g_at_mutex, owns the parser, and finds
\* in g_at_command_buffer the command it wrote itself: no two call-control
\* functions share the AT buffers.
ExchangeIsExclusive ==
  \A t \in Tasks : At(t, "reply") => /\ atMutex = t
                                     /\ parser = t
                                     /\ atCommand \in {"+++", Command(job[t])}

\* The call record as CallPromise sees it: the key whose job may still change
\* it, and the line the receive task is handling.  hang_up_cleanup belongs to
\* the audio; the record is concerned once call_manager_handle_call_ended has
\* found a call.
KeyServed == IF job["btn"] \in {"answer", "reject"} THEN job["btn"] ELSE "none"
News == IF job["rx"] = "incoming" \/ (job["rx"] = "ended" /\ At("rx", "stopped"))
          THEN job["rx"] ELSE "none"

Calls == INSTANCE CallPromise
  WITH call <- state, caller <- number, key <- KeyServed, news <- News

\* The call record changes for the reasons CallPromise lists, and for no other:
\* in particular a second incoming call does not replace the caller of the
\* first, and dialling or hanging up with the keys never touches the record.
KeepsCallPromise == Calls!Spec

\* The places a job has still to visit, at most.  The AT exchange comes before
\* the audio switch when a call is answered, after it when one is dialled or
\* hung up; "dial" sends two commands, the escape sequence first.
SwitchLeft(p) == CASE p = "ampOff" -> 3 [] p = "route" -> 2 [] OTHER -> 1

ExchangeLeft(t) ==
  CASE pc[t] = "take" -> 5
    [] pc[t] = "escape" -> 4
    [] pc[t] = "reply" /\ atCommand = "+++" -> 3
    [] pc[t] = "send" -> 2
    [] OTHER -> 1

StepsLeft(t) ==
  CASE pc[t] = "idle" -> 0
    [] pc[t] = "announce" -> 3
    [] pc[t] = "arm" -> 2
    [] pc[t] = "stopped" -> IF job[t] \in {"answer", "reject"} THEN 9 ELSE 1
    [] pc[t] \in {"ampOff", "route", "ampOn"} ->
         SwitchLeft(pc[t]) + (CASE job[t] = "answer" -> 0
                                [] job[t] = "ended" -> 1
                                [] OTHER -> 5)
    [] OTHER -> ExchangeLeft(t) + (IF job[t] = "answer" THEN 3 ELSE 0)

\* A job gets on: each of its steps leaves fewer to come, and no step of another
\* task, of the modem or of the link task sets it back or starts it anew.
JobsGetOn ==
  [][\A t \in Tasks :
       job[t] # "none" =>
         \/ StepsLeft(t)' < StepsLeft(t)
         \/ UNCHANGED <<job[t], pc[t], StepsLeft(t)>>]_vars

\* What a task waits for: g_at_mutex, or the parser while there is a handle.
Waits(t) == \/ At(t, "take") /\ atMutex # "free"
            \/ pc[t] \in {"escape", "send"} /\ handle /\ parser # "free"

\* The call control never comes to a standstill: if any task waits, whoever it
\* waits for is at work, or waits itself for somebody who is at work.
NoStandstill ==
  \A t \in Tasks :
    Waits(t) => \/ \E u \in Tasks : ~Idle(u) /\ ~Waits(u)
                \/ parser = "fsm"

\* Every job a task begins comes to its end: g_at_mutex is given back on every
\* path, so that nobody waits for it forever.
TasksReturn == \A t \in Tasks : pc[t] # "idle" ~> pc[t] = "idle"

\* The phone does not ring forever: it leaves RINGING by a key, the end of the
\* call or the auto-hangup timer.
RingingEnds == state = "RINGING" ~> state # "RINGING"

-----------------------------------------------------------------------------
(* What the comments of the code say and the code does not do.             *)

\* "auto-hangup event (nobody answered for 5 minutes)": the call is hung up and
\* the manager is ready for the next one.
AutoHangupEnds == state = "HANGING_UP" ~> state = "IDLE"

\* "if it is intercepted, reject it": an incoming call from a blocked number,
\* once seen, does not go on alerting.
BlockedCallRejected ==
  line = "alerting" /\ number = peer /\ peer \in Strangers
    ~> line # "alerting"
=============================================================================
