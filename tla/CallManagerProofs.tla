------------------------- MODULE CallManagerProofs -------------------------
(***************************************************************************)
(* Safety of the call control for every set of dialling tasks, every set   *)
(* of numbers and every length of the receive buffer.                      *)
(***************************************************************************)
EXTENDS CallManager, TLAPS

(***************************************************************************)
(* The steps of the tasks and of their surroundings preserve the type      *)
(* invariant.  The lemmas below treat one group of actions each.           *)
(***************************************************************************)
LEMMA TypeInit == Init => TypeOK
  <1> SUFFICES ASSUME Init PROVE TypeOK
    OBVIOUS
  <1>1. urcs \in Seq(UrcLines) /\ Len(urcs) <= MaxUrcs
    <2>1. urcs = <<>>
      BY DEF Init
    <2>2. <<>> \in Seq(UrcLines) /\ Len(<<>>) = 0
      OBVIOUS
    <2> QED
      BY <2>1, <2>2, UrcBound DEF UrcBound
  <1>2. \A t \in Tasks : job[t] \in JobsAt(pc[t])
    BY DEF Init, JobsAt
  <1> QED
    BY <1>1, <1>2 DEF Init, TypeOK, CallStates, Callers, Jobs, Places

\* The places and jobs after one task has moved.
LEMMA MoveType ==
  ASSUME TypeOK, NEW t \in Tasks, NEW j \in Jobs, NEW p \in Places,
         j \in JobsAt(p), j \in {"incoming", "ended"} => t = "rx",
         Begin(t, j, p)
  PROVE  /\ job' \in [Tasks -> Jobs]
         /\ pc' \in [Tasks -> Places]
         /\ \A u \in Tasks : job'[u] \in JobsAt(pc'[u])
         /\ \A u \in Tasks : job'[u] \in {"incoming", "ended"} => u = "rx"
  BY DEF TypeOK, Begin

LEMMA GotoType ==
  ASSUME TypeOK, NEW t \in Tasks, NEW p \in Places,
         job[t] \in JobsAt(p), Goto(t, p)
  PROVE  /\ job' \in [Tasks -> Jobs]
         /\ pc' \in [Tasks -> Places]
         /\ \A u \in Tasks : job'[u] \in JobsAt(pc'[u])
         /\ \A u \in Tasks : job'[u] \in {"incoming", "ended"} => u = "rx"
  BY DEF TypeOK, Goto

LEMMA ReturnType ==
  ASSUME TypeOK, NEW t \in Tasks, Return(t)
  PROVE  /\ job' \in [Tasks -> Jobs]
         /\ pc' \in [Tasks -> Places]
         /\ \A u \in Tasks : job'[u] \in JobsAt(pc'[u])
         /\ \A u \in Tasks : job'[u] \in {"incoming", "ended"} => u = "rx"
  <1>1. Begin(t, "none", "idle")
    BY DEF Return
  <1>2. "none" \in JobsAt("idle") /\ "none" \in Jobs /\ "idle" \in Places
    BY DEF JobsAt, Jobs, Places
  <1> QED
    BY <1>1, <1>2, MoveType

\* The type invariant by parts, each of them preserved by itself.
CallOK ==
  /\ state \in CallStates
  /\ number \in Callers
  /\ timerActive \in BOOLEAN
  /\ autoHangupEvent \in BOOLEAN

AudioOK ==
  /\ ring \in BOOLEAN
  /\ inCall \in BOOLEAN
  /\ pa \in BOOLEAN
  /\ route \in {"4G", "DAC"}

AtOK ==
  /\ atMutex \in Tasks \cup {"free"}
  /\ atCommand \in {"", "ATA", "ATH", "ATD", "+++"}
  /\ parser \in Tasks \cup {"free", "fsm"}

LineOK ==
  /\ handle \in BOOLEAN
  /\ line \in {"none", "alerting", "active", "outgoing"}
  /\ peer \in Callers

UrcsOK ==
  /\ urcs \in Seq(UrcLines)
  /\ Len(urcs) <= MaxUrcs

TasksOK ==
  /\ job \in [Tasks -> Jobs]
  /\ pc \in [Tasks -> Places]
  /\ \A t \in Tasks : job[t] \in JobsAt(pc[t])
  /\ \A t \in Tasks : job[t] \in {"incoming", "ended"} => t = "rx"

LEMMA TypeSplit ==
  TypeOK <=> CallOK /\ AudioOK /\ AtOK /\ LineOK /\ UrcsOK /\ TasksOK
  BY DEF TypeOK, CallOK, AudioOK, AtOK, LineOK, UrcsOK, TasksOK

LEMMA UrcEmpty == <<>> \in Seq(UrcLines) /\ Len(<<>>) <= MaxUrcs
  BY UrcBound DEF UrcBound

\* Reading and adding unsolicited lines keeps the buffer typed and bounded.
LEMMA UrcTail ==
  ASSUME urcs \in Seq(UrcLines), Len(urcs) <= MaxUrcs, urcs # <<>>
  PROVE  /\ Tail(urcs) \in Seq(UrcLines)
         /\ Len(Tail(urcs)) <= MaxUrcs
         /\ Head(urcs) \in UrcLines
  BY UrcBound DEF UrcBound

LEMMA UrcAppend ==
  ASSUME urcs \in Seq(UrcLines), Len(urcs) < MaxUrcs, NEW u \in UrcLines
  PROVE  /\ Append(urcs, u) \in Seq(UrcLines)
         /\ Len(Append(urcs, u)) <= MaxUrcs
  BY UrcBound DEF UrcBound

LEMMA UrcLineTypes ==
  /\ NoCarrier \in UrcLines
  /\ ClccMO \in UrcLines
  /\ \A n \in Callers : ClccMT(n) \in UrcLines
  /\ \A u \in UrcLines : u.from \in Callers
  <1>1. NoCarrier.from = Hidden /\ ClccMO.from = Hidden /\ Hidden \in Callers
    BY DEF NoCarrier, ClccMO, Callers
  <1>2. \A n \in Callers : ClccMT(n).from = n
    BY DEF ClccMT
  <1> QED
    BY <1>1, <1>2 DEF UrcLines

-----------------------------------------------------------------------------
(* UrcsOK: one step per action that touches the receive buffer.            *)

LEMMA ExecuteUrcs ==
  ASSUME UrcsOK, NEW c, Execute(c)
  PROVE  UrcsOK'
  <1>1. CASE UNCHANGED urcs
    BY <1>1 DEF UrcsOK
  <1>2. CASE \E u \in UrcLines : Len(urcs) < MaxUrcs /\ urcs' = Append(urcs, u)
    BY <1>2, UrcAppend DEF UrcsOK
  <1> QED
    BY <1>1, <1>2, UrcLineTypes DEF Execute

LEMMA UrcsStep ==
  ASSUME LineOK, UrcsOK, [Next]_vars
  PROVE  UrcsOK'
  <1>1. CASE UNCHANGED urcs
    BY <1>1 DEF UrcsOK
  <1>2. CASE urcs # <<>> /\ urcs' = Tail(urcs)
    BY <1>2, UrcTail DEF UrcsOK
  <1>3. CASE \E u \in UrcLines : Len(urcs) < MaxUrcs /\ urcs' = Append(urcs, u)
    BY <1>3, UrcAppend DEF UrcsOK
  <1>4. CASE urcs' = <<>>
    BY <1>4, UrcEmpty DEF UrcsOK
  <1>5. CASE \E c : Execute(c)
    BY <1>5, ExecuteUrcs
  <1>6. CASE \E t \in Tasks : Step(t) \/ TakeAtMutex(t) \/ at_make_phone_call(t)
    BY <1>6, <1>1, <1>5
    DEF Step, TakeAtMutex, at_make_phone_call, RingStopped, AmpOff,
        SwitchRoute, AmpOnAnswer, AmpOnExchange, AmpOnEnded, SendCommand,
        Reply, modemVars
  <1>7. CASE Keys \/ Announce \/ ArmHangupTimer \/ auto_hangup_timer_callback
             \/ call_manager_process_events \/ LinkTaskDone
    BY <1>7, <1>1
    DEF Keys, PressAnswer, PressReject, PressHangup, Announce, ArmHangupTimer,
        auto_hangup_timer_callback, call_manager_process_events, LinkTaskDone,
        modemVars
  <1>8. CASE Urc
    BY <1>8, <1>2
    DEF Urc, SwallowUrc, UrcNoCarrier, UrcOutgoing, UrcIncoming, UrcReady
  <1>9. CASE Environment
    <2>1. CASE \E n \in Callers : IncomingCall(n)
      BY <2>1, <1>3, UrcLineTypes DEF IncomingCall
    <2>2. CASE ReportCall
      <3>1. (IF line = "outgoing" THEN ClccMO ELSE ClccMT(peer)) \in UrcLines
        BY UrcLineTypes DEF LineOK
      <3> QED
        BY <2>2, <3>1, <1>3 DEF ReportCall
    <2>3. CASE RemoteHangup
      BY <2>3, <1>3, UrcLineTypes DEF RemoteHangup
    <2>4. CASE ModemLost
      BY <2>4, <1>4 DEF ModemLost
    <2>5. CASE ModemBack \/ LinkTaskSends
      BY <2>5, <1>1 DEF ModemBack, LinkTaskSends, modemVars
    <2> QED
      BY <1>9, <2>1, <2>2, <2>3, <2>4, <2>5 DEF Environment
  <1>10. CASE UNCHANGED vars
    BY <1>10, <1>1 DEF vars, modemVars
  <1> QED
    BY <1>6, <1>7, <1>8, <1>9, <1>10 DEF Next

-----------------------------------------------------------------------------
(* CallOK, AudioOK, AtOK and LineOK: one step per action that touches the  *)
(* part, and one that says that no other does.                             *)

\* The number the URC handler stores is one that callers have.
LEMMA HeadFrom ==
  ASSUME UrcsOK, urcs # <<>>
  PROVE  Head(urcs).from \in Callers
  BY UrcTail, UrcLineTypes DEF UrcsOK

LEMMA HiddenCaller == Hidden \in Callers
  BY DEF Callers

LEMMA CallStep ==
  ASSUME UrcsOK, CallOK, [Next]_vars
  PROVE  CallOK'
  <1>0. CASE UNCHANGED callVars
    BY <1>0 DEF CallOK, callVars
  <1>1. CASE \E t \in Tasks : RingStopped(t)
    BY <1>1, HiddenCaller
    DEF CallOK, CallStates, RingStopped, ClearCall, StopTimer, callVars
  <1>2. CASE \E t \in Tasks : AmpOnAnswer(t)
    BY <1>2 DEF CallOK, CallStates, AmpOnAnswer, StopTimer
  <1>3. CASE \E t \in Tasks : \E ok \in BOOLEAN : Reply(t, ok)
    BY <1>3, HiddenCaller
    DEF CallOK, CallStates, Reply, ClearCall, StopTimer, callVars
  <1>4. CASE UrcIncoming
    BY <1>4, HeadFrom DEF CallOK, CallStates, UrcIncoming, UrcReady
  <1>5. CASE ArmHangupTimer
    BY <1>5 DEF CallOK, ArmHangupTimer
  <1>6. CASE auto_hangup_timer_callback
    BY <1>6 DEF CallOK, CallStates, auto_hangup_timer_callback
  <1>7. CASE call_manager_process_events
    BY <1>7 DEF CallOK, call_manager_process_events
  <1>8. Next =>
           \/ \E t \in Tasks : RingStopped(t)
           \/ \E t \in Tasks : AmpOnAnswer(t)
           \/ \E t \in Tasks : \E ok \in BOOLEAN : Reply(t, ok)
           \/ UrcIncoming
           \/ ArmHangupTimer
           \/ auto_hangup_timer_callback
           \/ call_manager_process_events
           \/ UNCHANGED callVars
    BY DEF Next, Step, TakeAtMutex, at_make_phone_call, AmpOff, SwitchRoute,
           AmpOnExchange, AmpOnEnded, SendCommand, Keys, PressAnswer,
           PressReject, PressHangup, Urc, SwallowUrc, UrcNoCarrier,
           UrcOutgoing, Announce, Environment, IncomingCall, ReportCall,
           RemoteHangup, ModemLost, ModemBack, LinkTaskSends, LinkTaskDone
  <1> QED
    BY <1>0, <1>1, <1>2, <1>3, <1>4, <1>5, <1>6, <1>7, <1>8 DEF vars, callVars

LEMMA AudioStep ==
  ASSUME AudioOK, [Next]_vars
  PROVE  AudioOK'
  <1>0. CASE UNCHANGED <<ring, audioVars>>
    BY <1>0 DEF AudioOK, audioVars
  <1>1. CASE PressAnswer \/ PressReject
    BY <1>1 DEF AudioOK, PressAnswer, PressReject, stop_ringtone_task,
                audioVars
  <1>2. CASE \E t \in Tasks : AmpOff(t) \/ SwitchRoute(t)
    BY <1>2 DEF AudioOK, AmpOff, SwitchRoute
  <1>3. CASE \E t \in Tasks : AmpOnAnswer(t) \/ AmpOnExchange(t)
    BY <1>3 DEF AudioOK, AmpOnAnswer, AmpOnExchange
  <1>4. CASE \E t \in Tasks : AmpOnEnded(t)
    BY <1>4 DEF AudioOK, AmpOnEnded, stop_ringtone_task
  <1>5. CASE UrcOutgoing
    BY <1>5 DEF AudioOK, UrcOutgoing
  <1>6. CASE Announce \/ ArmHangupTimer
    BY <1>6 DEF AudioOK, Announce, ArmHangupTimer, stop_ringtone_task,
                audioVars
  <1>7. Next =>
           \/ PressAnswer \/ PressReject
           \/ \E t \in Tasks : AmpOff(t) \/ SwitchRoute(t)
           \/ \E t \in Tasks : AmpOnAnswer(t) \/ AmpOnExchange(t)
           \/ \E t \in Tasks : AmpOnEnded(t)
           \/ UrcOutgoing
           \/ Announce \/ ArmHangupTimer
           \/ UNCHANGED <<ring, audioVars>>
    BY DEF Next, Step, TakeAtMutex, at_make_phone_call, RingStopped,
           SendCommand, Reply, Keys, PressHangup, Urc, SwallowUrc,
           UrcNoCarrier, UrcIncoming, auto_hangup_timer_callback,
           call_manager_process_events, Environment, IncomingCall, ReportCall,
           RemoteHangup, ModemLost, ModemBack, LinkTaskSends, LinkTaskDone
  <1> QED
    BY <1>0, <1>1, <1>2, <1>3, <1>4, <1>5, <1>6, <1>7 DEF vars, audioVars

LEMMA AtStep ==
  ASSUME AtOK, [Next]_vars
  PROVE  AtOK'
  <1>0. CASE UNCHANGED atVars
    BY <1>0 DEF AtOK, atVars
  <1>1. CASE \E t \in Tasks : TakeAtMutex(t)
    BY <1>1 DEF AtOK, TakeAtMutex
  <1>2. CASE \E t \in Tasks : SendCommand(t)
    BY <1>2 DEF AtOK, SendCommand, TakeParser, GiveAtMutex, Command, atVars
  <1>3. CASE \E t \in Tasks : \E ok \in BOOLEAN : Reply(t, ok)
    BY <1>3 DEF AtOK, Reply, GiveAtMutex
  <1>4. CASE LinkTaskSends \/ LinkTaskDone
    BY <1>4 DEF AtOK, LinkTaskSends, LinkTaskDone
  <1>5. Next =>
           \/ \E t \in Tasks : TakeAtMutex(t)
           \/ \E t \in Tasks : SendCommand(t)
           \/ \E t \in Tasks : \E ok \in BOOLEAN : Reply(t, ok)
           \/ LinkTaskSends \/ LinkTaskDone
           \/ UNCHANGED atVars
    BY DEF Next, Step, at_make_phone_call, RingStopped, AmpOff, SwitchRoute,
           AmpOnAnswer, AmpOnExchange, AmpOnEnded, Keys, PressAnswer,
           PressReject, PressHangup, Urc, SwallowUrc, UrcNoCarrier,
           UrcOutgoing, UrcIncoming, Announce, ArmHangupTimer,
           auto_hangup_timer_callback, call_manager_process_events,
           Environment, IncomingCall, ReportCall, RemoteHangup, ModemLost,
           ModemBack
  <1> QED
    BY <1>0, <1>1, <1>2, <1>3, <1>4, <1>5 DEF vars, atVars

LEMMA LineStep ==
  ASSUME LineOK, [Next]_vars
  PROVE  LineOK'
  <1>0. CASE UNCHANGED <<handle, line, peer>>
    BY <1>0 DEF LineOK
  <1>1. CASE \E t \in Tasks : \E ok \in BOOLEAN : Reply(t, ok)
    BY <1>1, HiddenCaller DEF LineOK, Reply, Execute
  <1>2. CASE \E n \in Callers : IncomingCall(n)
    BY <1>2 DEF LineOK, IncomingCall
  <1>3. CASE RemoteHangup \/ ModemLost \/ ModemBack
    BY <1>3, HiddenCaller DEF LineOK, RemoteHangup, ModemLost, ModemBack
  <1>4. Next =>
           \/ \E t \in Tasks : \E ok \in BOOLEAN : Reply(t, ok)
           \/ \E n \in Callers : IncomingCall(n)
           \/ RemoteHangup \/ ModemLost \/ ModemBack
           \/ UNCHANGED <<handle, line, peer>>
    BY DEF Next, Step, TakeAtMutex, at_make_phone_call, RingStopped, AmpOff,
           SwitchRoute, AmpOnAnswer, AmpOnExchange, AmpOnEnded, SendCommand,
           Keys, PressAnswer, PressReject, PressHangup, Urc, SwallowUrc,
           UrcNoCarrier, UrcOutgoing, UrcIncoming, Announce, ArmHangupTimer,
           auto_hangup_timer_callback, call_manager_process_events,
           Environment, ReportCall, LinkTaskSends, LinkTaskDone, modemVars
  <1> QED
    BY <1>0, <1>1, <1>2, <1>3, <1>4 DEF vars, modemVars

-----------------------------------------------------------------------------
(* TasksOK: one step per action that moves a task.                         *)

LEMMA TasksStep ==
  ASSUME TypeOK, [Next]_vars
  PROVE  TasksOK'
  <1> USE DEF TasksOK
  <1>0. /\ "rx" \in Tasks /\ "btn" \in Tasks
        /\ \A t \in Tasks : job[t] \in Jobs /\ job[t] \in JobsAt(pc[t])
        /\ \A t \in Tasks : job[t] \in {"incoming", "ended"} => t = "rx"
    BY DEF TypeOK, Tasks
  <1>1. ASSUME NEW t \in Tasks,
               Step(t) \/ TakeAtMutex(t) \/ at_make_phone_call(t)
        PROVE  TasksOK'
    <2>1. CASE TakeAtMutex(t)
      <3>1. job[t] \in {"answer", "reject", "hangup", "dial"}
        BY <2>1, <1>0 DEF TakeAtMutex, At, JobsAt
      <3> QED
        BY <2>1, <3>1, GotoType DEF TakeAtMutex, JobsAt, Places
    <2>2. CASE at_make_phone_call(t)
      BY <2>2, MoveType DEF at_make_phone_call, JobsAt, Places, Jobs
    <2>3. CASE RingStopped(t)
      <3>1. CASE Return(t)
        BY <3>1, ReturnType
      <3>2. CASE Goto(t, "take") /\ job[t] \in {"answer", "reject"}
        BY <3>2, GotoType DEF JobsAt, Places
      <3> QED
        BY <2>3, <3>1, <3>2 DEF RingStopped
    <2>4. CASE AmpOff(t)
      <3>1. job[t] \in JobsAt("route")
        BY <2>4, <1>0 DEF AmpOff, At, JobsAt
      <3> QED
        BY <2>4, <3>1, GotoType DEF AmpOff, Places
    <2>5. CASE SwitchRoute(t)
      <3>1. job[t] \in JobsAt("ampOn")
        BY <2>5, <1>0 DEF SwitchRoute, At, JobsAt
      <3> QED
        BY <2>5, <3>1, GotoType DEF SwitchRoute, Places
    <2>6. CASE AmpOnAnswer(t)
      BY <2>6, ReturnType DEF AmpOnAnswer
    <2>7. CASE AmpOnExchange(t)
      BY <2>7, GotoType DEF AmpOnExchange, JobsAt, Places
    <2>8. CASE AmpOnEnded(t)
      <3>1. CASE Return(t)
        BY <3>1, ReturnType
      <3>2. CASE Goto(t, "stopped") /\ job[t] = "ended"
        BY <3>2, GotoType DEF JobsAt, Places
      <3> QED
        BY <2>8, <3>1, <3>2 DEF AmpOnEnded
    <2>9. CASE SendCommand(t)
      <3>1. job[t] \in {"answer", "reject", "hangup", "dial"}
        BY <2>9, <1>0 DEF SendCommand, At, JobsAt
      <3>2. CASE Return(t)
        BY <3>2, ReturnType
      <3>3. CASE Goto(t, "reply") \/ Goto(t, "send")
        BY <3>1, <3>3, GotoType DEF JobsAt, Places
      <3> QED
        BY <2>9, <3>2, <3>3 DEF SendCommand, TakeParser
    <2>10. CASE \E ok \in BOOLEAN : Reply(t, ok)
      <3>1. job[t] \in {"answer", "reject", "hangup", "dial"}
        BY <2>10, <1>0 DEF Reply, At, JobsAt
      <3>2. CASE Return(t)
        BY <3>2, ReturnType
      <3>3. CASE Goto(t, "send")
        BY <3>1, <3>3, GotoType DEF JobsAt, Places
      <3>4. CASE Goto(t, "ampOff") /\ job[t] = "answer"
        BY <3>4, GotoType DEF JobsAt, Places
      <3> QED
        BY <2>10, <3>2, <3>3, <3>4 DEF Reply
    <2> QED
      BY <1>1, <2>1, <2>2, <2>3, <2>4, <2>5, <2>6, <2>7, <2>8, <2>9, <2>10
      DEF Step
  <1>2. CASE Keys
    BY <1>2, <1>0, MoveType
    DEF Keys, PressAnswer, PressReject, PressHangup, JobsAt, Places, Jobs
  <1>3. CASE UrcNoCarrier
    BY <1>3, <1>0, MoveType DEF UrcNoCarrier, JobsAt, Places, Jobs
  <1>4. CASE UrcIncoming
    <2>1. CASE Begin("rx", "incoming", "announce")
      BY <2>1, <1>0, MoveType DEF JobsAt, Places, Jobs
    <2>2. CASE UNCHANGED taskVars
      BY <2>2 DEF taskVars, TypeOK
    <2> QED
      BY <1>4, <2>1, <2>2 DEF UrcIncoming
  <1>5. CASE Announce
    <2>1. job["rx"] \in JobsAt("arm")
      BY <1>5, <1>0 DEF Announce, At, JobsAt
    <2> QED
      BY <1>5, <1>0, <2>1, GotoType DEF Announce, Places
  <1>6. CASE ArmHangupTimer
    <2>1. job["rx"] \in JobsAt("stopped")
      BY <1>6, <1>0 DEF ArmHangupTimer, At, JobsAt
    <2> QED
      BY <1>6, <1>0, <2>1, GotoType, ReturnType DEF ArmHangupTimer, Places
  <1>7. CASE UNCHANGED taskVars
    BY <1>7 DEF taskVars, TypeOK
  <1>8. Next => \/ \E t \in Tasks : Step(t) \/ TakeAtMutex(t)
                                     \/ at_make_phone_call(t)
                \/ Keys \/ UrcNoCarrier \/ UrcIncoming \/ Announce
                \/ ArmHangupTimer \/ UNCHANGED taskVars
    BY DEF Next, Urc, SwallowUrc, UrcOutgoing, auto_hangup_timer_callback,
           call_manager_process_events, Environment, IncomingCall, ReportCall,
           RemoteHangup, ModemLost, ModemBack, LinkTaskSends, LinkTaskDone
  <1>9. UNCHANGED vars => UNCHANGED taskVars
    BY DEF vars
  <1> QED
    BY <1>1, <1>2, <1>3, <1>4, <1>5, <1>6, <1>7, <1>8, <1>9

\* g_current_call, the audio flags, the AT exchange and the tasks' places stay
\* within their types, for any tasks, numbers and buffer length.
THEOREM TypeCorrect == Spec => []TypeOK
  <1>1. Init => TypeOK
    BY TypeInit
  <1>2. TypeOK /\ [Next]_vars => TypeOK'
    <2> SUFFICES ASSUME TypeOK, [Next]_vars PROVE TypeOK'
      OBVIOUS
    <2>1. CallOK' /\ AudioOK' /\ AtOK' /\ LineOK' /\ UrcsOK'
      BY TypeSplit, CallStep, AudioStep, AtStep, LineStep, UrcsStep
    <2>2. TasksOK'
      BY TasksStep
    <2> QED
      BY <2>1, <2>2
      DEF TypeOK, CallOK, AudioOK, AtOK, LineOK, UrcsOK, TasksOK
  <1> QED
    BY <1>1, <1>2, PTL DEF Spec

-----------------------------------------------------------------------------
(* The AT exchange.                                                        *)

\* ExchangeIsExclusive is not inductive: that a task takes the parser only
\* while it holds g_at_mutex needs the two places before.
HolderOK ==
  \A t \in Tasks : pc[t] \in {"escape", "send", "reply"} => atMutex = t

ExchangeInv == TypeOK /\ HolderOK /\ ExchangeIsExclusive

LEMMA NoSuchTasks == "free" \notin Tasks /\ "fsm" \notin Tasks
  BY TasksDistinct DEF TasksDistinct, Tasks

\* The actions that neither move a task nor touch the AT buffers, and those
\* that move a task between places outside the exchange.
Outside(t) ==
  /\ UNCHANGED atVars
  /\ pc[t] \notin {"escape", "send", "reply"}
  /\ pc'[t] \notin {"escape", "send", "reply"}
  /\ \A u \in Tasks \ {t} : pc'[u] = pc[u] /\ job'[u] = job[u]

LEMMA MoveOutside ==
  ASSUME TypeOK, NEW t \in Tasks, NEW j \in Jobs, NEW p \in Places,
         Begin(t, j, p) \/ Goto(t, p) \/ Return(t),
         pc[t] \notin {"escape", "send", "reply"},
         p \notin {"escape", "send", "reply"},
         UNCHANGED atVars
  PROVE  Outside(t)
  BY DEF TypeOK, Begin, Goto, Return, Outside

LEMMA OutsideKeeps ==
  ASSUME ExchangeInv, NEW t \in Tasks, Outside(t)
  PROVE  HolderOK' /\ ExchangeIsExclusive'
  BY DEF ExchangeInv, HolderOK, ExchangeIsExclusive, Outside, atVars, At,
         Command

LEMMA ExchangeStep ==
  ASSUME ExchangeInv, [Next]_vars
  PROVE  HolderOK' /\ ExchangeIsExclusive'
  <1>0. /\ TypeOK
        /\ "rx" \in Tasks /\ "btn" \in Tasks
        /\ \A t \in Tasks : pc[t] \in Places /\ job[t] \in Jobs
    BY DEF ExchangeInv, TypeOK, Tasks
  <1>1. ASSUME NEW t \in Tasks, TakeAtMutex(t)
        PROVE  HolderOK' /\ ExchangeIsExclusive'
    BY <1>1, <1>0, NoSuchTasks
    DEF ExchangeInv, HolderOK, ExchangeIsExclusive, TakeAtMutex, At, Goto,
        TypeOK
  <1>2. ASSUME NEW t \in Tasks, SendCommand(t)
        PROVE  HolderOK' /\ ExchangeIsExclusive'
    <2>1. /\ atMutex = t
          /\ \A u \in Tasks \ {t} : pc[u] \notin {"escape", "send", "reply"}
      BY <1>2 DEF SendCommand, At, ExchangeInv, HolderOK
    <2>2. /\ pc' \in [Tasks -> Places]
          /\ \A u \in Tasks \ {t} : pc'[u] = pc[u]
      BY <1>2, <1>0 DEF SendCommand, TakeParser, Goto, Return, Begin, TypeOK,
                        Places
    <2>3. CASE TakeParser(t) /\ atCommand' \in {"+++", Command(job[t])}
      <3>1. pc'[t] = "reply" /\ job' = job
        BY <2>3, <1>0 DEF TakeParser, Goto, TypeOK
      <3>2. parser' = t /\ atMutex' = atMutex
        BY <2>3 DEF TakeParser
      <3> QED
        BY <2>1, <2>2, <2>3, <3>1, <3>2
        DEF HolderOK, ExchangeIsExclusive, At
    <2>4. CASE Goto(t, "send") /\ UNCHANGED atMutex
      <3>1. pc'[t] = "send"
        BY <2>4, <1>0 DEF Goto, TypeOK
      <3> QED
        BY <2>1, <2>2, <2>4, <3>1 DEF HolderOK, ExchangeIsExclusive, At
    <2>5. CASE Return(t)
      <3>1. pc'[t] = "idle"
        BY <2>5, <1>0 DEF Return, Begin, TypeOK
      <3> QED
        BY <2>1, <2>2, <3>1 DEF HolderOK, ExchangeIsExclusive, At
    <2> QED
      BY <1>2, <2>3, <2>4, <2>5 DEF SendCommand, atVars
  <1>3. ASSUME NEW t \in Tasks, NEW ok \in BOOLEAN, Reply(t, ok)
        PROVE  HolderOK' /\ ExchangeIsExclusive'
    <2>1. /\ atMutex = t
          /\ \A u \in Tasks \ {t} : pc[u] \notin {"escape", "send", "reply"}
      BY <1>3 DEF Reply, At, ExchangeInv, HolderOK
    <2>2. CASE Goto(t, "send") /\ UNCHANGED atMutex
      BY <2>1, <2>2, <1>0
      DEF Goto, TypeOK, HolderOK, ExchangeIsExclusive, At
    <2>3. CASE Goto(t, "ampOff")
      BY <2>1, <2>3, <1>0
      DEF Goto, TypeOK, HolderOK, ExchangeIsExclusive, At
    <2>4. CASE Return(t)
      BY <2>1, <2>4, <1>0
      DEF Return, Begin, TypeOK, HolderOK, ExchangeIsExclusive, At
    <2> QED
      BY <1>3, <2>2, <2>3, <2>4 DEF Reply
  <1>4. ASSUME NEW t \in Tasks, Outside(t)
        PROVE  HolderOK' /\ ExchangeIsExclusive'
    BY <1>4, OutsideKeeps
  <1>5. ASSUME NEW t \in Tasks,
               \/ at_make_phone_call(t) \/ RingStopped(t) \/ AmpOff(t)
               \/ SwitchRoute(t) \/ AmpOnAnswer(t) \/ AmpOnExchange(t)
               \/ AmpOnEnded(t)
        PROVE  Outside(t)
    <2>1. /\ pc[t] \notin {"escape", "send", "reply"}
          /\ UNCHANGED atVars
      BY <1>5 DEF at_make_phone_call, RingStopped, AmpOff, SwitchRoute,
                  AmpOnAnswer, AmpOnExchange, AmpOnEnded, At, Idle
    <2>2. \/ Begin(t, "dial", "ampOff") \/ Return(t) \/ Goto(t, "take")
          \/ Goto(t, "route") \/ Goto(t, "ampOn") \/ Goto(t, "stopped")
      BY <1>5 DEF at_make_phone_call, RingStopped, AmpOff, SwitchRoute,
                  AmpOnAnswer, AmpOnExchange, AmpOnEnded
    <2> QED
      BY <2>1, <2>2, <1>0, MoveOutside DEF Jobs, Places
  <1>6. Keys => Outside("btn")
    <2> SUFFICES ASSUME Keys PROVE Outside("btn")
      OBVIOUS
    <2>1. /\ pc["btn"] \notin {"escape", "send", "reply"}
          /\ UNCHANGED atVars
          /\ \/ Begin("btn", "answer", "stopped")
             \/ Begin("btn", "reject", "stopped")
             \/ Begin("btn", "hangup", "ampOff")
      BY DEF Keys, PressAnswer, PressReject, PressHangup, Idle
    <2> QED
      BY <2>1, <1>0, MoveOutside DEF Jobs, Places
  <1>7. UrcNoCarrier \/ UrcIncoming \/ Announce \/ ArmHangupTimer
          => Outside("rx") \/ UNCHANGED <<atVars, taskVars>>
    <2> SUFFICES ASSUME UrcNoCarrier \/ UrcIncoming \/ Announce
                          \/ ArmHangupTimer
                 PROVE  Outside("rx") \/ UNCHANGED <<atVars, taskVars>>
      OBVIOUS
    <2>1. pc["rx"] \notin {"escape", "send", "reply"} /\ UNCHANGED atVars
      BY DEF UrcNoCarrier, UrcIncoming, Announce, ArmHangupTimer, UrcReady,
             Idle, At
    <2>2. \/ Begin("rx", "ended", "ampOff")
          \/ Begin("rx", "incoming", "announce")
          \/ Goto("rx", "arm") \/ Goto("rx", "stopped") \/ Return("rx")
          \/ UNCHANGED taskVars
      BY DEF UrcNoCarrier, UrcIncoming, Announce, ArmHangupTimer
    <2> QED
      BY <2>1, <2>2, <1>0, MoveOutside DEF Jobs, Places
  <1>8. ASSUME UNCHANGED <<atVars, taskVars>>
        PROVE  HolderOK' /\ ExchangeIsExclusive'
    BY <1>8 DEF ExchangeInv, HolderOK, ExchangeIsExclusive, atVars, taskVars, At
  <1>9. ASSUME LinkTaskSends \/ LinkTaskDone
        PROVE  HolderOK' /\ ExchangeIsExclusive'
    BY <1>9, NoSuchTasks
    DEF LinkTaskSends, LinkTaskDone, ExchangeInv, HolderOK,
        ExchangeIsExclusive, taskVars, At
  <1>10. Next =>
            \/ \E t \in Tasks :
                 \/ TakeAtMutex(t) \/ SendCommand(t)
                 \/ \E ok \in BOOLEAN : Reply(t, ok)
                 \/ at_make_phone_call(t) \/ RingStopped(t) \/ AmpOff(t)
                 \/ SwitchRoute(t) \/ AmpOnAnswer(t) \/ AmpOnExchange(t)
                 \/ AmpOnEnded(t)
            \/ Keys
            \/ UrcNoCarrier \/ UrcIncoming \/ Announce \/ ArmHangupTimer
            \/ LinkTaskSends \/ LinkTaskDone
            \/ UNCHANGED <<atVars, taskVars>>
    BY DEF Next, Step, Urc, SwallowUrc, UrcOutgoing, Environment,
           auto_hangup_timer_callback, call_manager_process_events,
           IncomingCall, ReportCall, RemoteHangup, ModemLost, ModemBack
  <1> QED
    BY <1>0, <1>1, <1>2, <1>3, <1>4, <1>5, <1>6, <1>7, <1>8, <1>9, <1>10
    DEF vars

\* Two call-control functions never share the AT buffers: whoever waits for an
\* answer holds g_at_mutex and the parser and finds its own command.
THEOREM Exclusive == Spec => []ExchangeIsExclusive
  <1>1. Init => HolderOK /\ ExchangeIsExclusive
    BY DEF Init, HolderOK, ExchangeIsExclusive, At
  <1>2. TypeOK /\ HolderOK /\ ExchangeIsExclusive /\ [Next]_vars
          => HolderOK' /\ ExchangeIsExclusive'
    BY ExchangeStep DEF ExchangeInv
  <1> QED
    BY <1>1, <1>2, TypeCorrect, PTL DEF Spec

-----------------------------------------------------------------------------
(* Incoming calls.                                                         *)

\* The phone never rings for a number the platform's rules do not let through.
THEOREM Listed == Spec => []RingingIsListed
  <1>1. Init => RingingIsListed
    BY DEF Init, RingingIsListed
  <1>2. RingingIsListed /\ [Next]_vars => RingingIsListed'
    <2> SUFFICES ASSUME RingingIsListed, [Next]_vars PROVE RingingIsListed'
      OBVIOUS
    <2>1. CASE UNCHANGED <<state, number>>
      BY <2>1 DEF RingingIsListed
    <2>2. CASE state' # "RINGING"
      BY <2>2 DEF RingingIsListed
    <2>3. CASE UrcIncoming
      BY <2>3 DEF RingingIsListed, UrcIncoming
    <2>4. Next => \/ UNCHANGED <<state, number>>
                  \/ state' # "RINGING"
                  \/ UrcIncoming
      BY DEF Next, Step, TakeAtMutex, at_make_phone_call, RingStopped, AmpOff,
             SwitchRoute, AmpOnAnswer, AmpOnExchange, AmpOnEnded, SendCommand,
             Reply, ClearCall, Keys, PressAnswer, PressReject, PressHangup,
             Urc, SwallowUrc, UrcNoCarrier, UrcOutgoing, Announce,
             ArmHangupTimer, auto_hangup_timer_callback,
             call_manager_process_events, Environment, IncomingCall,
             ReportCall, RemoteHangup, ModemLost, ModemBack, LinkTaskSends,
             LinkTaskDone, callVars
    <2> QED
      BY <2>1, <2>2, <2>3, <2>4 DEF vars, callVars
  <1> QED
    BY <1>1, <1>2, PTL DEF Spec

\* Steps that leave the state and the timer alone and do not take the receive
\* task away from call_manager_handle_incoming_call.
LEMMA TimedKeeps ==
  ASSUME RingingIsTimed, UNCHANGED <<state, timerActive>>,
         \/ pc'["rx"] = pc["rx"] /\ job'["rx"] = job["rx"]
         \/ pc["rx"] \notin {"announce", "arm", "stopped"}
         \/ pc["rx"] = "stopped" /\ job["rx"] # "incoming"
  PROVE  RingingIsTimed'
  BY DEF RingingIsTimed

LEMMA TimedStep ==
  ASSUME TypeOK, RingingIsTimed, [Next]_vars
  PROVE  RingingIsTimed'
  <1>0. /\ "rx" \in Tasks /\ "btn" \in Tasks /\ "rx" # "btn"
        /\ job \in [Tasks -> Jobs] /\ pc \in [Tasks -> Places]
    BY DEF TypeOK, Tasks
  <1>1. CASE state' # "RINGING" \/ timerActive'
    BY <1>1 DEF RingingIsTimed
  <1>2. CASE UNCHANGED <<callVars, taskVars>>
    BY <1>2, TimedKeeps DEF callVars, taskVars
  <1>3. ASSUME NEW t \in Tasks,
               Step(t) \/ TakeAtMutex(t) \/ at_make_phone_call(t)
        PROVE  RingingIsTimed'
    <2>1. CASE UNCHANGED callVars
      <3>1. pc[t] \notin {"announce", "arm"}
        BY <1>3 DEF Step, TakeAtMutex, at_make_phone_call, RingStopped,
                    AmpOff, SwitchRoute, AmpOnAnswer, AmpOnExchange,
                    AmpOnEnded, SendCommand, Reply, At, Idle
      <3>2. pc[t] = "stopped" /\ job[t] = "incoming" => state' = "IDLE"
        BY <1>3 DEF Step, TakeAtMutex, at_make_phone_call, RingStopped,
                    AmpOff, SwitchRoute, AmpOnAnswer, AmpOnExchange,
                    AmpOnEnded, SendCommand, Reply, At, Idle
      <3>3. \A u \in Tasks \ {t} : pc'[u] = pc[u] /\ job'[u] = job[u]
        BY <1>3, <1>0
        DEF Step, TakeAtMutex, at_make_phone_call, RingStopped, AmpOff,
            SwitchRoute, AmpOnAnswer, AmpOnExchange, AmpOnEnded, SendCommand,
            TakeParser, Reply, Goto, Return, Begin
      <3> QED
        BY <2>1, <3>1, <3>2, <3>3, <1>0, <1>1, TimedKeeps DEF callVars
    <2>2. UNCHANGED callVars \/ state' # "RINGING"
      BY <1>3 DEF Step, TakeAtMutex, at_make_phone_call, RingStopped, AmpOff,
                  SwitchRoute, AmpOnAnswer, AmpOnExchange, AmpOnEnded,
                  SendCommand, Reply, ClearCall
    <2> QED
      BY <1>1, <2>1, <2>2
  <1>4. CASE Keys
    <2>1. pc'["rx"] = pc["rx"] /\ job'["rx"] = job["rx"]
      BY <1>4, <1>0 DEF Keys, PressAnswer, PressReject, PressHangup, Begin
    <2>2. UNCHANGED callVars
      BY <1>4 DEF Keys, PressAnswer, PressReject, PressHangup
    <2> QED
      BY <2>1, <2>2, TimedKeeps DEF callVars
  <1>5. CASE UrcNoCarrier
    <2>1. pc["rx"] = "idle" /\ UNCHANGED callVars
      BY <1>5 DEF UrcNoCarrier, UrcReady, Idle
    <2> QED
      BY <2>1, TimedKeeps DEF callVars
  <1>6. CASE UrcIncoming
    <2>1. CASE Begin("rx", "incoming", "announce")
      BY <2>1, <1>0 DEF Begin, RingingIsTimed
    <2>2. CASE UNCHANGED <<state, taskVars>>
      BY <1>6, <2>2, TimedKeeps DEF UrcIncoming, taskVars
    <2> QED
      BY <1>6, <2>1, <2>2 DEF UrcIncoming
  <1>7. CASE Announce
    BY <1>7, <1>0 DEF Announce, Goto, RingingIsTimed
  <1>8. CASE ArmHangupTimer
    <2>1. CASE Goto("rx", "stopped") /\ job["rx"] = "incoming"
      BY <2>1, <1>0 DEF Goto, RingingIsTimed
    <2>2. job["rx"] = "incoming"
      BY <1>8, <1>0 DEF ArmHangupTimer, At, TypeOK, JobsAt
    <2> QED
      BY <1>8, <1>1, <2>1, <2>2 DEF ArmHangupTimer
  <1>9. CASE auto_hangup_timer_callback
    BY <1>9, <1>1 DEF auto_hangup_timer_callback
  <1>10. CASE call_manager_process_events
    BY <1>10, TimedKeeps DEF call_manager_process_events, taskVars
  <1>11. Next =>
            \/ \E t \in Tasks :
                 Step(t) \/ TakeAtMutex(t) \/ at_make_phone_call(t)
            \/ Keys \/ UrcNoCarrier \/ UrcIncoming \/ Announce
            \/ ArmHangupTimer \/ auto_hangup_timer_callback
            \/ call_manager_process_events
            \/ UNCHANGED <<callVars, taskVars>>
    BY DEF Next, Urc, SwallowUrc, UrcOutgoing, Environment, IncomingCall,
           ReportCall, RemoteHangup, ModemLost, ModemBack, LinkTaskSends,
           LinkTaskDone
  <1> QED
    BY <1>2, <1>3, <1>4, <1>5, <1>6, <1>7, <1>8, <1>9, <1>10, <1>11 DEF vars

\* Every ringing call is under the auto-hangup timer, or about to be.
THEOREM Timed == Spec => []RingingIsTimed
  <1>1. Init => RingingIsTimed
    BY DEF Init, RingingIsTimed
  <1>2. TypeOK /\ RingingIsTimed /\ [Next]_vars => RingingIsTimed'
    BY TimedStep
  <1> QED
    BY <1>1, <1>2, TypeCorrect, PTL DEF Spec

-----------------------------------------------------------------------------
(* The amplifier.                                                          *)

LEMMA AmpStep ==
  ASSUME TypeOK, AmpOffOnlyWhileSwitching, [Next]_vars
  PROVE  AmpOffOnlyWhileSwitching'
  <1>0. /\ "rx" \in Tasks /\ "btn" \in Tasks
        /\ job \in [Tasks -> Jobs] /\ pc \in [Tasks -> Places]
    BY DEF TypeOK, Tasks
  <1>1. ASSUME NEW t \in Tasks, pc'[t] \in {"route", "ampOn"}
        PROVE  AmpOffOnlyWhileSwitching'
    BY <1>1 DEF AmpOffOnlyWhileSwitching
  <1>2. ASSUME pa' = TRUE
        PROVE  AmpOffOnlyWhileSwitching'
    BY <1>2 DEF AmpOffOnlyWhileSwitching
  <1>3. ASSUME UNCHANGED pa,
               \A t \in Tasks :
                 pc[t] \in {"route", "ampOn"} => pc'[t] = pc[t]
        PROVE  AmpOffOnlyWhileSwitching'
    BY <1>3 DEF AmpOffOnlyWhileSwitching
  <1>4. ASSUME NEW t \in Tasks, AmpOff(t) \/ SwitchRoute(t)
        PROVE  AmpOffOnlyWhileSwitching'
    BY <1>4, <1>0, <1>1 DEF AmpOff, SwitchRoute, Goto
  <1>5. ASSUME NEW t \in Tasks,
               AmpOnAnswer(t) \/ AmpOnExchange(t) \/ AmpOnEnded(t)
        PROVE  AmpOffOnlyWhileSwitching'
    BY <1>5, <1>2 DEF AmpOnAnswer, AmpOnExchange, AmpOnEnded
  <1>6. ASSUME NEW t \in Tasks,
               \/ TakeAtMutex(t) \/ at_make_phone_call(t) \/ RingStopped(t)
               \/ SendCommand(t) \/ \E ok \in BOOLEAN : Reply(t, ok)
        PROVE  AmpOffOnlyWhileSwitching'
    <2>1. pc[t] \notin {"route", "ampOn"} /\ UNCHANGED pa
      BY <1>6 DEF TakeAtMutex, at_make_phone_call, RingStopped, SendCommand,
                  Reply, At, Idle, audioVars
    <2>2. \A u \in Tasks \ {t} : pc'[u] = pc[u]
      BY <1>6, <1>0 DEF TakeAtMutex, at_make_phone_call, RingStopped,
                        SendCommand, TakeParser, Reply, Goto, Return, Begin
    <2> QED
      BY <2>1, <2>2, <1>3
  <1>7. CASE Keys
    <2>1. pc["btn"] = "idle" /\ UNCHANGED pa
      BY <1>7 DEF Keys, PressAnswer, PressReject, PressHangup, Idle, audioVars
    <2>2. \A u \in Tasks \ {"btn"} : pc'[u] = pc[u]
      BY <1>7, <1>0 DEF Keys, PressAnswer, PressReject, PressHangup, Begin
    <2> QED
      BY <2>1, <2>2, <1>3
  <1>8. CASE UrcNoCarrier \/ UrcIncoming \/ Announce \/ ArmHangupTimer
    <2>1. pc["rx"] \notin {"route", "ampOn"} /\ UNCHANGED pa
      BY <1>8 DEF UrcNoCarrier, UrcIncoming, Announce, ArmHangupTimer,
                  UrcReady, At, Idle, audioVars
    <2>2. \A u \in Tasks \ {"rx"} : pc'[u] = pc[u]
      BY <1>8, <1>0 DEF UrcNoCarrier, UrcIncoming, Announce, ArmHangupTimer,
                        Goto, Return, Begin, taskVars
    <2> QED
      BY <2>1, <2>2, <1>3
  <1>9. CASE UNCHANGED <<pa, taskVars>>
    BY <1>9, <1>3 DEF taskVars
  <1>10. Next =>
            \/ \E t \in Tasks :
                 \/ AmpOff(t) \/ SwitchRoute(t)
                 \/ AmpOnAnswer(t) \/ AmpOnExchange(t) \/ AmpOnEnded(t)
                 \/ TakeAtMutex(t) \/ at_make_phone_call(t) \/ RingStopped(t)
                 \/ SendCommand(t) \/ \E ok \in BOOLEAN : Reply(t, ok)
            \/ Keys
            \/ UrcNoCarrier \/ UrcIncoming \/ Announce \/ ArmHangupTimer
            \/ UNCHANGED <<pa, taskVars>>
    BY DEF Next, Step, Urc, SwallowUrc, UrcOutgoing, Environment,
           auto_hangup_timer_callback, call_manager_process_events,
           IncomingCall, ReportCall, RemoteHangup, ModemLost, ModemBack,
           LinkTaskSends, LinkTaskDone, audioVars
  <1> QED
    BY <1>4, <1>5, <1>6, <1>7, <1>8, <1>9, <1>10 DEF vars, audioVars

\* The amplifier is off only while some task switches the audio route.
THEOREM AmpOnAtRest == Spec => []AmpOffOnlyWhileSwitching
  <1>1. Init => AmpOffOnlyWhileSwitching
    BY DEF Init, AmpOffOnlyWhileSwitching
  <1>2. TypeOK /\ AmpOffOnlyWhileSwitching /\ [Next]_vars
          => AmpOffOnlyWhileSwitching'
    BY AmpStep
  <1> QED
    BY <1>1, <1>2, TypeCorrect, PTL DEF Spec
=============================================================================
