------------------------- MODULE CallPromiseProofs -------------------------
(***************************************************************************)
(* The call control keeps what CallPromise says of the call record, and    *)
(* what follows from that: a call whose auto-hangup timer has run out is   *)
(* never ended.  Its tasks never wait for each other in a circle, and each *)
(* step of a job brings it nearer to its end.                              *)
(***************************************************************************)
EXTENDS CallManagerProofs

-----------------------------------------------------------------------------
(* Who has which job.  The record is changed at the end of a job, long     *)
(* after it was begun: the refinement needs to know that the answer or the *)
(* rejection that ends is the one of the key that is being served.         *)

OwnersOK ==
  \A t \in Tasks : /\ job[t] \in {"answer", "reject", "hangup"} => t = "btn"
                   /\ job[t] = "dial" => t # "rx"

\* A step gives at most one task a job, and only these: the keys to "btn", the
\* lines of the modem to "rx", dialling to "btn" and the dialling tasks.
LEMMA JobMoves ==
  ASSUME TypeOK, [Next]_vars, NEW t \in Tasks
  PROVE  \/ job'[t] \in {job[t], "none"}
         \/ t = "btn" /\ job'[t] \in {"answer", "reject", "hangup"}
         \/ t \in Dialers \cup {"btn"} /\ job'[t] = "dial"
         \/ t = "rx" /\ job'[t] \in {"incoming", "ended"}
  <1>0. job \in [Tasks -> Jobs] /\ "rx" \in Tasks /\ "btn" \in Tasks
    BY DEF TypeOK, Tasks
  <1>1. CASE UNCHANGED job
    BY <1>1
  <1>2. ASSUME NEW u \in Tasks, Return(u)
        PROVE  job'[t] \in {job[t], "none"}
    BY <1>0, <1>2 DEF Return, Begin
  <1>3. CASE \E u \in Tasks : at_make_phone_call(u)
    BY <1>0, <1>3 DEF at_make_phone_call, Begin
  <1>4. CASE \E u \in Tasks : Step(u) \/ TakeAtMutex(u)
    BY <1>1, <1>2, <1>4
    DEF Step, TakeAtMutex, RingStopped, AmpOff, SwitchRoute, AmpOnAnswer,
        AmpOnExchange, AmpOnEnded, SendCommand, TakeParser, Reply, Goto
  <1>5. CASE Keys
    BY <1>0, <1>5 DEF Keys, PressAnswer, PressReject, PressHangup, Begin
  <1>6. CASE UrcNoCarrier \/ UrcIncoming
    BY <1>0, <1>1, <1>6 DEF UrcNoCarrier, UrcIncoming, Begin, taskVars
  <1>7. CASE Announce \/ ArmHangupTimer
    BY <1>0, <1>1, <1>2, <1>7 DEF Announce, ArmHangupTimer, Goto
  <1>8. Next => \/ \E u \in Tasks :
                     Step(u) \/ TakeAtMutex(u) \/ at_make_phone_call(u)
                \/ Keys \/ UrcNoCarrier \/ UrcIncoming
                \/ Announce \/ ArmHangupTimer
                \/ UNCHANGED job
    BY DEF Next, Urc, SwallowUrc, UrcOutgoing, auto_hangup_timer_callback,
           call_manager_process_events, Environment, IncomingCall, ReportCall,
           RemoteHangup, ModemLost, ModemBack, LinkTaskSends, LinkTaskDone,
           taskVars
  <1> QED
    BY <1>1, <1>3, <1>4, <1>5, <1>6, <1>7, <1>8 DEF vars, taskVars

LEMMA Owners == Spec => []OwnersOK
  <1>1. Init => OwnersOK
    BY DEF Init, OwnersOK
  <1>2. TypeOK /\ OwnersOK /\ [Next]_vars => OwnersOK'
    BY JobMoves, TasksDistinct DEF OwnersOK, TasksDistinct
  <1> QED
    BY <1>1, <1>2, TypeCorrect, PTL DEF Spec

-----------------------------------------------------------------------------
(* The refinement: one step per action.                                    *)

\* What the mapping reads of the tasks.
LEMMA SeenTasks ==
  ASSUME TypeOK, OwnersOK
  PROVE  /\ "rx" \in Tasks /\ "btn" \in Tasks /\ "rx" # "btn"
         /\ job["rx"] \in {"none", "incoming", "ended"}
         /\ job["btn"] \in {"none", "answer", "reject", "hangup", "dial"}
         /\ \A t \in Tasks : job[t] \in JobsAt(pc[t])
         /\ job \in [Tasks -> Jobs] /\ pc \in [Tasks -> Places]
  <1>1. "rx" \in Tasks /\ "btn" \in Tasks /\ "rx" # "btn"
    BY DEF Tasks
  <1>2. job["rx"] \in Jobs /\ job["btn"] \in Jobs
    BY <1>1 DEF TypeOK
  <1>3. job["rx"] \in {"none", "incoming", "ended"}
    BY <1>1, <1>2 DEF Jobs, OwnersOK
  <1>4. job["btn"] \notin {"incoming", "ended"}
    BY <1>1 DEF TypeOK
  <1> QED
    BY <1>1, <1>2, <1>3, <1>4 DEF TypeOK, Jobs

\* A step that leaves the record alone, and both jobs where they count.
LEMMA Unseen ==
  ASSUME UNCHANGED <<state, number, KeyServed, News>>
  PROVE  UNCHANGED Calls!vars
  BY DEF Calls!vars

\* The steps of a task that keeps its job, between places that the mapping does
\* not tell apart.
LEMMA GotoUnseen ==
  ASSUME TypeOK, OwnersOK, NEW t \in Tasks, NEW p \in Places,
         Goto(t, p), UNCHANGED <<state, number>>,
         job[t] = "ended" => (p # "stopped" /\ pc[t] # "stopped")
  PROVE  UNCHANGED Calls!vars
  <1>1. UNCHANGED job
    BY DEF Goto
  <1>2. UNCHANGED News
    BY <1>1, SeenTasks DEF Goto, News, At
  <1> QED
    BY <1>1, <1>2, Unseen DEF KeyServed

\* A job of "btn" that returns without a change of the record has failed; one
\* of a dialling task does not concern it.
LEMMA ReturnUnseen ==
  ASSUME TypeOK, OwnersOK, NEW t \in Tasks, t # "rx",
         Return(t), UNCHANGED <<state, number>>
  PROVE  Calls!KeyFailed \/ UNCHANGED Calls!vars
  <1>1. job'["rx"] = job["rx"] /\ pc'["rx"] = pc["rx"]
    BY SeenTasks DEF Return, Begin
  <1>2. UNCHANGED News
    BY <1>1 DEF News, At
  <1>3. CASE t = "btn" /\ job["btn"] \in {"answer", "reject"}
    <2>1. KeyServed # "none" /\ KeyServed' = "none"
      BY <1>3, SeenTasks DEF KeyServed, Return, Begin
    <2> QED
      BY <1>2, <2>1 DEF Calls!KeyFailed
  <1>4. CASE ~(t = "btn" /\ job["btn"] \in {"answer", "reject"})
    <2>1. UNCHANGED KeyServed
      BY <1>4, SeenTasks DEF KeyServed, Return, Begin
    <2> QED
      BY <1>2, <2>1, Unseen
  <1> QED
    BY <1>3, <1>4

\* The record's part of the ending of an answer, a rejection and a notification.
LEMMA KeyEnds ==
  ASSUME TypeOK, OwnersOK, Return("btn"), job["btn"] \in {"answer", "reject"}
  PROVE  KeyServed = job["btn"] /\ KeyServed' = "none" /\ UNCHANGED News
  BY SeenTasks DEF KeyServed, News, At, Return, Begin

LEMMA NewsEnds ==
  ASSUME TypeOK, OwnersOK, Return("rx"),
         \/ job["rx"] = "incoming"
         \/ job["rx"] = "ended" /\ At("rx", "stopped")
  PROVE  News = job["rx"] /\ News' = "none" /\ UNCHANGED KeyServed
  BY SeenTasks DEF KeyServed, News, At, Return, Begin

LEMMA CallsInit == Init => Calls!Init
  BY DEF Init, Calls!Init, KeyServed, News, Tasks

\* The steps of a task within its job.
LEMMA CallsTaskStep ==
  ASSUME TypeOK, OwnersOK, NEW t \in Tasks, Step(t) \/ TakeAtMutex(t)
  PROVE  Calls!Next \/ UNCHANGED Calls!vars
  <1>0. /\ job[t] \in JobsAt(pc[t])
        /\ job[t] \in {"answer", "reject", "hangup"} => t = "btn"
        /\ job[t] = "dial" => t # "rx"
        /\ job[t] \in {"incoming", "ended"} => t = "rx"
        /\ "rx" # "btn"
    BY DEF TypeOK, OwnersOK
  <1>1. ASSUME NEW p \in Places, Goto(t, p), UNCHANGED callVars,
               pc[t] # "stopped" \/ job[t] # "ended",
               p # "stopped" \/ job[t] # "ended"
        PROVE  UNCHANGED Calls!vars
    BY <1>1, GotoUnseen DEF callVars
  <1>2. ASSUME Return(t), UNCHANGED callVars, t # "rx"
        PROVE  Calls!Next \/ UNCHANGED Calls!vars
    BY <1>2, ReturnUnseen DEF callVars, Calls!Next
  <1>3. ASSUME pc[t] \in {"take", "escape", "send", "reply"}
        PROVE  t # "rx" /\ job[t] # "ended"
    BY <1>0, <1>3 DEF JobsAt
  <1>4. CASE TakeAtMutex(t)
    BY <1>1, <1>3, <1>4 DEF TakeAtMutex, At, Places
  <1>5. CASE RingStopped(t)
    <2>1. CASE job[t] \in {"answer", "reject"} /\ UNCHANGED callVars
      BY <1>0, <1>1, <1>2, <1>5, <2>1 DEF RingStopped, Places
    <2>2. CASE job[t] = "ended" /\ ClearCall /\ Return(t)
      BY <1>0, <1>5, <2>2, NewsEnds
      DEF RingStopped, ClearCall, Calls!Next, Calls!Ended, Calls!Clear
    <2>3. CASE job[t] = "incoming" /\ state' = "IDLE" /\ UNCHANGED number
               /\ Return(t)
      BY <1>0, <2>3, NewsEnds DEF Calls!Next, Calls!GivenUp
    <2> QED
      BY <1>5, <2>1, <2>2, <2>3 DEF RingStopped
  <1>6. CASE AmpOff(t) \/ SwitchRoute(t)
    BY <1>1, <1>6 DEF AmpOff, SwitchRoute, At, Places
  <1>7. CASE AmpOnAnswer(t)
    BY <1>0, <1>7, KeyEnds DEF AmpOnAnswer, Calls!Next, Calls!Answered
  <1>8. CASE AmpOnExchange(t)
    BY <1>1, <1>8 DEF AmpOnExchange, At, Places
  <1>9. CASE AmpOnEnded(t)
    <2>1. t = "rx" /\ job["rx"] = "ended" /\ pc["rx"] = "ampOn"
      BY <1>0, <1>9 DEF AmpOnEnded, At
    <2>2. News = "none" /\ UNCHANGED <<state, number>>
      BY <1>9, <2>1 DEF AmpOnEnded, News, At, callVars
    <2>3. CASE HasCall /\ Goto(t, "stopped")
      <3>1. UNCHANGED job /\ pc'["rx"] = "stopped"
        BY <2>1, <2>3, SeenTasks DEF Goto
      <3>2. News' = "ended" /\ UNCHANGED KeyServed
        BY <2>1, <3>1 DEF News, KeyServed, At
      <3> QED
        BY <2>2, <2>3, <3>2 DEF HasCall, Calls!Next, Calls!Ending
    <2>4. CASE Return(t)
      <3>1. UNCHANGED <<News, KeyServed>>
        BY <2>1, <2>2, <2>4, SeenTasks DEF Return, Begin, News, KeyServed
      <3> QED
        BY <2>2, <3>1, Unseen
    <2> QED
      BY <1>9, <2>3, <2>4 DEF AmpOnEnded
  <1>10. CASE SendCommand(t)
    BY <1>1, <1>2, <1>3, <1>10 DEF SendCommand, TakeParser, At, Places
  <1>11. ASSUME NEW ok \in BOOLEAN, Reply(t, ok)
         PROVE  Calls!Next \/ UNCHANGED Calls!vars
    <2>1. CASE UNCHANGED callVars
      BY <1>1, <1>2, <1>3, <1>11, <2>1 DEF Reply, At, Places
    <2>2. CASE job[t] = "reject" /\ ClearCall /\ Return(t)
      BY <1>0, <2>2, KeyEnds
      DEF ClearCall, Calls!Next, Calls!Rejected, Calls!Clear
    <2> QED
      BY <1>11, <2>1, <2>2 DEF Reply
  <1> QED
    BY <1>4, <1>5, <1>6, <1>7, <1>8, <1>9, <1>10, <1>11 DEF Step

\* The beginning of a job of an idle task.
LEMMA CallsBegin ==
  ASSUME TypeOK, OwnersOK,
         \/ \E t \in Tasks : at_make_phone_call(t)
         \/ Keys \/ UrcNoCarrier \/ UrcIncoming
  PROVE  Calls!Next \/ UNCHANGED Calls!vars
  <1>0. \A t \in Tasks : Idle(t) => job[t] = "none"
    BY DEF TypeOK, Idle, JobsAt
  <1>1. ASSUME Idle("btn"), state = "RINGING", UNCHANGED callVars,
               NEW k \in {"answer", "reject"}, Begin("btn", k, "stopped")
        PROVE  Calls!Press(k)
    <2>1. KeyServed = "none" /\ KeyServed' = k /\ UNCHANGED News
      BY <1>0, <1>1, SeenTasks DEF KeyServed, News, At, Begin
    <2> QED
      BY <1>1, <2>1 DEF Calls!Press, callVars
  <1>2. ASSUME NEW t \in Tasks, Idle(t), UNCHANGED callVars,
               NEW j \in {"dial", "hangup", "ended"}, Begin(t, j, "ampOff"),
               j = "ended" <=> t = "rx"
        PROVE  UNCHANGED Calls!vars
    <2>1. UNCHANGED KeyServed
      BY <1>0, <1>2, SeenTasks DEF KeyServed, Begin
    <2>2. UNCHANGED News
      BY <1>0, <1>2, SeenTasks DEF News, At, Begin
    <2> QED
      BY <1>2, <2>1, <2>2, Unseen DEF callVars
  <1>3. CASE \E t \in Tasks : at_make_phone_call(t)
    <2> PICK t \in Tasks : at_make_phone_call(t)
      BY <1>3
    <2>1. t # "rx"
      BY TasksDistinct DEF at_make_phone_call, TasksDistinct
    <2> QED
      BY <1>2, <2>1 DEF at_make_phone_call
  <1>4. CASE Keys
    <2>1. CASE PressHangup
      BY <1>2, <2>1, SeenTasks DEF PressHangup
    <2>2. CASE PressAnswer \/ PressReject
      BY <1>1, <2>2 DEF PressAnswer, PressReject, Calls!Next
    <2> QED
      BY <1>4, <2>1, <2>2 DEF Keys
  <1>5. CASE UrcNoCarrier
    BY <1>2, <1>5, SeenTasks DEF UrcNoCarrier, UrcReady
  <1>6. CASE UrcIncoming
    <2>1. Idle("rx") /\ urcs # <<>>
      BY <1>6 DEF UrcIncoming, UrcReady
    <2>2. News = "none"
      BY <1>0, <2>1, SeenTasks DEF News
    <2>3. CASE UNCHANGED <<state, number, taskVars>>
      BY <2>3, Unseen DEF taskVars, KeyServed, News, At
    <2>4. CASE Head(urcs).from # Hidden /\ state = "IDLE"
      <3> DEFINE n == Head(urcs).from
      <3>1. n \in Whitelist \cup Strangers
        BY <2>1, <2>4, HeadFrom, TypeSplit DEF Callers, Numbers
      <3>2. CASE n \in Whitelist
        <4>1. state' = "RINGING" /\ number' = n
              /\ Begin("rx", "incoming", "announce")
          BY <1>6, <2>4, <3>2 DEF UrcIncoming
        <4>2. News' = "incoming" /\ UNCHANGED KeyServed
          BY <4>1, SeenTasks DEF News, KeyServed, Begin
        <4> QED
          BY <2>2, <2>4, <3>2, <4>1, <4>2 DEF Calls!Next, Calls!Incoming
      <3>3. CASE n \notin Whitelist
        <4>1. number' = n /\ UNCHANGED <<state, taskVars>>
          BY <1>6, <2>4, <3>3 DEF UrcIncoming
        <4>2. UNCHANGED <<News, KeyServed>>
          BY <4>1 DEF taskVars, KeyServed, News, At
        <4> QED
          BY <2>2, <2>4, <3>1, <3>3, <4>1, <4>2
          DEF Calls!Next, Calls!Incoming
      <3> QED
        BY <3>2, <3>3
    <2> QED
      BY <1>6, <2>3, <2>4 DEF UrcIncoming
  <1> QED
    BY <1>3, <1>4, <1>5, <1>6

LEMMA CallsStep ==
  ASSUME TypeOK, OwnersOK, [Next]_vars
  PROVE  Calls!Next \/ UNCHANGED Calls!vars
  <1>1. CASE \E t \in Tasks : Step(t) \/ TakeAtMutex(t)
    BY <1>1, CallsTaskStep
  <1>2. CASE \/ \E t \in Tasks : at_make_phone_call(t)
             \/ Keys \/ UrcNoCarrier \/ UrcIncoming
    BY <1>2, CallsBegin
  <1>3. CASE Announce
    <2>1. Goto("rx", "arm") /\ "arm" \in Places /\ UNCHANGED <<state, number>>
          /\ pc["rx"] = "announce"
      BY <1>3 DEF Announce, At, Places, callVars
    <2> QED
      BY <2>1, SeenTasks, GotoUnseen
  <1>4. CASE ArmHangupTimer
    <2>1. job["rx"] = "incoming" /\ UNCHANGED <<state, number>>
      BY <1>4, SeenTasks DEF ArmHangupTimer, At, JobsAt
    <2>2. CASE Return("rx")
      BY <2>1, <2>2, NewsEnds DEF Calls!Next, Calls!Settled
    <2>3. CASE Goto("rx", "stopped")
      BY <2>1, <2>3, SeenTasks, GotoUnseen DEF Places
    <2> QED
      BY <1>4, <2>2, <2>3 DEF ArmHangupTimer
  <1>5. CASE auto_hangup_timer_callback
    <2>1. UNCHANGED <<number, KeyServed, News>>
      BY <1>5 DEF auto_hangup_timer_callback, taskVars, KeyServed, News, At
    <2> QED
      BY <1>5, <2>1, Unseen
      DEF auto_hangup_timer_callback, Calls!Next, Calls!TimedOut
  <1>6. CASE UNCHANGED <<state, number, taskVars>>
    BY <1>6, Unseen DEF taskVars, KeyServed, News, At
  <1>7. Next => \/ \E t \in Tasks :
                     Step(t) \/ TakeAtMutex(t) \/ at_make_phone_call(t)
                \/ Keys \/ UrcNoCarrier \/ UrcIncoming
                \/ Announce \/ ArmHangupTimer
                \/ auto_hangup_timer_callback
                \/ UNCHANGED <<state, number, taskVars>>
    BY DEF Next, Urc, SwallowUrc, UrcOutgoing, call_manager_process_events,
           Environment, IncomingCall, ReportCall, RemoteHangup, ModemLost,
           ModemBack, LinkTaskSends, LinkTaskDone, callVars
  <1> QED
    BY <1>1, <1>2, <1>3, <1>4, <1>5, <1>6, <1>7 DEF vars, callVars

\* However the tasks interleave, the call record changes only for the reasons
\* CallPromise lists, each of them begun in a state that allows it.
THEOREM CallKeepsPromise == Spec => KeepsCallPromise
  <1>1. Init => Calls!Init
    BY CallsInit
  <1>2. TypeOK /\ OwnersOK /\ [Next]_vars => [Calls!Next]_(Calls!vars)
    BY CallsStep
  <1> QED
    BY <1>1, <1>2, TypeCorrect, Owners, PTL
    DEF Spec, KeepsCallPromise, Calls!Spec

-----------------------------------------------------------------------------
(* Consequences, drawn from the promise alone.                             *)

LEMMA StuckStays == Calls!Stuck /\ [Calls!Next]_(Calls!vars) => Calls!Stuck'
  BY DEF Calls!Stuck, Calls!Next, Calls!vars, Calls!Incoming, Calls!Settled,
         Calls!GivenUp, Calls!Press, Calls!Answered, Calls!Rejected,
         Calls!KeyFailed, Calls!Ending, Calls!Ended, Calls!TimedOut

\* Once nobody has answered for five minutes, and no key and no line of the modem
\* is still being served, the record says HANGING_UP for ever: whatever is
\* called, dialled or pressed afterwards, the phone never rings again.
THEOREM AutoHangupSticks == Spec => Calls!StuckForGood
  <1>1. [Calls!Next]_(Calls!vars)
          => [Calls!Stuck => Calls!Stuck']_(Calls!vars)
    BY StuckStays
  <1> QED
    BY <1>1, CallKeepsPromise, PTL
    DEF KeepsCallPromise, Calls!Spec, Calls!StuckForGood

-----------------------------------------------------------------------------
(* No standstill.  The invariants of the exchange say where the holder of  *)
(* g_at_mutex and the owner of the parser can be; here the converse is     *)
(* needed: who they say has the mutex or the parser is really there.       *)

InUse == /\ atMutex # "free" => pc[atMutex] \in {"escape", "send", "reply"}
         /\ parser \notin {"free", "fsm"} => pc[parser] = "reply"

LEMMA InUseStep ==
  ASSUME ExchangeInv, InUse, [Next]_vars
  PROVE  InUse'
  <1>0. /\ "rx" \in Tasks /\ "btn" \in Tasks
        /\ job \in [Tasks -> Jobs] /\ pc \in [Tasks -> Places]
        /\ atMutex \in Tasks \cup {"free"}
        /\ parser \in Tasks \cup {"free", "fsm"}
        /\ "free" \notin Tasks /\ "fsm" \notin Tasks
    BY NoSuchTasks DEF ExchangeInv, TypeOK, Tasks
  <1>1. ASSUME NEW t \in Tasks, UNCHANGED <<atMutex, parser>>,
               pc[t] \notin {"escape", "send", "reply"},
               \A u \in Tasks \ {t} : pc'[u] = pc[u]
        PROVE  InUse'
    BY <1>0, <1>1 DEF InUse
  <1>2. ASSUME NEW t \in Tasks, TakeAtMutex(t)
        PROVE  InUse'
    BY <1>0, <1>2 DEF InUse, TakeAtMutex, Goto, At
  <1>3. ASSUME NEW t \in Tasks, SendCommand(t)
        PROVE  InUse'
    <2>1. atMutex = t /\ pc[t] \in {"escape", "send"}
      BY <1>3 DEF SendCommand, At, ExchangeInv, HolderOK
    <2>2. CASE TakeParser(t)
      BY <1>0, <2>1, <2>2 DEF InUse, TakeParser, Goto
    <2>3. CASE Goto(t, "send") /\ UNCHANGED <<atMutex, parser>>
      BY <1>0, <2>1, <2>3 DEF InUse, Goto
    <2>4. CASE Return(t) /\ atMutex' = "free" /\ UNCHANGED parser
      BY <1>0, <2>1, <2>4 DEF InUse, Return, Begin
    <2> QED
      BY <1>3, <2>2, <2>3, <2>4 DEF SendCommand, GiveAtMutex, atVars
  <1>4. ASSUME NEW t \in Tasks, NEW ok \in BOOLEAN, Reply(t, ok)
        PROVE  InUse'
    <2>1. atMutex = t /\ parser' = "free"
      BY <1>4 DEF Reply, At, ExchangeInv, HolderOK
    <2>2. CASE Goto(t, "send") /\ UNCHANGED atMutex
      BY <1>0, <2>1, <2>2 DEF InUse, Goto
    <2>3. CASE atMutex' = "free"
      BY <2>1, <2>3 DEF InUse
    <2> QED
      BY <1>4, <2>2, <2>3 DEF Reply, GiveAtMutex
  <1>5. ASSUME NEW t \in Tasks,
               \/ at_make_phone_call(t) \/ RingStopped(t) \/ AmpOff(t)
               \/ SwitchRoute(t) \/ AmpOnAnswer(t) \/ AmpOnExchange(t)
               \/ AmpOnEnded(t)
        PROVE  InUse'
    <2>1. pc[t] \notin {"escape", "send", "reply"} /\ UNCHANGED atVars
      BY <1>5 DEF at_make_phone_call, RingStopped, AmpOff, SwitchRoute,
                  AmpOnAnswer, AmpOnExchange, AmpOnEnded, At, Idle
    <2>2. \A u \in Tasks \ {t} : pc'[u] = pc[u]
      BY <1>0, <1>5
      DEF at_make_phone_call, RingStopped, AmpOff, SwitchRoute, AmpOnAnswer,
          AmpOnExchange, AmpOnEnded, Goto, Return, Begin
    <2> QED
      BY <1>1, <2>1, <2>2 DEF atVars
  <1>6. CASE Keys
    <2>1. pc["btn"] = "idle" /\ UNCHANGED atVars
      BY <1>6 DEF Keys, PressAnswer, PressReject, PressHangup, Idle
    <2>2. \A u \in Tasks \ {"btn"} : pc'[u] = pc[u]
      BY <1>0, <1>6 DEF Keys, PressAnswer, PressReject, PressHangup, Begin
    <2> QED
      BY <1>0, <1>1, <2>1, <2>2 DEF atVars
  <1>7. CASE UrcNoCarrier \/ UrcIncoming \/ Announce \/ ArmHangupTimer
    <2>1. pc["rx"] \notin {"escape", "send", "reply"} /\ UNCHANGED atVars
      BY <1>7 DEF UrcNoCarrier, UrcIncoming, Announce, ArmHangupTimer,
                  UrcReady, At, Idle
    <2>2. \A u \in Tasks \ {"rx"} : pc'[u] = pc[u]
      BY <1>0, <1>7 DEF UrcNoCarrier, UrcIncoming, Announce, ArmHangupTimer,
                        Goto, Return, Begin, taskVars
    <2> QED
      BY <1>0, <1>1, <2>1, <2>2 DEF atVars
  <1>8. CASE LinkTaskSends \/ LinkTaskDone
    BY <1>8 DEF LinkTaskSends, LinkTaskDone, InUse, taskVars
  <1>9. CASE UNCHANGED <<atVars, taskVars>>
    BY <1>9 DEF InUse, atVars, taskVars
  <1>10. Next =>
            \/ \E t \in Tasks :
                 \/ TakeAtMutex(t) \/ SendCommand(t)
                 \/ \E ok \in BOOLEAN : Reply(t, ok)
                 \/ at_make_phone_call(t) \/ RingStopped(t) \/ AmpOff(t)
                 \/ SwitchRoute(t) \/ AmpOnAnswer(t) \/ AmpOnExchange(t)
                 \/ AmpOnEnded(t)
            \/ Keys
            \/ UrcNoCarrier \/ UrcIncoming \/ Announce \/ ArmHangupTimer
            \/ LinkTaskSends \/ LinkTaskDone
            \/ UNCHANGED <<atVars, taskVars>>
    BY DEF Next, Step, Urc, SwallowUrc, UrcOutgoing, Environment,
           auto_hangup_timer_callback, call_manager_process_events,
           IncomingCall, ReportCall, RemoteHangup, ModemLost, ModemBack
  <1> QED
    BY <1>2, <1>3, <1>4, <1>5, <1>6, <1>7, <1>8, <1>9, <1>10 DEF vars

LEMMA ExchangeAlways == Spec => [](ExchangeInv /\ InUse)
  <1>1. Init => HolderOK /\ ExchangeIsExclusive /\ InUse
    BY DEF Init, HolderOK, ExchangeIsExclusive, InUse, At
  <1>2. TypeOK /\ HolderOK /\ ExchangeIsExclusive /\ InUse /\ [Next]_vars
          => HolderOK' /\ ExchangeIsExclusive' /\ InUse'
    BY ExchangeStep, InUseStep DEF ExchangeInv
  <1> QED
    BY <1>1, <1>2, TypeCorrect, PTL DEF Spec, ExchangeInv

\* However many tasks dial, answer and hang up, one of those that are at work can
\* always go on: no two of them ever wait for each other.
THEOREM NeverAtStandstill == Spec => []NoStandstill
  <1>1. ExchangeInv /\ InUse => NoStandstill
    <2> SUFFICES ASSUME ExchangeInv, InUse, NEW t \in Tasks, Waits(t),
                        parser # "fsm"
                 PROVE  \E u \in Tasks : ~Idle(u) /\ ~Waits(u)
      BY DEF NoStandstill
    <2>1. /\ atMutex \in Tasks \cup {"free"}
          /\ parser \in Tasks \cup {"free", "fsm"}
      BY DEF ExchangeInv, TypeOK
    <2>2. CASE parser # "free"
      <3>1. parser \in Tasks /\ pc[parser] = "reply"
        BY <2>1, <2>2 DEF InUse
      <3> QED
        BY <3>1 DEF Idle, Waits, At
    <2>3. CASE parser = "free"
      <3>1. At(t, "take") /\ atMutex \in Tasks
        BY <2>1, <2>3 DEF Waits
      <3>2. pc[atMutex] \in {"escape", "send", "reply"}
        BY <2>1, <3>1, NoSuchTasks DEF InUse
      <3> QED
        BY <2>3, <3>1, <3>2 DEF Idle, Waits, At
    <2> QED
      BY <2>2, <2>3
  <1> QED
    BY <1>1, ExchangeAlways, PTL

-----------------------------------------------------------------------------
(* Progress.  A job's own steps take it on; only the command in the buffer *)
(* could be changed by another task, and g_at_mutex forbids that.          *)

GetsOn(t) == \/ StepsLeft(t)' < StepsLeft(t)
             \/ UNCHANGED <<job[t], pc[t], StepsLeft(t)>>

\* A step of somebody else.
LEMMA OthersStand ==
  ASSUME NEW t \in Tasks, UNCHANGED <<job[t], pc[t]>>,
         pc[t] = "reply" => UNCHANGED atCommand
  PROVE  GetsOn(t)
  BY DEF GetsOn, StepsLeft, ExchangeLeft, SwitchLeft

\* What is left at the places a job comes to.
LeftTable(t) ==
  /\ pc[t] = "idle" => StepsLeft(t) = 0
  /\ pc[t] = "take" =>
       StepsLeft(t) = IF job[t] = "answer" THEN 8 ELSE 5
  /\ pc[t] = "escape" =>
       StepsLeft(t) = IF job[t] = "answer" THEN 7 ELSE 4
  /\ pc[t] = "reply" /\ atCommand = "+++" =>
       StepsLeft(t) = IF job[t] = "answer" THEN 6 ELSE 3
  /\ pc[t] = "send" =>
       StepsLeft(t) = IF job[t] = "answer" THEN 5 ELSE 2
  /\ pc[t] = "reply" /\ atCommand # "+++" =>
       StepsLeft(t) = IF job[t] = "answer" THEN 4 ELSE 1
  /\ pc[t] = "stopped" =>
       StepsLeft(t) = IF job[t] \in {"answer", "reject"} THEN 9 ELSE 1
  /\ pc[t] = "announce" => StepsLeft(t) = 3
  /\ pc[t] = "arm" => StepsLeft(t) = 2
  /\ pc[t] = "ampOff" =>
       StepsLeft(t) = CASE job[t] = "answer" -> 3
                        [] job[t] = "ended" -> 4 [] OTHER -> 8
  /\ pc[t] = "route" =>
       StepsLeft(t) = CASE job[t] = "answer" -> 2
                        [] job[t] = "ended" -> 3 [] OTHER -> 7
  /\ pc[t] = "ampOn" =>
       StepsLeft(t) = CASE job[t] = "answer" -> 1
                        [] job[t] = "ended" -> 2 [] OTHER -> 6

LEMMA LeftAt ==
  ASSUME NEW t \in Tasks
  PROVE  LeftTable(t)
  BY DEF LeftTable, StepsLeft, ExchangeLeft, SwitchLeft

LEMMA LeftAtNext ==
  ASSUME NEW t \in Tasks
  PROVE  LeftTable(t)'
  BY DEF LeftTable, StepsLeft, ExchangeLeft, SwitchLeft

\* A step of the task itself.
LEMMA OwnStep ==
  ASSUME ExchangeInv, NEW t \in Tasks, Step(t) \/ TakeAtMutex(t)
  PROVE  StepsLeft(t)' < StepsLeft(t)
  <1>0. /\ job \in [Tasks -> Jobs] /\ pc \in [Tasks -> Places]
        /\ job[t] \in JobsAt(pc[t])
    BY DEF ExchangeInv, TypeOK
  <1>1. ASSUME Return(t), pc[t] # "idle"
        PROVE  StepsLeft(t)' < StepsLeft(t)
    <2>1. pc'[t] = "idle"
      BY <1>0, <1>1 DEF Return, Begin
    <2>2. pc[t] \in Places \ {"idle"}
      BY <1>0, <1>1
    <2> QED
      BY <2>1, <2>2, LeftAt, LeftAtNext DEF LeftTable, Places
  <1>2. ASSUME NEW p, Goto(t, p)
        PROVE  pc'[t] = p /\ job'[t] = job[t]
    BY <1>0, <1>2 DEF Goto
  <1>3. CASE TakeAtMutex(t)
    BY <1>2, <1>3, LeftAt, LeftAtNext DEF LeftTable, TakeAtMutex, At
  <1>4. CASE RingStopped(t)
    <2>1. CASE Goto(t, "take") /\ job[t] \in {"answer", "reject"}
      BY <1>2, <1>4, <2>1, LeftAt, LeftAtNext DEF LeftTable, RingStopped, At
    <2> QED
      BY <1>1, <1>4, <2>1 DEF RingStopped, At
  <1>5. CASE AmpOff(t)
    BY <1>2, <1>5, LeftAt, LeftAtNext DEF LeftTable, AmpOff, At
  <1>6. CASE SwitchRoute(t)
    BY <1>2, <1>6, LeftAt, LeftAtNext DEF LeftTable, SwitchRoute, At
  <1>7. CASE AmpOnAnswer(t)
    BY <1>1, <1>7 DEF AmpOnAnswer, At
  <1>8. CASE AmpOnExchange(t)
    BY <1>2, <1>8, LeftAt, LeftAtNext DEF LeftTable, AmpOnExchange, At
  <1>9. CASE AmpOnEnded(t)
    <2>1. CASE Goto(t, "stopped")
      BY <1>2, <1>9, <2>1, LeftAt, LeftAtNext DEF LeftTable, AmpOnEnded, At
    <2> QED
      BY <1>1, <1>9, <2>1 DEF AmpOnEnded, At
  <1>10. CASE SendCommand(t)
    <2>1. CASE At(t, "escape") /\ atCommand' = "+++" /\ TakeParser(t)
      BY <1>2, <2>1, LeftAt, LeftAtNext DEF LeftTable, TakeParser, At
    <2>2. CASE At(t, "send") /\ atCommand' = Command(job[t]) /\ TakeParser(t)
      <3>1. atCommand' # "+++"
        BY <2>2 DEF Command
      <3> QED
        BY <1>2, <2>2, <3>1, LeftAt, LeftAtNext DEF LeftTable, TakeParser, At
    <2>3. CASE At(t, "escape") /\ Goto(t, "send")
      BY <1>2, <2>3, LeftAt, LeftAtNext DEF LeftTable, At
    <2>4. CASE At(t, "send") /\ Return(t)
      BY <1>1, <2>4 DEF At
    <2> QED
      BY <1>10, <2>1, <2>2, <2>3, <2>4 DEF SendCommand
  <1>11. ASSUME NEW ok \in BOOLEAN, Reply(t, ok)
         PROVE  StepsLeft(t)' < StepsLeft(t)
    <2>1. CASE atCommand = "+++" /\ Goto(t, "send")
      BY <1>2, <1>11, <2>1, LeftAt, LeftAtNext DEF LeftTable, Reply, At
    <2>2. CASE job[t] = "answer" /\ Goto(t, "ampOff")
      BY <1>2, <1>11, <2>2, LeftAt, LeftAtNext DEF LeftTable, Reply, At
    <2> QED
      BY <1>1, <1>11, <2>1, <2>2 DEF Reply, At
  <1> QED
    BY <1>3, <1>4, <1>5, <1>6, <1>7, <1>8, <1>9, <1>10, <1>11 DEF Step

LEMMA GetsOnStep ==
  ASSUME ExchangeInv, [Next]_vars, NEW t \in Tasks, job[t] # "none"
  PROVE  GetsOn(t)
  <1>0. /\ "rx" \in Tasks /\ "btn" \in Tasks
        /\ job \in [Tasks -> Jobs] /\ pc \in [Tasks -> Places]
        /\ pc[t] # "idle"
    BY DEF ExchangeInv, TypeOK, Tasks, JobsAt
  <1>1. ASSUME NEW u \in Tasks, Step(u) \/ TakeAtMutex(u)
        PROVE  GetsOn(t)
    <2>1. CASE u = t
      BY <1>1, <2>1, OwnStep DEF GetsOn
    <2>2. CASE u # t
      <3>1. UNCHANGED <<job[t], pc[t]>>
        BY <1>0, <1>1, <2>2
        DEF Step, TakeAtMutex, RingStopped, AmpOff, SwitchRoute, AmpOnAnswer,
            AmpOnExchange, AmpOnEnded, SendCommand, TakeParser, Reply, Goto,
            Return, Begin
      <3>2. pc[u] \in {"escape", "send", "reply"} \/ UNCHANGED atCommand
        BY <1>1 DEF Step, TakeAtMutex, RingStopped, AmpOff, SwitchRoute,
                    AmpOnAnswer, AmpOnExchange, AmpOnEnded, SendCommand,
                    Reply, At, atVars
      <3>3. pc[t] = "reply" => UNCHANGED atCommand
        BY <2>2, <3>2 DEF ExchangeInv, HolderOK
      <3> QED
        BY <3>1, <3>3, OthersStand
    <2> QED
      BY <2>1, <2>2
  <1>2. ASSUME NEW u \in Tasks, Idle(u), NEW j, NEW p, Begin(u, j, p),
               UNCHANGED atCommand
        PROVE  GetsOn(t)
    <2>1. UNCHANGED <<job[t], pc[t]>>
      BY <1>0, <1>2 DEF Begin, Idle
    <2> QED
      BY <1>2, <2>1, OthersStand
  <1>3. CASE \E u \in Tasks : at_make_phone_call(u)
    BY <1>2, <1>3 DEF at_make_phone_call, atVars
  <1>4. CASE Keys
    BY <1>0, <1>2, <1>4 DEF Keys, PressAnswer, PressReject, PressHangup, atVars
  <1>5. CASE UNCHANGED <<atCommand, taskVars>>
    BY <1>5, OthersStand DEF taskVars
  <1>6. CASE UrcNoCarrier \/ UrcIncoming
    BY <1>0, <1>2, <1>5, <1>6
    DEF UrcNoCarrier, UrcIncoming, UrcReady, atVars
  <1>7. CASE Announce \/ ArmHangupTimer
    <2>1. CASE t = "rx"
      <3>1. CASE Announce
        <4>1. pc["rx"] = "announce" /\ pc'["rx"] = "arm"
          BY <1>0, <3>1 DEF Announce, At, Goto
        <4> QED
          BY <2>1, <4>1, LeftAt, LeftAtNext DEF LeftTable, GetsOn
      <3>2. CASE ArmHangupTimer
        <4>1. /\ pc["rx"] = "arm" /\ job["rx"] = "incoming"
              /\ \/ pc'["rx"] = "idle"
                 \/ pc'["rx"] = "stopped" /\ job'["rx"] = "incoming"
          BY <1>0, <3>2 DEF ArmHangupTimer, At, Goto, Return, Begin,
                            ExchangeInv, TypeOK, JobsAt
        <4> QED
          BY <2>1, <4>1, LeftAt, LeftAtNext DEF LeftTable, GetsOn
      <3> QED
        BY <1>7, <3>1, <3>2
    <2>2. CASE t # "rx"
      <3>1. UNCHANGED <<job[t], pc[t], atCommand>>
        BY <1>0, <1>7, <2>2
        DEF Announce, ArmHangupTimer, Goto, Return, Begin, atVars
      <3> QED
        BY <3>1, OthersStand
    <2> QED
      BY <2>1, <2>2
  <1>8. Next => \/ \E u \in Tasks :
                     Step(u) \/ TakeAtMutex(u) \/ at_make_phone_call(u)
                \/ Keys \/ UrcNoCarrier \/ UrcIncoming
                \/ Announce \/ ArmHangupTimer
                \/ UNCHANGED <<atCommand, taskVars>>
    BY DEF Next, Urc, SwallowUrc, UrcOutgoing, auto_hangup_timer_callback,
           call_manager_process_events, Environment, IncomingCall, ReportCall,
           RemoteHangup, ModemLost, ModemBack, LinkTaskSends, LinkTaskDone,
           atVars
  <1> QED
    BY <1>1, <1>3, <1>4, <1>5, <1>6, <1>7, <1>8 DEF vars, atVars

\* The measure cannot sink for ever.
LEMMA StepsBounded ==
  ASSUME NEW t \in Tasks PROVE StepsLeft(t) \in 0..9
  BY DEF StepsLeft, ExchangeLeft, SwitchLeft

\* Nobody sets a job back: each of its steps leaves fewer of at most nine to come.
\* With NeverAtStandstill this is the safety half of "every job comes to its
\* end"; the other half is the scheduler's.
THEOREM JobsAlwaysGetOn == Spec => JobsGetOn
  <1>1. ExchangeInv /\ [Next]_vars
          => [\A t \in Tasks :
                job[t] # "none" =>
                  \/ StepsLeft(t)' < StepsLeft(t)
                  \/ UNCHANGED <<job[t], pc[t], StepsLeft(t)>>]_vars
    BY GetsOnStep DEF GetsOn
  <1> QED
    BY <1>1, ExchangeAlways, PTL DEF Spec, JobsGetOn
=============================================================================
