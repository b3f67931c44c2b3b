--------------------------- MODULE AtParserProofs ---------------------------
(***************************************************************************)
(* Safety of the AT parser for every set of callers and every number of    *)
(* parsers: a command and its parser's memory, and the handles that are    *)
(* left when a parser is freed.                                            *)
(***************************************************************************)
EXTENDS AtParser, TLAPS

LEMMA TasksAre ==
  /\ "rx" \in Tasks /\ "link" \in Tasks /\ "link" \in Senders
  /\ \A t \in Senders : t \in Tasks /\ t # "rx" /\ t # "free" /\ t # "none"
  /\ \A t \in Tasks : t # "rx" => t \in Senders
  /\ NULL \notin Parsers
  BY CallersDistinct DEF Tasks, Senders, Parsers, NULL

Places == Inside \cup {"idle", "clear", "open", "publish", "start", "failed"}

LEMMA PlacesAre ==
  /\ Inside \subseteq Places
  /\ {"lock", "wait", "cleanup", "parse", "handler", "urc", "stop", "destroy"}
       \subseteq Inside
  /\ {"idle", "clear", "open", "publish", "start", "failed"} \subseteq Places
  /\ {"idle", "clear", "open", "publish", "start", "failed"} \cap Inside = {}
  BY DEF Places, Inside

-----------------------------------------------------------------------------
(* The type invariant by parts.                                            *)

ParserOK ==
  /\ heap \in [Parsers -> {"unborn", "live", "freed"}]
  /\ lock \in [Parsers -> Senders \cup {"free"}]
  /\ handler \in [Parsers -> Senders \cup {"none"}]
  /\ rsp \in [Parsers -> BOOLEAN]
  /\ stopped \in [Parsers -> BOOLEAN]

HandlesOK ==
  /\ ctxHandle \in Parsers \cup {NULL}
  /\ ctxPort \in BOOLEAN
  /\ gHandle \in Parsers \cup {NULL}

OwedOK == owed \in 0..MaxOwed

PlacesOK ==
  /\ arg \in [Tasks -> Parsers \cup {NULL}]
  /\ pc \in [Tasks -> Places]
  /\ \A t \in Tasks : pc[t] \in Inside => arg[t] # NULL

OtherOK ==
  /\ line \in {"answer", "urc"}
  /\ undefined \in {"no", "freed", "null call"}

LEMMA TypeSplit ==
  TypeOK <=> ParserOK /\ HandlesOK /\ OwedOK /\ PlacesOK /\ OtherOK
  BY DEF TypeOK, ParserOK, HandlesOK, OwedOK, PlacesOK, OtherOK, Places

\* A task goes to one place with one parser, or keeps the one it has.
LEMMA WorkIs ==
  ASSUME PlacesOK, NEW t \in Tasks, NEW h \in Parsers \cup {NULL},
         NEW p \in Places, Work(t, h, p), p \in Inside => h # NULL
  PROVE  PlacesOK'
  BY DEF PlacesOK, Work, Goto

LEMMA GotoIs ==
  ASSUME PlacesOK, NEW t \in Tasks, NEW p \in Places, Goto(t, p),
         UNCHANGED arg, p \in Inside => arg[t] # NULL
  PROVE  PlacesOK'
  BY DEF PlacesOK, Goto

LEMMA ReturnIs ==
  ASSUME PlacesOK, NEW t \in Tasks, Return(t)
  PROVE  PlacesOK'
  BY WorkIs, PlacesAre DEF Return

LEMMA TypeInit == Init => TypeOK
  <1> SUFFICES ASSUME Init PROVE TypeOK
    OBVIOUS
  <1>1. ParserOK /\ HandlesOK /\ OtherOK
    BY DEF Init, ParserOK, HandlesOK, OtherOK
  <1>2. OwedOK
    BY OwedBound DEF Init, OwedOK, OwedBound
  <1>3. PlacesOK
    BY PlacesAre DEF Init, PlacesOK
  <1> QED
    BY <1>1, <1>2, <1>3, TypeSplit

LEMMA ParserStep == TypeOK /\ [Next]_vars => ParserOK'
  <1> SUFFICES ASSUME ParserOK, HandlesOK, [Next]_vars PROVE ParserOK'
    BY TypeSplit
  <1> USE DEF ParserOK, parserVars
  <1>1. CASE UNCHANGED vars
    BY <1>1 DEF vars
  <1>2. ASSUME NEW t \in Senders,
               BeginCommand(t) \/ SendCommand(t) \/ Command(t)
        PROVE  ParserOK'
    BY <1>2 DEF BeginCommand, SendCommand, Command, Wake, Cleanup
  <1>3. ASSUME NEW l \in {"answer", "urc"}, Receive(l) PROVE ParserOK'
    BY <1>3 DEF Receive
  <1>4. CASE Callback
    BY <1>4 DEF Callback, Parse, HandleLine, UrcDone, ClearHandles
  <1>5. CASE at_port_closed_cb \/ at_deinit_context \/ modem_at_stop
    BY <1>5 DEF at_port_closed_cb, at_deinit_context, modem_at_stop
  <1>6. ASSUME NEW t \in {"rx", "link"}, modem_at_parser_destroy(t)
        PROVE  ParserOK'
    BY <1>6 DEF modem_at_parser_destroy
  <1>7. ASSUME NEW p \in Parsers, modem_at_parser_create(p) PROVE ParserOK'
    BY <1>7 DEF modem_at_parser_create
  <1>8. CASE Bringup
    BY <1>8 DEF Bringup, OpenPort, Publish, modem_at_start
  <1>9. ASSUME NEW t \in Tasks, UseFreed(t) PROVE ParserOK'
    BY <1>9 DEF UseFreed
  <1> QED
    BY <1>1, <1>2, <1>3, <1>4, <1>5, <1>6, <1>7, <1>8, <1>9 DEF Next

LEMMA HandlesStep == TypeOK /\ [Next]_vars => HandlesOK' /\ OtherOK'
  <1> SUFFICES ASSUME HandlesOK, OtherOK, [Next]_vars
               PROVE  HandlesOK' /\ OtherOK'
    BY TypeSplit
  <1> USE DEF HandlesOK, OtherOK, handleVars
  <1>1. CASE UNCHANGED vars
    BY <1>1 DEF vars
  <1>2. ASSUME NEW t \in Senders,
               BeginCommand(t) \/ SendCommand(t) \/ Command(t)
        PROVE  HandlesOK' /\ OtherOK'
    BY <1>2 DEF BeginCommand, SendCommand, Command, Wake, Cleanup
  <1>3. ASSUME NEW l \in {"answer", "urc"}, Receive(l)
        PROVE  HandlesOK' /\ OtherOK'
    BY <1>3 DEF Receive
  <1>4. CASE Callback
    BY <1>4 DEF Callback, Parse, HandleLine, UrcDone, ClearHandles
  <1>5. CASE at_port_closed_cb \/ at_deinit_context \/ modem_at_stop
    BY <1>5 DEF at_port_closed_cb, at_deinit_context, modem_at_stop
  <1>6. ASSUME NEW t \in {"rx", "link"}, modem_at_parser_destroy(t)
        PROVE  HandlesOK' /\ OtherOK'
    BY <1>6 DEF modem_at_parser_destroy
  <1>7. ASSUME NEW p \in Parsers, modem_at_parser_create(p)
        PROVE  HandlesOK' /\ OtherOK'
    BY <1>7 DEF modem_at_parser_create
  <1>8. CASE Bringup
    BY <1>8 DEF Bringup, OpenPort, Publish, modem_at_start
  <1>9. ASSUME NEW t \in Tasks, UseFreed(t) PROVE HandlesOK' /\ OtherOK'
    BY <1>9 DEF UseFreed
  <1> QED
    BY <1>1, <1>2, <1>3, <1>4, <1>5, <1>6, <1>7, <1>8, <1>9 DEF Next

LEMMA OwedStep == TypeOK /\ [Next]_vars => OwedOK'
  <1> SUFFICES ASSUME OwedOK, [Next]_vars PROVE OwedOK'
    BY TypeSplit
  <1> USE DEF OwedOK
  <1>0. /\ MaxOwed \in Nat
        /\ 0 \in 0..MaxOwed
        /\ owed < MaxOwed => owed + 1 \in 0..MaxOwed
        /\ owed > 0 => owed - 1 \in 0..MaxOwed
    BY OwedBound DEF OwedBound
  <1>1. CASE UNCHANGED owed
    BY <1>1
  <1>2. ASSUME NEW t \in Senders, SendCommand(t) PROVE OwedOK'
    BY <1>0, <1>2 DEF SendCommand
  <1>3. ASSUME NEW l \in {"answer", "urc"}, Receive(l) PROVE OwedOK'
    BY <1>0, <1>3 DEF Receive
  <1>4. CASE at_port_closed_cb \/ at_deinit_context
    BY <1>0, <1>4 DEF at_port_closed_cb, at_deinit_context
  <1>5. ASSUME NEW t \in Tasks,
               \/ t \in Senders /\ (BeginCommand(t) \/ Command(t))
               \/ UseFreed(t)
        PROVE  UNCHANGED owed
    BY <1>5 DEF BeginCommand, Command, Wake, Cleanup, UseFreed
  <1>6. ASSUME Callback \/ modem_at_stop \/ Bringup
        PROVE  UNCHANGED owed
    BY <1>6 DEF Callback, Parse, HandleLine, UrcDone, ClearHandles,
      modem_at_stop, Bringup, OpenPort, Publish, modem_at_start
  <1>7. ASSUME \/ \E t \in {"rx", "link"} : modem_at_parser_destroy(t)
               \/ \E p \in Parsers : modem_at_parser_create(p)
               \/ UNCHANGED vars
        PROVE  UNCHANGED owed
    BY <1>7 DEF modem_at_parser_destroy, modem_at_parser_create, vars
  <1> QED
    BY <1>1, <1>2, <1>3, <1>4, <1>5, <1>6, <1>7, TasksAre DEF Next

LEMMA PlacesStep == TypeOK /\ [Next]_vars => PlacesOK'
  <1> SUFFICES ASSUME PlacesOK, HandlesOK, [Next]_vars PROVE PlacesOK'
    BY TypeSplit
  <1>0. ASSUME UNCHANGED <<arg, pc>> PROVE PlacesOK'
    BY <1>0 DEF PlacesOK
  <1>1. ASSUME NEW t \in Tasks, NEW p \in Inside, Defined(t, p)
        PROVE  arg[t] \in Parsers /\ arg[t] # NULL
    BY <1>1 DEF PlacesOK, Defined
  <1>2. ASSUME NEW t \in Senders, BeginCommand(t) PROVE PlacesOK'
    <2>1. PICK h \in {ctxHandle, gHandle} : h # NULL /\ Work(t, h, "lock")
      BY <1>2 DEF BeginCommand
    <2> QED
      BY <2>1, WorkIs, PlacesAre, TasksAre DEF HandlesOK
  <1>3. ASSUME NEW t \in Senders, SendCommand(t) PROVE PlacesOK'
    <2>1. arg[t] # NULL
      BY <1>1, <1>3, PlacesAre, TasksAre DEF SendCommand
    <2>2. Return(t) \/ (Goto(t, "wait") /\ UNCHANGED arg)
      BY <1>3 DEF SendCommand
    <2> QED
      BY <2>1, <2>2, ReturnIs, GotoIs, PlacesAre, TasksAre
  <1>4. ASSUME NEW t \in Senders, Command(t) PROVE PlacesOK'
    <2>1. CASE Wake(t)
      <3>1. arg[t] # NULL
        BY <1>1, <2>1, PlacesAre, TasksAre DEF Wake
      <3> QED
        BY <2>1, <3>1, GotoIs, PlacesAre, TasksAre DEF Wake
    <2>2. CASE Cleanup(t)
      BY <2>2, ReturnIs, TasksAre DEF Cleanup
    <2> QED
      BY <1>4, <2>1, <2>2 DEF Command
  <1>5. ASSUME NEW l \in {"answer", "urc"}, Receive(l) PROVE PlacesOK'
    BY <1>5, WorkIs, PlacesAre, TasksAre DEF Receive, HandlesOK
  <1>6. CASE Callback
    <2>1. CASE Parse
      <3>1. arg["rx"] # NULL
        BY <1>1, <2>1, PlacesAre, TasksAre DEF Parse
      <3>2. Return("rx") \/ \E p \in {"urc", "handler"} :
                              Goto("rx", p) /\ UNCHANGED arg
        BY <2>1 DEF Parse
      <3> QED
        BY <3>1, <3>2, ReturnIs, GotoIs, PlacesAre, TasksAre
    <2>2. CASE HandleLine \/ UrcDone \/ ClearHandles
      BY <2>2, ReturnIs, TasksAre DEF HandleLine, UrcDone, ClearHandles
    <2> QED
      BY <1>6, <2>1, <2>2 DEF Callback
  <1>7. CASE at_port_closed_cb
    <2>1. \/ UNCHANGED <<arg, pc>>
          \/ ctxHandle # NULL /\ Work("rx", ctxHandle, "destroy")
      BY <1>7 DEF at_port_closed_cb
    <2> QED
      BY <1>0, <2>1, WorkIs, PlacesAre, TasksAre DEF HandlesOK
  <1>8. CASE at_deinit_context
    <2>1. \/ Return("link")
          \/ ctxHandle # NULL /\ Work("link", ctxHandle, "stop")
      BY <1>8 DEF at_deinit_context
    <2> QED
      BY <2>1, ReturnIs, WorkIs, PlacesAre, TasksAre DEF HandlesOK
  <1>9. CASE modem_at_stop
    <2>1. arg["link"] # NULL
      BY <1>1, <1>9, PlacesAre, TasksAre DEF modem_at_stop
    <2> QED
      BY <1>9, <2>1, GotoIs, PlacesAre, TasksAre DEF modem_at_stop
  <1>10. ASSUME NEW t \in {"rx", "link"}, modem_at_parser_destroy(t)
         PROVE  PlacesOK'
    <2>1. Return(t) \/ (Goto(t, "clear") /\ UNCHANGED arg)
      BY <1>10 DEF modem_at_parser_destroy
    <2> QED
      BY <2>1, ReturnIs, GotoIs, PlacesAre, TasksAre
  <1>11. ASSUME NEW p \in Parsers, modem_at_parser_create(p) PROVE PlacesOK'
    BY <1>11, GotoIs, PlacesAre, TasksAre DEF modem_at_parser_create
  <1>12. CASE Bringup
    <2>1. \/ UNCHANGED <<arg, pc>>
          \/ \E p \in {"publish", "failed", "idle", "start"} :
               Goto("link", p) /\ UNCHANGED arg
      BY <1>12 DEF Bringup, OpenPort, Publish, modem_at_start
    <2> QED
      BY <1>0, <2>1, GotoIs, PlacesAre, TasksAre
  <1>13. ASSUME UNCHANGED vars \/ \E t \in Tasks : UseFreed(t)
         PROVE  PlacesOK'
    BY <1>0, <1>13 DEF vars, UseFreed
  <1> QED
    BY <1>2, <1>3, <1>4, <1>5, <1>6, <1>7, <1>8, <1>9, <1>10, <1>11, <1>12,
      <1>13 DEF Next

LEMMA TypeStep == TypeOK /\ [Next]_vars => TypeOK'
  <1> SUFFICES ASSUME TypeOK, [Next]_vars PROVE TypeOK'
    OBVIOUS
  <1>1. ParserOK' /\ HandlesOK' /\ OwedOK' /\ PlacesOK' /\ OtherOK'
    BY ParserStep, HandlesStep, OwedStep, PlacesStep
  <1> QED
    BY <1>1 DEF TypeOK, ParserOK, HandlesOK, OwedOK, PlacesOK, OtherOK, Places

\* The variables keep their types for every set of callers and any number of
\* parsers, and a task inside a parser always has one.
THEOREM ParserTypeCorrect == Spec => []TypeOK
  BY TypeInit, TypeStep, PTL DEF Spec

-----------------------------------------------------------------------------
(* A command, its lock and its handler.                                    *)

\* No task has a place with a parser that nobody created.
BornInv ==
  /\ \A t \in Tasks : arg[t] # NULL => heap[arg[t]] # "unborn"
  /\ \A h \in {ctxHandle, gHandle} : h # NULL => heap[h] # "unborn"

\* send_cmd_lock is held by whoever waits for an answer or cleans up after it,
\* and a command's handler is there only with the lock.
LockInv ==
  \A p \in Parsers : \A t \in Senders :
    /\ lock[p] = t <=> arg[t] = p /\ pc[t] \in {"wait", "cleanup"}
    /\ handler[p] = t => lock[p] = t

\* A parser whose port is being opened is known to the link task only.
FreshInv ==
  pc["link"] = "open" =>
    /\ ctxHandle # NULL /\ heap[ctxHandle] = "live"
    /\ ~ctxPort /\ gHandle # ctxHandle
    /\ \A t \in Tasks : arg[t] # ctxHandle

LEMMA BornStep == TypeOK /\ BornInv /\ [Next]_vars => BornInv'
  <1> SUFFICES ASSUME TypeOK, BornInv, [Next]_vars PROVE BornInv'
    OBVIOUS
  <1>1. ASSUME \A p \in Parsers : heap'[p] = "unborn" => heap[p] = "unborn",
               \A t \in Tasks : arg'[t] \in {NULL, arg[t], ctxHandle, gHandle},
               ctxHandle' \in {NULL, ctxHandle},
               gHandle' \in {NULL, gHandle, ctxHandle}
        PROVE  BornInv'
    BY <1>1 DEF BornInv, TypeOK
  <1> DEFINE Same ==
        \A t \in Tasks : arg'[t] \in {NULL, arg[t], ctxHandle, gHandle}
  <1>2. ASSUME NEW t \in Tasks, NEW h \in {NULL, ctxHandle, gHandle},
               arg' = [arg EXCEPT ![t] = h]
        PROVE  Same
    BY <1>2 DEF TypeOK
  <1>3. UNCHANGED arg => Same
    OBVIOUS
  <1> HIDE DEF Same
  <1> USE DEF parserVars, handleVars
  <1>4. CASE UNCHANGED vars
    BY <1>4 DEF vars, BornInv
  <1>5. ASSUME NEW t \in Senders,
               BeginCommand(t) \/ SendCommand(t) \/ Command(t)
        PROVE  BornInv'
    <2>1. Same
      BY <1>2, <1>3, <1>5, TasksAre DEF BeginCommand, SendCommand, Command,
        Wake, Cleanup, Return, Work
    <2>2. UNCHANGED <<heap, ctxHandle, gHandle>>
      BY <1>5 DEF BeginCommand, SendCommand, Command, Wake, Cleanup
    <2> QED
      BY <1>1, <2>1, <2>2 DEF Same
  <1>6. ASSUME NEW l \in {"answer", "urc"}, Receive(l) PROVE BornInv'
    <2>1. Same
      BY <1>2, <1>6, TasksAre DEF Receive, Work
    <2> QED
      BY <1>1, <1>6, <2>1 DEF Same, Receive
  <1>7. CASE Callback
    <2>1. Same
      BY <1>2, <1>3, <1>7, TasksAre DEF Callback, Parse, HandleLine, UrcDone,
        ClearHandles, Return, Work
    <2>2. UNCHANGED heap /\ ctxHandle' \in {NULL, ctxHandle}
          /\ gHandle' \in {NULL, gHandle}
      BY <1>7 DEF Callback, Parse, HandleLine, UrcDone, ClearHandles
    <2> QED
      BY <1>1, <2>1, <2>2 DEF Same
  <1>8. CASE at_port_closed_cb \/ at_deinit_context \/ modem_at_stop
    <2>1. Same
      BY <1>2, <1>3, <1>8, TasksAre DEF at_port_closed_cb, at_deinit_context,
        modem_at_stop, Return, Work
    <2>2. UNCHANGED heap /\ ctxHandle' \in {NULL, ctxHandle}
          /\ gHandle' \in {NULL, gHandle}
      BY <1>8 DEF at_port_closed_cb, at_deinit_context, modem_at_stop
    <2> QED
      BY <1>1, <2>1, <2>2 DEF Same
  <1>9. ASSUME NEW t \in {"rx", "link"}, modem_at_parser_destroy(t)
        PROVE  BornInv'
    <2>1. Same
      BY <1>2, <1>3, <1>9, TasksAre DEF modem_at_parser_destroy, Return, Work
    <2>2. /\ UNCHANGED <<ctxHandle, gHandle>>
          /\ \A p \in Parsers : heap'[p] = "unborn" => heap[p] = "unborn"
      BY <1>9 DEF modem_at_parser_destroy, TypeOK
    <2> QED
      BY <1>1, <2>1, <2>2 DEF Same
  <1>10. ASSUME NEW p \in Parsers, modem_at_parser_create(p) PROVE BornInv'
    BY <1>10 DEF modem_at_parser_create, BornInv, TypeOK
  <1>11. CASE Bringup
    <2>1. UNCHANGED arg /\ ctxHandle' \in {NULL, ctxHandle}
          /\ gHandle' \in {gHandle, ctxHandle}
      BY <1>11 DEF Bringup, OpenPort, Publish, modem_at_start
    <2>2. \A p \in Parsers : heap'[p] = "unborn" => heap[p] = "unborn"
      BY <1>11 DEF Bringup, OpenPort, Publish, modem_at_start, TypeOK
    <2> QED
      BY <1>1, <1>3, <2>1, <2>2 DEF Same
  <1>12. ASSUME NEW t \in Tasks, UseFreed(t) PROVE BornInv'
    BY <1>12 DEF UseFreed, BornInv
  <1> QED
    BY <1>4, <1>5, <1>6, <1>7, <1>8, <1>9, <1>10, <1>11, <1>12 DEF Next

\* A step that moves no sender to or from its command keeps the locks.
LEMMA LockKept ==
  ASSUME LockInv, UNCHANGED <<lock, handler>>,
         \A t \in Senders :
           \/ arg'[t] = arg[t] /\ pc'[t] = pc[t]
           \/ /\ pc[t] \notin {"wait", "cleanup"}
              /\ pc'[t] \notin {"wait", "cleanup"}
           \/ /\ {pc[t], pc'[t]} \subseteq {"wait", "cleanup"}
              /\ arg'[t] = arg[t]
  PROVE  LockInv'
  BY DEF LockInv

LEMMA LockStep == TypeOK /\ LockInv /\ [Next]_vars => LockInv'
  <1> SUFFICES ASSUME TypeOK, LockInv, [Next]_vars PROVE LockInv'
    OBVIOUS
  <1> USE DEF parserVars, handleVars, Defined
  <1>1. ASSUME UNCHANGED <<lock, handler, arg, pc>> PROVE LockInv'
    BY <1>1 DEF LockInv
  <1>2. ASSUME NEW t \in Tasks, UNCHANGED <<lock, handler>>,
               pc[t] \notin {"wait", "cleanup"}, NEW h, NEW p,
               p \notin {"wait", "cleanup"}, Work(t, h, p)
        PROVE  LockInv'
    <2>1. pc'[t] = p
          /\ \A u \in Tasks : u # t => pc'[u] = pc[u] /\ arg'[u] = arg[u]
      BY <1>2 DEF Work, Goto, TypeOK
    <2> QED
      BY <1>2, <2>1, LockKept, TasksAre
  <1>3. ASSUME NEW t \in Tasks, UNCHANGED <<lock, handler, arg>>,
               pc[t] \notin {"wait", "cleanup"}, NEW p,
               p \notin {"wait", "cleanup"}, Goto(t, p)
        PROVE  LockInv'
    <2>1. pc'[t] = p
          /\ \A u \in Tasks : u # t => pc'[u] = pc[u] /\ arg'[u] = arg[u]
      BY <1>3 DEF Goto, TypeOK
    <2> QED
      BY <1>3, <2>1, LockKept, TasksAre
  <1>4. ASSUME NEW t \in Senders, BeginCommand(t) PROVE LockInv'
    BY <1>2, <1>4, TasksAre DEF BeginCommand
  <1>5. ASSUME NEW t \in Senders, SendCommand(t) PROVE LockInv'
    <2>1. CASE Return(t) /\ UNCHANGED <<lock, handler>>
      BY <1>2, <1>5, <2>1, TasksAre DEF SendCommand, Return
    <2>2. CASE /\ lock' = [lock EXCEPT ![arg[t]] = t]
               /\ handler' = [handler EXCEPT ![arg[t]] = t]
               /\ Goto(t, "wait") /\ UNCHANGED arg
      <3>1. lock[arg[t]] = "free" /\ handler[arg[t]] \in Senders \cup {"none"}
            /\ pc[t] = "lock" /\ arg[t] \in Parsers
        BY <1>5, TasksAre, PlacesAre DEF SendCommand, TypeOK
      <3>2. pc'[t] = "wait" /\ \A u \in Tasks : u # t => pc'[u] = pc[u]
        BY <2>2, TasksAre DEF Goto, TypeOK
      <3>3. \A p \in Parsers :
              /\ lock'[p] = IF p = arg[t] THEN t ELSE lock[p]
              /\ handler'[p] = IF p = arg[t] THEN t ELSE handler[p]
        BY <2>2 DEF TypeOK
      <3> QED
        BY <2>2, <3>1, <3>2, <3>3, TasksAre DEF LockInv
    <2> QED
      BY <1>5, <2>1, <2>2 DEF SendCommand
  <1>6. ASSUME NEW t \in Senders, Wake(t) PROVE LockInv'
    <2>1. pc'[t] = "cleanup" /\ \A u \in Tasks : u # t => pc'[u] = pc[u]
      BY <1>6, TasksAre DEF Wake, Goto, TypeOK
    <2>2. UNCHANGED <<lock, handler, arg>> /\ pc[t] = "wait"
      BY <1>6 DEF Wake
    <2> QED
      BY <2>1, <2>2, LockKept, TasksAre
  <1>7. ASSUME NEW t \in Senders, Cleanup(t) PROVE LockInv'
    <2>1. pc[t] = "cleanup" /\ arg[t] \in Parsers
      BY <1>7, TasksAre, PlacesAre DEF Cleanup, TypeOK
    <2>2. /\ pc'[t] = "idle" /\ arg'[t] = NULL
          /\ \A u \in Tasks : u # t => pc'[u] = pc[u] /\ arg'[u] = arg[u]
      BY <1>7, TasksAre DEF Cleanup, Return, Work, Goto, TypeOK
    <2>3. \A p \in Parsers :
            /\ lock'[p] = IF p = arg[t] THEN "free" ELSE lock[p]
            /\ handler'[p] = IF p = arg[t] THEN "none" ELSE handler[p]
      BY <1>7 DEF Cleanup, TypeOK
    <2> QED
      BY <2>1, <2>2, <2>3, TasksAre DEF LockInv
  <1>8. ASSUME NEW l \in {"answer", "urc"}, Receive(l) PROVE LockInv'
    BY <1>2, <1>8, TasksAre DEF Receive
  <1>9. CASE Callback
    <2>1. UNCHANGED <<lock, handler>>
          /\ pc["rx"] \notin {"wait", "cleanup"}
          /\ \/ Return("rx")
             \/ \E p \in {"urc", "handler"} : Goto("rx", p) /\ UNCHANGED arg
      BY <1>9 DEF Callback, Parse, HandleLine, UrcDone, ClearHandles
    <2> QED
      BY <1>2, <1>3, <2>1, TasksAre DEF Return
  <1>10. CASE at_port_closed_cb
    <2>1. UNCHANGED <<lock, handler>> /\ pc["rx"] = "idle"
          /\ \/ UNCHANGED <<arg, pc>>
             \/ Work("rx", ctxHandle, "destroy")
      BY <1>10 DEF at_port_closed_cb
    <2> QED
      BY <1>1, <1>2, <2>1, TasksAre
  <1>11. CASE at_deinit_context
    <2>1. UNCHANGED <<lock, handler>> /\ pc["link"] \in {"idle", "failed"}
          /\ \E p \in {"stop", "idle"}, h \in {ctxHandle, NULL} :
               Work("link", h, p)
      BY <1>11 DEF at_deinit_context, Return
    <2> QED
      BY <1>2, <2>1, TasksAre
  <1>12. CASE modem_at_stop
    BY <1>3, <1>12, TasksAre DEF modem_at_stop
  <1>13. ASSUME NEW t \in {"rx", "link"}, modem_at_parser_destroy(t)
         PROVE  LockInv'
    <2>1. UNCHANGED <<lock, handler>> /\ pc[t] = "destroy"
          /\ (Return(t) \/ (Goto(t, "clear") /\ UNCHANGED arg))
      BY <1>13 DEF modem_at_parser_destroy
    <2> QED
      BY <1>2, <1>3, <2>1, TasksAre DEF Return
  <1>14. ASSUME NEW p \in Parsers, modem_at_parser_create(p) PROVE LockInv'
    BY <1>3, <1>14, TasksAre DEF modem_at_parser_create
  <1>15. CASE Bringup
    <2>1. UNCHANGED <<lock, handler, arg>>
          /\ pc["link"] \in {"open", "publish", "start"}
          /\ \/ UNCHANGED pc
             \/ \E p \in {"publish", "failed", "idle", "start"} :
                  Goto("link", p)
      BY <1>15 DEF Bringup, OpenPort, Publish, modem_at_start
    <2> QED
      BY <1>1, <1>3, <2>1, TasksAre
  <1>16. ASSUME UNCHANGED vars \/ \E t \in Tasks : UseFreed(t)
         PROVE  LockInv'
    BY <1>1, <1>16 DEF vars, UseFreed
  <1> QED
    BY <1>4, <1>5, <1>6, <1>7, <1>8, <1>9, <1>10, <1>11, <1>12, <1>13, <1>14,
      <1>15, <1>16 DEF Next, Command

\* Of a parser that the closed callback destroys, the handle is still in the
\* context, or the link task, which took it, is about to destroy it as well.
LeavingInv ==
  /\ pc["rx"] = "clear" => arg["rx"] # NULL /\ heap[arg["rx"]] = "freed"
  /\ \/ pc["rx"] = "clear"
     \/ pc["rx"] = "destroy" /\ heap[arg["rx"]] = "live"
     => \/ ctxHandle = arg["rx"]
        \/ pc["link"] \in {"stop", "destroy"} /\ arg["link"] = arg["rx"]

\* A parser that the link task destroys has no handle any more.
TakenInv ==
  pc["link"] \in {"stop", "destroy"} => arg["link"] \notin {ctxHandle, gHandle}

\* A handle of a freed parser is there only while the closed callback clears it.
DanglingInv ==
  \A h \in {ctxHandle, gHandle} :
    h # NULL /\ heap[h] = "freed" => pc["rx"] = "clear" /\ arg["rx"] = h

LEMMA FreshStep ==
  TypeOK /\ BornInv /\ LeavingInv /\ FreshInv /\ [Next]_vars => FreshInv'
  <1> SUFFICES ASSUME TypeOK, BornInv, LeavingInv, FreshInv, [Next]_vars
               PROVE  FreshInv'
    OBVIOUS
  <1> USE TasksAre, PlacesAre
          DEF TypeOK, BornInv, LeavingInv, FreshInv, parserVars, handleVars,
            Defined, Live, Return, Work, Goto
  <1>1. CASE UNCHANGED vars
    BY <1>1 DEF vars
  <1>2. ASSUME NEW t \in Senders, BeginCommand(t) PROVE FreshInv'
    BY <1>2 DEF BeginCommand
  <1>3. ASSUME NEW t \in Senders, SendCommand(t) PROVE FreshInv'
    BY <1>3 DEF SendCommand
  <1>4. ASSUME NEW t \in Senders, Wake(t) PROVE FreshInv'
    BY <1>4 DEF Wake
  <1>5. ASSUME NEW t \in Senders, Cleanup(t) PROVE FreshInv'
    BY <1>5 DEF Cleanup
  <1>6. ASSUME NEW l \in {"answer", "urc"}, Receive(l) PROVE FreshInv'
    BY <1>6 DEF Receive
  <1>7. CASE Parse
    BY <1>7 DEF Parse
  <1>8. CASE HandleLine
    BY <1>8 DEF HandleLine
  <1>9. CASE UrcDone
    BY <1>9 DEF UrcDone
  <1>10. CASE ClearHandles
    BY <1>10 DEF ClearHandles
  <1>11. CASE at_port_closed_cb
    BY <1>11 DEF at_port_closed_cb
  <1>12. CASE at_deinit_context
    BY <1>12 DEF at_deinit_context
  <1>13. CASE modem_at_stop
    BY <1>13 DEF modem_at_stop
  <1>14. ASSUME NEW t \in {"rx", "link"}, modem_at_parser_destroy(t)
         PROVE FreshInv'
    BY <1>14 DEF modem_at_parser_destroy
  <1>15. ASSUME NEW p \in Parsers, modem_at_parser_create(p) PROVE FreshInv'
    BY <1>15 DEF modem_at_parser_create
  <1>16. CASE OpenPort
    BY <1>16 DEF OpenPort
  <1>17. CASE Publish
    BY <1>17 DEF Publish
  <1>18. CASE modem_at_start
    BY <1>18 DEF modem_at_start
  <1>19. ASSUME NEW t \in Tasks, UseFreed(t) PROVE FreshInv'
    BY <1>19 DEF UseFreed
  <1> HIDE DEF FreshInv
  <1> QED
    BY <1>1, <1>2, <1>3, <1>4, <1>5, <1>6, <1>7, <1>8, <1>9, <1>10, <1>11,
      <1>12, <1>13, <1>14, <1>15, <1>16, <1>17, <1>18, <1>19
    DEF Next, Command, Callback, Bringup

\* The link task takes the handle out of the context, and nothing else moves.
LEMMA DeinitIs ==
  ASSUME TypeOK, at_deinit_context
  PROVE  /\ pc'["rx"] = pc["rx"] /\ arg'["rx"] = arg["rx"] /\ UNCHANGED heap
         /\ pc["link"] \notin {"stop", "destroy"}
         /\ ctxHandle # NULL => pc'["link"] = "stop" /\ arg'["link"] = ctxHandle
  <1>1. \/ Work("link", ctxHandle, "stop")
        \/ ctxHandle = NULL /\ Work("link", NULL, "idle")
    BY DEF at_deinit_context, Return
  <1>2. /\ pc \in [Tasks -> Places] /\ arg \in [Tasks -> Parsers \cup {NULL}]
        /\ UNCHANGED heap /\ pc["link"] \in {"idle", "failed"}
    BY TypeSplit DEF at_deinit_context, parserVars, Defined, PlacesOK
  <1> QED
    BY <1>1, <1>2, TasksAre DEF Work, Goto

LEMMA LeavingStep ==
  TypeOK /\ BornInv /\ FreshInv /\ LeavingInv /\ [Next]_vars => LeavingInv'
  <1> SUFFICES ASSUME TypeOK, BornInv, FreshInv, LeavingInv, [Next]_vars
               PROVE  LeavingInv'
    OBVIOUS
  <1> USE TasksAre, PlacesAre
          DEF TypeOK, BornInv, FreshInv, LeavingInv, parserVars, handleVars,
            Defined, Live, Return, Work, Goto
  <1>1. CASE UNCHANGED vars
    BY <1>1 DEF vars
  <1>2. ASSUME NEW t \in Senders, BeginCommand(t) PROVE LeavingInv'
    BY <1>2 DEF BeginCommand
  <1>3. ASSUME NEW t \in Senders, SendCommand(t) PROVE LeavingInv'
    BY <1>3 DEF SendCommand
  <1>4. ASSUME NEW t \in Senders, Wake(t) PROVE LeavingInv'
    BY <1>4 DEF Wake
  <1>5. ASSUME NEW t \in Senders, Cleanup(t) PROVE LeavingInv'
    BY <1>5 DEF Cleanup
  <1>6. ASSUME NEW l \in {"answer", "urc"}, Receive(l) PROVE LeavingInv'
    BY <1>6 DEF Receive
  <1>7. CASE Parse
    BY <1>7 DEF Parse
  <1>8. CASE HandleLine
    BY <1>8 DEF HandleLine
  <1>9. CASE UrcDone
    BY <1>9 DEF UrcDone
  <1>10. CASE ClearHandles
    BY <1>10 DEF ClearHandles
  <1>11. CASE at_port_closed_cb
    BY <1>11 DEF at_port_closed_cb
  <1>12. CASE at_deinit_context
    <2>1. pc["rx"] = "destroy" => arg["rx"] # NULL
      OBVIOUS
    <2> QED
      BY <1>12, <2>1, DeinitIs
  <1>13. CASE modem_at_stop
    BY <1>13 DEF modem_at_stop
  <1>14. ASSUME NEW t \in {"rx", "link"}, modem_at_parser_destroy(t)
         PROVE LeavingInv'
    BY <1>14 DEF modem_at_parser_destroy
  <1>15. ASSUME NEW p \in Parsers, modem_at_parser_create(p) PROVE LeavingInv'
    BY <1>15 DEF modem_at_parser_create
  <1>16. CASE OpenPort
    BY <1>16 DEF OpenPort
  <1>17. CASE Publish
    BY <1>17 DEF Publish
  <1>18. CASE modem_at_start
    BY <1>18 DEF modem_at_start
  <1>19. ASSUME NEW t \in Tasks, UseFreed(t) PROVE LeavingInv'
    BY <1>19 DEF UseFreed
  <1> HIDE DEF LeavingInv
  <1> QED
    BY <1>1, <1>2, <1>3, <1>4, <1>5, <1>6, <1>7, <1>8, <1>9, <1>10, <1>11,
      <1>12, <1>13, <1>14, <1>15, <1>16, <1>17, <1>18, <1>19
    DEF Next, Command, Callback, Bringup

LEMMA TakenStep ==
  TypeOK /\ BornInv /\ TakenInv /\ [Next]_vars => TakenInv'
  <1> SUFFICES ASSUME TypeOK, BornInv, TakenInv, [Next]_vars
               PROVE  TakenInv'
    OBVIOUS
  <1> USE TasksAre, PlacesAre
          DEF TypeOK, BornInv, TakenInv, parserVars, handleVars, Defined,
            Live, Return, Work, Goto
  <1>1. CASE UNCHANGED vars
    BY <1>1 DEF vars
  <1>2. ASSUME NEW t \in Senders, BeginCommand(t) PROVE TakenInv'
    BY <1>2 DEF BeginCommand
  <1>3. ASSUME NEW t \in Senders, SendCommand(t) PROVE TakenInv'
    BY <1>3 DEF SendCommand
  <1>4. ASSUME NEW t \in Senders, Wake(t) PROVE TakenInv'
    BY <1>4 DEF Wake
  <1>5. ASSUME NEW t \in Senders, Cleanup(t) PROVE TakenInv'
    BY <1>5 DEF Cleanup
  <1>6. ASSUME NEW l \in {"answer", "urc"}, Receive(l) PROVE TakenInv'
    BY <1>6 DEF Receive
  <1>7. CASE Parse
    BY <1>7 DEF Parse
  <1>8. CASE HandleLine
    BY <1>8 DEF HandleLine
  <1>9. CASE UrcDone
    BY <1>9 DEF UrcDone
  <1>10. CASE ClearHandles
    BY <1>10 DEF ClearHandles
  <1>11. CASE at_port_closed_cb
    BY <1>11 DEF at_port_closed_cb
  <1>12. CASE at_deinit_context
    BY <1>12 DEF at_deinit_context
  <1>13. CASE modem_at_stop
    BY <1>13 DEF modem_at_stop
  <1>14. ASSUME NEW t \in {"rx", "link"}, modem_at_parser_destroy(t)
         PROVE TakenInv'
    BY <1>14 DEF modem_at_parser_destroy
  <1>15. ASSUME NEW p \in Parsers, modem_at_parser_create(p) PROVE TakenInv'
    BY <1>15 DEF modem_at_parser_create
  <1>16. CASE OpenPort
    BY <1>16 DEF OpenPort
  <1>17. CASE Publish
    BY <1>17 DEF Publish
  <1>18. CASE modem_at_start
    BY <1>18 DEF modem_at_start
  <1>19. ASSUME NEW t \in Tasks, UseFreed(t) PROVE TakenInv'
    BY <1>19 DEF UseFreed
  <1> HIDE DEF TakenInv
  <1> QED
    BY <1>1, <1>2, <1>3, <1>4, <1>5, <1>6, <1>7, <1>8, <1>9, <1>10, <1>11,
      <1>12, <1>13, <1>14, <1>15, <1>16, <1>17, <1>18, <1>19
    DEF Next, Command, Callback, Bringup

LEMMA DanglingStep ==
  TypeOK /\ BornInv /\ FreshInv /\ TakenInv /\ LeavingInv /\ DanglingInv
         /\ [Next]_vars => DanglingInv'
  <1> SUFFICES ASSUME TypeOK, BornInv, FreshInv, TakenInv, LeavingInv,
                      DanglingInv, [Next]_vars
               PROVE  DanglingInv'
    OBVIOUS
  <1> USE TasksAre, PlacesAre
          DEF TypeOK, BornInv, FreshInv, TakenInv, LeavingInv, DanglingInv,
            parserVars, handleVars, Defined, Live, Return, Work, Goto
  <1>1. CASE UNCHANGED vars
    BY <1>1 DEF vars
  <1>2. ASSUME NEW t \in Senders, BeginCommand(t) PROVE DanglingInv'
    BY <1>2 DEF BeginCommand
  <1>3. ASSUME NEW t \in Senders, SendCommand(t) PROVE DanglingInv'
    BY <1>3 DEF SendCommand
  <1>4. ASSUME NEW t \in Senders, Wake(t) PROVE DanglingInv'
    BY <1>4 DEF Wake
  <1>5. ASSUME NEW t \in Senders, Cleanup(t) PROVE DanglingInv'
    BY <1>5 DEF Cleanup
  <1>6. ASSUME NEW l \in {"answer", "urc"}, Receive(l) PROVE DanglingInv'
    BY <1>6 DEF Receive
  <1>7. CASE Parse
    BY <1>7 DEF Parse
  <1>8. CASE HandleLine
    BY <1>8 DEF HandleLine
  <1>9. CASE UrcDone
    BY <1>9 DEF UrcDone
  <1>10. CASE ClearHandles
    BY <1>10 DEF ClearHandles
  <1>11. CASE at_port_closed_cb
    BY <1>11 DEF at_port_closed_cb
  <1>12. CASE at_deinit_context
    BY <1>12 DEF at_deinit_context
  <1>13. CASE modem_at_stop
    BY <1>13 DEF modem_at_stop
  <1>14. ASSUME NEW t \in {"rx", "link"}, modem_at_parser_destroy(t)
         PROVE DanglingInv'
    BY <1>14 DEF modem_at_parser_destroy
  <1>15. ASSUME NEW p \in Parsers, modem_at_parser_create(p) PROVE DanglingInv'
    BY <1>15 DEF modem_at_parser_create
  <1>16. CASE OpenPort
    BY <1>16 DEF OpenPort
  <1>17. CASE Publish
    BY <1>17 DEF Publish
  <1>18. CASE modem_at_start
    BY <1>18 DEF modem_at_start
  <1>19. ASSUME NEW t \in Tasks, UseFreed(t) PROVE DanglingInv'
    BY <1>19 DEF UseFreed
  <1> HIDE DEF DanglingInv
  <1> QED
    BY <1>1, <1>2, <1>3, <1>4, <1>5, <1>6, <1>7, <1>8, <1>9, <1>10, <1>11,
      <1>12, <1>13, <1>14, <1>15, <1>16, <1>17, <1>18, <1>19
    DEF Next, Command, Callback, Bringup

\* Nobody holds the lock of a freed parser.
UnlockedInv == \A p \in Parsers : heap[p] = "freed" => lock[p] = "free"

LEMMA UnlockedStep ==
  TypeOK /\ LockInv /\ FreshInv /\ UnlockedInv /\ [Next]_vars => UnlockedInv'
  <1> SUFFICES ASSUME TypeOK, LockInv, FreshInv, UnlockedInv, [Next]_vars
               PROVE  UnlockedInv'
    OBVIOUS
  <1> USE DEF parserVars
  <1>1. ASSUME UNCHANGED <<heap, lock>> PROVE UnlockedInv'
    BY <1>1 DEF UnlockedInv
  <1>2. ASSUME NEW p \in Parsers, heap' = [heap EXCEPT ![p] = "freed"],
               lock[p] = "free", UNCHANGED lock
        PROVE  UnlockedInv'
    BY <1>2 DEF UnlockedInv, TypeOK
  <1>3. ASSUME NEW t \in Senders, SendCommand(t) PROVE UnlockedInv'
    BY <1>1, <1>3 DEF SendCommand, Live, UnlockedInv, TypeOK
  <1>4. ASSUME NEW t \in Senders, Cleanup(t) PROVE UnlockedInv'
    BY <1>4 DEF Cleanup, UnlockedInv, TypeOK
  <1>5. ASSUME NEW t \in Senders, BeginCommand(t) \/ Wake(t)
        PROVE  UnlockedInv'
    BY <1>1, <1>5 DEF BeginCommand, Wake
  <1>6. ASSUME NEW l \in {"answer", "urc"}, Receive(l) PROVE UnlockedInv'
    BY <1>1, <1>6 DEF Receive
  <1>7. CASE Callback
    BY <1>1, <1>7 DEF Callback, Parse, HandleLine, UrcDone, ClearHandles
  <1>8. CASE at_port_closed_cb \/ at_deinit_context \/ modem_at_stop
    BY <1>1, <1>8 DEF at_port_closed_cb, at_deinit_context, modem_at_stop
  <1>9. ASSUME NEW t \in {"rx", "link"}, modem_at_parser_destroy(t)
        PROVE  UnlockedInv'
    <2>1. arg[t] \in Parsers
      BY <1>9, TasksAre, PlacesAre DEF modem_at_parser_destroy, Defined, TypeOK
    <2> QED
      BY <1>2, <1>9, <2>1 DEF modem_at_parser_destroy
  <1>10. ASSUME NEW p \in Parsers, modem_at_parser_create(p)
         PROVE  UnlockedInv'
    BY <1>10 DEF modem_at_parser_create, UnlockedInv, TypeOK
  <1>11. CASE Bringup
    <2>1. CASE UNCHANGED <<heap, lock>>
      BY <1>1, <2>1
    <2>2. CASE /\ heap' = [heap EXCEPT ![ctxHandle] = "freed"]
               /\ pc["link"] = "open" /\ UNCHANGED lock
      <3>1. ctxHandle \in Parsers /\ \A t \in Tasks : arg[t] # ctxHandle
        BY <2>2 DEF FreshInv, TypeOK
      <3>2. \A t \in Senders : lock[ctxHandle] # t
        BY <3>1, TasksAre DEF LockInv
      <3>3. lock[ctxHandle] = "free"
        BY <3>1, <3>2 DEF TypeOK
      <3> QED
        BY <1>2, <2>2, <3>1, <3>3
    <2> QED
      BY <1>11, <2>1, <2>2
      DEF Bringup, OpenPort, Publish, modem_at_start, Defined
  <1>12. ASSUME UNCHANGED vars \/ \E t \in Tasks : UseFreed(t)
         PROVE  UnlockedInv'
    BY <1>1, <1>12 DEF vars, UseFreed
  <1> QED
    BY <1>3, <1>4, <1>5, <1>6, <1>7, <1>8, <1>9, <1>10, <1>11, <1>12
    DEF Next, Command

-----------------------------------------------------------------------------

\* What is known of every state of the parsers.
ParserInv ==
  TypeOK /\ BornInv /\ LockInv /\ FreshInv /\ LeavingInv /\ TakenInv
         /\ DanglingInv /\ UnlockedInv

LEMMA ParserInit == Init => ParserInv
  <1> SUFFICES ASSUME Init PROVE ParserInv
    OBVIOUS
  <1>1. TypeOK
    BY TypeInit
  <1>2. BornInv /\ LockInv /\ UnlockedInv
    BY TasksAre DEF Init, BornInv, LockInv, UnlockedInv
  <1>3. FreshInv /\ LeavingInv /\ TakenInv /\ DanglingInv
    BY TasksAre DEF Init, FreshInv, LeavingInv, TakenInv, DanglingInv
  <1> QED
    BY <1>1, <1>2, <1>3 DEF ParserInv

LEMMA ParserInvStep == ParserInv /\ [Next]_vars => ParserInv'
  <1> SUFFICES ASSUME ParserInv, [Next]_vars PROVE ParserInv'
    OBVIOUS
  <1>1. TypeOK' /\ BornInv' /\ LockInv'
    BY TypeStep, BornStep, LockStep DEF ParserInv
  <1>2. FreshInv' /\ LeavingInv' /\ TakenInv'
    BY FreshStep, LeavingStep, TakenStep DEF ParserInv
  <1>3. DanglingInv' /\ UnlockedInv'
    BY DanglingStep, UnlockedStep DEF ParserInv
  <1> QED
    BY <1>1, <1>2, <1>3 DEF ParserInv

LEMMA ParserInvHolds == Spec => []ParserInv
  BY ParserInit, ParserInvStep, PTL DEF Spec

\* A handler is installed only while its sender is inside the command, for any
\* number of senders and parsers: its context is never left on a dead stack.
THEOREM HandlersHaveSenders == Spec => []HandlerHasItsSender
  <1>1. ParserInv => HandlerHasItsSender
    BY DEF ParserInv, LockInv, HandlerHasItsSender
  <1> QED
    BY <1>1, ParserInvHolds, PTL

\* A parser is never freed under a sender that waits for an answer or cleans up.
THEOREM NoFreeUnderWait == Spec => []FreedAtRest
  <1>1. ParserInv => FreedAtRest
    BY TasksAre DEF ParserInv, LockInv, UnlockedInv, FreedAtRest
  <1> QED
    BY <1>1, ParserInvHolds, PTL

\* Whichever of the two tasks takes the module down first, g_at_handle does not
\* go on pointing to the freed parser.
THEOREM GlobalIsCleared == Spec => []GlobalNotLeftDangling
  <1>1. ParserInv => GlobalNotLeftDangling
    BY DEF ParserInv, DanglingInv, GlobalNotLeftDangling
  <1> QED
    BY <1>1, ParserInvHolds, PTL

-----------------------------------------------------------------------------
(* The refinement: each step is one of ParserPromise on one parser, or     *)
(* leaves memory, locks and STOPPED bits alone.                            *)

LEMMA PromiseInit == Init => Promise!Init
  BY DEF Init, Promise!Init

\* Setting or clearing the STOPPED bit of a live parser.
LEMMA StopIs ==
  ASSUME TypeOK, NEW p \in Parsers, heap[p] = "live", NEW b \in BOOLEAN,
         stopped' = [stopped EXCEPT ![p] = b], UNCHANGED <<heap, lock>>
  PROVE  Promise!Next \/ UNCHANGED Promise!vars
  <1>1. CASE b = stopped[p]
    BY <1>1 DEF TypeOK, Promise!vars
  <1>2. CASE b # stopped[p]
    <2>1. stopped' = [stopped EXCEPT ![p] = ~@]
      BY <1>2 DEF TypeOK
    <2> QED
      BY <2>1 DEF Promise!Next, Promise!StartOrStop
  <1> QED
    BY <1>1, <1>2

LEMMA PromiseStep == ParserInv /\ [Next]_vars => [Promise!Next]_(Promise!vars)
  <1> SUFFICES ASSUME ParserInv, [Next]_vars
               PROVE  Promise!Next \/ UNCHANGED Promise!vars
    OBVIOUS
  <1>0. TypeOK /\ BornInv /\ LockInv /\ FreshInv
    BY DEF ParserInv
  <1>1. ASSUME UNCHANGED <<heap, lock, stopped>>
        PROVE  UNCHANGED Promise!vars
    BY <1>1 DEF Promise!vars
  <1>2. ASSUME NEW t \in Tasks, NEW q \in Inside, Defined(t, q)
        PROVE  arg[t] \in Parsers
    BY <1>0, <1>2 DEF TypeOK, Defined
  <1>3. ASSUME NEW t \in Senders, SendCommand(t)
        PROVE  Promise!Next \/ UNCHANGED Promise!vars
    <2>1. arg[t] \in Parsers /\ heap[arg[t]] = "live"
      BY <1>2, <1>3, PlacesAre, TasksAre DEF SendCommand, Live
    <2>2. CASE UNCHANGED lock
      BY <1>1, <1>3, <2>2 DEF SendCommand
    <2>3. CASE ~stopped[arg[t]] /\ lock' = [lock EXCEPT ![arg[t]] = t]
      BY <1>3, <2>1, <2>3 DEF SendCommand, Promise!Next, Promise!Begin
    <2> QED
      BY <1>3, <2>2, <2>3 DEF SendCommand
  <1>4. ASSUME NEW t \in Senders, Cleanup(t)
        PROVE  Promise!Next \/ UNCHANGED Promise!vars
    <2>1. arg[t] \in Parsers /\ heap[arg[t]] = "live"
      BY <1>2, <1>4, PlacesAre, TasksAre DEF Cleanup, Live
    <2>2. lock[arg[t]] # "free"
      BY <1>0, <1>4, <2>1, TasksAre DEF Cleanup, Defined, LockInv
    <2> QED
      BY <1>4, <2>1, <2>2 DEF Cleanup, Promise!Next, Promise!End
  <1>5. ASSUME NEW t \in {"rx", "link"}, modem_at_parser_destroy(t)
        PROVE  Promise!Next \/ UNCHANGED Promise!vars
    <2>1. arg[t] \in Parsers /\ heap[arg[t]] = "live"
      BY <1>2, <1>5, PlacesAre, TasksAre DEF modem_at_parser_destroy, Live
    <2> QED
      BY <1>5, <2>1
      DEF modem_at_parser_destroy, Promise!Next, Promise!Destroy
  <1>6. ASSUME NEW p \in Parsers, modem_at_parser_create(p)
        PROVE  Promise!Next \/ UNCHANGED Promise!vars
    BY <1>6 DEF modem_at_parser_create, Promise!Next, Promise!Create
  <1>7. CASE OpenPort
    <2>1. CASE UNCHANGED heap
      BY <1>1, <1>7, <2>1 DEF OpenPort
    <2>2. CASE heap' = [heap EXCEPT ![ctxHandle] = "freed"]
      <3>1. /\ ctxHandle \in Parsers /\ heap[ctxHandle] = "live"
            /\ \A t \in Tasks : arg[t] # ctxHandle
        BY <1>0, <1>7 DEF OpenPort, Defined, FreshInv, TypeOK
      <3>2. lock[ctxHandle] = "free"
        <4>1. \A t \in Senders : arg[t] # ctxHandle
          BY <3>1, TasksAre
        <4>2. \A t \in Senders : lock[ctxHandle] # t
          BY <1>0, <3>1, <4>1 DEF LockInv
        <4>3. lock[ctxHandle] \in Senders \cup {"free"}
          BY <1>0, <3>1 DEF TypeOK
        <4> QED
          BY <4>2, <4>3
      <3> QED
        BY <1>7, <2>2, <3>1, <3>2 DEF OpenPort, Promise!Next, Promise!Destroy
    <2> QED
      BY <1>7, <2>1, <2>2 DEF OpenPort
  <1>8. CASE at_port_closed_cb
    <2>1. CASE UNCHANGED stopped
      BY <1>1, <1>8, <2>1 DEF at_port_closed_cb
    <2>2. CASE ctxHandle # NULL /\ heap[ctxHandle] # "freed"
               /\ stopped' = [stopped EXCEPT ![ctxHandle] = TRUE]
      <3>1. ctxHandle \in Parsers /\ heap[ctxHandle] = "live"
        BY <1>0, <2>2 DEF TypeOK, BornInv
      <3> QED
        BY <1>0, <1>8, <2>2, <3>1, StopIs DEF at_port_closed_cb
    <2> QED
      BY <1>8, <2>1, <2>2 DEF at_port_closed_cb
  <1>9. CASE modem_at_stop
    <2>1. arg["link"] \in Parsers /\ heap[arg["link"]] = "live"
      BY <1>2, <1>9, PlacesAre, TasksAre DEF modem_at_stop, Live
    <2> QED
      BY <1>0, <1>9, <2>1, StopIs DEF modem_at_stop
  <1>10. CASE modem_at_start
    <2>1. CASE UNCHANGED stopped
      BY <1>1, <1>10, <2>1 DEF modem_at_start
    <2>2. CASE ctxHandle # NULL /\ heap[ctxHandle] # "freed"
               /\ stopped' = [stopped EXCEPT ![ctxHandle] = FALSE]
      <3>1. ctxHandle \in Parsers /\ heap[ctxHandle] = "live"
        BY <1>0, <2>2 DEF TypeOK, BornInv
      <3> QED
        BY <1>0, <1>10, <2>2, <3>1, StopIs DEF modem_at_start
    <2> QED
      BY <1>10, <2>1, <2>2 DEF modem_at_start
  <1>11. Next => \/ \E t \in Senders : SendCommand(t) \/ Cleanup(t)
                 \/ \E t \in {"rx", "link"} : modem_at_parser_destroy(t)
                 \/ \E p \in Parsers : modem_at_parser_create(p)
                 \/ OpenPort \/ at_port_closed_cb \/ modem_at_stop
                 \/ modem_at_start
                 \/ UNCHANGED <<heap, lock, stopped>>
    BY DEF Next, BeginCommand, Command, Wake, Receive, Callback, Parse,
           HandleLine, UrcDone, ClearHandles, at_deinit_context, Bringup,
           Publish, UseFreed, parserVars
  <1>12. UNCHANGED vars => UNCHANGED <<heap, lock, stopped>>
    BY DEF vars, parserVars
  <1> QED
    BY <1>1, <1>3, <1>4, <1>5, <1>6, <1>7, <1>8, <1>9, <1>10, <1>11, <1>12

\* Every parser is a lock around its memory: one command at a time, none begun
\* on a stopped parser, none in progress when the memory is freed, and freed
\* memory is not touched again, for any callers and any number of parsers.
THEOREM ParsersKeepPromise == Spec => KeepsPromise
  BY PromiseInit, PromiseStep, ParserInvHolds, PTL
  DEF Spec, KeepsPromise, Promise!Spec

-----------------------------------------------------------------------------
(* Waiting.                                                                *)

\* What a task inside a live parser waits for: send_cmd_lock.
Waits(t) == /\ pc[t] \in {"lock", "destroy"}
            /\ arg[t] \in Parsers
            /\ Live(t)
            /\ lock[arg[t]] # "free"

\* Whoever waits for send_cmd_lock, to send or to destroy, waits for a task that
\* has a live parser, holds the lock and is on its way to give it back: no
\* circle of tasks waits for each other, also not the two that take the module
\* down.
THEOREM NobodyWaitsForAWaiter ==
  Spec => [](\A t \in Tasks : Waits(t) =>
               \E u \in Senders : /\ lock[arg[t]] = u
                                  /\ arg[u] = arg[t] /\ Live(u)
                                  /\ pc[u] \in {"wait", "cleanup"})
  <1>1. ParserInv =>
          (\A t \in Tasks : Waits(t) =>
               \E u \in Senders : /\ lock[arg[t]] = u
                                  /\ arg[u] = arg[t] /\ Live(u)
                                  /\ pc[u] \in {"wait", "cleanup"})
    <2> SUFFICES ASSUME ParserInv, NEW t \in Tasks, Waits(t)
                 PROVE  \E u \in Senders : /\ lock[arg[t]] = u
                                           /\ arg[u] = arg[t] /\ Live(u)
                                           /\ pc[u] \in {"wait", "cleanup"}
      OBVIOUS
    <2>1. PICK u \in Senders : lock[arg[t]] = u
      BY DEF Waits, ParserInv, TypeOK
    <2>2. arg[u] = arg[t] /\ pc[u] \in {"wait", "cleanup"}
      BY <2>1 DEF Waits, ParserInv, LockInv
    <2> QED
      BY <2>1, <2>2 DEF Waits, Live
  <1> QED
    BY <1>1, ParserInvHolds, PTL
=============================================================================
