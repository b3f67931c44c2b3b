------------------------------ MODULE AtParser ------------------------------
(***************************************************************************)
(* The AT command parser of the 4G modem (modem_at_parser.c) and the life  *)
(* of its handle in usb_rndis_4g_module.c: at_init, at_deinit_context, the *)
(* port's receive and closed callbacks.                                    *)
(*                                                                         *)
(* Tasks: "rx" is the USB client task that runs the port's callbacks,      *)
(* "link" the 4G link task that creates, uses and destroys parsers through *)
(* g_at_ctx.at_handle, Callers those that send through g_at_handle.        *)
(*                                                                         *)
(* A parser is memory: a number in Parsers, unborn, live or freed, and 0   *)
(* stands for NULL.  What happens after the first access to a freed parser *)
(* or call through NULL is undefined, and the model stops there.           *)
(***************************************************************************)
EXTENDS Naturals

CONSTANTS
  Callers,    \* tasks that send commands through g_at_handle
  MaxParsers, \* bound: parsers created
  MaxOwed     \* bound: answers the modem has not delivered yet

ASSUME CallersDistinct == Callers \cap {"rx", "link", "free", "none"} = {}
ASSUME ParserBound == MaxParsers \in Nat \ {0}
ASSUME OwedBound == MaxOwed \in Nat \ {0}

Senders == Callers \cup {"link"}
Tasks   == Senders \cup {"rx"}
Parsers == 1..MaxParsers
NULL    == 0

VARIABLES
  heap,       \* whether a parser's memory is unborn, live or freed
  lock,       \* send_cmd_lock: its holder or "free"
  handler,    \* handle_line and its context: whose command, or "none"
  rsp,        \* AT_COMMAND_RSP_BIT
  stopped,    \* AT_COMMAND_STOPPED_BIT
  ctxHandle,  \* g_at_ctx.at_handle
  ctxPort,    \* g_at_ctx.cdc_port # NULL
  gHandle,    \* g_at_handle
  owed,       \* external: answers on their way
  arg,        \* the parser a task works with
  line,       \* what "rx" has read: an answer or an unsolicited line
  pc,         \* where each task is
  undefined   \* "no", or how the program left defined behaviour

parserVars == <<heap, lock, handler, rsp, stopped>>
handleVars == <<ctxHandle, ctxPort, gHandle>>
vars == <<parserVars, handleVars, owed, arg, line, pc, undefined>>

Defined(t, p) == undefined = "no" /\ pc[t] = p
Live(t)       == heap[arg[t]] = "live"
Goto(t, p)    == pc' = [pc EXCEPT ![t] = p]
Work(t, h, p) == arg' = [arg EXCEPT ![t] = h] /\ Goto(t, p)
Return(t)     == Work(t, NULL, "idle")

-----------------------------------------------------------------------------
(* modem_at_send_command.                                                  *)

\* Variant: the handle is not compared with NULL.
BeginUnchecked(t) ==
  /\ Defined(t, "idle")
  /\ Work(t, IF t = "link" THEN ctxHandle ELSE gHandle, "lock")
  /\ UNCHANGED <<parserVars, handleVars, owed, line, undefined>>

\* The caller reads its handle; without one the command fails at once.
BeginCommand(t) ==
  /\ Defined(t, "idle")
  /\ LET h == IF t = "link" THEN ctxHandle ELSE gHandle IN
       h # NULL /\ Work(t, h, "lock")
  /\ UNCHANGED <<parserVars, handleVars, owed, line, undefined>>

\* Variant: the STOPPED bit is not looked at.
SendThoughStopped(t) ==
  /\ Defined(t, "lock")
  /\ Live(t)
  /\ LET p == arg[t] IN
       /\ lock[p] = "free"
       /\ lock' = [lock EXCEPT ![p] = t]
       /\ handler' = [handler EXCEPT ![p] = t]
       /\ Goto(t, "wait")
       /\ UNCHANGED arg
  /\ UNCHANGED <<heap, rsp, stopped, handleVars, owed, line, undefined>>

\* send_cmd_lock is taken.  A stopped or busy parser refuses; otherwise the
\* command's handler is installed and the command written, and the modem may
\* get it and answer, or not.
SendCommand(t) ==
  /\ Defined(t, "lock")
  /\ Live(t)
  /\ LET p == arg[t] IN
       /\ lock[p] = "free"
       /\ IF stopped[p] \/ handler[p] # "none"
            THEN Return(t) /\ UNCHANGED <<lock, handler, owed>>
            ELSE /\ lock' = [lock EXCEPT ![p] = t]
                 /\ handler' = [handler EXCEPT ![p] = t]
                 /\ Goto(t, "wait")
                 /\ \/ UNCHANGED owed
                    \/ ctxPort /\ owed < MaxOwed /\ owed' = owed + 1
                 /\ UNCHANGED arg
  /\ UNCHANGED <<heap, rsp, stopped, handleVars, line, undefined>>

\* xEventGroupWaitBits returns, on a bit or on the timeout, and the RSP bit is
\* cleared.
Wake(t) ==
  /\ Defined(t, "wait")
  /\ Live(t)
  /\ rsp' = [rsp EXCEPT ![arg[t]] = FALSE]
  /\ Goto(t, "cleanup")
  /\ UNCHANGED <<heap, lock, handler, stopped, handleVars, owed, arg, line,
                 undefined>>

\* Variant: the handler is left installed.
CleanupKeepsHandler(t) ==
  /\ Defined(t, "cleanup")
  /\ Live(t)
  /\ lock' = [lock EXCEPT ![arg[t]] = "free"]
  /\ Return(t)
  /\ UNCHANGED <<heap, handler, rsp, stopped, handleVars, owed, line,
                 undefined>>

\* Variant: the error exit skips xSemaphoreGive.
CleanupKeepsLock(t) ==
  /\ Defined(t, "cleanup")
  /\ Live(t)
  /\ handler' = [handler EXCEPT ![arg[t]] = "none"]
  /\ Return(t)
  /\ UNCHANGED <<heap, lock, rsp, stopped, handleVars, owed, line, undefined>>

\* The exit of modem_at_send_command.
Cleanup(t) ==
  /\ Defined(t, "cleanup")
  /\ Live(t)
  /\ handler' = [handler EXCEPT ![arg[t]] = "none"]
  /\ lock' = [lock EXCEPT ![arg[t]] = "free"]
  /\ Return(t)
  /\ UNCHANGED <<heap, rsp, stopped, handleVars, owed, line, undefined>>

-----------------------------------------------------------------------------
(* _at_recv_data_cb and modem_at_write_response_done, in "rx".             *)

\* The reads of the handle in the callback are taken as one: none of the calls
\* between them blocks.
Receive(l) ==
  /\ Defined("rx", "idle")
  /\ ctxPort /\ ctxHandle # NULL
  /\ l = "answer" => owed > 0
  /\ owed' = IF l = "answer" THEN owed - 1 ELSE owed
  /\ line' = l
  /\ Work("rx", ctxHandle, "parse")
  /\ UNCHANGED <<parserVars, handleVars, undefined>>

\* The data are dropped when the parser is stopped, its buffer full or the line
\* not complete; otherwise a parser without a command calls the handler of
\* unsolicited lines, one with a command that command's handler.
Parse ==
  /\ Defined("rx", "parse")
  /\ Live("rx")
  /\ LET p == arg["rx"] IN
       \/ Return("rx")
       \/ /\ ~stopped[p]
          /\ Goto("rx", IF handler[p] = "none" THEN "urc" ELSE "handler")
          /\ UNCHANGED arg
  /\ UNCHANGED <<parserVars, handleVars, owed, line, undefined>>

\* The command's handler takes the line; an answer, OK or ERROR, completes the
\* command.  The command may have given up since the check in Parse: then the
\* pointer called is NULL.
HandleLine ==
  /\ Defined("rx", "handler")
  /\ Live("rx")
  /\ IF handler[arg["rx"]] = "none"
       THEN undefined' = "null call" /\ UNCHANGED rsp
       ELSE /\ rsp' = [rsp EXCEPT ![arg["rx"]] = @ \/ line = "answer"]
            /\ UNCHANGED undefined
  /\ Return("rx")
  /\ UNCHANGED <<heap, lock, handler, stopped, handleVars, owed, line>>

\* at_handle_unsolicited_response returns and the buffer is cleared.
UrcDone ==
  /\ Defined("rx", "urc")
  /\ Live("rx")
  /\ Return("rx")
  /\ UNCHANGED <<parserVars, handleVars, owed, line, undefined>>

-----------------------------------------------------------------------------
(* _at_port_closed_cb in "rx", at_deinit_context in "link".                *)

\* The device is gone: the USB client task closes the port.  The callback stops
\* the parser and goes on to destroy it; the reads of the handle up to there
\* are taken as one.
at_port_closed_cb ==
  /\ Defined("rx", "idle")
  /\ ctxPort
  /\ ctxPort' = FALSE
  /\ owed' = 0
  /\ IF ctxHandle = NULL
       THEN UNCHANGED <<stopped, arg, pc, undefined>>
       ELSE IF heap[ctxHandle] = "freed"
         THEN undefined' = "freed" /\ UNCHANGED <<stopped, arg, pc>>
         ELSE /\ stopped' = [stopped EXCEPT ![ctxHandle] = TRUE]
              /\ Work("rx", ctxHandle, "destroy")
              /\ UNCHANGED undefined
  /\ UNCHANGED <<heap, lock, handler, rsp, ctxHandle, gHandle, line>>

\* The link task takes the context away, closes the port, and only then stops
\* the parser.
at_deinit_context ==
  /\ Defined("link", "idle") \/ Defined("link", "failed")
  /\ ctxHandle' = NULL
  /\ ctxPort' = FALSE
  /\ gHandle' = IF gHandle = ctxHandle THEN NULL ELSE gHandle
  /\ owed' = 0
  /\ IF ctxHandle # NULL THEN Work("link", ctxHandle, "stop")
                         ELSE Return("link")
  /\ UNCHANGED <<parserVars, line, undefined>>

modem_at_stop ==
  /\ Defined("link", "stop")
  /\ Live("link")
  /\ stopped' = [stopped EXCEPT ![arg["link"]] = TRUE]
  /\ Goto("link", "destroy")
  /\ UNCHANGED <<heap, lock, handler, rsp, handleVars, owed, arg, line,
                 undefined>>

\* Variant: the destructor does not wait for send_cmd_lock.
DestroyAtOnce(t) ==
  /\ Defined(t, "destroy")
  /\ Live(t)
  /\ heap' = [heap EXCEPT ![arg[t]] = "freed"]
  /\ IF t = "rx" THEN Goto(t, "clear") /\ UNCHANGED arg ELSE Return(t)
  /\ UNCHANGED <<lock, handler, rsp, stopped, handleVars, owed, line,
                 undefined>>

\* "wait for send command to finish", then free.  The callers have just stopped
\* the parser, so that it does not refuse.
modem_at_parser_destroy(t) ==
  /\ Defined(t, "destroy")
  /\ Live(t)
  /\ lock[arg[t]] = "free"
  /\ heap' = [heap EXCEPT ![arg[t]] = "freed"]
  /\ IF t = "rx" THEN Goto(t, "clear") /\ UNCHANGED arg ELSE Return(t)
  /\ UNCHANGED <<lock, handler, rsp, stopped, handleVars, owed, line,
                 undefined>>

\* Variant: only the context's handle is cleared.
ClearContextOnly ==
  /\ Defined("rx", "clear")
  /\ ctxHandle' = NULL
  /\ Return("rx")
  /\ UNCHANGED <<parserVars, ctxPort, gHandle, owed, line, undefined>>

\* The end of the closed callback: the handles are cleared after the free.
ClearHandles ==
  /\ Defined("rx", "clear")
  /\ ctxHandle' = NULL
  /\ gHandle' = IF gHandle = arg["rx"] THEN NULL ELSE gHandle
  /\ Return("rx")
  /\ UNCHANGED <<parserVars, ctxPort, owed, line, undefined>>

-----------------------------------------------------------------------------
(* at_init in "link".                                                      *)

\* A new parser, stopped, in a fresh context.  A context still in use is taken
\* down first, which is at_deinit_context above.
modem_at_parser_create(p) ==
  /\ Defined("link", "idle")
  /\ ~ctxPort /\ ctxHandle = NULL
  /\ heap[p] = "unborn"
  /\ heap' = [heap EXCEPT ![p] = "live"]
  /\ ctxHandle' = p
  /\ Goto("link", "open")
  /\ UNCHANGED <<lock, handler, rsp, stopped, ctxPort, gHandle, owed, arg,
                 line, undefined>>

\* The port opens or not; without a CDC handle the parser is freed again.
OpenPort ==
  /\ Defined("link", "open")
  /\ \/ /\ ctxPort' = TRUE
        /\ Goto("link", "publish")
        /\ UNCHANGED <<heap, ctxHandle>>
     \/ /\ Goto("link", "failed")
        /\ UNCHANGED <<heap, ctxHandle, ctxPort>>
     \/ /\ heap' = [heap EXCEPT ![ctxHandle] = "freed"]
        /\ ctxHandle' = NULL
        /\ Goto("link", "idle")
        /\ UNCHANGED ctxPort
  /\ UNCHANGED <<lock, handler, rsp, stopped, gHandle, owed, arg, line,
                 undefined>>

\* g_at_handle is set before the parser is started, from a context that the
\* closed callback may have cleared again.
Publish ==
  /\ Defined("link", "publish")
  /\ gHandle' = ctxHandle
  /\ Goto("link", "start")
  /\ UNCHANGED <<parserVars, ctxHandle, ctxPort, owed, arg, line, undefined>>

\* The context is read once more.
modem_at_start ==
  /\ Defined("link", "start")
  /\ IF ctxHandle = NULL
       THEN Goto("link", "failed") /\ UNCHANGED <<stopped, undefined>>
       ELSE IF heap[ctxHandle] = "freed"
         THEN undefined' = "freed" /\ UNCHANGED <<stopped, pc>>
         ELSE /\ stopped' = [stopped EXCEPT ![ctxHandle] = FALSE]
              /\ Goto("link", "idle")
              /\ UNCHANGED undefined
  /\ UNCHANGED <<heap, lock, handler, rsp, handleVars, owed, arg, line>>

-----------------------------------------------------------------------------

\* The places where a task works on its parser's memory.
Inside == {"lock", "wait", "cleanup", "parse", "handler", "urc", "stop",
           "destroy"}

\* A task touches, or sleeps on a semaphore of, a parser that was freed.
UseFreed(t) ==
  /\ undefined = "no"
  /\ pc[t] \in Inside
  /\ heap[arg[t]] = "freed"
  /\ undefined' = "freed"
  /\ UNCHANGED <<parserVars, handleVars, owed, arg, line, pc>>

Init ==
  /\ heap = [p \in Parsers |-> "unborn"]
  /\ lock = [p \in Parsers |-> "free"]
  /\ handler = [p \in Parsers |-> "none"]
  /\ rsp = [p \in Parsers |-> FALSE]
  /\ stopped = [p \in Parsers |-> TRUE]
  /\ ctxHandle = NULL
  /\ ctxPort = FALSE
  /\ gHandle = NULL
  /\ owed = 0
  /\ arg = [t \in Tasks |-> NULL]
  /\ line = "urc"
  /\ pc = [t \in Tasks |-> "idle"]
  /\ undefined = "no"

Command(t) == Wake(t) \/ Cleanup(t)

Callback == \/ Parse \/ HandleLine \/ UrcDone \/ ClearHandles

Bringup == OpenPort \/ Publish \/ modem_at_start

Next ==
  \/ \E t \in Senders : BeginCommand(t) \/ SendCommand(t) \/ Command(t)
  \/ \E l \in {"answer", "urc"} : Receive(l)
  \/ Callback
  \/ at_port_closed_cb
  \/ at_deinit_context
  \/ modem_at_stop
  \/ \E t \in {"rx", "link"} : modem_at_parser_destroy(t)
  \/ \E p \in Parsers : modem_at_parser_create(p)
  \/ Bringup
  \/ \E t \in Tasks : UseFreed(t)

Spec == Init /\ [][Next]_vars

(***************************************************************************)
(* A task inside the parser keeps running; send_cmd_lock is a FreeRTOS     *)
(* mutex, which wakes a waiter when it is given.  Nobody owes a command, a *)
(* line, a lost device or a new parser.                                    *)
(***************************************************************************)
Fairness ==
  /\ \A t \in Senders : WF_vars(Command(t)) /\ SF_vars(SendCommand(t))
  /\ WF_vars(Callback)
  /\ WF_vars(modem_at_stop)
  /\ \A t \in {"rx", "link"} : SF_vars(modem_at_parser_destroy(t))
  /\ \A t \in Tasks : WF_vars(UseFreed(t))

FairSpec == Spec /\ Fairness

-----------------------------------------------------------------------------

\* The type invariant of the parsers, the handles and the tasks.
TypeOK ==
  /\ heap \in [Parsers -> {"unborn", "live", "freed"}]
  /\ lock \in [Parsers -> Senders \cup {"free"}]
  /\ handler \in [Parsers -> Senders \cup {"none"}]
  /\ rsp \in [Parsers -> BOOLEAN]
  /\ stopped \in [Parsers -> BOOLEAN]
  /\ ctxHandle \in Parsers \cup {NULL}
  /\ ctxPort \in BOOLEAN
  /\ gHandle \in Parsers \cup {NULL}
  /\ owed \in 0..MaxOwed
  /\ arg \in [Tasks -> Parsers \cup {NULL}]
  /\ line \in {"answer", "urc"}
  /\ pc \in [Tasks -> Inside \cup {"idle", "clear", "open", "publish", "start",
                                   "failed"}]
  /\ undefined \in {"no", "freed", "null call"}
  /\ \A t \in Tasks : pc[t] \in Inside => arg[t] # NULL

\* A parser serves one command at a time, and a handler, whose context lives on
\* the sender's stack, is installed only while its sender is inside
\* modem_at_send_command with the lock.
HandlerHasItsSender ==
  \A p \in Parsers : \A t \in Senders :
    handler[p] = t => /\ lock[p] = t
                      /\ arg[t] = p
                      /\ pc[t] \in {"wait", "cleanup"}

\* A parser is never freed under a task that waits for its answer or cleans up
\* after it: modem_at_parser_destroy waits for the command to finish.
FreedAtRest ==
  \A p \in Parsers : \A t \in Senders :
    heap[p] = "freed" /\ arg[t] = p => pc[t] \notin {"wait", "cleanup"}

\* Whoever takes the module down, g_at_handle does not go on pointing to freed
\* memory: only within the closed callback, between the free and the line that
\* clears it.
GlobalNotLeftDangling ==
  gHandle # NULL /\ heap[gHandle] = "freed" => pc["rx"] = "clear"

Promise == INSTANCE ParserPromise WITH memory <- heap, owner <- lock

\* The parsers keep what ParserPromise says, whoever sends through them, stops
\* them or takes them down meanwhile: among others, a command queued on send_cmd_lock
\* is not begun once the parser is stopped, and the memory that a command is
\* using is not freed.
KeepsPromise == Promise!Spec

\* A command comes to an end, answered or not, with the lock given back, also
\* when the parser is taken down meanwhile.
CommandEnds ==
  \A t \in Senders :
    pc[t] \in {"lock", "wait"} ~> pc[t] = "idle" \/ undefined # "no"

\* Taking the parser down does not hang on a command in progress.
DestroyEnds ==
  \A t \in {"rx", "link"} :
    pc[t] = "destroy" ~> pc[t] # "destroy" \/ undefined # "no"

-----------------------------------------------------------------------------
(* What the comments of the code say and the code does not do.             *)

\* "destroy the parser late, so that all callbacks have finished": nobody is
\* left inside a parser that has been freed.
NoUseAfterFree == undefined # "freed"
=============================================================================
