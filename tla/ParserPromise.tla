--------------------------- MODULE ParserPromise ---------------------------
(***************************************************************************)
(* What the AT parsers promise to the tasks that share them: each is a     *)
(* lock around a piece of memory.  A command owns its parser from its      *)
(* beginning to its end, none begins on a parser that is stopped, and the  *)
(* memory is not given back while a command owns it, nor ever used again.  *)
(***************************************************************************)

CONSTANTS
  Parsers, \* pieces of memory a parser may live in
  Senders  \* tasks that send commands

VARIABLES
  memory, \* of each parser: "unborn", "live" or "freed"
  owner,  \* the task whose command a parser executes, or "free"
  stopped \* the parser begins no command

vars == <<memory, owner, stopped>>

Init == /\ memory = [p \in Parsers |-> "unborn"]
        /\ owner = [p \in Parsers |-> "free"]
        /\ stopped = [p \in Parsers |-> TRUE]

Create(p) ==
  /\ memory[p] = "unborn"
  /\ memory' = [memory EXCEPT ![p] = "live"]
  /\ UNCHANGED <<owner, stopped>>

StartOrStop(p) ==
  /\ memory[p] = "live"
  /\ stopped' = [stopped EXCEPT ![p] = ~@]
  /\ UNCHANGED <<memory, owner>>

Begin(t, p) ==
  /\ memory[p] = "live"
  /\ owner[p] = "free"
  /\ ~stopped[p]
  /\ owner' = [owner EXCEPT ![p] = t]
  /\ UNCHANGED <<memory, stopped>>

End(p) ==
  /\ memory[p] = "live"
  /\ owner[p] # "free"
  /\ owner' = [owner EXCEPT ![p] = "free"]
  /\ UNCHANGED <<memory, stopped>>

Destroy(p) ==
  /\ memory[p] = "live"
  /\ owner[p] = "free"
  /\ memory' = [memory EXCEPT ![p] = "freed"]
  /\ UNCHANGED <<owner, stopped>>

Next == \E p \in Parsers :
          \/ Create(p) \/ StartOrStop(p) \/ End(p) \/ Destroy(p)
          \/ \E t \in Senders : Begin(t, p)

Spec == Init /\ [][Next]_vars
=============================================================================
