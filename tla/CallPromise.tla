---------------------------- MODULE CallPromise ----------------------------
(***************************************************************************)
(* What the call control promises about its call record, whatever the      *)
(* dialling tasks, the audio switch and the modem do meanwhile: the record *)
(* changes for one of six reasons only, each of them begun in a state that *)
(* allows it.  The end of what was begun may find another state: a key is  *)
(* served for up to minutes, and nobody holds a lock over the record.      *)
(***************************************************************************)

CONSTANTS
  Whitelist, \* the numbers a call may ring for
  Strangers, \* numbers that are stored and do not ring
  Hidden     \* no number

VARIABLES
  call,   \* "IDLE", "RINGING", "IN_CALL", "HANGING_UP"
  caller, \* the number stored for it
  key,    \* the key being served: "none", "answer", "reject"
  news    \* what the receive task is telling: "none", "incoming", "ended"

vars == <<call, caller, key, news>>

Init == /\ call = "IDLE"
        /\ caller = Hidden
        /\ key = "none"
        /\ news = "none"

Clear == call' = "IDLE" /\ caller' = Hidden

\* A listed number rings, another is only stored; both when the phone is idle.
Incoming(n) ==
  /\ call = "IDLE"
  /\ news = "none"
  /\ caller' = n
  /\ \/ n \in Whitelist /\ call' = "RINGING" /\ news' = "incoming"
     \/ n \in Strangers /\ UNCHANGED <<call, news>>
  /\ UNCHANGED key

\* The incoming call is announced and its timer runs.
Settled ==
  /\ news = "incoming"
  /\ news' = "none"
  /\ UNCHANGED <<call, caller, key>>

\* Its timer cannot be started: the call is given up, the number is kept.
GivenUp ==
  /\ news = "incoming"
  /\ call' = "IDLE"
  /\ news' = "none"
  /\ UNCHANGED <<caller, key>>

\* The keys serve a ringing call, one key at a time.
Press(k) ==
  /\ call = "RINGING"
  /\ key = "none"
  /\ key' = k
  /\ UNCHANGED <<call, caller, news>>

Answered ==
  /\ key = "answer"
  /\ call' = "IN_CALL"
  /\ key' = "none"
  /\ UNCHANGED <<caller, news>>

Rejected ==
  /\ key = "reject"
  /\ Clear
  /\ key' = "none"
  /\ UNCHANGED news

KeyFailed ==
  /\ key # "none"
  /\ key' = "none"
  /\ UNCHANGED <<call, caller, news>>

\* The network ends a call that rings or is connected, and the record follows.
Ending ==
  /\ call \in {"RINGING", "IN_CALL"}
  /\ news = "none"
  /\ news' = "ended"
  /\ UNCHANGED <<call, caller, key>>

Ended ==
  /\ news = "ended"
  /\ Clear
  /\ news' = "none"
  /\ UNCHANGED key

\* Nobody answered.
TimedOut ==
  /\ call = "RINGING"
  /\ call' = "HANGING_UP"
  /\ UNCHANGED <<caller, key, news>>

Next ==
  \/ \E n \in Whitelist \cup Strangers : Incoming(n)
  \/ Settled \/ GivenUp
  \/ \E k \in {"answer", "reject"} : Press(k)
  \/ Answered \/ Rejected \/ KeyFailed
  \/ Ending \/ Ended
  \/ TimedOut

Spec == Init /\ [][Next]_vars

-----------------------------------------------------------------------------

\* The phone rings for listed numbers only.
RingsForListed == call = "RINGING" => caller \in Whitelist

\* The auto-hangup timer has run out, and nothing begun before is left that
\* could still change the record.
Stuck == call = "HANGING_UP" /\ key = "none" /\ news = "none"

\* Such a record is never used again: no call rings and no key is served.
StuckForGood == [][Stuck => Stuck']_vars
=============================================================================
