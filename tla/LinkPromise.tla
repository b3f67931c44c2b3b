---------------------------- MODULE LinkPromise ----------------------------
(***************************************************************************)
(* What the 4G link task promises to the network manager, which knows it   *)
(* by two things only: how far it is and internet_connected.  The flag is  *)
(* set when the link is up, it may change at any time afterwards, and the  *)
(* link is given up only while it is clear.                                *)
(***************************************************************************)

VARIABLES
  phase,   \* "down", "test" of WiFi, "watch" a link that is up, "ended"
  internet \* internet_connected

vars == <<phase, internet>>

Init == phase = "down" /\ internet = FALSE

\* STATE_CONNECTED.
Connect ==
  /\ phase = "down"
  /\ phase' = "test"
  /\ internet' = TRUE

\* WiFi was tested, and 4G made the active network when WiFi did not work.
Tested ==
  /\ phase = "test"
  /\ phase' = "watch"
  /\ UNCHANGED internet

\* The link is lost: it is built up again.
Lost ==
  /\ phase = "watch"
  /\ ~internet
  /\ phase' = "down"
  /\ UNCHANGED internet

\* STATE_ERROR_NO_SIM: the task ends.
End ==
  /\ phase = "down"
  /\ phase' = "ended"
  /\ internet' = FALSE

\* An address comes or goes, or a link that is down is reset.
InternetChanges ==
  /\ internet' = ~internet
  /\ UNCHANGED phase

Next == Connect \/ Tested \/ Lost \/ End \/ InternetChanges

Spec == Init /\ [][Next]_vars
=============================================================================
