---------------------------- MODULE ContactStore ----------------------------
(***************************************************************************)
(* contact_manager.c: the address book, an array in memory with a copy in  *)
(* flash.                                                                  *)
(*                                                                         *)
(*   "voice"  a thread of the voice agent: a contact is added or changed,  *)
(*            saved, and the whole book is sent to the platform,           *)
(*   "mqtt"   the MQTT client's task, in mqtt_event_callback: the platform *)
(*            replaces the book.                                           *)
(*                                                                         *)
(* Nobody locks.  A step is one use of the array, one write of its size or *)
(* one write to flash, which keeps the count and the array under two keys: *)
(* power may be lost between the two.  A lookup changes nothing and is     *)
(* left out.                                                               *)
(***************************************************************************)
EXTENDS Naturals, Sequences

CONSTANTS
  Names, Phones, \* of contacts
  Room,          \* DEFAULT_CONTACT_COUNT: 10
  Growth,        \* contacts that a full array grows by: 10
  MaxContacts,   \* bound: contacts of a book that still grows
  MaxSynced      \* bound: contacts of a book that the platform sends

ASSUME RoomForTwo == Room \in Nat /\ Room >= 2
ASSUME GrowthPositive == Growth \in Nat \ {0}
ASSUME BookBounds == /\ MaxContacts \in Nat /\ MaxSynced \in Nat \ {0}
                     /\ MaxContacts >= 2 /\ MaxContacts > MaxSynced

VARIABLES
  block,    \* the memory at g_contacts, <<>> when it is NULL
  count,    \* g_contact_count
  capacity, \* g_contact_capacity
  stored,   \* in flash: the count, 0 without the key, and the array
  pc,       \* where each task is
  entry,    \* the contact being added
  synced,   \* the book being received
  fault,    \* memory was used outside the array or after it was freed
  alone,    \* history: no two operations have met since the restart
  disturbed \* history: an operation failed since the last complete save, or
            \* two met

memory == <<block, count, capacity>>
args   == <<entry, synced>>
past   == <<alone, disturbed>>
vars   == <<memory, stored, pc, args, fault, past>>

Tasks    == {"voice", "mqtt"}
Other(t) == IF t = "voice" THEN "mqtt" ELSE "voice"

At(t, p)   == pc[t] = p
Goto(t, p) == pc' = [pc EXCEPT ![t] = p]
Idle       == \A t \in Tasks : At(t, "idle")

Unwritten == [name |-> "?", phone |-> "?"]
Contacts  == [name : Names, phone : Phones]
Books     == UNION {[1..n -> Contacts] : n \in 1..MaxSynced}

\* The first n places of an array, those beyond its end not written.
Resized(s, n) == [i \in 1..n |-> IF i <= Len(s) THEN s[i] ELSE Unwritten]

-----------------------------------------------------------------------------
(* What a boot reads.                                                      *)

\* contact_manager_init: one contact, counted twice.
Default ==
  [block |-> Resized(<<[name |-> "service", phone |-> "10028"]>>, Room),
   count |-> 2, capacity |-> Room]

\* Variant: an array that is shorter than the count is refused as well.
LoadedExactly ==
  IF stored.count = 0 \/ Len(stored.contacts) # stored.count
    THEN Default
    ELSE [block |-> stored.contacts, count |-> stored.count,
          capacity |-> stored.count]

\* contact_manager_load_from_flash: an array that is longer than the count does
\* not fit and is not read; a shorter one leaves the rest unwritten.
Loaded ==
  IF stored.count = 0 \/ stored.contacts = <<>>
     \/ Len(stored.contacts) > stored.count
    THEN Default
    ELSE [block |-> Resized(stored.contacts, stored.count),
          count |-> stored.count, capacity |-> stored.count]

\* A restart, also after a fault, or the power is lost and comes back; without
\* memory for it the phone has no book.
Boot ==
  /\ \/ /\ block' = Loaded.block
        /\ count' = Loaded.count
        /\ capacity' = Loaded.capacity
        /\ disturbed' = FALSE
     \/ /\ block' = <<>> /\ count' = 0 /\ capacity' = 0
        /\ disturbed' = TRUE
  /\ pc' = [t \in Tasks |-> "idle"]
  /\ fault' = FALSE
  /\ alone' = TRUE
  /\ UNCHANGED <<stored, args>>

-----------------------------------------------------------------------------
(* contact_manager_save_to_flash, in the task t.                           *)

Fails(t) ==
  /\ Goto(t, "idle")
  /\ disturbed' = TRUE

Begins(t, p) ==
  /\ ~fault /\ At(t, "idle")
  /\ Goto(t, p)
  /\ alone' = (alone /\ At(Other(t), "idle"))

\* There is nothing to save, or the save begins.
CheckSave(t) ==
  /\ ~fault /\ At(t, "check")
  /\ \/ (block = <<>> \/ count = 0) /\ Fails(t)
     \/ block # <<>> /\ count # 0 /\ Goto(t, "setCount") /\ UNCHANGED disturbed
  /\ UNCHANGED <<memory, stored, args, fault, alone>>

SetCount(t) ==
  /\ ~fault /\ At(t, "setCount")
  /\ \/ /\ stored' = [stored EXCEPT !.count = count]
        /\ Goto(t, "setArray") /\ UNCHANGED disturbed
     \/ Fails(t) /\ UNCHANGED stored
  /\ UNCHANGED <<memory, args, fault, alone>>

\* The array is read while it is written to flash.
SetArray(t) ==
  /\ ~fault /\ At(t, "setArray")
  /\ IF count > Len(block)
       THEN fault' = TRUE /\ UNCHANGED <<stored, pc, disturbed>>
       ELSE /\ UNCHANGED fault
            /\ \/ /\ stored' = [stored EXCEPT !.contacts = Resized(block, count)]
                  /\ Goto(t, IF t = "voice" THEN "sync" ELSE "idle")
                  /\ disturbed' = ~alone
               \/ Fails(t) /\ UNCHANGED stored
  /\ UNCHANGED <<memory, args, alone>>

\* The array of the other task goes while that task reads it.
Frees(t) == fault' = (At(Other(t), "setArray") \/ At(Other(t), "sync"))

-----------------------------------------------------------------------------
(* contact_manager_add_or_update, then send_contact_sync_data.             *)

add_or_update(c) ==
  /\ count < MaxContacts
  /\ block # <<>>
  /\ Begins("voice", "find")
  /\ entry' = c
  /\ UNCHANGED <<memory, stored, synced, fault, disturbed>>

\* A name that is in the book gets the number.
FindName ==
  /\ ~fault /\ At("voice", "find")
  /\ \/ /\ count > Len(block)
        /\ fault' = TRUE
        /\ UNCHANGED <<block, pc>>
     \/ /\ count <= Len(block)
        /\ LET found == {i \in 1..count : block[i].name = entry.name} IN
             \/ /\ found = {}
                /\ Goto("voice", "room")
                /\ UNCHANGED block
             \/ /\ \E i \in found :
                     /\ \A j \in found : i <= j
                     /\ block' = [block EXCEPT ![i] = entry]
                /\ Goto("voice", "check")
        /\ UNCHANGED fault
  /\ UNCHANGED <<count, capacity, stored, args, past>>

Grow ==
  /\ capacity' = capacity + Growth
  /\ block' = Resized(block, capacity')
  /\ Frees("voice")
  /\ Goto("voice", "append")

\* Variant: the last place counts as two.
GrowTooLate ==
  /\ ~fault /\ At("voice", "room")
  /\ \/ /\ count > capacity
        /\ Grow
     \/ /\ count <= capacity
        /\ Goto("voice", "append")
        /\ UNCHANGED <<block, capacity, fault>>
  /\ UNCHANGED <<count, stored, args, past>>

\* A full array grows, if there is memory.
MakeRoom ==
  /\ ~fault /\ At("voice", "room")
  /\ \/ /\ count >= capacity
        /\ \/ Grow
           \/ Goto("voice", "idle") /\ UNCHANGED <<block, capacity, fault>>
     \/ /\ count < capacity
        /\ Goto("voice", "append")
        /\ UNCHANGED <<block, capacity, fault>>
  /\ UNCHANGED <<count, stored, args, past>>

\* Variant: the contact is counted twice.
AppendTwice ==
  /\ ~fault /\ At("voice", "append")
  /\ \/ /\ count >= Len(block)
        /\ fault' = TRUE
        /\ UNCHANGED <<block, count, pc>>
     \/ /\ count < Len(block)
        /\ block' = [block EXCEPT ![count + 1] = entry]
        /\ count' = count + 2
        /\ Goto("voice", "check")
        /\ UNCHANGED fault
  /\ UNCHANGED <<capacity, stored, args, past>>

AppendContact ==
  /\ ~fault /\ At("voice", "append")
  /\ \/ /\ count >= Len(block)
        /\ fault' = TRUE
        /\ UNCHANGED <<block, count, pc>>
     \/ /\ count < Len(block)
        /\ block' = [block EXCEPT ![count + 1] = entry]
        /\ count' = count + 1
        /\ Goto("voice", "check")
        /\ UNCHANGED fault
  /\ UNCHANGED <<capacity, stored, args, past>>

\* send_contact_sync_data, which does nothing without a connection or a book:
\* contact_manager_get_all hands out the array itself.
SendBook ==
  /\ ~fault /\ At("voice", "sync")
  /\ \/ Goto("voice", "idle") /\ UNCHANGED fault
     \/ /\ block # <<>> /\ count > Len(block)
        /\ fault' = TRUE
        /\ UNCHANGED pc
  /\ UNCHANGED <<memory, stored, args, past>>

-----------------------------------------------------------------------------
(* contact_manager_update, from parse_contact_sync_message.                *)

parse_contact_sync_message(b) ==
  /\ Begins("mqtt", "free")
  /\ synced' = b
  /\ UNCHANGED <<memory, stored, entry, fault, disturbed>>

FreeBook ==
  /\ ~fault /\ At("mqtt", "free")
  /\ block' = <<>>
  /\ Frees("mqtt")
  /\ Goto("mqtt", "malloc")
  /\ UNCHANGED <<count, capacity, stored, args, past>>

\* Without memory the phone is left without a book; the flash keeps the old one.
MallocBook ==
  /\ ~fault /\ At("mqtt", "malloc")
  /\ \/ /\ block' = Resized(<<>>, Len(synced))
        /\ Goto("mqtt", "copy")
        /\ UNCHANGED <<count, capacity, disturbed>>
     \/ /\ block' = <<>> /\ count' = 0 /\ capacity' = 0
        /\ Fails("mqtt")
  /\ UNCHANGED <<stored, args, fault, alone>>

CopyBook ==
  /\ ~fault /\ At("mqtt", "copy")
  /\ IF Len(block) < Len(synced)
       THEN fault' = TRUE /\ UNCHANGED <<block, pc>>
       ELSE /\ block' = synced \o SubSeq(block, Len(synced) + 1, Len(block))
            /\ Goto("mqtt", "size")
            /\ UNCHANGED fault
  /\ UNCHANGED <<count, capacity, stored, args, past>>

SetSize ==
  /\ ~fault /\ At("mqtt", "size")
  /\ count' = Len(synced)
  /\ capacity' = Len(synced)
  /\ Goto("mqtt", "check")
  /\ UNCHANGED <<block, stored, args, fault, past>>

-----------------------------------------------------------------------------

Init ==
  /\ block = Default.block
  /\ count = Default.count
  /\ capacity = Default.capacity
  /\ stored = [count |-> 0, contacts |-> <<>>]
  /\ pc = [t \in Tasks |-> "idle"]
  /\ entry = Unwritten
  /\ synced = <<>>
  /\ fault = FALSE
  /\ alone = TRUE
  /\ disturbed = FALSE

Next ==
  \/ Boot
  \/ \E t \in Tasks : CheckSave(t) \/ SetCount(t) \/ SetArray(t)
  \/ \E c \in Contacts : add_or_update(c)
  \/ FindName \/ MakeRoom \/ AppendContact \/ SendBook
  \/ \E b \in Books : parse_contact_sync_message(b)
  \/ FreeBook \/ MallocBook \/ CopyBook \/ SetSize

Spec == Init /\ [][Next]_vars

-----------------------------------------------------------------------------

Entries     == Contacts \cup {Unwritten, Default.block[1]}
SavePlaces  == {"check", "setCount", "setArray"}
VoicePlaces == {"idle", "find", "room", "append", "sync"} \cup SavePlaces
MqttPlaces  == {"idle", "free", "malloc", "copy", "size"} \cup SavePlaces

\* The type invariant of the array, its copy in flash and the tasks.
TypeOK ==
  /\ block \in Seq(Entries)
  /\ count \in 0..MaxContacts
  /\ capacity \in Nat
  /\ stored.count \in 0..MaxContacts
  /\ stored.contacts \in Seq(Entries)
  /\ pc \in [Tasks -> VoicePlaces \cup MqttPlaces]
  /\ pc["voice"] \in VoicePlaces
  /\ pc["mqtt"] \in MqttPlaces
  /\ entry \in Contacts \cup {Unwritten}
  /\ synced \in Seq(Contacts)
  /\ fault \in BOOLEAN
  /\ alone \in BOOLEAN
  /\ disturbed \in BOOLEAN

\* The book as its users see it.
Book(m) == Resized(m.block, m.count)

\* As long as no two operations meet, none leaves the array, however it grew,
\* shrank or was read short; and when none failed either, a restart brings back
\* the book that the phone has.
SoundWhenAlone ==
  /\ fault => ~alone
  /\ Idle /\ ~disturbed =>
       Book(Loaded) = Book([block |-> block, count |-> count])

NamesOf(s) == {s[i].name : i \in DOMAIN s}

\* A restart at any moment of adding or changing a contact costs no other one:
\* the count goes to flash before the array, so that the old array is still read.
AddKeepsContacts ==
  ~At("voice", "idle") /\ alone /\ ~disturbed =>
    LET kept == NamesOf(Book([block |-> block, count |-> count]))
                  \cap NamesOf(stored.contacts)
    IN  kept \ {entry.name} \subseteq NamesOf(Loaded.block)
=============================================================================
