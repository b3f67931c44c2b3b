------------------------- MODULE ContactStoreProofs -------------------------
(***************************************************************************)
(* Safety of the address book for every size of the array and every book   *)
(* that the platform sends.                                                *)
(***************************************************************************)
EXTENDS ContactStore, SequenceTheorems, TLAPS

-----------------------------------------------------------------------------
(* Arrays.                                                                 *)

LEMMA UnwrittenIsEntry == Unwritten \in Entries
  BY DEF Entries

\* An array of n places, of which those of s keep their contents.
LEMMA ResizedIs ==
  ASSUME NEW s \in Seq(Entries), NEW n \in Nat
  PROVE  /\ Resized(s, n) \in Seq(Entries)
         /\ Len(Resized(s, n)) = n
         /\ \A i \in 1..n :
              Resized(s, n)[i] = IF i <= Len(s) THEN s[i] ELSE Unwritten
  <1> DEFINE r == Resized(s, n)
  <1>1. \A i \in 1..n : (IF i <= Len(s) THEN s[i] ELSE Unwritten) \in Entries
    BY UnwrittenIsEntry
  <1>2. r \in [1..n -> Entries]
    BY <1>1 DEF Resized
  <1>3. r \in Seq(Entries) /\ Len(r) = n
    BY <1>2
  <1>4. \A i \in 1..n : r[i] = IF i <= Len(s) THEN s[i] ELSE Unwritten
    BY DEF Resized
  <1> QED
    BY <1>3, <1>4

Service == [name |-> "service", phone |-> "10028"]

LEMMA DefaultIs ==
  /\ Default.block \in Seq(Entries)
  /\ Len(Default.block) = Room
  /\ Default.count = 2 /\ Default.capacity = Room
  <1>0. Default = [block |-> Resized(<<Service>>, Room), count |-> 2,
                   capacity |-> Room]
    BY DEF Default, Service
  <1>1. Default.block = Resized(<<Service>>, Room) /\ Default.count = 2
        /\ Default.capacity = Room
    BY <1>0
  <1>2. Default.block[1] = Service
    BY <1>1, RoomForTwo DEF Resized, RoomForTwo
  <1>3. Service \in Entries
    BY <1>2 DEF Entries
  <1>4. <<Service>> \in Seq(Entries)
    BY <1>3
  <1>5. Room \in Nat
    BY RoomForTwo DEF RoomForTwo
  <1>6. Resized(<<Service>>, Room) \in Seq(Entries)
        /\ Len(Resized(<<Service>>, Room)) = Room
    BY <1>4, <1>5, ResizedIs
  <1> QED
    BY <1>1, <1>6

LEMMA BookIsSequence ==
  ASSUME NEW b \in Books
  PROVE  b \in Seq(Contacts) /\ Len(b) \in 1..MaxSynced
  <1>1. PICK n \in 1..MaxSynced : b \in [1..n -> Contacts]
    BY DEF Books
  <1>2. n \in Nat
    BY BookBounds DEF BookBounds
  <1> QED
    BY <1>1, <1>2

LEMMA WrittenIs ==
  ASSUME NEW s \in Seq(Entries), NEW i \in 1..Len(s), NEW e \in Entries
  PROVE  /\ [s EXCEPT ![i] = e] \in Seq(Entries)
         /\ Len([s EXCEPT ![i] = e]) = Len(s)
         /\ \A j \in 1..Len(s) :
              [s EXCEPT ![i] = e][j] = IF j = i THEN e ELSE s[j]
  BY ExceptSeq

\* The first places of an array are overwritten and the others are left.
LEMMA OverwrittenIs ==
  ASSUME NEW s \in Seq(Entries), NEW r \in Seq(Entries), ~(Len(s) < Len(r))
  PROVE  r \o SubSeq(s, Len(r) + 1, Len(s)) \in Seq(Entries)
  <1>1. Len(r) \in Nat /\ Len(s) \in Nat
    OBVIOUS
  <1>2. SubSeq(s, Len(r) + 1, Len(s)) \in Seq(Entries)
    BY <1>1
  <1> QED
    BY <1>2

LEMMA ContactsAreEntries == Contacts \subseteq Entries
  BY DEF Entries

USE DEF At, Goto, Tasks

-----------------------------------------------------------------------------
(* The type invariant by parts, with what keeps the count in its bounds.   *)

MemoryOK ==
  /\ block \in Seq(Entries)
  /\ count \in 0..MaxContacts
  /\ capacity \in Nat

StoredOK ==
  /\ stored = [count |-> stored.count, contacts |-> stored.contacts]
  /\ stored.count \in 0..MaxContacts
  /\ stored.contacts \in Seq(Entries)

PlacesOK ==
  /\ pc \in [Tasks -> VoicePlaces \cup MqttPlaces]
  /\ pc["voice"] \in VoicePlaces
  /\ pc["mqtt"] \in MqttPlaces

RestOK ==
  /\ entry \in Contacts \cup {Unwritten}
  /\ synced \in Seq(Contacts)
  /\ fault \in BOOLEAN
  /\ alone \in BOOLEAN
  /\ disturbed \in BOOLEAN

\* There is room in the bounds for the contact that is being added.
BoundsOK ==
  /\ pc["voice"] \in {"find", "room", "append"} => count < MaxContacts
  /\ Len(synced) <= MaxSynced

FullTypeOK == MemoryOK /\ StoredOK /\ PlacesOK /\ RestOK /\ BoundsOK

LEMMA LoadedIs ==
  ASSUME MemoryOK, StoredOK
  PROVE  /\ Loaded.block \in Seq(Entries)
         /\ Loaded.count \in 1..MaxContacts
         /\ Loaded.capacity = Len(Loaded.block)
         /\ Loaded.count <= Len(Loaded.block)
  <1>1. CASE Loaded = Default
    BY <1>1, DefaultIs, RoomForTwo, BookBounds DEF RoomForTwo, BookBounds
  <1>2. CASE /\ stored.count # 0
             /\ Loaded = [block |-> Resized(stored.contacts, stored.count),
                          count |-> stored.count, capacity |-> stored.count]
    <2>1. stored.count \in Nat /\ stored.contacts \in Seq(Entries)
      BY BookBounds DEF StoredOK, BookBounds
    <2>2. /\ Loaded.block = Resized(stored.contacts, stored.count)
          /\ Loaded.count = stored.count /\ Loaded.capacity = stored.count
      BY <1>2
    <2>3. /\ Resized(stored.contacts, stored.count) \in Seq(Entries)
          /\ Len(Resized(stored.contacts, stored.count)) = stored.count
      BY <2>1, ResizedIs
    <2> QED
      BY <2>1, <2>2, <2>3, <1>2 DEF StoredOK
  <1> QED
    BY <1>1, <1>2 DEF Loaded

LEMMA NoBook ==
  ASSUME block' = <<>>, count' \in 0..MaxContacts, capacity' \in Nat
  PROVE  MemoryOK'
  <1>1. <<>> \in Seq(Entries)
    OBVIOUS
  <1>2. block' \in Seq(Entries)
    BY <1>1
  <1> QED
    BY <1>2 DEF MemoryOK

LEMMA MemoryStep == FullTypeOK /\ [Next]_vars => MemoryOK'
  <1> SUFFICES ASSUME FullTypeOK, [Next]_vars PROVE MemoryOK'
    OBVIOUS
  <1> USE DEF FullTypeOK, memory
  <1>1. CASE UNCHANGED vars
    BY <1>1 DEF vars, MemoryOK
  <1>2. CASE Boot
    <2>1. CASE block' = <<>> /\ count' = 0 /\ capacity' = 0
      <3>1. 0 \in 0..MaxContacts
        BY BookBounds DEF BookBounds
      <3> QED
        BY <2>1, <3>1, NoBook
    <2>2. CASE /\ block' = Loaded.block /\ count' = Loaded.count
               /\ capacity' = Loaded.capacity
      BY <2>2, LoadedIs DEF MemoryOK
    <2> QED
      BY <1>2, <2>1, <2>2 DEF Boot
  <1>3. ASSUME NEW t \in Tasks, CheckSave(t) \/ SetCount(t) \/ SetArray(t)
        PROVE  MemoryOK'
    BY <1>3 DEF CheckSave, SetCount, SetArray, MemoryOK
  <1>4. ASSUME NEW c \in Contacts, add_or_update(c) PROVE MemoryOK'
    BY <1>4 DEF add_or_update, MemoryOK
  <1>5. CASE FindName
    <2>1. entry \in Entries
      BY DEF RestOK, Entries
    <2>2. UNCHANGED <<count, capacity>>
      BY <1>5 DEF FindName
    <2>3. \/ UNCHANGED block
          \/ \E i \in 1..Len(block) : block' = [block EXCEPT ![i] = entry]
      BY <1>5 DEF FindName, MemoryOK
    <2> QED
      BY <2>1, <2>2, <2>3, WrittenIs DEF MemoryOK
  <1>6. CASE MakeRoom
    <2>1. capacity + Growth \in Nat
      BY GrowthPositive DEF MemoryOK, GrowthPositive
    <2>2. Resized(block, capacity + Growth) \in Seq(Entries)
      BY <2>1, ResizedIs DEF MemoryOK
    <2> QED
      BY <1>6, <2>1, <2>2 DEF MakeRoom, Grow, MemoryOK
  <1>7. CASE AppendContact
    <2>1. entry \in Entries
      BY DEF RestOK, Entries
    <2>2. count < MaxContacts
      BY <1>7 DEF AppendContact, BoundsOK
    <2>3. \/ UNCHANGED block /\ UNCHANGED count
          \/ /\ count + 1 \in 1..Len(block)
             /\ block' = [block EXCEPT ![count + 1] = entry]
             /\ count' = count + 1
      BY <1>7 DEF AppendContact, MemoryOK
    <2>4. block' \in Seq(Entries)
      BY <2>1, <2>3, WrittenIs DEF MemoryOK
    <2> QED
      BY <1>7, <2>2, <2>3, <2>4, BookBounds DEF AppendContact, MemoryOK, BookBounds
  <1>8. CASE SendBook \/ \E b \in Books : parse_contact_sync_message(b)
    BY <1>8 DEF SendBook, parse_contact_sync_message, MemoryOK
  <1>9. CASE FreeBook \/ MallocBook
    <2>1. CASE block' = <<>> /\ UNCHANGED <<count, capacity>>
      BY <2>1, NoBook DEF MemoryOK
    <2>2. CASE block' = <<>> /\ count' = 0 /\ capacity' = 0
      <3>1. 0 \in 0..MaxContacts
        BY BookBounds DEF BookBounds
      <3> QED
        BY <2>2, <3>1, NoBook
    <2>3. CASE /\ block' = Resized(<<>>, Len(synced))
               /\ UNCHANGED <<count, capacity>>
      <3>1. <<>> \in Seq(Entries) /\ Len(synced) \in Nat
        BY DEF RestOK
      <3>2. block' \in Seq(Entries)
        BY <2>3, <3>1, ResizedIs
      <3> QED
        BY <2>3, <3>2 DEF MemoryOK
    <2> QED
      BY <1>9, <2>1, <2>2, <2>3 DEF FreeBook, MallocBook
  <1>10. CASE CopyBook
    <2>1. synced \in Seq(Entries)
      BY ContactsAreEntries DEF RestOK
    <2>2. block \in Seq(Entries)
      BY DEF MemoryOK
    <2>3. /\ UNCHANGED <<count, capacity>>
          /\ Len(block) < Len(synced) => UNCHANGED block
          /\ ~(Len(block) < Len(synced)) =>
               block' = synced \o SubSeq(block, Len(synced) + 1, Len(block))
      BY <1>10 DEF CopyBook
    <2>4. ASSUME ~(Len(block) < Len(synced))
          PROVE  synced \o SubSeq(block, Len(synced) + 1, Len(block)) \in Seq(Entries)
      BY <2>1, <2>2, <2>4, OverwrittenIs
    <2>5. block' \in Seq(Entries)
      <3>1. CASE Len(block) < Len(synced)
        BY <2>2, <2>3, <3>1
      <3>2. CASE ~(Len(block) < Len(synced))
        BY <2>3, <2>4, <3>2
      <3> QED
        BY <3>1, <3>2
    <2> QED
      BY <2>3, <2>5 DEF MemoryOK
  <1>11. CASE SetSize
    <2>1. Len(synced) \in 0..MaxContacts
      BY BookBounds DEF RestOK, BoundsOK, BookBounds
    <2> QED
      BY <1>11, <2>1 DEF SetSize, MemoryOK
  <1> QED
    BY <1>1, <1>2, <1>3, <1>4, <1>5, <1>6, <1>7, <1>8, <1>9, <1>10, <1>11
    DEF Next

\* The first count places of the array go to flash.
LEMMA SavedIs ==
  ASSUME MemoryOK
  PROVE  Resized(block, count) \in Seq(Entries)
  <1>1. block \in Seq(Entries) /\ count \in Nat
    BY BookBounds DEF MemoryOK, BookBounds
  <1> QED
    BY <1>1, ResizedIs

LEMMA StoredStep == FullTypeOK /\ [Next]_vars => StoredOK'
  <1> SUFFICES ASSUME FullTypeOK, [Next]_vars PROVE StoredOK'
    OBVIOUS
  <1> USE DEF FullTypeOK
  <1>1. ASSUME UNCHANGED stored PROVE StoredOK'
    BY <1>1 DEF StoredOK
  <1>2. ASSUME NEW t \in Tasks, SetCount(t) PROVE StoredOK'
    BY <1>1, <1>2 DEF SetCount, StoredOK, MemoryOK
  <1>3. ASSUME NEW t \in Tasks, SetArray(t) PROVE StoredOK'
    BY <1>1, <1>3, SavedIs DEF SetArray, StoredOK
  <1>4. ASSUME NEW t \in Tasks, CheckSave(t) PROVE UNCHANGED stored
    BY <1>4 DEF CheckSave
  <1>5. CASE \/ UNCHANGED vars \/ Boot \/ FindName \/ MakeRoom \/ AppendContact
             \/ \E c \in Contacts : add_or_update(c)
             \/ SendBook \/ \E b \in Books : parse_contact_sync_message(b)
             \/ FreeBook \/ MallocBook \/ CopyBook \/ SetSize
    <2>1. UNCHANGED stored
      BY <1>5 DEF vars, Boot, add_or_update, FindName, MakeRoom, AppendContact,
        SendBook, parse_contact_sync_message, FreeBook, MallocBook, CopyBook,
        SetSize
    <2> QED
      BY <2>1, <1>1
  <1> QED
    BY <1>1, <1>2, <1>3, <1>4, <1>5 DEF Next

LEMMA PlacesStep == FullTypeOK /\ [Next]_vars => PlacesOK'
  <1> SUFFICES ASSUME PlacesOK, [Next]_vars PROVE PlacesOK'
    BY DEF FullTypeOK
  <1> USE DEF PlacesOK, VoicePlaces, MqttPlaces, SavePlaces
  <1>1. CASE UNCHANGED vars
    BY <1>1 DEF vars
  <1>2. CASE Boot
    BY <1>2 DEF Boot
  <1>3. ASSUME NEW t \in Tasks, CheckSave(t) \/ SetCount(t) \/ SetArray(t)
        PROVE  PlacesOK'
    BY <1>3 DEF CheckSave, SetCount, SetArray, Fails
  <1>4. ASSUME NEW c \in Contacts, add_or_update(c) PROVE PlacesOK'
    BY <1>4 DEF add_or_update, Begins
  <1>5. CASE FindName \/ MakeRoom
    BY <1>5 DEF FindName, MakeRoom, Grow
  <1>6. CASE AppendContact \/ SendBook
    BY <1>6 DEF AppendContact, SendBook
  <1>7. ASSUME NEW b \in Books, parse_contact_sync_message(b) PROVE PlacesOK'
    BY <1>7 DEF parse_contact_sync_message, Begins
  <1>8. CASE FreeBook \/ MallocBook
    BY <1>8 DEF FreeBook, MallocBook, Fails
  <1>9. CASE CopyBook \/ SetSize
    BY <1>9 DEF CopyBook, SetSize
  <1> QED
    BY <1>1, <1>2, <1>3, <1>4, <1>5, <1>6, <1>7, <1>8, <1>9 DEF Next

LEMMA RestStep == FullTypeOK /\ [Next]_vars => RestOK'
  <1> SUFFICES ASSUME RestOK, [Next]_vars PROVE RestOK'
    BY DEF FullTypeOK
  <1> USE DEF RestOK, args, past
  <1>1. CASE UNCHANGED vars
    BY <1>1 DEF vars
  <1>2. CASE Boot
    BY <1>2 DEF Boot
  <1>3. ASSUME NEW t \in Tasks, CheckSave(t) \/ SetCount(t) \/ SetArray(t)
        PROVE  RestOK'
    BY <1>3 DEF CheckSave, SetCount, SetArray, Fails
  <1>4. ASSUME NEW c \in Contacts, add_or_update(c) PROVE RestOK'
    BY <1>4 DEF add_or_update, Begins
  <1>5. CASE FindName \/ MakeRoom
    BY <1>5 DEF FindName, MakeRoom, Grow, Frees
  <1>6. CASE AppendContact \/ SendBook
    BY <1>6 DEF AppendContact, SendBook
  <1>7. ASSUME NEW b \in Books, parse_contact_sync_message(b) PROVE RestOK'
    BY <1>7, BookIsSequence DEF parse_contact_sync_message, Begins
  <1>8. CASE FreeBook \/ MallocBook
    BY <1>8 DEF FreeBook, MallocBook, Fails, Frees
  <1>9. CASE CopyBook \/ SetSize
    BY <1>9 DEF CopyBook, SetSize
  <1> QED
    BY <1>1, <1>2, <1>3, <1>4, <1>5, <1>6, <1>7, <1>8, <1>9 DEF Next

LEMMA BoundsStep == FullTypeOK /\ [Next]_vars => BoundsOK'
  <1> SUFFICES ASSUME FullTypeOK, [Next]_vars PROVE BoundsOK'
    OBVIOUS
  <1> USE BookBounds
      DEF FullTypeOK, PlacesOK, MemoryOK, RestOK, BoundsOK, BookBounds, memory,
          args
  <1>1. CASE UNCHANGED vars
    BY <1>1 DEF vars
  <1>2. CASE Boot
    BY <1>2 DEF Boot
  <1>3. ASSUME NEW t \in Tasks, CheckSave(t) \/ SetCount(t) \/ SetArray(t)
        PROVE  BoundsOK'
    BY <1>3 DEF CheckSave, SetCount, SetArray, Fails
  <1>4. ASSUME NEW c \in Contacts, add_or_update(c) PROVE BoundsOK'
    BY <1>4 DEF add_or_update, Begins
  <1>5. CASE FindName \/ MakeRoom
    BY <1>5 DEF FindName, MakeRoom, Grow
  <1>6. CASE AppendContact \/ SendBook
    BY <1>6 DEF AppendContact, SendBook
  <1>7. ASSUME NEW b \in Books, parse_contact_sync_message(b) PROVE BoundsOK'
    BY <1>7, BookIsSequence DEF parse_contact_sync_message, Begins
  <1>8. CASE FreeBook \/ MallocBook
    BY <1>8 DEF FreeBook, MallocBook, Fails
  <1>9. CASE CopyBook \/ SetSize
    BY <1>9 DEF CopyBook, SetSize
  <1> QED
    BY <1>1, <1>2, <1>3, <1>4, <1>5, <1>6, <1>7, <1>8, <1>9 DEF Next

LEMMA FullTypeInit == Init => FullTypeOK
  <1> SUFFICES ASSUME Init PROVE FullTypeOK
    OBVIOUS
  <1>1. MemoryOK
    BY DefaultIs, RoomForTwo, BookBounds DEF Init, MemoryOK, RoomForTwo, BookBounds
  <1>2. StoredOK
    <2>1. /\ stored.count = 0 /\ stored.contacts = <<>>
          /\ stored = [count |-> stored.count, contacts |-> stored.contacts]
      BY DEF Init
    <2>2. <<>> \in Seq(Entries)
      OBVIOUS
    <2>3. stored.contacts \in Seq(Entries)
      BY <2>1, <2>2
    <2> QED
      BY <2>1, <2>3, BookBounds DEF StoredOK, BookBounds
  <1>3. PlacesOK
    BY DEF Init, PlacesOK, VoicePlaces, MqttPlaces
  <1>4. RestOK
    <2>1. <<>> \in Seq(Contacts)
      OBVIOUS
    <2>2. synced \in Seq(Contacts)
      BY <2>1 DEF Init
    <2> QED
      BY <2>2 DEF Init, RestOK
  <1>5. BoundsOK
    BY BookBounds DEF Init, BoundsOK, BookBounds
  <1> QED
    BY <1>1, <1>2, <1>3, <1>4, <1>5 DEF FullTypeOK

LEMMA FullTypeStep == FullTypeOK /\ [Next]_vars => FullTypeOK'
  BY MemoryStep, StoredStep, PlacesStep, RestStep, BoundsStep DEF FullTypeOK

\* Every state of the book is well typed, for every size of the array: however the
\* two tasks overlap, the count stays within the bounds of a book.
THEOREM BookTypeCorrect == Spec => []TypeOK
  <1>1. FullTypeOK => TypeOK
    BY DEF FullTypeOK, MemoryOK, StoredOK, PlacesOK, RestOK, TypeOK
  <1> QED
    BY <1>1, FullTypeInit, FullTypeStep, PTL DEF Spec

-----------------------------------------------------------------------------
(* As long as no two operations meet.                                      *)

\* Outside the four writes of an update the array has the size that the manager
\* believes, and the contact that is added has its place.
SizesInv ==
  alone =>
    /\ ~fault
    /\ At("voice", "idle") \/ At("mqtt", "idle")
    /\ pc["mqtt"] \notin {"malloc", "copy", "size"} =>
         count <= capacity /\ capacity = Len(block)
    /\ pc["mqtt"] \in {"copy", "size"} => Len(block) = Len(synced)
    /\ At("voice", "append") => count < Len(block)

\* The task that saves has something to save, and has written its count first.
SavingInv ==
  alone =>
    \A t \in Tasks :
      /\ pc[t] \in {"setCount", "setArray"} => count # 0
      /\ At(t, "setArray") => stored.count = count

\* A save leaves the array alone; only its own task moves.
LEMMA SaveMoves ==
  ASSUME PlacesOK, NEW t \in Tasks, CheckSave(t) \/ SetCount(t) \/ SetArray(t)
  PROVE  /\ UNCHANGED <<block, count, capacity, synced, entry, alone>>
         /\ pc[t] \in SavePlaces
         /\ pc'[t] \in {"idle", "setCount", "setArray", "sync"}
         /\ pc'[t] = "sync" => t = "voice"
         /\ \A u \in Tasks : u # t => pc'[u] = pc[u]
  BY DEF PlacesOK, CheckSave, SetCount, SetArray, Fails, SavePlaces, memory, args

LEMMA OtherIs == Other("voice") = "mqtt" /\ Other("mqtt") = "voice"
  BY DEF Other

LEMMA SizesStep == FullTypeOK /\ SizesInv /\ [Next]_vars => SizesInv'
  <1> SUFFICES ASSUME FullTypeOK, SizesInv, [Next]_vars PROVE SizesInv'
    OBVIOUS
  <1>0. /\ block \in Seq(Entries) /\ count \in Nat /\ capacity \in Nat
        /\ synced \in Seq(Contacts) /\ alone \in BOOLEAN /\ fault \in BOOLEAN
        /\ pc \in [Tasks -> VoicePlaces \cup MqttPlaces]
    BY BookBounds DEF FullTypeOK, MemoryOK, RestOK, PlacesOK, BookBounds
  <1> USE <1>0 DEF memory, args, past
  <1>1. CASE UNCHANGED vars
    BY <1>1 DEF vars, SizesInv
  <1>2. CASE Boot
    <2>1. Loaded.capacity = Len(Loaded.block) /\ Loaded.count <= Len(Loaded.block)
      BY LoadedIs DEF FullTypeOK
    <2>2. \/ /\ block' = Loaded.block /\ count' = Loaded.count
             /\ capacity' = Loaded.capacity
          \/ block' = <<>> /\ count' = 0 /\ capacity' = 0
      BY <1>2 DEF Boot
    <2>3. count' <= capacity' /\ capacity' = Len(block')
      <3>1. Len(<<>>) = 0
        OBVIOUS
      <3>2. CASE block' = <<>> /\ count' = 0 /\ capacity' = 0
        BY <3>1, <3>2
      <3> QED
        BY <2>1, <2>2, <3>2
    <2>4. ~fault' /\ pc'["voice"] = "idle" /\ pc'["mqtt"] = "idle"
      BY <1>2 DEF Boot
    <2> QED
      BY <2>3, <2>4 DEF SizesInv
  <1>3. ASSUME NEW t \in Tasks, CheckSave(t) \/ SetCount(t) \/ SetArray(t)
        PROVE  SizesInv'
    <2>1. /\ UNCHANGED <<block, count, capacity, synced, entry, alone>>
          /\ pc[t] \in SavePlaces
          /\ pc'[t] \in {"idle", "setCount", "setArray", "sync"}
          /\ \A u \in Tasks : u # t => pc'[u] = pc[u]
      BY <1>3, SaveMoves DEF FullTypeOK
    <2> SUFFICES ASSUME alone PROVE SizesInv'
      BY <2>1 DEF SizesInv
    <2>2. count <= Len(block)
      <3>1. pc["mqtt"] \notin {"malloc", "copy", "size"}
        BY <2>1 DEF SizesInv, SavePlaces
      <3> QED
        BY <3>1 DEF SizesInv
    <2>3. ~fault'
      <3>1. ~(count > Len(block))
        BY <2>2
      <3>2. UNCHANGED fault
        BY <1>3, <3>1 DEF CheckSave, SetCount, SetArray
      <3> QED
        BY <3>2 DEF SizesInv
    <2>4. CASE t = "voice"
      BY <2>1, <2>3, <2>4 DEF SizesInv, SavePlaces
    <2>5. CASE t = "mqtt"
      BY <2>1, <2>3, <2>5 DEF SizesInv, SavePlaces
    <2> QED
      BY <2>4, <2>5
  <1>4. ASSUME NEW c \in Contacts, add_or_update(c) PROVE SizesInv'
    BY <1>4 DEF add_or_update, Begins, Other, SizesInv
  <1>5. CASE FindName
    <2>1. UNCHANGED <<count, capacity, synced, alone>> /\ At("voice", "find")
          /\ UNCHANGED pc["mqtt"]
      BY <1>5 DEF FindName
    <2>2. SizesInv /\ alone => Len(block') = Len(block) /\ ~fault'
      BY <1>5 DEF FindName, SizesInv
    <2>3. pc'["voice"] \in {"find", "room", "check"}
      BY <1>5 DEF FindName
    <2> QED
      BY <2>1, <2>2, <2>3 DEF SizesInv
  <1>6. CASE MakeRoom
    <2>1. /\ UNCHANGED <<count, synced, alone>> /\ At("voice", "room")
          /\ UNCHANGED pc["mqtt"]
      BY <1>6 DEF MakeRoom, Grow
    <2>2. CASE count >= capacity /\ Grow
      <3>1. capacity + Growth \in Nat /\ Growth \in Nat /\ Growth > 0
        BY GrowthPositive DEF GrowthPositive
      <3>2. Len(block') = capacity'
        BY <2>2, <3>1, ResizedIs DEF Grow
      <3>3. capacity' = capacity + Growth /\ pc'["voice"] = "append"
        BY <2>2 DEF Grow
      <3>4. alone => At("mqtt", "idle") /\ count <= capacity
        BY <2>1 DEF SizesInv
      <3>5. alone => ~fault'
        BY <2>2, <3>4, OtherIs DEF Grow, Frees
      <3>6. alone => count < capacity'
        BY <3>1, <3>3, <3>4
      <3> QED
        BY <2>1, <3>2, <3>3, <3>4, <3>5, <3>6 DEF SizesInv
    <2>3. CASE ~Grow
      BY <1>6, <2>1, <2>3 DEF MakeRoom, SizesInv
    <2>4. CASE count < capacity
      BY <1>6, <2>1, <2>4 DEF MakeRoom, SizesInv
    <2> QED
      BY <1>6, <2>2, <2>3, <2>4 DEF MakeRoom
  <1>7. CASE AppendContact
    <2>1. UNCHANGED <<capacity, synced, alone>> /\ At("voice", "append")
          /\ UNCHANGED pc["mqtt"]
      BY <1>7 DEF AppendContact
    <2>2. alone => /\ Len(block') = Len(block) /\ ~fault' /\ count' = count + 1
                   /\ pc'["voice"] = "check"
      BY <1>7 DEF AppendContact, SizesInv
    <2> QED
      BY <2>1, <2>2 DEF SizesInv
  <1>8. CASE SendBook
    BY <1>8 DEF SendBook, SizesInv
  <1>9. ASSUME NEW b \in Books, parse_contact_sync_message(b) PROVE SizesInv'
    BY <1>9 DEF parse_contact_sync_message, Begins, Other, SizesInv
  <1>10. CASE FreeBook
    BY <1>10 DEF FreeBook, Frees, Other, SizesInv
  <1>11. CASE MallocBook
    <2>1. /\ <<>> \in Seq(Entries) /\ Len(<<>>) = 0 /\ Len(synced) \in Nat
          /\ Len(Resized(<<>>, Len(synced))) = Len(synced)
      <3>1. <<>> \in Seq(Entries) /\ Len(synced) \in Nat
        OBVIOUS
      <3> QED
        BY <3>1, ResizedIs
    <2>2. alone => ~fault' /\ pc'["voice"] = "idle"
      BY <1>11 DEF MallocBook, Frees, Other, SizesInv, Fails
    <2>3. \/ Len(block') = Len(synced) /\ pc'["mqtt"] = "copy"
          \/ /\ Len(block') = 0 /\ count' = 0 /\ capacity' = 0
             /\ pc'["mqtt"] = "idle"
      BY <1>11, <2>1 DEF MallocBook, Fails
    <2>4. UNCHANGED <<synced, alone>>
      BY <1>11 DEF MallocBook
    <2> QED
      BY <2>2, <2>3, <2>4 DEF SizesInv
  <1>12. CASE CopyBook
    <2>1. alone => Len(block) = Len(synced) /\ At("voice", "idle")
      BY <1>12 DEF CopyBook, SizesInv
    <2>2. UNCHANGED <<count, capacity, synced, alone>>
      BY <1>12 DEF CopyBook
    <2>3. alone => /\ block' = synced \o SubSeq(block, Len(synced) + 1, Len(block))
                   /\ ~fault' /\ pc'["mqtt"] = "size" /\ pc'["voice"] = "idle"
      BY <1>12, <2>1 DEF CopyBook, SizesInv
    <2>4. alone => Len(block') = Len(synced)
      BY <2>1, <2>3
    <2> QED
      BY <2>2, <2>3, <2>4 DEF SizesInv
  <1>13. CASE SetSize
    BY <1>13 DEF SetSize, SizesInv
  <1> QED
    BY <1>1, <1>2, <1>3, <1>4, <1>5, <1>6, <1>7, <1>8, <1>9, <1>10, <1>11,
      <1>12, <1>13 DEF Next

LEMMA SavingStep ==
  FullTypeOK /\ SizesInv /\ SavingInv /\ [Next]_vars => SavingInv'
  <1> SUFFICES ASSUME FullTypeOK, SizesInv, SavingInv, [Next]_vars,
                      alone', NEW t \in Tasks
               PROVE  /\ pc'[t] \in {"setCount", "setArray"} => count' # 0
                      /\ pc'[t] = "setArray" => stored'.count = count'
    BY DEF SavingInv
  <1>0. /\ pc \in [Tasks -> VoicePlaces \cup MqttPlaces]
        /\ stored = [count |-> stored.count, contacts |-> stored.contacts]
    BY DEF FullTypeOK, PlacesOK, StoredOK
  <1> USE DEF memory, args, past
  <1>1. CASE UNCHANGED vars
    BY <1>1 DEF vars, SavingInv
  <1>2. CASE Boot
    BY <1>2 DEF Boot
  <1>3. ASSUME NEW u \in Tasks, CheckSave(u) \/ SetCount(u) \/ SetArray(u)
        PROVE  /\ pc'[t] \in {"setCount", "setArray"} => count' # 0
               /\ pc'[t] = "setArray" => stored'.count = count'
    <2>1. /\ UNCHANGED <<count, alone>>
          /\ pc[u] \in SavePlaces
          /\ pc'[u] \in {"idle", "setCount", "setArray", "sync"}
          /\ \A v \in Tasks : v # u => pc'[v] = pc[v]
      BY <1>3, SaveMoves DEF FullTypeOK
    <2>2. CASE t # u
      BY <2>1, <2>2 DEF SizesInv, SavePlaces
    <2>3. CASE t = u
      <3>1. CASE CheckSave(u)
        BY <1>0, <2>1, <2>3, <3>1 DEF CheckSave, Fails, SavingInv
      <3>2. CASE SetCount(u)
        BY <1>0, <2>1, <2>3, <3>2 DEF SetCount, Fails, SavingInv
      <3>3. CASE SetArray(u)
        BY <1>0, <2>1, <2>3, <3>3 DEF SetArray, Fails, SavingInv
      <3> QED
        BY <1>3, <3>1, <3>2, <3>3
    <2> QED
      BY <2>2, <2>3
  <1>4. ASSUME NEW c \in Contacts, add_or_update(c)
        PROVE  /\ pc'[t] \in {"setCount", "setArray"} => count' # 0
               /\ pc'[t] = "setArray" => stored'.count = count'
    BY <1>0, <1>4 DEF add_or_update, Begins, SavingInv
  <1>5. CASE FindName \/ MakeRoom \/ SendBook
    BY <1>0, <1>5 DEF FindName, MakeRoom, Grow, SendBook, SavingInv
  <1>6. CASE AppendContact
    BY <1>0, <1>6 DEF AppendContact, SavingInv, SizesInv
  <1>7. ASSUME NEW b \in Books, parse_contact_sync_message(b)
        PROVE  /\ pc'[t] \in {"setCount", "setArray"} => count' # 0
               /\ pc'[t] = "setArray" => stored'.count = count'
    BY <1>0, <1>7 DEF parse_contact_sync_message, Begins, SavingInv
  <1>8. CASE FreeBook \/ CopyBook
    BY <1>0, <1>8 DEF FreeBook, CopyBook, SavingInv
  <1>9. CASE MallocBook
    BY <1>0, <1>9 DEF MallocBook, Fails, SavingInv, SizesInv
  <1>10. CASE SetSize
    BY <1>0, <1>10 DEF SetSize, SavingInv, SizesInv
  <1> QED
    BY <1>1, <1>2, <1>3, <1>4, <1>5, <1>6, <1>7, <1>8, <1>9, <1>10 DEF Next

-----------------------------------------------------------------------------
(* The book in memory and the one that a restart brings back.              *)

MemoryBook == Resized(block, count)
FlashBook  == Resized(Loaded.block, Loaded.count)

\* SoundWhenAlone speaks of tasks at rest only; the two books are also the same
\* while an operation has not changed the book yet or has saved it.
RestInv ==
  /\ ~alone => disturbed \/ ~At("mqtt", "idle")
  /\ /\ alone /\ ~disturbed
     /\ pc["voice"] \in {"idle", "find", "room", "append", "sync"}
     /\ pc["mqtt"] \in {"idle", "free"}
     => MemoryBook = FlashBook

LEMMA ResizedTwice ==
  ASSUME NEW s \in Seq(Entries), NEW m \in Nat, NEW n \in Nat, n <= m
  PROVE  Resized(Resized(s, m), n) = Resized(s, n)
  <1> DEFINE r == Resized(s, m)
  <1>1. r \in Seq(Entries) /\ Len(r) = m
    BY ResizedIs
  <1>2. \A i \in 1..n : r[i] = IF i <= Len(s) THEN s[i] ELSE Unwritten
    BY ResizedIs
  <1> HIDE DEF r
  <1>3. /\ Resized(r, n) \in Seq(Entries) /\ Len(Resized(r, n)) = n
        /\ \A i \in 1..n : Resized(r, n)[i] = r[i]
    <2>1. /\ Resized(r, n) \in Seq(Entries) /\ Len(Resized(r, n)) = n
          /\ \A i \in 1..n :
               Resized(r, n)[i] = IF i <= Len(r) THEN r[i] ELSE Unwritten
      BY <1>1, ResizedIs
    <2>2. \A i \in 1..n : i <= Len(r)
      BY <1>1
    <2> QED
      BY <2>1, <2>2
  <1>4. /\ Resized(s, n) \in Seq(Entries) /\ Len(Resized(s, n)) = n
        /\ \A i \in 1..n :
             Resized(s, n)[i] = IF i <= Len(s) THEN s[i] ELSE Unwritten
    BY ResizedIs
  <1>5. \A i \in 1..n : Resized(r, n)[i] = Resized(s, n)[i]
    BY <1>2, <1>3, <1>4
  <1>6. Resized(r, n) = Resized(s, n)
    BY <1>3, <1>4, <1>5, SeqEqual
  <1> QED
    BY <1>6 DEF r

\* After the array the flash holds the book.
LEMMA SavedBook ==
  ASSUME FullTypeOK, FullTypeOK', UNCHANGED <<block, count>>, count # 0,
         stored' = [count |-> count, contacts |-> Resized(block, count)]
  PROVE  (MemoryBook = FlashBook)'
  <1> DEFINE a == Resized(block, count)
  <1>1. block \in Seq(Entries) /\ count \in Nat
    BY BookBounds DEF FullTypeOK, MemoryOK, BookBounds
  <1>2. a \in Seq(Entries) /\ Len(a) = count
    BY <1>1, ResizedIs
  <1>3. Resized(a, count) = a
    BY <1>1, ResizedTwice
  <1>4. stored'.count = count /\ stored'.contacts = a
    OBVIOUS
  <1> HIDE DEF a
  <1>5. a # <<>>
    BY <1>1, <1>2
  <1>6. Loaded' = [block |-> Resized(a, count), count |-> count, capacity |-> count]
    BY <1>1, <1>2, <1>4, <1>5 DEF Loaded
  <1>7. Loaded'.block = a /\ Loaded'.count = count
    BY <1>3, <1>6
  <1> QED
    BY <1>3, <1>7 DEF MemoryBook, FlashBook, a

LEMMA RestStepHolds ==
  /\ FullTypeOK /\ FullTypeOK' /\ SizesInv /\ SavingInv /\ RestInv
  /\ [Next]_vars
  => RestInv'
  <1> SUFFICES ASSUME FullTypeOK, FullTypeOK', SizesInv, SavingInv, RestInv,
                      [Next]_vars
               PROVE  RestInv'
    OBVIOUS
  <1>0. /\ pc \in [Tasks -> VoicePlaces \cup MqttPlaces]
        /\ alone \in BOOLEAN /\ disturbed \in BOOLEAN
        /\ block \in Seq(Entries) /\ count \in Nat /\ capacity \in Nat
        /\ stored = [count |-> stored.count, contacts |-> stored.contacts]
    BY BookBounds
    DEF FullTypeOK, PlacesOK, RestOK, MemoryOK, StoredOK, BookBounds
  <1>s. ASSUME UNCHANGED <<block, count, stored>>
        PROVE  MemoryBook' = MemoryBook /\ FlashBook' = FlashBook
    BY <1>s DEF MemoryBook, FlashBook, Loaded
  <1> USE <1>0 DEF memory, args, past
  <1>1. CASE UNCHANGED vars
    BY <1>1, <1>s DEF vars, RestInv
  <1>2. CASE Boot
    <2>1. CASE disturbed'
      BY <1>2, <2>1 DEF Boot, RestInv
    <2>2. CASE ~disturbed'
      <3>1. /\ block' = Loaded.block /\ count' = Loaded.count /\ UNCHANGED stored
            /\ alone'
        BY <1>2, <2>2 DEF Boot
      <3>2. Loaded' = Loaded
        BY <3>1 DEF Loaded
      <3>3. MemoryBook' = FlashBook'
        BY <3>1, <3>2 DEF MemoryBook, FlashBook
      <3> QED
        BY <3>1, <3>3 DEF RestInv
    <2> QED
      BY <2>1, <2>2
  <1>3. ASSUME NEW t \in Tasks, CheckSave(t) \/ SetCount(t) PROVE RestInv'
    <2>1. \/ disturbed' /\ pc'[t] = "idle"
          \/ UNCHANGED disturbed /\ pc'[t] = "setCount"
          \/ UNCHANGED disturbed /\ pc'[t] = "setArray"
      <3>1. CASE CheckSave(t)
        BY <3>1 DEF CheckSave, Fails
      <3>2. CASE SetCount(t)
        BY <3>2 DEF SetCount, Fails
      <3> QED
        BY <1>3, <3>1, <3>2
    <2>2. UNCHANGED alone /\ \A u \in Tasks : u # t => pc'[u] = pc[u]
      BY <1>3, SaveMoves DEF FullTypeOK
    <2>3. CASE t = "voice"
      BY <2>1, <2>2, <2>3 DEF RestInv
    <2>4. CASE t = "mqtt"
      BY <2>1, <2>2, <2>4 DEF RestInv
    <2> QED
      BY <2>3, <2>4
  <1>4. ASSUME NEW t \in Tasks, SetArray(t) PROVE RestInv'
    <2>1. /\ UNCHANGED <<block, count, alone>> /\ At(t, "setArray")
          /\ \A u \in Tasks : u # t => pc'[u] = pc[u]
      BY <1>4, SaveMoves DEF FullTypeOK, SetArray
    <2>2. CASE /\ stored' = [stored EXCEPT !.contacts = Resized(block, count)]
               /\ disturbed' = ~alone
      <3>1. CASE ~alone
        BY <2>1, <2>2, <3>1 DEF RestInv
      <3>2. CASE alone
        <4>1. count # 0 /\ stored.count = count
          BY <2>1, <3>2 DEF SavingInv
        <4>2. stored' = [count |-> count, contacts |-> Resized(block, count)]
          BY <2>2, <4>1
        <4>3. MemoryBook' = FlashBook'
          BY <2>1, <4>1, <4>2, SavedBook
        <4> QED
          BY <2>1, <3>2, <4>3 DEF RestInv
      <3> QED
        BY <3>1, <3>2
    <2>3. CASE disturbed'
      BY <2>1, <2>3 DEF RestInv
    <2>4. CASE UNCHANGED <<pc, disturbed>>
      <3>1. pc'[t] = "setArray"
        BY <2>1, <2>4
      <3> QED
        BY <2>1, <2>4, <3>1 DEF RestInv
    <2> QED
      BY <1>4, <2>2, <2>3, <2>4 DEF SetArray, Fails
  <1>5. ASSUME NEW c \in Contacts, add_or_update(c) PROVE RestInv'
    BY <1>5, <1>s, OtherIs DEF add_or_update, Begins, RestInv
  <1>6. ASSUME NEW b \in Books, parse_contact_sync_message(b) PROVE RestInv'
    BY <1>6, <1>s, OtherIs DEF parse_contact_sync_message, Begins, RestInv
  <1>7. CASE FindName
    <2>1. /\ UNCHANGED <<count, stored, alone, disturbed>> /\ At("voice", "find")
          /\ pc'["mqtt"] = pc["mqtt"]
          /\ \/ UNCHANGED block
             \/ pc'["voice"] = "check"
      BY <1>7 DEF FindName
    <2> QED
      BY <2>1, <1>s DEF RestInv
  <1>8. CASE MakeRoom
    <2>1. /\ UNCHANGED <<count, stored, alone, disturbed>> /\ At("voice", "room")
          /\ pc'["mqtt"] = pc["mqtt"]
          /\ \/ UNCHANGED block
             \/ block' = Resized(block, capacity + Growth) /\ count >= capacity
      BY <1>8 DEF MakeRoom, Grow
    <2>2. CASE UNCHANGED block
      BY <2>1, <2>2, <1>s DEF RestInv
    <2>3. CASE block' = Resized(block, capacity + Growth) /\ alone /\ ~disturbed
               /\ At("mqtt", "idle")
      <3>1. count <= capacity /\ capacity + Growth \in Nat /\ Growth \in Nat
        BY <2>3, GrowthPositive DEF SizesInv, GrowthPositive
      <3>2. count <= capacity + Growth
        BY <3>1
      <3>3. MemoryBook' = MemoryBook
        BY <2>1, <2>3, <3>1, <3>2, ResizedTwice DEF MemoryBook
      <3>4. FlashBook' = FlashBook
        BY <2>1 DEF FlashBook, Loaded
      <3> QED
        BY <2>1, <3>3, <3>4 DEF RestInv
    <2>4. alone => At("mqtt", "idle")
      BY <2>1 DEF SizesInv
    <2> QED
      BY <2>1, <2>2, <2>3, <2>4 DEF RestInv
  <1>9. CASE AppendContact
    <2>1. /\ UNCHANGED <<stored, alone, disturbed>> /\ At("voice", "append")
          /\ pc'["mqtt"] = pc["mqtt"]
          /\ \/ UNCHANGED <<block, count>>
             \/ pc'["voice"] = "check"
      BY <1>9 DEF AppendContact
    <2> QED
      BY <2>1, <1>s DEF RestInv
  <1>10. CASE SendBook
    BY <1>10, <1>s DEF SendBook, RestInv
  <1>11. CASE FreeBook \/ CopyBook \/ SetSize
    BY <1>11 DEF FreeBook, CopyBook, SetSize, RestInv
  <1>12. CASE MallocBook
    BY <1>12 DEF MallocBook, Fails, RestInv
  <1> QED
    BY <1>1, <1>2, <1>3, <1>4, <1>5, <1>6, <1>7, <1>8, <1>9, <1>10, <1>11,
      <1>12 DEF Next

\* What is known of every state of the book.
BookInv == FullTypeOK /\ SizesInv /\ SavingInv /\ RestInv

LEMMA BookInit == Init => BookInv
  <1> SUFFICES ASSUME Init PROVE BookInv
    OBVIOUS
  <1>1. SizesInv /\ SavingInv
    BY DefaultIs, RoomForTwo DEF Init, SizesInv, SavingInv, RoomForTwo
  <1>2. RestInv
    <2>1. Loaded = Default
      BY DEF Init, Loaded
    <2> QED
      BY <2>1 DEF Init, RestInv, MemoryBook, FlashBook
  <1> QED
    BY <1>1, <1>2, FullTypeInit DEF BookInv

LEMMA BookStep == BookInv /\ [Next]_vars => BookInv'
  <1> SUFFICES ASSUME BookInv, [Next]_vars PROVE BookInv'
    OBVIOUS
  <1>1. FullTypeOK'
    BY FullTypeStep DEF BookInv
  <1>2. SizesInv' /\ SavingInv'
    BY SizesStep, SavingStep DEF BookInv
  <1>3. RestInv'
    BY <1>1, RestStepHolds DEF BookInv
  <1> QED
    BY <1>1, <1>2, <1>3 DEF BookInv

\* Operations that do not meet never leave the array, for any first size and any
\* growth, and unless one fails a restart brings back what the phone had.
THEOREM BookSound == Spec => []SoundWhenAlone
  <1>1. BookInv => SoundWhenAlone
    <2> SUFFICES ASSUME BookInv PROVE SoundWhenAlone
      OBVIOUS
    <2>1. fault => ~alone
      BY DEF BookInv, SizesInv
    <2>2. Idle /\ ~disturbed => MemoryBook = FlashBook
      BY DEF BookInv, RestInv, Idle
    <2>3. /\ Book(Loaded) = FlashBook
          /\ Book([block |-> block, count |-> count]) = MemoryBook
      BY DEF Book, FlashBook, MemoryBook
    <2> QED
      BY <2>1, <2>2, <2>3 DEF SoundWhenAlone
  <1> QED
    BY <1>1, BookInit, BookStep, PTL DEF Spec

-----------------------------------------------------------------------------
(* A restart in the middle of adding a contact.                            *)

LEMMA FirstNames ==
  ASSUME NEW s \in Seq(Entries), NEW n \in Nat, n <= Len(s)
  PROVE  NamesOf(Resized(s, n)) \subseteq NamesOf(s)
  <1>1. ASSUME NEW i \in 1..n
        PROVE  i \in DOMAIN s /\ Resized(s, n)[i] = s[i]
    <2>1. i \in 1..Len(s) /\ i <= Len(s)
      OBVIOUS
    <2> QED
      BY <2>1 DEF Resized
  <1>2. DOMAIN Resized(s, n) = 1..n
    BY DEF Resized
  <1> QED
    BY <1>1, <1>2 DEF NamesOf

LEMMA AllNames ==
  ASSUME NEW s \in Seq(Entries), NEW n \in Nat, Len(s) <= n
  PROVE  NamesOf(s) \subseteq NamesOf(Resized(s, n))
  <1>1. ASSUME NEW i \in DOMAIN s
        PROVE  i \in 1..n /\ Resized(s, n)[i] = s[i]
    <2>1. i \in 1..n /\ i <= Len(s)
      OBVIOUS
    <2> QED
      BY <2>1 DEF Resized
  <1>2. DOMAIN Resized(s, n) = 1..n
    BY DEF Resized
  <1> QED
    BY <1>1, <1>2 DEF NamesOf

\* Writing one place brings one name.
LEMMA WrittenNames ==
  ASSUME NEW s \in Seq(Entries), NEW i \in 1..Len(s), NEW e \in Entries,
         NEW m \in Nat, NEW n \in Nat, n <= Len(s), n <= m \/ (n = m + 1 /\ i = n)
  PROVE  NamesOf(Resized([s EXCEPT ![i] = e], n)) \ {e.name}
           \subseteq NamesOf(Resized(s, m))
  <1> DEFINE r == [s EXCEPT ![i] = e]
  <1>1. r \in Seq(Entries) /\ Len(r) = Len(s)
        /\ \A j \in 1..Len(s) : r[j] = IF j = i THEN e ELSE s[j]
    BY WrittenIs
  <1> HIDE DEF r
  <1>2. DOMAIN Resized(r, n) = 1..n /\ DOMAIN Resized(s, m) = 1..m
    BY DEF Resized
  <1>3. ASSUME NEW j \in 1..n, j # i
        PROVE  j \in 1..m /\ Resized(r, n)[j] = Resized(s, m)[j]
    <2>1. j \in 1..Len(s) /\ j \in 1..m
      BY <1>3
    <2>2. Resized(r, n)[j] = r[j] /\ Resized(s, m)[j] = s[j]
      BY <1>1, <1>3, <2>1 DEF Resized
    <2> QED
      BY <1>1, <1>3, <2>1, <2>2
  <1>4. i \in 1..n => Resized(r, n)[i] = e
    BY <1>1 DEF Resized
  <1>5. NamesOf(Resized(r, n)) \ {e.name} \subseteq NamesOf(Resized(s, m))
    BY <1>2, <1>3, <1>4 DEF NamesOf
  <1> QED
    BY <1>5 DEF r

\* While a change is saved, every name but the new one is in flash, where the
\* count is not larger yet than the phone's.
AddInv ==
  alone /\ ~disturbed =>
    /\ pc["voice"] \in {"check", "setCount"} =>
         /\ NamesOf(MemoryBook) \ {entry.name} \subseteq NamesOf(FlashBook)
         /\ Loaded.count <= count
    /\ At("voice", "setArray") => AddKeepsContacts

LEMMA FlashNames ==
  ASSUME MemoryOK, StoredOK
  PROVE  NamesOf(FlashBook) \subseteq NamesOf(Loaded.block)
  <1>1. Loaded.block \in Seq(Entries) /\ Loaded.count \in Nat
        /\ Loaded.count <= Len(Loaded.block)
    BY LoadedIs, BookBounds DEF BookBounds
  <1> QED
    BY <1>1, FirstNames DEF FlashBook

\* The count is written first: what was in flash is still read, unless nothing
\* was read of it before.
LEMMA CountKeepsNames ==
  ASSUME StoredOK, MemoryOK, count # 0, stored' = [stored EXCEPT !.count = count],
         UNCHANGED <<block, count, entry>>,
         NamesOf(MemoryBook) \ {entry.name} \subseteq NamesOf(FlashBook),
         Loaded.count <= count
  PROVE  AddKeepsContacts'
  <1> DEFINE names == NamesOf(MemoryBook) \cap NamesOf(stored.contacts)
  <1>1. stored'.count = count /\ stored'.contacts = stored.contacts
        /\ stored.contacts \in Seq(Entries) /\ count \in Nat
    BY BookBounds DEF StoredOK, MemoryOK, BookBounds
  <1>2. CASE Loaded' = Default
    <2>1. CASE Loaded = Default
      <3>1. names \ {entry.name} \subseteq NamesOf(Loaded'.block)
        BY <1>2, <2>1, FlashNames
      <3> QED
        BY <1>1, <3>1 DEF AddKeepsContacts, Book, MemoryBook
    <2>2. CASE Loaded # Default
      <3>1. /\ stored.contacts # <<>>
            /\ ~(Len(stored.contacts) > stored.count)
            /\ Loaded.count = stored.count
        BY <2>2 DEF Loaded
      <3>2. Len(stored.contacts) <= count
        BY <1>1, <3>1, BookBounds DEF StoredOK, BookBounds
      <3>3. Loaded'.block = Resized(stored.contacts, count)
        BY <1>1, <3>1, <3>2 DEF Loaded
      <3>4. NamesOf(stored.contacts) \subseteq NamesOf(Loaded'.block)
        BY <1>1, <3>2, <3>3, AllNames
      <3> QED
        BY <1>1, <3>4 DEF AddKeepsContacts, Book
    <2> QED
      BY <2>1, <2>2
  <1>3. CASE Loaded' # Default
    <2>1. /\ ~(Len(stored.contacts) > count)
          /\ Loaded'.block = Resized(stored.contacts, count)
      BY <1>1, <1>3 DEF Loaded
    <2>2. NamesOf(stored.contacts) \subseteq NamesOf(Loaded'.block)
      BY <1>1, <2>1, AllNames
    <2> QED
      BY <1>1, <2>2 DEF AddKeepsContacts, Book
  <1> QED
    BY <1>2, <1>3

LEMMA AddStep == BookInv /\ AddInv /\ [Next]_vars => AddInv'
  <1> SUFFICES ASSUME BookInv, AddInv, [Next]_vars PROVE AddInv'
    OBVIOUS
  <1>t. /\ FullTypeOK /\ SizesInv /\ SavingInv /\ RestInv
        /\ MemoryOK /\ StoredOK /\ PlacesOK /\ RestOK
        /\ block \in Seq(Entries) /\ count \in Nat
        /\ entry \in Entries
    BY BookBounds, ContactsAreEntries, UnwrittenIsEntry
    DEF BookInv, FullTypeOK, MemoryOK, RestOK, BookBounds
  <1> USE DEF memory, args, past
  <1>1. ASSUME pc'["voice"] \notin {"check", "setCount", "setArray"}
        PROVE  AddInv'
    BY <1>1 DEF AddInv
  <1>2. ASSUME ~alone' \/ disturbed' PROVE AddInv'
    BY <1>2 DEF AddInv
  <1>3. ASSUME UNCHANGED <<memory, stored, entry, alone, disturbed>>,
               pc'["voice"] \in {"check", "setCount"},
               pc["voice"] \in {"check", "setCount"}
        PROVE  AddInv'
    BY <1>3 DEF AddInv, MemoryBook, FlashBook, Loaded
  <1>4. ASSUME UNCHANGED <<memory, stored, entry, alone, disturbed>>,
               pc'["voice"] = "setArray", pc["voice"] = "setArray"
        PROVE  AddInv'
    BY <1>4 DEF AddInv, AddKeepsContacts, Loaded, Book
  <1>5. CASE UNCHANGED vars
    BY <1>1, <1>3, <1>4, <1>5 DEF vars
  <1>6. CASE Boot
    BY <1>1, <1>6 DEF Boot
  <1>7. CASE CheckSave("voice")
    <2>1. CASE disturbed'
      BY <1>2, <2>1
    <2>2. CASE UNCHANGED <<memory, stored, entry, alone, disturbed>>
               /\ pc["voice"] = "check" /\ pc'["voice"] = "setCount"
      BY <1>3, <2>2
    <2> QED
      BY <1>7, <1>t, <2>1, <2>2 DEF CheckSave, Fails, Goto, At, PlacesOK, Tasks
  <1>8. CASE SetCount("voice")
    <2>1. CASE Fails("voice")
      BY <1>2, <2>1 DEF Fails
    <2>2. CASE /\ stored' = [stored EXCEPT !.count = count]
               /\ UNCHANGED <<block, count, entry, alone, disturbed>>
               /\ pc["voice"] = "setCount" /\ pc'["voice"] = "setArray"
               /\ alone /\ ~disturbed
      <3>1. count # 0
        BY <1>t, <2>2 DEF SavingInv, Tasks
      <3>2. AddKeepsContacts'
        BY <1>t, <2>2, <3>1, CountKeepsNames DEF AddInv
      <3> QED
        BY <2>2, <3>2 DEF AddInv
    <2> QED
      BY <1>2, <1>8, <1>t, <2>1, <2>2 DEF SetCount, Goto, At, PlacesOK, Tasks
  <1>9. CASE SetArray("voice")
    BY <1>1, <1>2, <1>4, <1>9, <1>t DEF SetArray, Fails, Goto, At, PlacesOK, Tasks
  <1>10. ASSUME NEW c \in Contacts, add_or_update(c) PROVE AddInv'
    BY <1>1, <1>10, <1>t DEF add_or_update, Begins, Goto, PlacesOK, Tasks
  \* Before the book is changed it is the one in flash.
  <1>11. ASSUME pc["voice"] \in {"find", "append"}, alone, ~disturbed
         PROVE  MemoryBook = FlashBook /\ Loaded.count = count
    <2>1. MemoryBook = FlashBook
      BY <1>11, <1>t DEF RestInv, SizesInv, At
    <2>2. Len(MemoryBook) = count /\ Len(FlashBook) = Loaded.count
      <3>1. Loaded.block \in Seq(Entries) /\ Loaded.count \in Nat
        BY <1>t, LoadedIs, BookBounds DEF BookBounds
      <3> QED
        BY <1>t, <3>1, ResizedIs DEF MemoryBook, FlashBook
    <2> QED
      BY <2>1, <2>2
  <1>12. ASSUME pc["voice"] \in {"find", "append"}, pc'["voice"] = "check",
                UNCHANGED <<stored, entry, alone, disturbed>>,
                NEW i \in 1..Len(block), block' = [block EXCEPT ![i] = entry],
                count' \in Nat, count' <= Len(block),
                count' = count \/ (count' = count + 1 /\ i = count')
         PROVE  AddInv'
    <2> SUFFICES ASSUME alone, ~disturbed PROVE AddInv'
      BY <1>2, <1>12
    <2>1. NamesOf(MemoryBook') \ {entry.name} \subseteq NamesOf(MemoryBook)
      <3>1. MemoryBook' = Resized([block EXCEPT ![i] = entry], count')
        BY <1>12 DEF MemoryBook
      <3>2. count' <= count \/ (count' = count + 1 /\ i = count')
        BY <1>12, <1>t
      <3>3. NamesOf(Resized([block EXCEPT ![i] = entry], count')) \ {entry.name}
              \subseteq NamesOf(Resized(block, count))
        BY <1>12, <1>t, <3>2, WrittenNames
      <3> QED
        BY <3>1, <3>3 DEF MemoryBook
    <2>2. FlashBook' = FlashBook /\ Loaded' = Loaded
      BY <1>12 DEF FlashBook, Loaded
    <2>3. Loaded'.count <= count'
      BY <1>11, <1>12, <1>t, <2>2
    <2> QED
      BY <1>11, <1>12, <2>1, <2>2, <2>3 DEF AddInv
  <1>13. CASE FindName
    <2>1. /\ pc["voice"] = "find"
          /\ UNCHANGED <<count, stored, entry, alone, disturbed>>
          /\ \/ UNCHANGED pc
             \/ Goto("voice", "room")
             \/ /\ count <= Len(block) /\ Goto("voice", "check")
                /\ \E i \in 1..count : block' = [block EXCEPT ![i] = entry]
      BY <1>13 DEF FindName, At
    <2>2. CASE UNCHANGED pc \/ Goto("voice", "room")
      BY <1>1, <1>t, <2>1, <2>2 DEF Goto, PlacesOK, Tasks
    <2>3. ASSUME NEW i \in 1..count, block' = [block EXCEPT ![i] = entry],
                 count <= Len(block), Goto("voice", "check")
          PROVE  AddInv'
      <3>1. i \in 1..Len(block) /\ count' \in Nat /\ count' <= Len(block)
        BY <1>t, <2>1, <2>3
      <3>2. pc'["voice"] = "check"
        BY <1>t, <2>3 DEF Goto, PlacesOK, Tasks
      <3> QED
        BY <1>12, <2>1, <2>3, <3>1, <3>2
    <2> QED
      BY <2>1, <2>2, <2>3
  <1>14. CASE AppendContact
    <2>1. /\ pc["voice"] = "append"
          /\ UNCHANGED <<stored, entry, alone, disturbed>>
          /\ \/ UNCHANGED pc
             \/ /\ count < Len(block) /\ count' = count + 1
                /\ block' = [block EXCEPT ![count + 1] = entry]
                /\ Goto("voice", "check")
      BY <1>14 DEF AppendContact, At
    <2>2. CASE UNCHANGED pc
      BY <1>1, <2>1, <2>2
    <2>3. CASE /\ count < Len(block) /\ count' = count + 1
               /\ block' = [block EXCEPT ![count + 1] = entry]
               /\ Goto("voice", "check")
      <3>1. /\ count + 1 \in 1..Len(block)
            /\ count' \in Nat /\ count' <= Len(block)
        BY <1>t, <2>3
      <3>2. pc'["voice"] = "check"
        BY <1>t, <2>3 DEF Goto, PlacesOK, Tasks
      <3> QED
        BY <1>12, <2>1, <2>3, <3>1, <3>2
    <2> QED
      BY <2>1, <2>2, <2>3
  <1>15. CASE MakeRoom \/ SendBook
    BY <1>1, <1>15, <1>t DEF MakeRoom, Grow, SendBook, Goto, At, PlacesOK, Tasks
  \* The platform's book is not replaced beside it, or the two have met.
  <1>16. ASSUME NEW b \in Books, parse_contact_sync_message(b) PROVE AddInv'
    BY <1>1, <1>2, <1>16, <1>t
    DEF parse_contact_sync_message, Begins, Other, At, Goto, PlacesOK, Tasks
  <1>17. CASE \/ CheckSave("mqtt") \/ SetCount("mqtt") \/ SetArray("mqtt")
              \/ FreeBook \/ MallocBook \/ CopyBook \/ SetSize
    <2>1. pc["mqtt"] # "idle" /\ pc'["voice"] = pc["voice"] /\ alone' = alone
      BY <1>17, <1>t DEF CheckSave, SetCount, SetArray, FreeBook, MallocBook,
        CopyBook, SetSize, Fails, Goto, At, PlacesOK, Tasks
    <2>2. alone => pc["voice"] = "idle"
      BY <1>t, <2>1 DEF SizesInv, At
    <2> QED
      BY <1>1, <1>2, <2>1, <2>2 DEF RestOK
  <1> QED
    BY <1>5, <1>6, <1>7, <1>8, <1>9, <1>10, <1>13, <1>14, <1>15, <1>16, <1>17
    DEF Next, Tasks

\* Power that goes at any moment of adding a contact costs no other contact that
\* was in flash, for books and arrays of any size.
THEOREM AddIsSafe == Spec => []AddKeepsContacts
  <1>1. BookInv /\ AddInv => AddKeepsContacts
    <2> SUFFICES ASSUME BookInv, AddInv, ~At("voice", "idle"), alone, ~disturbed
                 PROVE  AddKeepsContacts
      BY DEF AddKeepsContacts
    <2>1. NamesOf(FlashBook) \subseteq NamesOf(Loaded.block)
      BY FlashNames DEF BookInv, FullTypeOK
    <2>2. CASE pc["voice"] \in {"check", "setCount"}
      BY <2>1, <2>2 DEF AddInv, AddKeepsContacts, Book, MemoryBook
    <2>3. CASE pc["voice"] \in {"find", "room", "append", "sync"}
      <3>1. MemoryBook = FlashBook
        BY <2>3 DEF BookInv, SizesInv, RestInv, At
      <3> QED
        BY <2>1, <3>1 DEF AddKeepsContacts, Book, MemoryBook
    <2>4. CASE At("voice", "setArray")
      BY <2>4 DEF AddInv
    <2> QED
      BY <2>2, <2>3, <2>4 DEF BookInv, FullTypeOK, PlacesOK, VoicePlaces,
        SavePlaces, At
  <1>2. Init => AddInv
    BY DEF Init, AddInv, At, Tasks
  <1> QED
    BY <1>1, <1>2, BookInit, BookStep, AddStep, PTL DEF Spec
=============================================================================
