SPECIFICATION Spec
CONSTANTS
  Names = {n1, n2}
  Phones = {p1}
  Room = 2
  Growth = 1
  MaxContacts = 3
  MaxSynced = 2
INVARIANTS
  TypeOK
  SoundWhenAlone
  AddKeepsContacts
