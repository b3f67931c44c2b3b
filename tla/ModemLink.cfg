SPECIFICATION FairSpec
CONSTANT MaxRare = 3
INVARIANTS
  TypeOK
  LinkUpIsReported
  InternetHasAddress
PROPERTIES
  KeepsPromise
  LinkComesBack
\* Without a SIM the task ends, and a module that is well stays so.
CHECK_DEADLOCK FALSE
