CONSTANTS
  t1 = t1
  t2 = t2
  n1 = n1
  n2 = n2
  d1 = d1
  Itself = Itself
  Threads <- MCThreads
  Names <- MCNames
  Busy <- MCBusy
  Docs <- MCDocs
  MaxCreated = 2
SPECIFICATION Spec
INVARIANTS TypeOK AcknowledgedIsFound CreatedOnce
PROPERTIES EveryCallAnswered
