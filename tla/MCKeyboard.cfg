CONSTANTS
  N = 4
  Keys = {k1, k2}
  NoKey = NoKey
SPECIFICATION FairSpec
INVARIANTS TypeOK CaseOfOneMoment
PROPERTIES SlotIsNotReused AcceptedKeysStay ImplementsKeyQueue EveryKeyIsRead
