SPECIFICATION Spec
CONSTANTS
  Fields <- MCFields
  Root <- MCRoot
INVARIANTS Exclusive AloneAfterCount FieldsNeverLockedOut
PROPERTIES LockFailureMeansLiveField ImplementsTakingTurns
