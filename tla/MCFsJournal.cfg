CONSTANTS
  MaxTransactions = 2
  MaxEntries = 3
  MaxPerTrans = 2
  MaxId = 3
  Mode = {ordered, data}
SPECIFICATION Spec
INVARIANTS
  
  CommittedIsSynced
  RecoverySettles
PROPERTIES
  ForgottenOnlyWhenDurable
  ModeStableWhileOpen
  EndIsFinal
  ImplementsDurableLog
