SPECIFICATION Spec
CONSTANTS
  Text <- MCText
  SqlText <- MCSqlText
  RegisterRequests <- MCRegisterRequests
  LoginRequests <- MCLoginRequests
  InitialTable <- MCInitialTable
  MaxUsers = 3
INVARIANTS AckedDurable CacheBacked AckedFindable
PROPERTIES NameStable LoginIdentity
