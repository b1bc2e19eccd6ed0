SPECIFICATION FairSpec
CONSTANTS
  m1 = m1
  m2 = m2
  m3 = m3
  Messages <- MCMessages
  Unreadable <- MCUnreadable
INVARIANTS IInv NoFalseSuccess
PROPERTIES ImplementsMailRelay EveryMessageAnswered
