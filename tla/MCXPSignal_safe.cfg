\* Two threads and two signals, called in any order.
SPECIFICATION FairSpec
CONSTANTS
  t1 = t1
  t2 = t2
  s1 = s1
  s2 = s2
  Threads = {t1, t2}
  Signals = {s1, s2}
INVARIANTS
  TypeOK
  NoLostWakeup
PROPERTIES
  ImplementsSets
  PendingReturns
