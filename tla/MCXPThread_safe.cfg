\* Three threads that refer to each other.
SPECIFICATION FairSpec
CONSTANTS
  c1 = c1
  c2 = c2
  c3 = c3
  Main = Main
  NoThread = NoThread
  Children = {c1, c2, c3}
INVARIANTS
  TypeOK
  HandlesLive
PROPERTIES
  AllDestroyed
