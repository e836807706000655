\* Three directories, three files and a pipe; any of them may fail.
SPECIFICATION Spec
CONSTANTS
  root = root
  sub = sub
  deep = deep
  top_file = top_file
  sub_file = sub_file
  deep_file = deep_file
  pipe = pipe
  Root = root
  Content <- Tree
  Regular <- Files
INVARIANTS
  TypeOK
  ScanComplete
  DirFirst
  AllPrinted
  FreedOnce
