\* The same tree; with -d, directories are not to be printed.
SPECIFICATION Spec
CONSTANTS
  root = root
  sub = sub
  deep = deep
  top_file = top_file
  sub_file = sub_file
  deep_file = deep_file
  pipe = pipe
  Root = root
  Content <- Tree
  Regular <- Files
INVARIANT
  NoDirsPrinted
