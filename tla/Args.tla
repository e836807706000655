-------------------------------- MODULE Args --------------------------------
(***************************************************************************)
(* The command line: how main reads it (parseargs, main.c), checks it and  *)
(* hands it as a list of items to binsort_create, and what binsort_init    *)
(* takes from that list.                                                   *)
(*                                                                         *)
(* A number is written over the low IntSize values of an item, which is    *)
(* wider than an int: a negative number becomes a great one.               *)
(***************************************************************************)
EXTENDS Integers, Sequences, FiniteSets

CONSTANTS
  ArgWords,        \* the arguments that may be given
  Atoi,            \* the number each of them stands for
  MaxArgs,         \* how many may be given
  IntSize,         \* the values of an int, 2^32 in the code
  DefaultQuality,  \* BINSORT_DEFAULT_QUALITY
  DefaultWorkers,  \* BINSORT_DEFAULT_NUMTHREADS
  MaxWorkers,      \* 128 in the code
  Nobody           \* no value: a null pointer

ASSUME ArgsAssumption ==
  /\ IntSize \in Nat \ {0} /\ IntSize % 2 = 0
  /\ Atoi \in [ArgWords -> -(IntSize \div 2) .. IntSize \div 2 - 1]
  /\ Nobody \notin ArgWords \cup {"-o", "-t"}
  /\ MaxArgs \in Nat
  /\ MaxWorkers \in 1 .. IntSize \div 2 - 1
  /\ DefaultWorkers \in 1 .. MaxWorkers
  /\ DefaultQuality \in Nat

MaxQuality == IntSize \div 2 - 1
CommandLines == UNION {[1 .. n -> ArgWords] : n \in 0 .. MaxArgs}

\* The options that take a number, and those that do not (keys 'n' and 'b').
NumberKeys == {"-o", "-t"}
HelpKeys == {"-h", "--help"}
FlagKeys == {"-q", "-d"} \cup HelpKeys
Keys == NumberKeys \cup FlagKeys \cup {"dir"}

VARIABLES
  argv,   \* the command line, until it has been read
  given,  \* the keys whose val is set, which that of a flag never is
  await,  \* wait and n: the option whose number comes next, or Nobody
  value,  \* the values of the items, by their keys
  nextArg \* the argument that comes next

argsVars == <<argv, given, await, value, nextArg>>

-----------------------------------------------------------------------------
(* parseargs, round by round.                                              *)

Default ==
  [key \in Keys |-> CASE key = "dir" -> Nobody
                      [] key = "-o" -> DefaultQuality
                      [] key = "-t" -> DefaultWorkers
                      [] OTHER -> 0]

ArgsInit ==
  /\ argv \in CommandLines
  /\ given = {}
  /\ await = Nobody
  /\ value = Default
  /\ nextArg = 1

Stored(n) == n % IntSize

Arg == argv[nextArg]

\* The number of the option before, whatever the argument is.
TakeNumber ==
  /\ await # Nobody
  /\ given' = given \cup {await}
  /\ value' = [value EXCEPT ![await] = Stored(Atoi[Arg])]
  /\ await' = Nobody

\* An option is not looked for again when it has been given its number.
MatchesAgain == Arg \in NumberKeys
Matches == Arg \in NumberKeys \ given

MatchOption ==
  /\ await = Nobody /\ Matches
  /\ await' = Arg
  /\ UNCHANGED <<given, value>>

MatchFlag ==
  /\ await = Nobody /\ Arg \in FlagKeys
  /\ value' = [value EXCEPT ![Arg] = 1]
  /\ UNCHANGED <<given, await>>

\* Any other argument is the directory, if there is none yet.
NoMatch == await = Nobody /\ ~Matches /\ Arg \notin FlagKeys

TakeDirectory ==
  /\ NoMatch
  /\ "dir" \notin given
  /\ given' = given \cup {"dir"}
  /\ value' = [value EXCEPT !["dir"] = Arg]
  /\ UNCHANGED await

ReadArg ==
  /\ nextArg <= Len(argv)
  /\ TakeNumber \/ MatchOption \/ MatchFlag \/ TakeDirectory
  /\ nextArg' = nextArg + 1
  /\ UNCHANGED argv

\* The loop has ended, or stops at an argument that is one too many.
AllRead == nextArg = Len(argv) + 1
TooMany == ~AllRead /\ NoMatch /\ "dir" \in given
ArgsOk == AllRead /\ await = Nobody

-----------------------------------------------------------------------------
(* main and binsort_init.                                                  *)

\* The list main gives to binsort_create; it ends with BINSORT_ARGS_DONE.
ItemList ==
  << <<"DIRECTORY", value["dir"]>>, <<"QUALITY", value["-o"]>>,
     <<"NUMWORKERS", value["-t"]>>, <<"QUIET", value["-q"]>>, <<"NODIRS", value["-d"]>> >>

GetTag(tag, default) ==
  LET places == {k \in DOMAIN ItemList : ItemList[k][1] = tag}
  IN  IF places = {} THEN default
      ELSE ItemList[CHOOSE k \in places : \A l \in places : k <= l][2]

InBounds(quality, workers) == quality \in 1 .. MaxQuality /\ workers \in 1 .. MaxWorkers

\* Whether main goes on to binsort_create, and binsort_init to the library.
Accepted ==
  /\ ArgsOk
  /\ \A key \in HelpKeys : value[key] = 0
  /\ value["dir"] # Nobody
  /\ InBounds(value["-o"], value["-t"])
  /\ GetTag("DIRECTORY", Nobody) # Nobody
  /\ InBounds(GetTag("QUALITY", DefaultQuality), GetTag("NUMWORKERS", DefaultWorkers))

\* What binsort_init keeps of it; b_NumWorkers is read again.
Settings ==
  [ directory |-> GetTag("DIRECTORY", Nobody),
    quality |-> GetTag("QUALITY", DefaultQuality),
    workers |-> GetTag("NUMWORKERS", 0),
    quiet |-> GetTag("QUIET", 0),
    nodirs |-> GetTag("NODIRS", 0) ]

-----------------------------------------------------------------------------
(* The command line as the usage text has it, "[options] dir".             *)

\* The places of an option and its number, if it is there at p.
Taken(p) == IF p = 0 THEN {} ELSE {p, p + 1}
Number(p, default) == IF p = 0 THEN default ELSE Atoi[argv[p + 1]]

\* The settings that argv asks for with the quality at place o, the workers at
\* t (0 where they are left out) and the directory at d.
Rest(o, t, d) == DOMAIN argv \ (Taken(o) \cup Taken(t) \cup {d})

Asked(o, t, d) ==
  LET has(flag) == IF \E p \in Rest(o, t, d) : argv[p] = flag THEN 1 ELSE 0
  IN  [ directory |-> argv[d],
        quality |-> Number(o, DefaultQuality),
        workers |-> Number(t, DefaultWorkers),
        quiet |-> has("-q"), nodirs |-> has("-d") ]

\* It does ask for them: each place has one meaning, and help is not wanted.
Asks(o, t, d) ==
  /\ Taken(o) \cup Taken(t) \subseteq DOMAIN argv
  /\ Taken(o) \cap Taken(t) = {} /\ d \notin Taken(o) \cup Taken(t)
  /\ o # 0 => argv[o] = "-o"
  /\ t # 0 => argv[t] = "-t"
  /\ \A p \in Rest(o, t, d) : argv[p] \in FlagKeys \ HelpKeys
  /\ InBounds(Number(o, DefaultQuality), Number(t, DefaultWorkers))

\* What is accepted was asked for; and what is asked for, with a directory
\* that does not look like an option, is accepted.
ReadAsAsked ==
  LET places == 0 .. Len(argv)
  IN  /\ Accepted => \E o, t \in places, d \in DOMAIN argv :
                       Asks(o, t, d) /\ Settings = Asked(o, t, d)
      /\ \A o, t \in places, d \in DOMAIN argv :
           Asks(o, t, d) /\ argv[d] \notin NumberKeys \cup FlagKeys =>
             Accepted /\ Settings = Asked(o, t, d)
=============================================================================
