------------------------------ MODULE DirList -------------------------------
(***************************************************************************)
(* The list of what a directory holds, and what becomes of it (binsort.c:  *)
(* dirlist_scan, binsort_genorder, binsort_run, binsort_free).  A call of  *)
(* dirlist_scan appends all entries of its directory to the list, then     *)
(* walks over the part it has appended, and calls itself for each of the   *)
(* directories on it, which appends more.  When the files are sorted they  *)
(* are taken off the list and added behind the rest again.                 *)
(*                                                                         *)
(* The directories do not change while they are scanned.  How the files    *)
(* are ordered is Optimize's part: here they may come in any order.        *)
(***************************************************************************)
EXTENDS Naturals, FiniteSets, SequencesExt

CONSTANTS
  Root,     \* b_Directory
  Content,  \* the entries of each directory, as a function
  Regular   \* the entries that are regular files; the rest may be anything

Entries == UNION {Content[d] : d \in DOMAIN Content}
IsFile(e) == e \in Regular
IsDir(e) == e \in DOMAIN Content

\* A tree: every entry is in one directory, and none is above itself.
ASSUME DirListAssumption ==
  /\ IsFiniteSet(Entries) /\ Regular \subseteq Entries
  /\ DOMAIN Content \cap Regular = {}
  /\ Root \in DOMAIN Content /\ Root \notin Entries
  /\ DOMAIN Content \subseteq Entries \cup {Root}
  /\ \A c, d \in DOMAIN Content : c # d => Content[c] \cap Content[d] = {}

VARIABLES
  noDirs,   \* b_NoDirs
  list,     \* b_DirList
  calls,    \* the calls of dirlist_scan in progress, the innermost first
  found,    \* the entries that have been put on the list
  missed,   \* those that could not be: malloc or stat failed
  broken,   \* the directories that could not be opened or read to their end
  hashes,   \* b_NumHashes
  pc,       \* where binsort_run is
  printed,  \* the output
  freed     \* the entries that have been freed, in their order

vars == <<noDirs, list, calls, found, missed, broken, hashes, pc, printed, freed>>

\* A call: its directory, what readdir has still to return, the entry before
\* the first it appends, the number of those, and how many it has walked over.
Call == [dir : DOMAIN Content, unread : SUBSET Entries, reading : BOOLEAN,
         node : Nat, num : Nat, i : Nat]

NodeAtHead == 0
LastNode == Len(list)

CallOf(d) ==
  [dir |-> d, unread |-> Content[d], reading |-> TRUE, node |-> LastNode, num |-> 0, i |-> 0]

Init ==
  /\ noDirs \in BOOLEAN
  /\ list = <<>> /\ calls = <<>>
  /\ found = {} /\ missed = {} /\ broken = {}
  /\ hashes = 0
  /\ pc = "start"
  /\ printed = <<>> /\ freed = <<>>

-----------------------------------------------------------------------------
(* dirlist_scan.                                                           *)

InnerCall(call) == calls' = <<call>> \o Tail(calls)

Start ==
  /\ pc = "start"
  /\ calls' = <<CallOf(Root)>>
  /\ pc' = "scan"
  /\ UNCHANGED <<noDirs, list, found, missed, broken, hashes, printed, freed>>

\* The directory given cannot be opened.
StartFails ==
  /\ pc = "start"
  /\ broken' = {Root}
  /\ pc' = "failed"
  /\ UNCHANGED <<noDirs, list, calls, found, missed, hashes, printed, freed>>

\* Another entry; it is left out when there is no memory, or stat fails.
ReadEntry ==
  /\ pc = "scan" /\ calls[1].reading
  /\ \E e \in calls[1].unread :
       \/ /\ list' = Append(list, e)
          /\ found' = found \cup {e}
          /\ InnerCall([calls[1] EXCEPT !.unread = @ \ {e}, !.num = @ + 1])
          /\ UNCHANGED missed
       \/ /\ missed' = missed \cup {e}
          /\ InnerCall([calls[1] EXCEPT !.unread = @ \ {e}])
          /\ UNCHANGED <<list, found>>
  /\ UNCHANGED <<noDirs, broken, hashes, pc, printed, freed>>

EndOfDir ==
  /\ pc = "scan" /\ calls[1].reading
  /\ calls[1].unread = {}
  /\ InnerCall([calls[1] EXCEPT !.reading = FALSE])
  /\ UNCHANGED <<noDirs, list, found, missed, broken, hashes, pc, printed, freed>>

\* readdir fails: the call returns an error, which only binsort_run looks at.
ReadFails ==
  /\ pc = "scan" /\ calls[1].reading
  /\ broken' = broken \cup {calls[1].dir}
  /\ calls' = Tail(calls)
  /\ pc' = IF Tail(calls) = <<>> THEN "failed" ELSE pc
  /\ UNCHANGED <<noDirs, list, found, missed, hashes, printed, freed>>

\* The walk over what this call has appended.
MoreBefore(call) == call.i + 1 < call.num
More(call) == call.i < call.num

Walk ==
  /\ pc = "scan" /\ ~calls[1].reading
  /\ More(calls[1])
  /\ LET e == list[calls[1].node + calls[1].i + 1]
         on == <<[calls[1] EXCEPT !.i = @ + 1]>> \o Tail(calls)
     IN  \/ ~IsDir(e) /\ calls' = on /\ UNCHANGED broken
         \/ IsDir(e) /\ calls' = <<CallOf(e)>> \o on /\ UNCHANGED broken
         \/ IsDir(e) /\ calls' = on /\ broken' = broken \cup {e}
  /\ UNCHANGED <<noDirs, list, found, missed, hashes, pc, printed, freed>>

Return ==
  /\ pc = "scan" /\ ~calls[1].reading
  /\ ~More(calls[1])
  /\ calls' = Tail(calls)
  /\ pc' = IF Tail(calls) = <<>> THEN "scanned" ELSE pc
  /\ UNCHANGED <<noDirs, list, found, missed, broken, hashes, printed, freed>>

-----------------------------------------------------------------------------
(* binsort_run goes on.                                                    *)

\* Any number of the files can be hashed; more than two are worth sorting.
Hash ==
  /\ pc = "scanned"
  /\ hashes' \in 0 .. Cardinality({e \in found : IsFile(e)})
  /\ pc' = IF hashes' > 2 THEN "order" ELSE "print"
  /\ UNCHANGED <<noDirs, list, calls, found, missed, broken, printed, freed>>

\* There is no memory for distances, messages or order.
OrderFails ==
  /\ pc = "order"
  /\ pc' = "failed"
  /\ UNCHANGED <<noDirs, list, calls, found, missed, broken, hashes, printed, freed>>

\* What stays on the list, in its order, when the files have been removed.
LeftWithFiles == list
Left ==
  LET kept == {k \in DOMAIN list : ~IsFile(list[k])}
      rank(k) == Cardinality({l \in kept : l <= k})
  IN  [j \in 1 .. Cardinality(kept) |-> list[CHOOSE k \in kept : rank(k) = j]]

\* What is there of it after binsort_freedir, if that is called.
DirsStay == Left
DirsLeft == IF noDirs THEN <<>> ELSE Left

AddedBefore(dirs, files) == files \o dirs
Added(dirs, files) == dirs \o files

\* binsort_genorder: the files come back in any order, from any of them on.
Order ==
  /\ pc = "order"
  /\ LET files == {e \in found : IsFile(e)}
         n == Cardinality(files)
     IN  \E order \in Bijection(0 .. n - 1, files), startpos \in 0 .. n - 1 :
           list' = Added(DirsLeft, [k \in 1 .. n |-> order[(k + startpos) % n]])
  /\ freed' = IF noDirs THEN freed \o Reverse(Left) ELSE freed
  /\ pc' = "print"
  /\ UNCHANGED <<noDirs, calls, found, missed, broken, hashes, printed>>

PrintList ==
  /\ pc = "print"
  /\ printed' = list
  /\ pc' = "printed"
  /\ UNCHANGED <<noDirs, list, calls, found, missed, broken, hashes, freed>>

\* binsort_free takes the entries from the tail of the list.
Free ==
  /\ pc \in {"printed", "failed"}
  /\ freed' = freed \o Reverse(list)
  /\ list' = <<>>
  /\ pc' = "over"
  /\ UNCHANGED <<noDirs, calls, found, missed, broken, hashes, printed>>

Terminated == pc = "over" /\ UNCHANGED vars

Next ==
  \/ Start \/ StartFails
  \/ ReadEntry \/ EndOfDir \/ ReadFails \/ Walk \/ Return
  \/ Hash \/ OrderFails \/ Order \/ PrintList \/ Free
  \/ Terminated

Spec == Init /\ [][Next]_vars

-----------------------------------------------------------------------------
(* Properties.                                                             *)

Before(seq, d, e) == \E k, l \in DOMAIN seq : k < l /\ seq[k] = d /\ seq[l] = e

\* Every variable holds a value of its kind, and no entry is twice on the list.
TypeOK ==
  /\ noDirs \in BOOLEAN
  /\ list \in Seq(found) /\ IsInjective(list)
  /\ calls \in Seq(Call)
  /\ found \subseteq Entries /\ missed \subseteq Entries
  /\ broken \subseteq DOMAIN Content
  /\ hashes \in 0 .. Cardinality(Regular)
  /\ pc \in {"start", "scan", "scanned", "order", "print", "printed", "failed", "over"}
  /\ printed \in Seq(found) /\ freed \in Seq(found)

\* A scan that returns no error has found whatever is in the directories it
\* has found itself, however deep: all but what stat refused and what is in a
\* directory that could not be opened, or that is in one read only in part.
ScanComplete ==
  pc = "scanned" =>
    \A d \in ({Root} \cup {e \in found : IsDir(e)}) \ broken :
      d = Root \/ (\E c \in DOMAIN Content \ broken : d \in Content[c]) =>
        Content[d] \subseteq found \cup missed

\* A directory is printed before everything it holds, so that an archive of
\* the list without recursion (README:13) creates it first.
DirFirst ==
  \A d \in found : IsDir(d) =>
    \A e \in Content[d] : d \in Range(printed) /\ e \in Range(printed) => Before(printed, d, e)

\* What is printed is every file once, and, unless directories are not wanted,
\* every other entry once.
AllPrinted ==
  pc = "printed" =>
    /\ IsInjective(printed)
    /\ {e \in found : IsFile(e) \/ ~noDirs} \subseteq Range(printed)

\* Every entry that was on the list is freed in the end, and none twice.
FreedOnce ==
  /\ IsInjective(freed)
  /\ pc = "over" => Range(freed) = found

\* README:23 of the option -d: "Do not include directories in the output list".
NoDirsPrinted ==
  noDirs => \A e \in Range(printed) : ~IsDir(e)
=============================================================================
