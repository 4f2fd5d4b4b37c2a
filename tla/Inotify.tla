------------------------------- MODULE Inotify -------------------------------
(***************************************************************************)
(* studio11/inotify.c watches a directory and, when a file or directory is *)
(* created in a watched directory, watches that too.  The kernel queues the*)
(* events and numbers the watches upwards from 1; the program keeps a table*)
(* from numbers to paths and builds the next path from it.                 *)
(***************************************************************************)
EXTENDS Naturals, Sequences

CONSTANTS
  Files,       \* files and directories that come to be
  Root,        \* the directory the program is started with
  Names,       \* names in a directory
  Slots,       \* length of wds, 256
  PathLen,     \* names that fit path, which has 256 characters
  MaxQueue     \* events the kernel queues before it drops one

InotifyAssumption ==
  /\ Root \notin Files /\ Slots \in Nat /\ PathLen \in Nat /\ MaxQueue \in Nat

VARIABLES
  place,       \* directory and name of each file that exists, a function
  gone,        \* files that were removed
  renamed,     \* some file was
  queue,       \* IN_CREATE events; the program only prints the others
  watch,       \* the number of each watched file, a function
  next_wd,
  path_of,     \* the table wds, without its unset entries
  prog,        \* "off", "reads", "ended", or "corrupt" once a write
               \* past wds or path did harm
  announced    \* history: files whose creation was queued

files == <<place, gone, renamed, announced>>
vars  == <<files, queue, watch, next_wd, path_of, prog>>

Exists == DOMAIN place \cup {Root}

Init ==
  /\ place = <<>> /\ gone = {} /\ renamed = FALSE /\ announced = {}
  /\ queue = <<>> /\ watch = <<>> /\ next_wd = 1 /\ path_of = <<>>
  /\ prog = "off"

Without(f, x) == [y \in DOMAIN f \ {x} |-> f[y]]
With(f, x, v) == [y \in DOMAIN f \cup {x} |-> IF y = x THEN v ELSE f[y]]

Path[f \in Files \cup {Root}, depth \in 0 .. 3] ==
  IF f = Root \/ depth = 0 THEN <<>>
  ELSE Append(Path[place[f].dir, depth - 1], place[f].name)
PathOf(f) == Path[f, 3]

-----------------------------------------------------------------------------
(* What other programs do to the files. *)

Free(dir, name) == \A f \in DOMAIN place : place[f] # [dir |-> dir, name |-> name]

Create(f, dir, name) ==
  /\ f \notin Exists \cup gone /\ dir \in Exists /\ Free(dir, name)
  /\ place' = With(place, f, [dir |-> dir, name |-> name])
  /\ IF dir \in DOMAIN watch /\ Len(queue) < MaxQueue
     THEN /\ queue' = Append(queue, [wd |-> watch[dir], name |-> name])
          /\ announced' = announced \cup {f}
     ELSE UNCHANGED <<queue, announced>>
  /\ UNCHANGED <<gone, renamed, watch, next_wd, path_of, prog>>

Remove(f) ==
  /\ f \in DOMAIN place /\ \A g \in DOMAIN place : place[g].dir # f
  /\ place' = Without(place, f) /\ gone' = gone \cup {f}
  /\ watch' = Without(watch, f)
  /\ UNCHANGED <<renamed, announced, queue, next_wd, path_of, prog>>

Rename(f, name) ==
  /\ f \in DOMAIN place /\ Free(place[f].dir, name)
  /\ place' = [place EXCEPT ![f].name = name] /\ renamed' = TRUE
  /\ UNCHANGED <<gone, announced, queue, watch, next_wd, path_of, prog>>

-----------------------------------------------------------------------------
(* The program. *)

(* inotify_add_watch gives a file it watches already its number again, and *)
(* the table is written at that number, which may be one past its end.     *)
AddWatch(f, path) ==
  LET wd == IF f \in DOMAIN watch THEN watch[f] ELSE next_wd IN
    /\ watch' = With(watch, f, wd)
    /\ next_wd' = IF f \in DOMAIN watch THEN next_wd ELSE next_wd + 1
    /\ \/ wd <= Slots /\ prog' = "reads" /\ path_of' = With(path_of, wd, path)
       \/ wd = Slots /\ prog' = "corrupt" /\ UNCHANGED path_of
       \/ wd > Slots /\ prog' = "ended" /\ UNCHANGED path_of

Start ==
  /\ prog = "off" /\ AddWatch(Root, <<>>)
  /\ UNCHANGED <<files, queue>>

NewPath_NameOnly(event) == <<event.name>>
NewPath(event)          == Append(path_of[event.wd], event.name)

At(path) == {f \in Exists : PathOf(f) = path}

TooLong(path) == Len(path) > PathLen

(* Nothing at the path ends the program.  A path that is too long runs on  *)
(* into what is stored behind it.                                          *)
HandleCreate ==
  /\ prog = "reads" /\ queue # <<>>
  /\ queue' = Tail(queue)
  /\ LET path == NewPath(Head(queue)) IN
       \/ \E f \in At(path) : AddWatch(f, path)
       \/ /\ \/ At(path) = {} /\ prog' = "ended"
             \/ TooLong(path) /\ prog' = "corrupt"
          /\ UNCHANGED <<watch, next_wd, path_of>>
  /\ UNCHANGED files

Next ==
  \/ \E f \in Files, dir \in Files \cup {Root}, name \in Names : Create(f, dir, name)
  \/ \E f \in Files : Remove(f) \/ \E name \in Names : Rename(f, name)
  \/ Start \/ HandleCreate

Fairness == WF_vars(HandleCreate)

Spec     == Init /\ [][Next]_vars
FairSpec == Spec /\ Fairness

-----------------------------------------------------------------------------
(* Properties. *)

(* A file whose creation was queued is watched in the end, whatever else   *)
(* is created and removed meanwhile (lines 97 to 113), unless it is removed*)
(* itself, something is renamed, or the program ends or writes past one of *)
(* its arrays.                                                             *)
EachWatched ==
  \A f \in Files :
    f \in announced ~> (f \in DOMAIN watch \/ f \in gone \/ renamed
                         \/ prog \in {"ended", "corrupt"})
=============================================================================
