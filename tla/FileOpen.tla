------------------------------ MODULE FileOpen ------------------------------
(***************************************************************************)
(* Opening the file of a handler: haclog_file_handler_init makes the path  *)
(* absolute, haclog_os_fopen finds its directory, creates it name by name  *)
(* when it is not there, and opens the file.  Handlers of several          *)
(* processes may do this at the same time below the same directories:      *)
(* between the test for the directory, each mkdir and the open, the others *)
(* go on.  A system call fails for what the model knows of the file system *)
(* (a name is missing, is there already, or is a file).                    *)
(***************************************************************************)
EXTENDS Path, FiniteSets

CONSTANTS Openers,      \* handlers being initialised
          PathsOf,      \* of each: the paths it may be given
          Cwd,          \* the current directory
          MaxPath       \* HACLOG_MAX_PATH

(* A path, read as on POSIX: a string in which no character is one that    *)
(* haclog_path.c takes for a separator or a drive and the system does not. *)
IsPlain(p) ==
  p \in Seq(STRING) /\ \A i \in DOMAIN p : p[i] \notin {NUL, "\\", ":"}

(* No name behind a / is empty or a dot; getcwd returns such paths.        *)
Tidy(p) ==
  \A i \in DOMAIN p : p[i] = "/" =>
    /\ At(p, i + 1) /= "/"
    /\ ~(At(p, i + 1) = "." /\ At(p, i + 2) \in {"/", NUL})

ASSUME OpenAssumption ==
  /\ IsPlain(Cwd) /\ At(Cwd, 1) = "/" /\ Tidy(Cwd) /\ MaxPath \in Nat \ {0}
  /\ \A o \in Openers : \A p \in PathsOf[o] : IsPlain(p)

VARIABLES path,     \* argument filepath
          pc,
          abs,      \* abs_filepath
          dir,      \* file_dir
          k,        \* position of the loop of haclog_os_mkdir
          dirs,     \* the directories, as sequences of names from the root
          files     \* the files

vars == <<path, pc, abs, dir, k, dirs, files>>

Places(p) == Walk(Start(p), Names(p))
OldDirs == {Places(Cwd)[n].down : n \in DOMAIN Places(Cwd)}

Init ==
  /\ path \in [Openers -> UNION {PathsOf[o] : o \in Openers}]
  /\ \A o \in Openers : path[o] \in PathsOf[o]
  /\ pc = [o \in Openers |-> "init"] /\ abs = [o \in Openers |-> <<>>]
  /\ dir = [o \in Openers |-> <<>>] /\ k = [o \in Openers |-> 0]
  /\ dirs = OldDirs /\ files = {}

-----------------------------------------------------------------------------
(* The file system.                                                        *)

(* Every name on the way is a directory; p itself may be missing. *)
WayTo(p) == \A n \in 0..(Len(Names(p)) - 1) : Places(p)[n].down \in dirs
IsThere(p) == WayTo(p) /\ Place(p).down \in dirs \cup files

(* haclog_path_exists; access finds no file under a name that ends in a /. *)
Exists(p) == IsThere(p) /\ (EndsWith(p, <<"/">>) => Place(p).down \in dirs)

-----------------------------------------------------------------------------

(* The path a handler's init gives to haclog_os_fopen.                     *)
AbsPath(p) == IF IsAbs(p) THEN Result(p, 0) ELSE Join(Cwd, p, MaxPath)

(* From the call to the test whether the directory exists.                 *)
FindDir(o) ==
  /\ pc[o] = "init"
  /\ LET a == AbsPath(path[o])
         d == Dirname(a.path, MaxPath)
     IN  IF ~a.ok \/ ~d.ok
         THEN pc' = [pc EXCEPT ![o] = "failed"] /\ UNCHANGED <<abs, dir, k>>
         ELSE /\ abs' = [abs EXCEPT ![o] = a.path]
              /\ dir' = [dir EXCEPT ![o] = d.path]
              /\ k' = [k EXCEPT ![o] = 1]
              /\ pc' = [pc EXCEPT ![o] = IF Exists(d.path) THEN "open"
                                         ELSE "mkdir"]
  /\ UNCHANGED <<path, dirs, files>>

(* Mutant: a directory that is there by now is an error. *)
MadeBefore_Error(d) == FALSE

(* errno == EEXIST is no error. *)
MadeBefore(d) == IsThere(d)

(* The part of the directory up to the next separator behind position i.   *)
NextCut(d, i) ==
  CHOOSE j \in (i + 1)..(Len(d) + 1) :
    At(d, j) \in {"/", NUL} /\ \A x \in (i + 1)..(j - 1) : d[x] /= "/"

(* One call of mkdir.                                                      *)
Mkdir(o) ==
  /\ pc[o] = "mkdir"
  /\ LET j == NextCut(dir[o], k[o])
         part == SubSeq(dir[o], 1, j - 1)
         end == j > Len(dir[o])
     IN  IF MadeBefore(part) \/ (WayTo(part) /\ ~IsThere(part))
         THEN /\ dirs' = IF IsThere(part) THEN dirs
                         ELSE dirs \cup {Place(part).down}
              /\ k' = [k EXCEPT ![o] = j]
              /\ pc' = [pc EXCEPT ![o] = IF end THEN "open" ELSE "mkdir"]
         ELSE pc' = [pc EXCEPT ![o] = "failed"] /\ UNCHANGED <<dirs, k>>
  /\ UNCHANGED <<path, abs, dir, files>>

(* fopen of a path that names a directory, or ends like one, fails. *)
Fopen(o) ==
  /\ pc[o] = "open"
  /\ LET p == abs[o]
     IN  IF WayTo(p) /\ Place(p).down \notin dirs /\ ~EndsWith(p, <<"/">>)
         THEN /\ files' = files \cup {Place(p).down}
              /\ pc' = [pc EXCEPT ![o] = "done"]
         ELSE pc' = [pc EXCEPT ![o] = "failed"] /\ UNCHANGED files
  /\ UNCHANGED <<path, abs, dir, k, dirs>>

Next == \E o \in Openers : FindDir(o) \/ Mkdir(o) \/ Fopen(o)

Spec == Init /\ [][Next]_vars

-----------------------------------------------------------------------------
(* Properties.                                                             *)

(* The place a path means below the current directory. *)
Meant(p) ==
  IF At(p, 1) = "/" THEN Place(p)
  ELSE Walk(Place(Cwd), Names(p))[Len(Names(p))]

(* What init opens is the file the caller named, below the current         *)
(* directory or from the root.                                             *)
OpensWhatIsMeant ==
  \A o \in Openers : pc[o] = "done" => Meant(path[o]).down \in files

(* The places on the way to a path, and whether it can be a file at all.   *)
OnTheWay(p) == {Walk(IF At(p, 1) = "/" THEN Start(p) ELSE Place(Cwd), Names(p))[n].down :
                  n \in 0..(Len(Names(p)) - 1)}
NamesFile(p) ==
  /\ p /= <<>> /\ p[Len(p)] /= "/"
  /\ Names(p) /= <<>> /\ Last(Names(p)) \notin {<<".">>, <<".", ".">>}
  /\ Meant(p).down \notin OldDirs \cup OnTheWay(p)

(* The places that have to be directories: all of a path that ends in a /. *)
Needs(p) ==
  OnTheWay(p) \cup (IF EndsWith(p, <<"/">>) THEN {Meant(p).down} ELSE {})

(* Handlers initialised at the same time do not make each other fail,      *)
(* whatever of the directories the others have created meanwhile: init     *)
(* fails only when its path is too long or names no file, or when one      *)
(* needs as a directory what another needs as a file.                      *)
NoRaceInMkdir ==
  \A o \in Openers : pc[o] = "failed" =>
    \/ ~NamesFile(path[o])
    \/ ~AbsPath(path[o]).ok \/ Len(AbsPath(path[o]).path) >= MaxPath
    \/ \E q \in Openers \ {o} :
         \/ Meant(path[q]).down \in Needs(path[o])
         \/ Meant(path[o]).down \in Needs(path[q])

(* No directory is created that none of the paths needs.                   *)
OnlyParentsMade ==
  \A d \in dirs \ OldDirs : \E o \in Openers : d \in Needs(path[o])

(* The buffer of a result holds its string, the NUL included. *)
Fits(r, size) == r.top <= size /\ Len(r.path) < r.top

(* The last two characters are dots. *)
EndsInDots(p) == Len(p) >= 2 /\ p[Len(p)] = "." /\ p[Len(p) - 1] = "."

(* None of the names of a path is .. *)
NoParent(p) ==
  \A i \in 1..(Len(p) - 1) :
    ~(/\ p[i] = "." /\ p[i + 1] = "."
      /\ At(p, i - 1) \in {"/", NUL} /\ At(p, i + 2) \in {"/", NUL})

(* What haclog_path.c gives for every path and every size of the buffer.   *)
(* normpath of a tidy path leads to the same place (. and an empty name    *)
(* are not taken away, so a .. behind one takes away only that); it stays  *)
(* in its buffer, but for one byte when a path that is not absolute ends   *)
(* in .., and takes every .. out of an absolute path.  join and dirname    *)
(* end their strings inside the buffer; abspath of an absolute path and    *)
(* basename of one name leave out the NUL exactly when the path fills the  *)
(* buffer.  dirname and basename taken together are the path.  abspath     *)
(* leads where the path means: an absolute path comes back as it is, any   *)
(* other without a .. in it.                                               *)
PathLaws ==
  \A o \in Openers : (\A q \in Openers : pc[q] = "init") =>
    \A size \in 1..(Len(path[o]) + 4) :
      LET p == path[o]
          n == Normpath(p, size)
          j == Join(Cwd, p, size)
          d == Dirname(p, size)
          b == Basename(p, size)
          u == Abspath(Cwd, p, size, MaxPath)
      IN  /\ n.ok /\ Tidy(p) => Place(n.path) = Place(p)
          /\ n.ok => Fits(n, IF EndsInDots(p) /\ ~IsAbs(p) THEN size + 1 ELSE size)
          /\ n.ok /\ IsAbs(p) => NoParent(n.path)
          /\ j.ok => Fits(j, size)
          /\ d.ok => Fits(d, size)
          /\ b.ok => (Fits(b, size) <=> ~(LastSep(p) = 0 /\ Len(p) = size - 1))
          /\ d.ok /\ b.ok /\ size > Len(p) =>
               Place(Append(d.path, "/") \o b.path) = Place(p)
          /\ u.ok => (Fits(u, size) <=> ~(IsAbs(p) /\ Len(p) = size - 1))
          /\ u.ok => IF IsAbs(p) THEN u.path = p ELSE NoParent(u.path)
          /\ u.ok /\ Tidy(<<"/">> \o p) => Place(u.path).down = Meant(p).down

-----------------------------------------------------------------------------
(* What haclog_path.h says and the code does not do.  No run checks these: *)
(* each fails in the instance of FileOpen.cfg, and README.md says how.     *)

(* haclog_path.h says of the size of normpath "the max size of returned    *)
(* path (include '\0')": it writes nothing behind it.  A path like .. is   *)
(* written with a NUL of its own before the one that ends every path.      *)
NormpathFits ==
  \A o \in Openers, size \in 1..MaxPath :
    LET n == Normpath(path[o], size) IN n.ok => n.top <= size

(* haclog_path.h says the same of the size of abspath: what it returns is  *)
(* a string that ends inside it.  An absolute path that fills the buffer   *)
(* is copied without its NUL (basename does the same with a path that is   *)
(* one name).                                                              *)
AbspathEnds ==
  \A o \in Openers, size \in 1..MaxPath :
    LET u == Abspath(Cwd, path[o], size, MaxPath) IN u.ok => Len(u.path) < u.top

(* haclog_path.h says that abspath returns "a normalized absolutized       *)
(* version of the path": no .. is left in it.  An absolute path is         *)
(* returned as it is.                                                      *)
AbspathNormal ==
  \A o \in Openers :
    LET u == Abspath(Cwd, path[o], MaxPath, MaxPath) IN u.ok => NoParent(u.path)
=============================================================================
