-------------------------------- MODULE Path --------------------------------
(***************************************************************************)
(* haclog_path.c: paths as sequences of characters.  A function that       *)
(* returns a path in the caller's buffer gives [ok, path, top]: whether it *)
(* returns 0, the string in the buffer, and one behind the last byte of    *)
(* the buffer it wrote; the string ends in a NUL when it is shorter.       *)
(***************************************************************************)
EXTENDS Integers, Sequences, SequencesExt

NUL == "NUL"
Separators == {"/", "\\"}
Letters == {"a", "b", "c"}      \* of the alphabet, the letters in use

At(path, i) == IF i \in DOMAIN path THEN path[i] ELSE NUL
Larger(a, b) == IF a > b THEN a ELSE b

Error == [ok |-> FALSE, path |-> <<>>, top |-> 0]
Result(p, top) == [ok |-> TRUE, path |-> p, top |-> top]

(* haclog_str_startswith and haclog_str_endswith, for a prefix or a suffix *)
(* that is not empty.                                                      *)
StartsWith(s, prefix) == IsPrefix(prefix, s)
EndsWith(s, suffix) == IsSuffix(suffix, s)

(* haclog_path_isabs: the root itself is not absolute.                     *)
IsAbs(path) ==
  \/ Len(path) > 1 /\ path[1] = "/"
  \/ /\ Len(path) > 2 /\ path[1] \in Letters /\ path[2] = ":"
     /\ path[3] \in Separators

(* The last separator, or 0. *)
LastSep(path) ==
  LET seps == {0} \cup {k \in DOMAIN path : path[k] \in Separators}
  IN  CHOOSE k \in seps : \A j \in seps : j <= k

Basename(path, size) ==
  LET pos == LastSep(path)
      name == SubSeq(path, pos + 1, Len(path))
  IN  IF \/ size <= 1 \/ name = <<>>
         \/ pos = 0 /\ Len(path) > size - 1
      THEN Error
      ELSE IF pos = 0 THEN Result(name, size - 1)       \* strncpy pads
      ELSE LET n == IF Len(name) >= size THEN size - 1 ELSE Len(name)
           IN  Result(SubSeq(name, 1, n), n + 1)

(* Mutant: the name of the file is not taken off. *)
Dirname_KeepsName(path, size) ==
  IF size <= Len(path) \/ path = <<>> THEN Error ELSE Result(path, Len(path) + 1)

(* haclog_path_dirname; in the code positions count from 0, so the length  *)
(* of the directory is the position of the separator.                      *)
Dirname(path, size) ==
  LET pos  == LastSep(path) - 1
      root == IF pos = 0 THEN 1 ELSE pos
      len  == IF root > 1 /\ path[root] = ":" THEN root + 1 ELSE root
  IN  IF size <= 1 \/ pos < 0 \/ len >= size THEN Error
      ELSE Result(SubSeq(path, 1, len), len + 1)

(* Mutant: the two parts are put together as they are. *)
Join_NoSlash(p1, p2, size) ==
  IF p1 = <<>> \/ p2 = <<>> \/ Len(p1) + Len(p2) > size - 1 THEN Error
  ELSE Result(p1 \o p2, size)

(* haclog_path_join; size - 1 is unsigned and size is never 0.  When p1    *)
(* has size - 1 characters its copy has no NUL, and the test for the       *)
(* separator reads on behind it: whatever is found there, what follows     *)
(* does not fit and the call fails.                                        *)
Join(p1, p2, size) ==
  LET head == IF EndsWith(p1, <<"/">>) \/ EndsWith(p1, <<"\\">>) THEN p1
              ELSE Append(p1, "/")
      tail == IF At(p2, 1) = "/" THEN Tail(p2) ELSE p2
  IN  IF \/ size <= 1 \/ p1 = <<>> \/ p2 = <<>> \/ Len(p1) > size - 1
         \/ tail = <<>> \/ Len(head) + Len(tail) > size - 1
      THEN Error
      ELSE Result(head \o tail, size)                   \* strncpy pads

-----------------------------------------------------------------------------
(* haclog_path_normpath: one round of its loop on a state of cursor (the   *)
(* next character), ret (what is in the buffer below pos) and top.         *)

Put(s, chars, cursor) ==
  [s EXCEPT !.ret = @ \o chars, !.cursor = cursor,
            !.top = Larger(@, Len(s.ret) + Len(chars))]

(* Mutant: the search for the parent starts at the separator itself. *)
Parent_Short(ret) == ret

(* pos -= 2, then back to behind the separator before.                     *)
Parent(ret) == SubSeq(ret, 1, LastSep(SubSeq(ret, 1, Len(ret) - 1)))

NormRound(path, s) ==
  LET c == s.cursor
      third == At(path, c + 2)
      behind == IF third = NUL THEN c + 2 ELSE c + 3
  IN  IF At(path, c) /= "." \/ At(path, c + 1) /= "."
      THEN Put(s, <<path[c]>>, c + 1)
      ELSE IF third /= NUL /\ third \notin Separators
      THEN [s EXCEPT !.ok = FALSE]
      ELSE IF \/ s.ret = <<>>
              \/ \E sep \in Separators : EndsWith(s.ret, <<".", ".", sep>>)
      THEN Put(s, <<".", ".", third>>, behind)
      ELSE IF s.ret[Len(s.ret)] \notin Separators \/ Len(s.ret) < 2
      THEN [s EXCEPT !.ok = FALSE]
      ELSE [s EXCEPT !.ret = Parent(s.ret), !.cursor = behind]

(* A NUL that was copied ends the string. *)
Ended(ret) == IF Last(ret) = NUL THEN Front(ret) ELSE ret

Normpath(path, size) ==
  LET first == IF ~IsAbs(path) /\ \E sep \in Separators :
                                     StartsWith(path, <<".", sep>>)
               THEN 3 ELSE 1
      run[n \in 0..Len(path)] ==
        IF n = 0 THEN [ok |-> TRUE, cursor |-> first, ret |-> <<>>, top |-> 0]
        ELSE LET s == run[n - 1]
             IN  IF ~s.ok \/ s.cursor > Len(path) THEN s ELSE NormRound(path, s)
      end == run[Len(path)]
      ret == IF end.ret = <<>> THEN <<".", "/">> ELSE end.ret
  IN  IF Len(path) >= size \/ ~end.ok \/ (end.ret = <<>> /\ size <= 2)
      THEN Error
      ELSE Result(Ended(ret), Larger(end.top, Len(ret) + 1))

(* haclog_path_abspath below the current directory cwd: an absolute path   *)
(* is copied without its NUL when it fills the buffer.                     *)
Abspath(cwd, path, size, max) ==
  IF size <= 1 THEN Error
  ELSE IF IsAbs(path)
  THEN IF Len(path) > size - 1 THEN Error ELSE Result(path, size - 1)
  ELSE LET full == Join(cwd, path, max)
       IN  IF ~full.ok THEN Error ELSE Normpath(full.path, size)

-----------------------------------------------------------------------------
(* What a path means to the operating system: the directories up and down  *)
(* from where it starts.  Only / separates; an empty name and . stay.      *)

Names(path) ==
  LET upTo[i \in 0..Len(path)] ==
        IF i = 0 THEN <<>>
        ELSE LET names == upTo[i - 1]
             IN  IF path[i] = "/" THEN names
                 ELSE IF At(path, i - 1) \in {"/", NUL}
                 THEN Append(names, <<path[i]>>)
                 ELSE [names EXCEPT ![Len(names)] = Append(@, path[i])]
  IN  upTo[Len(path)]

Step(place, name) ==
  IF name = <<".">> THEN place
  ELSE IF name /= <<".", ".">> THEN [place EXCEPT !.down = Append(@, name)]
  ELSE IF place.down /= <<>> THEN [place EXCEPT !.down = Front(@)]
  ELSE IF place.root THEN place
  ELSE [place EXCEPT !.up = @ + 1]

(* Where the first n names of a path lead from the place start. *)
Walk(start, names) ==
  LET at[n \in 0..Len(names)] ==
        IF n = 0 THEN start
        ELSE LET before == at[n - 1] IN Step(before, names[n])
  IN  at

Start(path) == [root |-> At(path, 1) = "/", up |-> 0, down |-> <<>>]
Place(path) == LET names == Names(path) IN Walk(Start(path), names)[Len(names)]
=============================================================================
