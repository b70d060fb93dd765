-------------------------------- MODULE Loc --------------------------------
(***************************************************************************)
(* loc/loc.go: positions in the files of a module.                         *)
(*                                                                         *)
(* The files are laid one after the other; a Range is a pair of offsets    *)
(* into the whole.  Loc finds the file, line and column of a range again.  *)
(***************************************************************************)
EXTENDS Integers, Sequences, FiniteSets

\* The total length of all files.
LocsLen(fs) == IF fs = <<>> THEN 0 ELSE fs[Len(fs)].offs + fs[Len(fs)].len

Newlines(text) == {i \in DOMAIN text : text[i] = "\n"}

\* mutant: the places of newlines count from the start of their own file
AddFileOwnLines(fs, path, text) ==
  Append(fs, [path |-> path, offs |-> LocsLen(fs), len |-> Len(text),
              lines |-> {i - 1 : i \in Newlines(text)}])
\* Add a file of the given path and text; lines are the offsets of its newlines, which
\* the code keeps in the order of the text.
AddFile(fs, path, text) ==
  Append(fs, [path |-> path, offs |-> LocsLen(fs), len |-> Len(text),
              lines |-> {LocsLen(fs) + i - 1 : i \in Newlines(text)}])

\* Whether the search for the file of offset p stops at file i: at the first that is
\* followed by one behind p.
StopsAt(fs, p, i) ==
  /\ \A j \in 2..i : fs[j].offs <= p
  /\ i < Len(fs) => fs[i + 1].offs > p

\* The file, line and column of offset p.
Loc1(fs, p) ==
  LET file == fs[CHOOSE i \in 1..Len(fs) : StopsAt(fs, p, i)]
      before == {nl \in file.lines : nl < p}
      col1 == CHOOSE nl \in before \cup {file.offs - 1} : \A other \in before : other <= nl
  IN [path |-> file.path, line |-> Cardinality(before) + 1, col |-> p - col1]

\* The place of a range: none if it is outside of the files, a panic if its ends are in
\* different ones.
LocOf(fs, r) ==
  IF fs = <<>> \/ r[1] < 0 \/ r[2] > LocsLen(fs) THEN [kind |-> "nil"]
  ELSE LET start == Loc1(fs, r[1])
           end == Loc1(fs, r[2])
       IN IF start.path # end.path THEN [kind |-> "panic"]
          ELSE [kind |-> "loc", path |-> start.path, line |-> <<start.line, end.line>>,
                col |-> <<start.col, end.col>>]
=============================================================================
