----------------------------- MODULE MCOptimize ----------------------------
(***************************************************************************)
(* The optimizer on the sample programs.                                   *)
(***************************************************************************)
EXTENDS Optimize, Meaning, Samples

SetX == INSTANCE FiniteSetsExt

(***************************************************************************)
(* Properties                                                              *)
(***************************************************************************)
Inputs == {<<0>>, <<1>>, <<2>>}
Names == SetX!FoldSet(LAMBDA name, names : Append(names, name), <<>>, DOMAIN funs)
\* The same result, output and end as the source's, whatever passes the code went through.
MeaningKept ==
  ~cleaning => \A args \in Inputs : Result(funs, Names, args) = Meant(Programs[program].src, args)
=============================================================================
