------------------------------- MODULE Parser ------------------------------
(***************************************************************************)
(* The packrat parser of ast/grammar.go, and ast/parser.go, which reads    *)
(* the files of a module with it.                                          *)
(*                                                                         *)
(* A text is walked by the File rule up to three times.  Accepts decides   *)
(* whether there is a parse and remembers, for each rule and position, how *)
(* far the rule reached and how far its furthest failure was.  Action,     *)
(* after a success, builds the tree, and Fail, after a failure, collects   *)
(* what was wanted at the furthest failure; both rely on what Accepts has  *)
(* remembered.  Positions count from 0, as in the code.                    *)
(***************************************************************************)
EXTENDS Grammar, Loc

VARIABLES
  files,  \* Parser.files: what was parsed
  locs,   \* Parser.locs: nil (<<>>) or the one list of the files' locations
  err     \* the error of the last call of Parse: nil (<<>>) or the one parseError

vars == <<files, locs, err>>

(***************************************************************************)
(* Accepts.  A state of the walk: whether it goes on, its position, its    *)
(* furthest failure, and the memo, with <<0, 0>> for what is not known, and*)
(* one more than the two distances from the start of a rule, or -1 instead *)
(* of the first distance if the rule fails.                                *)
(***************************************************************************)
RuleNames == DOMAIN Rule
NoMemo(t) == [p \in 0..Len(t) |-> [r \in RuleNames |-> <<0, 0>>]]

\* mutant: a rule that matched the empty text counts as not known
MemoizeBare(r, start, s) ==
  LET perr == IF s.ok /\ r \in NamedRules THEN start ELSE s.err
  IN [s.memo EXCEPT ![start][r] = <<IF s.ok THEN s.pos - start ELSE -1, perr - start + 1>>]
\* _memoize: rule r, walked from start, ended in s.  Named rules do not fail inside.
Memoize(r, start, s) ==
  LET perr == IF s.ok /\ r \in NamedRules THEN start ELSE s.err
  IN [s.memo EXCEPT ![start][r] = <<IF s.ok THEN s.pos - start + 1 ELSE -1, perr - start + 1>>]

Moved(s, n)      == [s EXCEPT !.pos = @ + n]
Missed(s)        == [s EXCEPT !.ok = FALSE, !.err = Maximum(@, s.pos)]
BackTo(s, start) == [s EXCEPT !.ok = TRUE, !.pos = start.pos]

\* _memo: what memo knows of rule r where st is.
Recall(r, st, memo) ==
  LET known == memo[st.pos][r] IN
  [ok |-> known[1] > 0,
   pos |-> IF known[1] > 0 THEN st.pos + known[1] - 1 ELSE st.pos,
   err |-> Maximum(st.err, st.pos + known[2] - 1),
   memo |-> memo]

RECURSIVE Accepts(_, _, _)
\* _accept: rule r, walked at most once at each position.
AcceptRule(t, r, st) ==
  Recall(r, st, IF st.memo[st.pos][r][1] # 0 THEN st.memo
                ELSE Memoize(r, st.pos, Accepts(t, Rule[r], [st EXCEPT !.err = -1])))

RECURSIVE AcceptAll(_, _, _)
AcceptAll(t, es, st) ==
  IF es = <<>> \/ ~st.ok THEN st ELSE AcceptAll(t, Tail(es), Accepts(t, Head(es), st))

\* The first of es that accepts from where start stands; failures add up.
RECURSIVE AcceptOne(_, _, _)
AcceptOne(t, es, start) ==
  LET s == Accepts(t, Head(es), start) IN
  IF s.ok \/ Len(es) = 1 THEN s ELSE AcceptOne(t, Tail(es), BackTo(s, start))

Accepts(t, e, st) ==
  CASE e.op = "rule"  -> AcceptRule(t, e.rule, st)
    [] e.op = "cat"   -> AcceptAll(t, e.es, st)
    [] e.op = "alt"   -> AcceptOne(t, e.es, st)
    [] e.op = "lit"   -> IF At(t, st.pos, e.text) THEN Moved(st, Len(e.text)) ELSE Missed(st)
    [] e.op = "in"    -> IF st.pos < Len(t) /\ t[st.pos + 1] \in e.chars THEN Moved(st, 1) ELSE Missed(st)
    [] e.op = "notin" -> IF st.pos < Len(t) /\ t[st.pos + 1] \notin e.chars THEN Moved(st, 1) ELSE Missed(st)
    [] e.op = "any"   -> IF st.pos < Len(t) THEN Moved(st, 1) ELSE Missed(st)
    [] e.op = "star"  -> LET s == Accepts(t, e.e, st) IN
                         IF s.ok THEN Accepts(t, e, s) ELSE BackTo(s, st)
    [] e.op = "plus"  -> LET s == Accepts(t, e.e, st) IN
                         IF s.ok THEN Accepts(t, Star(e.e), s) ELSE s
    [] e.op = "opt"   -> LET s == Accepts(t, e.e, st) IN IF s.ok THEN s ELSE BackTo(s, st)
    [] e.op = "not"   -> LET s == Accepts(t, e.e, st) IN
                         IF s.ok THEN [Missed(BackTo(s, st)) EXCEPT !.err = Maximum(st.err, st.pos)]
                         ELSE [BackTo(s, st) EXCEPT !.err = st.err]
    [] OTHER          -> Accepts(t, e.e, st)

FileAccepts(t) ==
  AcceptRule(t, "File", [ok |-> TRUE, pos |-> 0, err |-> -1, memo |-> NoMemo(t)])

(***************************************************************************)
(* Action.  A state of the walk: whether it goes on, its position, the     *)
(* value of what it passed, and the labels of the rule.  Labels that were  *)
(* set stay so when the walk turns back.  A rule that Accepts has seen fail*)
(* fails at once.  makeRange adds offs, the length of the files before, or *)
(* gives the range <<-1, -1>> if there are no locations.  (The code keeps  *)
(* the nodes it has built; building one again builds the same.)            *)
(***************************************************************************)
MakeRangeInFile(offs, start, end) ==   \* mutant: the files before are forgotten
  IF offs < 0 THEN <<-1, -1>> ELSE <<start, end>>
MakeRange(offs, start, end) ==
  IF offs < 0 THEN <<-1, -1>> ELSE <<start + offs, end + offs>>

RECURSIVE Action(_, _, _, _, _)
ActRule(t, memo, offs, r, st) ==
  IF memo[st.pos][r][1] < 0 THEN [st EXCEPT !.ok = FALSE]
  ELSE LET s == Action(t, memo, offs, Rule[r], [st EXCEPT !.env = <<>>]) IN [s EXCEPT !.env = st.env]

RECURSIVE ActAll(_, _, _, _, _)
ActAll(t, memo, offs, es, st) ==
  IF es = <<>> \/ ~st.ok THEN st
  ELSE LET s == Action(t, memo, offs, Head(es), st)
       IN ActAll(t, memo, offs, Tail(es), [s EXCEPT !.val = st.val \o @])

RECURSIVE ActOne(_, _, _, _, _)
ActOne(t, memo, offs, es, start) ==
  LET s == Action(t, memo, offs, Head(es), start) IN
  IF s.ok \/ Len(es) = 1 THEN s ELSE ActOne(t, memo, offs, Tail(es), BackTo(s, start))

RECURSIVE ActMany(_, _, _, _, _)
ActMany(t, memo, offs, e, st) ==
  LET s == Action(t, memo, offs, e, st) IN
  IF s.ok THEN ActMany(t, memo, offs, e, [s EXCEPT !.val = st.val \o @])
  ELSE [BackTo(s, st) EXCEPT !.val = st.val]

Read(t, st, n)   == [st EXCEPT !.pos = @ + n, !.val = SubSeq(t, st.pos + 1, st.pos + n)]
Nothing(s, st)   == [BackTo(s, st) EXCEPT !.val = <<>>]
Refused(st)      == [st EXCEPT !.ok = FALSE, !.val = <<>>]

Action(t, memo, offs, e, st) ==
  CASE e.op = "rule"  -> ActRule(t, memo, offs, e.rule, st)
    [] e.op = "cat"   -> ActAll(t, memo, offs, e.es, [st EXCEPT !.val = <<>>])
    [] e.op = "alt"   -> ActOne(t, memo, offs, e.es, st)
    [] e.op = "lit"   -> IF At(t, st.pos, e.text) THEN Read(t, st, Len(e.text)) ELSE Refused(st)
    [] e.op = "in"    -> IF st.pos < Len(t) /\ t[st.pos + 1] \in e.chars THEN Read(t, st, 1) ELSE Refused(st)
    [] e.op = "notin" -> IF st.pos < Len(t) /\ t[st.pos + 1] \notin e.chars THEN Read(t, st, 1) ELSE Refused(st)
    [] e.op = "any"   -> IF st.pos < Len(t) THEN Read(t, st, 1) ELSE Refused(st)
    [] e.op = "star"  -> ActMany(t, memo, offs, e.e, [st EXCEPT !.val = <<>>])
    [] e.op = "plus"  -> LET s == Action(t, memo, offs, e.e, st) IN
                         IF s.ok THEN ActMany(t, memo, offs, e.e, s) ELSE s
    [] e.op = "opt"   -> LET s == Action(t, memo, offs, e.e, st) IN IF s.ok THEN s ELSE Nothing(s, st)
    [] e.op = "not"   -> LET s == Action(t, memo, offs, e.e, st) IN IF s.ok THEN Refused(s) ELSE Nothing(s, st)
    [] e.op = "as"    -> LET s == Action(t, memo, offs, e.e, st) IN
                         IF s.ok THEN [s EXCEPT !.env = (e.label :> s.val) @@ @] ELSE s
    [] e.op = "pick"  -> LET s == Action(t, memo, offs, e.e, st) IN
                         IF s.ok THEN [s EXCEPT !.val = Val(s.env, e.label)] ELSE s
    [] e.op = "do"    -> LET s == Action(t, memo, offs, e.e, st) IN
                         IF s.ok THEN [s EXCEPT !.val = Build(e.tag, s.env, MakeRange(offs, st.pos, s.pos))]
                         ELSE s

FileAction(t, memo, offs) ==
  ActRule(t, memo, offs, "File", [ok |-> TRUE, pos |-> 0, val |-> <<>>, env |-> <<>>])
(***************************************************************************)
(* Fail.  A state of the walk: whether it goes on, its position, what was  *)
(* wanted, as a set of pairs of a position and a name, and what was wanted *)
(* by the rules walked so far.  Only rules whose furthest failure is at    *)
(* errPos or behind it are walked; of the others, what Accepts knows is    *)
(* enough.  The failures of a named rule are replaced by its name.         *)
(***************************************************************************)
NotWalked(t) == [p \in 0..Len(t) |-> [r \in RuleNames |-> <<>>]]

Lacks(st, errPos, want) ==
  [st EXCEPT !.ok = FALSE, !.wants = IF st.pos >= errPos THEN @ \cup {<<st.pos, want>>} ELSE @]

\* mutant: rules that fail at errPos itself are taken for fine
ReachesBehindErr(start, known, errPos) == start + known[2] - 1 > errPos
\* Does the rule have a failure at errPos or behind it?
ReachesErr(start, known, errPos) == start + known[2] - 1 >= errPos

RECURSIVE Fail(_, _, _, _, _)
\* What _memo knows, and what was wanted.
KnownOf(st, known, wants) ==
  [st EXCEPT !.ok = known[1] > 0, !.pos = IF known[1] > 0 THEN st.pos + known[1] - 1 ELSE @,
             !.wants = @ \cup wants]
\* Rule r was walked from st to s.
FailWalked(r, st, s) ==
  LET wants == CASE r \notin NamedRules -> s.wants
                 [] r \in NamedRules /\ s.ok -> {}
                 [] OTHER -> {<<st.pos, r>>}
  IN [s EXCEPT !.wants = st.wants \cup wants, !.walked[st.pos][r] = <<wants>>]
\* _fail and _failMemo
FailRule(t, memo, errPos, r, st) ==
  LET start == st.pos
      known == memo[start][r]
  IN CASE start > errPos -> [st EXCEPT !.ok = FALSE]
       [] start <= errPos /\ ~ReachesErr(start, known, errPos) -> KnownOf(st, known, {})
       [] start <= errPos /\ ReachesErr(start, known, errPos) /\ st.walked[start][r] # <<>> ->
            KnownOf(st, known, st.walked[start][r][1])
       [] OTHER -> FailWalked(r, st, Fail(t, memo, errPos, Rule[r], [st EXCEPT !.wants = {}]))

RECURSIVE FailAll(_, _, _, _, _)
FailAll(t, memo, errPos, es, st) ==
  IF es = <<>> \/ ~st.ok THEN st
  ELSE FailAll(t, memo, errPos, Tail(es), Fail(t, memo, errPos, Head(es), st))

RECURSIVE FailOne(_, _, _, _, _)
FailOne(t, memo, errPos, es, start) ==
  LET s == Fail(t, memo, errPos, Head(es), start) IN
  IF s.ok \/ Len(es) = 1 THEN s ELSE FailOne(t, memo, errPos, Tail(es), BackTo(s, start))

Fail(t, memo, errPos, e, st) ==
  LET One(ok) == IF ok THEN Moved(st, 1) ELSE Lacks(st, errPos, e.want)
      s == Fail(t, memo, errPos, e.e, st)
  IN CASE e.op = "rule"  -> FailRule(t, memo, errPos, e.rule, st)
       [] e.op = "cat"   -> FailAll(t, memo, errPos, e.es, st)
       [] e.op = "alt"   -> FailOne(t, memo, errPos, e.es, st)
       [] e.op = "lit"   -> IF At(t, st.pos, e.text) THEN Moved(st, Len(e.text)) ELSE Lacks(st, errPos, e.want)
       [] e.op = "in"    -> One(st.pos < Len(t) /\ t[st.pos + 1] \in e.chars)
       [] e.op = "notin" -> One(st.pos < Len(t) /\ t[st.pos + 1] \notin e.chars)
       [] e.op = "any"   -> One(st.pos < Len(t))
       [] e.op = "star"  -> IF s.ok THEN Fail(t, memo, errPos, e, s) ELSE BackTo(s, st)
       [] e.op = "plus"  -> IF s.ok THEN Fail(t, memo, errPos, Star(e.e), s) ELSE s
       [] e.op = "opt"   -> IF s.ok THEN s ELSE BackTo(s, st)
       [] e.op = "not"   -> IF s.ok THEN Lacks([BackTo(s, st) EXCEPT !.wants = st.wants], errPos, e.want)
                            ELSE [BackTo(s, st) EXCEPT !.wants = st.wants]
       [] OTHER          -> s

FileFail(t, memo, errPos) ==
  FailRule(t, memo, errPos, "File", [ok |-> TRUE, pos |-> 0, wants |-> {}, walked |-> NotWalked(t)])

(***************************************************************************)
(* The parser of a module: NewParser and NewParserWithLocs(nil), and Parse *)
(***************************************************************************)
Init ==
  /\ files = <<>>
  /\ locs \in {<<>>, <<<<>>>>}
  /\ err = <<>>

Offset == IF locs = <<>> THEN -1 ELSE LocsLen(locs[1])

\* Parse, of a text that is refused: a is what Accepts has found, f what Fail has.
Refuse(path, text, a, f) ==
  /\ ~a.ok
  /\ err' = <<[path |-> path, text |-> text, loc |-> a.err, failed |-> ~f.ok, wants |-> f.wants]>>
  /\ UNCHANGED <<files, locs>>

\* Parse, of a text that is accepted.
Admit(path, text, a) ==
  /\ a.ok
  /\ files' = Append(files, [path |-> path] @@ FileAction(text, a.memo, Offset).val[1])
  /\ locs' = IF locs = <<>> THEN <<>> ELSE <<AddFile(locs[1], path, text)>>
  /\ err' = <<>>

Parse(path, text) ==
  \E a \in {FileAccepts(text)} :
    \/ ~a.ok /\ \E f \in {FileFail(text, a.memo, a.err)} : Refuse(path, text, a, f)
    \/ Admit(path, text, a)
=============================================================================
