-------------------------------- MODULE Rules --------------------------------
(* Connection rules: crule.c.  A CRule block of the configuration holds a text  *)
(* such as "connected(x) && !directop()", which a recursive descent parser      *)
(* turns into a tree and conf_eval_crule() evaluates before a server is         *)
(* connected to.  A text is a sequence of words and signs; what a text means is *)
(* given apart, by a grammar.                                                   *)
EXTENDS Integers, Sequences, FiniteSets, SequencesExt

CONSTANTS RuleLen,      \* the longest text, in pieces
          Worlds        \* sets of clients to evaluate a rule in

VARIABLE rule           \* the pieces of the text so far

\* what is written at a time, and the words and signs it is made of
RulePieces == [op |-> <<"directop", "(", ")">>, con |-> <<"connected", "(", "x", ")">>,
               dir |-> <<"directcon", "(", "x", ")">>, via |-> <<"via", "(", "x", ",", "*", ")">>,
               bad |-> <<"connected", "(", "x", ",", "x", ")">>, and |-> <<"&", "&">>,
               or |-> <<"|", "|">>, not |-> <<"!">>, open |-> <<"(">>, close |-> <<")">>,
               odd |-> <<"$">>]

RuleText == FlattenSeq([i \in DOMAIN rule |-> RulePieces[rule[i]]])

-----------------------------------------------------------------------------
(* The scanner.  A position in the text and the token before it.                *)

Signs == {"!", "(", ")", ","}

Words == {"directop", "connected", "directcon", "via", "x", "*"}

RECURSIVE crule_scan(_, _, _)
crule_scan(text, p, pending) ==
  LET c == IF p > Len(text) THEN "end" ELSE text[p]
      found(tok, q) == [err |-> "none", tok |-> tok, p |-> q]
      unknown == [err |-> "unknown token", tok |-> "unknown", p |-> p]
  IN CASE c \in {"&", "|"} -> IF pending = "" THEN crule_scan(text, p + 1, c)
                              ELSE IF pending = c THEN found(c, p + 1)
                              ELSE unknown
       [] c \in Signs -> found(c, p + 1)
       [] c = "end" -> found("end", p)
       [] c \in Words -> found("word", p)
       [] OTHER -> unknown

crule_gettoken(text, p) == crule_scan(text, p, "")

-----------------------------------------------------------------------------
(* The parser.  Each function takes the token it starts at and gives back the   *)
(* error, the tree it leaves in its out parameter and the next token.  A child  *)
(* of a node fresh from malloc() is unset.                                      *)

Null == [fn |-> "null"]

Unset == [fn |-> "unset"]

Got(err, tree, t) == [err |-> err, tree |-> tree, tok |-> t.tok, p |-> t.p]

\* the number of arguments each function requires
crule_funclist == [connected |-> 1, directcon |-> 1, via |-> 2, directop |-> 0]

\* the words up to a comma make one argument; an empty one is left out
RECURSIVE crule_parsearglist(_, _, _, _)
crule_parsearglist(text, t, args, arg) ==
  LET word == t.tok = "word"
      given == IF arg = <<>> THEN args ELSE Append(args, arg)
      n == crule_gettoken(text, IF word THEN t.p + 1 ELSE t.p)
  IN IF ~word /\ t.tok # "," THEN [err |-> "none", args |-> given, t |-> t]
     ELSE IF n.err # "none"
       THEN [err |-> n.err, args |-> IF word THEN args ELSE given, t |-> n]
     ELSE IF word THEN crule_parsearglist(text, n, args, Append(arg, text[t.p]))
     ELSE crule_parsearglist(text, n, given, <<>>)

crule_parsefunction(text, t) ==
  LET name == text[t.p]
      open == crule_gettoken(text, t.p + 1)
      first == crule_gettoken(text, open.p)
      list == crule_parsearglist(text, first, <<>>, <<>>)
      node(fn) == [fn |-> fn, args |-> list.args]
      after == crule_gettoken(text, list.t.p)
  IN IF open.err # "none" THEN Got(open.err, Null, open)
     ELSE IF open.tok # "(" THEN Got("expected (", Null, open)
     ELSE IF name \notin DOMAIN crule_funclist THEN Got("unknown function", Null, open)
     ELSE IF first.err # "none" THEN Got(first.err, Null, first)
     ELSE IF list.err # "none" THEN Got(list.err, node("aborted"), list.t)
     ELSE IF list.t.tok # ")" THEN Got("expected )", node("aborted"), list.t)
     ELSE IF Len(list.args) # crule_funclist[name]
       THEN Got("argument mismatch", node("aborted"), list.t)
     ELSE IF after.err # "none" THEN Got(after.err, node("aborted"), after)
     ELSE Got("none", node(name), after)

RECURSIVE crule_parseorexpr(_, _, _)
RECURSIVE crule_parseandexpr(_, _, _)

RECURSIVE crule_parseprimary(_, _, _)
crule_parseprimary(text, t, negated) ==
  LET n == crule_gettoken(text, t.p)
  IN CASE t.tok = "(" ->
            IF n.err # "none" THEN Got(n.err, Null, n)
            ELSE LET e == crule_parseorexpr(text, n, Null)
                     after == crule_gettoken(text, e.p)
                 IN IF e.err # "none" THEN e
                    ELSE IF e.tree = Null THEN Got("expected &&", Null, e)
                    ELSE IF e.tok # ")" THEN Got("expected )", e.tree, e)
                    ELSE Got(after.err, e.tree, after)
       [] t.tok = "!" ->
            LET e == IF n.err # "none" THEN Got(n.err, Null, n)
                     ELSE crule_parseprimary(text, n, TRUE)
            IN Got(e.err, [fn |-> "not", l |-> e.tree], e)
       [] t.tok = "word" -> crule_parsefunction(text, t)
       [] OTHER -> Got(IF negated THEN "expected a primary" ELSE "none", Null, t)

\* the loop of crule_parseandexpr and crule_parseorexpr: part is the next operand, root the
\* tree of the ones before it, whose right child is still unset
Operands(text, sign, part, root, missing, Again(_, _)) ==
  LET joined == IF root = Null THEN part.tree ELSE [root EXCEPT !.r = part.tree]
      node == [fn |-> sign, l |-> joined, r |-> Unset]
      n == crule_gettoken(text, part.p)
  IN IF part.err = "none" /\ part.tok = sign
       THEN IF n.err # "none" THEN Got(n.err, node, n) ELSE Again(n, node)
     ELSE IF root # Null /\ part.tree = Null THEN Got(missing, joined, part)
     ELSE Got(part.err, joined, part)

crule_parseandexpr(text, t, root) ==
  Operands(text, "&", crule_parseprimary(text, t, FALSE), root, "expected a primary",
           LAMBDA n, node : crule_parseandexpr(text, n, node))

crule_parseorexpr(text, t, root) ==
  Operands(text, "|", crule_parseandexpr(text, t, Null), root, "expected &&",
           LAMBDA n, node : crule_parseorexpr(text, n, node))

\* the tree, or Null and what crule_free() is given
crule_parse(text) ==
  LET first == crule_gettoken(text, 1)
      e == IF first.err # "none" THEN Got(first.err, Null, first)
           ELSE crule_parseorexpr(text, first, Null)
  IN IF e.err = "none" /\ e.tree # Null /\ e.tok = "end"
       THEN [node |-> e.tree, freed |-> Null]
       ELSE [node |-> Null, freed |-> e.tree]

\* whether crule_free() meets only what was allocated: a missing operand on the right of
\* an operator or under a negation is skipped, one on the left is not
RECURSIVE crule_free(_)
crule_free(tree) ==
  CASE tree.fn = "not" -> tree.l = Null \/ crule_free(tree.l)
    [] tree.fn \in {"&", "|"} -> crule_free(tree.l) /\ (tree.r = Null \/ crule_free(tree.r))
    [] OTHER -> tree \notin {Null, Unset}

-----------------------------------------------------------------------------
(* Evaluation, in a set of clients.                                             *)

\* the words of an argument against a name, match() being Masks'
Suits(arg, name) == arg = <<"*">> \/ arg = <<name>>

crule_connected(w, args) == \E c \in w : c.kind # "me" /\ Suits(args[1], c.name)

crule_directcon(w, args) ==
  \E c \in w : c.kind = "server" /\ c.from = c.name /\ Suits(args[1], c.name)


crule_via(w, args) ==
  \E c \in w : c.kind # "me" /\ Suits(args[2], c.name) /\ Suits(args[1], c.from)

crule_directop(w) == \E c \in w : c.from = c.name /\ c.oper

RECURSIVE crule_eval(_, _)
crule_eval(tree, w) ==
  CASE tree.fn = "not" -> ~crule_eval(tree.l, w)
    [] tree.fn = "|" -> crule_eval(tree.l, w) \/ crule_eval(tree.r, w)
    [] tree.fn = "&" -> crule_eval(tree.l, w) /\ crule_eval(tree.r, w)
    [] tree.fn = "connected" -> crule_connected(w, tree.args)
    [] tree.fn = "directcon" -> crule_directcon(w, tree.args)
    [] tree.fn = "via" -> crule_via(w, tree.args)
    [] tree.fn = "directop" -> crule_directop(w)

\* the first rule of the list that forbids a connection to the server
conf_eval_crule(list, name, w) ==
  \E i \in DOMAIN list : Suits(list[i].hostmask, name) /\ crule_eval(list[i].node, w)

-----------------------------------------------------------------------------
(* What a rule means: the truth values its pieces can be given by the grammar   *)
(*   or  ::= and { "||" and }      and ::= primary { "&&" primary }             *)
(*   primary ::= "!" primary | "(" or ")" | function                            *)

\* the servers and the local operators of a world
Truth(piece, w) ==
  CASE piece = "op" -> \E c \in w : c.oper /\ c.from = c.name
    [] piece = "con" -> \E c \in w : c.kind = "server" /\ c.name = "x"
    [] piece = "dir" -> \E c \in w : c.kind = "server" /\ c.name = "x" /\ c.from = "x"
    [] piece = "via" -> \E c \in w : c.kind = "server" /\ c.from = "x"

RECURSIVE Ors(_, _)
RECURSIVE Ands(_, _)
RECURSIVE Primaries(_, _)
Primaries(ps, w) ==
  IF ps = <<>> THEN {}
  ELSE IF ps[1] = "not" THEN {~v : v \in Primaries(Tail(ps), w)}
  ELSE IF ps[1] = "open" /\ Last(ps) = "close" THEN Ors(SubSeq(ps, 2, Len(ps) - 1), w)
  ELSE IF Len(ps) = 1 /\ ps[1] \in {"op", "con", "dir", "via"} THEN {Truth(ps[1], w)}
  ELSE {}

Ands(ps, w) ==
  Primaries(ps, w) \union
  UNION {{u /\ v : u \in Ands(SubSeq(ps, 1, i - 1), w), v \in Primaries(SubSeq(ps, i + 1, Len(ps)), w)} :
           i \in {i \in DOMAIN ps : ps[i] = "and"}}

Ors(ps, w) ==
  Ands(ps, w) \union
  UNION {{u \/ v : u \in Ors(SubSeq(ps, 1, i - 1), w), v \in Ands(SubSeq(ps, i + 1, Len(ps)), w)} :
           i \in {i \in DOMAIN ps : ps[i] = "or"}}

RuleInit == rule = <<>>

\* bound: directcon, which is parsed as connected is, and what is refused come early
Early == {"dir", "bad", "odd"}

Write(piece) ==
  /\ Len(rule) < IF piece \in Early THEN RuleLen - 2 ELSE RuleLen
  /\ rule' = Append(rule, piece)

RuleNext == \E piece \in DOMAIN RulePieces : Write(piece)

-----------------------------------------------------------------------------
\* an operator without a left operand, which the parser lets pass
Headless ==
  \E i \in DOMAIN rule :
    \/ rule[i] = "and" /\ (i = 1 \/ rule[i - 1] \in {"open", "or", "and"})
    \/ rule[i] = "or" /\ (i = 1 \/ rule[i - 1] \in {"open", "or"})

\* an operator followed by a character that starts no token
Spoilt == \E i \in 1 .. Len(rule) - 1 : rule[i] \in {"and", "or"} /\ rule[i + 1] = "odd"

=============================================================================
