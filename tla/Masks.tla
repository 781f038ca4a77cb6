-------------------------------- MODULE Masks --------------------------------
(* Wildcard masks: match.c.  match() compares a name with a mask, mmatch() two  *)
(* masks, collapse() shortens a mask, and matchcomp(), matchexec() and          *)
(* matchdecomp() work on the compiled form.  Masks and names are sequences of   *)
(* characters; what a mask means is given apart, by Language, and every         *)
(* function is compared with it over all the masks an operator can type within  *)
(* the bounds.                                                                  *)
EXTENDS Integers, Sequences, FiniteSets, SequencesExt

CONSTANTS Letters,      \* the characters of a mask that are not special
          MaskLen,      \* the length of the longest mask, in pieces
          OtherLen,     \* and of the longest mask it is compared with
          NameLen       \* the length of the longest name

VARIABLE mask           \* the mask typed so far

Wild == {"*", "?"}

NUL == "NUL"

\* what a pointer into a string reads: the terminator at the end and after it
At(s, i) == IF i \in DOMAIN s THEN s[i] ELSE NUL

ToLower(c) == IF c = "B" THEN "b" ELSE c

\* what is typed at a time: a backslash is typed with the wildcard it escapes
Pieces == {<<c>> : c \in Letters \union Wild} \union {<<"\\", "*">>}

MaskStrings(n) == {FlattenSeq(ps) : ps \in BoundedSeq(Pieces, n)}

Names == BoundedSeq(Letters \union {"b", "*"}, NameLen)

-----------------------------------------------------------------------------
(* match(): m and n walk the mask and the name; mt and nt are m_tmp and n_tmp,  *)
(* where the part after the last star starts.                                   *)

\* the wildcards from position m on: the end of the run, whether it has a star,
\* and how many question marks
WildRun(s, m) ==
  LET e == CHOOSE k \in m .. Len(s) + 1 :
             /\ At(s, k) \notin Wild
             /\ \A j \in m .. k - 1 : At(s, j) \in Wild
  IN [next |-> e, star |-> \E j \in m .. e - 1 : s[j] = "*",
      marks |-> Cardinality({j \in m .. e - 1 : s[j] = "?"})]

\* the first place from n on where the name has the character c, else its end
Seek(name, n, c, Same(_, _)) ==
  CHOOSE k \in n .. Len(name) + 1 :
    /\ k = Len(name) + 1 \/ Same(name[k], c)
    /\ \A j \in n .. k - 1 : ~Same(name[j], c)

Exactly(x, y) == x = y

Loosely(x, y) == ToLower(x) = ToLower(y)

RECURSIVE match_from(_, _, _, _, _, _)
match_from(s, name, m, n, mt, nt) ==
  LET backtrack == /\ mt # 1
                   /\ At(name, nt + 1) # NUL
                   /\ match_from(s, name, mt, nt + 1, mt, nt + 1)
      compare(i, j, i0, j0) ==
        IF At(name, j) = NUL THEN At(s, i) = NUL
        ELSE IF Loosely(At(s, i), name[j]) THEN match_from(s, name, i + 1, j + 1, i0, j0)
        ELSE /\ i0 # 1
             /\ At(name, j0 + 1) # NUL
             /\ match_from(s, name, i0, j0 + 1, i0, j0 + 1)
  IN CASE At(s, m) = NUL -> At(name, n) = NUL \/ backtrack
       [] At(s, m) = "\\" -> IF At(s, m + 1) = At(name, n)
                               THEN match_from(s, name, m + 2, n + 1, mt, nt)
                               ELSE backtrack
       [] At(s, m) \in Wild ->
            LET run == WildRun(s, m)
                k == n + run.marks
            IN IF k > Len(name) + 1 THEN backtrack
               ELSE IF ~run.star THEN compare(run.next, k, mt, nt)
               ELSE IF At(s, run.next) = NUL THEN TRUE
               ELSE IF s[run.next] = "\\"
                 THEN /\ At(s, run.next + 1) # NUL
                      /\ compare(run.next + 1, Seek(name, k, s[run.next + 1], Exactly),
                                 run.next + 1, k)
               ELSE compare(run.next, Seek(name, k, s[run.next], Loosely), run.next, k)
       [] OTHER -> compare(m, n, mt, nt)

match(s, name) == match_from(s, name, 1, 1, 1, 1)

-----------------------------------------------------------------------------
(* The other functions read an escaped wildcard as one character, and any other *)
(* backslash as itself.                                                         *)

RECURSIVE Units(_)
Units(s) ==
  IF s = <<>> THEN <<>>
  ELSE IF s[1] = "\\" /\ At(s, 2) \in Wild
    THEN <<[c |-> s[2], q |-> TRUE]>> \o Units(SubSeq(s, 3, Len(s)))
  ELSE <<[c |-> s[1], q |-> FALSE]>> \o Units(Tail(s))

Text(us) == FlattenSeq([i \in DOMAIN us |-> IF us[i].q THEN <<"\\", us[i].c>> ELSE <<us[i].c>>])

StarUnit == [c |-> "*", q |-> FALSE]

Star(u) == u = StarUnit

Mark(u) == u = [c |-> "?", q |-> FALSE]

End == [c |-> NUL, q |-> FALSE]

Unit(us, i) == IF i \in DOMAIN us THEN us[i] ELSE End

\* mmatch: ms and ns are the two masks, ma and na the places to come back to
RECURSIVE mmatch_from(_, _, _, _, _, _, _)
mmatch_from(ms, ns, m0, n, ma0, na0, wild0) ==
  LET stars == Star(Unit(ms, m0))
      m == IF stars THEN CHOOSE k \in m0 .. Len(ms) + 1 : /\ ~Star(Unit(ms, k))
                                                         /\ \A j \in m0 .. k - 1 : Star(ms[j])
           ELSE m0
      wild == wild0 \/ stars
      ma == IF stars THEN m ELSE ma0
      na == IF stars THEN n ELSE na0
      atend == m > Len(ms)
      \* the last unit before the question marks that end the mask
      back == CHOOSE k \in 0 .. Len(ms) :
                /\ k <= 1 \/ ~Mark(ms[k])
                /\ \A j \in k + 1 .. Len(ms) : Mark(ms[j]) /\ j > 1
      covers(u, v) == \/ Star(u)
                      \/ (~u.q \/ v.q) /\ Loosely(u.c, v.c)
                      \/ Mark(u) /\ (v.c # "*" \/ v.q)
      step(i, j, jb) ==
        IF covers(Unit(ms, i), Unit(ns, j))
          THEN mmatch_from(ms, ns, IF i > Len(ms) THEN i ELSE i + 1,
                           IF j > Len(ns) THEN j ELSE j + 1, ma, jb, wild)
          ELSE wild /\ mmatch_from(ms, ns, ma, jb + 1, ma, jb + 1, wild)
  IN IF atend
       THEN \/ n > Len(ns)
            \/ back > 1 /\ Star(ms[back])
            \/ wild /\ step(ma, na + 1, na + 1)
     ELSE n <= Len(ns) /\ step(m, n, na)

\* mutant: an escaped wildcard is read as two characters
mmatch_raw(old, new) ==
  LET raw(s) == [i \in DOMAIN s |-> [c |-> s[i], q |-> FALSE]]
  IN mmatch_from(raw(old), raw(new), 1, 1, 1, 1, FALSE)

mmatch(old, new) == mmatch_from(Units(old), Units(new), 1, 1, 1, 1, FALSE)

-----------------------------------------------------------------------------
\* collapse: from the first star that a wildcard follows on, each run of wildcards
\* becomes its question marks and then one star
collapse(s) ==
  LET us == Units(s)
      starts == {i \in 1 .. Len(us) - 1 : Star(us[i]) /\ (Star(us[i + 1]) \/ Mark(us[i + 1]))}
      first == CHOOSE i \in starts : \A j \in starts : i <= j
      keep(acc, u) ==
        IF Star(u) THEN [acc EXCEPT !.star = TRUE]
        ELSE IF acc.star /\ ~Mark(u)
          THEN [out |-> acc.out \o <<StarUnit, u>>, star |-> FALSE]
        ELSE [acc EXCEPT !.out = Append(@, u)]
      last == FoldLeft(keep, [out |-> SubSeq(us, 1, first - 1), star |-> FALSE],
                       SubSeq(us, first, Len(us)))
  IN IF starts = {} THEN s
     ELSE Text(IF last.star THEN Append(last.out, StarUnit) ELSE last.out)

(* Compiled masks: question marks are "A", stars "Z", everything else lower     *)
(* case, and the part after the last star is reversed and moved after the first. *)

Compile(s) ==
  LET put(acc, u) ==
        IF Star(u) THEN [acc EXCEPT !.star = TRUE]
        ELSE IF Mark(u) THEN [acc EXCEPT !.out = Append(@, "A"), !.cnt = @ + 1]
        ELSE [out |-> acc.out \o (IF acc.star THEN <<"Z">> ELSE <<>>) \o <<ToLower(u.c)>>,
              star |-> FALSE, cnt |-> acc.cnt + 1]
  IN FoldLeft(put, [out |-> <<>>, star |-> FALSE, cnt |-> 0], Units(s))

\* mutant: the tail is moved but not reversed
matchcomp_forward(s) ==
  LET c == Compile(s)
      b == c.out \o (IF c.star THEN <<"Z">> ELSE <<>>)
      zs == {i \in DOMAIN b : b[i] = "Z"}
      fs == CHOOSE i \in zs : \A j \in zs : i <= j
      ls == CHOOSE i \in zs : \A j \in zs : i >= j
  IN [minlen |-> c.cnt,
      cmask |-> IF zs = {} THEN b
                ELSE SubSeq(b, 1, fs - 1) \o SubSeq(b, ls, Len(b)) \o SubSeq(b, fs, ls - 1)]

\* the loop over lmin exchanges the two adjacent blocks fs .. ls - 1 and ls .. b - 1
matchcomp(s) ==
  LET c == Compile(s)
      b == c.out \o (IF c.star THEN <<"Z">> ELSE <<>>)
      zs == {i \in DOMAIN b : b[i] = "Z"}
      fs == CHOOSE i \in zs : \A j \in zs : i <= j
      ls == CHOOSE i \in zs : \A j \in zs : i >= j
  IN [minlen |-> c.cnt,
      cmask |-> IF zs = {} THEN b
                ELSE SubSeq(b, 1, fs - 1) \o <<"Z">> \o Reverse(SubSeq(b, ls + 1, Len(b)))
                       \o SubSeq(b, fs, ls - 1)]

\* how far the name, read from s in the direction d, agrees with the compiled mask from b
\* on, "A" standing for any one character: the first place of the mask where it does not
RECURSIVE Agrees(_, _, _, _, _)
Agrees(name, s, cm, b, d) ==
  IF At(cm, b) # NUL /\ At(name, s) # NUL /\ (ToLower(name[s]) = cm[b] \/ cm[b] = "A")
    THEN Agrees(name, s + d, cm, b + 1, d)
    ELSE [s |-> s, b |-> b]

\* the chunks between the stars: b is the star before a chunk, s the first character not
\* used, trash how many characters may still be skipped
RECURSIVE trychunks(_, _, _, _, _)
trychunks(name, cm, b, s, trash) ==
  LET ch == At(cm, b + 1)
      skip == IF \E k \in 0 .. trash : Loosely(At(name, s + k), ch)
                THEN CHOOSE k \in 0 .. trash : /\ Loosely(At(name, s + k), ch)
                                               /\ \A j \in 0 .. k - 1 : ~Loosely(At(name, s + j), ch)
                ELSE trash + 1
      at == Agrees(name, s + skip + 1, cm, b + 2, 1)
  IN \/ ch = NUL
     \/ /\ skip <= trash
        /\ CASE At(cm, at.b) = NUL -> TRUE
             [] At(cm, at.b) = "Z" -> trychunks(name, cm, at.b, at.s, trash - skip)
             [] OTHER -> skip < trash /\ trychunks(name, cm, b, s + skip + 1, trash - skip - 1)

matchexec(name, cm, minlen) ==
  LET head == Agrees(name, 1, cm, 1, 1)
      tail == Agrees(name, Len(name), cm, head.b + 1, -1)
  IN IF At(name, head.s) = NUL
       THEN At(cm, head.b) = NUL \/ (At(cm, head.b) = "Z" /\ At(cm, head.b + 1) = NUL)
     ELSE /\ At(cm, head.b) = "Z"
          /\ Len(name) >= minlen
          /\ \/ At(cm, tail.b) = NUL
             \/ /\ At(cm, tail.b) = "Z"
                /\ trychunks(name, cm, tail.b, head.s, Len(name) - minlen)

matchdecomp(cm) ==
  LET zs == {i \in DOMAIN cm : cm[i] = "Z"}
      z1 == CHOOSE i \in zs : \A j \in zs : i <= j
      z2s == zs \ {z1}
      z2 == IF z2s = {} THEN Len(cm) + 1 ELSE CHOOSE i \in z2s : \A j \in z2s : i <= j
      back(part) == FlattenSeq([i \in DOMAIN part |->
                      CASE part[i] = "A" -> <<"?">>
                        [] part[i] = "Z" -> <<"*">>
                        [] part[i] \in Wild -> <<"\\", part[i]>>
                        [] OTHER -> <<part[i]>>])
  IN IF zs = {} THEN back(cm)
     ELSE back(SubSeq(cm, 1, z1 - 1)) \o <<"*">>
            \o (IF z2s = {} THEN <<>> ELSE back(SubSeq(cm, z2 + 1, Len(cm))) \o <<"*">>)
            \o back(Reverse(SubSeq(cm, z1 + 1, z2 - 1)))

-----------------------------------------------------------------------------
(* What a mask means.                                                           *)

RECURSIVE Accepts(_, _)
Accepts(us, name) ==
  IF us = <<>> THEN name = <<>>
  ELSE IF Star(us[1])
    THEN \E k \in 0 .. Len(name) : Accepts(Tail(us), SubSeq(name, k + 1, Len(name)))
  ELSE /\ name # <<>>
       /\ Mark(us[1]) \/ Loosely(us[1].c, name[1])
       /\ Accepts(Tail(us), Tail(name))

Languages == [s \in MaskStrings(MaskLen) |-> {name \in Names : Accepts(Units(s), name)}]

Language(s) == IF s \in DOMAIN Languages THEN Languages[s]
               ELSE {name \in Names : Accepts(Units(s), name)}

MaskInit == mask = <<>>

Type(piece) ==
  /\ Len(Units(mask)) < MaskLen
  /\ mask' = mask \o piece

MaskNext == \E piece \in Pieces : Type(piece)

MaskVars == mask

-----------------------------------------------------------------------------
\* No escaped wildcard comes right after a wildcard: match() reads such a one as a wildcard
\* when it comes back to it, or as a backslash, so nothing is claimed of it.
Straight(s) ==
  LET us == Units(s)
  IN \A i \in 1 .. Len(us) - 1 : (Star(us[i]) \/ Mark(us[i])) => ~us[i + 1].q

(* match() and, through matchcomp(), matchexec() accept exactly the names a     *)
(* mask stands for, though one backtracks and the other works from both ends;   *)
(* collapse() and matchdecomp() write masks that stand for the same names.      *)
MasksMatched ==
  LET comp == matchcomp(mask)
      means == Language(mask)
  IN mask # <<>> =>
     /\ Straight(mask) => \A name \in Names : match(mask, name) = (name \in means)
     /\ \A name \in Names : matchexec(name, comp.cmask, comp.minlen) = (name \in means)
     /\ Language(collapse(mask)) = means
     /\ Language(matchdecomp(comp.cmask)) = means

(* A mask that mmatch() calls a superset of another accepts every name the      *)
(* other accepts: ban lists drop the narrower mask on its word.                 *)
MasksOrdered ==
  mask # <<>> => \A other \in MaskStrings(OtherLen) :
    /\ mmatch(mask, other) => Language(other) \subseteq Language(mask)
    /\ mmatch(other, mask) => Language(mask) \subseteq Language(other)
=============================================================================
