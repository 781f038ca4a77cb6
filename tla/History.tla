------------------------------ MODULE History ------------------------------
(***************************************************************************)
(* Who uses which nickname, who did, and who wants to know: the hash table *)
(* of clients and the table of juped nicknames (hash.c), the watch lists   *)
(* (watch.c, m_watch.c) and the nickname history (whowas.c, m_whowas.c) of *)
(* one server.                                                             *)
(*                                                                         *)
(* A nickname stands for its class under ircd_strcmp, so that a change of  *)
(* case is a change of a nickname to itself.  Chains and lists are         *)
(* sequences, their head first; a struct Whowas is a number, reused as the *)
(* allocator reuses its memory.                                            *)
(***************************************************************************)
EXTENDS Integers, Sequences, FiniteSets, SequencesExt, FiniteSetsExt

CONSTANTS
  HistScenes,   \* what a behaviour is about
  NoOne         \* a null pointer

VARIABLES hs, hScene

histVars == <<hs, hScene>>

strhash(n) == hScene.hash[n]
Buckets == 0 .. 1

-----------------------------------------------------------------------------
(* hash.c: chains of clients, of watches.                                  *)

hAdd(table, n, x) == [table EXCEPT ![strhash(n)] = <<x>> \o @]
hRem(table, n, x) == [table EXCEPT ![strhash(n)] = SelectSeq(@, LAMBDA y : y # x)]

\* The first of the chain that is looked for moves to its front.
hSeek(chain, Found(_)) ==
  LET hits == {i \in DOMAIN chain : Found(chain[i])}
  IN IF hits = {} THEN [found |-> NoOne, chain |-> chain]
     ELSE LET i == Min(hits) IN [found |-> chain[i], chain |-> <<chain[i]>> \o RemoveAt(chain, i)]

hAddClient(h, c) == [h EXCEPT !.clientTable = hAdd(@, h.cli[c].name, c)]
hRemClient(h, c) == [h EXCEPT !.clientTable = hRem(@, h.cli[c].name, c)]

hSeekClient(h, n, mask) ==
  hSeek(h.clientTable[strhash(n)], LAMBDA c : h.cli[c].stat \in mask /\ h.cli[c].name = n)
Sought(h, n, mask) == [h EXCEPT !.clientTable[strhash(n)] = hSeekClient(h, n, mask).chain]
FindUser(h, n) == hSeekClient(h, n, {"user"}).found

\* The table of juped nicknames: open addressing, no removal.
JupeSize == hScene.jupeSize
JUPEMAX == hScene.jupeMax
JupeProbe(h, n) ==
  LET at(k) == (strhash(n) + k) % JupeSize
      k == Min({k \in 0 .. JupeSize - 1 : h.jupeTable[at(k)] \in {NoOne, n}})
  IN at(k)
isNickJuped(h, n) == h.jupeTable[JupeProbe(h, n)] = n
addNickJupes(h, nicks) ==
  FoldLeft(LAMBDA r, n :
             IF r.full \/ isNickJuped(r.h, n) THEN r
             ELSE IF r.h.jupesCount = JUPEMAX THEN [r EXCEPT !.full = TRUE]
             ELSE [r EXCEPT !.h = [@ EXCEPT !.jupesCount = @ + 1, !.jupeTable[JupeProbe(@, n)] = n, !.juped = @ \union {n}]],
           [h |-> h, full |-> FALSE], nicks).h
clearNickJupes(h) ==
  [h EXCEPT !.jupesCount = 0, !.jupeTable = [i \in DOMAIN @ |-> NoOne], !.juped = {}]

-----------------------------------------------------------------------------
(* watch.c                                                                 *)

FindWatch(h, n) == \E i \in DOMAIN h.watchTable[strhash(n)] : h.watchTable[strhash(n)][i] = n

make_watch(h, n) == [h EXCEPT !.watchTable = hAdd(@, n, n), !.watchCount = @ + 1]
free_watch(h, n) == [h EXCEPT !.watchTable = hRem(@, n, n), !.watchCount = @ - 1, !.wt[n] = <<>>]

\* What a client was last told of a nickname.
Told(h, c, n, what) == [h EXCEPT !.heard[c][n] = what]

\* Every watcher of the nickname that the client has now is told.
check_status_watch(h, c, raw) ==
  LET n == h.cli[c].name
  IN IF ~FindWatch(h, n) THEN h ELSE FoldLeft(LAMBDA g, w : Told(g, w, n, raw), h, h.wt[n])

show_status_watch(h, c, n, raw1, raw2) ==
  Told(Sought(h, n, {"user"}), c, n, IF FindUser(h, n) # NoOne THEN raw1 ELSE raw2)

add_nick_watch(h, c, n) ==
  LET g == IF FindWatch(h, n) THEN h ELSE make_watch(h, n)
  IN IF Contains(g.wt[n], c) THEN g
     ELSE [g EXCEPT !.wt[n] = <<c>> \o @, !.cli[c].watch = <<n>> \o @, !.cli[c].watches = @ + 1]

del_nick_watch(h, c, n) ==
  IF ~FindWatch(h, n) \/ ~Contains(h.wt[n], c) THEN h
  ELSE LET g == [h EXCEPT !.wt[n] = SelectSeq(@, LAMBDA w : w # c),
                          !.cli[c].watch = SelectSeq(@, LAMBDA w : w # n), !.cli[c].watches = @ - 1]
       IN IF g.wt[n] = <<>> THEN free_watch(g, n) ELSE g

del_list_watch(h, c) ==
  LET Unlinked(g, n) == [g EXCEPT !.wt[n] = SelectSeq(@, LAMBDA w : w # c)]
      Freed(g, n) == IF g.wt[n] = <<>> THEN free_watch(g, n) ELSE g
  IN [FoldLeft(LAMBDA g, n : Freed(Unlinked(g, n), n), h, h.cli[c].watch)
        EXCEPT !.cli[c].watch = <<>>, !.cli[c].watches = 0]

-----------------------------------------------------------------------------
(* whowas.c                                                                *)

\* Out of the list of its client while that client is online, out of its chain and of the list of all.
whowas_clean(h, w) ==
  LET e == h.ww[w]
      Out(list) == SelectSeq(list, LAMBDA x : x # w)
      g == [h EXCEPT !.whowashash[strhash(e.name)] = Out(@), !.ww_list = Out(@)]
  IN IF e.online = NoOne THEN g ELSE [g EXCEPT !.cli[e.online].whowas = Out(@)]

whowas_free(h, w) == [whowas_clean(h, w) EXCEPT !.ww_alloc = @ - 1]

\* The oldest entry is taken again, or a new one is allocated.
whowas_alloc(h) ==
  IF h.ww_alloc >= h.length
  THEN [h |-> whowas_clean(h, Last(h.ww_list)), ww |-> Last(h.ww_list)]
  ELSE [h |-> [h EXCEPT !.ww_alloc = @ + 1], ww |-> Min(DOMAIN h.ww \ ToSet(h.ww_list))]

whowas_realloc(h) ==
  FoldLeft(LAMBDA g, i : IF g.ww_alloc > g.length THEN whowas_free(g, Last(g.ww_list)) ELSE g, h, h.ww_list)

\* The abstract history: one record per nickname given up, the youngest first.
Past(h, c, still_on) ==
  LET youngest == SubSeq(h.past, 1, Min({Len(h.past), Cardinality(DOMAIN h.ww) - 1}))
  IN [h EXCEPT !.past = <<[name |-> h.cli[c].name, who |-> c, on |-> still_on, at |-> h.now]>> \o youngest]
Gone(h, c) == [h EXCEPT !.past = [i \in DOMAIN @ |-> [@[i] EXCEPT !.on = @ /\ h.past[i].who # c]]]

add_history(h, c, still_on) ==
  LET a == whowas_alloc(h)
      n == h.cli[c].name
  IN Past([a.h EXCEPT !.ww[a.ww] = [name |-> n, logoff |-> h.now, online |-> IF still_on THEN c ELSE NoOne],
                      !.cli[c].whowas = IF still_on THEN <<a.ww>> \o @ ELSE @,
                      !.ww_list = <<a.ww>> \o @, !.whowashash[strhash(n)] = <<a.ww>> \o @], c, still_on)

off_history(h, c) ==
  [h EXCEPT !.ww = [w \in DOMAIN @ |-> IF Contains(h.cli[c].whowas, w) THEN [@[w] EXCEPT !.online = NoOne] ELSE @[w]]]

\* The client that had the nickname last, if it is still online.
get_history(h, n, timelimit) ==
  LET chain == SelectSeq(h.whowashash[strhash(n)],
                         LAMBDA w : h.ww[w].name = n /\ h.ww[w].logoff > h.now - timelimit)
  IN IF chain = <<>> THEN NoOne ELSE h.ww[Head(chain)].online

m_whowas(h, n, max) ==
  LET all == SelectSeq(h.whowashash[strhash(n)], LAMBDA w : h.ww[w].name = n)
  IN IF max >= 1 /\ Len(all) > max THEN SubSeq(all, 1, max) ELSE all

-----------------------------------------------------------------------------
(* The clients come, change their nicknames and go.                        *)

NoClient == [name |-> NoOne, stat |-> "none", watch |-> <<>>, watches |-> 0, whowas |-> <<>>]

Unused(h, n) == \A c \in DOMAIN h.cli : h.cli[c].name # n
MyUser(h, c) == c \in hScene.local /\ h.cli[c].stat = "user"

\* A local client sends its first NICK.
FirstNick(c, n) ==
  /\ "NICK" \in hScene.ops /\ c \in hScene.local
  /\ hs.cli[c].stat = "none"
  /\ Unused(hs, n) /\ ~isNickJuped(hs, n)
  /\ hs' = hAddClient([hs EXCEPT !.cli[c] = [NoClient EXCEPT !.name = n, !.stat = "unknown"], !.left = @ - 1], c)

\* A local client registers; a server introduces a client.
register_user(c) ==
  /\ hs.cli[c].stat = "unknown"
  /\ hs' = check_status_watch([hs EXCEPT !.cli[c].stat = "user", !.left = @ - 1], c, "on")
Introduce(c, n) ==
  /\ "NICK" \in hScene.ops /\ c \notin hScene.local
  /\ hs.cli[c].stat = "none"
  /\ Unused(hs, n)
  /\ hs' = check_status_watch(
             hAddClient([hs EXCEPT !.cli[c] = [NoClient EXCEPT !.name = n, !.stat = "user"], !.left = @ - 1], c), c, "on")

Renamed(h, c, n) == hAddClient([hRemClient(h, c) EXCEPT !.cli[c].name = n], c)
set_nick_name(c, n) ==
  /\ hs.cli[c].stat \in {"user"} \union hScene.early
  /\ Unused(hs, n) \/ hs.cli[c].name = n
  /\ c \in hScene.local => ~isNickJuped(hs, n)
  /\ LET g == IF hs.cli[c].stat = "user" THEN add_history(check_status_watch(hs, c, "off"), c, TRUE) ELSE hs
     IN hs' = [check_status_watch(Renamed(g, c, n), c, "on") EXCEPT !.left = @ - 1]

\* The lists that the client is in are left, the watchers told, the history kept.
exit_one_client(c) ==
  /\ hs.cli[c].stat # "none"
  /\ LET g == IF MyUser(hs, c) THEN del_list_watch(hs, c) ELSE hs
         out == hRemClient(check_status_watch(g, c, "off"), c)
     IN hs' = [IF hs.cli[c].stat = "user" THEN Gone(off_history(add_history(out, c, FALSE), c), c) ELSE hRemClient(hs, c)
                 EXCEPT !.cli[c] = NoClient, !.left = @ - 1,
                        !.heard[c] = [n \in hScene.nicks |-> "none"]]

\* One parameter of a WATCH command.
WatchParam(h, c, p) ==
  CASE p.k = "+" -> IF h.cli[c].watches >= hScene.maxWatchs THEN h
                    ELSE show_status_watch(add_nick_watch(h, c, p.n), c, p.n, "on", "off")
    [] p.k = "-" -> show_status_watch(del_nick_watch(h, c, p.n), c, p.n, "none", "none")
    [] p.k = "C" -> del_list_watch(h, c)
    [] p.k = "L" -> FoldLeft(LAMBDA g, n : show_status_watch(g, c, n, "on", "off"), h, h.cli[c].watch)
    [] p.k = "S" -> h
m_watch(c, params) ==
  /\ MyUser(hs, c)
  /\ hs' = [FoldLeft(LAMBDA g, p : WatchParam(g, c, p), hs, params) EXCEPT !.left = @ - 1]

\* A command looks for a client, of any kind or a user.
Look(n, mask) ==
  /\ "LOOK" \in hScene.ops
  /\ hs' = Sought(hs, n, mask)

\* SET and rehash: the length of the history, the nicknames of the Jupe blocks.
SetLength(k) ==
  /\ hs' = whowas_realloc([hs EXCEPT !.length = k, !.left = @ - 1])
rehash(nicks) ==
  /\ hs' = [addNickJupes(clearNickJupes(hs), nicks) EXCEPT !.left = @ - 1]

Tick ==
  /\ "TICK" \in hScene.ops
  /\ hs' = [hs EXCEPT !.now = @ + 1, !.left = @ - 1]

HistInit ==
  /\ hScene \in HistScenes
  /\ hs = [cli |-> [c \in hScene.clients |-> NoClient], clientTable |-> [b \in Buckets |-> <<>>],
           jupeTable |-> [i \in 0 .. hScene.jupeSize - 1 |-> NoOne], jupesCount |-> 0, juped |-> {},
           watchTable |-> [b \in Buckets |-> <<>>], watchCount |-> 0, wt |-> [n \in hScene.nicks |-> <<>>],
           heard |-> [c \in hScene.clients |-> [n \in hScene.nicks |-> "none"]],
           ww |-> [w \in 1 .. Max(hScene.lengths) |-> [name |-> NoOne, logoff |-> 0, online |-> NoOne]],
           ww_list |-> <<>>, ww_alloc |-> 0, whowashash |-> [b \in Buckets |-> <<>>], past |-> <<>>,
           length |-> Max(hScene.lengths), now |-> 0, left |-> hScene.left]

HistNext ==
  /\ UNCHANGED hScene
  /\ hs.left > 0
  /\ \/ \E c \in hScene.clients, n \in hScene.nicks : FirstNick(c, n) \/ Introduce(c, n) \/ set_nick_name(c, n)
     \/ \E c \in hScene.clients : register_user(c) \/ exit_one_client(c)
     \/ \E c \in hScene.local, ps \in hScene.watches : m_watch(c, ps)
     \/ \E n \in hScene.nicks, mask \in {{"user"}, {"user", "unknown"}} : Look(n, mask)
     \/ \E k \in hScene.lengths : SetLength(k)
     \/ \E nicks \in hScene.jupes : rehash(nicks)
     \/ Tick

-----------------------------------------------------------------------------

Distinct(s) == IsInjective(s)

\* Every client with a nickname is in the chain of that nickname exactly once, and nothing else is;
\* watch lists and registries link each other both ways, are counted, and registries nobody uses are
\* gone; a nickname is found juped exactly when a Jupe block of the last rehash names it and fitted
\* (hash.c, watch.c, exit_one_client, set_nick_name).
TablesAgree ==
  /\ \A b \in Buckets :
       /\ Distinct(hs.clientTable[b]) /\ Distinct(hs.watchTable[b])
       /\ ToSet(hs.clientTable[b]) = {c \in hScene.clients : hs.cli[c].stat # "none" /\ strhash(hs.cli[c].name) = b}
       /\ ToSet(hs.watchTable[b]) = {n \in hScene.nicks : hs.wt[n] # <<>> /\ strhash(n) = b}
  /\ \A c \in hScene.clients, n \in hScene.nicks : Contains(hs.wt[n], c) <=> Contains(hs.cli[c].watch, n)
  /\ \A c \in hScene.clients : hs.cli[c].watches = Len(hs.cli[c].watch) /\ Distinct(hs.cli[c].watch)
  /\ hs.watchCount = Cardinality({n \in hScene.nicks : hs.wt[n] # <<>>})
  /\ \A n \in hScene.nicks : isNickJuped(hs, n) <=> n \in hs.juped

\* What a watcher was last told of a nickname in its list is so: "off" only while no user has the
\* nickname, and "on" while one has it, unless clients that have not registered change their
\* nicknames, which the code announces too (check_status_watch in register_user, set_nick_name and
\* exit_one_client, show_status_watch in m_watch).
WatchersInformed ==
  \A c \in hScene.local, n \in hScene.nicks :
    Contains(hs.cli[c].watch, n) =>
      LET used == \E d \in hScene.clients : hs.cli[d].stat = "user" /\ hs.cli[d].name = n
      IN IF used THEN hs.heard[c][n] = "on" ELSE hs.heard[c][n] = "off" \/ hScene.early # {}

\* The history is the last of what happened: as many entries as are allocated, the youngest first, in
\* the list of all, in the chains and in the answer of WHOWAS; an entry names the client that gave the
\* nickname up exactly as long as that client is online; and a nick chase finds the client that had
\* the nickname last (whowas.c, remove_client_from_list).
HistoryKept ==
  LET kept == SubSeq(hs.past, 1, Min({hs.ww_alloc, Len(hs.past)}))
      Of(n) == SelectSeq(kept, LAMBDA e : e.name = n)
      Recent(n) == SelectSeq(kept, LAMBDA e : e.name = n /\ e.at > hs.now - hScene.chase)
      Chased(n) == IF Recent(n) = <<>> \/ ~Head(Recent(n)).on THEN NoOne ELSE Head(Recent(n)).who
  IN /\ Len(hs.ww_list) = hs.ww_alloc /\ hs.ww_alloc <= hs.length
     /\ \A i \in DOMAIN kept :
          LET e == hs.ww[hs.ww_list[i]]
          IN e = [name |-> kept[i].name, logoff |-> kept[i].at, online |-> IF kept[i].on THEN kept[i].who ELSE NoOne]
     /\ \A c \in hScene.clients :
          ToSet(hs.cli[c].whowas) = {w \in ToSet(hs.ww_list) : hs.ww[w].online = c}
     /\ \A n \in hScene.nicks :
          /\ Len(m_whowas(hs, n, 0)) = Len(Of(n)) /\ get_history(hs, n, hScene.chase) = Chased(n)
          /\ \A i \in DOMAIN m_whowas(hs, n, 1) : m_whowas(hs, n, 1)[i] = m_whowas(hs, n, 0)[i]

=============================================================================
