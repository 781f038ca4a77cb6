------------------------------- MODULE Config -------------------------------
(***************************************************************************)
(* The configuration of a running server: the blocks of the file           *)
(* (s_conf.c), connection classes (class.c), listening ports (listener.c), *)
(* messages of the day and their cache (motd.c) and features               *)
(* (ircd_features.c), which clients refer to while REHASH replaces them.   *)
(*                                                                         *)
(* cfg is one record.  Each C function is an operator from its old value   *)
(* to the new one, under its own name.  Blocks, classes, listeners and     *)
(* caches are never given an old identifier again, so that `freed' tells   *)
(* whether a reference still points at memory the server owns.             *)
(* cfg.undefined names the accesses to freed memory the code can make; a   *)
(* behaviour ends there.                                                   *)
(***************************************************************************)
EXTENDS Integers, Sequences, FiniteSets, SequencesExt

CONSTANT CfgScenes    \* what the server and its configuration files are like

VARIABLES cfgScene, cfg

cfgVars == <<cfgScene, cfg>>

Users == {c \in DOMAIN cfgScene.who : cfgScene.who[c].kind = "user"}
Peers == {c \in DOMAIN cfgScene.who : cfgScene.who[c].kind = "server"}

First(seq) == IF seq = <<>> THEN 0 ELSE Head(seq)

\* the element of a singleton
The(S) == CHOOSE x \in S : TRUE

-----------------------------------------------------------------------------
\* Connection classes.  Class 1 is "default", the head of connClassList.

make_class(w, name) ==
  LET k == Len(w.classes) + 1
  IN  [w EXCEPT !.classes = Append(@, [name |-> name, max |-> 0, links |-> 1, valid |-> FALSE,
                                       freed |-> FALSE]),
                !.clist = <<Head(@), k>> \o Tail(@)]

free_class(w, k) == [w EXCEPT !.classes[k].freed = TRUE]

init_class(w) == [w EXCEPT !.classes[1].max = w.feat.MAXIMUM_LINKS.v, !.classes[1].valid = TRUE,
                           !.classes[1].links = 1]

class_mark_delete(w) ==
  FoldLeft(LAMBDA v, k : [v EXCEPT !.classes[k].valid = FALSE], w, Tail(w.clist))


class_delete_marked(w) ==
  FoldLeft(LAMBDA v, k : IF v.classes[k].valid \/ v.classes[k].links > 1 THEN v
                         ELSE free_class([v EXCEPT !.clist = SelectSeq(@, LAMBDA j : j # k)], k),
           w, w.clist)

\* The class of this name, 0 if there is none; `extras' admits those marked for deletion.
do_find_class(w, name, extras) ==
  First(SelectSeq(w.clist, LAMBDA k : w.classes[k].name = name /\ (w.classes[k].valid \/ extras)))

find_class(w, name) == do_find_class(w, name, FALSE)

add_class(w, name, max) ==
  LET old == do_find_class(w, name, TRUE)
      v == IF old = 0 THEN make_class(w, name) ELSE w
      k == IF old = 0 THEN Len(v.classes) ELSE old
  IN  [v EXCEPT !.classes[k].max = max, !.classes[k].valid = TRUE]

-----------------------------------------------------------------------------
\* Blocks of the file: the items of GlobalConfList (cfg.list) and of cli_confs.

make_conf(w, item) ==
  [w EXCEPT !.items = Append(@, item), !.list = <<Len(w.items) + 1>> \o @]

free_conf(w, i) ==
  [w EXCEPT !.items[i].freed = TRUE,
            !.queries = IF w.items[i].dns THEN {q \in @ : q.item # i} ELSE @]

\* The class of an item that counts its clients; a Uworld block has none.
Counted(w, i) == w.items[i].kind # "uworld"

\* SVSNOOP marks operator blocks that are still listed: freeing one leaves it in the list.
detach_conf(w, c, i) ==
  LET k == w.items[i].class
      a == IF Counted(w, i) /\ w.classes[k].links > 0 THEN [w EXCEPT !.classes[k].links = @ - 1] ELSE w
      b == [a EXCEPT !.items[i].clients = @ - 1, !.cl[c].confs = SelectSeq(@, LAMBDA j : j # i)]
      gone == b.items[i].clients = 0 /\ b.items[i].illegal
  IN  IF ~gone THEN b
      ELSE [free_conf(b, i) EXCEPT
              !.undefined = IF w.items[i].kind = "oper" /\ Contains(w.list, i) THEN @ \union {"svsnoop"}
                            ELSE @]

\* keep: the kinds of item that stay attached
det_confs_butmask(w, c, keep) ==
  FoldLeft(LAMBDA v, i : IF v.items[i].kind \in keep THEN v ELSE detach_conf(v, c, i),
           w, w.cl[c].confs)

is_attached(w, c, i) == Contains(w.cl[c].confs, i)

\* mutant: blocks that the file no longer has still admit
attach_conf_illegal(w, c, i) ==
  LET t == w.items[i]
  IN  IF is_attached(w, c, i) THEN [acr |-> "already", w |-> w]
      ELSE IF Counted(w, i)
           THEN [acr |-> "ok", w |-> [w EXCEPT !.cl[c].confs = <<i>> \o @, !.items[i].clients = @ + 1,
                                              !.classes[t.class].links = @ + 1]]
           ELSE [acr |-> "ok", w |-> [w EXCEPT !.cl[c].confs = <<i>> \o @, !.items[i].clients = @ + 1]]

attach_conf(w, c, i) ==
  LET t == w.items[i]
      full == /\ t.kind \in {"client", "oper"}
              /\ w.classes[t.class].max > 0
              /\ w.classes[t.class].links >= w.classes[t.class].max
      a == [w EXCEPT !.cl[c].confs = <<i>> \o @, !.items[i].clients = @ + 1]
  IN  CASE is_attached(w, c, i) -> [acr |-> "already", w |-> w]
        [] ~is_attached(w, c, i) /\ t.illegal -> [acr |-> "no", w |-> w]
        [] ~is_attached(w, c, i) /\ ~t.illegal /\ full -> [acr |-> "class", w |-> w]
        [] OTHER -> [acr |-> "ok", w |-> IF Counted(w, i) THEN [a EXCEPT !.classes[t.class].links = @ + 1]
                                         ELSE a]

\* Attach these items; `first' is the first one attached, 0 if none was.
AttachAll(w, c, is) ==
  FoldLeft(LAMBDA r, i : LET a == attach_conf(r.w, c, i)
                         IN  [w |-> a.w, first |-> IF a.acr = "ok" /\ r.first = 0 THEN i ELSE r.first],
           [w |-> w, first |-> 0], is)

attach_confs_byname(w, c, name, kind) ==
  AttachAll(w, c, SelectSeq(w.list, LAMBDA i : LET t == w.items[i]
                                               IN  t.kind = kind /\ ~t.illegal /\ t.name = name))

attach_confs_byhost(w, c, host, kind) ==
  AttachAll(w, c, SelectSeq(w.list, LAMBDA i : LET t == w.items[i]
                                               IN  t.kind = kind /\ ~t.illegal /\ host \in t.hosts))

find_conf_byname(w, c, name, kind) ==
  First(SelectSeq(w.cl[c].confs, LAMBDA i : w.items[i].kind = kind /\ w.items[i].name = name))

find_conf_byhost(w, c, host, kind) ==
  First(SelectSeq(w.cl[c].confs, LAMBDA i : w.items[i].kind = kind /\ host \in w.items[i].hosts))

\* by address: the one configured or learnt for the item
find_conf_byip(w, c, host, kind) ==
  First(SelectSeq(w.cl[c].confs, LAMBDA i : w.items[i].kind = kind /\ w.items[i].addr = host))

find_conf_exact(w, name, host, kind) ==
  First(SelectSeq(w.list, LAMBDA i : LET t == w.items[i]
                                     IN  /\ t.kind = kind
                                         /\ t.name = name
                                         /\ host \in t.hosts
                                         /\ \/ t.kind # "oper"
                                            \/ w.classes[t.class].max = 0
                                            \/ t.clients < w.classes[t.class].max))

conf_find_server(w, name) ==
  First(SelectSeq(w.list, LAMBDA i : LET t == w.items[i]
                                     IN  t.kind = "server" /\ ~t.illegal /\ t.name = name))

attach_iline(w, c) ==
  LET me == cfgScene.who[c]
      port == w.ports[w.cl[c].port].port
      i == First(SelectSeq(w.list, LAMBDA k : LET t == w.items[k]
                                              IN  /\ t.kind = "client"
                                                  /\ ~t.illegal
                                                  /\ t.port \in {0, port}
                                                  /\ me.host \in t.hosts))
  IN  CASE i = 0 -> [acr |-> "no", w |-> w]
        [] i # 0 /\ me.nr > w.items[i].maximum -> [acr |-> "many", w |-> w]
        [] i # 0 /\ me.nr <= w.items[i].maximum /\ w.items[i].redirect -> [acr |-> "no", w |-> w]
        [] OTHER -> attach_conf(w, c, i)

conf_check_client(w, c) == attach_iline(w, c)

\* The class name get_client_class() gives: that of the latest attached item with a class.
get_client_class(w, c) ==
  LET i == First(SelectSeq(w.cl[c].confs, LAMBDA k : w.items[k].kind # "uworld"))
  IN  IF i = 0 THEN "(null-class)" ELSE w.classes[w.items[i].class].name

-----------------------------------------------------------------------------
\* Nameserver queries for Connect blocks.  A query is for an item and for conf_dns_callback
\* ("conf") or connect_dns_callback ("connect").

Ask(w, i, k) ==
  [w EXCEPT !.items[i].dns = TRUE, !.queries = @ \union {[item |-> i, k |-> k]},
            !.doubled = IF \E q \in w.queries : q.item = i THEN @ \union {i} ELSE @]

conf_dns_lookup(w, i) == IF w.items[i].dns THEN w ELSE Ask(w, i, "conf")

\* A block with an address needs no query.
lookup_confhost(w, i) == IF w.items[i].addr # "none" THEN w ELSE conf_dns_lookup(w, i)

conf_dns_callback(w, i, addr) ==
  [w EXCEPT !.items[i].dns = FALSE, !.items[i].addr = IF addr # "none" THEN addr ELSE @]

-----------------------------------------------------------------------------
\* Listening ports: ListenerPollList is cfg.plist; v4 and v6 tell which sockets are open.

make_listener(port) ==
  [port |-> port, active |-> FALSE, mask |-> {}, refs |-> 0, open |-> {}, freed |-> FALSE]

free_listener(w, j) == [w EXCEPT !.ports[j].freed = TRUE]

find_listener(w, port) ==
  First(SelectSeq(w.plist, LAMBDA j : w.ports[j].port = port))

\* One Port block.  A family that cannot be opened is in fail.
add_listener(w, line) ==
  LET old == find_listener(w, line.port)
      j == IF old = 0 THEN Len(w.ports) + 1 ELSE old
      l == IF old = 0 THEN make_listener(line.port) ELSE w.ports[old]
      open == {f \in line.fams : f \in l.open \/ f \notin line.fail}
      new == [l EXCEPT !.active = TRUE, !.mask = line.mask, !.open = open]
      v == [w EXCEPT !.ports = IF old = 0 THEN Append(@, new) ELSE [@ EXCEPT ![old] = new]]
  IN  CASE line.port = 0 -> w
        [] line.port # 0 /\ open = {} ->
             [free_listener(v, j) EXCEPT !.undefined = IF old # 0 THEN @ \union {"listener"} ELSE @]
        [] OTHER -> IF old = 0 THEN [v EXCEPT !.plist = <<j>> \o @] ELSE v

mark_listeners_closing(w) ==
  FoldLeft(LAMBDA v, j : [v EXCEPT !.ports[j].active = FALSE], w, w.plist)

close_listener(w, j) ==
  free_listener([w EXCEPT !.plist = SelectSeq(@, LAMBDA k : k # j), !.ports[j].open = {}], j)

close_listeners(w) ==
  FoldLeft(LAMBDA v, j : IF ~v.ports[j].active /\ v.ports[j].refs = 0 THEN close_listener(v, j) ELSE v,
           w, w.plist)

release_listener(w, j) ==
  LET v == [w EXCEPT !.ports[j].refs = @ - 1]
  IN  IF v.ports[j].refs = 0 /\ ~v.ports[j].active THEN close_listener(v, j) ELSE v

\* A connection on the listener: refused if the listener is closing or the address is not in its mask.
accept_connection(w, j, c) ==
  LET l == w.ports[j]
  IN  IF ~l.active \/ cfgScene.who[c].host \notin l.mask THEN w
      ELSE [w EXCEPT !.cl[c] = [st |-> "unknown", confs |-> <<>>, port |-> j], !.ports[j].refs = @ + 1]

close_connection(w, c) ==
  LET v == det_confs_butmask(w, c, {})
      u == IF v.cl[c].port = 0 THEN v ELSE release_listener(v, v.cl[c].port)
  IN  [u EXCEPT !.cl[c] = [st |-> "none", confs |-> <<>>, port |-> 0]]

-----------------------------------------------------------------------------
\* Messages of the day.  cfg.motds[1 .. 4] are the local, remote, operator and rules messages,
\* the others the list MotdList.other.  disk[p] is the version of file p, 0 when there is none.

MotdFeatures == <<"MPATH", "RPATH", "OMPATH", "EPATH">>

\* The remote message has a limit of its own on the number of lines.
MaxLines(k) == IF k = 2 THEN "remote" ELSE "lines"

motd_create(w, mask, path, max) ==
  [mask |-> mask, path |-> path, max |-> max, cache |-> 0,
   type |-> IF mask = "" THEN "universal" ELSE IF find_class(w, mask) # 0 THEN "class" ELSE "host"]

motd_cache(w, k) ==
  LET m == w.motds[k]
      hits == {j \in DOMAIN w.caches : LET h == w.caches[j]
                                       IN  ~h.freed /\ h.path = m.path /\ h.max = m.max}
      hit == CHOOSE j \in hits : TRUE
  IN  CASE m.cache # 0 -> w
        [] m.cache = 0 /\ hits # {} -> [w EXCEPT !.caches[hit].ref = @ + 1, !.motds[k].cache = hit]
        [] m.cache = 0 /\ hits = {} /\ w.disk[m.path] = 0 -> w
        [] OTHER -> [w EXCEPT !.caches = Append(@, [path |-> m.path, max |-> m.max, ref |-> 1,
                                                    version |-> w.disk[m.path], freed |-> FALSE]),
                              !.motds[k].cache = Len(w.caches) + 1]

motd_decache(w, k) ==
  LET j == w.motds[k].cache
      v == [w EXCEPT !.motds[k].cache = 0, !.caches[j].ref = @ - 1]
  IN  IF j = 0 THEN w
      ELSE IF v.caches[j].ref = 0 THEN [v EXCEPT !.caches[j].freed = TRUE] ELSE v

motd_destroy(w, k) == motd_decache(w, k)

\* All of these messages are cached, or dropped from the cache.
Cache(w, ks) == FoldLeft(LAMBDA v, k : motd_cache(v, k), w, ks)
Decache(w, ks) == FoldLeft(LAMBDA v, k : motd_decache(v, k), w, ks)

\* The version each file had when the caches were last flushed.
Flushed(w) == [w EXCEPT !.flushed = w.disk]

motd_recache(w) ==
  Cache(Decache(Flushed(w), [k \in 1 .. Len(w.motds) |-> k]), <<1, 2, 3, 4>>)

motd_init(w) ==
  FoldLeft(LAMBDA v, k : LET u == motd_destroy(v, k)
                         IN  motd_cache([u EXCEPT !.motds[k] =
                               motd_create(u, "", u.feat[MotdFeatures[k]].v, MaxLines(k))], k),
           w, <<1, 2, 3, 4>>)

motd_add(w, mask, path) ==
  LET m == motd_create(w, mask, path, "lines")
  IN  [w EXCEPT !.motds = SubSeq(@, 1, 4) \o <<m>> \o SubSeq(@, 5, Len(@))]

motd_clear(w) ==
  LET v == Decache(Flushed(w), <<1, 2, 3, 4>>)
      u == FoldLeft(LAMBDA x, k : motd_destroy(x, k), v, [k \in 1 .. Len(w.motds) - 4 |-> k + 4])
  IN  Cache([u EXCEPT !.motds = SubSeq(@, 1, 4)], <<1, 2, 3, 4>>)

\* The message for a local user (users of other servers are sent the remote one).
motd_lookup(w, c) ==
  LET at == SelectInSeq(SubSeq(w.motds, 5, Len(w.motds)),
              LAMBDA m : \/ m.type = "class" /\ m.mask = get_client_class(w, c)
                         \/ m.type = "host" /\ m.mask = cfgScene.who[c].host)
  IN  IF at = 0 THEN 1 ELSE at + 4

motd_send(w, c) == motd_cache(w, motd_lookup(w, c))

motd_signon(w, c) == motd_cache(w, motd_lookup(w, c))

\* OPERMOTD and RULES
motd_forward_type(w, type) == motd_cache(w, IF type = "oper" THEN 3 ELSE 4)

motd_send_type(w, type) == motd_forward_type(w, type)

-----------------------------------------------------------------------------
\* Features.  A number is what the file says, a boolean 0 or 1 (anything else is a bad value),
\* a string is a path, "" standing for none.

\* In the order of the table (those with consequences beyond their own value).
FeatureOrder ==
  <<"OPLEVELS", "LOCAL_CHANNELS", "MAXCHANNELSPERUSER", "NICKLEN", "MAXBANS", "MAXSILES", "MAXIMUM_LINKS",
    "CHANNELLEN", "MPATH", "RPATH", "NETWORK", "NETWORK_REHASH", "MAXWATCHS", "HALFOPS", "EXCEPTS",
    "MAXEXCEPTS", "EXTBANS", "EXTBAN_a", "OMPATH", "EPATH">>

Paths == {"MPATH", "RPATH", "OMPATH", "EPATH"}

feature_kind(f) ==
  CASE f \in Paths \union {"NETWORK"} -> "str"
    [] f \in {"OPLEVELS", "LOCAL_CHANNELS", "NETWORK_REHASH", "HALFOPS", "EXCEPTS", "EXTBANS", "EXTBAN_a"} -> "bool"
    [] OTHER -> "int"

\* Features the file may set and operators may not.
ReadOnly == {"HALFOPS", "EXCEPTS"}

\* RPL_ISUPPORT: cfg.isupport gives each token its value, a sequence of what the text is made of;
\* cfg.lines is empty or holds the tokens the cached lines were built from.
touch_isupport(w) == [w EXCEPT !.lines = {}]

add_isupport(w, token, value) ==
  touch_isupport([w EXCEPT !.isupport = (token :> value) @@ @])

del_isupport(w, token) == touch_isupport([w EXCEPT !.isupport = Restrict(@, DOMAIN @ \ {token})])

build_isupport_lines(w) == [w EXCEPT !.lines = {w.isupport}]

send_supported(w) == IF w.lines = {} THEN build_isupport_lines(w) ELSE w

\* What the texts are made of.
V(w, f) == w.feat[f].v
ChanModes(w) == <<V(w, "EXCEPTS"), V(w, "OPLEVELS")>>
MaxList(w) == IF V(w, "EXCEPTS") = 1 THEN <<V(w, "MAXBANS"), V(w, "MAXEXCEPTS")>> ELSE <<V(w, "MAXBANS")>>

feature_notify_oplevels(w) == add_isupport(w, "CHANMODES", ChanModes(w))

feature_notify_halfops(w) ==
  add_isupport(add_isupport(w, "PREFIX", <<V(w, "HALFOPS")>>), "STATUSMSG", <<V(w, "HALFOPS")>>)

feature_notify_excepts(w) ==
  LET v == IF V(w, "EXCEPTS") = 1
           THEN add_isupport(add_isupport(w, "EXCEPTS", <<>>), "MAXEXCEPTS", <<V(w, "MAXEXCEPTS")>>)
           ELSE del_isupport(del_isupport(w, "EXCEPTS"), "MAXEXCEPTS")
  IN  add_isupport(add_isupport(v, "CHANMODES", ChanModes(w)), "MAXLIST", MaxList(w))

\* announces MAXBANS, not MAXEXCEPTS
set_isupport_maxexcepts(w) ==
  add_isupport(add_isupport(w, "MAXBANS", <<V(w, "MAXBANS")>>), "MAXLIST", MaxList(w))

\* the token stays when extended bans are switched off
set_isupport_extbans(w) ==
  IF V(w, "EXTBANS") = 1 THEN add_isupport(w, "EXTBANS", <<V(w, "EXTBAN_a")>>) ELSE w

set_isupport_watchs(w) == add_isupport(w, "WATCH", <<V(w, "MAXWATCHS")>>)
set_isupport_maxsiles(w) == add_isupport(w, "SILENCE", <<V(w, "MAXSILES")>>)
set_isupport_maxchannels(w) == add_isupport(w, "MAXCHANNELS", <<V(w, "MAXCHANNELSPERUSER")>>)
set_isupport_nicklen(w) == add_isupport(w, "NICKLEN", <<V(w, "NICKLEN")>>)
set_isupport_channellen(w) == add_isupport(w, "CHANNELLEN", <<V(w, "CHANNELLEN")>>)
set_isupport_chantypes(w) == add_isupport(w, "CHANTYPES", <<V(w, "LOCAL_CHANNELS")>>)
set_isupport_network(w) == add_isupport(w, "NETWORK", <<V(w, "NETWORK")>>)

set_isupport_maxbans(w) ==
  add_isupport(add_isupport(w, "MAXBANS", <<V(w, "MAXBANS")>>), "MAXLIST", MaxList(w))

\* The tokens that depend on features, as init_isupport() announces them.
init_isupport(w) ==
  LET always == [SILENCE |-> <<V(w, "MAXSILES")>>, WATCH |-> <<V(w, "MAXWATCHS")>>,
                 MAXCHANNELS |-> <<V(w, "MAXCHANNELSPERUSER")>>, MAXBANS |-> <<V(w, "MAXBANS")>>,
                 NICKLEN |-> <<V(w, "NICKLEN")>>, CHANNELLEN |-> <<V(w, "CHANNELLEN")>>,
                 CHANTYPES |-> <<V(w, "LOCAL_CHANNELS")>>, PREFIX |-> <<V(w, "HALFOPS")>>,
                 STATUSMSG |-> <<V(w, "HALFOPS")>>, CHANMODES |-> ChanModes(w),
                 NETWORK |-> <<V(w, "NETWORK")>>, MAXLIST |-> MaxList(w)]
      v == [w EXCEPT !.isupport = always]
  IN  set_isupport_extbans(IF V(w, "EXCEPTS") = 1 THEN feature_notify_excepts(v) ELSE v)

\* What the table of features has called when a value changes.
Notify(w, f) ==
  CASE f = "MAXIMUM_LINKS" -> init_class(w)
    [] f \in Paths -> motd_init(w)
    [] f = "OPLEVELS" -> feature_notify_oplevels(w)
    [] f = "LOCAL_CHANNELS" -> set_isupport_chantypes(w)
    [] f = "MAXCHANNELSPERUSER" -> set_isupport_maxchannels(w)
    [] f = "NICKLEN" -> set_isupport_nicklen(w)
    [] f = "MAXBANS" -> set_isupport_maxbans(w)
    [] f = "MAXSILES" -> set_isupport_maxsiles(w)
    [] f = "CHANNELLEN" -> set_isupport_channellen(w)
    [] f = "NETWORK" -> set_isupport_network(w)
    [] f = "MAXWATCHS" -> set_isupport_watchs(w)
    [] f = "HALFOPS" -> feature_notify_halfops(w)
    [] f = "EXCEPTS" -> feature_notify_excepts(w)
    [] f = "MAXEXCEPTS" -> set_isupport_maxexcepts(w)
    [] f \in {"EXTBANS", "EXTBAN_a"} -> set_isupport_extbans(w)
    [] f = "NETWORK_REHASH" -> w

\* A value the feature can take; another one is reported and changes nothing.
Acceptable(f, v) ==
  CASE feature_kind(f) = "int" -> TRUE
    [] feature_kind(f) = "bool" -> v \in {0, 1}
    [] feature_kind(f) = "str" -> v # ""

feature_set(w, f, v) ==
  LET u == [w EXCEPT !.feat[f] = [v |-> v, mark |-> v # cfgScene.default[f]]]
  IN  CASE ~Acceptable(f, v) -> w
        [] Acceptable(f, v) /\ v = w.feat[f].v -> u
        [] OTHER -> Notify(u, f)

feature_reset(w, f) ==
  LET u == [w EXCEPT !.feat[f] = [v |-> cfgScene.default[f], mark |-> FALSE]]
  IN  IF u.feat[f].v = w.feat[f].v THEN u ELSE Notify(u, f)

feature_unmark(w) == [w EXCEPT !.feat = [f \in DOMAIN @ |-> [@[f] EXCEPT !.mark = FALSE]]]


\* Every feature the file did not set goes back to its default.
feature_mark(w) ==
  FoldLeft(LAMBDA v, f : IF v.feat[f].mark THEN v ELSE feature_reset(v, f), w, FeatureOrder)

-----------------------------------------------------------------------------
\* Reading the file.

\* The lists that REHASH empties and the file fills again.
Erase(w, list) == [w EXCEPT !.lists[list] = {}]

conf_erase_crule_list(w) == Erase(w, "crule")
conf_erase_deny_list(w) == Erase(w, "deny")
conf_erase_webirc_list(w) == Erase(w, "webirc")
conf_erase_shost_list(w) == Erase(w, "shost")
conf_erase_except_list(w) == Erase(w, "except")
clearNickJupes(w) == Erase(w, "jupe")
clear_quarantines(w) == Erase(w, "quarantine")
close_mappings(w) == Erase(w, "mapping")

\* One block.  A block whose class is not (or no longer) defined is reported and left out.
Item(line, class) ==
  [kind |-> line.t, name |-> line.name, hosts |-> line.hosts, class |-> class, port |-> line.port,
   maximum |-> line.maximum, redirect |-> line.redirect, addr |-> line.addr, illegal |-> FALSE,
   clients |-> 0, dns |-> FALSE, freed |-> FALSE]

Block(w, line) ==
  LET k == IF line.t = "uworld" THEN 0 ELSE find_class(w, line.class)
      v == make_conf(w, Item(line, k))
  IN  CASE line.t # "uworld" /\ k = 0 -> w
        [] line.t = "server" /\ k # 0 -> lookup_confhost(v, Len(v.items))
        [] OTHER -> v

yyparse(w, line) ==
  CASE line.t = "class" -> add_class(w, line.name, line.max)
    [] line.t \in {"client", "oper", "server", "uworld"} -> Block(w, line)
    [] line.t = "port" -> add_listener(w, line)
    [] line.t = "motd" -> motd_add(w, line.mask, line.path)
    [] line.t = "feature" -> feature_set(w, line.f, line.v)
    [] line.t = "entry" -> [w EXCEPT !.lists[line.list] = @ \union {line.what}]

\* A file that cannot be opened leaves everything unmarked as it is.
read_configuration_file(w) ==
  LET file == cfgScene.files[w.file]
      v == feature_unmark([w EXCEPT !.read = 0])
  IN  IF ~file.there THEN v
      ELSE LET parsed == {FoldLeft(LAMBDA x, line : yyparse(x, line), v, file.lines)}
           IN  [The({feature_mark(x) : x \in parsed}) EXCEPT !.read = w.file, !.changed = {}]

\* A block of the old file: freed, or marked to be freed by the last client that is attached to it.
\* Client blocks stay listed until the new file has been read.
Withdraw(w, i) ==
  LET off == [w EXCEPT !.list = SelectSeq(@, LAMBDA j : j # i)]
  IN  CASE w.items[i].clients = 0 -> free_conf(off, i)
        [] w.items[i].clients # 0 /\ w.items[i].kind = "client" -> [w EXCEPT !.items[i].illegal = TRUE]
        [] OTHER -> [off EXCEPT !.items[i].illegal = TRUE]

\* What is still listed although it was marked is unlinked.
Flush(w, i) ==
  LET off == [w EXCEPT !.list = SelectSeq(@, LAMBDA j : j # i)]
  IN  CASE ~w.items[i].illegal -> w
        [] w.items[i].illegal /\ w.items[i].clients # 0 -> off
        [] OTHER -> free_conf(off, i)

find_kill(w, c) == w.cl[c].st \in {"user", "oper"} /\ cfgScene.who[c].host \in w.lists.deny

\* What REHASH does to one local client.
Review(w, c) ==
  LET v == IF w.cl[c].st = "server" THEN det_confs_butmask(w, c, {"client", "oper", "server"}) ELSE w
  IN  IF find_kill(v, c) THEN close_connection(v, c) ELSE v

\* Servers get the Uworld blocks that name them.
attach_conf_uworld(w, c) ==
  IF w.cl[c].st = "server" THEN attach_confs_byhost(w, c, cfgScene.who[c].name, "uworld").w ELSE w

Noop(w) ==
  FoldLeft(LAMBDA v, i : IF v.items[i].kind = "oper" THEN [v EXCEPT !.items[i].illegal = TRUE] ELSE v,
           w, w.list)

ClientOrder == SetToSeq(DOMAIN cfgScene.who)

\* The stages of rehash(): the old file is put away, the new one read, what is no longer used closed, and
\* the clients reviewed.
PutAway(w) ==
  LET a == FoldLeft(LAMBDA x, i : Withdraw(x, i), w, w.list)
      b == conf_erase_except_list(conf_erase_shost_list(conf_erase_webirc_list(
             conf_erase_deny_list(conf_erase_crule_list(a)))))
      d == clear_quarantines(clearNickJupes(motd_clear(b)))
  IN  close_mappings(mark_listeners_closing(class_mark_delete(d)))

CloseUnused(w) ==
  LET v == class_delete_marked(close_listeners(w))
  IN  FoldLeft(LAMBDA x, i : Flush(x, i), v, v.list)

ReviewAll(w) ==
  LET v == FoldLeft(LAMBDA x, c : Review(x, c), w, ClientOrder)
      u == FoldLeft(LAMBDA x, c : attach_conf_uworld(x, c), v, ClientOrder)
  IN  IF u.noop THEN Noop(u) ELSE u

rehash(w) ==
  The({ReviewAll(z) : z \in {CloseUnused(y) : y \in {read_configuration_file(x) : x \in {PutAway(w)}}}})

-----------------------------------------------------------------------------
\* Commands and events.

mo_rehash(w, what) == IF what = "m" THEN motd_recache(w) ELSE rehash(w)

ms_rehash(w, what) ==
  CASE w.feat.NETWORK_REHASH.v = 0 -> w
    [] w.feat.NETWORK_REHASH.v # 0 /\ what = "m" -> motd_recache(w)
    [] OTHER -> rehash(w)

\* SVSNOOP - reads the file again while the server is still marked.
ms_svsnoop(w, on) ==
  IF on THEN [Noop(w) EXCEPT !.noop = TRUE] ELSE [rehash(w) EXCEPT !.noop = FALSE]

\* A user registers: the first Client block that matches admits or refuses.
register_user(w, c) ==
  LET r == conf_check_client(w, c)
  IN  IF r.acr = "ok" THEN motd_signon(send_supported([r.w EXCEPT !.cl[c].st = "user"]), c) ELSE close_connection(w, c)

m_oper(w, c) ==
  LET i == find_conf_exact(w, cfgScene.who[c].oper, cfgScene.who[c].host, "oper")
      r == attach_conf(w, c, i)
  IN  IF i = 0 \/ r.acr \notin {"ok", "already"} THEN w ELSE [r.w EXCEPT !.cl[c].st = "oper"]

\* -o on oneself
deoper(w, c) == [det_confs_butmask(w, c, {"client"}) EXCEPT !.cl[c].st = "user"]

\* connect_inet() may fail; then what was attached is detached again.
connect_server(w, i, c, works) ==
  LET me == cfgScene.who[c]
      a == attach_confs_byhost(w, c, me.host, "server").w
  IN  CASE \E d \in Peers : w.cl[d].st \in {"connecting", "server"} /\ cfgScene.who[d].name = me.name -> w
        [] OTHER -> IF w.items[i].addr = "none" THEN Ask(w, i, "connect")
                    ELSE IF find_conf_byhost(a, c, me.host, "server") = 0 \/ ~works
                         THEN det_confs_butmask(a, c, {})
                         ELSE [a EXCEPT !.cl[c].st = "connecting"]

connect_dns_callback(w, i, c, addr) ==
  LET v == [w EXCEPT !.items[i].dns = FALSE]
  IN  IF addr = "none" THEN v ELSE connect_server([v EXCEPT !.items[i].addr = addr], i, c, TRUE)

\* A server introduces itself on this connection.  Detaching the block of a connection we made frees it
\* if REHASH has withdrawn it, and attach_conf() then reads it.
conf_check_server(w, c) ==
  LET me == cfgScene.who[c]
      unknown == w.cl[c].st = "unknown"
      a == IF unknown THEN attach_confs_byname(w, c, me.name, "server") ELSE [w |-> w, first |-> 0]
      byname == find_conf_byname(a.w, c, me.name, "server")
      byhost == find_conf_byhost(a.w, c, me.host, "server")
      i == IF ~unknown THEN byname
           ELSE IF byhost # 0 THEN byhost ELSE find_conf_byip(a.w, c, me.host, "server")
      v == det_confs_butmask(a.w, c, {})
      r == attach_conf(v, c, i)
  IN  CASE unknown /\ a.first = 0 -> [ok |-> FALSE, w |-> w]
        [] OTHER -> IF i = 0 THEN [ok |-> FALSE, w |-> v]
                    ELSE IF v.items[i].freed THEN [ok |-> FALSE, w |-> [v EXCEPT !.undefined = {"handshake"}]]
                    ELSE [ok |-> TRUE, w |-> IF r.w.items[i].addr # "none" THEN r.w
                                             ELSE [r.w EXCEPT !.items[i].addr = me.host]]

mr_server(w, c) ==
  LET me == cfgScene.who[c]
      r == conf_check_server(w, c)
      a == attach_confs_byhost(r.w, c, me.name, "uworld").w
  IN  IF ~r.ok \/ find_conf_byname(r.w, c, me.name, "server") = 0 THEN close_connection(r.w, c)
      ELSE [det_confs_butmask(a, c, {"server", "uworld"}) EXCEPT !.cl[c].st = "server"]

-----------------------------------------------------------------------------
\* The state before the first reading: only the class "default" and the four messages exist.
Blank(s) ==
  [classes |-> <<[name |-> "default", max |-> s.default.MAXIMUM_LINKS, links |-> 1, valid |-> TRUE,
                  freed |-> FALSE]>>,
   clist |-> <<1>>, items |-> <<>>, list |-> <<>>, queries |-> {}, doubled |-> {}, undefined |-> {},
   ports |-> <<>>, plist |-> <<>>,
   cl |-> [c \in DOMAIN s.who |-> [st |-> "none", confs |-> <<>>, port |-> 0]],
   motds |-> FoldLeft(LAMBDA ms, f : Append(ms, [mask |-> "", path |-> s.default[f], cache |-> 0,
                                                 max |-> MaxLines(Len(ms) + 1), type |-> "universal"]),
                      <<>>, MotdFeatures),
   caches |-> <<>>, disk |-> s.disk, flushed |-> s.disk,
   feat |-> [f \in DOMAIN s.default |-> [v |-> s.default[f], mark |-> FALSE]],
   lists |-> [l \in {"crule", "deny", "webirc", "shost", "except", "jupe", "quarantine", "mapping"} |-> {}],
   isupport |-> <<>>, lines |-> {}, noop |-> FALSE, file |-> 1, read |-> 0, changed |-> {}, left |-> s.times]

\* What main() calls: the first reading of the file comes last.
init_conf(w) == read_configuration_file(motd_init(init_class(init_isupport(w))))

CfgInit == cfgScene \in CfgScenes /\ cfg = init_conf(Blank(cfgScene))

\* left[k] bounds how often a command or event of this kind happens.
Do(k, w) ==
  /\ cfg.undefined = {}
  /\ cfg.left[k] > 0
  /\ cfg' = [w EXCEPT !.left[k] = @ - 1]
  /\ UNCHANGED cfgScene

Arrive(c, j) ==
  /\ cfg.cl[c].st = "none"
  /\ cfg.ports[j].open # {}
  /\ Do("arrive", accept_connection(cfg, j, c))

Register(c) ==
  /\ cfg.undefined = {}
  /\ cfg.cl[c].st = "unknown"
  /\ cfg' = register_user(cfg, c)
  /\ UNCHANGED cfgScene

Introduce(c) ==
  /\ cfg.undefined = {}
  /\ cfg.cl[c].st \in {"unknown", "connecting"}
  /\ cfg' = mr_server(cfg, c)
  /\ UNCHANGED cfgScene

Quit(c) ==
  /\ cfg.undefined = {}
  /\ cfg.cl[c].st # "none"
  /\ cfg' = close_connection(cfg, c)
  /\ UNCHANGED cfgScene

Oper(c) == cfg.cl[c].st = "user" /\ Do("oper", m_oper(cfg, c))

Deoper(c) == cfg.cl[c].st = "oper" /\ Do("deoper", deoper(cfg, c))

Connect(c, works) ==
  LET i == conf_find_server(cfg, cfgScene.who[c].name)
  IN  /\ cfg.cl[c].st = "none"
      /\ i # 0
      /\ ~\E q \in cfg.queries : q.item = i /\ q.k = "connect"
      /\ Do("connect", connect_server(cfg, i, c, works))

\* The nameserver answers.  A query whose block is gone writes to freed memory.
Answer(q, c, addr) ==
  LET w == [cfg EXCEPT !.queries = @ \ {q}]
  IN  /\ cfg.undefined = {}
      /\ cfgScene.who[c].name = cfg.items[q.item].name
      /\ cfg.cl[c].st = "none" \/ q.k = "conf"
      /\ cfg' = IF cfg.items[q.item].freed THEN [w EXCEPT !.undefined = {"query"}]
                ELSE IF q.k = "conf" THEN conf_dns_callback(w, q.item, addr)
                     ELSE connect_dns_callback(w, q.item, c, addr)
      /\ UNCHANGED cfgScene

ReadMotd(c) == cfg.cl[c].st \in {"user", "oper"} /\ Do("motd", motd_send(cfg, c))

ReadOther(c, type) == cfg.cl[c].st \in {"user", "oper"} /\ Do("motd", motd_send_type(cfg, type))

Rehash(what) == Do("rehash", mo_rehash(cfg, what))

RemoteRehash(what) == Do("remote", ms_rehash(cfg, what))

Svsnoop(on) == Do("svsnoop", ms_svsnoop(cfg, on))

SetFeature(f, v) == Do("set", [feature_set(cfg, f, v) EXCEPT !.changed = @ \union {f}])

ResetFeature(f) == Do("set", [feature_reset(cfg, f) EXCEPT !.changed = @ \union {f}])

\* The administrator edits the file, or a message.
Edit == cfg.file < Len(cfgScene.files) /\ Do("edit", [cfg EXCEPT !.file = @ + 1])

EditMotd(p) == Do("touch", [cfg EXCEPT !.disk[p] = @ + 1])

CfgNext ==
  \/ \E c \in DOMAIN cfgScene.who : \E j \in ToSet(cfg.plist) : Arrive(c, j)
  \/ \E c \in Users : Register(c)
  \/ \E c \in Peers : Introduce(c)
  \/ \E c \in DOMAIN cfgScene.who : Quit(c)
  \/ \E c \in Users : Oper(c)
  \/ \E c \in Users : Deoper(c)
  \/ \E c \in Users : ReadMotd(c)
  \/ \E c \in Users : \E type \in {"oper", "rules"} : ReadOther(c, type)
  \/ \E c \in Peers : \E works \in BOOLEAN : Connect(c, works)
  \/ \E q \in cfg.queries : \E c \in Peers : \E a \in {"none", cfgScene.who[c].host} : Answer(q, c, a)
  \/ \E what \in {"m", "all"} : Rehash(what)
  \/ \E what \in {"m", "all"} : RemoteRehash(what)
  \/ \E on \in BOOLEAN : Svsnoop(on)
  \/ \E f \in (DOMAIN cfg.feat) \ ReadOnly : \E v \in cfgScene.values[f] : SetFeature(f, v)
  \/ \E f \in {g \in DOMAIN cfg.feat : cfgScene.values[g] # {}} \ ReadOnly : ResetFeature(f)
  \/ Edit
  \/ \E p \in DOMAIN cfg.disk : EditMotd(p)

CfgSpec == CfgInit /\ [][CfgNext]_cfgVars

-----------------------------------------------------------------------------
\* Properties.

Items == {i \in DOMAIN cfg.items : ~cfg.items[i].freed}

Attachments(w, i) == {c \in DOMAIN w.cl : Contains(w.cl[c].confs, i)}

InClass(w, k) ==
  {<<c, i>> \in (DOMAIN w.cl) \X (DOMAIN w.items) : /\ Contains(w.cl[c].confs, i)
                                                /\ w.items[i].class = k}

\* However a REHASH crosses clients that come, leave, become operators or link: a block that is listed or
\* attached is allocated, one that is allocated is listed or attached, each block and each named class
\* counts the clients attached to it, no block points at a freed class (class.c frees those it thinks are
\* unused), and the nameserver never answers for a freed block unless two queries for it overlapped.
ConfsSafe ==
  cfg.undefined = {} =>
  /\ ToSet(cfg.list) \union UNION {ToSet(cfg.cl[c].confs) : c \in DOMAIN cfg.cl} = Items
  /\ \A i \in Items : /\ cfg.items[i].clients = Cardinality(Attachments(cfg, i))
                      /\ cfg.items[i].class # 0 => /\ ~cfg.classes[cfg.items[i].class].freed
                                                   /\ Contains(cfg.clist, cfg.items[i].class)
  /\ \A k \in 2 .. Len(cfg.classes) : cfg.classes[k].links = 1 + Cardinality(InClass(cfg, k))
  /\ \A q \in cfg.queries : q.item \in Items \union cfg.doubled

\* A client is only ever admitted by a block that is in force: one that is listed, that no REHASH and no
\* SVSNOOP has withdrawn, and (for users and operators) whose class still has room.
AdmissionsObeyed ==
  [][\A c \in DOMAIN cfg.cl : \A i \in DOMAIN cfg.items :
       Contains(cfg'.cl[c].confs, i) /\ ~Contains(cfg.cl[c].confs, i) =>
         LET t == cfg.items[i]
         IN  /\ ~t.illegal
             /\ t.kind = "oper" => ~cfg.noop
             /\ t.kind \in {"client", "oper"} /\ cfg.classes[t.class].max > 0 =>
                  cfg.classes[t.class].links < cfg.classes[t.class].max]_cfgVars

\* The listener of every connection is allocated and counts its connections; a port that the file no
\* longer has is closed as soon as the last connection that came by it is gone, and never reopened twice.
ListenersSafe ==
  cfg.undefined = {} =>
  \A j \in DOMAIN cfg.ports :
    LET l == cfg.ports[j]
        used == {c \in DOMAIN cfg.cl : cfg.cl[c].port = j}
    IN  /\ l.refs = Cardinality(used)
        /\ l.freed => used = {} /\ l.open = {}
        /\ ~l.freed => Contains(cfg.plist, j) /\ (l.active \/ used # {})
        /\ \A k \in DOMAIN cfg.ports : ~l.freed /\ ~cfg.ports[k].freed /\ l.port = cfg.ports[k].port => k = j

\* Every message points at a cache that is allocated, each cache counts the messages that share it, no file
\* is cached twice, and nothing older than the last flush (REHASH, REHASH m) is ever shown.
MotdsCached ==
  LET live == {j \in DOMAIN cfg.caches : ~cfg.caches[j].freed}
  IN  /\ \A k \in DOMAIN cfg.motds : cfg.motds[k].cache \in {0} \union live
      /\ \A j \in live : LET h == cfg.caches[j]
                         IN  /\ h.ref = Cardinality({k \in DOMAIN cfg.motds : cfg.motds[k].cache = j})
                             /\ h.version >= cfg.flushed[h.path]
                             /\ \A i \in live : <<cfg.caches[i].path, cfg.caches[i].max>> = <<h.path, h.max>> => i = j

\* The blocks of the file last read that have an effect, and what it says of a feature.
Lines == IF cfg.read = 0 THEN <<>> ELSE cfgScene.files[cfg.read].lines
Said(f) ==
  LET says == SelectSeq(Lines, LAMBDA l : l.t = "feature" /\ l.f = f /\ Acceptable(f, l.v))
  IN  IF says = <<>> THEN cfgScene.default[f] ELSE says[Len(says)].v
Defined(name) == name = "default" \/ \E n \in DOMAIN Lines : Lines[n].t = "class" /\ Lines[n].name = name

\* After a file has been read what is in force is what it says, whatever was in force before: features
\* (those set by hand since excepted), blocks, classes, ports and lists; and what the code derives from
\* features (the class "default", the paths of the messages) follows them at every moment.
FileFollowed ==
  /\ cfg.classes[1].max = cfg.feat.MAXIMUM_LINKS.v
  /\ \A k \in 1 .. 4 : cfg.motds[k].path = cfg.feat[MotdFeatures[k]].v
  /\ cfg.read # 0 /\ cfg.undefined = {} =>
     /\ \A f \in DOMAIN cfg.feat \ cfg.changed : cfg.feat[f].v = Said(f)
     /\ {cfg.classes[k].name : k \in {j \in ToSet(cfg.clist) : cfg.classes[j].valid}} =
        {n \in {"default"} \union {Lines[m].name : m \in {l \in DOMAIN Lines : Lines[l].t = "class"}} : TRUE}
     /\ Len(cfg.list) = Len(SelectSeq(Lines, LAMBDA l : \/ l.t = "uworld"
                                                        \/ l.t \in {"client", "oper", "server"} /\ Defined(l.class)))
     /\ \A i \in ToSet(cfg.list) : cfg.items[i].illegal => cfg.items[i].kind = "oper"
     /\ \A l \in DOMAIN cfg.lists :
          cfg.lists[l] = {Lines[n].what : n \in {m \in DOMAIN Lines : Lines[m].t = "entry" /\ Lines[m].list = l}}
     /\ {cfg.ports[j].port : j \in {k \in ToSet(cfg.plist) : cfg.ports[k].active}} =
        {Lines[n].port : n \in {m \in DOMAIN Lines : Lines[m].t = "port" /\ Lines[m].port # 0
                                                     /\ Lines[m].fams \ Lines[m].fail # {}}}

\* RPL_ISUPPORT never announces what is no longer so: each token has the value the features give now,
\* whichever of them was changed last, and the lines kept for users who register are built from these
\* tokens.  (MAXEXCEPTS and a switched-off EXTBANS are left behind by the code.)
AnnouncedTruly ==
  LET now == init_isupport([cfg EXCEPT !.isupport = <<>>]).isupport
  IN  /\ cfg.lines \subseteq {cfg.isupport}
      /\ DOMAIN now \subseteq DOMAIN cfg.isupport
      /\ DOMAIN cfg.isupport \subseteq DOMAIN now \union {"EXTBANS"}
      /\ \A t \in DOMAIN now \ {"MAXEXCEPTS"} : cfg.isupport[t] = now[t]


=============================================================================
