----------------------------- MODULE MCServices -----------------------------
(***************************************************************************)
(* Small instances of what answers events and asks others: the runs of       *)
(* automations, answers from the web, the memory of reputations, and the pool    *)
(* of model providers.                                                            *)
(* They share no state.  A behaviour is one of one part, chosen at its start,   *)
(* and the variables of the others stand still.  The larger modules run in      *)
(* several parts, which let some of their actors act:                           *)
(*   wide     a question to the web whose sources come from all services;          *)
(*   often    two questioners, more questions than answers are remembered;          *)
(*   visit    one page that is read, through its redirects;                          *)
(*   links    two checks of messages that ask about one link;                   *)
(*   pages    a reader of web pages and more links than are remembered;          *)
(*   kept     a reader and a check that ask about one link;                        *)
(*   doubts   one check, which also has files and asks the language model;        *)
(*   turn     the completions of one agent turn, with pictures or without;        *)
(*   chats, search, listen   a turn beside a chat, a search or a listening;        *)
(*   queue    a turn, a search and a listening that compete for the slots.          *)
(***************************************************************************)
EXTENDS MCAutomationRuntime, ReputationCache, ProviderPool, WebResearch

CONSTANTS k1, k2, p1, l1, l2, l3, f1, q1, c1, s1, h1,
  w1, w2, v1, g1, g2, g3, x1, x2, x3, y1, z1

MCPlace == <<"here", "here", "there">>

\* Three pages of one site, an article, and an address that is not public; the
\* first question is for three sources, the others are for one.
MCWanted == [q \in Questions |-> IF q = g1 THEN 3 ELSE 1]
MCHost == [a \in Addresses |-> CASE a = y1 -> "encyclopedia" [] a = z1 -> "inside" [] OTHER -> "site"]
MCBraveLists == {<<>>, <<x1>>, <<z1, x1, x1, x2, x3>>, <<x2, y1, z1, x1>>}
MCWikipediaLists == {<<>>, <<y1>>}
MCNativeOffers ==
  [chunks : {<<x1, x2, x1, x3>>, <<x2, z1, x1>>}, support : {{2}, {3}, {1, 3}}]

VARIABLE part

Pool == {"turn", "chats", "search", "listen", "queue"}
Reputation == {"links", "pages", "kept", "doubts"}
Web == {"wide", "often", "visit"}

ServicesInit ==
  /\ part \in {"automations"} \cup Reputation \cup Pool \cup Web
  /\ Init /\ ReputationInit /\ PoolInit /\ WebInit

\* Tasks that work side by side have the same event.
AutomationPart ==
  \A t, u \in Tasks : pc'[t] # "idle" /\ pc'[u] # "idle" => key'[t] = key'[u]

\* Which readers, checkers, links and services a part lets act.
ReputationPart ==
  CASE part = "links" -> /\ about'[p1] = {} /\ \A c \in Checkers : left'[c] \subseteq {l1}
                         /\ \A c \in Checkers : asking'[c] \notin {"model", "file"}
    [] part = "pages" -> \A c \in Checkers : asking'[c] = "free" /\ moment' <= 2
    [] part = "kept" -> /\ about'[p1] \cup left'[k1] \subseteq {l1} /\ moment' <= 3
                        /\ asking'[k1] \in {"free", "going", "google", "total"} /\ asking'[k2] = "free"
    [] OTHER -> about'[p1] = {} /\ left'[k1] \subseteq {l1} /\ asking'[k2] = "free" /\ moment' <= 3

Still(requests) == \A r \in requests : asks'[r] = 0
\* Beside a second request, a turn asks without pictures and in less time.
Beside(r) ==
  /\ Still(Requests \ {q1, r}) /\ asks'[r] <= 1 /\ pictures' = {}
  /\ \A p \in Routes : cooling'[p] \in {cooling[p], clock + Brief, clock + Long}
PoolPart ==
  CASE part = "turn" -> Still(Requests \ {q1})
    [] part = "chats" -> Beside(c1) /\ clock' = 0 /\ Cardinality(tried'[c1]) <= 1
    [] part = "search" -> Beside(s1) /\ clock' <= 1 /\ Cardinality(tried'[q1]) <= 2
    [] part = "listen" -> Beside(h1) /\ clock' <= 1 /\ Cardinality(tried'[q1]) <= 2
    [] part = "queue" -> /\ Still({c1}) /\ clock' = 0 /\ pictures' = {}
                         /\ \A r \in Requests : asks'[r] <= 1 /\ Cardinality(tried'[r]) <= 1

\* Beside one visitor nobody asks; a wide question is asked alone and once, and of
\* two questioners the second asks once and the native search only.
WebPart ==
  CASE part = "visit" -> (\A c \in Researchers : rounds'[c] = 0) /\ rounds'[v1] <= 2 /\ webTime' = 0
    [] part = "wide" -> /\ rounds'[v1] = 0 /\ rounds'[w2] = 0 /\ rounds'[w1] <= 1 /\ webTime' = 0
                        /\ question'[w1] = g1
                        /\ \A i \in DOMAIN chains'[w1] : chains'[w1][i].hops <= 1
    [] OTHER -> /\ rounds'[v1] = 0 /\ rounds'[w2] <= 1 /\ chains'[w2] = <<>> /\ question'[w2] = g2
                /\ \A i \in DOMAIN chains'[w1] : sources'[w1] = <<x1>> /\ chains'[w1][i].hops = 0
                /\ \A c \in Researchers : webReply'[c].cited \subseteq {1} /\ webReply'[c].sources \in {<<>>, <<x1>>, <<x2, x1>>}

ServicesNext ==
  /\ UNCHANGED part
  /\ \/ /\ part = "automations" /\ Next /\ AutomationPart
        /\ UNCHANGED <<reputationVars, poolVars, webVars>>
     \/ /\ part \in Reputation /\ ReputationNext /\ ReputationPart
        /\ UNCHANGED <<vars, poolVars, webVars>>
     \/ /\ part \in Pool /\ PoolNext /\ PoolPart
        /\ UNCHANGED <<vars, reputationVars, webVars>>
     \/ /\ part \in Web /\ WebNext /\ WebPart
        /\ UNCHANGED <<vars, reputationVars, poolVars>>

ServicesSpec == ServicesInit /\ [][ServicesNext]_<<part, vars, reputationVars, poolVars, webVars>>
=============================================================================
