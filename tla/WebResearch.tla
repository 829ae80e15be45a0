----------------------------- MODULE WebResearch -----------------------------
(***************************************************************************)
(* Answers from the public web (web_research.py): research_web asks a native  *)
(* grounded search, then two search services, fetches every source at once     *)
(* and lets the model sum them up; read_web_page does so for one page.  Many     *)
(* calls run at a time and share a memory of answers.                             *)
(* A page is followed through its redirects hop by hop: every address is            *)
(* validated and asked of Safe Browsing before it is requested.  An answer of         *)
(* the model is kept only when its citations are of its sources; otherwise the          *)
(* sources' own titles and descriptions are the answer, whatever they hold.                *)
(* Texts are left out: a source is its address (up to a trailing slash), an               *)
(* answer is the numbers it cites and whether its prose passes the other tests.             *)
(***************************************************************************)
EXTENDS Positions, SequencesExt

CONSTANTS
  Researchers,   \* tasks that call research_web
  Visitors,      \* tasks that call read_web_page
  Questions,     \* a query together with the number of sources wanted
  Wanted,        \* [Questions -> how many sources]
  Addresses, HostOf,
  OrdinaryAddresses,   \* HTTPS without credentials: what the native search may list
  PublicAddresses,     \* what validate_public_https_url accepts, fewer than those
  NativeOffers,  \* what the native search may name: chunks and which of them support the text
  BraveLists, WikipediaLists,   \* what the two services may list
  RedirectLimit, AnswerLife, AnswerLimit,
  LastTime, ResearchCap         \* bounds of the model: time, calls of a task

Calls == Researchers \cup Visitors

ASSUME WebAssumption ==
  /\ PublicAddresses \subseteq OrdinaryAddresses /\ OrdinaryAddresses \subseteq Addresses
  /\ Questions # {} /\ \A q \in Questions : Wanted[q] \in Nat \ {0}
  /\ {RedirectLimit, AnswerLife, AnswerLimit, LastTime, ResearchCap} \subseteq Nat
  /\ Researchers \cap Visitors = {}
  /\ BraveLists \cup WikipediaLists \subseteq Seq(Addresses)
  /\ \A offer \in NativeOffers :
       offer.chunks \in Seq(Addresses) /\ offer.support \subseteq DOMAIN offer.chunks

VARIABLES
  webStage,      \* what each call awaits
  question,   \* what each researcher was asked last
  sources,    \* the sources a call has chosen, in the order of their numbers
  chains,     \* the fetch of each source
  webReply,    \* a call's last answer
  rounds,     \* how many calls a task has made
  answers,    \* _RESEARCH_CACHE, the least recently used first
  webTime

webVars == <<webStage, question, sources, chains, webReply, rounds, answers, webTime>>

Public(a) == a \in PublicAddresses

(* ------------------------------- Sources ------------------------------- *)

FirstOf(list, size) == SubSeq(list, 1, IF Len(list) < size THEN Len(list) ELSE size)

\* Where the list names an address for the first time.
Firsts(list) == {i \in DOMAIN list : \A j \in 1 .. i - 1 : list[j] # list[i]}

\* Distinct results, at most two of a host, in the services' order.
Dedupe(results, limit) ==
  LET sameHost(i) == {j \in Firsts(results) : j < i /\ HostOf[results[j]] = HostOf[results[i]]}
  IN FirstOf(AtPositions(results, {i \in Firsts(results) : Cardinality(sameHost(i)) < 2}), limit)

\* A service's public results; one that fails or is not configured lists nothing.
Listed(list, size) == FirstOf(OnlyFrom(list, PublicAddresses), size)

\* The native search's chunks as numbered sources; a chunk of an address already
\* listed has its number, and one beyond the limit has none.
GroundedSources(chunks, limit) ==
  LET ordinary == OnlyFrom(chunks, OrdinaryAddresses)
  IN FirstOf(AtPositions(ordinary, Firsts(ordinary)), limit)
\* The numbers set behind the text: of the chunks that support a part of it.  (Numbers
\* the text held before are tested with these, and left out here.)
GroundedNumbers(offer, listed) ==
  {i \in DOMAIN listed : \E s \in offer.support : offer.chunks[s] = listed[i]}

\* An answer must cite something, and nothing that is not listed.
IsGrounded(cited, sound, listed) ==
  cited # {} /\ cited \subseteq DOMAIN listed /\ sound
\* The answer made of the sources' own descriptions cites all of them, and whatever
\* else in brackets their texts hold: nobody looks at it.
FallbackNumbers(listed, stray) == DOMAIN listed \cup stray
\* What a text may cite besides: for all numbers that are not listed the two next to those that are.
Unlisted(listed) == {0, Len(listed) + 1}

\* What a call returns; for the properties also the addresses it rests on, whether
\* the sources kept their numbers, and its age when it is given again.
AnswerWith(kind, listed, cited, backed, renumbered) ==
  [kind |-> kind, sources |-> listed, cited |-> cited, backed |-> backed,
   renumbered |-> renumbered, age |-> 0]
NothingFound == AnswerWith("none", <<>>, {}, {}, FALSE)
Refusal == AnswerWith("error", <<>>, {}, {}, FALSE)

(* ------------------------------ The memory ------------------------------ *)

WithoutQuestion(q) == OnlyFrom(answers, {e \in ToSet(answers) : e.question # q})
EntryOf(q) == {e \in ToSet(answers) : e.question = q}

\* Entries beyond the limit leave, the least recently used first.
MostRecent(list) ==
  IF Len(list) > AnswerLimit THEN SubSeq(list, Len(list) - AnswerLimit + 1, Len(list)) ELSE list
CachePut(q, a) ==
  answers' = MostRecent(Append(WithoutQuestion(q),
                           [question |-> q, until |-> webTime + AnswerLife, reply |-> a]))

(* -------------------------------- Fetches -------------------------------- *)

\* A fetch: the address it is at, the redirects followed, and, for the properties,
\* the addresses Safe Browsing was asked of in vain and those that were requested.
Chain(a) == [at |-> a, state |-> "check", hops |-> 0, cleared |-> {}, requested |-> {}]
Chained(listed) == [i \in DOMAIN listed |-> Chain(listed[i])]

Starts(c, listed) ==
  /\ webStage' = [webStage EXCEPT ![c] = "pages"]
  /\ sources' = [sources EXCEPT ![c] = listed]
  /\ chains' = [chains EXCEPT ![c] = Chained(listed)]

\* Safe Browsing answers for an address; without a key or an answer it blocks nothing.
LookUp(c, i) ==
  LET chain == chains[c][i] IN
  /\ chain.state = "check"
  /\ \E dangerous \in BOOLEAN :
       chains' = [chains EXCEPT ![c][i] =
         IF dangerous THEN [chain EXCEPT !.state = "failed"]
         ELSE [chain EXCEPT !.state = "get", !.cleared = @ \cup {chain.at}]]
  /\ UNCHANGED <<webStage, question, sources, webReply, rounds, answers, webTime>>

\* Mutant: a redirect is followed without asking about its target.
FollowUnasked(chain, a) ==
  IF chain.hops >= RedirectLimit \/ ~Public(a) THEN [chain EXCEPT !.state = "failed"]
  ELSE [chain EXCEPT !.state = "get", !.at = a, !.hops = @ + 1]
Follow(chain, a) ==
  IF chain.hops >= RedirectLimit \/ ~Public(a) THEN [chain EXCEPT !.state = "failed"]
  ELSE [chain EXCEPT !.state = "check", !.at = a, !.hops = @ + 1]

\* The request's answer: a readable page, a redirect, or a failure.
Request(c, i) ==
  LET chain == [chains[c][i] EXCEPT !.requested = @ \cup {chains[c][i].at}] IN
  /\ chains[c][i].state = "get"
  /\ \/ \E s \in {"read", "failed"} : chains' = [chains EXCEPT ![c][i] = [chain EXCEPT !.state = s]]
     \/ \E a \in Addresses : chains' = [chains EXCEPT ![c][i] = Follow(chain, a)]
  /\ UNCHANGED <<webStage, question, sources, webReply, rounds, answers, webTime>>

FetchesDone(c) == \A i \in DOMAIN chains[c] : chains[c][i].state \in {"read", "failed"}

(* --------------------------------- Calls --------------------------------- *)

\* The call returns.
Returns(c, a) ==
  /\ webStage' = [webStage EXCEPT ![c] = "idle"]
  /\ webReply' = [webReply EXCEPT ![c] = a]
  /\ sources' = [sources EXCEPT ![c] = <<>>]
  /\ chains' = [chains EXCEPT ![c] = <<>>]

\* research_web: an answer still remembered is given again and becomes the last to
\* leave; one whose life is over leaves, and the native search is asked.
AskWeb(c) ==
  /\ webStage[c] = "idle" /\ rounds[c] < ResearchCap
  /\ rounds' = [rounds EXCEPT ![c] = @ + 1]
  /\ \E q \in Questions :
       LET live == {e \in EntryOf(q) : e.until > webTime} IN
       /\ question' = [question EXCEPT ![c] = q]
       /\ IF live = {}
          THEN /\ webStage' = [webStage EXCEPT ![c] = "native"]
               /\ answers' = WithoutQuestion(q)
               /\ UNCHANGED <<sources, chains, webReply>>
          ELSE \E e \in live :
                 /\ answers' = Append(WithoutQuestion(q), e)
                 /\ Returns(c, [e.reply EXCEPT !.age = webTime + AnswerLife - e.until])
  /\ UNCHANGED webTime

\* The native search answers: its own text is the answer when, of its sources, the
\* public ones remain and the citations are of them.
AskNative(c) ==
  /\ webStage[c] = "native"
  /\ UNCHANGED <<question, rounds, webTime>>
  /\ \/ /\ webStage' = [webStage EXCEPT ![c] = "brave"]
        /\ UNCHANGED <<sources, chains, webReply, answers>>
     \/ \E offer \in NativeOffers :
          LET q == question[c]
              numbered == GroundedSources(offer.chunks, Wanted[q])
              cited == GroundedNumbers(offer, numbered)
              listed == OnlyFrom(numbered, PublicAddresses)
              a == AnswerWith("native", listed, cited,
                              {offer.chunks[s] : s \in offer.support}, listed # numbered)
          IN IsGrounded(cited, TRUE, listed) /\ Returns(c, a) /\ CachePut(q, a)

SearchBrave(c) ==
  LET limit == Wanted[question[c]] IN
  /\ webStage[c] = "brave"
  /\ \E list \in BraveLists :
       LET found == Dedupe(Listed(list, 2 * limit), limit) IN
       IF Len(found) = limit THEN Starts(c, found)
       ELSE /\ webStage' = [webStage EXCEPT ![c] = "wikipedia"]
            /\ sources' = [sources EXCEPT ![c] = found]
            /\ UNCHANGED chains
  /\ UNCHANGED <<question, webReply, rounds, answers, webTime>>

\* With no source at all the call says so, and remembers nothing.
SearchWikipedia(c) ==
  LET limit == Wanted[question[c]] IN
  /\ webStage[c] = "wikipedia"
  /\ \E list \in WikipediaLists :
       LET found == Dedupe(sources[c] \o Listed(list, limit), limit) IN
       IF found = <<>> THEN Returns(c, NothingFound)
       ELSE Starts(c, found) /\ UNCHANGED webReply
  /\ UNCHANGED <<question, rounds, answers, webTime>>

\* Mutant: an answer whose citations are of none of its sources is kept.
JudgedLoosely(listed, cited, sound, stray, backed) ==
  IF cited # {} /\ sound THEN AnswerWith("model", listed, cited, backed, FALSE)
  ELSE AnswerWith("fallback", listed, FallbackNumbers(listed, stray), backed, FALSE)
\* The answer: the model's when it is grounded, otherwise the descriptions.
Judged(listed, cited, sound, stray, backed) ==
  IF IsGrounded(cited, sound, listed) THEN AnswerWith("model", listed, cited, backed, FALSE)
  ELSE AnswerWith("fallback", listed, FallbackNumbers(listed, stray), backed, FALSE)

\* All fetches are over and the model has answered, or has not.  A page is read
\* under its source's address, wherever its redirects led.
SumUp(c) ==
  /\ c \in Researchers /\ webStage[c] = "pages" /\ FetchesDone(c)
  /\ \E cited \in SUBSET (0 .. Len(sources[c]) + 1), sound \in BOOLEAN,
        stray \in SUBSET Unlisted(sources[c]) :
       LET a == Judged(sources[c], cited, sound, stray, ToSet(sources[c])) IN
       Returns(c, a) /\ CachePut(question[c], a)
  /\ UNCHANGED <<question, rounds, webTime>>

\* read_web_page: the address is validated before anything is awaited.
Visit(c) ==
  /\ webStage[c] = "idle" /\ rounds[c] < ResearchCap
  /\ rounds' = [rounds EXCEPT ![c] = @ + 1]
  /\ \E a \in Addresses : IF Public(a) THEN Starts(c, <<a>>) /\ UNCHANGED webReply ELSE Returns(c, Refusal)
  /\ UNCHANGED <<question, answers, webTime>>

\* The page's own address, after its redirects, is the only source of the answer.
TellPage(c) ==
  LET chain == chains[c][1] IN
  /\ c \in Visitors /\ webStage[c] = "pages" /\ FetchesDone(c)
  /\ IF chain.state = "failed" THEN Returns(c, Refusal)
     ELSE \E cited \in SUBSET (0 .. 2), sound \in BOOLEAN, stray \in SUBSET Unlisted(<<chain.at>>) :
            Returns(c, Judged(<<chain.at>>, cited, sound, stray, chain.cleared))
  /\ UNCHANGED <<question, rounds, answers, webTime>>

\* time.monotonic.
WebTick ==
  /\ webTime < LastTime /\ webTime' = webTime + 1
  /\ UNCHANGED <<webStage, question, sources, chains, webReply, rounds, answers>>

WebInit ==
  /\ webStage = [c \in Calls |-> "idle"] /\ rounds = [c \in Calls |-> 0]
  /\ question = [c \in Researchers |-> CHOOSE q \in Questions : TRUE]
  /\ sources = [c \in Calls |-> <<>>] /\ chains = [c \in Calls |-> <<>>]
  /\ webReply = [c \in Calls |-> NothingFound]
  /\ answers = <<>> /\ webTime = 0

WebNext ==
  \/ \E c \in Researchers : AskWeb(c) \/ AskNative(c) \/ SearchBrave(c) \/ SearchWikipedia(c) \/ SumUp(c)
  \/ \E c \in Visitors : Visit(c) \/ TellPage(c)
  \/ \E c \in Calls : \E i \in DOMAIN chains[c] : LookUp(c, i) \/ Request(c, i)
  \/ WebTick

WebSpec == WebInit /\ [][WebNext]_webVars

(* ------------------------------- Properties ------------------------------- *)

Stages == {"idle", "native", "brave", "wikipedia", "pages"}
WebReplies == [kind : {"none", "error", "native", "model", "fallback"}, sources : Seq(PublicAddresses),
            cited : SUBSET Nat, backed : SUBSET Addresses,
            renumbered : BOOLEAN, age : Nat]

WebTypeOK ==
  /\ webStage \in [Calls -> Stages] /\ question \in [Researchers -> Questions]
  /\ \A c \in Calls : sources[c] \in Seq(PublicAddresses) /\ webReply[c] \in WebReplies
  /\ \A c \in Calls : webStage[c] = "pages" => DOMAIN chains[c] = DOMAIN sources[c]

\* No page is requested before its address, be it a listed one or the target of a
\* redirect, is known to be public and Safe Browsing was asked of it and did not
\* name it, and no chain of redirects is followed further than the limit.
RequestsAsked ==
  \A c \in Calls : \A i \in DOMAIN chains[c] :
    LET chain == chains[c][i] IN
    /\ chain.requested \subseteq chain.cleared \cap PublicAddresses
    /\ chain.hops <= RedirectLimit
    /\ chain.state = "get" => chain.at \in chain.cleared

\* Every answer a model wrote cites some of the sources listed below it and nothing
\* else (one made of the sources' descriptions may hold any number); the sources are
\* distinct; those it found itself are at most two of a host.
CitesListed ==
  \A c \in Calls : webReply[c].kind \in {"native", "model", "fallback"} =>
    /\ webReply[c].kind # "fallback" =>
         webReply[c].cited # {} /\ webReply[c].cited \subseteq DOMAIN webReply[c].sources
    /\ Cardinality(ToSet(webReply[c].sources)) = Len(webReply[c].sources)
    /\ webReply[c].kind # "native" =>
         /\ ToSet(webReply[c].sources) \subseteq webReply[c].backed
         /\ \A i \in DOMAIN webReply[c].sources :
              Cardinality({j \in DOMAIN webReply[c].sources :
                             HostOf[webReply[c].sources[j]] = HostOf[webReply[c].sources[i]]}) <= 2

\* As long as no source of the native search is left out for its address, each
\* number set behind its text is that of a page which supports the text.  (When one
\* is left out the later sources are numbered anew, and the text is not.)
NativeCitesSupport ==
  \A c \in Researchers :
    LET r == webReply[c] IN
    (r.kind = "native" /\ ~r.renumbered) => \A i \in r.cited : r.sources[i] \in r.backed

\* The memory holds one answer of a question, no more than its limit, none that is
\* a failure, and none is given again when its life is over.
MemoryOfAnswers ==
  /\ Len(answers) <= AnswerLimit
  /\ \A i, j \in DOMAIN answers : answers[i].question = answers[j].question => i = j
  /\ \A i \in DOMAIN answers : /\ answers[i].reply.kind \in {"native", "model", "fallback"}
                               /\ answers[i].until <= webTime + AnswerLife
                               /\ Len(answers[i].reply.sources) <= Wanted[answers[i].question]
  /\ \A c \in Calls : webReply[c].age < AnswerLife \/ webReply[c].age = 0

\* Type correctness, and no fetch goes where it has not asked (web_research.py:429-502).
FetchesAsked == WebTypeOK /\ RequestsAsked

\* An answer from the web rests on the sources below it, and is remembered only for
\* its question and its time (web_research.py:717-733, 829-888).
WebAnswersSound == CitesListed /\ NativeCitesSupport /\ MemoryOfAnswers
=============================================================================
