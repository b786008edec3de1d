------------------------------ MODULE Retrieval ------------------------------
(***************************************************************************)
(* One retrieval of a source's page over HTTP: HttpRetriever and           *)
(* FailClosedRobotsPolicy (collection/http.py) under the address policy of *)
(* SourceRegistry (sources/registry.py).  A retriever is made for one      *)
(* source and used once, by the one worker that holds the pipeline lock.   *)
(*                                                                         *)
(* An element of Urls stands for all spellings of one canonical address.   *)
(* A step is one answer of the web: the request, its redirect, its error   *)
(* or its body.  The sleeps before and between requests are left out.      *)
(***************************************************************************)
EXTENDS Integers

CONSTANTS
  Sources,       \* ids of the configured sources
  Urls,          \* canonical addresses
  Origins,       \* scheme, host and port
  OriginOf,      \* the origin of an address
  RobotsOf,      \* the address of an origin's robots.txt
  Home,          \* base_url of a source
  Domains,       \* the addresses on the allowlisted domains of a source
  Rulings,       \* sets of addresses a robots.txt may allow
  Responses,     \* pages: a body and its content type
  NoPage,
  MaxRetries,    \* RetrievalLimits.max_retries
  MaxRedirects   \* RetrievalLimits.max_redirects

ASSUME WebAssumption ==
  /\ OriginOf \in [Urls -> Origins]
  /\ RobotsOf \in [Origins -> Urls]
  /\ Home \in [Sources -> Urls]
  /\ Domains \in [Sources -> SUBSET Urls]
ASSUME RulingsAssumption == {} \in Rulings /\ Rulings \subseteq SUBSET Urls
ASSUME NoPageAssumption == NoPage \notin Responses
ASSUME LimitsAssumption == MaxRetries \in Nat /\ MaxRedirects \in Nat

VARIABLES
  at,       \* where the retriever is
  source,   \* the source it was made for
  hop,      \* the page request: address, redirects followed, attempts failed
  ask,      \* the robots.txt request in hand, likewise
  known,    \* origins whose robots.txt has been asked for (keys of _parsers)
  rules,    \* addresses the robots.txt of an origin allows (the parsers)
  answer,   \* the page retrieved
  sent,     \* page requests of this retrieval
  asked     \* robots.txt requests of the fetch in hand answered so far

retrievalVars == <<at, source, hop, ask, known, rules, answer, sent, asked>>

Request == [to : Urls, hops : 0 .. MaxRedirects, tries : 0 .. MaxRetries]
FirstRequest(u) == [to |-> u, hops |-> 0, tries |-> 0]

\* validate_url: the host is on one of the source's domains
Permitted(u) == u \in Domains[source]
Origin == OriginOf[hop.to]
\* robots.allowed of an address whose rules are known
Granted(u) == u \in rules[OriginOf[u]]

RetrievalInit ==
  /\ at = "off"
  /\ source \in Sources
  /\ hop = FirstRequest(Home[source]) /\ ask = FirstRequest(Home[source])
  /\ known = {} /\ rules = [o \in Origins |-> {}]
  /\ answer = NoPage
  /\ sent = 0 /\ asked = 0

\* a new retriever and a new policy for source s
NewRetriever(s) ==
  /\ source' = s
  /\ hop' = FirstRequest(Home[s]) /\ ask' = FirstRequest(Home[s])
  /\ known' = {} /\ rules' = [o \in Origins |-> {}]
  /\ answer' = NoPage
  /\ sent' = 0 /\ asked' = 0

StartRetrieval(s) ==
  /\ at = "off"
  /\ at' = IF Home[s] \in Domains[s] THEN "check" ELSE "failed"
  /\ NewRetriever(s)

\* the retriever is dropped, with all it remembers
Leave == at' = "off" /\ NewRetriever(source)

\* _validate_hop once the origin's rules are known: the first address goes on to the cache, a
\* redirect to the next request; PermissionError is not retried
CheckHop ==
  /\ at = "check" /\ Origin \in known
  /\ at' = IF ~Granted(hop.to) THEN "failed"
           ELSE IF sent = 0 THEN "lookup" ELSE "send"
  /\ UNCHANGED <<source, hop, ask, known, rules, answer, sent, asked>>

\* allowed, for an origin not asked before; a robots.txt outside the domains is not asked for and
\* denies the address
AskRobots ==
  /\ at = "check" /\ Origin \notin known
  /\ IF Permitted(RobotsOf[Origin])
       THEN at' = "robots" /\ ask' = FirstRequest(RobotsOf[Origin])
       ELSE at' = "failed" /\ UNCHANGED ask
  /\ UNCHANGED <<source, hop, known, rules, answer, sent, asked>>

\* _fetch returns: a parser that allows the addresses of granted, or none
RobotsKnown(granted) ==
  /\ known' = known \cup {Origin}
  /\ rules' = [rules EXCEPT ![Origin] = granted]
  /\ at' = "check" /\ ask' = FirstRequest(Home[source]) /\ asked' = 0

MutantRobotsRetry ==
  IF ask.tries <= MaxRetries
    THEN /\ ask' = [to |-> ask.to, hops |-> 0, tries |-> ask.tries + 1]
         /\ asked' = asked + 1 /\ UNCHANGED <<at, known, rules>>
    ELSE RobotsKnown({})

\* an error answer or an exception: the next attempt goes to the address asked last
RobotsRetry ==
  IF ask.tries < MaxRetries
    THEN /\ ask' = [to |-> ask.to, hops |-> 0, tries |-> ask.tries + 1]
         /\ asked' = asked + 1 /\ UNCHANGED <<at, known, rules>>
    ELSE RobotsKnown({})

RobotsRedirect(u) ==
  /\ at = "robots"
  /\ IF ask.hops >= MaxRedirects THEN RobotsKnown({})
     ELSE IF ~Permitted(u) THEN RobotsRetry
     ELSE /\ ask' = [to |-> u, hops |-> ask.hops + 1, tries |-> ask.tries]
          /\ asked' = asked + 1 /\ UNCHANGED <<at, known, rules>>
  /\ UNCHANGED <<source, hop, answer, sent>>

RobotsError == at = "robots" /\ RobotsRetry /\ UNCHANGED <<source, hop, answer, sent>>

\* a robots.txt, or an answer without Location or of another content type (granted = {})
RobotsAnswer(granted) ==
  /\ at = "robots" /\ RobotsKnown(granted)
  /\ UNCHANGED <<source, hop, answer, sent>>

\* HTTPError or ValueError: the next attempt begins at the source's page
Retry ==
  IF hop.tries < MaxRetries
    THEN hop' = [to |-> Home[source], hops |-> 0, tries |-> hop.tries + 1] /\ at' = "send"
    ELSE at' = "failed" /\ UNCHANGED hop

MutantPageRedirect(u) ==
  /\ at = "send"
  /\ IF hop.hops >= MaxRedirects \/ ~Permitted(u) THEN Retry
     ELSE hop' = [to |-> u, hops |-> hop.hops + 1, tries |-> hop.tries] /\ UNCHANGED at
  /\ sent' = sent + 1
  /\ UNCHANGED <<source, ask, known, rules, answer, asked>>

MutantCountlessRedirect(u) ==
  /\ at = "send"
  /\ IF ~Permitted(u) THEN Retry ELSE hop' = [hop EXCEPT !.to = u] /\ at' = "check"
  /\ sent' = sent + 1
  /\ UNCHANGED <<source, ask, known, rules, answer, asked>>

PageRedirect(u) ==
  /\ at = "send"
  /\ IF hop.hops >= MaxRedirects \/ ~Permitted(u) THEN Retry
     ELSE hop' = [to |-> u, hops |-> hop.hops + 1, tries |-> hop.tries] /\ at' = "check"
  /\ sent' = sent + 1
  /\ UNCHANGED <<source, ask, known, rules, answer, asked>>

\* no answer, an error status, no Location, a content type or size out of bounds
PageError ==
  /\ at = "send" /\ Retry /\ sent' = sent + 1
  /\ UNCHANGED <<source, ask, known, rules, answer, asked>>

PageAnswer(r) ==
  /\ at = "send" /\ at' = "got"
  /\ answer' = r /\ sent' = sent + 1
  /\ UNCHANGED <<source, hop, ask, known, rules, asked>>

Answered ==
  \/ CheckHop \/ AskRobots \/ RobotsError \/ PageError
  \/ \E u \in Urls : RobotsRedirect(u)
  \/ \E u \in Urls : PageRedirect(u)
  \/ \E granted \in Rulings : RobotsAnswer(granted)
  \/ \E r \in Responses : PageAnswer(r)
-----------------------------------------------------------------------------
RetrievalTypeOK ==
  /\ at \in {"off", "check", "robots", "lookup", "send", "got", "half", "have", "failed"}
  /\ source \in Sources /\ hop \in Request /\ ask \in Request
  /\ known \subseteq Origins /\ rules \in [Origins -> SUBSET Urls]
  /\ answer \in Responses \cup {NoPage}
  /\ sent \in Nat /\ asked \in Nat

(* Every address a page is requested from - the source's own, the target of *)
(* any redirect, and the address a retry begins at again - is on the        *)
(* source's domains and allowed by a robots.txt fetched in this retrieval;  *)
(* robots.txt itself is only requested on the domains, across its own       *)
(* redirects and retries (_validate_hop, _fetch).                           *)
RequestsAreAllowed ==
  /\ at = "send" => Permitted(hop.to) /\ Origin \in known /\ Granted(hop.to)
  /\ at = "robots" => Permitted(ask.to)

(* Redirects and retries together never ask for a page, or for one robots.txt, *)
(* more than (max_retries + 1) * (max_redirects + 1) times (the two nested     *)
(* loops of _request and of _fetch).                                           *)
RequestsAreBounded ==
  LET most == (MaxRetries + 1) * (MaxRedirects + 1)
  IN  sent <= most /\ asked < most
=============================================================================
