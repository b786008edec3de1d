-------------------------- MODULE CollectionProofs --------------------------
(***************************************************************************)
(* Theorems about the collector of Collection and the requests of          *)
(* Retrieval, for any web, any sources and any number of jobs, failures    *)
(* and kills.                                                              *)
(*                                                                         *)
(* What a retrieval may ask for and how often does not depend on the job;  *)
(* the invariant is proved in these two parts.                             *)
(***************************************************************************)
EXTENDS Collection, TLAPS

\* Requests a retrieval has paid for when this one is in hand.
Cost(request) == request.tries * (MaxRedirects + 1) + request.hops
Most == (MaxRetries + 1) * (MaxRedirects + 1)

HomeIsAllowed ==
  OriginOf[Home[source]] \in known /\ Home[source] \in rules[OriginOf[Home[source]]]

\* The page in hand, and the address every retry begins at again, are permitted; once a page
\* has been asked for, the rules of the source's own origin are known for good.
RetrievalInv ==
  /\ RetrievalTypeOK
  /\ at \in {"check", "robots", "lookup", "send"} =>
       /\ Permitted(Home[source]) /\ Permitted(hop.to) /\ sent <= Cost(hop)
  /\ at \in {"lookup", "send"} \/ sent > 0 => HomeIsAllowed
  /\ sent = 0 => hop.to = Home[source]
  /\ at = "lookup" => sent = 0
  /\ at = "send" => Origin \in known /\ Granted(hop.to)
  /\ at = "robots" => Permitted(ask.to) /\ Origin \notin known /\ asked <= Cost(ask)
  /\ at # "robots" => asked = 0
  /\ at \in {"got", "half", "have"} => answer \in Responses
  /\ sent <= Most

-----------------------------------------------------------------------------
(* Requests *)

LEMMA Products ==
  ASSUME NEW a \in Nat, NEW b \in Nat, NEW c \in Nat, a <= b
  PROVE  a * c \in Nat /\ (a + 1) * c = a * c + c /\ a * c <= b * c
OBVIOUS

\* Another redirect costs one request, another attempt at most the redirects that are left.
LEMMA Costs ==
  ASSUME NEW r \in Request
  PROVE  /\ Cost(r) \in Nat /\ Most \in Nat /\ Cost(r) < Most
         /\ r.hops < MaxRedirects =>
              \A u \in Urls : LET next == [to |-> u, hops |-> r.hops + 1, tries |-> r.tries]
                              IN  next \in Request /\ Cost(next) = Cost(r) + 1
         /\ r.tries < MaxRetries =>
              \A u \in Urls : LET next == [to |-> u, hops |-> 0, tries |-> r.tries + 1]
                              IN  next \in Request /\ Cost(next) >= Cost(r) + 1
<1> DEFINE R == MaxRedirects + 1
<1>1. r.tries \in Nat /\ r.hops \in Nat /\ r.tries <= MaxRetries /\ r.hops < R
  BY LimitsAssumption DEF Request
<1>2. R \in Nat /\ MaxRetries \in Nat
  BY LimitsAssumption
<1>3. /\ r.tries * R \in Nat /\ (r.tries + 1) * R = r.tries * R + R
      /\ r.tries * R <= MaxRetries * R
  BY <1>1, <1>2, Products
<1>4. (MaxRetries + 1) * R = MaxRetries * R + R /\ MaxRetries * R \in Nat
  BY <1>2, Products
<1>5. Cost(r) = r.tries * R + r.hops /\ Most = (MaxRetries + 1) * R
  BY DEF Cost, Most
<1>6. ASSUME NEW u \in Urls, r.hops < MaxRedirects
      PROVE  LET next == [to |-> u, hops |-> r.hops + 1, tries |-> r.tries]
             IN  next \in Request /\ Cost(next) = Cost(r) + 1
  <2> DEFINE next == [to |-> u, hops |-> r.hops + 1, tries |-> r.tries]
  <2>1. next \in Request
    BY <1>1, <1>2, <1>6, LimitsAssumption DEF Request
  <2>2. Cost(next) = r.tries * R + (r.hops + 1)
    BY DEF Cost
  <2> QED
    BY <1>1, <1>3, <1>5, <2>1, <2>2
<1>7. ASSUME NEW u \in Urls, r.tries < MaxRetries
      PROVE  LET next == [to |-> u, hops |-> 0, tries |-> r.tries + 1]
             IN  next \in Request /\ Cost(next) >= Cost(r) + 1
  <2> DEFINE next == [to |-> u, hops |-> 0, tries |-> r.tries + 1]
  <2>1. next \in Request
    BY <1>1, <1>2, <1>7, LimitsAssumption DEF Request
  <2>2. Cost(next) = (r.tries + 1) * R + 0
    BY DEF Cost
  <2> HIDE DEF R
  <2> QED
    BY <1>1, <1>2, <1>3, <1>5, <2>1, <2>2
<1> HIDE DEF R
<1> QED
  BY <1>1, <1>2, <1>3, <1>4, <1>5, <1>6, <1>7

LEMMA FirstRequests ==
  ASSUME NEW u \in Urls
  PROVE  FirstRequest(u) \in Request /\ Cost(FirstRequest(u)) = 0
<1>1. FirstRequest(u) \in Request
  BY LimitsAssumption DEF FirstRequest, Request
<1>2. Cost(FirstRequest(u)) = 0 * (MaxRedirects + 1) + 0
  BY DEF Cost, FirstRequest
<1> QED
  BY <1>1, <1>2, LimitsAssumption

\* A retriever that is made or dropped remembers nothing.
LEMMA NewRetrieverKeeps ==
  ASSUME NEW s \in Sources, NewRetriever(s),
         at' \in {"off", "failed", "check"}, at' = "check" => Home[s] \in Domains[s]
  PROVE  RetrievalInv'
<1>1. Home[s] \in Urls
  BY WebAssumption
<1>2. FirstRequest(Home[s]) \in Request /\ Cost(FirstRequest(Home[s])) = 0
  BY FirstRequests, <1>1
<1>3. 0 <= Most /\ FirstRequest(Home[s]).to = Home[s]
  BY Costs, <1>2 DEF FirstRequest
<1>4. RetrievalTypeOK'
  BY <1>2 DEF RetrievalTypeOK, NewRetriever
<1>5. source' = s /\ hop'.to = Home[s] /\ sent' = 0 /\ asked' = 0 /\ Cost(hop') = 0
  BY <1>2, <1>3 DEF NewRetriever
<1>6. Cost(hop)' = Cost(hop')
  BY DEF Cost
<1> QED
  BY <1>2, <1>3, <1>4, <1>5, <1>6 DEF RetrievalInv, Permitted

LEMMA RequestsLaunched ==
  ASSUME NEW s \in Sources, StartRetrieval(s)
  PROVE  RetrievalInv'
BY NewRetrieverKeeps DEF StartRetrieval

LEMMA RequestsDropped ==
  ASSUME RetrievalInv, Leave
  PROVE  RetrievalInv'
<1>1. source \in Sources
  BY DEF RetrievalInv, RetrievalTypeOK
<1> QED
  BY <1>1, NewRetrieverKeeps DEF Leave

\* What the invariant says depends on the retriever's variables alone.
LEMMA RequestsUnchanged ==
  ASSUME RetrievalInv, UNCHANGED retrievalVars
  PROVE  RetrievalInv'
BY DEF RetrievalInv, RetrievalTypeOK, retrievalVars, Permitted, HomeIsAllowed, Origin, Granted, Cost

\* Once it has its answer, a retriever asks for nothing.
LEMMA AnswerInHand ==
  ASSUME RetrievalInv, UNCHANGED <<source, hop, ask, known, rules, sent, asked>>,
         at \in {"lookup", "send", "got", "half"}, at' \in {"got", "half", "have"},
         answer' \in Responses
  PROVE  RetrievalInv'
BY DEF RetrievalInv, RetrievalTypeOK, Permitted, HomeIsAllowed, Origin, Granted, Cost

LEMMA CacheMissed ==
  ASSUME RetrievalInv, at = "lookup", at' = "send",
         UNCHANGED <<source, hop, ask, known, rules, sent, asked, answer>>
  PROVE  RetrievalInv'
BY DEF RetrievalInv, RetrievalTypeOK, Permitted, HomeIsAllowed, Origin, Granted, Cost

LEMMA HopChecked ==
  ASSUME RetrievalInv, CheckHop
  PROVE  RetrievalInv'
BY DEF RetrievalInv, RetrievalTypeOK, CheckHop, Permitted, HomeIsAllowed, Origin, Granted, Cost

LEMMA RobotsNeeded ==
  ASSUME RetrievalInv, AskRobots
  PROVE  RetrievalInv'
<1> DEFINE first == FirstRequest(RobotsOf[Origin])
<1>1. first \in Request /\ Cost(first) = 0 /\ first.to = RobotsOf[Origin]
  BY WebAssumption, FirstRequests
     DEF RetrievalInv, RetrievalTypeOK, Origin, Request, FirstRequest
<1>2. Cost(ask)' = Cost(ask')
  BY DEF Cost
<1> HIDE DEF first
<1>3. ask' = first \/ ask' = ask
  BY DEF AskRobots, first
<1>4. CASE Permitted(RobotsOf[Origin])
  BY <1>1, <1>2, <1>4 DEF RetrievalInv, RetrievalTypeOK, AskRobots, Permitted, HomeIsAllowed,
     Origin, Granted, Cost, first
<1>5. CASE ~Permitted(RobotsOf[Origin])
  BY <1>5 DEF RetrievalInv, RetrievalTypeOK, AskRobots, Permitted, HomeIsAllowed, Origin
<1> QED
  BY <1>4, <1>5

LEMMA RobotsRead ==
  ASSUME RetrievalInv, NEW granted \in SUBSET Urls, at = "robots", RobotsKnown(granted),
         UNCHANGED <<source, hop, answer, sent>>
  PROVE  RetrievalInv'
<1>1. ask' \in Request
  BY WebAssumption, FirstRequests DEF RetrievalInv, RetrievalTypeOK, RobotsKnown
<1>2. Origin \in Origins
  BY WebAssumption DEF RetrievalInv, RetrievalTypeOK, Origin, Request
<1>3. RetrievalTypeOK'
  BY <1>1, <1>2 DEF RetrievalInv, RetrievalTypeOK, RobotsKnown
<1>4. HomeIsAllowed => HomeIsAllowed'
  BY <1>2 DEF RetrievalInv, RetrievalTypeOK, RobotsKnown, HomeIsAllowed
<1>5. Permitted(Home[source])' /\ Permitted(hop.to)' /\ (sent <= Cost(hop))'
  BY DEF RetrievalInv, RobotsKnown, Permitted, Cost
<1> QED
  BY <1>3, <1>4, <1>5 DEF RetrievalInv, RobotsKnown

LEMMA RobotsAskedAgain ==
  ASSUME RetrievalInv, at = "robots", UNCHANGED <<source, hop, answer, sent, at, known, rules>>,
         ask' \in Request, Permitted(ask'.to), Cost(ask') >= Cost(ask) + 1, asked' = asked + 1,
         Cost(ask) \in Nat, Cost(ask') \in Nat
  PROVE  RetrievalInv'
<1>1. RetrievalTypeOK'
  BY DEF RetrievalInv, RetrievalTypeOK
<1>2. Cost(ask)' = Cost(ask') /\ Cost(hop)' = Cost(hop)
  BY DEF Cost
<1>3. asked \in Nat /\ asked <= Cost(ask)
  BY DEF RetrievalInv, RetrievalTypeOK
<1>4. asked' <= Cost(ask)'
  BY <1>2, <1>3
<1> QED
  BY <1>1, <1>2, <1>4 DEF RetrievalInv, Permitted, HomeIsAllowed, Origin

LEMMA RobotsRetried ==
  ASSUME RetrievalInv, at = "robots", RobotsRetry, UNCHANGED <<source, hop, answer, sent>>
  PROVE  RetrievalInv'
<1>1. ask \in Request /\ ask.to \in Urls /\ Permitted(ask.to)
  BY DEF RetrievalInv, RetrievalTypeOK, Request
<1>2. CASE ask.tries < MaxRetries
  <2> DEFINE next == [to |-> ask.to, hops |-> 0, tries |-> ask.tries + 1]
  <2>1. next \in Request /\ Cost(next) >= Cost(ask) + 1 /\ Cost(next) \in Nat /\ Cost(ask) \in Nat
    BY <1>1, <1>2, Costs
  <2>2. next.to = ask.to
    OBVIOUS
  <2> HIDE DEF next
  <2>3. ask' = next /\ asked' = asked + 1 /\ UNCHANGED <<at, known, rules>>
    BY <1>2 DEF RobotsRetry, next
  <2> QED
    BY <1>1, <2>1, <2>2, <2>3, RobotsAskedAgain
<1>3. CASE ~(ask.tries < MaxRetries)
  BY <1>3, RobotsRead DEF RobotsRetry
<1> QED
  BY <1>2, <1>3

LEMMA RobotsRedirected ==
  ASSUME RetrievalInv, NEW u \in Urls, RobotsRedirect(u)
  PROVE  RetrievalInv'
<1>1. ask \in Request /\ at = "robots" /\ UNCHANGED <<source, hop, answer, sent>>
  BY DEF RetrievalInv, RetrievalTypeOK, RobotsRedirect
<1>2. CASE ask.hops >= MaxRedirects
  BY <1>1, <1>2, RobotsRead DEF RobotsRedirect
<1>3. CASE ~(ask.hops >= MaxRedirects) /\ ~Permitted(u)
  BY <1>1, <1>3, RobotsRetried DEF RobotsRedirect
<1>4. CASE ~(ask.hops >= MaxRedirects) /\ Permitted(u)
  <2> DEFINE next == [to |-> u, hops |-> ask.hops + 1, tries |-> ask.tries]
  <2>1. ask.hops < MaxRedirects
    BY <1>1, <1>4, LimitsAssumption DEF Request
  <2>2. next \in Request /\ Cost(next) = Cost(ask) + 1 /\ Cost(next) \in Nat /\ Cost(ask) \in Nat
    BY <1>1, <2>1, Costs
  <2>3. next.to = u
    OBVIOUS
  <2> HIDE DEF next
  <2>4. ask' = next /\ asked' = asked + 1 /\ UNCHANGED <<at, known, rules>>
    BY <1>4 DEF RobotsRedirect, next
  <2> QED
    BY <1>1, <1>4, <2>2, <2>3, <2>4, RobotsAskedAgain
<1> QED
  BY <1>2, <1>3, <1>4

LEMMA PageAskedAgain ==
  ASSUME RetrievalInv, at = "send", UNCHANGED <<source, ask, known, rules, answer, asked>>,
         hop' \in Request, Permitted(hop'.to), Cost(hop') >= Cost(hop) + 1, sent' = sent + 1,
         Cost(hop) \in Nat, Cost(hop') \in Nat, Cost(hop') < Most, Most \in Nat,
         at' = "check" \/ (at' = "send" /\ hop'.to = Home[source])
  PROVE  RetrievalInv'
<1>1. RetrievalTypeOK'
  BY DEF RetrievalInv, RetrievalTypeOK
<1>2. Cost(hop)' = Cost(hop')
  BY DEF Cost
<1>3. sent \in Nat /\ sent <= Cost(hop) /\ HomeIsAllowed /\ Permitted(Home[source])
  BY DEF RetrievalInv, RetrievalTypeOK
<1>4. sent' <= Cost(hop)' /\ sent' <= Most /\ sent' # 0
  BY <1>2, <1>3
<1>5. HomeIsAllowed' /\ Permitted(hop.to)' /\ Permitted(Home[source])'
  BY <1>3 DEF HomeIsAllowed, Permitted
<1>6. at' = "send" => Origin' \in known' /\ Granted(hop.to)'
  BY <1>3 DEF HomeIsAllowed, Origin, Granted
<1> QED
  BY <1>1, <1>4, <1>5, <1>6 DEF RetrievalInv

\* No further attempt, or the answer: this was the last request.
LEMMA PageSettled ==
  ASSUME RetrievalInv, at = "send", UNCHANGED <<source, hop, ask, known, rules, asked>>,
         sent' = sent + 1,
         \/ at' = "failed" /\ UNCHANGED answer
         \/ at' = "got" /\ answer' \in Responses
  PROVE  RetrievalInv'
<1>1. hop \in Request
  BY DEF RetrievalInv, RetrievalTypeOK
<1>2. sent \in Nat /\ sent <= Cost(hop) /\ HomeIsAllowed
  BY DEF RetrievalInv, RetrievalTypeOK
<1>3. Cost(hop) \in Nat /\ Most \in Nat /\ Cost(hop) < Most
  BY <1>1, Costs
<1>4. sent' <= Most /\ sent' # 0 /\ sent' \in Nat
  BY <1>2, <1>3
<1> QED
  BY <1>2, <1>4 DEF RetrievalInv, RetrievalTypeOK, HomeIsAllowed

LEMMA PageRetried ==
  ASSUME RetrievalInv, at = "send", Retry, sent' = sent + 1,
         UNCHANGED <<source, ask, known, rules, answer, asked>>
  PROVE  RetrievalInv'
<1>1. hop \in Request /\ Home[source] \in Urls /\ Permitted(Home[source])
  BY WebAssumption DEF RetrievalInv, RetrievalTypeOK
<1>2. CASE hop.tries < MaxRetries
  <2> DEFINE next == [to |-> Home[source], hops |-> 0, tries |-> hop.tries + 1]
  <2>1. next \in Request /\ Cost(next) >= Cost(hop) + 1
    BY <1>1, <1>2, Costs
  <2>2. next.to = Home[source]
    OBVIOUS
  <2> HIDE DEF next
  <2>3. hop' = next /\ at' = "send"
    BY <1>2 DEF Retry, next
  <2>4. Cost(next) \in Nat /\ Cost(next) < Most /\ Most \in Nat /\ Cost(hop) \in Nat
    BY <1>1, <2>1, Costs
  <2> QED
    BY <1>1, <2>1, <2>2, <2>3, <2>4, PageAskedAgain
<1>3. CASE ~(hop.tries < MaxRetries)
  BY <1>3, PageSettled DEF Retry
<1> QED
  BY <1>2, <1>3

LEMMA PageRedirected ==
  ASSUME RetrievalInv, NEW u \in Urls, PageRedirect(u)
  PROVE  RetrievalInv'
<1>1. /\ hop \in Request /\ at = "send" /\ sent' = sent + 1
      /\ UNCHANGED <<source, ask, known, rules, answer, asked>>
  BY DEF RetrievalInv, RetrievalTypeOK, PageRedirect
<1>2. CASE hop.hops >= MaxRedirects \/ ~Permitted(u)
  BY <1>1, <1>2, PageRetried DEF PageRedirect
<1>3. CASE ~(hop.hops >= MaxRedirects) /\ Permitted(u)
  <2> DEFINE next == [to |-> u, hops |-> hop.hops + 1, tries |-> hop.tries]
  <2>1. hop.hops < MaxRedirects
    BY <1>1, <1>3, LimitsAssumption DEF Request
  <2>2. next \in Request /\ Cost(next) = Cost(hop) + 1
    BY <1>1, <2>1, Costs
  <2>3. next.to = u
    OBVIOUS
  <2> HIDE DEF next
  <2>4. hop' = next /\ at' = "check"
    BY <1>3 DEF PageRedirect, next
  <2>5. Cost(next) \in Nat /\ Cost(next) < Most /\ Most \in Nat /\ Cost(hop) \in Nat
    BY <1>1, <2>2, Costs
  <2> QED
    BY <1>1, <1>3, <2>2, <2>3, <2>4, <2>5, PageAskedAgain
<1> QED
  BY <1>2, <1>3

LEMMA AnsweredKeeps ==
  ASSUME RetrievalInv, Answered
  PROVE  RetrievalInv'
<1>1. CASE RobotsError
  BY <1>1, RobotsRetried DEF RobotsError
<1>2. CASE PageError
  BY <1>2, PageRetried DEF PageError
<1>3. ASSUME NEW granted \in Rulings, RobotsAnswer(granted)
      PROVE  RetrievalInv'
  BY <1>3, RobotsRead, RulingsAssumption DEF RobotsAnswer
<1>4. ASSUME NEW r \in Responses, PageAnswer(r)
      PROVE  RetrievalInv'
  BY <1>4, PageSettled DEF PageAnswer
<1> QED
  BY <1>1, <1>2, <1>3, <1>4, HopChecked, RobotsNeeded, RobotsRedirected, PageRedirected DEF Answered

\* What a hit gives is the entry's metadata: its body's hash was compared.
LEMMA HitsWereSent ==
  ASSUME TypeOK, NEW u \in Urls, Hit(u)
  PROVE  Cached(u) \in Responses
<1>1. metaFile[u] \in Responses /\ metaFile[u].body = bodyFile[u]
  BY DEF TypeOK, Hit
<1>2. metaFile[u] \in [body : Bodies, type : ContentTypes]
  BY <1>1, PagesAssumption
<1>3. metaFile[u] = [body |-> metaFile[u].body, type |-> metaFile[u].type]
  BY <1>2
<1> QED
  BY <1>1, <1>3 DEF Cached

\* Whatever the job does, the retriever answers, is launched, dropped or left alone.
LEMMA RequestsStep ==
  ASSUME TypeOK, RetrievalInv, [Next]_vars
  PROVE  RetrievalInv'
<1>1. CASE Fetch
  <2>1. Configured[place] \in Sources
    BY ConfiguredAssumption DEF TypeOK, Place
  <2> QED
    BY <1>1, <2>1, RequestsLaunched DEF Fetch
<1>2. CASE Lookup
  <2>1. Home[source] \in Urls
    BY WebAssumption DEF RetrievalInv, RetrievalTypeOK
  <2>2. CASE Hit(Home[source])
    BY <1>2, <2>1, <2>2, HitsWereSent, AnswerInHand DEF Lookup
  <2>3. CASE ~Hit(Home[source])
    BY <1>2, <2>3, CacheMissed DEF Lookup
  <2> QED
    BY <2>2, <2>3
<1>3. CASE PutBody \/ PutMeta
  BY <1>3, AnswerInHand DEF PutBody, PutMeta, RetrievalInv
<1>4. CASE Keep \/ GiveUp \/ PutFails \/ Kill
  BY <1>4, RequestsDropped DEF Keep, GiveUp, PutFails, Kill
<1>5. CASE Collect \/ Begin \/ Skip \/ Save \/ Insert \/ Commit \/ Undo \/ Verify
           \/ PersistFails \/ Age \/ EditRegistry
  BY <1>5, RequestsUnchanged DEF Collect, Begin, Skip, Save, Insert, Commit, Undo, Verify,
     PersistFails, Age, EditRegistry, retrievalVars
<1>6. CASE UNCHANGED vars
  BY <1>6, RequestsUnchanged DEF vars
<1>7. CASE Web
  BY <1>7, AnsweredKeeps DEF Web
<1> QED
  BY <1>1, <1>2, <1>3, <1>4, <1>5, <1>6, <1>7 DEF Next, Work

-----------------------------------------------------------------------------
(* Jobs *)

Persisting == {"begin", "save", "insert", "commit", "verify"}

\* Between jobs nothing is in memory; while pages are fetched, there is one for each source
\* before the one in hand; a job that persists has all of them, and each could be decoded.
FetchInv ==
  /\ TypeOK
  /\ at # "off" => step = "fetch"
  /\ step \in {"idle", "begin"} => place = 1
  /\ step = "idle" => fetched = <<>>
  /\ step = "fetch" => Len(fetched) = place - 1
  /\ step \in Persisting => Len(fetched) = Len(Configured)
  /\ \A i \in DOMAIN fetched : TextOf[fetched[i].body] \in Texts
  /\ step # "idle" => batch \in Batch /\ \A i \in Place : used[Configured[i]] \in Approved

LEMMA Places ==
  /\ 1 \in Place /\ Place \subseteq Nat /\ \A i \in Place : 1 <= i
  /\ \A i \in Place : Configured[i] \in Sources
  /\ \A i, j \in Place : Configured[i] = Configured[j] => i = j
BY ConfiguredAssumption DEF Place

LEMMA RowsOfPages ==
  ASSUME FetchInv, step \in Persisting, NEW i \in Place
  PROVE  /\ fetched[i] \in Responses /\ Text(i) \in Texts
         /\ \A b : Row(<<b, i>>) = [source |-> Configured[i], text |-> Text(i)]
         /\ \A b : Row(<<b, i>>) \in [source : Sources, text : Texts]
<1>1. i \in DOMAIN fetched /\ fetched \in Seq(Responses) /\ Len(fetched) = Len(Configured)
  BY ConfiguredAssumption DEF FetchInv, TypeOK, Place
<1> QED
  BY <1>1, Places DEF FetchInv, Text, Row

LEMMA EndedKeepsFetch ==
  ASSUME FetchInv, RetrievalTypeOK', at' = "off", NEW how \in {"succeeded", "failed", "killed"},
         Ended(how), UNCHANGED <<batch, registry, edits, cacheVars, rows, sourceRows>>,
         files' \in [Ids -> Texts \cup {Garbled, None}],
         faults' \in 0 .. MaxFaults, kills' \in 0 .. MaxKills
  PROVE  FetchInv'
<1>1. NoRegistry \in [Sources -> Forms \cup {None}]
  BY DEF NoRegistry
<1>2. TypeOK'
  BY <1>1, Places DEF FetchInv, TypeOK, Ended, cacheVars
<1> QED
  BY <1>2 DEF FetchInv, Ended, Persisting

\* Steps that leave the pages in hand as they are.
LEMMA MovesKeepFetch ==
  ASSUME FetchInv, TypeOK', UNCHANGED <<batch, used, fetched>>,
         at' # "off" => step' = "fetch",
         \/ step' = step /\ place' = place
         \/ step \in Persisting /\ step' \in Persisting \ {"begin"}
         \/ step' = "undo" /\ step # "idle"
  PROVE  FetchInv'
BY DEF FetchInv, Persisting

LEMMA CollectKeepsFetch ==
  ASSUME FetchInv, RetrievalTypeOK', Collect
  PROVE  FetchInv'
<1> USE DEF Collect, cacheVars, storeVars, boundVars, retrievalVars
<1>1. registry \in [Sources -> Forms]
  BY DEF FetchInv, TypeOK
<1>2. batch + 1 \in Batch /\ batch' = batch + 1
  BY BatchBounds DEF FetchInv, TypeOK, Batch
<1>3. batch' \in 0 .. MaxBatches
  BY <1>2 DEF Batch
<1>4. step' \in {"idle", "fetch"} /\ outcome' \in {"running", "unconfigured"}
      /\ used' \in [Sources -> Forms \cup {None}]
  BY <1>1 DEF FetchInv, TypeOK
<1>5. TypeOK'
  BY <1>3, <1>4 DEF FetchInv, TypeOK
<1>6. Batch' = Batch /\ Place' = Place
  BY DEF Batch, Place
<1> QED
  BY <1>2, <1>4, <1>5 DEF FetchInv, Persisting

LEMMA Appended ==
  ASSUME NEW S, NEW seq \in Seq(S), NEW e \in S
  PROVE  /\ Append(seq, e) \in Seq(S) /\ Len(Append(seq, e)) = Len(seq) + 1
         /\ \A i \in DOMAIN Append(seq, e) :
              \/ i \in DOMAIN seq /\ Append(seq, e)[i] = seq[i]
              \/ Append(seq, e)[i] = e
OBVIOUS

LEMMA KeepKeepsFetch ==
  ASSUME FetchInv, RetrievalInv, RetrievalTypeOK', Keep
  PROVE  FetchInv'
<1> USE DEF Keep, cacheVars, storeVars, boundVars
<1>1. answer \in Responses /\ at' = "off" /\ step = "fetch" /\ fetched \in Seq(Responses)
      /\ place \in Place /\ Len(fetched) = place - 1
  BY DEF RetrievalInv, Leave, FetchInv, TypeOK
<1>2. TextOf[answer.body] \in Texts
  BY <1>1, PagesAssumption
<1>3. /\ fetched' \in Seq(Responses) /\ Len(fetched') = place
      /\ \A i \in DOMAIN fetched' :
           \/ i \in DOMAIN fetched /\ fetched'[i] = fetched[i]
           \/ fetched'[i] = answer
  BY <1>1, Appended, Places
<1>4. \A i \in DOMAIN fetched' : TextOf[fetched'[i].body] \in Texts
  BY <1>2, <1>3 DEF FetchInv
<1>5. /\ place' \in Place
      /\ \/ step' = "fetch" /\ place' = place + 1
         \/ step' = "begin" /\ place' = 1 /\ place = Len(Configured)
  BY <1>1, ConfiguredAssumption DEF Place
<1>6. TypeOK'
  BY <1>1, <1>3, <1>5 DEF FetchInv, TypeOK
<1> QED
  BY <1>1, <1>3, <1>4, <1>5, <1>6 DEF FetchInv, Persisting

\* The retriever's steps change nothing of the job but the cache.
LEMMA RequestsKeepFetch ==
  ASSUME FetchInv, RetrievalInv, RetrievalTypeOK', UNCHANGED <<jobVars, storeVars, boundVars>>,
         bodyFile' \in [Urls -> Bodies \cup {None}],
         metaFile' \in [Urls -> Responses \cup {None}], fresh' \subseteq Urls,
         at' # "off" => step = "fetch"
  PROVE  FetchInv'
<1>1. TypeOK'
  BY DEF FetchInv, TypeOK, jobVars, storeVars, boundVars
<1> QED
  BY <1>1, MovesKeepFetch DEF jobVars

LEMMA CacheKeepsFetch ==
  ASSUME FetchInv, RetrievalInv, RetrievalTypeOK',
         Fetch \/ Web \/ Lookup \/ PutBody \/ PutMeta \/ Age
  PROVE  FetchInv'
<1>1. bodyFile \in [Urls -> Bodies \cup {None}] /\ metaFile \in [Urls -> Responses \cup {None}]
      /\ fresh \subseteq Urls /\ (at # "off" => step = "fetch")
  BY DEF FetchInv, TypeOK
<1>2. CASE Fetch \/ Lookup
  BY <1>1, <1>2, RequestsKeepFetch DEF Fetch, Lookup, cacheVars
<1>3. CASE Web
  <2>1. at # "off"
    BY <1>3 DEF Web, Answered, CheckHop, AskRobots, RobotsError, PageError, RobotsRedirect,
       PageRedirect, RobotsAnswer, PageAnswer
  <2> QED
    BY <1>1, <1>3, <2>1, RequestsKeepFetch DEF Web, cacheVars
<1>4. CASE PutBody \/ PutMeta
  <2>1. answer \in Responses /\ Home[source] \in Urls /\ answer.body \in Bodies
    BY <1>4, WebAssumption, PagesAssumption
       DEF PutBody, PutMeta, RetrievalInv, RetrievalTypeOK
  <2> QED
    BY <1>1, <1>4, <2>1, RequestsKeepFetch DEF PutBody, PutMeta, jobVars
<1>5. CASE Age
  BY <1>1, <1>5, RequestsKeepFetch DEF Age, retrievalVars
<1> QED
  BY <1>2, <1>3, <1>4, <1>5

LEMMA IdsOfJob ==
  ASSUME FetchInv, step # "idle", NEW i \in Place
  PROVE  <<batch, i>> \in Ids
BY DEF FetchInv, Ids

LEMMA HalfWrittenFiles ==
  ASSUME FetchInv, HalfWritten \/ UNCHANGED files
  PROVE  files' \in [Ids -> Texts \cup {Garbled, None}]
BY DEF FetchInv, TypeOK, HalfWritten

\* Where the loop of _persist goes when it is done with the source in hand.
LEMMA AdvanceMoves ==
  ASSUME FetchInv, Advance
  PROVE  /\ place' \in Place
         /\ \/ step' = "save" /\ place' = place + 1
            \/ step' = "commit" /\ place' = 1 /\ place = Len(Configured)
<1>1. place \in Place
  BY DEF FetchInv, TypeOK
<1> QED
  BY <1>1, ConfiguredAssumption DEF Advance, Place

LEMMA PersistKeepsFetch ==
  ASSUME FetchInv, RetrievalTypeOK', Begin \/ Skip \/ Save \/ Insert \/ Commit \/ PersistFails
  PROVE  FetchInv'
<1> USE DEF retrievalVars, cacheVars, boundVars
<1>1. at' = at /\ place \in Place /\ (step \in Persisting => at = "off")
  BY DEF Begin, Skip, Save, Insert, Commit, PersistFails, FetchInv, TypeOK, Persisting
<1>2. CASE Begin
  <2>1. TypeOK'
    BY <1>2 DEF Begin, FetchInv, TypeOK, storeVars
  <2> QED
    BY <1>1, <1>2, <2>1, MovesKeepFetch DEF Begin, Persisting
<1>3. CASE Skip
  <2>1. TypeOK'
    BY <1>3, AdvanceMoves DEF Skip, FetchInv, TypeOK, storeVars
  <2> QED
    BY <1>1, <1>3, <2>1, AdvanceMoves, MovesKeepFetch DEF Skip, Persisting
<1>4. CASE Save
  <2>1. <<batch, place>> \in Ids /\ Text(place) \in Texts
    BY <1>1, <1>4, IdsOfJob, RowsOfPages DEF Save, Persisting
  <2>2. TypeOK'
    BY <1>4, <2>1 DEF Save, FetchInv, TypeOK
  <2> QED
    BY <1>1, <1>4, <2>2, MovesKeepFetch DEF Save, Persisting
<1>5. CASE Insert
  <2>1. <<batch, place>> \in Ids
    BY <1>1, <1>5, IdsOfJob DEF Insert
  <2>2. TypeOK'
    BY <1>5, <2>1, AdvanceMoves DEF Insert, FetchInv, TypeOK
  <2> QED
    BY <1>1, <1>5, <2>2, AdvanceMoves, MovesKeepFetch DEF Insert, Persisting
<1>6. CASE Commit
  <2>1. \A id \in tx : Row(id) \in [source : Sources, text : Texts]
    <3> SUFFICES ASSUME NEW id \in tx
                 PROVE  Row(id) \in [source : Sources, text : Texts]
      OBVIOUS
    <3>1. id[2] \in Place /\ id = <<id[1], id[2]>>
      BY DEF FetchInv, TypeOK, Ids
    <3> QED
      BY <1>6, <3>1, RowsOfPages DEF Commit, Persisting
  <2>2. rows' \in [Ids -> [source : Sources, text : Texts] \cup {None}]
    BY <1>6, <2>1 DEF Commit, FetchInv, TypeOK
  <2>3. sourceRows' \in [Sources -> Forms \cup {None}]
    BY <1>6 DEF Commit, FetchInv, TypeOK
  <2>4. TypeOK'
    BY <1>6, <2>2, <2>3 DEF Commit, FetchInv, TypeOK
  <2> QED
    BY <1>1, <1>6, <2>4, MovesKeepFetch DEF Commit, Persisting
<1>7. CASE PersistFails
  <2>1. faults' \in 0 .. MaxFaults
    BY <1>7, BatchBounds DEF PersistFails, Fault, FetchInv, TypeOK
  <2>2. TypeOK'
    BY <1>7, <2>1, HalfWrittenFiles DEF PersistFails, Fault, FetchInv, TypeOK
  <2> QED
    BY <1>1, <1>7, <2>2, MovesKeepFetch DEF PersistFails, Persisting
<1> QED
  BY <1>2, <1>3, <1>4, <1>5, <1>6, <1>7

LEMMA EndKeepsFetch ==
  ASSUME FetchInv, RetrievalTypeOK', GiveUp \/ PutFails \/ Kill \/ Undo \/ Verify
  PROVE  FetchInv'
<1>1. CASE GiveUp
  BY <1>1, EndedKeepsFetch DEF GiveUp, Leave, boundVars, FetchInv, TypeOK
<1>2. CASE PutFails
  <2>1. faults' \in 0 .. MaxFaults
    BY <1>2, BatchBounds DEF PutFails, Fault, FetchInv, TypeOK
  <2> QED
    BY <1>2, <2>1, EndedKeepsFetch DEF PutFails, Leave, Fault, FetchInv, TypeOK
<1>3. CASE Kill
  <2>1. kills' \in 0 .. MaxKills
    BY <1>3, BatchBounds DEF Kill, FetchInv, TypeOK
  <2> QED
    BY <1>3, <2>1, HalfWrittenFiles, EndedKeepsFetch DEF Kill, Leave, FetchInv, TypeOK
<1>4. CASE Undo
  <2>1. at = "off" /\ at' = "off"
    BY <1>4 DEF Undo, retrievalVars, FetchInv
  <2>2. CASE created = {}
    BY <1>4, <2>1, <2>2, EndedKeepsFetch DEF Undo, boundVars, FetchInv, TypeOK
  <2>3. CASE created # {}
    <3>1. TypeOK'
      BY <1>4, <2>3 DEF Undo, FetchInv, TypeOK, cacheVars, boundVars
    <3> QED
      BY <1>4, <2>1, <2>3, <3>1, MovesKeepFetch DEF Undo
  <2> QED
    BY <2>2, <2>3
<1>5. CASE Verify
  <2>1. at' = "off"
    BY <1>5 DEF Verify, retrievalVars, FetchInv
  <2> QED
    BY <1>5, <2>1, EndedKeepsFetch DEF Verify, boundVars, FetchInv, TypeOK
<1> QED
  BY <1>1, <1>2, <1>3, <1>4, <1>5

LEMMA FetchStep ==
  ASSUME FetchInv, RetrievalInv, [Next]_vars
  PROVE  FetchInv' /\ RetrievalInv'
<1>1. RetrievalInv' /\ RetrievalTypeOK'
  BY RequestsStep DEF FetchInv, RetrievalInv
<1>2. CASE EditRegistry
  <2>1. registry' \in [Sources -> Forms] /\ edits' \in 0 .. MaxEdits
    BY <1>2, BatchBounds DEF EditRegistry, FetchInv, TypeOK
  <2>2. TypeOK'
    BY <1>1, <1>2, <2>1 DEF EditRegistry, FetchInv, TypeOK, cacheVars, storeVars, jobVars
  <2> QED
    BY <1>1, <1>2, <2>2, MovesKeepFetch DEF EditRegistry, FetchInv, jobVars, retrievalVars
<1>3. CASE UNCHANGED vars
  <2>1. TypeOK'
    BY <1>1, <1>3 DEF vars, FetchInv, TypeOK, cacheVars, storeVars, boundVars, jobVars
  <2> QED
    BY <1>1, <1>3, <2>1, MovesKeepFetch DEF vars, FetchInv, jobVars, retrievalVars
<1> QED
  BY <1>1, <1>2, <1>3, CollectKeepsFetch, KeepKeepsFetch, CacheKeepsFetch, PersistKeepsFetch,
     EndKeepsFetch DEF Next, Work

-----------------------------------------------------------------------------
(* Files and rows *)

Uncommitted == {"fetch", "begin", "save", "insert", "commit", "undo"}
Saving == {"save", "insert", "commit"}

\* created_paths and the open transaction are those of this job, and of the sources it has passed.
MemoryInv ==
  /\ created \subseteq {batch} \X Place
  /\ step \in {"idle", "fetch", "begin"} => created = {} /\ tx = {}
  /\ step \in {"save", "commit"} => created = tx
  /\ step = "insert" => created = tx \cup {<<batch, place>>}
  /\ step \in {"save", "insert"} => \A id \in tx : id[2] < place
  /\ step \in Uncommitted => \A i \in Place : rows[<<batch, i>>] = None
  /\ step = "verify" => \A id \in created : rows[id] # None

\* What is about to be committed has its file, and no row says the same of the same source.
SavedInv ==
  step \in Saving =>
    \A id \in created : files[id] = Text(id[2]) /\ \A x \in Ids : rows[x] # Row(id)

RowInv ==
  /\ \A id \in Ids : rows[id] # None => id[1] <= batch
  /\ RowsHaveFiles
  /\ TextsAreDistinct
  /\ kills = 0 =>
       \A id \in Ids : files[id] \notin {None, Garbled} => rows[id] # None \/ id \in created

Covered(i) ==
  \/ \E x \in Ids : rows[x] = Row(<<batch, i>>)
  \/ \E x \in tx : Row(x) = Row(<<batch, i>>)

\* The page of every source passed is in the table or in the transaction.
CoverInv ==
  /\ step \in {"save", "insert"} => \A i \in Place : i < place => Covered(i)
  /\ step = "commit" => \A i \in Place : Covered(i)

StoreInv == MemoryInv /\ SavedInv /\ RowInv /\ CoverInv

\* Steps of the retriever, the web, the clock and the operator.
LEMMA StoreUnchanged ==
  ASSUME StoreInv, UNCHANGED <<batch, step, place, fetched, storeVars, kills>>
  PROVE  StoreInv'
<1> USE DEF storeVars
<1>1. MemoryInv' /\ RowInv'
  BY DEF StoreInv, MemoryInv, RowInv, RowsHaveFiles, TextsAreDistinct
<1>2. \A i : Text(i)' = Text(i) /\ Row(i)' = Row(i)
  BY DEF Row, Text
<1>3. SavedInv'
  BY <1>2 DEF StoreInv, SavedInv
<1>4. \A i : Covered(i)' <=> Covered(i)
  BY <1>2 DEF Covered
<1>5. CoverInv'
  BY <1>4 DEF StoreInv, CoverInv
<1> QED
  BY <1>1, <1>3, <1>5 DEF StoreInv

\* Until the transaction begins there is nothing to remember.
LEMMA NothingStored ==
  ASSUME StoreInv, UNCHANGED <<batch, storeVars, kills>>,
         step = "fetch", step' \in {"fetch", "begin"}
  PROVE  StoreInv'
<1>1. MemoryInv'
  BY DEF StoreInv, MemoryInv, storeVars, Uncommitted
<1>2. SavedInv' /\ CoverInv'
  BY DEF SavedInv, CoverInv, Saving
<1>3. RowInv'
  BY DEF StoreInv, RowInv, storeVars, RowsHaveFiles, TextsAreDistinct
<1> QED
  BY <1>1, <1>2, <1>3 DEF StoreInv

\* A job ends: by a kill, or with no file of its own, or with a row for each.
LEMMA EndedKeepsStore ==
  ASSUME FetchInv, StoreInv, NEW how, Ended(how), UNCHANGED <<batch, rows>>,
         HalfWritten \/ UNCHANGED files,
         \/ kills' # 0
         \/ UNCHANGED <<files, kills>> /\ (created = {} \/ step = "verify")
  PROVE  StoreInv'
<1>1. MemoryInv'
  BY DEF MemoryInv, Ended, Uncommitted
<1>2. SavedInv' /\ CoverInv'
  BY DEF SavedInv, CoverInv, Saving, Ended
<1>3. RowsHaveFiles' /\ TextsAreDistinct'
  <2>1. CASE UNCHANGED files
    BY <2>1 DEF StoreInv, RowInv, RowsHaveFiles, TextsAreDistinct
  <2>2. CASE HalfWritten
    <3>1. place \in Place /\ rows[<<batch, place>>] = None
          /\ files \in [Ids -> Texts \cup {Garbled, None}]
      BY <2>2 DEF HalfWritten, StoreInv, MemoryInv, Uncommitted, FetchInv, TypeOK
    <3> QED
      BY <2>2, <3>1 DEF HalfWritten, StoreInv, RowInv, RowsHaveFiles, TextsAreDistinct
  <2> QED
    BY <2>1, <2>2
<1>4. kills' = 0 => \A id \in Ids : files'[id] \notin {None, Garbled} => rows'[id] # None
  <2> SUFFICES ASSUME UNCHANGED <<files, kills>>, created = {} \/ step = "verify", kills = 0,
                      NEW id \in Ids, files[id] \notin {None, Garbled}
               PROVE  rows[id] # None
    OBVIOUS
  <2> QED
    BY DEF StoreInv, RowInv, MemoryInv
<1>5. RowInv'
  BY <1>3, <1>4 DEF StoreInv, RowInv
<1> QED
  BY <1>1, <1>2, <1>5 DEF StoreInv

LEMMA CollectKeepsStore ==
  ASSUME FetchInv, StoreInv, Collect
  PROVE  StoreInv'
<1> USE DEF Collect, storeVars, boundVars
<1>1. batch \in Nat /\ batch' = batch + 1
  BY BatchBounds DEF FetchInv, TypeOK
<1>2. created' = {} /\ tx' = {} /\ step' \in {"idle", "fetch"}
  BY DEF StoreInv, MemoryInv
<1>3. \A id \in Ids : rows[id] # None => id[1] <= batch
  BY DEF StoreInv, RowInv
<1>4. \A i \in Place : rows'[<<batch', i>>] = None
  <2> SUFFICES ASSUME NEW i \in Place, rows[<<batch + 1, i>>] # None
               PROVE  FALSE
    BY <1>1
  <2>1. batch + 1 \in Batch
    BY <1>1, BatchBounds DEF Batch
  <2>2. <<batch + 1, i>> \in Ids
    BY <2>1 DEF Ids
  <2> QED
    BY <1>1, <1>3, <2>2
<1>5. MemoryInv'
  BY <1>2, <1>4 DEF MemoryInv
<1>6. SavedInv' /\ CoverInv'
  BY <1>2 DEF SavedInv, CoverInv, Saving
<1>7. \A id \in Ids : rows[id] # None => id[1] <= batch + 1
  BY <1>1, <1>3 DEF Ids, Batch
<1>8. RowInv'
  BY <1>1, <1>7 DEF StoreInv, RowInv, RowsHaveFiles, TextsAreDistinct
<1> QED
  BY <1>5, <1>6, <1>8 DEF StoreInv

\* Pages in hand that stay as they are give the same rows.
LEMMA SameRows ==
  ASSUME UNCHANGED fetched
  PROVE  \A i : Text(i)' = Text(i) /\ Row(i)' = Row(i)
BY DEF Row, Text

\* The loop of _persist moves on from a source whose page is covered.
LEMMA AdvanceCovers ==
  ASSUME FetchInv, StoreInv, Advance, step \in {"save", "insert"},
         UNCHANGED <<batch, fetched, rows>>,
         tx \subseteq tx', \A k \in Place : k = place => Covered(k)'
  PROVE  CoverInv'
<1>1. place \in Place
  BY DEF FetchInv, TypeOK
<1>2. \A i \in Place : i < place => Covered(i)'
  BY SameRows DEF StoreInv, CoverInv, Covered
<1>3. \A i \in Place : i <= place => Covered(i)'
  <2> SUFFICES ASSUME NEW i \in Place, i <= place
               PROVE  Covered(i)'
    OBVIOUS
  <2>1. i \in Nat /\ place \in Nat
    BY <1>1, Places
  <2>2. i < place \/ i = place
    BY <2>1
  <2> QED
    BY <1>2, <2>2
<1>4. CASE step' = "save" /\ place' = place + 1
  BY <1>1, <1>3, <1>4, Places DEF CoverInv
<1>5. CASE step' = "commit" /\ place = Len(Configured)
  BY <1>3, <1>5, ConfiguredAssumption DEF CoverInv, Place
<1> QED
  BY <1>4, <1>5, AdvanceMoves

LEMMA BeginKeepsStore ==
  ASSUME FetchInv, StoreInv, Begin
  PROVE  StoreInv'
<1> USE DEF Begin, storeVars, boundVars
<1>1. created = {} /\ tx = {} /\ place = 1
  BY DEF StoreInv, MemoryInv, FetchInv
<1>2. MemoryInv'
  BY <1>1 DEF StoreInv, MemoryInv, Uncommitted
<1>3. SavedInv' /\ CoverInv'
  <2>1. step' = "save" /\ created' = {} /\ place' = 1
    BY <1>1
  <2>2. \A i \in Place : ~(i < 1)
    BY Places
  <2> QED
    BY <2>1, <2>2 DEF SavedInv, CoverInv
<1>4. RowInv'
  BY DEF StoreInv, RowInv, RowsHaveFiles, TextsAreDistinct
<1> QED
  BY <1>2, <1>3, <1>4 DEF StoreInv

LEMMA SkipKeepsStore ==
  ASSUME FetchInv, StoreInv, Skip
  PROVE  StoreInv'
<1> USE DEF Skip, storeVars, boundVars
<1>1. place \in Nat /\ created = tx
  BY Places DEF StoreInv, MemoryInv, FetchInv, TypeOK
<1>2. tx \subseteq {batch} \X Place
  BY <1>1 DEF StoreInv, MemoryInv
<1>3. \A id \in tx : id[2] < place + 1
  <2> SUFFICES ASSUME NEW id \in tx
               PROVE  id[2] < place + 1
    OBVIOUS
  <2>1. id[2] \in Nat
    BY <1>2, Places
  <2>2. id[2] < place
    BY DEF StoreInv, MemoryInv
  <2> QED
    BY <1>1, <2>1, <2>2
<1>4. MemoryInv'
  BY <1>1, <1>3, AdvanceMoves DEF StoreInv, MemoryInv, Uncommitted
<1>5. SavedInv'
  BY SameRows, AdvanceMoves DEF StoreInv, SavedInv, Saving
<1>6. RowInv'
  BY DEF StoreInv, RowInv, RowsHaveFiles, TextsAreDistinct
<1>7. ASSUME NEW k \in Place, k = place
      PROVE  Covered(k)'
  <2>1. (\E x \in Ids : rows[x] = Row(<<batch, k>>)) \/ \E x \in tx : Row(x) = Row(<<batch, k>>)
    BY <1>7 DEF Duplicate
  <2> QED
    BY <2>1, SameRows DEF Covered
<1> QED
  BY <1>4, <1>5, <1>6, <1>7, AdvanceCovers DEF StoreInv

LEMMA SaveKeepsStore ==
  ASSUME FetchInv, StoreInv, Save
  PROVE  StoreInv'
<1> DEFINE cur == <<batch, place>>
<1> USE DEF Save, boundVars
<1>1. place \in Place /\ cur \in Ids /\ files \in [Ids -> Texts \cup {Garbled, None}]
      /\ tx \subseteq Ids /\ created = tx /\ tx \subseteq {batch} \X Place
  BY IdsOfJob DEF StoreInv, MemoryInv, FetchInv, TypeOK
<1>2. \A id \in tx : id[2] < place
  BY DEF StoreInv, MemoryInv
<1>3. cur \notin tx
  BY <1>1, <1>2, Places
<1>4. MemoryInv'
  BY <1>1, <1>2 DEF StoreInv, MemoryInv, Uncommitted
<1>5. rows[cur] = None
  BY <1>1 DEF StoreInv, MemoryInv, Uncommitted
<1>6. \A x \in Ids : rows[x] # Row(cur)
  BY DEF Duplicate
<1>7. SavedInv'
  <2> SUFFICES ASSUME NEW id \in created'
               PROVE  files'[id] = Text(id[2]) /\ \A x \in Ids : rows[x] # Row(id)
    BY SameRows DEF SavedInv
  <2>1. CASE id = cur
    BY <1>1, <1>6, <2>1
  <2>2. CASE id \in tx
    BY <1>1, <1>3, <2>2 DEF StoreInv, SavedInv, Saving
  <2> QED
    BY <1>1, <2>1, <2>2
<1>8. RowsHaveFiles'
  BY <1>1, <1>5 DEF StoreInv, RowInv, RowsHaveFiles
<1>9. \A id \in Ids : files'[id] \notin {None, Garbled} =>
                        \/ files[id] \notin {None, Garbled}
                        \/ id \in created'
  BY <1>1
<1>10. RowInv'
  BY <1>8, <1>9 DEF StoreInv, RowInv, TextsAreDistinct
<1>11. \A i : Covered(i) => Covered(i)'
  BY SameRows DEF Covered
<1>12. CoverInv'
  BY <1>11 DEF StoreInv, CoverInv
<1> QED
  BY <1>4, <1>7, <1>10, <1>12 DEF StoreInv

LEMMA InsertKeepsStore ==
  ASSUME FetchInv, StoreInv, Insert
  PROVE  StoreInv'
<1> DEFINE cur == <<batch, place>>
<1> USE DEF Insert, boundVars
<1>1. place \in Place /\ place \in Nat /\ cur \in Ids /\ created = tx \cup {cur}
      /\ tx \subseteq {batch} \X Place /\ tx' = created
  BY IdsOfJob, Places DEF StoreInv, MemoryInv, FetchInv, TypeOK
<1>2. \A id \in tx' : id[2] < place + 1
  <2> SUFFICES ASSUME NEW id \in tx \cup {cur}
               PROVE  id[2] < place + 1
    BY <1>1
  <2>1. CASE id = cur
    BY <1>1, <2>1
  <2>2. CASE id \in tx
    <3>1. id[2] \in Nat
      BY <1>1, <2>2, Places
    <3>2. id[2] < place
      BY <2>2 DEF StoreInv, MemoryInv
    <3> QED
      BY <1>1, <3>1, <3>2
  <2> QED
    BY <2>1, <2>2
<1>3. MemoryInv'
  BY <1>1, <1>2, AdvanceMoves DEF StoreInv, MemoryInv, Uncommitted
<1>4. SavedInv'
  BY SameRows, AdvanceMoves DEF StoreInv, SavedInv, Saving
<1>5. RowInv'
  BY DEF StoreInv, RowInv, RowsHaveFiles, TextsAreDistinct
<1>6. ASSUME NEW k \in Place, k = place
      PROVE  Covered(k)'
  <2>1. <<batch, k>> \in tx' /\ batch' = batch
    BY <1>1, <1>6
  <2> QED
    BY <2>1 DEF Covered
<1> QED
  BY <1>1, <1>3, <1>4, <1>5, <1>6, AdvanceCovers DEF StoreInv

\* The rows of a commit are those of the transaction, each of a source of its own and with a
\* text its source did not have.
LEMMA CommitKeepsStore ==
  ASSUME FetchInv, StoreInv, Commit
  PROVE  StoreInv'
<1> USE DEF Commit, boundVars
<1>1. /\ created = tx /\ tx \subseteq Ids /\ tx \subseteq {batch} \X Place
      /\ \A id \in created : files[id] = Text(id[2]) /\ \A x \in Ids : rows[x] # Row(id)
  BY DEF StoreInv, MemoryInv, SavedInv, Saving, FetchInv, TypeOK
<1>2. \A id \in tx : id[1] = batch /\ id[2] \in Place /\ id = <<batch, id[2]>>
  BY <1>1
<1>3. \A id \in tx : rows'[id] = Row(id) /\ rows'[id] # None
  <2> SUFFICES ASSUME NEW id \in tx
               PROVE  rows'[id] = Row(id) /\ Row(id) # None
    OBVIOUS
  <2>1. Row(<<batch, id[2]>>) \in [source : Sources, text : Texts]
    BY <1>2, RowsOfPages DEF Persisting
  <2> QED
    BY <1>1, <1>2, <2>1, PagesAssumption
<1>4. \A id \in Ids \ tx : rows'[id] = rows[id]
  OBVIOUS
<1>5. MemoryInv'
  BY <1>1, <1>3 DEF StoreInv, MemoryInv, Uncommitted
<1>6. SavedInv' /\ CoverInv'
  BY DEF SavedInv, CoverInv, Saving
<1>7. \A id \in Ids : rows'[id] # None => id[1] <= batch'
  <2> SUFFICES ASSUME NEW id \in Ids, rows'[id] # None
               PROVE  id[1] <= batch
    OBVIOUS
  <2>1. CASE id \in tx
    BY <1>2, <2>1 DEF FetchInv, TypeOK
  <2>2. CASE id \notin tx
    BY <1>4, <2>2 DEF StoreInv, RowInv
  <2> QED
    BY <2>1, <2>2
<1>8. RowsHaveFiles'
  <2> SUFFICES ASSUME NEW id \in Ids, rows'[id] # None
               PROVE  files[id] = rows'[id].text
    BY DEF RowsHaveFiles
  <2>1. CASE id \in tx
    BY <1>1, <1>3, <2>1 DEF Row
  <2>2. CASE id \notin tx
    BY <1>4, <2>2 DEF StoreInv, RowInv, RowsHaveFiles
  <2> QED
    BY <2>1, <2>2
<1>9. TextsAreDistinct'
  <2> SUFFICES ASSUME NEW i \in Ids, NEW j \in Ids, rows'[i] # None, rows'[i] = rows'[j]
               PROVE  i = j
    BY DEF TextsAreDistinct
  <2>1. CASE i \in tx /\ j \in tx
    <3>1. Configured[i[2]] = Configured[j[2]]
      BY <1>3, <2>1 DEF Row
    <3> QED
      BY <1>2, <2>1, <3>1, Places
  <2>2. CASE i \in tx /\ j \notin tx
    BY <1>1, <1>3, <1>4, <2>2
  <2>3. CASE i \notin tx /\ j \in tx
    BY <1>1, <1>3, <1>4, <2>3
  <2>4. CASE i \notin tx /\ j \notin tx
    BY <1>4, <2>4 DEF StoreInv, RowInv, TextsAreDistinct
  <2> QED
    BY <2>1, <2>2, <2>3, <2>4
<1>10. kills = 0 =>
         \A id \in Ids : files[id] \notin {None, Garbled} => rows'[id] # None \/ id \in created
  BY <1>3, <1>4 DEF StoreInv, RowInv
<1>11. RowInv'
  BY <1>7, <1>8, <1>9, <1>10 DEF RowInv
<1> QED
  BY <1>5, <1>6, <1>11 DEF StoreInv

LEMMA PersistFailsKeepsStore ==
  ASSUME FetchInv, StoreInv, PersistFails
  PROVE  StoreInv'
<1> USE DEF PersistFails, Fault
<1>1. MemoryInv'
  BY DEF StoreInv, MemoryInv, Uncommitted
<1>2. SavedInv' /\ CoverInv'
  BY DEF SavedInv, CoverInv, Saving
<1>3. RowsHaveFiles'
      /\ \A id \in Ids : files'[id] \notin {None, Garbled} => files[id] \notin {None, Garbled}
  <2>1. CASE UNCHANGED files
    BY <2>1 DEF StoreInv, RowInv, RowsHaveFiles
  <2>2. CASE HalfWritten
    <3>1. place \in Place /\ rows[<<batch, place>>] = None
          /\ files \in [Ids -> Texts \cup {Garbled, None}]
      BY <2>2 DEF HalfWritten, StoreInv, MemoryInv, Uncommitted, FetchInv, TypeOK
    <3>2. \A id \in Ids : files'[id] = Garbled \/ files'[id] = files[id]
      BY <2>2, <3>1 DEF HalfWritten
    <3>3. RowsHaveFiles'
      BY <2>2, <3>1 DEF HalfWritten, StoreInv, RowInv, RowsHaveFiles
    <3> QED
      BY <3>2, <3>3
  <2> QED
    BY <2>1, <2>2
<1>4. RowInv'
  BY <1>3 DEF StoreInv, RowInv, TextsAreDistinct
<1> QED
  BY <1>1, <1>2, <1>4 DEF StoreInv

LEMMA UndoKeepsStore ==
  ASSUME FetchInv, StoreInv, Undo
  PROVE  StoreInv'
<1> USE DEF Undo, boundVars
<1>1. CASE created = {}
  BY <1>1, EndedKeepsStore
<1>2. ASSUME NEW id \in created,
             files' = [files EXCEPT ![id] = None], created' = created \ {id},
             UNCHANGED <<step, place, fetched, tx, batch, rows, kills>>
      PROVE  StoreInv'
  <2>1. id \in Ids /\ rows[id] = None /\ files \in [Ids -> Texts \cup {Garbled, None}]
    BY <1>2 DEF StoreInv, MemoryInv, Uncommitted, FetchInv, TypeOK
  <2>2. MemoryInv'
    BY <1>2 DEF StoreInv, MemoryInv, Uncommitted
  <2>3. SavedInv' /\ CoverInv'
    BY <1>2 DEF SavedInv, CoverInv, Saving
  <2>4. RowsHaveFiles'
    BY <1>2, <2>1 DEF StoreInv, RowInv, RowsHaveFiles
  <2>5. \A x \in Ids : files'[x] \notin {None, Garbled} => files[x] \notin {None, Garbled} /\ x # id
    BY <1>2, <2>1
  <2>6. RowInv'
    BY <1>2, <2>4, <2>5 DEF StoreInv, RowInv, TextsAreDistinct
  <2> QED
    BY <2>2, <2>3, <2>6 DEF StoreInv
<1>3. CASE created # {}
  BY <1>2, <1>3
<1> QED
  BY <1>1, <1>3

LEMMA StoreStep ==
  ASSUME FetchInv, StoreInv, [Next]_vars
  PROVE  StoreInv'
<1>1. CASE Fetch \/ Web \/ Lookup \/ PutBody \/ PutMeta \/ Age \/ EditRegistry
  BY <1>1, StoreUnchanged DEF Fetch, Web, Lookup, PutBody, PutMeta, Age, EditRegistry, jobVars,
     boundVars
<1>2. CASE UNCHANGED vars
  BY <1>2, StoreUnchanged DEF vars, jobVars, boundVars
<1>3. CASE Keep
  <2>1. step = "fetch" /\ step' \in {"fetch", "begin"}
    BY <1>3 DEF Keep, FetchInv
  <2> QED
    BY <1>3, <2>1, NothingStored DEF Keep, boundVars
<1>4. CASE GiveUp
  <2>1. created = {}
    BY <1>4 DEF GiveUp, FetchInv, StoreInv, MemoryInv
  <2> QED
    BY <1>4, <2>1, EndedKeepsStore DEF GiveUp, boundVars
<1>5. CASE PutFails
  <2>1. created = {}
    BY <1>5 DEF PutFails, FetchInv, StoreInv, MemoryInv
  <2> QED
    BY <1>5, <2>1, EndedKeepsStore DEF PutFails, Fault
<1>6. CASE Kill
  <2>1. kills' # 0
    BY <1>6 DEF Kill, FetchInv, TypeOK
  <2> QED
    BY <1>6, <2>1, EndedKeepsStore DEF Kill
<1>7. CASE Verify
  BY <1>7, EndedKeepsStore DEF Verify, boundVars
<1> QED
  BY <1>1, <1>2, <1>3, <1>4, <1>5, <1>6, <1>7, CollectKeepsStore, BeginKeepsStore, SkipKeepsStore,
     SaveKeepsStore, InsertKeepsStore, CommitKeepsStore, PersistFailsKeepsStore, UndoKeepsStore
     DEF Next, Work

-----------------------------------------------------------------------------
(* Theorems *)

LEMMA CollectionStarts ==
  ASSUME Init
  PROVE  RetrievalInv /\ FetchInv /\ StoreInv
<1> USE DEF Init, RetrievalInit
<1>1. Home[source] \in Urls
  BY WebAssumption
<1>2. FirstRequest(Home[source]) \in Request /\ Cost(FirstRequest(Home[source])) = 0
      /\ FirstRequest(Home[source]).to = Home[source]
  BY <1>1, FirstRequests DEF FirstRequest
<1>3. 0 <= Most
  BY <1>2, Costs
<1>4. RetrievalTypeOK
  BY <1>2 DEF RetrievalTypeOK
<1>5. RetrievalInv
  BY <1>2, <1>3, <1>4 DEF RetrievalInv
<1>6. /\ registry \in [Sources -> Forms] /\ used \in [Sources -> Forms \cup {None}]
      /\ sourceRows \in [Sources -> Forms \cup {None}]
  BY PagesAssumption DEF NoRegistry
<1>7. /\ batch \in 0 .. MaxBatches /\ edits \in 0 .. MaxEdits /\ faults \in 0 .. MaxFaults
      /\ kills \in 0 .. MaxKills
  BY BatchBounds
<1>8. /\ bodyFile \in [Urls -> Bodies \cup {None}] /\ metaFile \in [Urls -> Responses \cup {None}]
      /\ files \in [Ids -> Texts \cup {Garbled, None}]
      /\ rows \in [Ids -> [source : Sources, text : Texts] \cup {None}]
  OBVIOUS
<1>9. TypeOK
  BY <1>4, <1>6, <1>7, <1>8, Places DEF TypeOK
<1>10. FetchInv
  BY <1>9 DEF FetchInv, Persisting
<1>11. MemoryInv /\ SavedInv /\ CoverInv
  BY DEF MemoryInv, SavedInv, CoverInv, Uncommitted, Saving
<1>12. RowInv
  BY <1>8 DEF RowInv, RowsHaveFiles, TextsAreDistinct
<1> QED
  BY <1>5, <1>10, <1>11, <1>12 DEF StoreInv

CollectionInv == RetrievalInv /\ FetchInv /\ StoreInv

LEMMA Inductive == Spec => []CollectionInv
<1>1. Init => CollectionInv
  BY CollectionStarts DEF CollectionInv
<1>2. CollectionInv /\ [Next]_vars => CollectionInv'
  BY FetchStep, StoreStep DEF CollectionInv
<1> QED
  BY <1>1, <1>2, PTL DEF Spec

\* Every state of a collection job is well typed.
THEOREM CollectionTypes == Spec => []TypeOK
<1>1. CollectionInv => TypeOK
  BY DEF CollectionInv, FetchInv
<1> QED
  BY <1>1, Inductive, PTL

\* _validate_hop and _fetch: no redirect or retry leads to an address that is not allowed.
THEOREM OnlyAllowedRequests == Spec => []RequestsAreAllowed
<1>1. CollectionInv => RequestsAreAllowed
  BY DEF CollectionInv, RetrievalInv, RequestsAreAllowed
<1> QED
  BY <1>1, Inductive, PTL

\* The nested loops of _request and _fetch: a bound on what one source is asked.
THEOREM BoundedRequests == Spec => []RequestsAreBounded
<1>1. ASSUME CollectionInv
      PROVE  RequestsAreBounded
  <2>1. sent <= Most /\ hop \in Request /\ ask \in Request /\ asked \in Nat
    BY <1>1 DEF CollectionInv, RetrievalInv, RetrievalTypeOK
  <2>2. Cost(ask) \in Nat /\ Most \in Nat /\ Cost(ask) < Most
    BY <2>1, Costs
  <2>3. asked <= Cost(ask) \/ asked = 0
    BY <1>1 DEF CollectionInv, RetrievalInv
  <2>4. asked < Most
    BY <2>1, <2>2, <2>3
  <2> QED
    BY <2>1, <2>4 DEF RequestsAreBounded, Most
<1> QED
  BY <1>1, Inductive, PTL

\* _persist writes the file before the row commits and removes only what was not committed.
THEOREM RowsAreBacked == Spec => []RowsHaveFiles
<1>1. CollectionInv => RowsHaveFiles
  BY DEF CollectionInv, StoreInv, RowInv
<1> QED
  BY <1>1, Inductive, PTL

\* created_paths: without a kill, a batch that fails leaves no whole file behind.
THEOREM FailuresAreCleaned == Spec => []OnlyAccidentsLeaveFiles
<1>1. CollectionInv => OnlyAccidentsLeaveFiles
  BY DEF CollectionInv, StoreInv, RowInv, MemoryInv, OnlyAccidentsLeaveFiles
<1> QED
  BY <1>1, Inductive, PTL

\* The duplicate check: a source has one snapshot of a text.
THEOREM NoTextTwice == Spec => []TextsAreDistinct
<1>1. CollectionInv => TextsAreDistinct
  BY DEF CollectionInv, StoreInv, RowInv
<1> QED
  BY <1>1, Inductive, PTL

\* PersistentRetrievalCache.get: a torn entry is a miss.
THEOREM CacheIsHonest == Spec => []CacheGivesWhatWasSent
<1>1. CollectionInv => CacheGivesWhatWasSent
  BY HitsWereSent DEF CollectionInv, FetchInv, CacheGivesWhatWasSent
<1> QED
  BY <1>1, Inductive, PTL

\* One transaction: the table of snapshots takes a whole batch or nothing of it.
THEOREM BatchesAreAtomic == Spec => BatchIsAtomic
<1> DEFINE Whole ==
      rows' # rows =>
        \A i \in Place :
          /\ \E id \in Ids : rows'[id] = [source |-> Configured[i], text |-> Text(i)]
          /\ sourceRows'[Configured[i]] = used[Configured[i]]
          /\ used[Configured[i]] \in Approved
<1>1. ASSUME CollectionInv, [Next]_vars
      PROVE  [Whole]_vars
  <2>1. CASE ~Commit
    <3>1. rows' = rows
      BY <1>1, <2>1 DEF Next, Work, Collect, Fetch, Web, Lookup, PutBody, PutMeta, Keep, GiveUp,
         Begin, Skip, Save, Insert, Undo, Verify, PutFails, PersistFails, Kill, Age,
         EditRegistry, storeVars, vars
    <3> QED
      BY <3>1
  <2>2. CASE Commit
    <3> SUFFICES ASSUME NEW i \in Place
                 PROVE  /\ \E id \in Ids : rows'[id] = [source |-> Configured[i], text |-> Text(i)]
                        /\ sourceRows'[Configured[i]] = used[Configured[i]]
                        /\ used[Configured[i]] \in Approved
      OBVIOUS
    <3>1. Covered(i) /\ created = tx /\ tx \subseteq Ids /\ (\A id \in tx : rows[id] = None)
      <4>1. step = "commit" /\ tx \subseteq {batch} \X Place
        BY <1>1, <2>2 DEF Commit, CollectionInv, StoreInv, MemoryInv
      <4>2. \A id \in tx : id = <<batch, id[2]>> /\ id[2] \in Place
        BY <4>1
      <4> QED
        BY <1>1, <4>1, <4>2 DEF CollectionInv, StoreInv, MemoryInv, CoverInv, Uncommitted,
           FetchInv, TypeOK
    <3>2. Row(<<batch, i>>) = [source |-> Configured[i], text |-> Text(i)]
          /\ Row(<<batch, i>>) # None
      BY <1>1, <2>2, RowsOfPages, PagesAssumption DEF Commit, CollectionInv, Persisting
    <3>3. \E id \in Ids : rows'[id] = Row(<<batch, i>>)
      <4>1. ASSUME NEW x \in Ids, rows[x] = Row(<<batch, i>>)
            PROVE  rows'[x] = Row(<<batch, i>>)
        BY <2>2, <3>1, <3>2, <4>1 DEF Commit
      <4>2. ASSUME NEW x \in tx, Row(x) = Row(<<batch, i>>)
            PROVE  rows'[x] = Row(<<batch, i>>)
        BY <2>2, <3>1, <4>2 DEF Commit
      <4> QED
        BY <3>1, <4>1, <4>2 DEF Covered
    <3>4. sourceRows'[Configured[i]] = used[Configured[i]]
      BY <2>2, Places DEF Commit
    <3>5. used[Configured[i]] \in Approved
      BY <1>1, <2>2 DEF Commit, CollectionInv, FetchInv
    <3> QED
      BY <3>2, <3>3, <3>4, <3>5
  <2> QED
    BY <2>1, <2>2
<1> QED
  BY <1>1, Inductive, PTL DEF Spec, BatchIsAtomic
=============================================================================
