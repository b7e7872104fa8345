---------------------------- MODULE SearchRoutes ----------------------------
(***************************************************************************)
(* search_web of web_search.py: a search asks its providers route by route *)
(* (an official resolver for an exact claim, up to three waves of          *)
(* concurrent providers, DuckDuckGo's two pages) until it has enough or    *)
(* its request budget is spent.  The circuit breakers are shared by every  *)
(* search of the process: a turn's and idle maintenance's run at once.     *)
(***************************************************************************)
EXTENDS Naturals, Sequences, FiniteSets

CONSTANTS
  Searchers,      \* the threads that search
  Providers,      \* the providers, one function of web_search.py each
  DuckDuckGo,     \* the providers that are pages of DuckDuckGo
  Routes,         \* the routes in order, each a sequence of providers; the first is the official one
  RequestBudget,  \* request_budget
  MaxSearches     \* searches of one thread (bounds TLC)

ASSUME SearchAssumption ==
  /\ DuckDuckGo \subseteq Providers /\ "duckduckgo" \notin Providers
  /\ Routes \in Seq(Seq(Providers)) /\ Len(Routes) > 0
  /\ RequestBudget \in Nat /\ MaxSearches \in Nat

VARIABLES
  cooling,   \* the breakers whose cooldown_until lies ahead
  search,    \* the search each thread is in
  searches,  \* how many searches each thread has begun
  restings   \* of each thread's search: the providers that failed it and that nobody has
             \* reached since, and whose cooldown has not passed

searchVars == <<cooling, search, searches, restings>>

\* at: the route, 0 between searches; launched: its requests were made; flying: those without an
\* answer; found: 0 no accepted result, 1 some, 2 max_results of them.
Idle == [at |-> 0, launched |-> FALSE, used |-> 0, flying |-> {}, found |-> 0]

Searches ==
  [at : 0..Len(Routes) + 1, launched : BOOLEAN, used : 0..RequestBudget,
   flying : SUBSET Providers, found : 0..2]

SearchInit ==
  /\ cooling = {}
  /\ search = [s \in Searchers |-> Idle]
  /\ searches = [s \in Searchers |-> 0]
  /\ restings = [s \in Searchers |-> {}]

\* Mutant: a breaker of its own for every route.
ProviderKey_OfEachRoute(p) == p

\* The breaker of a provider: DuckDuckGo's routes share one.
ProviderKey(p) == IF p \in DuckDuckGo THEN "duckduckgo" ELSE p

ProviderReady(p) == ProviderKey(p) \notin cooling

\* Mutant: every wave has the whole budget.
Slots_Whole(s) == RequestBudget

\* What is left of the budget.
Slots(s) == RequestBudget - search[s].used

\* The places of a route whose providers are ready, and the first n of them.
ReadyPlaces(route) == {i \in 1..Len(route) : ProviderReady(route[i])}
FirstPlaces(places, n) == {i \in places : Cardinality(places \cap 1..i) <= n}

Selected(s) ==
  LET route == Routes[search[s].at]
  IN  {route[i] : i \in FirstPlaces(ReadyPlaces(route), Slots(s))}

\* Only an exact claim about Python has an official resolver.
Begin(s, exact) ==
  /\ search[s] = Idle /\ searches[s] < MaxSearches
  /\ search' = [search EXCEPT ![s].at = IF exact THEN 1 ELSE 2]
  /\ searches' = [searches EXCEPT ![s] = @ + 1]
  /\ restings' = [restings EXCEPT ![s] = {}]
  /\ UNCHANGED cooling

RunWave(s) ==
  /\ search[s].at \in 1..Len(Routes) /\ ~search[s].launched
  /\ search' = [search EXCEPT ![s].launched = TRUE, ![s].flying = Selected(s),
                              ![s].used = @ + Cardinality(Selected(s))]
  /\ UNCHANGED <<cooling, searches, restings>>

SameService(p, q) == p = q \/ {p, q} \subseteq DuckDuckGo

\* What the answer of one more provider can leave of relevant results, without duplicates:
\* none, some, or as many as are wanted; never fewer than before.
Ranked(s) == search[s].found..2

\* A provider answers: its breaker is closed, and the results that are relevant join the others.
ProviderSucceeded(s, p, found) ==
  /\ p \in search[s].flying /\ found \in Ranked(s)
  /\ cooling' = cooling \ {ProviderKey(p)}
  /\ search' = [search EXCEPT ![s].flying = @ \ {p}, ![s].found = found]
  /\ restings' = [t \in Searchers |-> {q \in restings[t] : ~SameService(p, q)}]
  /\ UNCHANGED searches

ProviderFailed(s, p) ==
  /\ p \in search[s].flying
  /\ cooling' = cooling \cup {ProviderKey(p)}
  /\ search' = [search EXCEPT ![s].flying = @ \ {p}]
  /\ restings' = [restings EXCEPT ![s] = @ \cup {p}]
  /\ UNCHANGED searches

\* A search returns as soon as it has enough; one official result is enough.
Satisfied(s) == search[s].found = 2 \/ (search[s].at = 1 /\ search[s].found > 0)

EndWave(s) ==
  /\ search[s].launched /\ search[s].flying = {}
  /\ search' = IF Satisfied(s) THEN [search EXCEPT ![s] = Idle]
               ELSE [search EXCEPT ![s].at = @ + 1, ![s].launched = FALSE]
  /\ UNCHANGED <<cooling, searches, restings>>

\* Every route was tried: what was found is returned, or that nothing was.
ReturnWhatThereIs(s) ==
  /\ search[s].at = Len(Routes) + 1
  /\ search' = [search EXCEPT ![s] = Idle]
  /\ UNCHANGED <<cooling, searches, restings>>

\* The cooldown of a breaker passes.
CooldownPasses(k) ==
  /\ k \in cooling
  /\ cooling' = cooling \ {k}
  /\ restings' = [t \in Searchers |-> {q \in restings[t] : ProviderKey(q) # k}]
  /\ UNCHANGED <<search, searches>>

SearchStep(s) ==
  \/ \E exact \in BOOLEAN : Begin(s, exact)
  \/ RunWave(s)
  \/ \E p \in Providers, found \in 0..2 : ProviderSucceeded(s, p, found)
  \/ \E p \in Providers : ProviderFailed(s, p)
  \/ EndWave(s)
  \/ ReturnWhatThereIs(s)

SearchNext ==
  \/ \E s \in Searchers : SearchStep(s)
  \/ \E k \in cooling : CooldownPasses(k)

SearchSpec == SearchInit /\ [][SearchNext]_searchVars

(***************************************************************************)
(* Properties                                                              *)
(***************************************************************************)
\* The state of every search is well typed; in particular no search makes more requests than
\* request_budget allows, however many providers its waves hold (web_search.py:919, 934-936).
SearchTypeOK ==
  /\ cooling \subseteq {ProviderKey(p) : p \in Providers}
  /\ search \in [Searchers -> Searches]
  /\ searches \in [Searchers -> 0..MaxSearches]
  /\ restings \in [Searchers -> SUBSET Providers]

\* A search does not return to a service that has failed it, on whatever route, until the cooldown
\* has passed or some search has reached the service again: the two DuckDuckGo pages share a
\* breaker "so a 403/429 on HTML cools the Lite route" (web_search.py:971-972).
FailedServiceRests ==
  [][\A s \in Searchers : \A p \in search'[s].flying \ search[s].flying :
       \A q \in restings[s] : ~SameService(p, q)]_searchVars
=============================================================================
