--------------------------- MODULE ServicesProofs ---------------------------
(***************************************************************************)
(* The services behind a turn: search, watched facts, the import of older  *)
(* messages, the filter of hidden memories and the composition of a        *)
(* prompt, each on its own, and then side by side with idle maintenance.   *)
(***************************************************************************)
EXTENDS MCServices, MaintenanceProofs, FiniteSetTheorems, WellFoundedInduction, SequenceTheorems

\* A set of numbers has a least one, as the finite sets 1..n of them are well founded.
LEMMA LeastNumber ==
  ASSUME NEW set, set \subseteq Nat, set # {}
  PROVE  \E a \in set : \A b \in set : a <= b
<1> DEFINE upto == {1..n : n \in set}
<1>1. IsWellFoundedOn(StrictSubsetOrdering(Nat), FiniteSubsetsOf(Nat))
  BY FS_StrictSubsetOrderingWellFounded
<1>2. \A n \in set : 1..n \in FiniteSubsetsOf(Nat)
  BY FS_Interval DEF FiniteSubsetsOf
<1>3. upto \subseteq FiniteSubsetsOf(Nat) /\ upto # {}
  BY <1>2
<1>4. PICK least \in upto : \A other \in upto : <<other, least>> \notin StrictSubsetOrdering(Nat)
  <2> HIDE DEF upto
  <2>1. QED
    BY <1>1, <1>3, WFMin
<1>5. PICK a \in set : least = 1..a
  OBVIOUS
<1>6. \A b \in set : a <= b
  <2> SUFFICES ASSUME NEW b \in set, b < a PROVE FALSE
    OBVIOUS
  <2>1. a \in Nat /\ b \in Nat
    OBVIOUS
  <2>2. 1..b \subseteq 1..a /\ a \in 1..a /\ a \notin 1..b
    BY <2>1
  <2>3. 1..b \in SUBSET Nat /\ 1..a \in SUBSET Nat
    BY <2>1
  <2>4. <<1..b, 1..a>> \in StrictSubsetOrdering(Nat)
    BY <2>2, <2>3 DEF StrictSubsetOrdering
  <2>5. QED
    BY <1>4, <1>5, <2>4
<1>7. QED
  BY <1>6

-----------------------------------------------------------------------------
(***************************************************************************)
(* Search: the request budget and the circuit breakers, for any threads,   *)
(* providers and routes.  A wave takes the first ready places of its       *)
(* route, no more of them than the budget has left; and what has failed a  *)
(* search and was not reached since has a breaker that is still cooling.   *)
(***************************************************************************)
\* What rests for a search has its breaker open.
RestingIsCooling == \A s \in Searchers : \A p \in restings[s] : ProviderKey(p) \in cooling

\* Requests are made of a route that there is.
LaunchedIsRoute == \A s \in Searchers : search[s].launched => search[s].at \in 1..Len(Routes)

SearchIInv == SearchTypeOK /\ LaunchedIsRoute /\ RestingIsCooling

\* Of a set of places, no more than n come first: each has another number of places up to it.
LEMMA FirstPlacesAreFew ==
  ASSUME NEW m \in Nat, NEW places \in SUBSET (1..m), NEW n \in Nat
  PROVE  /\ IsFiniteSet(FirstPlaces(places, n))
         /\ Cardinality(FirstPlaces(places, n)) <= n
<1> DEFINE First == FirstPlaces(places, n)
           Rank(i) == Cardinality(places \cap 1..i)
           rank == [i \in First |-> Rank(i)]
<1>1. ASSUME NEW i \in 1..m PROVE IsFiniteSet(places \cap 1..i) /\ Rank(i) \in Nat
  <2>1. IsFiniteSet(1..i)
    BY FS_Interval
  <2>2. IsFiniteSet(places \cap 1..i)
    BY <2>1, FS_Subset
  <2>3. QED
    BY <2>2, FS_CardinalityType
<1>2. First \subseteq places /\ First \subseteq 1..m
  BY DEF FirstPlaces
<1>3. ASSUME NEW i \in First PROVE Rank(i) \in 1..n
  <2>1. i \in 1..m /\ i \in places /\ Rank(i) <= n
    BY DEF FirstPlaces
  <2>2. i \in places \cap 1..i
    BY <2>1
  <2>3. Rank(i) # 0
    BY <1>1, <2>1, <2>2, FS_EmptySet
  <2>4. QED
    BY <1>1, <2>1, <2>3
<1>. HIDE DEF First
<1>4. ASSUME NEW i \in First, NEW j \in First, i < j PROVE Rank(i) # Rank(j)
  <2>1. i \in 1..m /\ j \in 1..m /\ j \in places
    BY <1>2
  <2>2. places \cap 1..i \subseteq places \cap 1..j
    BY <2>1, <1>4
  <2>3. j \in places \cap 1..j /\ j \notin places \cap 1..i
    BY <2>1, <1>4
  <2>4. IsFiniteSet(places \cap 1..j)
    BY <1>1, <2>1
  <2>5. QED
    BY <2>2, <2>3, <2>4, FS_Subset
<1>5. rank \in Injection(First, 1..n)
  <2>1. rank \in [First -> 1..n]
    BY <1>3
  <2>2. ASSUME NEW i \in First, NEW j \in First, rank[i] = rank[j] PROVE i = j
    <3>1. Rank(i) = Rank(j)
      BY <2>2
    <3>2. i \in 1..m /\ j \in 1..m
      BY <1>2
    <3>3. ~(i < j) /\ ~(j < i)
      BY <1>4, <3>1
    <3>4. QED
      BY <3>2, <3>3
  <2>3. QED
    BY <2>1, <2>2 DEF Injection, IsInjective
<1>6. IsFiniteSet(1..n) /\ Cardinality(1..n) = n
  BY FS_Interval
<1>7. IsFiniteSet(First) /\ Cardinality(First) <= n
  BY <1>5, <1>6, FS_Injection
<1>8. QED
  BY <1>7 DEF First

\* What a wave takes is ready and within the budget.
LEMMA WaveIsReadyAndWithinBudget ==
  ASSUME SearchTypeOK, NEW s \in Searchers, search[s].at \in 1..Len(Routes)
  PROVE  /\ Selected(s) \subseteq Providers
         /\ \A p \in Selected(s) : ProviderReady(p)
         /\ Cardinality(Selected(s)) \in 0..Slots(s)
<1> DEFINE route == Routes[search[s].at]
           places == ReadyPlaces(route)
           first == FirstPlaces(places, Slots(s))
<1>1. route \in Seq(Providers)
  BY SearchAssumption
<1>2. Slots(s) \in Nat
  BY SearchAssumption DEF SearchTypeOK, Searches, Slots
<1>3. Len(route) \in Nat /\ places \in SUBSET (1..Len(route))
  BY <1>1 DEF ReadyPlaces
<1>4. IsFiniteSet(first) /\ Cardinality(first) <= Slots(s)
  BY <1>2, <1>3, FirstPlacesAreFew
<1>5. first \subseteq places
  BY DEF FirstPlaces
<1>6. Selected(s) = {route[i] : i \in first}
  BY DEF Selected
<1>7. [i \in first |-> route[i]] \in Surjection(first, Selected(s))
  BY <1>6 DEF Surjection
<1>8. IsFiniteSet(Selected(s)) /\ Cardinality(Selected(s)) <= Cardinality(first)
  BY <1>4, <1>7, FS_Surjection
<1>9. Cardinality(Selected(s)) \in 0..Slots(s)
  BY <1>2, <1>4, <1>8, FS_CardinalityType
<1>10. \A p \in Selected(s) : p \in Providers /\ ProviderReady(p)
  <2>1. \A i \in places : i \in 1..Len(route) /\ ProviderReady(route[i])
    BY DEF ReadyPlaces
  <2>2. \A i \in first : route[i] \in Providers /\ ProviderReady(route[i])
    <3> HIDE DEF first, places
    <3>1. QED
      BY <1>1, <1>5, <2>1
  <2>3. QED
    BY <1>6, <2>2
<1>11. QED
  BY <1>9, <1>10

LEMMA SameServiceSameKey ==
  ASSUME NEW p, NEW q, SameService(p, q) PROVE ProviderKey(p) = ProviderKey(q)
  BY DEF SameService, ProviderKey

LEMMA SearchInitInv == SearchInit => SearchIInv
  BY SearchAssumption DEF SearchInit, SearchIInv, SearchTypeOK, LaunchedIsRoute, RestingIsCooling,
     Idle, Searches

LEMMA SearchStepInv == SearchIInv /\ [SearchNext]_searchVars => SearchIInv'
<1> SUFFICES ASSUME SearchIInv, [SearchNext]_searchVars PROVE SearchIInv'
  OBVIOUS
<1> USE SearchAssumption DEF SearchIInv, SearchTypeOK, LaunchedIsRoute, RestingIsCooling, Searches, Idle
<1>1. ASSUME NEW s \in Searchers, NEW exact \in BOOLEAN, Begin(s, exact) PROVE SearchIInv'
  <2>1. PICK route \in 1..2 : search' = [search EXCEPT ![s].at = route]
    <3>1. (IF exact THEN 1 ELSE 2) \in 1..2
      OBVIOUS
    <3>2. search' = [search EXCEPT ![s].at = IF exact THEN 1 ELSE 2]
      BY <1>1 DEF Begin
    <3>3. QED
      BY <3>1, <3>2
  <2>2. route \in 0..Len(Routes) + 1 /\ ~search[s].launched
    BY <1>1 DEF Begin
  <2>3. search' \in [Searchers -> Searches] /\ LaunchedIsRoute'
    BY <2>1, <2>2
  <2>4. SearchTypeOK'
    <3>1. searches' \in [Searchers -> 0..MaxSearches]
      BY <1>1 DEF Begin
    <3>2. restings' \in [Searchers -> SUBSET Providers] /\ cooling' = cooling
      BY <1>1 DEF Begin
    <3>3. QED
      BY <2>3, <3>1, <3>2
  <2>5. RestingIsCooling'
    BY <1>1 DEF Begin
  <2>6. QED
    BY <2>3, <2>4, <2>5
<1>2. ASSUME NEW s \in Searchers, RunWave(s) PROVE SearchIInv'
  <2>1. /\ Selected(s) \subseteq Providers
        /\ Cardinality(Selected(s)) \in 0..Slots(s)
    BY <1>2, WaveIsReadyAndWithinBudget DEF RunWave
  <2>2. search[s].used + Cardinality(Selected(s)) \in 0..RequestBudget
    BY <2>1 DEF Slots
  <2>3. QED
    BY <1>2, <2>1, <2>2 DEF RunWave
<1>3. ASSUME NEW s \in Searchers, NEW p \in Providers, NEW found \in 0..2, ProviderSucceeded(s, p, found)
      PROVE  SearchIInv'
  <2>1. SearchTypeOK' /\ LaunchedIsRoute'
    BY <1>3 DEF ProviderSucceeded
  <2>2. ASSUME NEW t \in Searchers, NEW q \in restings'[t] PROVE ProviderKey(q) \in cooling'
    <3>1. q \in restings[t] /\ ~SameService(p, q)
      BY <1>3, <2>2 DEF ProviderSucceeded
    <3>2. ProviderKey(q) \in cooling
      BY <3>1
    <3>3. cooling' = cooling \ {ProviderKey(p)}
      BY <1>3 DEF ProviderSucceeded
    <3>4. ProviderKey(p) # ProviderKey(q)
      <4>1. q \in Providers /\ "duckduckgo" \notin Providers
        BY <3>1
      <4>2. QED
        BY <3>1, <4>1 DEF SameService, ProviderKey
    <3>5. QED
      BY <3>2, <3>3, <3>4
  <2>3. QED
    BY <2>1, <2>2
<1>4. ASSUME NEW s \in Searchers, NEW p \in Providers, ProviderFailed(s, p) PROVE SearchIInv'
  BY <1>4 DEF ProviderFailed
<1>5. ASSUME NEW s \in Searchers, EndWave(s) PROVE SearchIInv'
  <2>1. Len(Routes) \in Nat /\ search[s].at \in 1..Len(Routes)
    BY <1>5 DEF EndWave
  <2>2. CASE Satisfied(s)
    <3>1. search' = [search EXCEPT ![s] = Idle]
      BY <1>5, <2>2 DEF EndWave
    <3>2. Idle \in Searches /\ ~Idle.launched
      OBVIOUS
    <3>3. search' \in [Searchers -> Searches] /\ LaunchedIsRoute'
      <4> HIDE DEF Idle
      <4>1. QED
        BY <3>1, <3>2
    <3>4. SearchTypeOK'
      BY <1>5, <3>3 DEF EndWave
    <3>5. RestingIsCooling'
      BY <1>5 DEF EndWave
    <3>6. QED
      BY <3>3, <3>4, <3>5
  <2>3. CASE ~Satisfied(s)
    <3>1. search[s].at + 1 \in 0..Len(Routes) + 1
      BY <2>1
    <3>2. search' = [search EXCEPT ![s].at = @ + 1, ![s].launched = FALSE]
      BY <1>5, <2>3 DEF EndWave
    <3>3. search' \in [Searchers -> Searches] /\ LaunchedIsRoute'
      BY <3>1, <3>2
    <3>4. QED
      BY <1>5, <3>3 DEF EndWave
  <2>4. QED
    BY <2>2, <2>3
<1>6. ASSUME NEW s \in Searchers, ReturnWhatThereIs(s) PROVE SearchIInv'
  BY <1>6 DEF ReturnWhatThereIs
<1>7. ASSUME NEW k \in cooling, CooldownPasses(k) PROVE SearchIInv'
  BY <1>7 DEF CooldownPasses
<1>8. CASE UNCHANGED searchVars
  BY <1>8 DEF searchVars
<1>9. QED
  BY <1>1, <1>2, <1>3, <1>4, <1>5, <1>6, <1>7, <1>8 DEF SearchNext, SearchStep

\* No search makes more requests than its budget, however many providers its waves hold.
THEOREM SearchTypes == SearchSpec => []SearchTypeOK
<1>1. SearchIInv => SearchTypeOK
  BY DEF SearchIInv
<1>2. QED
  BY SearchInitInv, SearchStepInv, <1>1, PTL DEF SearchSpec

\* The breakers shared by concurrent searches keep each of them away from what has failed it,
\* for any number of threads and routes.
THEOREM FailedServicesRest == SearchSpec => FailedServiceRests
<1> DEFINE Rests ==
      \A s \in Searchers : \A p \in search'[s].flying \ search[s].flying :
        \A q \in restings[s] : ~SameService(p, q)
<1>1. SearchIInv /\ [SearchNext]_searchVars => [Rests]_searchVars
  <2> SUFFICES ASSUME SearchIInv, SearchNext,
                      NEW s \in Searchers, NEW p \in search'[s].flying \ search[s].flying,
                      NEW q \in restings[s]
               PROVE  ~SameService(p, q)
    BY DEF searchVars
  <2>1. ASSUME NEW t \in Searchers, RunWave(t) PROVE p \in Selected(s) /\ RunWave(s)
    BY <2>1 DEF RunWave, SearchIInv, SearchTypeOK, Searches
  <2>2. CASE p \in Selected(s) /\ RunWave(s)
    <3>1. ProviderKey(p) \notin cooling
      BY <2>2, WaveIsReadyAndWithinBudget DEF RunWave, SearchIInv, ProviderReady
    <3>2. ProviderKey(q) \in cooling
      BY DEF SearchIInv, RestingIsCooling
    <3>3. QED
      BY <3>1, <3>2, SameServiceSameKey
  <2>3. \E t \in Searchers : RunWave(t)
    <3>1. ASSUME NEW t \in Searchers, SearchStep(t), ~RunWave(t) PROVE FALSE
      <4> USE DEF SearchIInv, SearchTypeOK, Searches
      <4>1. ASSUME NEW exact \in BOOLEAN, Begin(t, exact) PROVE FALSE
        BY <4>1 DEF Begin, Idle
      <4>2. ASSUME NEW r \in Providers, NEW found \in 0..2, ProviderSucceeded(t, r, found) PROVE FALSE
        BY <4>2 DEF ProviderSucceeded
      <4>3. ASSUME NEW r \in Providers, ProviderFailed(t, r) PROVE FALSE
        BY <4>3 DEF ProviderFailed
      <4>4. CASE EndWave(t)
        BY <4>4 DEF EndWave, Idle
      <4>5. CASE ReturnWhatThereIs(t)
        BY <4>5 DEF ReturnWhatThereIs, Idle
      <4>6. QED
        BY <3>1, <4>1, <4>2, <4>3, <4>4, <4>5 DEF SearchStep
    <3>2. ASSUME NEW k \in cooling, CooldownPasses(k) PROVE FALSE
      BY <3>2 DEF CooldownPasses
    <3>3. QED
      BY <3>1, <3>2 DEF SearchNext
  <2>4. QED
    BY <2>1, <2>2, <2>3
<1>2. QED
  BY SearchInitInv, SearchStepInv, <1>1, PTL DEF SearchSpec, FailedServiceRests

-----------------------------------------------------------------------------
(***************************************************************************)
(* Watched facts, for any queries, states of the world, turns, commands    *)
(* and ends of the process: what is removed stays removed, and what is     *)
(* called verified has an event that records its sources.                  *)
(***************************************************************************)
WatchStatuses == {"none", "ready", "verified", "unavailable"}
WatchRows == [active : BOOLEAN, digest : Digests, status : WatchStatuses]

\* The rows, and of the two threads what they bring to a row.
WatchTyped ==
  /\ watch \in [WatchQueries -> WatchRows]
  /\ grounding.query \in WatchQueries
  /\ grounding = [pc |-> grounding.pc, query |-> grounding.query, evidence |-> grounding.evidence]
  /\ news \in 1..MaxNews
  /\ refresh.evidence \in Digests
  /\ refresh = [pc |-> refresh.pc, batch |-> refresh.batch, evidence |-> refresh.evidence,
                cancelled |-> refresh.cancelled]

\* The evidence that a refresh is about to complete a row with is recorded.
CompletedIsRecorded ==
  /\ refresh.pc \in {"cache", "event"} => refresh.evidence # 0
  /\ refresh.pc = "complete" /\ refresh.evidence # 0 =>
       <<Head(refresh.batch), SourcesOf[refresh.evidence]>> \in EverRecorded

WatchIInv == WatchTyped /\ CompletedIsRecorded /\ VerifiedHasProvenance

LEMMA WatchInitInv == WatchInit => WatchIInv
<1> SUFFICES ASSUME WatchInit PROVE WatchIInv
  OBVIOUS
<1> USE WatchAssumption DEF Digests
<1>1. (CHOOSE q \in WatchQueries : TRUE) \in WatchQueries
  OBVIOUS
<1>2. WatchTyped
  BY <1>1 DEF WatchInit, WatchTyped, WatchRows, WatchStatuses, NoGrounding, NoRefresh
<1>3. CompletedIsRecorded /\ VerifiedHasProvenance
  BY DEF WatchInit, CompletedIsRecorded, VerifiedHasProvenance, NoRefresh
<1>4. QED
  BY <1>2, <1>3 DEF WatchIInv

\* The steps that write to a row.
LEMMA RowIsUpserted ==
  ASSUME WatchIInv, WatchGrounded
  PROVE  /\ watch' \in [WatchQueries -> WatchRows] /\ VerifiedHasProvenance'
         /\ \A q \in WatchQueries : q # grounding.query => watch'[q] = watch[q]
<1> DEFINE q == grounding.query
           status == IF Watched(q) THEN watch[q].status ELSE "ready"
           row == [active |-> TRUE, digest |-> 0, status |-> status]
<1>1. q \in WatchQueries /\ watch \in [WatchQueries -> WatchRows]
  BY DEF WatchIInv, WatchTyped
<1>2. status \in WatchStatuses /\ (status = "verified" => watch[q].status = "verified")
  BY <1>1 DEF WatchRows, WatchStatuses
<1>3. watch' = [watch EXCEPT ![q] = row] /\ EverRecorded' = EverRecorded
  BY <1>1 DEF WatchGrounded, UpsertWatch, EverRecorded
<1>4. row \in WatchRows /\ row.digest = 0 /\ row.status = status
  BY <1>2, WatchAssumption DEF WatchRows, Digests
<1> HIDE DEF row, status
<1>5. watch' \in [WatchQueries -> WatchRows] /\ watch'[q] = row
  BY <1>1, <1>3, <1>4
<1>6. \A p \in WatchQueries : p # q => watch'[p] = watch[p]
  BY <1>1, <1>3
<1>7. VerifiedHasProvenance'
  BY <1>1, <1>2, <1>3, <1>4, <1>5, <1>6 DEF WatchIInv, VerifiedHasProvenance
<1>8. QED
  BY <1>5, <1>6, <1>7

LEMMA RowIsCompleted ==
  ASSUME WatchIInv, CompleteRefreshed
  PROVE  /\ watch' \in [WatchQueries -> WatchRows] /\ VerifiedHasProvenance'
         /\ \A p \in WatchQueries : watch'[p].active = watch[p].active
<1> DEFINE q == Head(refresh.batch)
           d == refresh.evidence
<1>1. watch \in [WatchQueries -> WatchRows] /\ d \in Digests /\ EverRecorded' = EverRecorded
  BY DEF WatchIInv, WatchTyped, CompleteRefreshed, EverRecorded
<1>2. watch' = [watch EXCEPT ![q].status = IF d = 0 THEN "unavailable" ELSE "verified",
                             ![q].digest = d]
  BY DEF CompleteRefreshed, CompleteWatch
<1>3. d # 0 => <<q, SourcesOf[d]>> \in EverRecorded
  BY DEF WatchIInv, CompletedIsRecorded, CompleteRefreshed
<1> HIDE DEF q, d
<1>4. watch' \in [WatchQueries -> WatchRows]
  BY <1>1, <1>2 DEF WatchRows, WatchStatuses
<1>5. \A p \in WatchQueries : p # q => watch'[p] = watch[p]
  BY <1>1, <1>2
<1>6. q \in WatchQueries => /\ watch'[q].active = watch[q].active /\ watch'[q].digest = d
                            /\ watch'[q].status = IF d = 0 THEN "unavailable" ELSE "verified"
  BY <1>1, <1>2 DEF WatchRows
<1>7. VerifiedHasProvenance'
  <2> SUFFICES ASSUME NEW p \in WatchQueries
               PROVE  /\ watch'[p].digest # 0 => <<p, SourcesOf[watch'[p].digest]>> \in EverRecorded'
                      /\ watch'[p].status = "verified" => \E e \in EverRecorded' : e[1] = p
    BY DEF VerifiedHasProvenance
  <2>1. CASE p # q
    BY <1>1, <1>5, <2>1 DEF WatchIInv, VerifiedHasProvenance
  <2>2. CASE p = q
    <3>1. d # 0 => \E e \in EverRecorded : e[1] = p
      <4>1. <<q, SourcesOf[d]>>[1] = q
        OBVIOUS
      <4>2. QED
        BY <1>3, <2>2, <4>1
    <3>2. QED
      BY <1>1, <1>3, <1>6, <2>2, <3>1
  <2>3. QED
    BY <2>1, <2>2
<1>8. QED
  BY <1>4, <1>5, <1>6, <1>7

LEMMA RowsAreSwitched ==
  ASSUME WatchIInv, NEW activeAfter, NEW autoAfter, WatchCommand(activeAfter, autoAfter),
         \A q \in WatchQueries : activeAfter[q] \in BOOLEAN
  PROVE  /\ watch' \in [WatchQueries -> WatchRows] /\ VerifiedHasProvenance'
         /\ \A q \in WatchQueries : watch'[q].active = activeAfter[q]
<1>1. watch \in [WatchQueries -> WatchRows] /\ EverRecorded' = EverRecorded
  BY DEF WatchIInv, WatchTyped, WatchCommand, EverRecorded
<1>2. watch' = [q \in WatchQueries |-> [watch[q] EXCEPT !.active = activeAfter[q]]]
  BY DEF WatchCommand
<1>3. ASSUME NEW q \in WatchQueries
      PROVE  /\ watch'[q] \in WatchRows /\ watch'[q].active = activeAfter[q]
             /\ watch'[q].digest = watch[q].digest /\ watch'[q].status = watch[q].status
  BY <1>1, <1>2 DEF WatchRows
<1>4. watch' \in [WatchQueries -> WatchRows]
  BY <1>2, <1>3
<1>5. VerifiedHasProvenance'
  BY <1>1, <1>3 DEF WatchIInv, VerifiedHasProvenance
<1>6. QED
  BY <1>3, <1>4, <1>5

\* The steps that write to no row: what they leave to show.
QuietWatch == watch' = watch /\ EverRecorded \subseteq EverRecorded' /\ news' \in 1..MaxNews

GroundingTyped ==
  /\ grounding.query \in WatchQueries
  /\ grounding = [pc |-> grounding.pc, query |-> grounding.query, evidence |-> grounding.evidence]
RefreshTyped ==
  /\ refresh.evidence \in Digests
  /\ refresh = [pc |-> refresh.pc, batch |-> refresh.batch, evidence |-> refresh.evidence,
                cancelled |-> refresh.cancelled]

LEMMA QuietWatchSteps ==
  ASSUME WatchIInv, QuietWatch, GroundingTyped', RefreshTyped', CompletedIsRecorded'
  PROVE  WatchIInv'
<1>1. WatchTyped'
  BY DEF QuietWatch, WatchIInv, WatchTyped, GroundingTyped, RefreshTyped
<1>2. VerifiedHasProvenance'
  BY DEF QuietWatch, WatchIInv, VerifiedHasProvenance
<1>3. QED
  BY <1>1, <1>2 DEF WatchIInv

\* What grounding a turn and a command do to the refresh: they cancel it.
LEMMA CancelKeepsRefresh ==
  ASSUME WatchIInv, CancelRefresh, EverRecorded' = EverRecorded
  PROVE  RefreshTyped' /\ CompletedIsRecorded'
<1>1. refresh = [pc |-> refresh.pc, batch |-> refresh.batch, evidence |-> refresh.evidence,
                 cancelled |-> refresh.cancelled] /\ refresh.evidence \in Digests
  BY DEF WatchIInv, WatchTyped
<1> DEFINE c == refresh.pc \notin {"idle", "stuck"}
<1>2. refresh' = [pc |-> refresh.pc, batch |-> refresh.batch, evidence |-> refresh.evidence,
                  cancelled |-> c]
  BY <1>1 DEF CancelRefresh
<1> HIDE DEF c
<1>3. RefreshTyped' /\ refresh'.pc = refresh.pc /\ refresh'.batch = refresh.batch
      /\ refresh'.evidence = refresh.evidence
  BY <1>1, <1>2 DEF RefreshTyped
<1>4. QED
  BY <1>3 DEF WatchIInv, CompletedIsRecorded

LEMMA NothingIsTyped ==
  /\ NoGrounding.query \in WatchQueries
  /\ NoGrounding = [pc |-> NoGrounding.pc, query |-> NoGrounding.query,
                    evidence |-> NoGrounding.evidence]
  /\ \A r \in {NoRefresh, Stuck} :
       /\ r.evidence \in Digests /\ r.pc \in {"idle", "stuck"}
       /\ r = [pc |-> r.pc, batch |-> r.batch, evidence |-> r.evidence, cancelled |-> r.cancelled]
<1>1. (CHOOSE q \in WatchQueries : TRUE) \in WatchQueries
  BY WatchAssumption
<1>2. /\ NoGrounding.query \in WatchQueries
      /\ NoGrounding = [pc |-> NoGrounding.pc, query |-> NoGrounding.query,
                        evidence |-> NoGrounding.evidence]
  BY <1>1 DEF NoGrounding
<1>3. 0 \in Digests
  BY WatchAssumption DEF Digests
<1>4. \A r \in {NoRefresh, Stuck} :
        /\ r.evidence = 0 /\ r.pc \in {"idle", "stuck"}
        /\ r = [pc |-> r.pc, batch |-> r.batch, evidence |-> r.evidence,
                cancelled |-> r.cancelled]
  BY DEF NoRefresh, Stuck
<1>5. QED
  BY <1>2, <1>3, <1>4

LEMMA GroundStepInv == WatchIInv /\ GroundStep => WatchIInv'
<1> SUFFICES ASSUME WatchIInv, GroundStep PROVE WatchIInv'
  OBVIOUS
<1>0. /\ GroundingTyped /\ RefreshTyped /\ CompletedIsRecorded /\ news \in 1..MaxNews
  BY DEF WatchIInv, WatchTyped, GroundingTyped, RefreshTyped
<1>1. ASSUME refresh' = refresh, EverRecorded' = EverRecorded
      PROVE  RefreshTyped' /\ CompletedIsRecorded'
  BY <1>0, <1>1 DEF RefreshTyped, CompletedIsRecorded
<1>2. ASSUME GroundingEnds PROVE GroundingTyped'
  BY <1>2, NothingIsTyped DEF GroundingEnds, GroundingTyped
<1>3. ASSUME NEW pc, NEW e, grounding' = [grounding EXCEPT !.pc = pc, !.evidence = e]
      PROVE  GroundingTyped'
  BY <1>0, <1>3 DEF GroundingTyped
<1>4. ASSUME NEW pc, grounding' = [grounding EXCEPT !.pc = pc]
      PROVE  GroundingTyped'
  BY <1>0, <1>4 DEF GroundingTyped
<1>5. ASSUME NEW valid \in BOOLEAN, LookInCache(valid) PROVE WatchIInv'
  <2>1. GroundingTyped'
    BY <1>2, <1>4, <1>5 DEF LookInCache
  <2>2. QuietWatch /\ refresh' = refresh /\ EverRecorded' = EverRecorded
    BY <1>0, <1>5 DEF LookInCache, QuietWatch, store, EverRecorded
  <2>3. QED
    BY <1>1, <2>1, <2>2, QuietWatchSteps
<1>6. ASSUME NEW d \in Digests, GroundSearchReturns(d) PROVE WatchIInv'
  <2>1. GroundingTyped'
    BY <1>3, <1>6 DEF GroundSearchReturns
  <2>2. QuietWatch /\ refresh' = refresh /\ EverRecorded' = EverRecorded
    BY <1>0, <1>6 DEF GroundSearchReturns, QuietWatch, store, EverRecorded
  <2>3. QED
    BY <1>1, <2>1, <2>2, QuietWatchSteps
<1>7. ASSUME StoreGrounding PROVE WatchIInv'
  <2>1. GroundingTyped'
    BY <1>2, <1>4, <1>7 DEF StoreGrounding
  <2>2. QuietWatch /\ refresh' = refresh /\ EverRecorded' = EverRecorded
    BY <1>0, <1>7 DEF StoreGrounding, QuietWatch, EverRecorded
  <2>3. QED
    BY <1>1, <2>1, <2>2, QuietWatchSteps
<1>8. ASSUME WatchGrounded PROVE WatchIInv'
  <2>1. GroundingTyped' /\ refresh' = refresh /\ EverRecorded' = EverRecorded /\ news' = news
    BY <1>2, <1>8 DEF WatchGrounded, UpsertWatch, EverRecorded
  <2>2. watch' \in [WatchQueries -> WatchRows] /\ VerifiedHasProvenance'
    BY <1>8, RowIsUpserted
  <2>3. RefreshTyped' /\ CompletedIsRecorded'
    BY <1>1, <2>1
  <2>4. WatchTyped'
    BY <1>0, <2>1, <2>2, <2>3 DEF WatchTyped, GroundingTyped, RefreshTyped
  <2>5. QED
    BY <2>2, <2>3, <2>4 DEF WatchIInv
<1>9. QED
  BY <1>5, <1>6, <1>7, <1>8 DEF GroundStep

LEMMA RefreshStepInv == WatchIInv /\ RefreshStep => WatchIInv'
<1> SUFFICES ASSUME WatchIInv, RefreshStep PROVE WatchIInv'
  OBVIOUS
<1>0. /\ GroundingTyped /\ RefreshTyped /\ CompletedIsRecorded /\ news \in 1..MaxNews
  BY DEF WatchIInv, WatchTyped, GroundingTyped, RefreshTyped
<1>1. ASSUME grounding' = grounding PROVE GroundingTyped'
  BY <1>0, <1>1 DEF GroundingTyped
<1>2. ASSUME NEW pc \in {"idle", "select", "next", "search"}, NEW b, NEW c,
             refresh' = [pc |-> pc, batch |-> b, evidence |-> refresh.evidence, cancelled |-> c]
      PROVE  RefreshTyped' /\ CompletedIsRecorded'
  <2>1. refresh'.pc = pc /\ refresh'.evidence = refresh.evidence /\ RefreshTyped'
    BY <1>0, <1>2 DEF RefreshTyped
  <2>2. refresh'.pc \notin {"cache", "event", "complete"}
    BY <1>2, <2>1
  <2>3. QED
    BY <2>1, <2>2 DEF CompletedIsRecorded
<1>3. ASSUME refresh' = NoRefresh PROVE RefreshTyped' /\ CompletedIsRecorded'
  BY <1>3, NothingIsTyped DEF RefreshTyped, CompletedIsRecorded
<1>4. refresh = [pc |-> refresh.pc, batch |-> refresh.batch, evidence |-> refresh.evidence,
                 cancelled |-> refresh.cancelled] /\ refresh.evidence \in Digests
  BY <1>0 DEF RefreshTyped
<1>5. ASSUME StartMaintenance PROVE WatchIInv'
  <2>1. refresh' = [pc |-> "select", batch |-> refresh.batch, evidence |-> refresh.evidence,
                    cancelled |-> FALSE]
    BY <1>4, <1>5 DEF StartMaintenance
  <2>2. QuietWatch /\ grounding' = grounding
    BY <1>0, <1>5 DEF StartMaintenance, QuietWatch, store, EverRecorded
  <2>3. QED
    BY <1>1, <1>2, <2>1, <2>2, QuietWatchSteps
<1>6. ASSUME NEW skips \in BOOLEAN, SelectDue(skips) PROVE WatchIInv'
  <2> DEFINE b == DueWatches
  <2>1. \/ refresh' = NoRefresh
        \/ refresh' = [pc |-> "next", batch |-> b, evidence |-> refresh.evidence,
                       cancelled |-> refresh.cancelled]
    <3> HIDE DEF b
    <3>1. refresh' = NoRefresh \/ refresh' = [refresh EXCEPT !.pc = "next", !.batch = b]
      BY <1>6 DEF SelectDue, b
    <3>2. QED
      BY <1>4, <3>1
  <2>2. QuietWatch /\ grounding' = grounding
    BY <1>0, <1>6 DEF SelectDue, QuietWatch, store, EverRecorded
  <2> HIDE DEF b
  <2>3. RefreshTyped' /\ CompletedIsRecorded'
    BY <1>2, <1>3, <2>1
  <2>4. QED
    BY <1>1, <2>2, <2>3, QuietWatchSteps
<1>7. ASSUME NextDueWatch PROVE WatchIInv'
  <2>1. \/ refresh' = NoRefresh
        \/ refresh' = [pc |-> "search", batch |-> refresh.batch, evidence |-> refresh.evidence,
                       cancelled |-> refresh.cancelled]
    BY <1>4, <1>7 DEF NextDueWatch
  <2>2. QuietWatch /\ grounding' = grounding
    BY <1>0, <1>7 DEF NextDueWatch, QuietWatch, store, EverRecorded
  <2>3. RefreshTyped' /\ CompletedIsRecorded'
    BY <1>2, <1>3, <2>1
  <2>4. QED
    BY <1>1, <2>2, <2>3, QuietWatchSteps
<1>8. ASSUME NEW d \in Digests, RefreshSearchReturns(d) PROVE WatchIInv'
  <2> DEFINE pc == IF d = 0 THEN "complete" ELSE "cache"
  <2>1. refresh' = [pc |-> pc, batch |-> refresh.batch, evidence |-> d,
                    cancelled |-> refresh.cancelled]
    BY <1>4, <1>8 DEF RefreshSearchReturns
  <2>2. (pc = "cache" /\ d # 0) \/ (pc = "complete" /\ d = 0)
    OBVIOUS
  <2>3. QuietWatch /\ grounding' = grounding
    BY <1>0, <1>8 DEF RefreshSearchReturns, QuietWatch, store, EverRecorded
  <2> HIDE DEF pc
  <2>4. RefreshTyped' /\ CompletedIsRecorded'
    BY <2>1, <2>2 DEF RefreshTyped, CompletedIsRecorded
  <2>5. QED
    BY <1>1, <2>3, <2>4, QuietWatchSteps
<1>9. ASSUME CacheRefreshed PROVE WatchIInv'
  <2>1. refresh' = [pc |-> "event", batch |-> refresh.batch, evidence |-> refresh.evidence,
                    cancelled |-> refresh.cancelled] /\ refresh.pc = "cache"
    BY <1>4, <1>9 DEF CacheRefreshed
  <2>2. RefreshTyped' /\ CompletedIsRecorded'
    BY <1>0, <1>4, <2>1 DEF RefreshTyped, CompletedIsRecorded
  <2>3. QuietWatch /\ grounding' = grounding
    BY <1>0, <1>9 DEF CacheRefreshed, QuietWatch, EverRecorded
  <2>4. QED
    BY <1>1, <2>2, <2>3, QuietWatchSteps
<1>10. ASSUME RecordRefreshed PROVE WatchIInv'
  <2>1. refresh' = [pc |-> "complete", batch |-> refresh.batch, evidence |-> refresh.evidence,
                    cancelled |-> refresh.cancelled]
    BY <1>4, <1>10 DEF RecordRefreshed
  <2>2. EverRecorded' = EverRecorded \cup {<<Head(refresh.batch), SourcesOf[refresh.evidence]>>}
    BY <1>10 DEF RecordRefreshed, EverRecorded
  <2>3. RefreshTyped' /\ CompletedIsRecorded'
    BY <1>4, <2>1, <2>2 DEF RefreshTyped, CompletedIsRecorded, EverRecorded
  <2>4. QuietWatch /\ grounding' = grounding
    BY <1>0, <1>10, <2>2 DEF RecordRefreshed, QuietWatch, EverRecorded
  <2>5. QED
    BY <1>1, <2>3, <2>4, QuietWatchSteps
<1>11. ASSUME CompleteRefreshed PROVE WatchIInv'
  <2> DEFINE b == Tail(refresh.batch)
  <2>1. refresh' = [pc |-> "next", batch |-> b, evidence |-> 0, cancelled |-> refresh.cancelled]
    BY <1>4, <1>11 DEF CompleteRefreshed
  <2> HIDE DEF b
  <2>2. RefreshTyped' /\ CompletedIsRecorded'
    BY <2>1, WatchAssumption DEF RefreshTyped, CompletedIsRecorded, Digests
  <2>3. watch' \in [WatchQueries -> WatchRows] /\ VerifiedHasProvenance'
    BY <1>11, RowIsCompleted
  <2>4. GroundingTyped' /\ news' = news
    BY <1>1, <1>11 DEF CompleteRefreshed
  <2>5. WatchTyped'
    BY <1>0, <2>2, <2>3, <2>4 DEF WatchTyped, GroundingTyped, RefreshTyped
  <2>6. QED
    BY <2>2, <2>3, <2>5 DEF WatchIInv
<1>12. QED
  BY <1>5, <1>6, <1>7, <1>8, <1>9, <1>10, <1>11 DEF RefreshStep

LEMMA CommandInv ==
  ASSUME WatchIInv, NEW activeAfter, NEW autoAfter, WatchCommand(activeAfter, autoAfter),
         \A q \in WatchQueries : activeAfter[q] \in BOOLEAN
  PROVE  WatchIInv'
<1>1. watch' \in [WatchQueries -> WatchRows] /\ VerifiedHasProvenance'
  BY RowsAreSwitched
<1>2. RefreshTyped' /\ CompletedIsRecorded'
  BY CancelKeepsRefresh DEF WatchCommand, EverRecorded
<1>3. GroundingTyped' /\ news' \in 1..MaxNews
  BY DEF WatchCommand, WatchIInv, WatchTyped, GroundingTyped
<1>4. WatchTyped'
  BY <1>1, <1>2, <1>3 DEF WatchTyped, GroundingTyped, RefreshTyped
<1>5. QED
  BY <1>1, <1>2, <1>4 DEF WatchIInv

LEMMA WatchStepInv == WatchIInv /\ [WatchNext]_watchVars => WatchIInv'
<1> SUFFICES ASSUME WatchIInv, [WatchNext]_watchVars PROVE WatchIInv'
  OBVIOUS
<1>0. /\ GroundingTyped /\ RefreshTyped /\ CompletedIsRecorded /\ news \in 1..MaxNews
      /\ watch \in [WatchQueries -> WatchRows]
  BY DEF WatchIInv, WatchTyped, GroundingTyped, RefreshTyped
<1>1. ASSUME NEW q \in WatchQueries, AskGrounded(q) PROVE WatchIInv'
  <2>1. RefreshTyped' /\ CompletedIsRecorded'
    BY <1>1, CancelKeepsRefresh DEF AskGrounded, store, EverRecorded
  <2>2. GroundingTyped' /\ QuietWatch
    BY <1>0, <1>1 DEF AskGrounded, GroundingTyped, QuietWatch, store, EverRecorded
  <2>3. QED
    BY <2>1, <2>2, QuietWatchSteps
<1>2. ASSUME NEW q \in WatchQueries, RemoveWatch(q) PROVE WatchIInv'
  <2> DEFINE active == [p \in WatchQueries |-> watch[p].active /\ p # q]
  <2>1. WatchCommand(active, autoWatch) /\ \A p \in WatchQueries : active[p] \in BOOLEAN
    BY <1>2 DEF RemoveWatch
  <2>2. QED
    BY <2>1, CommandInv
<1>3. ASSUME SwitchAutoWatch PROVE WatchIInv'
  <2> DEFINE active == [p \in WatchQueries |-> watch[p].active]
  <2>1. WatchCommand(active, ~autoWatch) /\ \A p \in WatchQueries : active[p] \in BOOLEAN
    BY <1>0, <1>3 DEF SwitchAutoWatch, WatchRows
  <2>2. QED
    BY <2>1, CommandInv
<1>4. ASSUME grounding' = grounding, refresh' = refresh, EverRecorded' = EverRecorded
      PROVE  GroundingTyped' /\ RefreshTyped' /\ CompletedIsRecorded'
  BY <1>0, <1>4 DEF GroundingTyped, RefreshTyped, CompletedIsRecorded
<1>5. ASSUME NEW k \in CacheKeys, CacheExpires(k) PROVE WatchIInv'
  BY <1>0, <1>4, <1>5, QuietWatchSteps DEF CacheExpires, QuietWatch, EverRecorded
<1>6. ASSUME CadencePasses PROVE WatchIInv'
  BY <1>0, <1>4, <1>6, QuietWatchSteps DEF CadencePasses, QuietWatch, EverRecorded
<1>7. ASSUME NewsBreaks PROVE WatchIInv'
  <2>1. news' \in 1..MaxNews
    BY <1>0, <1>7, WatchAssumption DEF NewsBreaks
  <2>2. QED
    BY <1>4, <1>7, <2>1, QuietWatchSteps DEF NewsBreaks, QuietWatch, store, EverRecorded
<1>8. ASSUME ProcessEnds PROVE WatchIInv'
  <2>1. GroundingTyped' /\ RefreshTyped' /\ CompletedIsRecorded'
    BY <1>8, NothingIsTyped DEF ProcessEnds, GroundingTyped, RefreshTyped, CompletedIsRecorded
  <2>2. QuietWatch
    BY <1>0, <1>8 DEF ProcessEnds, QuietWatch, store, EverRecorded
  <2>3. QED
    BY <2>1, <2>2, QuietWatchSteps
<1>11. ASSUME NEW e \in refreshes, PurgeEvent(e) PROVE WatchIInv'
  <2>1. EverRecorded' = EverRecorded
    BY <1>11 DEF PurgeEvent, EverRecorded
  <2>2. RefreshTyped' /\ CompletedIsRecorded'
    BY <1>11, <2>1, CancelKeepsRefresh DEF PurgeEvent
  <2>3. GroundingTyped' /\ QuietWatch
    BY <1>0, <1>11, <2>1 DEF PurgeEvent, GroundingTyped, QuietWatch
  <2>4. QED
    BY <2>2, <2>3, QuietWatchSteps
<1>12. ASSUME GroundFails PROVE WatchIInv'
  <2>1. GroundingTyped'
    BY <1>12, NothingIsTyped DEF GroundFails, GroundingEnds, GroundingTyped
  <2>2. RefreshTyped' /\ CompletedIsRecorded' /\ QuietWatch
    BY <1>0, <1>12
       DEF GroundFails, RefreshTyped, CompletedIsRecorded, QuietWatch, store, EverRecorded
  <2>3. QED
    BY <2>1, <2>2, QuietWatchSteps
<1>13. ASSUME RefreshFails PROVE WatchIInv'
  <2>1. refresh' \in {NoRefresh, Stuck}
    BY <1>13 DEF RefreshFails
  <2>2. refresh'.pc \in {"idle", "stuck"} /\ RefreshTyped'
    BY <2>1, NothingIsTyped DEF RefreshTyped
  <2>3. GroundingTyped' /\ QuietWatch /\ CompletedIsRecorded'
    BY <1>0, <1>13, <2>2
       DEF RefreshFails, GroundingTyped, QuietWatch, store, EverRecorded, CompletedIsRecorded
  <2>4. QED
    BY <2>2, <2>3, QuietWatchSteps
<1>14. ASSUME TroubleBegins \/ TroubleEnds PROVE WatchIInv'
  <2>1. UNCHANGED <<store, grounding, refresh, news>>
    BY <1>14 DEF TroubleBegins, TroubleEnds
  <2>2. QED
    BY <1>0, <1>4, <2>1, QuietWatchSteps DEF QuietWatch, store, EverRecorded
<1>9. CASE UNCHANGED watchVars
  BY <1>0, <1>4, <1>9, QuietWatchSteps DEF watchVars, store, QuietWatch, EverRecorded
<1>10. QED
  BY <1>1, <1>2, <1>3, <1>5, <1>6, <1>7, <1>8, <1>9, <1>11, <1>12, <1>13, <1>14, GroundStepInv,
     RefreshStepInv DEF WatchNext

\* For a watch that is called verified, or that names evidence, an event with its sources was recorded,
\* wherever the process ended or a write failed; the user may have purged that event since.
THEOREM ProvenanceIsRecorded == WatchSpec => []VerifiedHasProvenance
<1>1. WatchInit => WatchIInv
  BY WatchInitInv
<1>2. WatchIInv /\ [WatchNext]_watchVars => WatchIInv'
  BY WatchStepInv
<1>3. WatchIInv => VerifiedHasProvenance
  BY DEF WatchIInv
<1>4. QED
  BY <1>1, <1>2, <1>3, PTL DEF WatchSpec

\* Only the step that stores a grounded turn's query makes a removed watch active again.
LEMMA OnlyGroundingRevives ==
  ASSUME WatchIInv, [WatchNext]_watchVars, NEW q \in WatchQueries,
         ~watch[q].active, watch'[q].active
  PROVE  grounding.pc = "watch" /\ grounding.query = q
<1>1. watch' # watch
  OBVIOUS
<1>2. WatchNext
  BY <1>1 DEF watchVars, store
<1>3. watch \in [WatchQueries -> WatchRows]
  BY DEF WatchIInv, WatchTyped
<1>4. ~CompleteRefreshed
  BY RowIsCompleted
<1>5. ASSUME NEW p \in WatchQueries, RemoveWatch(p) PROVE FALSE
  <2> DEFINE active == [r \in WatchQueries |-> watch[r].active /\ r # p]
  <2>1. WatchCommand(active, autoWatch) /\ \A r \in WatchQueries : active[r] \in BOOLEAN
    BY <1>5 DEF RemoveWatch
  <2>2. watch'[q].active = active[q]
    BY <2>1, RowsAreSwitched
  <2>3. QED
    BY <2>2
<1>6. ~SwitchAutoWatch
  <2> SUFFICES ASSUME SwitchAutoWatch PROVE FALSE
    OBVIOUS
  <2> DEFINE active == [r \in WatchQueries |-> watch[r].active]
  <2>1. WatchCommand(active, ~autoWatch) /\ \A r \in WatchQueries : active[r] \in BOOLEAN
    BY <1>3 DEF SwitchAutoWatch, WatchRows
  <2>2. watch'[q].active = active[q]
    BY <2>1, RowsAreSwitched
  <2>3. QED
    BY <2>2
<1>7. WatchGrounded
  BY <1>1, <1>2, <1>4, <1>5, <1>6
     DEF WatchNext, GroundStep, RefreshStep, AskGrounded, LookInCache, GroundSearchReturns,
         StoreGrounding, StartMaintenance, SelectDue, NextDueWatch, RefreshSearchReturns,
         CacheRefreshed, RecordRefreshed, CacheExpires, CadencePasses, NewsBreaks, ProcessEnds,
         PurgeEvent, GroundFails, RefreshFails, TroubleBegins, TroubleEnds, store
<1>8. grounding.query = q
  BY <1>7, RowIsUpserted
<1>9. QED
  BY <1>7, <1>8 DEF WatchGrounded

\* A removed watch comes back only with a turn that asks for it.
THEOREM RemovalIsKept == WatchSpec => RemovalHolds
<1> DEFINE Act == \A q \in WatchQueries :
                    ~watch[q].active /\ watch'[q].active
                    => grounding.pc = "watch" /\ grounding.query = q
<1>1. WatchInit => WatchIInv
  BY WatchInitInv
<1>2. WatchIInv /\ [WatchNext]_watchVars => WatchIInv'
  BY WatchStepInv
<1>3. WatchIInv /\ [WatchNext]_watchVars => [Act]_watchVars
  BY OnlyGroundingRevives
<1>4. QED
  BY <1>1, <1>2, <1>3, PTL DEF WatchSpec, RemovalHolds

-----------------------------------------------------------------------------
(* The types of watched facts: the agenda names every row once, and what a *)
(* refresh works on are rows.                                              *)
RefreshSteps == {"idle", "select", "next", "search", "cache", "event", "complete", "stuck"}

AgendaOK ==
  /\ agenda \in Seq(WatchQueries) /\ dueCount \in 0..Len(agenda)
  /\ \A i, j \in 1..Len(agenda) : agenda[i] = agenda[j] => i = j

RefreshOK ==
  /\ refresh \in [pc : RefreshSteps, batch : Seq(WatchQueries), evidence : Digests,
                  cancelled : BOOLEAN]
  /\ \A i \in 1..Len(refresh.batch) : Watched(refresh.batch[i])
  /\ refresh.pc \in {"search", "cache", "event", "complete"} => refresh.batch # <<>>
  /\ refresh.pc \in {"cache", "event"} => refresh.evidence # 0

GroundingOK ==
  grounding \in [pc : {"idle", "look", "search", "store", "watch"}, query : WatchQueries,
                 evidence : Digests]

StoreOK ==
  /\ cache \in [CacheKeys -> CacheEntries]
  /\ (refreshes \cup purged) \subseteq WatchQueries \X {SourcesOf[d] : d \in 1..MaxNews}
  /\ autoWatch \in BOOLEAN /\ trouble \in BOOLEAN /\ news \in 1..MaxNews

WatchTypesInv == AgendaOK /\ RefreshOK /\ GroundingOK /\ StoreOK

LEMMA OneMore ==
  ASSUME NEW S, IsFiniteSet(S), NEW x, x \notin S, NEW T, T = S \cup {x}
  PROVE  Cardinality(T) = Cardinality(S) + 1
  BY FS_AddElement

\* Every number up to a set's size belongs to one of its places.
LEMMA EveryNumberIsTaken ==
  ASSUME NEW m \in Nat, NEW rows \in SUBSET (1..m), NEW k \in 1..Cardinality(rows)
  PROVE  \E row \in rows : Cardinality({i \in rows : i <= row}) = k
<1> DEFINE count == [n \in 0..m |-> Cardinality(rows \cap 1..n)]
           enough == {n \in 0..m : count[n] >= k}
<1>1. ASSUME NEW n \in 0..m
      PROVE  IsFiniteSet(rows \cap 1..n) /\ Cardinality(rows \cap 1..n) \in Nat
  <2>1. IsFiniteSet(1..n)
    BY FS_Interval
  <2>2. IsFiniteSet(rows \cap 1..n)
    BY <2>1, FS_Subset
  <2>3. QED
    BY <2>2, FS_CardinalityType
<1>2. count \in [0..m -> Nat]
  BY <1>1
<1>3. count[0] = 0
  <2>1. rows \cap 1..0 = {}
    OBVIOUS
  <2>2. QED
    BY <2>1, FS_EmptySet
<1>4. count[m] = Cardinality(rows) /\ Cardinality(rows) \in Nat
  <2>1. rows \cap 1..m = rows
    OBVIOUS
  <2>2. QED
    BY <1>1, <2>1
<1>5. ASSUME NEW n \in 1..m
      PROVE  count[n] = IF n \in rows THEN count[n - 1] + 1 ELSE count[n - 1]
  <2>1. n \in 0..m /\ n - 1 \in 0..m
    OBVIOUS
  <2>2. CASE n \in rows
    <3>1. /\ rows \cap 1..n = (rows \cap 1..(n - 1)) \cup {n}
          /\ n \notin rows \cap 1..(n - 1)
      BY <2>2
    <3>2. Cardinality(rows \cap 1..n) = Cardinality(rows \cap 1..(n - 1)) + 1
      BY <1>1, <2>1, <3>1, OneMore
    <3>3. QED
      BY <2>1, <2>2, <3>2
  <2>3. CASE n \notin rows
    <3>1. rows \cap 1..n = rows \cap 1..(n - 1)
      BY <2>3
    <3>2. QED
      BY <2>1, <2>3, <3>1
  <2>4. QED
    BY <2>2, <2>3
<1>6. ASSUME NEW n \in 0..m PROVE Cardinality({i \in rows : i <= n}) = count[n]
  <2>1. \A i \in rows : i \in 1..m
    OBVIOUS
  <2>2. \A i \in rows : i <= n <=> i \in 1..n
    BY <2>1
  <2>3. {i \in rows : i <= n} = rows \cap 1..n
    BY <2>2, Zenon
  <2>4. QED
    BY <2>3
<1> HIDE DEF count
<1>7. m \in enough /\ 0 \notin enough /\ enough \subseteq 0..m
  BY <1>2, <1>3, <1>4
<1>8. PICK row \in enough : \A n \in enough : row <= n
  <2> HIDE DEF enough
  <2>1. enough \subseteq Nat
    BY <1>7
  <2>2. QED
    BY <1>7, <2>1, LeastNumber
<1>9. row \in 0..m /\ row # 0
  BY <1>7, <1>8
<1>10. row \in 1..m /\ row - 1 \in 0..m /\ count[row] >= k
  BY <1>8, <1>9
<1>11. ~(count[row - 1] >= k)
  BY <1>8, <1>10
<1>12. row \in rows /\ count[row] = k
  BY <1>2, <1>5, <1>10, <1>11
<1>13. QED
  BY <1>6, <1>9, <1>12

\* What a refresh takes are rows of the agenda.
LEMMA DueWatchesAreRows ==
  ASSUME AgendaOK
  PROVE  DueWatches \in Seq(WatchQueries) /\ \A k \in 1..Len(DueWatches) : Watched(DueWatches[k])
<1> DEFINE due == Cardinality(DueRows)
           n == IF due < BatchLimit THEN due ELSE BatchLimit
           place == [k \in 1..n |-> CHOOSE row \in DueRows : NumberOf(row) = k]
<1>1. dueCount \in Nat /\ DueRows \in SUBSET (1..dueCount) /\ 1..dueCount \subseteq 1..Len(agenda)
  BY DEF AgendaOK, DueRows
<1>2. IsFiniteSet(DueRows) /\ due \in Nat
  <2>1. IsFiniteSet(1..dueCount)
    BY <1>1, FS_Interval
  <2>2. QED
    BY <1>1, <2>1, FS_Subset, FS_CardinalityType
<1>3. n \in Nat /\ n <= due
  BY <1>2, WatchAssumption
<1>4. ASSUME NEW k \in 1..n PROVE place[k] \in DueRows
  <2>1. k \in 1..Cardinality(DueRows)
    BY <1>2, <1>3
  <2>2. \E row \in DueRows : Cardinality({i \in DueRows : i <= row}) = k
    BY <1>1, <2>1, EveryNumberIsTaken
  <2>3. QED
    BY <2>2 DEF NumberOf
<1>5. DueWatches = [k \in 1..n |-> agenda[place[k]]]
  BY DEF DueWatches
<1> HIDE DEF n, place
<1>6. ASSUME NEW k \in 1..n
      PROVE  agenda[place[k]] \in WatchQueries /\ Watched(agenda[place[k]])
  <2>1. place[k] \in 1..Len(agenda)
    BY <1>1, <1>4
  <2>2. DOMAIN agenda = 1..Len(agenda) /\ agenda[place[k]] \in WatchQueries
    BY <2>1 DEF AgendaOK
  <2>3. QED
    BY <2>1, <2>2 DEF Watched
<1>7. DueWatches \in [1..n -> WatchQueries]
  BY <1>5, <1>6
<1>8. DueWatches \in Seq(WatchQueries) /\ Len(DueWatches) = n
  BY <1>3, <1>7, LenProperties, IsASeq
<1>9. QED
  BY <1>5, <1>6, <1>8

\* A row that is checked or added leaves the others in the agenda.
LEMMA RescheduleKeepsRows ==
  ASSUME AgendaOK, NEW q \in WatchQueries, Watched(q), Reschedule(q)
  PROVE  AgendaOK' /\ \A p : Watched(p) => Watched(p)'
<1> DEFINE row == CHOOSE i \in DOMAIN agenda : agenda[i] = q
           n == Len(agenda)
<1>1. row \in DOMAIN agenda /\ agenda[row] = q
  BY DEF Watched
<1>2. /\ agenda' = Append(RemoveAt(agenda, row), q)
      /\ dueCount' = IF row <= dueCount THEN dueCount - 1 ELSE dueCount
  BY DEF Reschedule
<1> HIDE DEF row
<1>3. /\ agenda \in Seq(WatchQueries) /\ DOMAIN agenda = 1..n /\ n \in Nat /\ dueCount \in 0..n
      /\ row \in 1..n
      /\ \A i, j \in 1..n : agenda[i] = agenda[j] => i = j
  BY <1>1 DEF AgendaOK
<1>4. /\ agenda' \in Seq(WatchQueries) /\ Len(agenda') = n
      /\ \A i \in 1..n : agenda'[i] = IF i < row THEN agenda[i]
                                      ELSE IF i < n THEN agenda[i + 1] ELSE q
  <2> DEFINE a == SubSeq(agenda, 1, row - 1)
             b == SubSeq(agenda, row + 1, n)
  <2>1. /\ a \in Seq(WatchQueries) /\ Len(a) = row - 1
        /\ \A i \in 1..(row - 1) : a[i] = agenda[i]
    BY <1>3
  <2>2. /\ b \in Seq(WatchQueries) /\ Len(b) = n - row
        /\ \A i \in 1..(n - row) : b[i] = agenda[row + i]
    <3>1. /\ row + 1 \in Int /\ n \in Int /\ n - (row + 1) + 1 = n - row
          /\ \A i \in (row + 1)..n : agenda[i] \in WatchQueries
      BY <1>3
    <3>2. /\ b \in Seq(WatchQueries) /\ Len(b) = IF row + 1 <= n THEN n - (row + 1) + 1 ELSE 0
          /\ \A i \in 1..(n - (row + 1) + 1) : b[i] = agenda[(row + 1) + i - 1]
      BY <3>1, SubSeqProperties
    <3>3. ASSUME NEW i \in 1..(n - row) PROVE b[i] = agenda[row + i]
      <4>1. i \in 1..(n - (row + 1) + 1) /\ (row + 1) + i - 1 = row + i
        BY <1>3
      <4>2. QED
        BY <3>2, <4>1
    <3>4. Len(b) = n - row
      <4>1. CASE row = n
        <5>1. ~(row + 1 <= n) /\ n - row = 0
          BY <1>3, <4>1
        <5>2. QED
          BY <3>2, <5>1
      <4>2. CASE row < n
        <5>1. row + 1 <= n
          BY <1>3, <4>2
        <5>2. QED
          BY <3>1, <3>2, <5>1
      <4>3. n \in Nat /\ row \in 1..n
        BY <1>3
      <4>4. row = n \/ row < n
        BY <4>3
      <4>5. QED
        BY <4>1, <4>2, <4>4
    <3>5. QED
      BY <3>2, <3>3, <3>4
  <2>3. RemoveAt(agenda, row) = a \o b
    BY DEF RemoveAt
  <2> HIDE DEF a, b
  <2>4. /\ a \o b \in Seq(WatchQueries) /\ Len(a \o b) = n - 1
        /\ \A i \in 1..(n - 1) : (a \o b)[i] = IF i < row THEN a[i] ELSE b[i - (row - 1)]
    <3>1. /\ a \o b \in Seq(WatchQueries) /\ Len(a \o b) = Len(a) + Len(b)
          /\ \A i \in 1..(Len(a) + Len(b)) :
               (a \o b)[i] = IF i <= Len(a) THEN a[i] ELSE b[i - Len(a)]
      BY <2>1, <2>2, ConcatProperties
    <3>2. /\ Len(a) + Len(b) = n - 1 /\ Len(a) = row - 1
          /\ \A i \in 1..(n - 1) : i <= row - 1 <=> i < row
      BY <1>3, <2>1, <2>2
    <3>3. QED
      BY <3>1, <3>2
  <2>5. \A i \in 1..(n - 1) : (a \o b)[i] = IF i < row THEN agenda[i] ELSE agenda[i + 1]
    <3>1. SUFFICES ASSUME NEW i \in 1..(n - 1)
                   PROVE  (a \o b)[i] = IF i < row THEN agenda[i] ELSE agenda[i + 1]
      OBVIOUS
    <3>2. CASE i < row
      BY <1>3, <2>1, <2>4, <3>2
    <3>3. CASE ~(i < row)
      <4>1. i - (row - 1) \in 1..(n - row) /\ row + (i - (row - 1)) = i + 1
        BY <1>3, <3>3
      <4>2. QED
        BY <1>3, <2>2, <2>4, <3>3, <4>1
    <3>4. QED
      BY <3>2, <3>3
  <2>6. agenda' = Append(a \o b, q)
    BY <1>2, <2>3
  <2>7. /\ Append(a \o b, q) \in Seq(WatchQueries) /\ Len(Append(a \o b, q)) = Len(a \o b) + 1
        /\ \A i \in 1..Len(a \o b) : Append(a \o b, q)[i] = (a \o b)[i]
        /\ Append(a \o b, q)[Len(a \o b) + 1] = q
    BY <2>4, AppendProperties
  <2>8. ASSUME NEW i \in 1..n
        PROVE  agenda'[i] = IF i < row THEN agenda[i] ELSE IF i < n THEN agenda[i + 1] ELSE q
    <3>0. n \in Nat /\ row \in 1..n /\ Len(a \o b) = n - 1
      BY <1>3, <2>4
    <3>1. CASE i < n
      <4>1. i \in 1..(n - 1)
        BY <3>0, <3>1
      <4>2. agenda'[i] = (a \o b)[i]
        BY <2>6, <2>7, <3>0, <4>1
      <4>3. QED
        BY <2>5, <3>1, <4>1, <4>2
    <3>2. CASE ~(i < n)
      <4>1. i = n /\ ~(i < row) /\ (n - 1) + 1 = n
        BY <3>0, <3>2
      <4>2. agenda'[n] = q
        BY <2>6, <2>7, <3>0, <4>1
      <4>3. QED
        BY <3>2, <4>1, <4>2
    <3>3. QED
      BY <3>1, <3>2
  <2>9. agenda' \in Seq(WatchQueries) /\ Len(agenda') = n
    <3>1. n \in Nat /\ (n - 1) + 1 = n
      BY <1>3
    <3>2. QED
      BY <2>4, <2>6, <2>7, <3>1
  <2>10. QED
    BY <2>8, <2>9
<1>5. dueCount' \in 0..Len(agenda')
  BY <1>2, <1>3, <1>4
<1>6. ASSUME NEW i \in 1..n, NEW j \in 1..n, agenda'[i] = agenda'[j] PROVE i = j
  <2> DEFINE old(k) == IF k < row THEN k ELSE IF k < n THEN k + 1 ELSE row
  <2>1. \A k \in 1..n : old(k) \in 1..n /\ agenda'[k] = agenda[old(k)]
    BY <1>1, <1>3, <1>4
  <2>2. old(i) = old(j)
    BY <1>3, <1>6, <2>1
  <2>3. QED
    BY <1>3, <2>2
<1>7. ASSUME NEW p, Watched(p) PROVE Watched(p)'
  <2>1. PICK i \in 1..n : agenda[i] = p
    BY <1>3, <1>7 DEF Watched
  <2>2. CASE i = row
    BY <1>1, <1>3, <1>4, <2>1, <2>2 DEF Watched
  <2>3. CASE i < row
    BY <1>3, <1>4, <2>1, <2>3 DEF Watched
  <2>4. CASE i > row
    <3>1. i - 1 \in 1..n /\ ~(i - 1 < row) /\ i - 1 < n /\ (i - 1) + 1 = i
      BY <1>3, <2>4
    <3>2. agenda'[i - 1] = p
      BY <1>4, <2>1, <3>1
    <3>3. QED
      BY <1>4, <3>1, <3>2 DEF Watched
  <2>5. QED
    BY <1>3, <2>2, <2>3, <2>4
<1>8. QED
  BY <1>4, <1>5, <1>6, <1>7 DEF AgendaOK

LEMMA UpsertKeepsRows ==
  ASSUME AgendaOK, NEW q \in WatchQueries, UpsertWatch(q)
  PROVE  AgendaOK' /\ \A p : Watched(p) => Watched(p)'
<1>1. CASE Watched(q)
  BY <1>1 DEF UpsertWatch, AgendaOK, Watched
<1>2. CASE ~Watched(q)
  <2> DEFINE n == Len(agenda)
  <2>1. agenda' = Append(agenda, q) /\ dueCount' = dueCount
    BY <1>2 DEF UpsertWatch
  <2>2. /\ n \in Nat /\ agenda' \in Seq(WatchQueries) /\ Len(agenda') = n + 1
        /\ \A i \in 1..n : agenda'[i] = agenda[i]
        /\ agenda'[n + 1] = q /\ dueCount' \in 0..Len(agenda') /\ DOMAIN agenda = 1..n
        /\ DOMAIN agenda' = 1..(n + 1)
    BY <2>1 DEF AgendaOK
  <2>3. \A i \in 1..n : agenda[i] # q
    BY <1>2, <2>2 DEF Watched
  <2>4. ASSUME NEW i \in 1..(n + 1), NEW j \in 1..(n + 1), agenda'[i] = agenda'[j] PROVE i = j
    <3>1. (i \in 1..n \/ i = n + 1) /\ (j \in 1..n \/ j = n + 1)
      BY <2>2
    <3>2. QED
      BY <2>2, <2>3, <2>4, <3>1 DEF AgendaOK
  <2>5. \A p : Watched(p) => Watched(p)'
    BY <2>2 DEF Watched
  <2>6. QED
    BY <2>2, <2>4, <2>5 DEF AgendaOK
<1>3. QED
  BY <1>1, <1>2

\* A sequence that names nothing twice is no longer than what it names.
LEMMA NoRepeats ==
  ASSUME NEW T, IsFiniteSet(T), NEW n \in Nat, NEW f \in [1..n -> T],
         \A i, j \in 1..n : f[i] = f[j] => i = j
  PROVE  n <= Cardinality(T)
<1>1. f \in Injection(1..n, T)
  BY DEF Injection, IsInjective
<1>2. Cardinality(1..n) <= Cardinality(T) /\ Cardinality(1..n) = n
  BY <1>1, FS_Injection, FS_Interval
<1>3. QED
  BY <1>2

LEMMA AgendaFits ==
  ASSUME AgendaOK
  PROVE  agenda \in BoundedSeq(WatchQueries, Cardinality(WatchQueries))
<1> DEFINE n == Len(agenda)
<1>1. n \in Nat /\ agenda \in [1..n -> WatchQueries]
  BY DEF AgendaOK
<1>2. \A i, j \in 1..n : agenda[i] = agenda[j] => i = j
  BY DEF AgendaOK
<1>3. n <= Cardinality(WatchQueries)
  BY <1>1, <1>2, WatchAssumption, NoRepeats
<1>4. Cardinality(WatchQueries) \in Nat
  BY WatchAssumption, FS_CardinalityType
<1>5. n \in 0..Cardinality(WatchQueries)
  BY <1>1, <1>3, <1>4
<1>6. QED
  BY <1>1, <1>5 DEF BoundedSeq, SeqOf

-----------------------------------------------------------------------------
LEMMA WatchTypesInit == WatchInit => WatchTypesInv
<1> SUFFICES ASSUME WatchInit PROVE WatchTypesInv
  OBVIOUS
<1> USE WatchAssumption DEF WatchInit, Digests
<1>1. AgendaOK
  BY DEF AgendaOK
<1>2. RefreshOK /\ GroundingOK
  <2>1. (CHOOSE q \in WatchQueries : TRUE) \in WatchQueries
    OBVIOUS
  <2>2. QED
    BY <2>1 DEF RefreshOK, GroundingOK, NoRefresh, NoGrounding, RefreshSteps
<1>3. StoreOK
  <2>1. cache \in [CacheKeys -> CacheEntries]
    BY DEF CacheEntries, NoEntry
  <2>2. refreshes = {} /\ purged = {}
    OBVIOUS
  <2>3. autoWatch \in BOOLEAN /\ trouble \in BOOLEAN
    BY Zenon
  <2>4. news \in 1..MaxNews
    OBVIOUS
  <2>5. QED
    BY <2>1, <2>2, <2>3, <2>4 DEF StoreOK
<1>4. QED
  BY <1>1, <1>2, <1>3 DEF WatchTypesInv

\* A command or a turn that cancels the refresh leaves it where it is.
LEMMA CancelledRefreshIsOK ==
  ASSUME RefreshOK, CancelRefresh, agenda' = agenda
  PROVE  RefreshOK'
<1> DEFINE c == refresh.pc \notin {"idle", "stuck"}
<1>1. refresh' = [refresh EXCEPT !.cancelled = c] /\ c \in BOOLEAN
  BY DEF CancelRefresh
<1> HIDE DEF c
<1>2. QED
  BY <1>1 DEF RefreshOK, Watched

LEMMA RefreshKeepsWatched ==
  ASSUME RefreshOK, refresh' = refresh, \A p : Watched(p) => Watched(p)'
  PROVE  RefreshOK'
  BY DEF RefreshOK

LEMMA NothingIsOK ==
  /\ refresh' \in {NoRefresh, Stuck} => RefreshOK'
  /\ grounding' = NoGrounding => GroundingOK'
<1> USE WatchAssumption DEF Digests
<1>1. (CHOOSE q \in WatchQueries : TRUE) \in WatchQueries
  OBVIOUS
<1>2. ASSUME refresh' \in {NoRefresh, Stuck} PROVE RefreshOK'
  <2>1. CASE refresh' = NoRefresh
    BY <2>1 DEF RefreshOK, NoRefresh, RefreshSteps
  <2>2. CASE refresh' = Stuck
    BY <2>2 DEF RefreshOK, Stuck, RefreshSteps
  <2>3. QED
    BY <1>2, <2>1, <2>2
<1>3. ASSUME grounding' = NoGrounding PROVE GroundingOK'
  BY <1>1, <1>3 DEF GroundingOK, NoGrounding
<1>4. QED
  BY <1>2, <1>3

LEMMA GroundStepTypes ==
  ASSUME WatchTypesInv, GroundStep
  PROVE  WatchTypesInv'
<1> USE DEF WatchTypesInv
<1>1. ASSUME NEW valid \in BOOLEAN, LookInCache(valid) PROVE WatchTypesInv'
  <2>1. GroundingOK'
    BY <1>1, NothingIsOK DEF LookInCache, GroundingEnds, GroundingOK
  <2>2. UNCHANGED <<store, refresh, news, trouble>>
    BY <1>1 DEF LookInCache
  <2>3. QED
    BY <2>1, <2>2 DEF AgendaOK, RefreshOK, StoreOK, Watched, store
<1>2. ASSUME NEW d \in Digests, GroundSearchReturns(d) PROVE WatchTypesInv'
  BY <1>2 DEF GroundSearchReturns, AgendaOK, RefreshOK, GroundingOK, StoreOK, Watched, store
<1>3. ASSUME StoreGrounding PROVE WatchTypesInv'
  <2>1. GroundingOK'
    BY <1>3, NothingIsOK DEF StoreGrounding, GroundingEnds, GroundingOK
  <2>2. cache' \in [CacheKeys -> CacheEntries]
    BY <1>3, WatchAssumption
    DEF StoreGrounding, StoreOK, GroundingOK, CacheEntries, Failure, Evidence, Digests
  <2>3. UNCHANGED <<agenda, dueCount, refreshes, purged, autoWatch, refresh, news, trouble>>
    BY <1>3 DEF StoreGrounding
  <2>4. QED
    BY <2>1, <2>2, <2>3 DEF AgendaOK, RefreshOK, StoreOK, Watched
<1>4. ASSUME WatchGrounded PROVE WatchTypesInv'
  <2>1. grounding.query \in WatchQueries /\ UpsertWatch(grounding.query)
    BY <1>4 DEF WatchGrounded, GroundingOK
  <2>2. AgendaOK' /\ \A p : Watched(p) => Watched(p)'
    BY <2>1, UpsertKeepsRows
  <2>3. GroundingOK' /\ RefreshOK'
    BY <1>4, <2>2, NothingIsOK, RefreshKeepsWatched DEF WatchGrounded, GroundingEnds
  <2>4. StoreOK'
    BY <1>4 DEF WatchGrounded, UpsertWatch, StoreOK
  <2>5. QED
    BY <2>2, <2>3, <2>4
<1>5. QED
  BY <1>1, <1>2, <1>3, <1>4 DEF GroundStep

LEMMA RefreshStepTypes ==
  ASSUME WatchTypesInv, RefreshStep
  PROVE  WatchTypesInv'
<1> USE DEF WatchTypesInv
<1>1. ASSUME StartMaintenance PROVE WatchTypesInv'
  <2>1. RefreshOK'
    BY <1>1 DEF StartMaintenance, RefreshOK, RefreshSteps, Watched, store
  <2>2. QED
    BY <1>1, <2>1 DEF StartMaintenance, AgendaOK, GroundingOK, StoreOK, store
<1>2. ASSUME NEW skips \in BOOLEAN, SelectDue(skips) PROVE WatchTypesInv'
  <2>1. UNCHANGED <<store, grounding, news, trouble>>
    BY <1>2 DEF SelectDue
  <2>2. CASE refresh' = NoRefresh
    BY <2>1, <2>2, NothingIsOK DEF AgendaOK, GroundingOK, StoreOK, store
  <2>3. CASE refresh' = [refresh EXCEPT !.pc = "next", !.batch = DueWatches]
    <3>1. DueWatches \in Seq(WatchQueries) /\ \A k \in 1..Len(DueWatches) : Watched(DueWatches[k])
      BY DueWatchesAreRows
    <3> DEFINE due == DueWatches
    <3>2. PICK b \in Seq(WatchQueries) : b = due /\ \A k \in 1..Len(b) : Watched(b[k])
      BY <3>1
    <3>3. refresh' = [refresh EXCEPT !.pc = "next", !.batch = b]
      BY <2>3, <3>2
    <3>4. agenda' = agenda
      BY <2>1 DEF store
    <3>5. RefreshOK'
      BY <3>2, <3>3, <3>4 DEF RefreshOK, RefreshSteps, Watched
    <3>6. QED
      BY <2>1, <3>5 DEF AgendaOK, GroundingOK, StoreOK, store
  <2>4. QED
    BY <1>2, <2>2, <2>3 DEF SelectDue
<1>3. ASSUME NextDueWatch PROVE WatchTypesInv'
  <2>1. RefreshOK'
    BY <1>3, NothingIsOK DEF NextDueWatch, RefreshOK, RefreshSteps, Watched, store
  <2>2. QED
    BY <1>3, <2>1 DEF NextDueWatch, AgendaOK, GroundingOK, StoreOK, store
<1>4. ASSUME NEW d \in Digests, RefreshSearchReturns(d) PROVE WatchTypesInv'
  <2>1. RefreshOK'
    BY <1>4 DEF RefreshSearchReturns, RefreshOK, RefreshSteps, Watched, store
  <2>2. QED
    BY <1>4, <2>1 DEF RefreshSearchReturns, AgendaOK, GroundingOK, StoreOK, store
<1>5. ASSUME CacheRefreshed PROVE WatchTypesInv'
  <2>1. RefreshOK'
    BY <1>5 DEF CacheRefreshed, RefreshOK, RefreshSteps, Watched
  <2>2. cache' \in [CacheKeys -> CacheEntries]
    BY <1>5 DEF CacheRefreshed, StoreOK, RefreshOK, CacheEntries, Evidence
  <2>3. QED
    BY <1>5, <2>1, <2>2 DEF CacheRefreshed, AgendaOK, GroundingOK, StoreOK
<1>6. ASSUME RecordRefreshed PROVE WatchTypesInv'
  <2>1. RefreshOK'
    BY <1>6 DEF RecordRefreshed, RefreshOK, RefreshSteps, Watched
  <2>2. Head(refresh.batch) \in WatchQueries /\ refresh.evidence \in 1..MaxNews
    BY <1>6, WatchAssumption, HeadTailProperties DEF RecordRefreshed, RefreshOK, Digests
  <2>3. (refreshes' \cup purged') \subseteq WatchQueries \X {SourcesOf[d] : d \in 1..MaxNews}
    BY <1>6, <2>2 DEF RecordRefreshed, StoreOK
  <2>4. QED
    BY <1>6, <2>1, <2>3 DEF RecordRefreshed, AgendaOK, GroundingOK, StoreOK
<1>7. ASSUME CompleteRefreshed PROVE WatchTypesInv'
  <2>1. refresh.batch \in Seq(WatchQueries) /\ refresh.batch # <<>>
    BY <1>7 DEF CompleteRefreshed, RefreshOK
  <2>2. PICK b \in Seq(WatchQueries) : b = Tail(refresh.batch)
    BY <2>1, HeadTailProperties
  <2>3. PICK q \in WatchQueries : q = Head(refresh.batch)
    BY <2>1, HeadTailProperties
  <2>4. /\ q = refresh.batch[1] /\ 1 \in 1..Len(refresh.batch)
        /\ \A i \in 1..Len(b) : i + 1 \in 1..Len(refresh.batch) /\ b[i] = refresh.batch[i + 1]
    BY <2>1, <2>2, <2>3, HeadTailProperties
  <2>5. Watched(q) /\ \A i \in 1..Len(b) : Watched(b[i])
    BY <2>4 DEF RefreshOK
  <2>6. AgendaOK' /\ \A p : Watched(p) => Watched(p)'
    <3>1. Reschedule(q)
      BY <1>7, <2>3 DEF CompleteRefreshed, CompleteWatch
    <3>2. QED
      BY <2>5, <3>1, RescheduleKeepsRows
  <2>7. RefreshOK'
    <3>1. refresh' = [refresh EXCEPT !.pc = "next", !.batch = b, !.evidence = 0]
      BY <1>7, <2>2 DEF CompleteRefreshed
    <3>2. refresh' \in [pc : RefreshSteps, batch : Seq(WatchQueries), evidence : Digests,
                        cancelled : BOOLEAN]
      <4>1. refresh' = [pc |-> "next", batch |-> b, evidence |-> 0,
                        cancelled |-> refresh.cancelled]
        BY <3>1 DEF RefreshOK
      <4>2. refresh.cancelled \in BOOLEAN
        BY DEF RefreshOK
      <4>3. 0 \in Digests /\ "next" \in RefreshSteps
        BY WatchAssumption DEF Digests, RefreshSteps
      <4>4. QED
        BY <4>1, <4>2, <4>3
    <3>3. refresh'.pc = "next" /\ refresh'.batch = b
      BY <3>1 DEF RefreshOK
    <3>4. \A i \in 1..Len(b) : Watched(b[i])'
      BY <2>5, <2>6
    <3>5. QED
      BY <3>2, <3>3, <3>4 DEF RefreshOK
  <2>8. QED
    BY <1>7, <2>6, <2>7 DEF CompleteRefreshed, GroundingOK, StoreOK
<1>8. QED
  BY <1>1, <1>2, <1>3, <1>4, <1>5, <1>6, <1>7 DEF RefreshStep

LEMMA WatchTypesStep == WatchTypesInv /\ [WatchNext]_watchVars => WatchTypesInv'
<1> SUFFICES ASSUME WatchTypesInv, [WatchNext]_watchVars PROVE WatchTypesInv'
  OBVIOUS
<1> USE DEF WatchTypesInv
<1>1. ASSUME NEW q \in WatchQueries, AskGrounded(q) PROVE WatchTypesInv'
  <2>1. RefreshOK'
    BY <1>1, CancelledRefreshIsOK DEF AskGrounded, store
  <2>2. QED
    BY <1>1, <2>1, WatchAssumption DEF AskGrounded, AgendaOK, GroundingOK, StoreOK, store, Digests
<1>2. ASSUME NEW active, NEW auto \in BOOLEAN, WatchCommand(active, auto) PROVE WatchTypesInv'
  <2>1. RefreshOK'
    BY <1>2, CancelledRefreshIsOK DEF WatchCommand
  <2>2. QED
    BY <1>2, <2>1 DEF WatchCommand, AgendaOK, GroundingOK, StoreOK
<1>3. ASSUME NEW q \in WatchQueries, RemoveWatch(q) PROVE WatchTypesInv'
  BY <1>2, <1>3 DEF RemoveWatch, StoreOK
<1>4. ASSUME SwitchAutoWatch PROVE WatchTypesInv'
  BY <1>2, <1>4 DEF SwitchAutoWatch
<1>5. ASSUME NEW k \in CacheKeys, CacheExpires(k) PROVE WatchTypesInv'
  <2>1. cache' \in [CacheKeys -> CacheEntries]
    BY <1>5, WatchAssumption DEF CacheExpires, StoreOK, CacheEntries, NoEntry, Digests
  <2>2. QED
    BY <1>5, <2>1 DEF CacheExpires, AgendaOK, RefreshOK, GroundingOK, StoreOK, Watched
<1>6. ASSUME CadencePasses PROVE WatchTypesInv'
  <2>1. AgendaOK'
    BY <1>6 DEF CadencePasses, AgendaOK
  <2>2. QED
    BY <1>6, <2>1 DEF CadencePasses, RefreshOK, GroundingOK, StoreOK, Watched
<1>7. ASSUME NewsBreaks PROVE WatchTypesInv'
  <2>1. news' \in 1..MaxNews
    BY <1>7, WatchAssumption DEF NewsBreaks, StoreOK
  <2>2. QED
    BY <1>7, <2>1 DEF NewsBreaks, AgendaOK, RefreshOK, GroundingOK, StoreOK, Watched, store
<1>8. ASSUME ProcessEnds PROVE WatchTypesInv'
  <2>1. RefreshOK' /\ GroundingOK'
    BY <1>8, NothingIsOK DEF ProcessEnds
  <2>2. QED
    BY <1>8, <2>1 DEF ProcessEnds, AgendaOK, StoreOK, store
<1>11. ASSUME NEW e \in refreshes, PurgeEvent(e) PROVE WatchTypesInv'
  <2>1. RefreshOK'
    BY <1>11, CancelledRefreshIsOK DEF PurgeEvent
  <2>2. refreshes' \cup purged' = refreshes \cup purged
    BY <1>11 DEF PurgeEvent
  <2>3. QED
    BY <1>11, <2>1, <2>2 DEF PurgeEvent, AgendaOK, GroundingOK, StoreOK
<1>12. ASSUME GroundFails PROVE WatchTypesInv'
  BY <1>12, NothingIsOK
     DEF GroundFails, GroundingEnds, AgendaOK, RefreshOK, StoreOK, Watched, store
<1>13. ASSUME RefreshFails PROVE WatchTypesInv'
  BY <1>13, NothingIsOK DEF RefreshFails, AgendaOK, GroundingOK, StoreOK, store
<1>14. ASSUME TroubleBegins \/ TroubleEnds PROVE WatchTypesInv'
  <2>1. UNCHANGED <<store, grounding, refresh, news>> /\ trouble' \in BOOLEAN
    BY <1>14 DEF TroubleBegins, TroubleEnds
  <2>2. QED
    BY <2>1 DEF AgendaOK, RefreshOK, GroundingOK, StoreOK, Watched, store
<1>9. CASE UNCHANGED watchVars
  BY <1>9 DEF watchVars, store, AgendaOK, RefreshOK, GroundingOK, StoreOK, Watched
<1>10. QED
  BY <1>1, <1>3, <1>4, <1>5, <1>6, <1>7, <1>8, <1>9, <1>11, <1>12, <1>13, <1>14,
     GroundStepTypes, RefreshStepTypes DEF WatchNext

LEMMA WatchIsTyped == WatchIInv /\ WatchTypesInv => WatchTypeOK
<1> SUFFICES ASSUME WatchIInv, WatchTypesInv PROVE WatchTypeOK
  OBVIOUS
<1>1. agenda \in BoundedSeq(WatchQueries, Cardinality(WatchQueries))
  BY AgendaFits DEF WatchTypesInv
<1>2. /\ dueCount \in 0..Len(agenda)
      /\ watch \in [WatchQueries -> [active : BOOLEAN, digest : Digests, status : WatchStatuses]]
  BY DEF WatchTypesInv, AgendaOK, WatchIInv, WatchTyped, WatchRows
<1>3. refresh.pc \in RefreshSteps /\ refresh.cancelled \in BOOLEAN
  BY DEF WatchTypesInv, RefreshOK
<1>4. QED
  BY <1>1, <1>2, <1>3 DEF WatchTypeOK, WatchTypesInv, GroundingOK, StoreOK, RefreshSteps,
     WatchStatuses

\* The rows, the agenda, the cache, the events and both threads have their types, for any queries,
\* sources, turns, commands and ends of the process: the agenda names each fact once.
THEOREM WatchTypes == WatchSpec => []WatchTypeOK
<1>1. QED
  BY WatchInitInv, WatchTypesInit, WatchStepInv, WatchTypesStep, WatchIsTyped, PTL DEF WatchSpec

-----------------------------------------------------------------------------
(***************************************************************************)
(* The import, for any sources, commands, deaths and messages in between:  *)
(* what it has passed is there, and what it appends is not.                *)
(***************************************************************************)
Candidate == 1..Len(LegacyMessages)
Message == [text : STRING, fingerprint : 0..Len(LegacyMessages)]

IsThere(text) == \E i \in 1..Len(recovered) : recovered[i].text = text

\* A session is left over by the death of one command only.
ImportTyped ==
  /\ recovered \in Seq(Message)
  /\ next \in 0..Len(LegacyMessages) + 1
  /\ opened \in BOOLEAN /\ longSeen \subseteq Long
  /\ spare \in Nat /\ imports \in 0..MaxImports
  /\ spare <= imports /\ (opened => spare < imports)
  /\ opened => next = 0

\* A fingerprint names its candidate, and what the import has passed is there.
PassedIsThere ==
  /\ \A i \in 1..Len(recovered) :
       recovered[i].fingerprint # 0 => recovered[i].text = LegacyMessages[recovered[i].fingerprint]
  /\ \A text \in longSeen : IsThere(text)
  /\ \A c \in Candidate : c < next => IsThere(LegacyMessages[c])
  /\ whole => \A c \in Candidate : IsThere(LegacyMessages[c])

\* The long messages between two others.
Between(i, j) == {k \in LongAfter(i) : k < j}

Alone(i, j) ==
  i < j /\ recovered[j].fingerprint # 0 =>
    /\ recovered[i].fingerprint # recovered[j].fingerprint
    /\ recovered[i].text = recovered[j].text /\ recovered[i].text \in Long =>
         Cardinality(Between(i, j)) >= Window

NoneIsTwice == \A i, j \in 1..Len(recovered) : Alone(i, j)

ImportIInv == ImportTyped /\ PassedIsThere /\ NoneIsTwice

LEMMA ImportInitInv == ImportInit => ImportIInv
<1> SUFFICES ASSUME ImportInit PROVE ImportIInv
  OBVIOUS
<1>1. Len(recovered) = 0 /\ 1..Len(recovered) = {} /\ Len(LegacyMessages) \in Nat
  BY ImportAssumption DEF ImportInit
<1>2. ImportTyped
  <2>1. recovered \in Seq(Message)
    BY DEF ImportInit
  <2>2. next \in 0..Len(LegacyMessages) + 1
    BY <1>1 DEF ImportInit
  <2>3. spare \in Nat /\ imports \in 0..MaxImports /\ spare <= imports
    BY ImportAssumption DEF ImportInit
  <2>4. opened \in BOOLEAN /\ longSeen \subseteq Long
    BY DEF ImportInit
  <2>5. ~opened
    BY DEF ImportInit
  <2>6. QED
    BY <2>1, <2>2, <2>3, <2>4, <2>5 DEF ImportTyped
<1>3. PassedIsThere
  BY <1>1 DEF ImportInit, PassedIsThere, Candidate
<1>4. NoneIsTwice
  BY <1>1 DEF NoneIsTwice
<1>5. QED
  BY <1>2, <1>3, <1>4 DEF ImportIInv

\* As long as no message comes, nothing comes twice.
LEMMA NothingComes ==
  ASSUME NoneIsTwice, recovered' = recovered PROVE NoneIsTwice'
<1>1. \A i, j : Between(i, j)' = Between(i, j)
  BY DEF Between, LongAfter
<1>2. QED
  BY <1>1 DEF NoneIsTwice, Alone

\* A message comes: what was there stays, and what lies between two of the earlier ones too.
LEMMA MessageComes ==
  ASSUME ImportIInv, NEW message \in Message, recovered' = Append(recovered, message),
         message.fingerprint # 0 =>
           /\ message.text = LegacyMessages[message.fingerprint]
           /\ ~IsRecorded(message.fingerprint) /\ ~ContentExists(message.text)
  PROVE  /\ recovered' \in Seq(Message) /\ NoneIsTwice'
         /\ \A text : IsThere(text) => IsThere(text)'
         /\ IsThere(message.text)'
         /\ \A i \in 1..Len(recovered') :
              recovered'[i].fingerprint # 0 => recovered'[i].text = LegacyMessages[recovered'[i].fingerprint]
<1>0. recovered \in Seq(Message)
  BY DEF ImportIInv, ImportTyped
<1> PICK n \in Nat : n = Len(recovered)
  BY <1>0
<1>1. n \in Nat /\ recovered \in Seq(Message) /\ Window \in Nat
  BY <1>0, ImportAssumption
<1>2. /\ recovered' \in Seq(Message) /\ Len(recovered') = n + 1 /\ recovered'[n + 1] = message
      /\ \A i \in 1..n : recovered'[i] = recovered[i]
  BY <1>1
<1>3. 1..Len(recovered') = (1..n) \cup {n + 1} /\ n + 1 \notin 1..n /\ 1..n = 1..Len(recovered)
  BY <1>1, <1>2
<1>4. /\ \A text : IsThere(text) => IsThere(text)'
      /\ IsThere(message.text)'
  BY <1>1, <1>2, <1>3 DEF IsThere
<1>5. \A i \in 1..Len(recovered') :
        recovered'[i].fingerprint # 0 => recovered'[i].text = LegacyMessages[recovered'[i].fingerprint]
  BY <1>2, <1>3 DEF ImportIInv, PassedIsThere
<1>6. ASSUME NEW i \in 1..n, NEW j \in 1..n + 1, i < j
      PROVE  Between(i, j)' = Between(i, j)
  <2>1. \A k \in i + 1..n + 1 : k < j => k \in i + 1..n /\ k \in 1..n
    BY <1>1
  <2>2. \A k \in i + 1..n : k \in i + 1..n + 1 /\ k \in 1..n
    BY <1>1
  <2>3. QED
    BY <1>2, <2>1, <2>2 DEF Between, LongAfter
<1>7. ASSUME NEW i \in 1..n PROVE Between(i, n + 1) = LongAfter(i) /\ Cardinality(LongAfter(i)) \in Nat
  <2>1. \A k \in i + 1..n : k < n + 1
    BY <1>1
  <2>2. IsFiniteSet(i + 1..n) /\ LongAfter(i) \subseteq i + 1..n
    BY <1>1, FS_Interval DEF LongAfter
  <2>3. Cardinality(LongAfter(i)) \in Nat
    BY <2>2, FS_Subset, FS_CardinalityType
  <2>4. QED
    BY <2>1, <2>2, <2>3 DEF Between
<1>8. ASSUME NEW i \in 1..n, NEW j \in 1..n, i < j PROVE Alone(i, j)'
  <2>1. j \in 1..n + 1
    BY <1>3
  <2>2. Between(i, j)' = Between(i, j)
    BY <1>6, <1>8, <2>1
  <2>3. Alone(i, j)
    BY <1>3 DEF ImportIInv, NoneIsTwice
  <2>4. QED
    BY <1>2, <1>8, <2>2, <2>3 DEF Alone
<1>9. ASSUME NEW i \in 1..n PROVE Alone(i, n + 1)'
  <2>0. n + 1 \in 1..n + 1 /\ i < n + 1
    BY <1>1
  <2>1. Between(i, n + 1)' = LongAfter(i) /\ Cardinality(LongAfter(i)) \in Nat
    BY <2>0, <1>6, <1>7
  <2> SUFFICES ASSUME message.fingerprint # 0
               PROVE  /\ recovered[i].fingerprint # message.fingerprint
                      /\ recovered[i].text = message.text /\ recovered[i].text \in Long =>
                           Cardinality(LongAfter(i)) >= Window
    BY <1>2, <2>1 DEF Alone
  <2>2. recovered[i].fingerprint # message.fingerprint
    BY <1>3 DEF IsRecorded
  <2>3. ASSUME recovered[i].text = message.text, recovered[i].text \in Long
        PROVE  ~(Cardinality(LongAfter(i)) < Window)
    BY <1>3, <2>3 DEF ContentExists
  <2>4. QED
    BY <1>1, <2>1, <2>2, <2>3
<1>10. NoneIsTwice'
  <2>1. ASSUME NEW i \in 1..Len(recovered'), NEW j \in 1..Len(recovered') PROVE Alone(i, j)'
    <3>1. CASE i < j
      <4>1. i \in 1..n
        BY <1>1, <1>2, <3>1
      <4>2. QED
        BY <1>3, <1>8, <1>9, <3>1, <4>1
    <3>2. CASE ~(i < j)
      BY <3>2 DEF Alone
    <3>3. QED
      BY <3>1, <3>2
  <2>2. QED
    BY <2>1 DEF NoneIsTwice
<1>11. QED
  BY <1>2, <1>4, <1>5, <1>10

LEMMA ImportStepInv == ImportIInv /\ [ImportNext]_importVars => ImportIInv'
<1> SUFFICES ASSUME ImportIInv, [ImportNext]_importVars PROVE ImportIInv'
  OBVIOUS
<1>0. /\ ImportTyped /\ PassedIsThere /\ NoneIsTwice
      /\ LegacyMessages \in Seq(STRING) /\ Len(LegacyMessages) \in Nat /\ MaxImports \in Nat
      /\ \A c \in Candidate : LegacyMessages[c] \in STRING
  BY ImportAssumption DEF ImportIInv, Candidate
<1>1. CASE StartImport
  <2>1. recovered' = recovered /\ NoneIsTwice'
    BY <1>0, <1>1, NothingComes DEF StartImport
  <2>2. ImportTyped'
    <3>1. recovered' \in Seq(Message) /\ longSeen' \subseteq Long
      BY <1>0, <1>1, <2>1 DEF StartImport, ImportTyped
    <3>2. spare' \in Nat /\ imports' \in 0..MaxImports /\ spare' <= imports' /\ spare' < imports'
      BY <1>0, <1>1 DEF StartImport, ImportTyped
    <3>3. next = 0 /\ ~opened /\ opened \in BOOLEAN
      BY <1>0, <1>1 DEF StartImport, IsRunning, ImportTyped
    <3>4. (next' = 1 /\ opened' = opened) \/ (next' = next /\ opened' = TRUE)
      BY <1>1 DEF StartImport
    <3>5. next' \in 0..Len(LegacyMessages) + 1
      BY <1>0, <3>3, <3>4
    <3>6. opened' \in BOOLEAN /\ (opened' => next' = 0)
      <4>1. CASE opened' = opened
        BY <3>3, <4>1, Zenon
      <4>2. CASE next' = next /\ opened' = TRUE
        BY <3>3, <4>2, Zenon
      <4>3. QED
        BY <3>4, <4>1, <4>2
    <3>7. QED
      BY <3>1, <3>2, <3>5, <3>6 DEF ImportTyped
  <2>3. PassedIsThere'
    BY <1>0, <1>1, <2>1 DEF StartImport, IsRunning, ImportTyped, PassedIsThere, IsThere, Candidate
  <2>4. QED
    BY <2>1, <2>2, <2>3 DEF ImportIInv
<1>2. CASE KeepSession
  <2>1. recovered' = recovered /\ NoneIsTwice'
    BY <1>0, <1>2, NothingComes DEF KeepSession
  <2>2. ImportTyped'
    <3>1. recovered' \in Seq(Message) /\ longSeen' \subseteq Long
      BY <1>0, <1>2, <2>1 DEF KeepSession, ImportTyped
    <3>2. spare' \in Nat /\ imports' \in 0..MaxImports /\ spare' <= imports' /\ next' \in 0..Len(LegacyMessages) + 1
      BY <1>0, <1>2 DEF KeepSession, ImportTyped
    <3>3. ~opened' /\ opened' \in BOOLEAN
      BY <1>2 DEF KeepSession
    <3>4. QED
      BY <3>1, <3>2, <3>3 DEF ImportTyped
  <2>3. PassedIsThere'
    <3>1. next = 0 /\ next' = 1 /\ longSeen' = longSeen /\ whole' = whole
      BY <1>0, <1>2 DEF KeepSession, ImportTyped
    <3>2. QED
      BY <1>0, <1>2, <2>1, <3>1 DEF PassedIsThere, IsThere, Candidate
  <2>4. QED
    BY <2>1, <2>2, <2>3 DEF ImportIInv
<1>3. CASE SkipDuplicate
  <2>1. recovered' = recovered /\ NoneIsTwice'
    BY <1>0, <1>3, NothingComes DEF SkipDuplicate
  <2>2. ImportTyped'
    BY <1>0, <1>3, <2>1 DEF SkipDuplicate, IsCandidate, ImportTyped
  <2>3. IsThere(LegacyMessages[next])
    BY <1>0, <1>3 DEF SkipDuplicate, IsCandidate, PassedIsThere, ContentExists, IsThere
  <2>4. PassedIsThere'
    BY <1>0, <1>3, <2>1, <2>3
       DEF SkipDuplicate, IsCandidate, ImportTyped, PassedIsThere, IsThere, Candidate
  <2>5. QED
    BY <2>1, <2>2, <2>4 DEF ImportIInv
<1>4. CASE ImportMessage
  <2>1. /\ next \in Candidate /\ next # 0 /\ next' = next + 1
        /\ ~ContentExists(LegacyMessages[next])
        /\ UNCHANGED <<recoveredIn, spare, opened, whole, imports, talk>>
    BY <1>0, <1>4 DEF ImportMessage, IsCandidate, Candidate
  <2>2. CASE IsRecorded(next)
    <3>1. recovered' = recovered /\ longSeen' = longSeen /\ NoneIsTwice'
      BY <1>0, <1>4, <2>2, NothingComes DEF ImportMessage
    <3>2. IsThere(LegacyMessages[next])
      BY <1>0, <2>1, <2>2 DEF IsRecorded, PassedIsThere, IsThere
    <3>3. ImportTyped'
      BY <1>0, <2>1, <3>1 DEF ImportTyped, Candidate
    <3>4. PassedIsThere'
      <4>1. \A c \in Candidate : c < next + 1 => c < next \/ c = next
        BY <1>0, <2>1 DEF Candidate
      <4>2. \A text : IsThere(text) => IsThere(text)'
        BY <3>1 DEF IsThere
      <4>3. \A c \in Candidate : c < next' => IsThere(LegacyMessages[c])'
        BY <1>0, <2>1, <3>2, <4>1, <4>2 DEF PassedIsThere
      <4>4. QED
        BY <1>0, <2>1, <3>1, <4>2, <4>3 DEF PassedIsThere, Candidate
    <3>5. QED
      BY <3>1, <3>3, <3>4 DEF ImportIInv
  <2>3. CASE ~IsRecorded(next)
    <3>1. PICK c \in Candidate : c = next
      BY <2>1
    <3>2. PICK message : message = [text |-> LegacyMessages[c], fingerprint |-> c]
      OBVIOUS
    <3>3. /\ recovered' = Append(recovered, message)
          /\ longSeen' = longSeen \cup ({LegacyMessages[c]} \cap Long)
      BY <1>4, <2>3, <3>1, <3>2 DEF ImportMessage
    <3>4. /\ message \in Message /\ message.fingerprint = c /\ message.text = LegacyMessages[c]
      BY <1>0, <3>2 DEF Message, Candidate
    <3>5. /\ recovered' \in Seq(Message) /\ NoneIsTwice'
          /\ \A text : IsThere(text) => IsThere(text)'
          /\ IsThere(LegacyMessages[c])'
          /\ \A i \in 1..Len(recovered') :
               recovered'[i].fingerprint # 0 => recovered'[i].text = LegacyMessages[recovered'[i].fingerprint]
      BY <2>1, <2>3, <3>1, <3>3, <3>4, MessageComes
    <3>6. ImportTyped'
      BY <1>0, <2>1, <3>3, <3>5 DEF ImportTyped, Candidate
    <3>7. PassedIsThere'
      <4>1. \A text \in longSeen' : IsThere(text)'
        BY <1>0, <3>3, <3>5 DEF PassedIsThere
      <4>2. \A d \in Candidate : d < next + 1 => d < next \/ d = c
        BY <1>0, <2>1, <3>1 DEF Candidate
      <4>3. \A d \in Candidate : d < next' => IsThere(LegacyMessages[d])'
        BY <1>0, <2>1, <3>5, <4>2 DEF PassedIsThere
      <4>4. whole' => \A d \in Candidate : IsThere(LegacyMessages[d])'
        BY <1>0, <2>1, <3>5 DEF PassedIsThere
      <4>5. QED
        BY <3>5, <4>1, <4>3, <4>4 DEF PassedIsThere, Candidate
    <3>8. QED
      BY <3>5, <3>6, <3>7 DEF ImportIInv
  <2>4. QED
    BY <2>2, <2>3
<1>5. CASE FinishImport
  <2>1. recovered' = recovered /\ NoneIsTwice'
    BY <1>0, <1>5, NothingComes DEF FinishImport
  <2>2. ImportTyped'
    BY <1>0, <1>5, <2>1 DEF FinishImport, ImportTyped
  <2>3. PassedIsThere'
    BY <1>0, <1>5, <2>1 DEF FinishImport, ImportTyped, PassedIsThere, IsThere, Candidate
  <2>4. QED
    BY <2>1, <2>2, <2>3 DEF ImportIInv
<1>6. CASE TalkOn
  <2>1. PICK text \in Talk : recovered' = Append(recovered, [text |-> text, fingerprint |-> 0])
    BY <1>6 DEF TalkOn
  <2> DEFINE message == [text |-> text, fingerprint |-> 0]
  <2>2. message \in Message /\ message.fingerprint = 0
    BY <1>0, ImportAssumption DEF Message
  <2>3. recovered' = Append(recovered, message)
    BY <2>1
  <2> HIDE DEF message
  <2>4. /\ recovered' \in Seq(Message) /\ NoneIsTwice'
        /\ \A old : IsThere(old) => IsThere(old)'
        /\ \A i \in 1..Len(recovered') :
             recovered'[i].fingerprint # 0 => recovered'[i].text = LegacyMessages[recovered'[i].fingerprint]
    BY <2>2, <2>3, MessageComes
  <2>5. ImportTyped'
    BY <1>0, <1>6, <2>4 DEF TalkOn, ImportTyped
  <2>6. next = 0 /\ next' = 0 /\ whole' = whole /\ longSeen' = longSeen
    BY <1>6 DEF TalkOn, IsRunning
  <2>7. PassedIsThere'
    BY <1>0, <2>4, <2>6 DEF PassedIsThere, Candidate
  <2>8. QED
    BY <2>4, <2>5, <2>7 DEF ImportIInv
<1>7. CASE ImportDies
  <2>1. recovered' = recovered /\ NoneIsTwice'
    BY <1>0, <1>7, NothingComes DEF ImportDies
  <2>2. ImportTyped'
    <3>1. recovered' \in Seq(Message) /\ longSeen' \subseteq Long
      BY <1>0, <1>7, <2>1 DEF ImportDies, ImportTyped
    <3>2. imports' \in 0..MaxImports /\ next' = 0 /\ next' \in 0..Len(LegacyMessages) + 1
      BY <1>0, <1>7 DEF ImportDies, ImportTyped
    <3>3. spare' \in Nat /\ spare' <= imports'
      BY <1>0, <1>7 DEF ImportDies, ImportTyped
    <3>4. ~opened' /\ opened' \in BOOLEAN
      BY <1>7 DEF ImportDies
    <3>5. QED
      BY <3>1, <3>2, <3>3, <3>4 DEF ImportTyped
  <2>3. PassedIsThere'
    BY <1>0, <1>7, <2>1 DEF ImportDies, ImportTyped, PassedIsThere, IsThere, Candidate
  <2>4. QED
    BY <2>1, <2>2, <2>3 DEF ImportIInv
<1>8. CASE UNCHANGED importVars
  <2>1. recovered' = recovered /\ NoneIsTwice'
    BY <1>0, <1>8, NothingComes DEF importVars
  <2>2. QED
    BY <1>0, <1>8, <2>1 DEF importVars, ImportIInv, ImportTyped, PassedIsThere, IsThere, Candidate
<1>9. QED
  BY <1>1, <1>2, <1>3, <1>4, <1>5, <1>6, <1>7, <1>8 DEF ImportNext

LEMMA ImportIsRight == ImportIInv => ImportTypeOK /\ RecoveredOnce
<1> SUFFICES ASSUME ImportIInv PROVE ImportTypeOK /\ RecoveredOnce
  OBVIOUS
<1>1. ImportTypeOK
  BY ImportAssumption DEF ImportIInv, ImportTyped, ImportTypeOK, Message
<1>2. RecoveredOnce
  BY DEF ImportIInv, PassedIsThere, NoneIsTwice, Alone, Between, Candidate, IsThere, RecoveredOnce
<1>3. QED
  BY <1>1, <1>2

\* For any messages, commands and deaths in between, and with any number of messages of the cockpit
\* among them: a completed import has every message of both sources, none of them twice, and a long
\* text a second time only when its first copy had left the window of content_exists.
THEOREM EveryMessageIsRecoveredOnce == ImportSpec => []RecoveredOnce
<1>1. QED
  BY ImportInitInv, ImportStepInv, ImportIsRight, PTL DEF ImportSpec

-----------------------------------------------------------------------------
(***************************************************************************)
(* The filter of hidden memories, for any drafts, chunks and markers.  It  *)
(* holds back one symbol less than a marker is long: no marker begins      *)
(* before what is held back, so none is missed and none is found early.    *)
(***************************************************************************)
Texts == Seq(STRING)

\* A place is where each symbol of the marker stands.
LEMMA PlacesAre ==
  ASSUME NEW text \in Texts, NEW marker \in Texts, Len(marker) > 0, NEW i \in Int
  PROVE  i \in Places(text, marker) <=>
           /\ i \in 1..Len(text) /\ i + Len(marker) - 1 <= Len(text)
           /\ \A k \in 1..Len(marker) : text[i + k - 1] = marker[k]
<1> SUFFICES ASSUME i \in 1..Len(text), i + Len(marker) - 1 <= Len(text)
             PROVE  SubSeq(text, i, i + Len(marker) - 1) = marker <=>
                      \A k \in 1..Len(marker) : text[i + k - 1] = marker[k]
  BY DEF Places
<1> DEFINE there == SubSeq(text, i, i + Len(marker) - 1)
<1>1. Len(text) \in Nat /\ Len(marker) \in Nat /\ i \in Int /\ i + Len(marker) - 1 \in Int
  BY DEF Texts
<1>2. \A j \in i..i + Len(marker) - 1 : text[j] \in STRING
  BY <1>1 DEF Texts
<1>3. there \in Texts /\ Len(there) = Len(marker)
      /\ \A k \in 1..Len(marker) : there[k] = text[i + k - 1]
  BY <1>1, <1>2, SubSeqProperties DEF Texts
<1> HIDE DEF there
<1>4. (\A k \in 1..Len(marker) : there[k] = marker[k]) => there = marker
  BY <1>3, SeqEqual DEF Texts
<1>5. there = marker <=> \A k \in 1..Len(marker) : text[i + k - 1] = marker[k]
  BY <1>3, <1>4
<1>6. QED
  BY <1>5 DEF there

\* The places in a text that is put together.
LEMMA PlacesOfParts ==
  ASSUME NEW text \in Texts, NEW more \in Texts, NEW marker \in Texts, Len(marker) > 0, NEW i \in Int
  PROVE  /\ i + Len(marker) - 1 <= Len(text) =>
              (i \in Places(text \o more, marker) <=> i \in Places(text, marker))
         /\ i > Len(text) => (i \in Places(text \o more, marker) <=> i - Len(text) \in Places(more, marker))
<1> DEFINE full == text \o more
<1>1. Len(text) \in Nat /\ Len(more) \in Nat /\ Len(marker) \in Nat
  BY DEF Texts
<1>2. /\ full \in Texts /\ Len(full) = Len(text) + Len(more)
      /\ \A j \in 1..Len(text) + Len(more) : full[j] = IF j <= Len(text) THEN text[j] ELSE more[j - Len(text)]
  BY ConcatProperties DEF Texts
<1> HIDE DEF full
<1>3. ASSUME i + Len(marker) - 1 <= Len(text)
      PROVE  i \in Places(full, marker) <=> i \in Places(text, marker)
  <2>1. CASE i < 1
    BY <1>2, <2>1, PlacesAre
  <2>2. CASE i >= 1
    <3>1. i \in 1..Len(text) /\ i \in 1..Len(full) /\ i + Len(marker) - 1 <= Len(full)
      BY <1>1, <1>2, <1>3, <2>2
    <3>2. \A k \in 1..Len(marker) : full[i + k - 1] = text[i + k - 1]
      BY <1>1, <1>2, <1>3, <2>2
    <3>3. i \in Places(full, marker) <=> \A k \in 1..Len(marker) : full[i + k - 1] = marker[k]
      BY <1>2, <3>1, PlacesAre
    <3>4. i \in Places(text, marker) <=> \A k \in 1..Len(marker) : text[i + k - 1] = marker[k]
      BY <1>3, <3>1, PlacesAre
    <3>5. QED
      BY <3>2, <3>3, <3>4
  <2>3. QED
    BY <2>1, <2>2
<1>4. ASSUME i > Len(text)
      PROVE  i \in Places(full, marker) <=> i - Len(text) \in Places(more, marker)
  <2> DEFINE j == i - Len(text)
  <2>1. j \in Int /\ j >= 1
    BY <1>1, <1>4
  <2>2. i \in 1..Len(full) /\ i + Len(marker) - 1 <= Len(full)
           <=> j \in 1..Len(more) /\ j + Len(marker) - 1 <= Len(more)
    BY <1>1, <1>2, <1>4
  <2>3. ASSUME j + Len(marker) - 1 <= Len(more), NEW k \in 1..Len(marker)
        PROVE  full[i + k - 1] = more[j + k - 1]
    <3>1. i + k - 1 \in 1..Len(text) + Len(more) /\ i + k - 1 > Len(text) /\ i + k - 1 - Len(text) = j + k - 1
      BY <1>1, <1>4, <2>3
    <3>2. QED
      BY <1>1, <1>2, <3>1
  <2>4. i \in Places(full, marker) <=>
           /\ i \in 1..Len(full) /\ i + Len(marker) - 1 <= Len(full)
           /\ \A k \in 1..Len(marker) : full[i + k - 1] = marker[k]
    BY <1>2, PlacesAre
  <2>5. j \in Places(more, marker) <=>
           /\ j \in 1..Len(more) /\ j + Len(marker) - 1 <= Len(more)
           /\ \A k \in 1..Len(marker) : more[j + k - 1] = marker[k]
    BY <2>1, PlacesAre
  <2> HIDE DEF j
  <2>6. i \in Places(full, marker) <=> j \in Places(more, marker)
    BY <2>2, <2>3, <2>4, <2>5
  <2>7. QED
    BY <2>6 DEF j
<1>5. QED
  BY <1>3, <1>4 DEF full

First(text, marker) == CHOOSE i \in Places(text, marker) : \A j \in Places(text, marker) : i <= j

LEMMA FirstPlace ==
  ASSUME NEW text \in Texts, NEW marker \in Texts, Len(marker) > 0, Holds(text, marker)
  PROVE  /\ First(text, marker) \in Places(text, marker)
         /\ First(text, marker) \in 1..Len(text) /\ First(text, marker) + Len(marker) - 1 <= Len(text)
         /\ \A j \in Places(text, marker) : First(text, marker) <= j
<1>1. Places(text, marker) \subseteq Nat /\ Places(text, marker) # {}
  BY DEF Holds, Places
<1>2. \E i \in Places(text, marker) : \A j \in Places(text, marker) : i <= j
  BY <1>1, LeastNumber
<1>3. First(text, marker) \in Places(text, marker) /\ \A j \in Places(text, marker) : First(text, marker) <= j
  BY <1>2 DEF First
<1>4. QED
  BY <1>3 DEF Places

LEMMA FirstIs ==
  ASSUME NEW text \in Texts, NEW marker \in Texts, NEW i \in Places(text, marker),
         \A j \in Places(text, marker) : i <= j
  PROVE  First(text, marker) = i
<1>1. Places(text, marker) \subseteq Nat
  BY DEF Places
<1>2. First(text, marker) \in Places(text, marker) /\ \A j \in Places(text, marker) : First(text, marker) <= j
  BY DEF First
<1>3. QED
  BY <1>1, <1>2

LEMMA CutText ==
  ASSUME NEW text \in Texts, NEW n \in 0..Len(text)
  PROVE  /\ Upto(text, n) \in Texts /\ Len(Upto(text, n)) = n
         /\ \A k \in 1..n : Upto(text, n)[k] = text[k]
         /\ Remainder(text, n) \in Texts /\ Len(Remainder(text, n)) = Len(text) - n
         /\ \A k \in 1..Len(text) - n : Remainder(text, n)[k] = text[n + k]
<1>1. Len(text) \in Nat /\ \A k \in 1..Len(text) : text[k] \in STRING
  BY DEF Texts
<1>2. Upto(text, n) \in Texts /\ Len(Upto(text, n)) = n /\ \A k \in 1..n : Upto(text, n)[k] = text[k]
  <2>1. \A k \in 1..n : text[k] \in STRING
    BY <1>1
  <2>2. QED
    BY <1>1, <2>1, SubSeqProperties DEF Upto, Texts
<1>3. /\ Remainder(text, n) \in Texts /\ Len(Remainder(text, n)) = Len(text) - n
      /\ \A k \in 1..Len(text) - n : Remainder(text, n)[k] = text[n + k]
  <2>1. \A k \in n + 1..Len(text) : text[k] \in STRING
    BY <1>1
  <2>2. /\ SubSeq(text, n + 1, Len(text)) \in Seq(STRING)
        /\ Len(SubSeq(text, n + 1, Len(text))) = IF n + 1 <= Len(text) THEN Len(text) - (n + 1) + 1 ELSE 0
        /\ \A k \in 1..Len(text) - (n + 1) + 1 : SubSeq(text, n + 1, Len(text))[k] = text[n + 1 + k - 1]
    BY <1>1, <2>1, SubSeqProperties
  <2>3. QED
    BY <1>1, <2>2 DEF Remainder, Texts
<1>4. QED
  BY <1>2, <1>3

\* A text put together is cut in its second part, or in its first.
LEMMA CutSecond ==
  ASSUME NEW a \in Texts, NEW b \in Texts, NEW n \in 0..Len(b)
  PROVE  /\ Upto(a \o b, Len(a) + n) = a \o Upto(b, n)
         /\ Remainder(a \o b, Len(a) + n) = Remainder(b, n)
<1> DEFINE full == a \o b
           head == a \o Upto(b, n)
<1>1. Len(a) \in Nat /\ Len(b) \in Nat /\ n \in Nat
  BY DEF Texts
<1>2. /\ full \in Texts /\ Len(full) = Len(a) + Len(b)
      /\ \A j \in 1..Len(a) + Len(b) : full[j] = IF j <= Len(a) THEN a[j] ELSE b[j - Len(a)]
  BY ConcatProperties DEF Texts
<1>3. /\ Upto(b, n) \in Texts /\ Len(Upto(b, n)) = n /\ \A k \in 1..n : Upto(b, n)[k] = b[k]
      /\ Remainder(b, n) \in Texts /\ Len(Remainder(b, n)) = Len(b) - n
      /\ \A k \in 1..Len(b) - n : Remainder(b, n)[k] = b[n + k]
  BY CutText
<1>4. /\ head \in Texts /\ Len(head) = Len(a) + n
      /\ \A j \in 1..Len(a) + n : head[j] = IF j <= Len(a) THEN a[j] ELSE Upto(b, n)[j - Len(a)]
  <2> DEFINE cut == Upto(b, n)
  <2>1. a \in Seq(STRING) /\ cut \in Seq(STRING) /\ Len(cut) = n
    BY <1>3 DEF Texts
  <2> HIDE DEF cut
  <2>2. /\ a \o cut \in Seq(STRING) /\ Len(a \o cut) = Len(a) + Len(cut)
        /\ \A j \in 1..Len(a) + Len(cut) : (a \o cut)[j] = IF j <= Len(a) THEN a[j] ELSE cut[j - Len(a)]
    BY <2>1, ConcatProperties
  <2>3. QED
    BY <2>1, <2>2 DEF cut, Texts
<1> HIDE DEF full, head
<1>5. Len(a) + n \in 0..Len(full)
  BY <1>1, <1>2
<1>6. /\ Upto(full, Len(a) + n) \in Texts /\ Len(Upto(full, Len(a) + n)) = Len(a) + n
      /\ \A k \in 1..Len(a) + n : Upto(full, Len(a) + n)[k] = full[k]
      /\ Remainder(full, Len(a) + n) \in Texts
      /\ Len(Remainder(full, Len(a) + n)) = Len(full) - (Len(a) + n)
      /\ \A k \in 1..Len(full) - (Len(a) + n) : Remainder(full, Len(a) + n)[k] = full[Len(a) + n + k]
  BY <1>2, <1>5, CutText
<1>7. ASSUME NEW k \in 1..Len(a) + n PROVE full[k] = head[k]
  <2>1. CASE k <= Len(a)
    BY <1>1, <1>2, <1>4, <2>1
  <2>2. CASE k > Len(a)
    <3>1. k - Len(a) \in 1..n /\ k \in 1..Len(a) + Len(b)
      BY <1>1, <2>2
    <3>2. QED
      BY <1>1, <1>2, <1>3, <1>4, <2>2, <3>1
  <2>3. QED
    BY <1>1, <2>1, <2>2
<1>8. Upto(full, Len(a) + n) = head
  BY <1>4, <1>6, <1>7, SeqEqual DEF Texts
<1>9. ASSUME NEW k \in 1..Len(b) - n PROVE full[Len(a) + n + k] = Remainder(b, n)[k]
  <2>1. Len(a) + n + k \in 1..Len(a) + Len(b) /\ Len(a) + n + k > Len(a) /\ Len(a) + n + k - Len(a) = n + k
    BY <1>1
  <2>2. QED
    BY <1>1, <1>2, <1>3, <2>1
<1>10. Len(full) - (Len(a) + n) = Len(b) - n
  BY <1>1, <1>2
<1>11. Remainder(full, Len(a) + n) = Remainder(b, n)
  BY <1>3, <1>6, <1>9, <1>10, SeqEqual DEF Texts
<1>12. QED
  BY <1>8, <1>11 DEF full, head

LEMMA CutFirst ==
  ASSUME NEW a \in Texts, NEW b \in Texts, NEW n \in 0..Len(a)
  PROVE  /\ Upto(a \o b, n) = Upto(a, n)
         /\ Remainder(a \o b, n) = Remainder(a, n) \o b
<1> DEFINE full == a \o b
           tail == Remainder(a, n) \o b
<1>1. Len(a) \in Nat /\ Len(b) \in Nat /\ n \in Nat
  BY DEF Texts
<1>2. /\ full \in Texts /\ Len(full) = Len(a) + Len(b)
      /\ \A j \in 1..Len(a) + Len(b) : full[j] = IF j <= Len(a) THEN a[j] ELSE b[j - Len(a)]
  BY ConcatProperties DEF Texts
<1>3. /\ Upto(a, n) \in Texts /\ Len(Upto(a, n)) = n /\ \A k \in 1..n : Upto(a, n)[k] = a[k]
      /\ Remainder(a, n) \in Texts /\ Len(Remainder(a, n)) = Len(a) - n
      /\ \A k \in 1..Len(a) - n : Remainder(a, n)[k] = a[n + k]
  BY CutText
<1>4. /\ tail \in Texts /\ Len(tail) = Len(a) - n + Len(b)
      /\ \A j \in 1..Len(a) - n + Len(b) :
           tail[j] = IF j <= Len(a) - n THEN Remainder(a, n)[j] ELSE b[j - (Len(a) - n)]
  <2> DEFINE cut == Remainder(a, n)
  <2>1. b \in Seq(STRING) /\ cut \in Seq(STRING) /\ Len(cut) = Len(a) - n
    BY <1>3 DEF Texts
  <2> HIDE DEF cut
  <2>2. /\ cut \o b \in Seq(STRING) /\ Len(cut \o b) = Len(cut) + Len(b)
        /\ \A j \in 1..Len(cut) + Len(b) : (cut \o b)[j] = IF j <= Len(cut) THEN cut[j] ELSE b[j - Len(cut)]
    BY <2>1, ConcatProperties
  <2>3. QED
    BY <2>1, <2>2 DEF cut, Texts
<1> HIDE DEF full, tail
<1>5. n \in 0..Len(full)
  BY <1>1, <1>2
<1>6. /\ Upto(full, n) \in Texts /\ Len(Upto(full, n)) = n /\ \A k \in 1..n : Upto(full, n)[k] = full[k]
      /\ Remainder(full, n) \in Texts /\ Len(Remainder(full, n)) = Len(full) - n
      /\ \A k \in 1..Len(full) - n : Remainder(full, n)[k] = full[n + k]
  BY <1>2, <1>5, CutText
<1>7. \A k \in 1..n : full[k] = a[k]
  BY <1>1, <1>2
<1>8. Upto(full, n) = Upto(a, n)
  BY <1>3, <1>6, <1>7, SeqEqual DEF Texts
<1>9. ASSUME NEW k \in 1..Len(a) - n + Len(b) PROVE full[n + k] = tail[k]
  <2>1. n + k \in 1..Len(a) + Len(b)
    BY <1>1
  <2>2. CASE k <= Len(a) - n
    BY <1>1, <1>2, <1>3, <1>4, <2>1, <2>2
  <2>3. CASE k > Len(a) - n
    <3>1. n + k - Len(a) = k - (Len(a) - n) /\ ~(n + k <= Len(a))
      BY <1>1, <2>3
    <3>2. QED
      BY <1>1, <1>2, <1>4, <2>1, <2>3, <3>1
  <2>4. QED
    BY <1>1, <2>2, <2>3
<1>10. Len(full) - n = Len(a) - n + Len(b)
  BY <1>1, <1>2
<1>11. Remainder(full, n) = tail
  BY <1>4, <1>6, <1>9, <1>10, SeqEqual DEF Texts
<1>12. QED
  BY <1>8, <1>11 DEF full, tail

LEMMA BeforeAndBehind ==
  ASSUME NEW text \in Texts, NEW marker \in Texts, Len(marker) > 0, Holds(text, marker)
  PROVE  /\ Before(text, marker) = Upto(text, First(text, marker) - 1)
         /\ Before(text, marker) \in Texts /\ Len(Before(text, marker)) = First(text, marker) - 1
         /\ Behind(text, marker) = Remainder(text, First(text, marker) - 1 + Len(marker))
         /\ Behind(text, marker) \in Texts
<1> DEFINE i == First(text, marker)
<1>1. i \in 1..Len(text) /\ i + Len(marker) - 1 <= Len(text)
  BY FirstPlace
<1>2. Before(text, marker) = Upto(text, i - 1)
  BY DEF Before, First
<1> HIDE DEF i
<1>3. Len(text) \in Nat /\ Len(marker) \in Nat
  BY DEF Texts
<1>4. i - 1 \in 0..Len(text) /\ i - 1 + Len(marker) \in 0..Len(text)
  BY <1>1, <1>3
<1>5. Before(text, marker) \in Texts /\ Len(Before(text, marker)) = i - 1
  BY <1>2, <1>4, CutText
<1>6. Behind(text, marker) = Remainder(text, i - 1 + Len(marker))
  BY <1>5 DEF Behind
<1>7. Behind(text, marker) \in Texts
  BY <1>4, <1>6, CutText
<1>8. QED
  BY <1>2, <1>5, <1>6, <1>7 DEF i

\* What follows a text that holds the marker does not move the marker.
LEMMA MarkerStays ==
  ASSUME NEW text \in Texts, NEW more \in Texts, NEW marker \in Texts, Len(marker) > 0, Holds(text, marker)
  PROVE  /\ Holds(text \o more, marker)
         /\ Before(text \o more, marker) = Before(text, marker)
         /\ Behind(text \o more, marker) = Behind(text, marker) \o more
<1> DEFINE i == First(text, marker)
           full == text \o more
<1>1. i \in Places(text, marker) /\ i \in 1..Len(text) /\ i + Len(marker) - 1 <= Len(text)
      /\ \A j \in Places(text, marker) : i <= j
  BY FirstPlace
<1>2. full \in Texts
  BY ConcatProperties DEF Texts
<1>3. Len(text) \in Nat /\ Len(marker) \in Nat
  BY DEF Texts
<1>4. i \in Places(full, marker)
  BY <1>1, PlacesOfParts
<1>5. ASSUME NEW j \in Places(full, marker) PROVE i <= j
  <2> SUFFICES ASSUME j < i PROVE FALSE
    BY <1>1 DEF Places
  <2>1. j \in Int /\ j + Len(marker) - 1 <= Len(text)
    BY <1>1, <1>3 DEF Places
  <2>2. j \in Places(text, marker)
    BY <2>1, PlacesOfParts
  <2>3. i <= j /\ i \in Int
    BY <1>1, <2>2
  <2> HIDE DEF i
  <2>4. QED
    BY <2>1, <2>3
<1> HIDE DEF i, full
<1>6. First(full, marker) = i /\ Holds(full, marker)
  BY <1>2, <1>4, <1>5, FirstIs DEF Holds
<1>7. i - 1 \in 0..Len(text) /\ i - 1 + Len(marker) \in 0..Len(text)
  BY <1>1, <1>3
<1>8. Upto(full, i - 1) = Upto(text, i - 1)
      /\ Remainder(full, i - 1 + Len(marker)) = Remainder(text, i - 1 + Len(marker)) \o more
  BY <1>7, CutFirst DEF full
<1>9. QED
  BY <1>2, <1>6, <1>8, BeforeAndBehind DEF i, full

\* What was handed on and what is held back of a text that does not hold the marker.
Undecided(out, held, marker) ==
  /\ ~Holds(out \o held, marker)
  /\ Len(held) = Least(Len(out \o held), Len(marker) - 1)

\* To go on with what is held back is to go on with the whole text: a marker of the whole begins in
\* the part that was held back, or after it.
LEMMA MarkerIsAhead ==
  ASSUME NEW out \in Texts, NEW held \in Texts, NEW chunk \in Texts, NEW marker \in Texts,
         Len(marker) > 0, Undecided(out, held, marker)
  PROVE  /\ (out \o held) \o chunk = out \o (held \o chunk)
         /\ Holds((out \o held) \o chunk, marker) <=> Holds(held \o chunk, marker)
         /\ Holds(held \o chunk, marker) =>
              /\ Before((out \o held) \o chunk, marker) = out \o Before(held \o chunk, marker)
              /\ Behind((out \o held) \o chunk, marker) = Behind(held \o chunk, marker)
<1> DEFINE known == out \o held
           text == held \o chunk
           full == known \o chunk
<1>1. /\ known \in Texts /\ text \in Texts /\ full \in Texts
      /\ Len(known) = Len(out) + Len(held) /\ Len(text) = Len(held) + Len(chunk)
  BY ConcatProperties DEF Texts
<1>2. full = out \o text
  BY ConcatAssociative DEF Texts
<1>3. /\ Len(out) \in Nat /\ Len(held) \in Nat /\ Len(chunk) \in Nat /\ Len(marker) \in Nat
      /\ Len(known) \in Nat /\ Len(text) \in Nat
  BY <1>1 DEF Texts
<1>4. ~Holds(known, marker) /\ Len(held) = Least(Len(known), Len(marker) - 1)
  BY DEF Undecided
<1> HIDE DEF known, text, full
<1>5. ASSUME NEW i \in Places(full, marker) PROVE i - Len(out) \in Places(text, marker) /\ i > Len(out)
  <2>1. i \in Int /\ i >= 1
    BY DEF Places
  <2>2. i > Len(out)
    <3> SUFFICES ASSUME i <= Len(out) PROVE FALSE
      BY <1>3, <2>1
    <3>1. Len(held) = Len(marker) - 1
      BY <1>1, <1>3, <1>4, <2>1 DEF Least
    <3>2. i + Len(marker) - 1 <= Len(known)
      BY <1>1, <1>3, <2>1, <3>1
    <3>3. i \in Places(known, marker)
      BY <1>1, <2>1, <3>2, PlacesOfParts DEF full
    <3>4. QED
      BY <1>4, <3>3 DEF Holds
  <2>3. QED
    BY <1>1, <1>2, <2>1, <2>2, PlacesOfParts
<1>6. ASSUME NEW i \in Places(text, marker) PROVE Len(out) + i \in Places(full, marker)
  <2>1. i \in Int /\ i >= 1 /\ Len(out) + i \in Int /\ Len(out) + i > Len(out) /\ Len(out) + i - Len(out) = i
    BY <1>3 DEF Places
  <2>2. QED
    BY <1>1, <1>2, <2>1, PlacesOfParts
<1>7. Holds(full, marker) <=> Holds(text, marker)
  BY <1>5, <1>6 DEF Holds
<1>8. ASSUME Holds(text, marker)
      PROVE  /\ Before(full, marker) = out \o Before(text, marker)
             /\ Behind(full, marker) = Behind(text, marker)
  <2> DEFINE i == First(text, marker)
  <2>1. /\ i \in Places(text, marker) /\ i \in 1..Len(text) /\ i + Len(marker) - 1 <= Len(text)
        /\ \A j \in Places(text, marker) : i <= j
    BY <1>1, <1>8, FirstPlace
  <2> HIDE DEF i
  <2>2. Len(out) + i \in Places(full, marker)
    BY <1>6, <2>1
  <2>3. ASSUME NEW j \in Places(full, marker) PROVE Len(out) + i <= j
    <3>1. j - Len(out) \in Places(text, marker) /\ j \in Int
      BY <1>5 DEF Places
    <3>2. i <= j - Len(out)
      BY <2>1, <3>1
    <3>3. QED
      BY <1>3, <2>1, <3>1, <3>2
  <2>4. First(full, marker) = Len(out) + i
    BY <1>1, <2>2, <2>3, FirstIs
  <2>5. i - 1 \in 0..Len(text) /\ i - 1 + Len(marker) \in 0..Len(text)
    BY <1>3, <2>1
  <2>6. /\ Upto(full, Len(out) + (i - 1)) = out \o Upto(text, i - 1)
        /\ Remainder(full, Len(out) + (i - 1 + Len(marker))) = Remainder(text, i - 1 + Len(marker))
    BY <1>1, <1>2, <2>5, CutSecond
  <2>7. /\ First(full, marker) - 1 = Len(out) + (i - 1)
        /\ First(full, marker) - 1 + Len(marker) = Len(out) + (i - 1 + Len(marker))
    BY <1>3, <2>1, <2>4
  <2>8. /\ Before(full, marker) = Upto(full, First(full, marker) - 1)
        /\ Behind(full, marker) = Remainder(full, First(full, marker) - 1 + Len(marker))
    <3>1. Holds(full, marker)
      BY <1>7, <1>8
    <3>2. QED
      BY <1>1, <3>1, BeforeAndBehind
  <2>9. /\ Before(text, marker) = Upto(text, i - 1)
        /\ Behind(text, marker) = Remainder(text, i - 1 + Len(marker))
    BY <1>1, <1>8, BeforeAndBehind DEF i
  <2>10. QED
    BY <2>6, <2>7, <2>8, <2>9
<1>9. QED
  BY <1>2, <1>7, <1>8 DEF known, text, full

\* How much of a text without the marker is past doubt.
Settled(text, marker) == Len(text) - Held(text, marker)

\* What is held back next is what the text as a whole calls for.
LEMMA HeldIsEnough ==
  ASSUME NEW out \in Texts, NEW held \in Texts, NEW chunk \in Texts, NEW marker \in Texts,
         Len(marker) > 0, Undecided(out, held, marker), ~Holds(held \o chunk, marker)
  PROVE  LET settled == Upto(held \o chunk, Settled(held \o chunk, marker))
             rest    == Remainder(held \o chunk, Settled(held \o chunk, marker))
         IN  /\ out \o settled \in Texts /\ rest \in Texts /\ settled \in Texts
             /\ (out \o settled) \o rest = (out \o held) \o chunk
             /\ Undecided(out \o settled, rest, marker)
<1> DEFINE known == out \o held
           text == held \o chunk
           cut == Settled(text, marker)
           full == known \o chunk
           before == Upto(text, cut)
           after == Remainder(text, cut)
<1>1. /\ known \in Texts /\ text \in Texts /\ full \in Texts
      /\ Len(known) = Len(out) + Len(held) /\ Len(text) = Len(held) + Len(chunk)
  BY ConcatProperties DEF Texts
<1>2. /\ full = out \o text /\ ~Holds(full, marker)
  BY MarkerIsAhead
<1>3. /\ Len(out) \in Nat /\ Len(held) \in Nat /\ Len(chunk) \in Nat /\ Len(marker) \in Nat
      /\ Len(known) \in Nat /\ Len(text) \in Nat
  BY <1>1 DEF Texts
<1>4. Len(held) = Least(Len(known), Len(marker) - 1)
  BY DEF Undecided
<1>5. cut = Len(text) - Least(Len(text), Len(marker) - 1)
  BY DEF Held, Settled
<1> HIDE DEF known, text, full, cut
<1>6. cut \in 0..Len(text)
  BY <1>3, <1>5 DEF Least
<1>7. before \in Texts /\ after \in Texts /\ Len(after) = Len(text) - cut
  BY <1>1, <1>6, CutText
<1>8. before \o after = text
  <2>1. 1 \in 1..Len(text) + 1 /\ cut \in 1 - 1..Len(text) /\ Len(text) \in cut..Len(text)
    BY <1>3, <1>6
  <2>2. text \in Seq(STRING)
    BY <1>1 DEF Texts
  <2>3. SubSeq(text, 1, cut) \o SubSeq(text, cut + 1, Len(text)) = SubSeq(text, 1, Len(text))
    BY <2>1, <2>2, ConcatAdjacentSubSeq
  <2>4. QED
    BY <2>2, <2>3, SubSeqFull DEF Upto, Remainder
<1> HIDE DEF before, after
<1>9. out \o before \in Texts /\ (out \o before) \o after = full
  <2>1. out \in Seq(STRING) /\ before \in Seq(STRING) /\ after \in Seq(STRING)
    BY <1>7 DEF Texts
  <2>2. (out \o before) \o after = out \o (before \o after) /\ out \o before \in Seq(STRING)
    BY <2>1, ConcatProperties, ConcatAssociative
  <2>3. QED
    BY <1>2, <1>8, <2>2 DEF Texts
<1>10. Len(full) = Len(out) + Len(text)
  <2>1. out \in Seq(STRING) /\ text \in Seq(STRING)
    BY <1>1 DEF Texts
  <2>2. QED
    BY <1>2, <2>1, ConcatProperties
<1>11. Len(after) = Least(Len(full), Len(marker) - 1)
  <2>1. CASE Len(out) = 0
    BY <1>1, <1>3, <1>5, <1>7, <1>10, <2>1 DEF Least
  <2>2. CASE Len(out) > 0
    <3>1. Len(held) = Len(marker) - 1
      BY <1>1, <1>3, <1>4, <2>2 DEF Least
    <3>2. QED
      BY <1>1, <1>3, <1>5, <1>7, <1>10, <3>1 DEF Least
  <2>3. QED
    BY <1>3, <2>1, <2>2
<1>12. Undecided(out \o before, after, marker)
  BY <1>2, <1>9, <1>11 DEF Undecided
<1>13. QED
  BY <1>7, <1>9, <1>12 DEF before, after, cut, text, full, known

\* What fits of a hidden text.
Clip(text) == Upto(text, Least(Len(text), HiddenLimit))

LEMMA ClipIsAText ==
  ASSUME NEW text \in Texts
  PROVE  /\ Clip(text) \in Texts /\ Len(Clip(text)) = Least(Len(text), HiddenLimit)
         /\ Len(text) <= HiddenLimit => Clip(text) = text
<1>1. Len(text) \in Nat /\ HiddenLimit \in Nat
  BY FilterAssumption DEF Texts
<1>2. Least(Len(text), HiddenLimit) \in 0..Len(text)
  BY <1>1 DEF Least
<1>3. Clip(text) \in Texts /\ Len(Clip(text)) = Least(Len(text), HiddenLimit)
  BY <1>2, CutText DEF Clip
<1>4. ASSUME Len(text) <= HiddenLimit PROVE Clip(text) = text
  <2>1. Clip(text) = SubSeq(text, 1, Len(text))
    BY <1>1, <1>4 DEF Clip, Least, Upto
  <2>2. QED
    BY <2>1, SubSeqFull DEF Texts
<1>5. QED
  BY <1>3, <1>4

LEMMA ClipGrows ==
  ASSUME NEW text \in Texts, NEW more \in Texts
  PROVE  AppendHidden(Clip(text), more) = Clip(text \o more)
<1>1. Len(text) \in Nat /\ Len(more) \in Nat /\ HiddenLimit \in Nat
  BY FilterAssumption DEF Texts
<1>2. Len(text \o more) = Len(text) + Len(more)
  BY ConcatProperties DEF Texts
<1>3. CASE Len(text) <= HiddenLimit
  <2> DEFINE n == Least(Len(more), HiddenLimit - Len(text))
  <2>1. n \in 0..Len(more) /\ Least(Len(text \o more), HiddenLimit) = Len(text) + n
    BY <1>1, <1>2, <1>3 DEF Least
  <2>2. AppendHidden(Clip(text), more) = text \o Upto(more, n)
    BY <1>3, ClipIsAText DEF AppendHidden
  <2> HIDE DEF n
  <2>3. Upto(text \o more, Len(text) + n) = text \o Upto(more, n)
    BY <2>1, CutSecond
  <2>4. QED
    BY <2>1, <2>2, <2>3 DEF Clip
<1>4. CASE Len(text) > HiddenLimit
  <2>1. Least(Len(text), HiddenLimit) = HiddenLimit /\ Least(Len(text \o more), HiddenLimit) = HiddenLimit
    BY <1>1, <1>2, <1>4 DEF Least
  <2>2. Clip(text) = Upto(text, HiddenLimit) /\ Clip(text \o more) = Upto(text \o more, HiddenLimit)
    BY <2>1 DEF Clip
  <2>3. Clip(text \o more) = Clip(text)
    BY <1>1, <1>4, <2>2, CutFirst
  <2>4. Len(Clip(text)) = HiddenLimit /\ Clip(text) \in Texts
    BY <2>1, ClipIsAText
  <2>5. Least(Len(more), HiddenLimit - Len(Clip(text))) = 0
    BY <1>1, <2>4 DEF Least
  <2>6. Upto(more, 0) = <<>>
    BY SubSeqEmpty DEF Upto
  <2>7. AppendHidden(Clip(text), more) = Clip(text) \o <<>>
    BY <2>5, <2>6 DEF AppendHidden
  <2>8. QED
    BY <2>3, <2>4, <2>7, ConcatEmptySeq DEF Texts
<1>5. QED
  BY <1>1, <1>3, <1>4

(***************************************************************************)
(* The invariant: what was handed on is what precedes the marker, what was *)
(* kept is the beginning of what follows it, and what is held back is what *)
(* could still be the beginning of the next marker.                        *)
(***************************************************************************)
FilterTyped ==
  /\ draft \in Texts /\ written \in Texts
  /\ pending \in Texts /\ seen \in Texts /\ concealed \in Texts
  /\ filterPc \in {"visible", "hidden", "done", "finished"}

\* The block, as far as it has come.
InBlock(behind, held, kept) ==
  \E gone \in Texts :
    /\ behind = gone \o held
    /\ Undecided(gone, held, CloseMarker)
    /\ kept = Clip(gone)

BlockIsOver(behind, kept) ==
  /\ Holds(behind, CloseMarker)
  /\ kept = Clip(Before(behind, CloseMarker))

Filtered ==
  /\ filterPc = "visible" =>
       written = seen \o pending /\ Undecided(seen, pending, OpenMarker) /\ concealed = <<>>
  /\ filterPc \in {"hidden", "done"} => Holds(written, OpenMarker) /\ seen = Before(written, OpenMarker)
  /\ filterPc = "hidden" => InBlock(Behind(written, OpenMarker), pending, concealed)
  /\ filterPc = "done" => BlockIsOver(Behind(written, OpenMarker), concealed)
  /\ filterPc = "finished" => seen = Shown(written) /\ concealed = Clip(Concealed(written))

FilterIInv == FilterTyped /\ Filtered

LEMMA MarkersAreTexts ==
  /\ OpenMarker \in Texts /\ CloseMarker \in Texts /\ Drafts \subseteq Texts /\ <<>> \in Texts
  /\ Len(OpenMarker) > 1 /\ Len(CloseMarker) > 1
  /\ Len(OpenMarker) \in Nat /\ Len(CloseMarker) \in Nat /\ Len(OpenMarker) > 0 /\ Len(CloseMarker) > 0
<1>1. OpenMarker \in Texts /\ CloseMarker \in Texts /\ Drafts \subseteq Texts
  BY FilterAssumption DEF Texts
<1>2. QED
  BY <1>1, FilterAssumption DEF Texts

LEMMA NothingIsUndecided ==
  ASSUME NEW marker \in Texts, Len(marker) > 0
  PROVE  Undecided(<<>>, <<>>, marker)
<1>1. <<>> \in Texts /\ Len(<<>>) = 0 /\ <<>> \o <<>> = <<>>
  BY ConcatEmptySeq DEF Texts
<1>2. Len(marker) \in Nat
  BY DEF Texts
<1>3. ~Holds(<<>>, marker)
  BY <1>1 DEF Holds, Places
<1>4. QED
  BY <1>1, <1>2, <1>3 DEF Undecided, Least

LEMMA FilterInitInv == FilterInit => FilterIInv
<1> SUFFICES ASSUME FilterInit PROVE FilterIInv
  OBVIOUS
<1>1. FilterTyped
  BY MarkersAreTexts DEF FilterInit, FilterTyped
<1>2. Undecided(<<>>, <<>>, OpenMarker)
  BY MarkersAreTexts, NothingIsUndecided
<1>3. <<>> \o <<>> = <<>>
  BY MarkersAreTexts, ConcatEmptySeq DEF Texts
<1>4. QED
  BY <1>1, <1>2, <1>3 DEF FilterInit, FilterIInv, Filtered

LEMMA ConsumeKeeps ==
  ASSUME NEW gone \in Texts, NEW held \in Texts, NEW chunk \in Texts, Undecided(gone, held, CloseMarker),
         concealed = Clip(gone), ConsumeHidden(held \o chunk)
  PROVE  /\ pending' \in Texts /\ concealed' \in Texts /\ filterPc' \in {"hidden", "done"}
         /\ filterPc' = "hidden" => InBlock((gone \o held) \o chunk, pending', concealed')
         /\ filterPc' = "done" => BlockIsOver((gone \o held) \o chunk, concealed')
<1> DEFINE text == held \o chunk
           behind == (gone \o held) \o chunk
           cut == Settled(text, CloseMarker)
<1>1. CloseMarker \in Texts /\ Len(CloseMarker) > 0 /\ <<>> \in Texts /\ text \in Texts
  BY MarkersAreTexts, ConcatProperties DEF Texts
<1>2. CASE Holds(text, CloseMarker)
  <2>1. filterPc' = "done" /\ concealed' = AppendHidden(concealed, Before(text, CloseMarker)) /\ pending' = <<>>
    BY <1>2 DEF ConsumeHidden
  <2>2. Holds(behind, CloseMarker) /\ Before(behind, CloseMarker) = gone \o Before(text, CloseMarker)
    BY <1>1, <1>2, MarkerIsAhead
  <2>3. Before(text, CloseMarker) \in Texts
    BY <1>1, <1>2, BeforeAndBehind
  <2>4. concealed' = Clip(gone \o Before(text, CloseMarker))
    BY <2>1, <2>3, ClipGrows
  <2>5. gone \o Before(text, CloseMarker) \in Texts
    BY <2>3, ConcatProperties DEF Texts
  <2>6. QED
    BY <1>1, <2>1, <2>2, <2>4, <2>5, ClipIsAText DEF BlockIsOver
<1>3. CASE ~Holds(text, CloseMarker)
  <2>1. /\ filterPc' = "hidden"
        /\ concealed' = AppendHidden(concealed, Upto(text, cut))
        /\ pending' = Remainder(text, cut)
    BY <1>3 DEF ConsumeHidden, Settled
  <2>2. /\ gone \o Upto(text, cut) \in Texts /\ Remainder(text, cut) \in Texts /\ Upto(text, cut) \in Texts
        /\ (gone \o Upto(text, cut)) \o Remainder(text, cut) = behind
        /\ Undecided(gone \o Upto(text, cut), Remainder(text, cut), CloseMarker)
    BY <1>1, <1>3, HeldIsEnough
  <2> HIDE DEF cut, text, behind
  <2>3. concealed' = Clip(gone \o Upto(text, cut))
    BY <2>1, <2>2, ClipGrows
  <2>4. InBlock(behind, pending', concealed')
    BY <2>1, <2>2, <2>3 DEF InBlock
  <2>5. concealed' \in Texts
    BY <2>2, <2>3, ClipIsAText
  <2>6. QED
    BY <2>1, <2>2, <2>4, <2>5 DEF behind
<1>4. QED
  BY <1>2, <1>3

\* A chunk comes.
LEMMA ChunkArrives ==
  ASSUME FilterTyped, NEW n, Arrive(n)
  PROVE  /\ Upto(draft, n) \in Texts /\ draft' \in Texts /\ written' \in Texts
         /\ written' = written \o Upto(draft, n)
         /\ Upto(draft, n) \o draft' = draft /\ written' \o draft' = written \o draft
<1> DEFINE chunk == Upto(draft, n)
<1>1. draft \in Texts /\ written \in Texts /\ n \in 0..Len(draft) /\ Len(draft) \in Nat
  BY DEF FilterTyped, Arrive, Texts
<1>2. chunk \in Texts /\ draft' \in Texts
  BY <1>1, CutText DEF Arrive
<1>3. written' = written \o chunk
  BY DEF Arrive
<1>4. chunk \o draft' = draft
  <2>1. 1 \in 1..Len(draft) + 1 /\ n \in 1 - 1..Len(draft) /\ Len(draft) \in n..Len(draft)
    BY <1>1
  <2>2. SubSeq(draft, 1, n) \o SubSeq(draft, n + 1, Len(draft)) = SubSeq(draft, 1, Len(draft))
    BY <1>1, <2>1, ConcatAdjacentSubSeq DEF Texts
  <2>3. QED
    BY <1>1, <2>2, SubSeqFull DEF Upto, Remainder, Arrive, Texts
<1> HIDE DEF chunk
<1>5. written' \in Texts
  BY <1>1, <1>2, <1>3, ConcatProperties DEF Texts
<1>6. (written \o chunk) \o draft' = written \o (chunk \o draft')
  BY <1>1, <1>2, ConcatAssociative DEF Texts
<1>7. written' \o draft' = written \o draft
  BY <1>3, <1>4, <1>6
<1>8. QED
  BY <1>2, <1>3, <1>4, <1>5, <1>7 DEF chunk

LEMMA FeedVisibleInv ==
  ASSUME FilterIInv, NEW n, FeedVisible(n) PROVE FilterIInv'
<1> DEFINE chunk == Upto(draft, n)
           text == pending \o chunk
           cut == Settled(text, OpenMarker)
<1>1. FilterTyped /\ Arrive(n) /\ filterPc = "visible"
  BY DEF FilterIInv, FeedVisible
<1>2. chunk \in Texts /\ draft' \in Texts /\ written' \in Texts /\ written' = written \o chunk
  BY <1>1, ChunkArrives
<1>3. /\ seen \in Texts /\ pending \in Texts /\ concealed = <<>> /\ concealed \in Texts
      /\ written = seen \o pending /\ Undecided(seen, pending, OpenMarker)
  BY <1>1 DEF FilterIInv, FilterTyped, Filtered
<1>4. text \in Texts /\ OpenMarker \in Texts /\ CloseMarker \in Texts /\ <<>> \in Texts
      /\ Len(OpenMarker) > 0 /\ Len(CloseMarker) > 0
  BY <1>2, <1>3, MarkersAreTexts, ConcatProperties DEF Texts
<1>5. CASE Holds(text, OpenMarker)
  <2> DEFINE behind == Behind(text, OpenMarker)
  <2>1. seen' = seen \o Before(text, OpenMarker) /\ ConsumeHidden(behind)
    BY <1>5 DEF FeedVisible
  <2>2. /\ Holds(written', OpenMarker) /\ seen \o Before(text, OpenMarker) = Before(written', OpenMarker)
        /\ behind = Behind(written', OpenMarker)
    BY <1>2, <1>3, <1>4, <1>5, MarkerIsAhead
  <2>3. behind \in Texts /\ Before(text, OpenMarker) \in Texts
    BY <1>4, <1>5, BeforeAndBehind
  <2> HIDE DEF behind
  <2>4. <<>> \o behind = behind /\ (<<>> \o <<>>) \o behind = behind
    BY <2>3, ConcatEmptySeq DEF Texts
  <2>5. concealed = Clip(<<>>)
    BY <1>3, SubSeqEmpty, FilterAssumption DEF Clip, Upto, Least
  <2>6. Undecided(<<>>, <<>>, CloseMarker)
    BY <1>4, NothingIsUndecided
  <2>7. /\ pending' \in Texts /\ concealed' \in Texts /\ filterPc' \in {"hidden", "done"}
        /\ filterPc' = "hidden" => InBlock(behind, pending', concealed')
        /\ filterPc' = "done" => BlockIsOver(behind, concealed')
    <3>1. ConsumeHidden(<<>> \o behind)
      BY <2>1, <2>4
    <3>2. QED
      BY <1>4, <2>3, <2>4, <2>5, <2>6, <3>1, ConsumeKeeps
  <2>8. seen' \in Texts
    BY <1>3, <2>1, <2>3, ConcatProperties DEF Texts
  <2>9. FilterTyped'
    BY <1>2, <2>7, <2>8 DEF FilterTyped
  <2>10. Filtered'
    BY <2>1, <2>2, <2>7 DEF Filtered
  <2>11. QED
    BY <2>9, <2>10 DEF FilterIInv
<1>6. CASE ~Holds(text, OpenMarker)
  <2>1. seen' = seen \o Upto(text, cut) /\ pending' = Remainder(text, cut) /\ UNCHANGED <<filterPc, concealed>>
    BY <1>6 DEF FeedVisible, Settled
  <2> HIDE DEF chunk
  <2>2. /\ seen \o Upto(text, cut) \in Texts /\ Remainder(text, cut) \in Texts
        /\ (seen \o Upto(text, cut)) \o Remainder(text, cut) = (seen \o pending) \o chunk
        /\ Undecided(seen \o Upto(text, cut), Remainder(text, cut), OpenMarker)
    <3>1. chunk \in Texts /\ seen \in Texts /\ pending \in Texts /\ Undecided(seen, pending, OpenMarker)
      BY <1>2, <1>3
    <3>2. OpenMarker \in Texts /\ Len(OpenMarker) > 0 /\ ~Holds(pending \o chunk, OpenMarker)
      BY <1>4, <1>6
    <3>3. QED
      BY <3>1, <3>2, HeldIsEnough, SMTT(60)
  <2> HIDE DEF cut, text
  <2>3. FilterTyped'
    BY <1>1, <1>2, <1>3, <2>1, <2>2 DEF FilterTyped
  <2>4. Filtered'
    BY <1>1, <1>2, <1>3, <2>1, <2>2 DEF Filtered
  <2>5. QED
    BY <2>3, <2>4 DEF FilterIInv
<1>7. QED
  BY <1>5, <1>6

LEMMA FeedHiddenInv ==
  ASSUME FilterIInv, NEW n, FeedHidden(n) PROVE FilterIInv'
<1> DEFINE chunk == Upto(draft, n)
<1>1. /\ FilterTyped /\ Arrive(n) /\ filterPc = "hidden" /\ seen' = seen
      /\ ConsumeHidden(pending \o chunk)
  BY DEF FilterIInv, FeedHidden
<1>2. chunk \in Texts /\ draft' \in Texts /\ written' \in Texts /\ written' = written \o chunk
  BY <1>1, ChunkArrives
<1> HIDE DEF chunk
<1>3. /\ seen \in Texts /\ pending \in Texts /\ written \in Texts
      /\ Holds(written, OpenMarker) /\ seen = Before(written, OpenMarker)
      /\ InBlock(Behind(written, OpenMarker), pending, concealed)
  BY <1>1 DEF FilterIInv, FilterTyped, Filtered
<1>4. /\ Holds(written', OpenMarker) /\ seen' = Before(written', OpenMarker)
      /\ Behind(written', OpenMarker) = Behind(written, OpenMarker) \o chunk
  BY <1>1, <1>2, <1>3, MarkersAreTexts, MarkerStays
<1>5. PICK gone \in Texts : /\ Behind(written, OpenMarker) = gone \o pending
                            /\ Undecided(gone, pending, CloseMarker) /\ concealed = Clip(gone)
  BY <1>3 DEF InBlock
<1>6. /\ pending' \in Texts /\ concealed' \in Texts /\ filterPc' \in {"hidden", "done"}
      /\ filterPc' = "hidden" => InBlock((gone \o pending) \o chunk, pending', concealed')
      /\ filterPc' = "done" => BlockIsOver((gone \o pending) \o chunk, concealed')
  BY <1>1, <1>2, <1>3, <1>5, ConsumeKeeps
<1>7. FilterTyped'
  BY <1>1, <1>2, <1>3, <1>6 DEF FilterTyped
<1>8. Filtered'
  BY <1>4, <1>5, <1>6 DEF Filtered
<1>9. QED
  BY <1>7, <1>8 DEF FilterIInv

LEMMA FeedDoneInv ==
  ASSUME FilterIInv, NEW n, FeedDone(n) PROVE FilterIInv'
<1> DEFINE chunk == Upto(draft, n)
<1>1. /\ FilterTyped /\ Arrive(n) /\ filterPc = "done"
      /\ pending' = <<>> /\ UNCHANGED <<filterPc, seen, concealed>>
  BY DEF FilterIInv, FeedDone
<1>2. chunk \in Texts /\ draft' \in Texts /\ written' \in Texts /\ written' = written \o chunk
  BY <1>1, ChunkArrives
<1> HIDE DEF chunk
<1>3. /\ seen \in Texts /\ concealed \in Texts /\ written \in Texts
      /\ Holds(written, OpenMarker) /\ seen = Before(written, OpenMarker)
      /\ BlockIsOver(Behind(written, OpenMarker), concealed)
  BY <1>1 DEF FilterIInv, FilterTyped, Filtered
<1>4. /\ Holds(written', OpenMarker) /\ seen' = Before(written', OpenMarker)
      /\ Behind(written', OpenMarker) = Behind(written, OpenMarker) \o chunk
  BY <1>1, <1>2, <1>3, MarkersAreTexts, MarkerStays
<1>5. BlockIsOver(Behind(written', OpenMarker), concealed')
  <2>1. Behind(written, OpenMarker) \in Texts
    BY <1>3, MarkersAreTexts, BeforeAndBehind
  <2>2. QED
    BY <1>1, <1>2, <1>3, <1>4, <2>1, MarkersAreTexts, MarkerStays DEF BlockIsOver
<1>6. FilterTyped'
  BY <1>1, <1>2, <1>3, MarkersAreTexts DEF FilterTyped
<1>7. Filtered'
  BY <1>1, <1>4, <1>5 DEF Filtered
<1>8. QED
  BY <1>6, <1>7 DEF FilterIInv

LEMMA FinishDraftInv ==
  ASSUME FilterIInv, FinishDraft PROVE FilterIInv'
<1>1. /\ FilterTyped /\ Filtered /\ filterPc' = "finished" /\ pending' = <<>> /\ UNCHANGED <<draft, written>>
      /\ seen' = IF filterPc = "visible" THEN seen \o pending ELSE seen
      /\ concealed' = IF filterPc = "hidden" THEN AppendHidden(concealed, pending) ELSE concealed
      /\ filterPc \in {"visible", "hidden", "done"}
  BY DEF FilterIInv, FinishDraft, FilterTyped
<1>2. seen \in Texts /\ pending \in Texts /\ concealed \in Texts /\ written \in Texts
  BY <1>1 DEF FilterTyped
<1>3. seen' \in Texts
  BY <1>1, <1>2, ConcatProperties DEF Texts
<1>4. concealed' \in Texts /\ seen' = Shown(written) /\ concealed' = Clip(Concealed(written))
  <2>1. CASE filterPc = "visible"
    <3>1. ~Holds(written, OpenMarker) /\ seen' = written /\ concealed' = <<>>
      BY <1>1, <2>1 DEF Filtered, Undecided
    <3>2. Clip(<<>>) = <<>>
      BY SubSeqEmpty, FilterAssumption DEF Clip, Upto, Least
    <3>3. QED
      BY <3>1, <3>2, MarkersAreTexts DEF Shown, Concealed
  <2>2. CASE filterPc = "hidden"
    <3>1. /\ Holds(written, OpenMarker) /\ seen' = Before(written, OpenMarker)
          /\ InBlock(Behind(written, OpenMarker), pending, concealed)
      BY <1>1, <2>2 DEF Filtered
    <3>2. PICK gone \in Texts : /\ Behind(written, OpenMarker) = gone \o pending
                                /\ Undecided(gone, pending, CloseMarker) /\ concealed = Clip(gone)
      BY <3>1 DEF InBlock
    <3>3. concealed' = Clip(gone \o pending) /\ ~Holds(gone \o pending, CloseMarker)
      BY <1>1, <1>2, <2>2, <3>2, ClipGrows DEF Undecided
    <3>4. gone \o pending \in Texts
      BY <1>2, ConcatProperties DEF Texts
    <3>5. QED
      BY <3>1, <3>2, <3>3, <3>4, ClipIsAText DEF Shown, Concealed
  <2>3. CASE filterPc = "done"
    BY <1>1, <1>2, <2>3 DEF Filtered, BlockIsOver, Shown, Concealed
  <2>4. QED
    BY <1>1, <2>1, <2>2, <2>3
<1>5. FilterTyped'
  BY <1>1, <1>3, <1>4, MarkersAreTexts DEF FilterTyped
<1>6. Filtered'
  BY <1>1, <1>4 DEF Filtered
<1>7. QED
  BY <1>5, <1>6 DEF FilterIInv

LEMMA FilterStepInv == FilterIInv /\ [FilterNext]_filterVars => FilterIInv'
<1>1. FilterIInv /\ UNCHANGED filterVars => FilterIInv'
  BY DEF filterVars, FilterIInv, FilterTyped, Filtered
<1>2. QED
  BY <1>1, FeedVisibleInv, FeedHiddenInv, FeedDoneInv, FinishDraftInv DEF FilterNext

\* A text begins with its first part.
LEMMA PartIsPrefix ==
  ASSUME NEW text \in Texts, NEW more \in Texts
  PROVE  IsPrefix(text, text \o more)
<1>1. Len(text) \in Nat /\ Len(more) \in Nat /\ Len(text \o more) = Len(text) + Len(more)
  BY ConcatProperties DEF Texts
<1>2. Upto(text \o more, Len(text)) = Upto(text, Len(text))
  BY <1>1, CutFirst
<1>3. QED
  BY <1>1, <1>2 DEF IsPrefix, Upto

LEMMA FilterIsRight == FilterIInv => HiddenStaysHidden
<1> SUFFICES ASSUME FilterIInv PROVE HiddenStaysHidden
  OBVIOUS
<1>1. /\ draft \in Texts /\ written \in Texts /\ pending \in Texts /\ seen \in Texts
      /\ filterPc \in {"visible", "hidden", "done", "finished"}
      /\ OpenMarker \in Texts /\ Len(OpenMarker) > 0 /\ <<>> \in Texts
  BY MarkersAreTexts DEF FilterIInv, FilterTyped
<1>2. CASE filterPc = "visible"
  <2> DEFINE text == pending \o draft
  <2>1. written = seen \o pending /\ Undecided(seen, pending, OpenMarker)
    BY <1>2 DEF FilterIInv, Filtered
  <2>2. text \in Texts
    BY <1>1, ConcatProperties DEF Texts
  <2>3. /\ (seen \o pending) \o draft = seen \o text
        /\ Holds((seen \o pending) \o draft, OpenMarker) <=> Holds(text, OpenMarker)
        /\ Holds(text, OpenMarker) => Before((seen \o pending) \o draft, OpenMarker) = seen \o Before(text, OpenMarker)
    <3>1. seen \in Texts /\ pending \in Texts /\ draft \in Texts /\ OpenMarker \in Texts /\ Len(OpenMarker) > 0
      BY <1>1
    <3>2. Undecided(seen, pending, OpenMarker)
      BY <2>1
    <3>3. QED
      BY <3>1, <3>2, MarkerIsAhead
  <2>4. Holds(text, OpenMarker) => Before(text, OpenMarker) \in Texts
    BY <1>1, <2>2, BeforeAndBehind
  <2> HIDE DEF text
  <2>5. \E rest \in Texts : Shown(written \o draft) = seen \o rest
    BY <2>1, <2>2, <2>3, <2>4 DEF Shown
  <2>6. QED
    BY <1>1, <1>2, <2>5, PartIsPrefix DEF HiddenStaysHidden
<1>3. CASE filterPc \in {"hidden", "done"}
  <2>1. Holds(written, OpenMarker) /\ seen = Before(written, OpenMarker)
    BY <1>3 DEF FilterIInv, Filtered
  <2>2. Shown(written \o draft) = seen
    BY <1>1, <2>1, MarkerStays DEF Shown
  <2>3. seen \o <<>> = seen
    BY <1>1, ConcatEmptySeq DEF Texts
  <2>4. QED
    BY <1>1, <1>3, <2>2, <2>3, PartIsPrefix DEF HiddenStaysHidden
<1>4. CASE filterPc = "finished"
  <2>1. seen = Shown(written) /\ concealed = Clip(Concealed(written))
    BY <1>4 DEF FilterIInv, Filtered
  <2>2. Least(HiddenLimit, Len(Concealed(written))) = Least(Len(Concealed(written)), HiddenLimit)
    <3>1. Concealed(written) \in Texts
      <4>1. Holds(written, OpenMarker) => Behind(written, OpenMarker) \in Texts
        BY <1>1, BeforeAndBehind
      <4>2. QED
        BY <1>1, <4>1, MarkersAreTexts, BeforeAndBehind DEF Concealed
    <3>2. Len(Concealed(written)) \in Nat /\ HiddenLimit \in Nat
      BY <3>1, FilterAssumption DEF Texts
    <3>3. QED
      BY <3>2 DEF Least
  <2>3. QED
    BY <1>4, <2>1, <2>2 DEF HiddenStaysHidden, Clip
<1>5. QED
  BY <1>1, <1>2, <1>3, <1>4

\* The split of a draft depends on what was written and not on how it was cut into chunks: nothing is
\* shown that the whole draft hides, and nothing of either part is lost but what is over the limit,
\* for any draft, any chunks and any two markers.
THEOREM HiddenIsNeverShown == FilterSpec => []HiddenStaysHidden
<1>1. QED
  BY FilterInitInv, FilterStepInv, FilterIsRight, PTL DEF FilterSpec

-----------------------------------------------------------------------------
(***************************************************************************)
(* The composition of a prompt, for texts of any length and any limit.     *)
(***************************************************************************)
LEMMA NamesAre ==
  /\ DOMAIN BlockNames = 1..15
  /\ Names = {"identity", "session", "recent", "recall", "second_brain", "grounding_contract", "web",
              "tools", "mission", "continuation", "response_contract", "numeric_integrity", "protocol",
              "current", "cue"}
<1>1. DOMAIN BlockNames = 1..15
  BY DEF BlockNames
<1>2. QED
  BY <1>1 DEF Names, BlockNames

LEMMA OptionalAre ==
  Optional = {"identity", "session", "recent", "recall", "second_brain", "web", "tools", "mission",
              "continuation"}
BY DEF Optional, MinTokens

LEMMA OptionalIsNamed == Optional \subseteq Names /\ "current" \in Names /\ "current" \notin Optional
BY NamesAre, OptionalAre

LEMMA OrdersAreNumbers == \A n \in Names : EvictOrder[n] \in 0..6
BY NamesAre DEF EvictOrder

\* Every minimum is zero or large enough for what truncation leaves at least.
LEMMA MinimaAreNumbers ==
  ASSUME NEW lookup \in BOOLEAN, NEW n \in Optional
  PROVE  MinTokens(lookup)[n] \in Nat /\ (MinTokens(lookup)[n] = 0 \/ MinTokens(lookup)[n] >= 80)
BY OptionalAre DEF MinTokens

LEMMA BlocksAreNumbers ==
  ASSUME NEW r \in Requests
  PROVE  Blocks(r) \in [Names -> Nat] /\ Blocks(r)["current"] >= 29
<1>0. /\ r.lookup \in BOOLEAN
      /\ {r.identity, r.session, r.recall, r.second_brain, r.web, r.contract, r.tools, r.mission,
          r.continuation, r.response, r.numeric, r.protocol, r.user} \subseteq Nat
      /\ \A budget \in {220, 1800} : FormatRecent(r.messages, budget) \in Nat
  BY PromptAssumption
<1>1. /\ r.lookup \in BOOLEAN
      /\ r.identity \in Nat /\ r.session \in Nat /\ r.recall \in Nat /\ r.second_brain \in Nat
      /\ r.web \in Nat /\ r.contract \in Nat /\ r.tools \in Nat /\ r.mission \in Nat
      /\ r.continuation \in Nat /\ r.response \in Nat /\ r.numeric \in Nat /\ r.protocol \in Nat
      /\ r.user \in Nat
      /\ FormatRecent(r.messages, 220) \in Nat /\ FormatRecent(r.messages, 1800) \in Nat
  BY <1>0
<1>3. \A chars \in Nat : Headed(chars, 32) \in Nat /\ Headed(chars, 17) \in Nat /\ Headed(chars, 21) \in Nat
  BY DEF Headed
<1>4. DOMAIN Blocks(r) = Names
  BY NamesAre DEF Blocks
<1>5. Truncate(r.user, 1700) \in Nat
  BY <1>1 DEF Truncate, LargerOf, EstimateTokens
<1>6. Blocks(r)["current"] = Truncate(r.user, 1700) + 29
  BY DEF Blocks
<1>7. Blocks(r)["current"] \in Nat /\ Blocks(r)["current"] >= 29
  BY <1>5, <1>6
<1>8. Blocks(r)["identity"] \in Nat /\ Blocks(r)["session"] \in Nat
  <2>1. Truncate(r.identity, 360) \in Nat /\ Truncate(r.identity, 500) \in Nat /\ Truncate(r.session, 480) \in Nat
    BY <1>1 DEF Truncate, LargerOf, EstimateTokens
  <2>2. QED
    BY <1>1, <2>1 DEF Blocks
<1>9. Blocks(r)["recent"] \in Nat /\ Blocks(r)["recall"] \in Nat /\ Blocks(r)["second_brain"] \in Nat
  BY <1>1 DEF Blocks
<1>10. Blocks(r)["grounding_contract"] \in Nat /\ Blocks(r)["protocol"] \in Nat /\ Blocks(r)["cue"] \in Nat
  BY <1>1 DEF Blocks
<1>11. Blocks(r)["web"] \in Nat /\ Blocks(r)["tools"] \in Nat /\ Blocks(r)["continuation"] \in Nat
  <2>1. Truncate(r.web, 620) \in Nat /\ Truncate(r.web, 900) \in Nat /\ Truncate(r.tools, 620) \in Nat
        /\ Truncate(r.continuation, 400) \in Nat
    BY <1>1 DEF Truncate, LargerOf, EstimateTokens
  <2>2. Headed(Truncate(r.web, 620), 32) \in Nat /\ Headed(Truncate(r.web, 900), 32) \in Nat
        /\ Headed(Truncate(r.tools, 620), 17) \in Nat /\ Headed(Truncate(r.continuation, 400), 21) \in Nat
    BY <1>3, <2>1
  <2>3. QED
    BY <1>1, <2>2 DEF Blocks
<1>12. Blocks(r)["mission"] \in Nat /\ Blocks(r)["response_contract"] \in Nat /\ Blocks(r)["numeric_integrity"] \in Nat
  <2>1. Truncate(r.mission, 900) \in Nat /\ Truncate(r.response, 520) \in Nat /\ Truncate(r.response, 320) \in Nat
        /\ Truncate(r.numeric, 620) \in Nat
    BY <1>1 DEF Truncate, LargerOf, EstimateTokens
  <2>2. QED
    BY <1>1, <2>1 DEF Blocks
<1>13. \A n \in Names : Blocks(r)[n] \in Nat
  BY <1>7, <1>8, <1>9, <1>10, <1>11, <1>12, NamesAre
<1>14. Blocks(r) = [n \in Names |-> Blocks(r)[n]]
  BY <1>4 DEF Blocks
<1>15. QED
  BY <1>7, <1>13, <1>14

-----------------------------------------------------------------------------
(* Tokens and characters.                                                  *)

LEMMA EstimateIsANumber ==
  ASSUME NEW chars \in Nat PROVE EstimateTokens(chars) \in Nat
BY DEF EstimateTokens

LEMMA EstimateGrows ==
  ASSUME NEW a \in Nat, NEW b \in Nat, a <= b PROVE EstimateTokens(a) <= EstimateTokens(b)
BY DEF EstimateTokens

\* What is cut is not longer than before and not shorter than the minimum leaves it.
LEMMA CutIsBetween ==
  ASSUME NEW chars \in Nat, NEW full \in Nat, chars <= full, NEW least \in Nat, least = 0 \/ least >= 80,
         NEW overflow \in Nat, EstimateTokens(chars) > least,
         NEW tokens, tokens = LargerOf(least, EstimateTokens(chars)
                                              - LargerOf(overflow + 24, EstimateTokens(chars) \div 4))
  PROVE  /\ Truncate(chars, tokens) \in Nat /\ Truncate(chars, tokens) <= chars
         /\ Truncate(chars, tokens) >= LesserOf(full, Truncate(full, least))
<1> DEFINE size == EstimateTokens(chars)
<1>1. size \in Nat /\ size > least /\ 10 * chars + 31 >= 32 * size /\ 32 * size >= 10 * chars
  BY DEF EstimateTokens
<1>2. EstimateTokens(full) >= size /\ EstimateTokens(full) \in Nat
  BY EstimateGrows, EstimateIsANumber
<1> HIDE DEF size
<1>3. tokens \in Nat /\ tokens >= least /\ tokens < size /\ (tokens = least \/ tokens + 24 <= size)
  <2>1. tokens = LargerOf(least, size - LargerOf(overflow + 24, size \div 4))
    BY DEF size
  <2>2. size \div 4 \in Nat
    BY <1>1
  <2>3. LargerOf(overflow + 24, size \div 4) \in Nat /\ LargerOf(overflow + 24, size \div 4) >= 24
    BY <2>2 DEF LargerOf
  <2> DEFINE part == LargerOf(overflow + 24, size \div 4)
  <2> HIDE DEF part
  <2>4. tokens = LargerOf(least, size - part) /\ part \in Nat /\ part >= 24
    BY <2>1, <2>3 DEF part
  <2>5. QED
    BY <1>1, <2>4 DEF LargerOf
<1>4. CASE tokens = 0
  <2>1. least = 0 /\ Truncate(chars, tokens) = 0 /\ Truncate(full, least) = 0
    BY <1>3, <1>4 DEF Truncate
  <2>2. QED
    BY <2>1 DEF LesserOf
<1>5. CASE tokens > 0
  <2>1. Truncate(chars, tokens) = LargerOf(64, (305 * tokens) \div 100)
    BY <1>1, <1>3, <1>5 DEF Truncate, size
  <2>2. (305 * tokens) \div 100 \in Nat /\ 100 * ((305 * tokens) \div 100) <= 305 * tokens
    BY <1>3
  <2>3. chars >= 64
    BY <1>1, <1>3, <1>5
  <2>4. (305 * tokens) \div 100 <= chars
    BY <1>1, <1>3, <2>2
  <2>5. Truncate(chars, tokens) \in Nat /\ Truncate(chars, tokens) <= chars
    BY <2>1, <2>2, <2>3, <2>4 DEF LargerOf
  <2>6. CASE least = 0
    <3>1. Truncate(full, least) = 0
      BY <2>6 DEF Truncate
    <3>2. QED
      BY <2>5, <3>1 DEF LesserOf
  <2>7. CASE least >= 80
    <3>1. Truncate(full, least) = LargerOf(64, (305 * least) \div 100)
      BY <1>1, <1>2, <2>7 DEF Truncate
    <3>2. (305 * least) \div 100 <= (305 * tokens) \div 100 /\ (305 * least) \div 100 \in Nat
      BY <1>3
    <3>3. QED
      BY <2>1, <2>2, <2>5, <3>1, <3>2 DEF LargerOf, LesserOf
  <2>8. QED
    BY <2>5, <2>6, <2>7
<1>6. QED
  BY <1>3, <1>4, <1>5

\* The user's message, at last.
LEMMA MessageIsKept ==
  ASSUME NEW chars \in Nat, NEW tokens \in Nat, tokens >= 300
  PROVE  /\ Truncate(chars, tokens) \in Nat /\ Truncate(chars, tokens) <= chars
         /\ Truncate(chars, tokens) >= LesserOf(chars, Truncate(chars, 300))
         /\ chars > 0 => Truncate(chars, tokens) > 0
<1>1. EstimateTokens(chars) \in Nat /\ 10 * chars + 31 >= 32 * EstimateTokens(chars)
  BY DEF EstimateTokens
<1>2. CASE EstimateTokens(chars) <= tokens
  <2>1. Truncate(chars, tokens) = chars
    BY <1>1, <1>2 DEF Truncate
  <2>2. Truncate(chars, 300) \in Nat
    BY <1>1 DEF Truncate, LargerOf
  <2>3. QED
    BY <2>1, <2>2 DEF LesserOf
<1>3. CASE EstimateTokens(chars) > tokens
  <2>1. Truncate(chars, tokens) = LargerOf(64, (305 * tokens) \div 100)
    BY <1>1, <1>3 DEF Truncate
  <2>2. /\ (305 * tokens) \div 100 \in Nat /\ 100 * ((305 * tokens) \div 100) <= 305 * tokens
        /\ (305 * tokens) \div 100 >= 915
    OBVIOUS
  <2>3. (305 * tokens) \div 100 <= chars
    BY <1>1, <1>3, <2>2
  <2>4. Truncate(chars, 300) = 915
    BY <1>1, <1>3 DEF Truncate, LargerOf
  <2>5. QED
    BY <2>1, <2>2, <2>3, <2>4 DEF LargerOf, LesserOf
<1>4. QED
  BY <1>1, <1>2, <1>3

-----------------------------------------------------------------------------
(* The invariant.                                                          *)

PromptTyped ==
  /\ promptPc \in {"none", "evict", "assemble", "done"}
  /\ request \in Requests /\ limit \in Nat
  /\ start \in [Names -> Nat] /\ block \in [Names -> Nat]
  /\ \A n \in Names : block[n] <= start[n]

\* Only what may be cut is cut, the message last.
MandatoryStay ==
  /\ \A n \in Names : n \notin Optional /\ n # "current" => block[n] = start[n]
  /\ promptPc # "done" => block["current"] = start["current"]
  /\ promptPc \in {"assemble", "done"} => start["current"] > 0
  /\ promptPc = "evict" => start["current"] > 0

LoopIsOver == promptPc \in {"assemble", "done"} => SumOfTokens <= limit \/ Candidates = {}

PromptIInv == PromptTyped /\ MandatoryStay /\ LoopIsOver /\ EvictionOrder /\ PromptFits

LEMMA SumIsANumber ==
  ASSUME NEW size, \A n \in Names : size[n] \in Nat
  PROVE  SumOf(size) \in Nat /\ \A n \in Names : size[n] <= SumOf(size)
<1> DEFINE s1 == size.identity + size.session + size.recent + size.recall
           s2 == s1 + size.second_brain + size.grounding_contract + size.web + size.tools
           s3 == s2 + size.mission + size.continuation + size.response_contract + size.numeric_integrity
           s4 == s3 + size.protocol + size.current + size.cue
<1>1. s1 \in Nat /\ size.identity <= s1 /\ size.session <= s1 /\ size.recent <= s1 /\ size.recall <= s1
  <2>1. size.identity \in Nat /\ size.session \in Nat /\ size.recent \in Nat /\ size.recall \in Nat
    BY NamesAre
  <2>2. QED
    BY <2>1
<1>2. s2 \in Nat /\ size.second_brain <= s2 /\ size.grounding_contract <= s2 /\ size.web <= s2 /\ size.tools <= s2 /\ s1 <= s2
  <2>1. size.second_brain \in Nat /\ size.grounding_contract \in Nat /\ size.web \in Nat /\ size.tools \in Nat
    BY NamesAre
  <2> HIDE DEF s1
  <2>2. QED
    BY <2>1, <1>1
<1>3. s3 \in Nat /\ size.mission <= s3 /\ size.continuation <= s3 /\ size.response_contract <= s3 /\ size.numeric_integrity <= s3 /\ s2 <= s3
  <2>1. size.mission \in Nat /\ size.continuation \in Nat /\ size.response_contract \in Nat /\ size.numeric_integrity \in Nat
    BY NamesAre
  <2> HIDE DEF s2
  <2>2. QED
    BY <2>1, <1>2
<1>4. s4 \in Nat /\ size.protocol <= s4 /\ size.current <= s4 /\ size.cue <= s4 /\ s3 <= s4
  <2>1. size.protocol \in Nat /\ size.current \in Nat /\ size.cue \in Nat
    BY NamesAre
  <2> HIDE DEF s3
  <2>2. QED
    BY <2>1, <1>3
<1>5. SumOf(size) = s4
  BY DEF SumOf
<1> HIDE DEF s1, s2, s3, s4
<1>6. \A n \in Names : size[n] \in Nat /\ size[n] <= s4
  BY <1>1, <1>2, <1>3, <1>4, NamesAre
<1>7. QED
  BY <1>4, <1>5, <1>6

\* Rounded together, the blocks are not more than rounded one by one.
LEMMA EstimateOfSum ==
  ASSUME NEW size, \A n \in Names : size[n] \in Nat, NEW tokens,
         \A n \in Names : tokens[n] = EstimateTokens(size[n])
  PROVE  EstimateTokens(SumOf(size)) <= SumOf(tokens)
<1> DEFINE s1 == size.identity + size.session + size.recent + size.recall
           s2 == s1 + size.second_brain + size.grounding_contract + size.web
           s3 == s2 + size.tools + size.mission + size.continuation
           s4 == s3 + size.response_contract + size.numeric_integrity + size.protocol
           s5 == s4 + size.current + size.cue
           t1 == tokens.identity + tokens.session + tokens.recent + tokens.recall
           t2 == t1 + tokens.second_brain + tokens.grounding_contract + tokens.web
           t3 == t2 + tokens.tools + tokens.mission + tokens.continuation
           t4 == t3 + tokens.response_contract + tokens.numeric_integrity + tokens.protocol
           t5 == t4 + tokens.current + tokens.cue
<1>1. s1 \in Nat /\ t1 \in Nat /\ EstimateTokens(s1) <= t1
  <2>1. size.identity \in Nat /\ size.session \in Nat /\ size.recent \in Nat /\ size.recall \in Nat
    BY NamesAre
  <2>2. /\ tokens.identity = EstimateTokens(size.identity)
        /\ tokens.session = EstimateTokens(size.session)
        /\ tokens.recent = EstimateTokens(size.recent)
        /\ tokens.recall = EstimateTokens(size.recall)
    BY NamesAre
  <2>3. QED
    BY <2>1, <2>2 DEF EstimateTokens
<1>2. s2 \in Nat /\ t2 \in Nat /\ EstimateTokens(s2) <= t2
  <2>1. size.second_brain \in Nat /\ size.grounding_contract \in Nat /\ size.web \in Nat
    BY NamesAre
  <2>2. /\ tokens.second_brain = EstimateTokens(size.second_brain)
        /\ tokens.grounding_contract = EstimateTokens(size.grounding_contract)
        /\ tokens.web = EstimateTokens(size.web)
    BY NamesAre
  <2> HIDE DEF s1, t1
  <2>3. QED
    BY <2>1, <2>2, <1>1 DEF EstimateTokens
<1>3. s3 \in Nat /\ t3 \in Nat /\ EstimateTokens(s3) <= t3
  <2>1. size.tools \in Nat /\ size.mission \in Nat /\ size.continuation \in Nat
    BY NamesAre
  <2>2. /\ tokens.tools = EstimateTokens(size.tools)
        /\ tokens.mission = EstimateTokens(size.mission)
        /\ tokens.continuation = EstimateTokens(size.continuation)
    BY NamesAre
  <2> HIDE DEF s2, t2
  <2>3. QED
    BY <2>1, <2>2, <1>2 DEF EstimateTokens
<1>4. s4 \in Nat /\ t4 \in Nat /\ EstimateTokens(s4) <= t4
  <2>1. size.response_contract \in Nat /\ size.numeric_integrity \in Nat /\ size.protocol \in Nat
    BY NamesAre
  <2>2. /\ tokens.response_contract = EstimateTokens(size.response_contract)
        /\ tokens.numeric_integrity = EstimateTokens(size.numeric_integrity)
        /\ tokens.protocol = EstimateTokens(size.protocol)
    BY NamesAre
  <2> HIDE DEF s3, t3
  <2>3. QED
    BY <2>1, <2>2, <1>3 DEF EstimateTokens
<1>5. s5 \in Nat /\ t5 \in Nat /\ EstimateTokens(s5) <= t5
  <2>1. size.current \in Nat /\ size.cue \in Nat
    BY NamesAre
  <2>2. /\ tokens.current = EstimateTokens(size.current)
        /\ tokens.cue = EstimateTokens(size.cue)
    BY NamesAre
  <2> HIDE DEF s4, t4
  <2>3. QED
    BY <2>1, <2>2, <1>4 DEF EstimateTokens
<1>6. SumOf(size) = s5 /\ SumOf(tokens) = t5
  BY DEF SumOf
<1>7. QED
  BY <1>5, <1>6

LEMMA SumShrinks ==
  ASSUME NEW small, NEW large,
         \A n \in Names : small[n] \in Nat /\ large[n] \in Nat /\ small[n] <= large[n]
  PROVE  SumOf(small) <= SumOf(large)
<1> DEFINE s1 == small.identity + small.session + small.recent + small.recall
           s2 == s1 + small.second_brain + small.grounding_contract + small.web
           s3 == s2 + small.tools + small.mission + small.continuation
           s4 == s3 + small.response_contract + small.numeric_integrity + small.protocol
           s5 == s4 + small.current + small.cue
           l1 == large.identity + large.session + large.recent + large.recall
           l2 == l1 + large.second_brain + large.grounding_contract + large.web
           l3 == l2 + large.tools + large.mission + large.continuation
           l4 == l3 + large.response_contract + large.numeric_integrity + large.protocol
           l5 == l4 + large.current + large.cue
<1>1. s1 \in Nat /\ l1 \in Nat /\ s1 <= l1
  <2>1. /\ small.identity \in Nat /\ small.session \in Nat /\ small.recent \in Nat /\ small.recall \in Nat
        /\ large.identity \in Nat /\ large.session \in Nat /\ large.recent \in Nat /\ large.recall \in Nat
    BY NamesAre
  <2>2. small.identity <= large.identity /\ small.session <= large.session /\ small.recent <= large.recent /\ small.recall <= large.recall
    BY NamesAre
  <2>3. QED
    BY <2>1, <2>2
<1>2. s2 \in Nat /\ l2 \in Nat /\ s2 <= l2
  <2>1. /\ small.second_brain \in Nat /\ small.grounding_contract \in Nat /\ small.web \in Nat
        /\ large.second_brain \in Nat /\ large.grounding_contract \in Nat /\ large.web \in Nat
    BY NamesAre
  <2>2. small.second_brain <= large.second_brain /\ small.grounding_contract <= large.grounding_contract /\ small.web <= large.web
    BY NamesAre
  <2> HIDE DEF s1, l1
  <2>3. QED
    BY <2>1, <2>2, <1>1
<1>3. s3 \in Nat /\ l3 \in Nat /\ s3 <= l3
  <2>1. /\ small.tools \in Nat /\ small.mission \in Nat /\ small.continuation \in Nat
        /\ large.tools \in Nat /\ large.mission \in Nat /\ large.continuation \in Nat
    BY NamesAre
  <2>2. small.tools <= large.tools /\ small.mission <= large.mission /\ small.continuation <= large.continuation
    BY NamesAre
  <2> HIDE DEF s2, l2
  <2>3. QED
    BY <2>1, <2>2, <1>2
<1>4. s4 \in Nat /\ l4 \in Nat /\ s4 <= l4
  <2>1. /\ small.response_contract \in Nat /\ small.numeric_integrity \in Nat /\ small.protocol \in Nat
        /\ large.response_contract \in Nat /\ large.numeric_integrity \in Nat /\ large.protocol \in Nat
    BY NamesAre
  <2>2. small.response_contract <= large.response_contract /\ small.numeric_integrity <= large.numeric_integrity /\ small.protocol <= large.protocol
    BY NamesAre
  <2> HIDE DEF s3, l3
  <2>3. QED
    BY <2>1, <2>2, <1>3
<1>5. s5 \in Nat /\ l5 \in Nat /\ s5 <= l5
  <2>1. /\ small.current \in Nat /\ small.cue \in Nat
        /\ large.current \in Nat /\ large.cue \in Nat
    BY NamesAre
  <2>2. small.current <= large.current /\ small.cue <= large.cue
    BY NamesAre
  <2> HIDE DEF s4, l4
  <2>3. QED
    BY <2>1, <2>2, <1>4
<1>6. SumOf(small) = s5 /\ SumOf(large) = l5
  BY DEF SumOf
<1>7. QED
  BY <1>5, <1>6

LEMMA TokensAreNumbers ==
  ASSUME PromptTyped
  PROVE  /\ \A n \in Names : TokensOf(n) \in Nat
         /\ SumOfTokens \in Nat /\ \A n \in Names : TokensOf(n) <= SumOfTokens
<1>1. \A n \in Names : TokensOf(n) \in Nat
  BY EstimateIsANumber DEF PromptTyped, TokensOf
<1> DEFINE size == [n \in Names |-> TokensOf(n)]
<1>2. \A n \in Names : size[n] \in Nat /\ size[n] = TokensOf(n)
  BY <1>1
<1> HIDE DEF size
<1>3. SumOf(size) \in Nat /\ \A n \in Names : size[n] <= SumOf(size)
  BY <1>2, SumIsANumber
<1>4. QED
  BY <1>1, <1>2, <1>3 DEF SumOfTokens, size

LEMMA TargetIsFirst ==
  ASSUME PromptTyped, Candidates # {}
  PROVE  Target \in Candidates /\ \A m \in Candidates : GoesBefore(Target, m)
<1>1. /\ Candidates \subseteq Names
      /\ \A n \in Names : EvictOrder[n] \in 0..6 /\ TokensOf(n) \in Nat /\ TokensOf(n) <= SumOfTokens
      /\ SumOfTokens \in Nat
  BY OptionalIsNamed, OrdersAreNumbers, TokensAreNumbers DEF Candidates
<1>2. PICK high \in Candidates : \A m \in Candidates : EvictOrder[m] <= EvictOrder[high]
  <2> DEFINE ranks == {6 - EvictOrder[n] : n \in Candidates}
  <2>1. ranks \subseteq Nat /\ ranks # {}
    BY <1>1
  <2>2. PICK a \in ranks : \A b \in ranks : a <= b
    <3> HIDE DEF ranks
    <3>1. QED
      BY <2>1, LeastNumber
  <2>3. PICK n \in Candidates : a = 6 - EvictOrder[n]
    BY <2>2
  <2>4. \A m \in Candidates : 6 - EvictOrder[n] <= 6 - EvictOrder[m]
    BY <2>2, <2>3
  <2>5. \A m \in Candidates : EvictOrder[m] <= EvictOrder[n]
    BY <1>1, <2>4
  <2>6. QED
    BY <2>5
<1> DEFINE top == {n \in Candidates : EvictOrder[n] = EvictOrder[high]}
<1>3. PICK large \in top : \A m \in top : TokensOf(m) <= TokensOf(large)
  <2> DEFINE rests == {SumOfTokens - TokensOf(n) : n \in top}
  <2>1. rests \subseteq Nat /\ rests # {}
    <3>1. high \in top
      OBVIOUS
    <3>2. QED
      BY <1>1, <3>1
  <2>2. PICK a \in rests : \A b \in rests : a <= b
    <3> HIDE DEF rests
    <3>1. QED
      BY <2>1, LeastNumber
  <2>3. PICK n \in top : a = SumOfTokens - TokensOf(n)
    BY <2>2
  <2>4. \A m \in top : SumOfTokens - TokensOf(n) <= SumOfTokens - TokensOf(m)
    BY <2>2, <2>3
  <2>5. \A m \in top : TokensOf(m) <= TokensOf(n)
    BY <1>1, <2>4
  <2>6. QED
    BY <2>5
<1> DEFINE best == {n \in Candidates : \A m \in Candidates : GoesBefore(n, m)}
<1>4. large \in best
  BY <1>1, <1>2, <1>3 DEF GoesBefore
<1> DEFINE places == {i \in DOMAIN BlockNames : BlockNames[i] \in best}
<1>5. places \subseteq Nat /\ places # {}
  BY <1>1, <1>4, NamesAre DEF Names
<1>6. PICK i \in places : \A j \in places : i <= j
  <2> HIDE DEF places
  <2>1. QED
    BY <1>5, LeastNumber
<1>7. i \in DOMAIN BlockNames /\ BlockNames[i] \in best /\ \A j \in 1..i - 1 : BlockNames[j] \notin best
  <2>1. i \in 1..15 /\ DOMAIN BlockNames = 1..15
    BY <1>6, NamesAre
  <2>2. \A j \in 1..i - 1 : j \in 1..15 /\ ~(i <= j)
    BY <2>1
  <2>3. QED
    BY <1>6, <2>1, <2>2
<1>8. Target \in best
  <2> HIDE DEF best
  <2>1. QED
    BY <1>7 DEF Target, best
<1>9. QED
  BY <1>8

LEMMA PromptInitInv == PromptInit => PromptIInv
<1> SUFFICES ASSUME PromptInit PROVE PromptIInv
  OBVIOUS
<1>1. /\ promptPc = "none" /\ limit = 0 /\ request \in Requests /\ block = start
      /\ start \in [Names -> Nat] /\ \A n \in Names : start[n] = 0
  BY DEF PromptInit
<1>2. PromptTyped /\ MandatoryStay /\ LoopIsOver
  BY <1>1, OptionalIsNamed DEF PromptTyped, MandatoryStay, LoopIsOver
<1>3. EvictionOrder
  BY <1>1, OptionalIsNamed DEF EvictionOrder
<1>4. request.lookup \in BOOLEAN
  BY <1>1, PromptAssumption
<1>5. PromptFits
  <2>1. ASSUME NEW n \in Names PROVE block[n] >= Floor(n)
    <3>1. block[n] = 0 /\ start[n] = 0
      BY <1>1
    <3>2. Truncate(0, 300) = 0
      BY DEF Truncate, EstimateTokens
    <3>3. ASSUME n \in Optional PROVE Truncate(0, Minimum(n)) = 0
      <4>1. Minimum(n) \in Nat
        BY <1>4, <3>3, MinimaAreNumbers DEF Minimum
      <4>2. QED
        BY <4>1 DEF Truncate, EstimateTokens
    <3>4. QED
      BY <3>1, <3>2, <3>3 DEF Floor, LesserOf
  <2>2. QED
    BY <1>1, <2>1 DEF PromptFits
<1>6. QED
  BY <1>2, <1>3, <1>5 DEF PromptIInv

LEMMA ComposeInv ==
  ASSUME PromptIInv, NEW l \in Limits, Compose(l) PROVE PromptIInv'
<1>1. /\ promptPc' = "evict" /\ limit' = l /\ start' = Blocks(request) /\ block' = start'
      /\ request' = request /\ request \in Requests
  BY DEF Compose, PromptIInv, PromptTyped
<1>2. start' \in [Names -> Nat] /\ start'["current"] >= 29 /\ l \in Nat
  BY <1>1, BlocksAreNumbers, PromptAssumption
<1>3. \A n \in Names : block'[n] = start'[n] /\ start'[n] \in Nat
  BY <1>1, <1>2
<1>4. PromptTyped'
  BY <1>1, <1>2, <1>3 DEF PromptTyped
<1>5. MandatoryStay' /\ LoopIsOver'
  <2>1. start'["current"] > 0
    BY <1>2, <1>3, OptionalIsNamed
  <2>2. QED
    BY <1>1, <1>3, <2>1, OptionalIsNamed DEF MandatoryStay, LoopIsOver
<1>6. EvictionOrder'
  BY <1>3, OptionalIsNamed DEF EvictionOrder
<1>7. request.lookup \in BOOLEAN
  BY <1>1, PromptAssumption
<1>8. PromptFits'
  <2>1. ASSUME NEW n \in Names PROVE block'[n] >= Floor(n)'
    <3>1. PICK size \in Nat : size = start'[n] /\ size = block'[n]
      BY <1>3
    <3>2. Truncate(size, 300) \in Nat
      BY DEF Truncate, LargerOf, EstimateTokens
    <3>3. ASSUME n \in Optional PROVE Truncate(size, Minimum(n)') \in Nat
      <4>1. PICK least \in Nat : least = Minimum(n)'
        BY <1>1, <1>7, <3>3, MinimaAreNumbers DEF Minimum
      <4>2. QED
        BY <4>1 DEF Truncate, LargerOf, EstimateTokens
    <3>4. QED
      BY <3>1, <3>2, <3>3 DEF Floor, LesserOf
  <2>2. QED
    BY <1>1, <2>1 DEF PromptFits
<1>9. QED
  BY <1>4, <1>5, <1>6, <1>8 DEF PromptIInv

LEMMA EvictInv ==
  ASSUME PromptIInv, Evict PROVE PromptIInv'
<1>0. /\ PromptTyped /\ MandatoryStay /\ EvictionOrder /\ PromptFits
      /\ promptPc = "evict" /\ SumOfTokens > limit /\ Candidates # {}
      /\ block' = [block EXCEPT ![Target] = Truncate(@, NewLimit(Target))]
      /\ UNCHANGED <<promptPc, request, limit, start>>
  BY DEF PromptIInv, Evict
<1>1. PICK n \in Candidates : n = Target /\ \A m \in Candidates : GoesBefore(n, m)
  BY <1>0, TargetIsFirst
<1>2. PICK left : left = Truncate(block[n], NewLimit(n))
  OBVIOUS
<1>3. /\ n \in Optional /\ n \in Names /\ n # "current"
      /\ TokensOf(n) > Minimum(n)
  BY OptionalIsNamed DEF Candidates
<1>4. /\ block[n] \in Nat /\ start[n] \in Nat /\ block[n] <= start[n] /\ limit \in Nat /\ SumOfTokens \in Nat
      /\ request.lookup \in BOOLEAN
  BY <1>0, <1>3, TokensAreNumbers, PromptAssumption DEF PromptTyped
<1>5. Minimum(n) \in Nat /\ (Minimum(n) = 0 \/ Minimum(n) >= 80)
  BY <1>3, <1>4, MinimaAreNumbers DEF Minimum
<1>6. left \in Nat /\ left <= block[n] /\ left >= LesserOf(start[n], Truncate(start[n], Minimum(n)))
  <2>1. PICK chars \in Nat, full \in Nat, least \in Nat :
          chars = block[n] /\ full = start[n] /\ least = Minimum(n)
    BY <1>4, <1>5
  <2>2. PICK overflow \in Nat : overflow = SumOfTokens - limit
    BY <1>0, <1>4
  <2>3. EstimateTokens(chars) > least /\ chars <= full /\ (least = 0 \/ least >= 80)
    BY <1>3, <1>4, <1>5, <2>1 DEF TokensOf
  <2>4. PICK tokens : tokens = LargerOf(least, EstimateTokens(chars)
                                               - LargerOf(overflow + 24, EstimateTokens(chars) \div 4))
    OBVIOUS
  <2>5. NewLimit(n) = tokens
    BY <2>1, <2>2, <2>4 DEF NewLimit, TokensOf
  <2>6. /\ Truncate(chars, tokens) \in Nat /\ Truncate(chars, tokens) <= chars
        /\ Truncate(chars, tokens) >= LesserOf(full, Truncate(full, least))
    BY <2>3, <2>4, CutIsBetween
  <2>7. QED
    BY <1>2, <2>1, <2>5, <2>6
<1>7. /\ block' \in [Names -> Nat] /\ block'[n] = left
      /\ \A m \in Names : m # n => block'[m] = block[m]
  BY <1>0, <1>1, <1>2, <1>3, <1>6 DEF PromptTyped
<1>8. \A m \in Names : block'[m] \in Nat /\ block'[m] <= block[m] /\ block[m] \in Nat /\ start[m] \in Nat
  BY <1>0, <1>6, <1>7 DEF PromptTyped
<1>9. PromptTyped'
  <2>1. \A m \in Names : block'[m] <= start[m]
    BY <1>0, <1>8 DEF PromptTyped
  <2>2. QED
    BY <1>0, <1>7, <2>1 DEF PromptTyped
<1>10. MandatoryStay' /\ LoopIsOver'
  BY <1>0, <1>3, <1>7, OptionalIsNamed DEF MandatoryStay, LoopIsOver
<1>11. \A m \in Optional : /\ TokensOf(m)' <= TokensOf(m) /\ TokensOf(m) \in Nat /\ TokensOf(m)' \in Nat
                            /\ Minimum(m)' = Minimum(m) /\ Minimum(m) \in Nat
  <2>1. SUFFICES ASSUME NEW m \in Optional
                 PROVE  /\ TokensOf(m)' <= TokensOf(m) /\ TokensOf(m) \in Nat /\ TokensOf(m)' \in Nat
                        /\ Minimum(m)' = Minimum(m) /\ Minimum(m) \in Nat
    OBVIOUS
  <2>2. PICK a \in Nat, b \in Nat : a = block'[m] /\ b = block[m] /\ a <= b
    BY <1>8, OptionalIsNamed
  <2>3. EstimateTokens(a) <= EstimateTokens(b) /\ EstimateTokens(a) \in Nat /\ EstimateTokens(b) \in Nat
    BY <2>2, EstimateGrows, EstimateIsANumber
  <2>4. Minimum(m)' = Minimum(m) /\ Minimum(m) \in Nat
    BY <1>0, <1>4, MinimaAreNumbers DEF Minimum
  <2>5. QED
    BY <2>2, <2>3, <2>4 DEF TokensOf
<1>12. EvictionOrder'
  <2> SUFFICES ASSUME NEW a \in Optional, NEW b \in Optional, block'[a] < start'[a], EvictOrder[b] > EvictOrder[a]
               PROVE  TokensOf(b)' <= Minimum(b)'
    BY DEF EvictionOrder
  <2>1. TokensOf(b) <= Minimum(b)
    <3>1. CASE a # n
      <4>1. block[a] < start[a]
        BY <1>0, <1>7, <3>1, OptionalIsNamed
      <4>2. QED
        BY <1>0, <4>1 DEF EvictionOrder
    <3>2. CASE a = n
      <4>1. b \notin Candidates
        <5>1. EvictOrder[a] \in 0..6 /\ EvictOrder[b] \in 0..6
          BY OptionalIsNamed, OrdersAreNumbers
        <5>2. ~GoesBefore(n, b)
          BY <3>2, <5>1 DEF GoesBefore
        <5>3. QED
          BY <1>1, <5>2
      <4>2. block[b] = 0 \/ TokensOf(b) <= Minimum(b)
        <5>1. block[b] \in Nat
          BY <1>8, OptionalIsNamed
        <5>2. QED
          BY <1>11, <4>1, <5>1 DEF Candidates
      <4>3. EstimateTokens(0) = 0
        BY DEF EstimateTokens
      <4>4. QED
        BY <1>11, <4>2, <4>3 DEF TokensOf
    <3>3. QED
      BY <3>1, <3>2
  <2>2. QED
    BY <1>11, <2>1
<1>13. PromptFits'
  <2>1. ASSUME NEW m \in Names PROVE block'[m] >= Floor(m)'
    <3>1. Floor(m)' = Floor(m)
      BY <1>0 DEF Floor, Minimum
    <3>2. CASE m = n
      BY <1>3, <1>6, <1>7, <3>1, <3>2 DEF Floor
    <3>3. CASE m # n
      BY <1>0, <1>7, <3>1, <3>3 DEF PromptFits
    <3>4. QED
      BY <3>2, <3>3
  <2>2. QED
    BY <1>0, <2>1 DEF PromptFits
<1>14. QED
  BY <1>9, <1>10, <1>12, <1>13 DEF PromptIInv

LEMMA StopEvictingInv ==
  ASSUME PromptIInv, StopEvicting PROVE PromptIInv'
<1>1. /\ promptPc = "evict" /\ (SumOfTokens <= limit \/ Candidates = {})
      /\ promptPc' = "assemble" /\ request' = request /\ limit' = limit /\ start' = start /\ block' = block
  BY DEF StopEvicting
<1>2. PromptTyped' /\ MandatoryStay'
  BY <1>1 DEF PromptIInv, PromptTyped, MandatoryStay
<1>3. LoopIsOver'
  BY <1>1 DEF LoopIsOver, SumOfTokens, Candidates, TokensOf, Minimum
<1>4. EvictionOrder'
  BY <1>1 DEF PromptIInv, EvictionOrder, TokensOf, Minimum
<1>5. PromptFits'
  BY <1>1 DEF PromptIInv, PromptFits, Floor, Minimum
<1>6. QED
  BY <1>2, <1>3, <1>4, <1>5 DEF PromptIInv

\* There are no more separators than blocks.
LEMMA NamesAreFew == IsFiniteSet(Names)
<1>1. IsFiniteSet(DOMAIN BlockNames)
  <2>1. 1 \in Int /\ 15 \in Int /\ DOMAIN BlockNames = 1..15
    BY NamesAre
  <2>2. IsFiniteSet(1..15)
    BY <2>1, FS_Interval
  <2>3. QED
    BY <2>1, <2>2
<1>2. BlockNames \in Surjection(DOMAIN BlockNames, Names)
  BY NamesAre DEF Surjection, Names, BlockNames
<1>3. QED
  BY <1>1, <1>2, FS_Surjection DEF ExistsSurjection

LEMMA AssembleInv ==
  ASSUME PromptIInv, Assemble PROVE PromptIInv'
<1> DEFINE short == LargerOf(300, TokensOf("current") - (AssembledTokens - limit) - 32)
<1>0. /\ PromptTyped /\ MandatoryStay /\ EvictionOrder /\ PromptFits
      /\ promptPc = "assemble" /\ promptPc' = "done" /\ (SumOfTokens <= limit \/ Candidates = {})
      /\ block' = IF AssembledTokens <= limit THEN block
                  ELSE [block EXCEPT !["current"] = Truncate(@, short)]
      /\ UNCHANGED <<request, limit, start>>
      /\ "current" \in Names /\ "current" \notin Optional
  BY OptionalIsNamed DEF PromptIInv, Assemble, LoopIsOver
<1>1. /\ \A n \in Names : block[n] \in Nat /\ TokensOf(n) \in Nat
      /\ SumOf(block) \in Nat /\ limit \in Nat /\ SumOfTokens \in Nat
  BY <1>0, SumIsANumber, TokensAreNumbers DEF PromptTyped
<1>2. Cardinality(Filled) \in Nat /\ Cardinality(Filled) >= 1 /\ Separators \in Nat
  <2>1. IsFiniteSet(Filled) /\ "current" \in Filled
    <3>1. Filled \subseteq Names
      BY DEF Filled
    <3>2. block["current"] > 0
      BY <1>0 DEF MandatoryStay
    <3>3. QED
      BY <1>0, <3>1, <3>2, NamesAreFew, FS_Subset DEF Filled
  <2>2. Cardinality(Filled) \in Nat /\ Cardinality(Filled) # 0
    BY <2>1, FS_CardinalityType, FS_EmptySet
  <2>3. QED
    BY <2>2 DEF Separators
<1>3. AssembledTokens \in Nat /\ AssembledTokens <= SumOfTokens + EstimateTokens(Separators)
  <2> DEFINE tokens == [n \in Names |-> TokensOf(n)]
  <2>1. \A n \in Names : tokens[n] = EstimateTokens(block[n])
    BY DEF TokensOf
  <2> HIDE DEF tokens
  <2>2. EstimateTokens(SumOf(block)) <= SumOf(tokens)
    BY <1>1, <2>1, EstimateOfSum
  <2>3. PICK chars \in Nat, between \in Nat : chars = SumOf(block) /\ between = Separators
    BY <1>1, <1>2
  <2>4. /\ EstimateTokens(chars + between) <= EstimateTokens(chars) + EstimateTokens(between)
        /\ EstimateTokens(chars) \in Nat /\ EstimateTokens(between) \in Nat
        /\ EstimateTokens(chars + between) \in Nat
    BY <2>3 DEF EstimateTokens
  <2>5. SumOf(tokens) = SumOfTokens
    BY DEF SumOfTokens, tokens
  <2>6. QED
    BY <1>1, <2>2, <2>3, <2>4, <2>5 DEF AssembledTokens
<1>4. PICK message : message = IF AssembledTokens <= limit THEN block["current"] ELSE Truncate(block["current"], short)
  OBVIOUS
<1>5. /\ message \in Nat /\ message <= block["current"] /\ message > 0
      /\ message >= LesserOf(block["current"], Truncate(block["current"], 300))
  <2>1. PICK chars \in Nat : chars = block["current"]
    BY <1>0, <1>1
  <2>2. chars > 0
    BY <1>0, <2>1 DEF MandatoryStay
  <2>3. Truncate(chars, 300) \in Nat
    BY DEF Truncate, LargerOf, EstimateTokens
  <2>4. CASE AssembledTokens <= limit
    BY <1>4, <2>1, <2>2, <2>3, <2>4 DEF LesserOf
  <2>5. CASE ~(AssembledTokens <= limit)
    <3>1. PICK tokens \in Nat : tokens = short /\ tokens >= 300
      BY <1>0, <1>1, <1>3 DEF LargerOf
    <3>2. message = Truncate(chars, tokens)
      BY <1>4, <2>1, <2>5, <3>1
    <3>3. QED
      BY <2>1, <2>2, <3>1, <3>2, MessageIsKept
  <2>6. QED
    BY <2>4, <2>5
<1> HIDE DEF short
<1>6. /\ block' \in [Names -> Nat] /\ block'["current"] = message
      /\ \A n \in Names : n # "current" => block'[n] = block[n]
  <2>1. CASE AssembledTokens <= limit
    BY <1>0, <1>4, <2>1 DEF PromptTyped
  <2>2. CASE ~(AssembledTokens <= limit)
    BY <1>0, <1>4, <1>5, <2>2 DEF PromptTyped
  <2>3. QED
    BY <2>1, <2>2
<1>7. \A n \in Names : block'[n] \in Nat /\ block'[n] <= block[n]
  BY <1>1, <1>5, <1>6
<1>8. PromptTyped'
  <2>1. \A n \in Names : block'[n] <= start[n]
    BY <1>0, <1>1, <1>7 DEF PromptTyped
  <2>2. QED
    BY <1>0, <1>6, <2>1 DEF PromptTyped
<1>9. MandatoryStay'
  BY <1>0, <1>6 DEF MandatoryStay
<1>10. \A n \in Optional : block'[n] = block[n] /\ TokensOf(n)' = TokensOf(n) /\ Minimum(n)' = Minimum(n)
  BY <1>0, <1>6, OptionalIsNamed DEF TokensOf, Minimum
<1>11. EvictionOrder'
  BY <1>0, <1>10 DEF EvictionOrder
<1>12. Candidates' = Candidates
  BY <1>10 DEF Candidates
<1>13. Separators' = Separators
  <2>1. \A n \in Names : block'[n] > 0 <=> block[n] > 0
    BY <1>0, <1>5, <1>6 DEF MandatoryStay
  <2>2. Filled' = Filled
    BY <2>1 DEF Filled
  <2>3. QED
    BY <2>2 DEF Separators
<1>14. AssembledTokens' <= AssembledTokens
  <2>1. SumOf(block') <= SumOf(block) /\ SumOf(block') \in Nat
    BY <1>1, <1>7, SumShrinks, SumIsANumber
  <2>2. PICK small \in Nat, large \in Nat :
          small = SumOf(block') + Separators /\ large = SumOf(block) + Separators /\ small <= large
    BY <1>1, <1>2, <2>1
  <2>3. AssembledTokens' = EstimateTokens(small) /\ AssembledTokens = EstimateTokens(large)
    BY <1>13, <2>2 DEF AssembledTokens
  <2>4. QED
    BY <2>2, <2>3, EstimateGrows
<1>15. AssembledTokens' \in Nat
  <2>1. PICK small \in Nat : small = SumOf(block') + Separators
    BY <1>2, <1>7, SumIsANumber
  <2>2. QED
    BY <1>13, <2>1, EstimateIsANumber DEF AssembledTokens
<1>16. PromptFits'
  <2>1. AssembledTokens' <= limit' + EstimateTokens(Separators') \/ Candidates' = {}
    <3>1. EstimateTokens(Separators) \in Nat
      BY <1>2, EstimateIsANumber
    <3>2. QED
      BY <1>0, <1>1, <1>3, <1>12, <1>13, <1>14, <1>15, <3>1
  <2>2. ASSUME NEW n \in Names PROVE block'[n] >= Floor(n)'
    <3>1. Floor(n)' = Floor(n)
      BY <1>0 DEF Floor, Minimum
    <3>2. CASE n = "current"
      BY <1>0, <1>5, <1>6, <3>1, <3>2 DEF Floor, MandatoryStay
    <3>3. CASE n # "current"
      BY <1>0, <1>6, <3>1, <3>3 DEF PromptFits
    <3>4. QED
      BY <3>2, <3>3
  <2>3. QED
    BY <2>1, <2>2 DEF PromptFits
<1>17. LoopIsOver'
  <2>1. \A n \in Names : TokensOf(n)' \in Nat /\ TokensOf(n)' <= TokensOf(n)
    <3> SUFFICES ASSUME NEW n \in Names PROVE TokensOf(n)' \in Nat /\ TokensOf(n)' <= TokensOf(n)
      OBVIOUS
    <3>1. PICK small \in Nat, large \in Nat : small = block'[n] /\ large = block[n] /\ small <= large
      BY <1>1, <1>7
    <3>2. QED
      BY <3>1, EstimateGrows, EstimateIsANumber DEF TokensOf
  <2>2. SumOfTokens' <= SumOfTokens /\ SumOfTokens' \in Nat
    <3> DEFINE small == [n \in Names |-> TokensOf(n)']
               large == [n \in Names |-> TokensOf(n)]
    <3>1. \A n \in Names : small[n] \in Nat /\ large[n] \in Nat /\ small[n] <= large[n]
      BY <1>1, <2>1
    <3>2. SumOfTokens' = SumOf(small) /\ SumOfTokens = SumOf(large)
      BY DEF SumOfTokens, SumOf
    <3> HIDE DEF small, large
    <3>3. QED
      BY <3>1, <3>2, SumShrinks, SumIsANumber
  <2>3. QED
    BY <1>0, <1>1, <1>12, <2>2 DEF LoopIsOver
<1>18. QED
  BY <1>8, <1>9, <1>11, <1>16, <1>17 DEF PromptIInv

LEMMA PromptStepInv == PromptIInv /\ [PromptNext]_promptVars => PromptIInv'
<1>1. PromptIInv /\ UNCHANGED promptVars => PromptIInv'
  <2> SUFFICES ASSUME PromptIInv, UNCHANGED promptVars PROVE PromptIInv'
    OBVIOUS
  <2>1. /\ promptPc' = promptPc /\ request' = request /\ limit' = limit /\ start' = start /\ block' = block
    BY DEF promptVars
  <2>2. PromptTyped' /\ MandatoryStay'
    BY <2>1 DEF PromptIInv, PromptTyped, MandatoryStay
  <2>3. LoopIsOver'
    BY <2>1 DEF PromptIInv, LoopIsOver, SumOfTokens, Candidates, TokensOf, Minimum
  <2>4. EvictionOrder'
    BY <2>1 DEF PromptIInv, EvictionOrder, TokensOf, Minimum
  <2>5. PromptFits'
    BY <2>1 DEF PromptIInv, PromptFits, Floor, Minimum, AssembledTokens, Separators, Filled, Candidates, TokensOf
  <2>6. QED
    BY <2>2, <2>3, <2>4, <2>5 DEF PromptIInv
<1>2. QED
  BY <1>1, ComposeInv, EvictInv, StopEvictingInv, AssembleInv DEF PromptNext

\* For texts of any length and any limit: what goes first goes first, what is mandatory stays, and a
\* prompt over its limit has nothing left to cut.
THEOREM CompactionKeepsItsPromises == PromptSpec => []CompactionIsSound
<1>1. PromptIInv => CompactionIsSound
  <2> SUFFICES ASSUME PromptIInv PROVE CompactionIsSound
    OBVIOUS
  <2>1. MessageGoesLast
    <3> SUFFICES ASSUME block["current"] < start["current"]
                 PROVE  Candidates = {} \/ SumOfTokens <= limit
      BY DEF MessageGoesLast
    <3>1. block["current"] # start["current"]
      BY OptionalIsNamed DEF PromptIInv, PromptTyped
    <3>2. QED
      BY <3>1 DEF PromptIInv, MandatoryStay, LoopIsOver
  <2>2. QED
    BY <2>1 DEF PromptIInv, CompactionIsSound
<1>2. QED
  BY <1>1, PromptInitInv, PromptStepInv, PTL DEF PromptSpec

-----------------------------------------------------------------------------
(***************************************************************************)
(* The services side by side: each of them behaves as if it were alone, so *)
(* that what was proved of each holds of all of them.                      *)
(***************************************************************************)
WatchSafety == WatchInit /\ [][WatchNext]_watchVars

LEMMA WatchInvariant == WatchSafety => [](WatchIInv /\ WatchTypesInv)
  BY WatchInitInv, WatchTypesInit, WatchStepInv, WatchTypesStep, PTL DEF WatchSafety

\* A step of the services is a step of one of them and leaves the others where they are.
LEMMA ServicesStepIsAStepOfEach ==
  ASSUME [ServicesNext]_serviceVars
  PROVE  /\ [SearchNext]_searchVars /\ [WatchNext]_watchVars /\ [PromptNext]_promptVars
         /\ [MaintenanceNext]_maintenanceVars /\ [FilterNext]_filterVars
         /\ [ImportNext]_importVars
  BY DEF ServicesNext, serviceVars

\* What a run of the services shows of one of them is a behaviour of its own specification.
THEOREM ServicesAreComposed ==
  ServicesSpec => /\ SearchSpec /\ WatchSafety /\ PromptSpec
                  /\ MaintenanceSpec /\ FilterSpec /\ ImportSpec
<1>1. ServicesInit => /\ SearchInit /\ WatchInit /\ PromptInit
                      /\ MaintenanceInit /\ FilterInit /\ ImportInit
  BY DEF ServicesInit
<1>2. QED
  BY <1>1, ServicesStepIsAStepOfEach, PTL
  DEF ServicesSpec, SearchSpec, WatchSafety, PromptSpec, MaintenanceSpec, FilterSpec, ImportSpec

\* The variables of search, watched facts, idle maintenance and the import have their types, and
\* no search exceeds its budget, no agenda names a fact twice and no import leaves its bounds.
THEOREM ServicesTypes == ServicesSpec => []ServicesTypeOK
<1>1. ImportSpec => []ImportIInv
  BY ImportInitInv, ImportStepInv, PTL DEF ImportSpec
<1>2. QED
  BY ServicesAreComposed, SearchTypes, WatchInvariant, WatchIsTyped, MaintenanceTypes, <1>1,
     ImportIsRight, PTL DEF ServicesTypeOK

\* Beside all the others, every service keeps its promises: in every state what is hidden is not
\* shown, a prompt keeps what is mandatory, each message is recovered once, what is called verified
\* has its event, and what is published is true.
THEOREM ServicesAreSafe ==
  ServicesSpec => [](/\ CompactionIsSound /\ HiddenStaysHidden /\ RecoveredOnce
                     /\ VerifiedHasProvenance /\ PublishedIsTrue)
<1>1. WatchSafety => []VerifiedHasProvenance
  BY WatchInvariant, PTL DEF WatchIInv
<1>2. QED
  BY ServicesAreComposed, CompactionKeepsItsPromises, HiddenIsNeverShown,
     EveryMessageIsRecoveredOnce, <1>1, WhatIsPublishedIsTrue, PTL

\* And in every step: a search leaves a service that has failed it alone, a removed watch comes back
\* only with a turn, and a run that the user cancelled goes no further.
THEOREM ServicesStepsAreSafe ==
  ServicesSpec => FailedServiceRests /\ RemovalHolds /\ IdleWorkYields
<1> DEFINE Act == \A q \in WatchQueries :
                    ~watch[q].active /\ watch'[q].active
                    => grounding.pc = "watch" /\ grounding.query = q
<1>1. WatchIInv /\ [WatchNext]_watchVars => [Act]_watchVars
  BY OnlyGroundingRevives
<1>2. WatchSafety => RemovalHolds
  BY <1>1, WatchInvariant, PTL DEF WatchSafety, RemovalHolds
<1>3. QED
  BY ServicesAreComposed, FailedServicesRest, <1>2, CancelledWorkYields, PTL
=============================================================================
