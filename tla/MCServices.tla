----------------------------- MODULE MCServices -----------------------------
(***************************************************************************)
(* An instance for TLC of the services behind a turn.  Their models        *)
(* share no variable, so they are explored side by side and not            *)
(* interleaved: service names the one that moves.                          *)
(***************************************************************************)
EXTENDS SearchRoutes, FactWatch, PromptBudget, IdleMaintenance, HiddenMemory,
        MCImport

CONSTANTS q1, q2

VARIABLE service

serviceVars == <<service, searchVars, watchVars, promptVars, maintenanceVars,
                 filterVars, importVars>>

\* What the world has become is told by other sources.
MCSources == <<"page 1", "page 2">>

\* An official resolver, a wave of two, and DuckDuckGo's two pages.
MCRoutes == <<<<"python_org">>, <<"brave", "tavily">>, <<"html">>, <<"lite">>>>

\* Short and long texts of every kind: each block under, at and over its own limit.
MCTexts ==
  [lookup : BOOLEAN, identity : {1700}, session : {0, 1600},
   messages : {<<300, 200>>, <<2000, 3000, 90, 3000>>, <<100, 9000>>},
   recall : {60, 1600}, second_brain : {60, 1600}, web : {0, 2900}, contract : {400},
   tools : {0, 1900}, mission : {0, 1900}, continuation : {0, 900}, response : {500},
   numeric : {0, 2500}, protocol : {1750}, user : {40, 5400}]

\* A mission's context comes with its tools; recollections are all short or all long.
MCRequests ==
  {r \in MCTexts : /\ r.tools = 0 <=> r.mission = 0
                   /\ r.tools = 0 => r.continuation = 0
                   /\ r.recall = r.second_brain
                   /\ r.lookup => r.tools = 0}

\* The two markers have a beginning in common, as those of the code.
MCOpenMarker == <<"<", "m", ">">>
MCCloseMarker == <<"<", "/", "m", ">">>

\* Texts with whole markers and cut ones around and inside of a block, and without an end.
MCPieces == {<<>>, <<"<">>, <<"<", "m">>, <<"<", "<", "/", "m">>, MCOpenMarker, MCCloseMarker}
MCDrafts ==
  {before \o MCOpenMarker \o hidden \o end \o after :
     before, hidden, after \in MCPieces, end \in {<<>>, MCCloseMarker}}
    \cup {a \o b : a, b \in MCPieces}

ServicesInit ==
  /\ service \in {"search", "watch", "prompt", "maintenance", "filter", "import"}
  /\ request \in IF service = "prompt" THEN Requests ELSE {CHOOSE r \in Requests : TRUE}
  /\ draft \in IF service = "filter" THEN Drafts ELSE {CHOOSE d \in Drafts : TRUE}
  /\ SearchInit /\ WatchInit /\ PromptInit /\ MaintenanceInit /\ FilterInit /\ ImportInit

ServicesNext ==
  \/ /\ service = "search" /\ SearchNext
     /\ UNCHANGED <<service, watchVars, promptVars, maintenanceVars, filterVars, importVars>>
  \/ /\ service = "watch" /\ WatchNext
     /\ UNCHANGED <<service, searchVars, promptVars, maintenanceVars, filterVars, importVars>>
  \/ /\ service = "prompt" /\ PromptNext
     /\ UNCHANGED <<service, searchVars, watchVars, maintenanceVars, filterVars, importVars>>
  \/ /\ service = "maintenance" /\ MaintenanceNext
     /\ UNCHANGED <<service, searchVars, watchVars, promptVars, filterVars, importVars>>
  \/ /\ service = "filter" /\ FilterNext
     /\ UNCHANGED <<service, searchVars, watchVars, promptVars, maintenanceVars, importVars>>
  \/ /\ service = "import" /\ ImportNext
     /\ UNCHANGED <<service, searchVars, watchVars, promptVars, maintenanceVars, filterVars>>

\* WatchFairness, for the behaviours in which that service moves.
ServicesFairness ==
  /\ WF_watchVars(service = "watch" /\ GroundStep)
  /\ WF_watchVars(service = "watch" /\ RefreshStep)

ServicesSpec == ServicesInit /\ [][ServicesNext]_serviceVars /\ ServicesFairness

\* The variables of every service keep their types, and its counters their bounds.
ServicesTypeOK == SearchTypeOK /\ WatchTypeOK /\ MaintenanceTypeOK /\ ImportTypeOK
=============================================================================
