------------------------------ MODULE MCGateway -------------------------------
EXTENDS Gateway

\* Two operators and a viewer.  The viewer reads the pages put together from several
\* services, and tries every route that changes something; one operator calls all
\* other routes, the second those that change what is on these pages.
Shared == {"link_change", "unlink_change", "delete_incident"}
ThreeClients ==
  [h \in {"first", "second", "viewer"} |->
    IF h = "first" THEN RouteNames \ pages
    ELSE IF h = "second" THEN Shared
    ELSE pages \cup {"link_change"}
         \cup {r \in RouteNames : RouteTable[r].rpcs \cap writes # {}}]
TwoUsers == [h \in {"first", "second", "viewer"} |-> IF h = "viewer" THEN 2 ELSE 1]
TwoRoles == <<"operator", "viewer">>

TwoIncidents == <<1, 1>>
OneLink == {<<1, 1>>}
=============================================================================
