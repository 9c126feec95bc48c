--------------------------- MODULE MCAppController ---------------------------
(***************************************************************************)
(* Instances of AppController for TLC.                                     *)
(***************************************************************************)
EXTENDS AppController

AllSpecs == AppSpec

\* Never paused: with or without the one host that two apps compete for.
HostOrNot == {s \in AppSpec : ~s.paused}

\* Two apps that want the same hosts were just created and no watch event has
\* arrived: a state of AppController two edits after Init.
Created == [spec |-> [image |-> CHOOSE i \in Images : TRUE, paused |-> FALSE,
                      hosts |-> Hosts],
            finalizer |-> FALSE, deleting |-> FALSE, phase |-> ""]

ContentionInit ==
  /\ app = [k \in Apps |-> Created]
  /\ cache = [k \in Apps |-> NoApp]
  /\ stale = Apps
  /\ service = [k \in Apps |-> NoService]
  /\ mapping = [h \in Hosts |-> Nobody]
  /\ tenantKnown = TRUE
  /\ queue = {} /\ delayed = {} /\ lost = {}
  /\ w = Idle
  /\ edits = 0 /\ faults = 0

ContentionSpec == ContentionInit /\ [][Next]_vars /\ Fairness
=============================================================================
