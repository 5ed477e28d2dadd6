------------------------------ MODULE Datasources ------------------------------
(***************************************************************************)
(* The storage service with the datasource it was started with (main.rs):  *)
(* the other one stays as it is.                                           *)
(***************************************************************************)
EXTENDS Follower, CsvFollower

VARIABLE datasource  \* the argument --datasource

datasourcesVars == <<vars, csvVars, datasource>>

DatasourcesInit ==
  /\ Init /\ CsvInit
  /\ datasource \in {"sqlite", "csv"}

DatasourcesNext ==
  \/ datasource = "sqlite" /\ Next /\ UNCHANGED <<csvVars, datasource>>
  \/ datasource = "csv" /\ CsvNext /\ UNCHANGED <<vars, datasource>>

DatasourcesSpec == DatasourcesInit /\ [][DatasourcesNext]_datasourcesVars
=============================================================================
