---------------------------- MODULE OperationsMC ----------------------------
(***************************************************************************)
(* Operations with an alert feed that may be empty and a flood-sensor feed *)
(* with the longer freshness limit.                                        *)
(***************************************************************************)
EXTENDS Operations

OneFeed == <<"flood_sensors">>
TwoFeeds == <<"rainfall_alerts", "flood_sensors">>
=============================================================================
