---------------------------- MODULE MCAppRuntime ----------------------------
(* A small instance of AppRuntime: a product whose list names persistence  *)
(* between two other capabilities.                                         *)
EXTENDS AppRuntime

MCCapabilities == <<"wifi", "persistence", "mqtt">>
MCFlows == <<"boot", "loading">>
=============================================================================
