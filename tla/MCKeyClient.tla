---------------------------- MODULE MCKeyClient ----------------------------
(* Instantiates KeyClient for TLC with the writer set-up of MCWriteEngine   *)
(* and a reader that looks up or reads over the same kinds of group lists.  *)
EXTENDS KeyClient, MCWriteEngine

MCReadGroupArgs == MCGroupArgs
=============================================================================
