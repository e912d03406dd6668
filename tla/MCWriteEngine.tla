--------------------------- MODULE MCWriteEngine ---------------------------
(* Instantiates WriteEngine for TLC: three groups, a three-unit content     *)
(* uploaded in one-unit chunks, two successive write calls.                *)
EXTENDS WriteEngine

MCGroups == {1, 2, 3}
MCDefaultGroups == <<1, 2, 3>>
\* An explicit list shorter than the default one, in a different order.
MCGroupArgs == {<<>>, <<3, 1>>}
MCSuccessCopiesArgs == {0, ALL, 2}
MCIoFlagArgs == {"none", "prepare", "commit", "plain"}
=============================================================================
