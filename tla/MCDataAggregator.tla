--------------------------- MODULE MCDataAggregator ---------------------------
(***************************************************************************)
(* Small instances of DataAggregator for TLC: the clients and what they    *)
(* send.                                                                   *)
(***************************************************************************)
EXTENDS DataAggregator, TLC

CONSTANTS TM, Ext \* the TaskManager and the extension of one browser

BothKinds == TM :> {"visit"} @@ Ext :> {"row", "create", "unsupported", "undecodable"}
=============================================================================
