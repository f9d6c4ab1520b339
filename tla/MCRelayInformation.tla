------------------------- MODULE MCRelayInformation -------------------------
(* A small instance of RelayInformation for TLC. *)
EXTENDS RelayInformation, TLC

CONSTANTS t1, u1

MCUrlOf == t1 :> u1

MCNoPayload == {}
InformationCommands == {"AddRelay", "RemoveRelay", "ReconnectRelay", "Shutdown", "Abandon"}
=============================================================================
