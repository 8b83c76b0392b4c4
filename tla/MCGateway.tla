----------------------------- MODULE MCGateway -----------------------------
(* Gateway for two seats. *)
EXTENDS Gateway

CONSTANTS p1, p2, p3, k1, k2

Sockets == {k1, k2}

MCPlayers == {p1, p2, p3}
MCOwner == <<p1, p2>>
Nobody == {}

DeliveryKinds == {"start", "claim", "arrange", "conclude"}
PresenceKinds == {"start", "conclude", "pause", "unpause"}
MCLeavers == {p1, p3}
MCMortal == {p1}
=============================================================================
