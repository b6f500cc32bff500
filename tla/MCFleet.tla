------------------------------ MODULE MCFleet ------------------------------
\* Fleet for TLC: a token that a unit and a viewer share, two checks over one
\* Pub/Sub client, and a region that only one unit uses.
EXTENDS Fleet, TLC

CONSTANTS pubsub, region, install, token, topic, sub, viewer

MCUnder == (token :> install) @@ (topic :> pubsub) @@ (sub :> pubsub)
MCPaths == (1 :> {<<token, region>>}) @@ (2 :> {<<topic>>}) @@ (viewer :> {<<sub>>, <<token>>})
=============================================================================
