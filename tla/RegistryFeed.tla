---------------------------- MODULE RegistryFeed ----------------------------
(* RegistryWatch implements VersionFeed.                                   *)
EXTENDS RegistryWatch

\* Streams that have written neither a snapshot nor a frame.
Fresh == {c \in Clients : pc[c] = "streaming" /\ lastRV[c] = 0}

\* Streams of connected clients that missed neither.
Whole == {c \in Clients : Streaming(c) /\ c \notin lost}

Feed == INSTANCE VersionFeed
          WITH top <- rev, newest <- obj, known <- held, fresh <- Fresh, whole <- Whole

\* "No change in that window can be missed, and a client can only ever move
\* forward" (handleWatch), as an implementation of VersionFeed: whatever the
\* informer, the hub and the handlers do between a change and the frame, a
\* client sees one version at a time, of its own Agent, forward, and the newest
\* in the end.
ImplementsFeed == Feed!Spec
=============================================================================
