------------------------------- MODULE MCClient -------------------------------
(***************************************************************************)
(* The client against any server at all, on a small instance.  A server    *)
(* may make the client download game states over and over (RealizerTracks- *)
(* Client shows how), so the allocations are bounded.                      *)
(***************************************************************************)
EXTENDS NimbleClient

CONSTANT MaxAllocations

MCParticipants == {<<[localIndex |-> 0, participantId |-> 1]>>}
MCUninitWaits == {-1, 2}

MCNext == ClientNext /\ allocations' <= MaxAllocations
MCSpec == ClientInit /\ [][MCNext]_clientVars
================================================================================
