------------------------------- MODULE MCSession -------------------------------
(* Instances of NimbleSession. *)
EXTENDS NimbleSession

\* A party of two, then one player at a time; all participant ids differ.
MCParticipantsFor == [n \in Nonces |->
    IF n = 0 THEN <<[localIndex |-> 0, participantId |-> 1], [localIndex |-> 1, participantId |-> 2]>>
    ELSE <<[localIndex |-> 0, participantId |-> n + 2]>>]
MCParticipants == {MCParticipantsFor[n] : n \in Nonces}
OwnChannels == [c \in 1..MaxConnections |-> c]
OneChannel == [c \in 1..MaxConnections |-> 1]
================================================================================
