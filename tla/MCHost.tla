------------------------------- MODULE MCHost ------------------------------
(* What the Host keeps outside the Daemon's data, for TLC: the journal of  *)
(* ClientRequests and the receipts of Purge.  They share no state, so a    *)
(* behaviour is one of the first or one of the second.                     *)
EXTENDS ClientRequests, Purge, TLC

CONSTANTS start, cancel, stop

OneOfEach == [q \in Request |-> CASE q = start -> "prompt"
                                  [] q = cancel -> "cancel"
                                  [] q = stop -> "stop"]

Interchangeable == Permutations(Call) \cup Permutations(Content)

HostInit == Init /\ PurgeInit

HostNext ==
    \/ PurgeInit /\ Next /\ UNCHANGED purgeVars
    \/ Init /\ PurgeNext /\ UNCHANGED vars

HostSpec == HostInit /\ [][HostNext]_<<vars, purgeVars>>
=============================================================================
