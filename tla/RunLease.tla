------------------------------ MODULE RunLease ------------------------------
(***************************************************************************)
(* What the Run store promises about the execution of a Run, whoever calls *)
(* it: a lease with fencing epochs.  At most one holder at a time, every   *)
(* grant has a higher epoch than the ones before, a revoked epoch is never *)
(* valid again, and a Run that has ended is never granted again.           *)
(***************************************************************************)
EXTENDS Naturals

CONSTANT Run

VARIABLES
    epoch,  \* the newest epoch granted for a Run
    holder, \* the epoch that may act for it now, 0 when none may
    ended   \* the Runs that have ended

leaseVars == <<epoch, holder, ended>>

LeaseInit ==
    /\ epoch = [r \in Run |-> 0]
    /\ holder = [r \in Run |-> 0]
    /\ ended = {}

Grant(r) ==
    /\ r \notin ended
    /\ holder[r] = 0
    /\ epoch' = [epoch EXCEPT ![r] = @ + 1]
    /\ holder' = [holder EXCEPT ![r] = epoch[r] + 1]
    /\ UNCHANGED ended

(* A runner process serves a whole Project, so several Runs may lose their *)
(* holders at once.                                                        *)
Revoke(S) ==
    /\ holder' = [r \in Run |-> IF r \in S THEN 0 ELSE holder[r]]
    /\ UNCHANGED <<epoch, ended>>

(* Only the holder ends its Run, and gives the lease back with that.       *)
End(r) ==
    /\ holder[r] # 0
    /\ holder' = [holder EXCEPT ![r] = 0]
    /\ ended' = ended \cup {r}
    /\ UNCHANGED epoch

LeaseNext ==
    \/ \E r \in Run : Grant(r) \/ End(r)
    \/ \E S \in SUBSET Run : Revoke(S)

LeaseSpec == LeaseInit /\ [][LeaseNext]_leaseVars
=============================================================================
