------------------------ MODULE MCUpgradeActivation ------------------------
(***************************************************************************)
(* Small instances of UpgradeActivation: r1 and r3 read the format that r1 *)
(* writes, r2 migrates it to one that r3 reads too.                        *)
(***************************************************************************)
EXTENDS UpgradeActivation, TLC

CONSTANTS o1, o2, c1, c2, r1, r2, r3

SmallReads == (r1 :> {1}) @@ (r2 :> {2}) @@ (r3 :> {1, 2})
SmallDeclares == [r \in {r1, r2, r3} |-> IF r = r2 THEN {[from |-> 1, to |-> 2]} ELSE {}]

Interchangeable == Permutations({o1, o2}) \cup Permutations({c1, c2})
=============================================================================
