-------------------------- MODULE MCCertRotation --------------------------
(* A small instance of CertRotation for TLC: both kinds, a day of two instants and an overlap as *)
(* long as the lead, so that the clamp decides.  Only a signing pair is found at the start, due   *)
(* for rotation one instant later; a certificate for encryption is made by an administrator.      *)
EXTENDS CertRotation, TLC

LeadDays == [k \in Kinds |-> 2]
OverlapDays == [k \in Kinds |-> IF k = "signing" THEN 2 ELSE 1]

LifetimesFound == [k \in Kinds |-> IF k = "signing" THEN {LeadDays[k] * Day + 1} ELSE {}]

Symmetry == Permutations(Signers)
=============================================================================
