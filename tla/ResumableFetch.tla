--------------------------- MODULE ResumableFetch ---------------------------
(***************************************************************************)
(* What a resumable multi-part download promises, whatever happens to the  *)
(* process that performs it: verified parts accumulate one at a time, they *)
(* are given up only when something outside the program destroys the data, *)
(* and the artifact appears only once every part has been verified.        *)
(* E5Assembly (stackpilot/hard_assets.py, assemble_e5) implements it.      *)
(***************************************************************************)
EXTENDS Naturals

CONSTANT NumParts   \* how many pinned parts make up the artifact

VARIABLES
  verified,    \* parts a restarted run can still rely on
  installed,   \* the artifact is in place and made of verified parts
  losses       \* how often the environment has destroyed data

fvars == <<verified, installed, losses>>

FTypeOK ==
  /\ verified \in 0..NumParts
  /\ installed \in BOOLEAN
  /\ losses \in Nat

FInit ==
  /\ verified = 0
  /\ installed \in BOOLEAN
  /\ losses = 0

\* One more part has been fetched, verified and made to survive a restart.
VerifyPart ==
  /\ verified < NumParts
  /\ verified' = verified + 1
  /\ UNCHANGED <<installed, losses>>

\* The staged parts become the artifact in one step.
InstallAll ==
  /\ verified = NumParts
  /\ verified' = 0
  /\ installed' = TRUE
  /\ UNCHANGED losses

\* Only the environment may take verified parts or the artifact away.
Lose ==
  /\ losses' = losses + 1
  /\ verified' \in {0, verified}
  /\ installed' \in {FALSE, installed}

FNext == VerifyPart \/ InstallAll \/ Lose

FSpec == FInit /\ [][FNext]_fvars
=============================================================================
