---- MODULE MCHardAssets ----
(* Instances of HardAssets for TLC: the background prefetch and the        *)
(* foreground retry share one asset root.                                  *)
EXTENDS HardAssets

AnyStaging == {"absent", "partial", "whole", "tar", "cut tar"}
AnyLink == {"absent", "canonical", "stale", "tree"}
=============================================================================
