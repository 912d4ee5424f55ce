---------------------------- MODULE MCSourcePatches ----------------------------
(* Small values for SourcePatches: checkouts of earlier versions.     *)
EXTENDS SourcePatches

MCOldTrees ==
  {[generation |-> [timeout |-> "bounded", sampling |-> "dropped", action |-> "V1",
                    geometry |-> "none", routing |-> "V1", helper |-> "top-level"],
    trainer |-> [validation |-> "V2", metadata |-> "none"],
    main |-> [score |-> "evidence_V2", helper |-> FALSE, evidence |-> "none",
              unicode |-> TRUE, env |-> "V1"],
    workers |-> "V1", rollout |-> "V1", ray |-> "pinned"],
   [generation |-> [timeout |-> "bounded", sampling |-> "kept", action |-> "V2",
                    geometry |-> "none", routing |-> "V2", helper |-> "top-level"],
    trainer |-> [validation |-> "V3", metadata |-> "V2"],
    main |-> [score |-> "V2", helper |-> FALSE, evidence |-> "V3",
              unicode |-> TRUE, env |-> "V2"],
    workers |-> "V2", rollout |-> "V2", ray |-> "V1"],
   [Pinned EXCEPT !.main.score = "V1", !.rollout = "V1"]}
=============================================================================
