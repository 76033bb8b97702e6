----------------------- MODULE MCCampaignPipeline -----------------------
(* CampaignPipeline for TLC: requests are interchangeable, and so are plans. *)
EXTENDS CampaignPipeline, TLC

Interchangeable == Permutations(Requests) \cup Permutations(Plans)
=========================================================================
