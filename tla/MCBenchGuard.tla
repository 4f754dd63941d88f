---------------------------- MODULE MCBenchGuard ----------------------------
(* The quiesce guard with the chain that bench_env.ts:151 describes: "Each *)
(* `npx tsx` invocation is a 2-process node chain".  A benchmark of the    *)
(* provers launched by hand, and a campaign.                               *)
EXTENDS BenchGuard, TLC

CONSTANTS campaign, byHand

CampaignAndOneByHand == campaign :> "campaign" @@ byHand :> "zk"
=============================================================================
