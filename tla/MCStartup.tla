----------------------------- MODULE MCStartup -------------------------------
(* Model checking of Startup: seven models, and the machines and settings   *)
(* that lead a start down different paths.                                  *)
EXTENDS Startup, SequencesExt

Weight(l, k, r, e, b, s) ==
    [layer |-> l, kind |-> k, role |-> r, experts |-> e, bytes |-> b, shard |-> s]

\* Offsets follow the order of the weights within their shard.
Placed(ws) ==
    [i \in DOMAIN ws |->
        [layer |-> ws[i].layer, kind |-> ws[i].kind, role |-> ws[i].role,
         experts |-> ws[i].experts, bytes |-> ws[i].bytes, shard |-> ws[i].shard,
         off |-> MapThenSumSet(LAMBDA j : ws[j].bytes,
                               {j \in 1 .. i - 1 : ws[j].shard = ws[i].shard})]]

Header == 1

ShardOf(ws, kv, s) ==
    LET own == SelectSeq(ws, LAMBDA w : w.shard = s)
    IN  [opens |-> TRUE, header |-> Header, kv |-> kv, kvOk |-> Len(kv),
         tensors |-> own, tensorsOk |-> Len(own), dimsCut |-> FALSE,
         size |-> Header + MapThenSumSet(LAMBDA i : own[i].bytes, DOMAIN own)]

Key(k, v) == [key |-> k, value |-> v]

ModelOf(ws, experts, topk, nl) ==
    LET kv == <<Key("block_count", nl)>>
              \o (IF topk > 0 THEN <<Key("expert_count", experts),
                                       Key("expert_used_count", topk)>> ELSE <<>>)
        placed == Placed(ws)
    IN  [weights |-> placed, experts |-> experts, topk |-> topk,
         shards |-> [s \in 1 .. Max({w.shard : w \in ToSet(ws)}) |->
                        ShardOf(placed, IF s = 1 THEN kv ELSE <<>>, s)]]

Experts(l, n, s) == [r \in 1 .. 3 |-> Weight(l, "exps", r - 1, n, n, s)]
DenseFfn(l, gu, d) == <<Weight(l, "ffn", 0, 1, gu, 1), Weight(l, "ffn", 1, 1, gu, 1),
                        Weight(l, "ffn", 2, 1, d, 1)>>
Attention(l) == <<Weight(l, "other", 0, 1, 1, 1)>>

\* The first layer of a Mixture-of-Experts model is often dense; a large model
\* comes in two shards; a single expert is routed to like any other.
Moe == ModelOf(Attention(0) \o DenseFfn(0, 4, 4) \o Experts(1, 16, 1), 16, 3, 2)
MoeSplit == ModelOf(Attention(0) \o Experts(0, 16, 1) \o Experts(1, 16, 2), 16, 3, 2)
FewExperts == ModelOf(Attention(0) \o Experts(0, 4, 1), 4, 2, 1)
Fused == ModelOf(Attention(0) \o <<Weight(0, "fused", 0, 16, 32, 1),
                                   Weight(0, "fused", 2, 16, 16, 1)>>, 16, 3, 1)
DenseModel == ModelOf(Attention(0) \o DenseFfn(0, 4, 4) \o DenseFfn(1, 4, 4)
                        \o DenseFfn(2, 4, 4), 1, 0, 3)
LoneExpertModel == ModelOf(Attention(0) \o Experts(0, 1, 1) \o Attention(1), 1, 1, 2)
MixedQuant == ModelOf(DenseFfn(0, 3, 4) \o DenseFfn(1, 4, 4), 1, 0, 2)

LastMissing(m) == [m.shards EXCEPT ![Len(m.shards)].opens = FALSE]
Truncated(m) == [m.shards EXCEPT ![Len(m.shards)].size = @ - 2]

Files(m) == {m.shards, <<>>, LastMissing(m), Truncated(m)}

Fracs == {[how |-> "number", value |-> v] : v \in {15, 90}}
            \cup {[how |-> "auto", value |-> v] : v \in {30, 66}}

MoeConfigs(models) ==
    UNION {[on : {TRUE}, model : {m}, gguf : Files(m), frac : Fracs, ub : {6},
            arena : BOOLEAN, warmup : BOOLEAN, uma : BOOLEAN, arenas : {0, 2},
            dense : {[how |-> "auto", value |-> 0]}, mem : {Unknown}, bufs : {2}]
           : m \in models}

DenseSplits == {[how |-> "auto", value |-> 0]}
                  \cup {[how |-> "number", value |-> v] : v \in {0, 50, 100}}

DenseConfigs(models) ==
    UNION {[on : BOOLEAN, model : {m}, gguf : Files(m),
            frac : {[how |-> "number", value |-> 38]}, ub : {2},
            arena : {TRUE}, warmup : {TRUE}, uma : BOOLEAN, arenas : {1, 2},
            dense : DenseSplits, mem : {Unknown, 10} \cup 26 .. 37, bufs : {1, 2}]
           : m \in models}

Runs ==
    MoeConfigs({Moe, MoeSplit, FewExperts, Fused, LoneExpertModel})
        \cup DenseConfigs({DenseModel, MixedQuant})
=============================================================================
