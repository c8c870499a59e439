----------------------------- MODULE GgufHeader ------------------------------
(***************************************************************************)
(* What src/src/llama-moestream.cpp learns from the header of the model    *)
(* file while the model is still loading: gguf_kv_int, the scan of the     *)
(* dense weights and the bytes of one slot.                                *)
(*                                                                         *)
(* A shard is a record: opens (fopen and the magic succeed), size (of the  *)
(* file), kv (the integer entries), kvOk (how many can be read), tensors,  *)
(* tensorsOk, and dimsCut (the unreadable tensor entry fails within its    *)
(* dimensions).  A tensor is a record: layer, kind ("exps", "ffn" or       *)
(* "other") and role, as its name says, experts (ne[2]), bytes and off     *)
(* (its offset after the header).                                          *)
(***************************************************************************)
EXTENDS Integers, Sequences, FiniteSets, FiniteSetsExt

CONSTANT MinBytes  \* g_dn_min_bytes, smaller dense weights are not streamed

ASSUME MinBytesAssumption == MinBytes \in Nat \ {0}

\* parse_name: "blk.<layer>.ffn_<role>_exps.weight".
ExpertWeight(t) == t.kind = "exps"

\* parse_dense_any: "blk.<layer>.ffn_<role>.weight", large enough.
DenseWeight(t, nbytes) == t.kind = "ffn" /\ nbytes >= MinBytes

\* The first entry with the key and a plausible value; keys are in shard 1.
KvInt(shards, key) ==
    IF shards = <<>> \/ ~shards[1].opens THEN 0
    ELSE LET kv == shards[1].kv
             fits == {i \in 1 .. shards[1].kvOk :
                         kv[i].key = key /\ kv[i].value \in 1 .. 4095}
         IN  IF fits = {} THEN 0 ELSE kv[Min(fits)].value

TopK(shards) == KvInt(shards, "expert_used_count")
BlockCount(shards) == KvInt(shards, "block_count")
ExpertCount(shards) == KvInt(shards, "expert_count")

\* The KV section can be skipped over.
Indexed(sh) == sh.opens /\ sh.kvOk = Len(sh.kv)

Entries(sh) == {sh.tensors[i] : i \in 1 .. sh.tensorsOk}

\* A weight's size is read off the next offset, the last one's off the file.
EntryEnd(sh, t) ==
    LET later == {u.off : u \in {e \in Entries(sh) : e.off > t.off}}
    IN  IF later # {} THEN Min(later) ELSE sh.size

EntryBytes(sh, t) ==
    IF EntryEnd(sh, t) > t.off THEN EntryEnd(sh, t) - t.off ELSE 0

\* gguf_scan_streamable: shards that cannot be read to the end are passed over.
Streamable(sh) ==
    IF Indexed(sh) /\ sh.tensorsOk = Len(sh.tensors)
      THEN {t \in Entries(sh) : t.experts = 1 /\ DenseWeight(t, EntryBytes(sh, t))}
      ELSE {}

ScanTotal(shards) ==
    MapThenSumSet(
        LAMBDA i : MapThenSumSet(LAMBDA t : EntryBytes(shards[i], t),
                                 Streamable(shards[i])),
        DOMAIN shards)

ExpertEntries(sh) == {t \in Entries(sh) : ExpertWeight(t) /\ t.experts > 1}

FirstShardBytes(shards) ==  \* Mutant: the other shards are not scanned.
    IF shards = <<>> \/ ~Indexed(shards[1]) THEN 0
    ELSE MapThenSumSet(LAMBDA t : t.bytes \div t.experts, ExpertEntries(shards[1]))

\* gguf_bytes_per_slot: one expert of every layer.  A shard that cannot be
\* indexed is passed over, one whose tensor table breaks off counts in part.
BytesPerSlot(shards) ==
    LET indexed == {i \in DOMAIN shards : Indexed(shards[i])}
    IN  IF \E i \in indexed : shards[i].dimsCut THEN 0
        ELSE MapThenSumSet(
                 LAMBDA i : MapThenSumSet(LAMBDA t : t.bytes \div t.experts,
                                          ExpertEntries(shards[i])),
                 indexed)

\* The sizes stat gives for the shards that are there.
FileBytes(shards) ==
    MapThenSumSet(LAMBDA i : shards[i].size,
                  {i \in DOMAIN shards : shards[i].opens})
=============================================================================
