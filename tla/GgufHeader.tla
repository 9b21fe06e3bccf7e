------------------------------ MODULE GgufHeader ------------------------------
(***************************************************************************)
(* What gguf.py and model_from_gguf (catalogue.py) make of the header of a *)
(* model file, read from its first bytes.                                  *)
(*                                                                         *)
(* A file is a record.  `header` and `index` are where its metadata and    *)
(* its tensor index end, and `length` where the file ends, in MiB;         *)
(* `weights` and `dense` are sizes in memory units.  For each layer        *)
(* `heads` holds the KV heads (0: the layer keeps no cache) and `sliding`  *)
(* whether its attention is local.  What the metadata says of these is     *)
(* `listed` (heads are published for each layer, or as one number) and     *)
(* `says` ("list": sliding, layer by layer; "stride": every how many       *)
(* layers attend globally; "nothing").  `known` is the stride of an        *)
(* architecture in SLIDING_WINDOW_PATTERN_BY_ARCH, or 0, and `dim` the     *)
(* size of a head.  `complete`: nothing the solver needs is missing.       *)
(***************************************************************************)
EXTENDS Integers, Sequences, FiniteSets, FiniteSetsExt

FileType ==
    {f \in [weights : Nat, dense : Nat, moe : BOOLEAN, dim : Nat, heads : Seq(Nat),
            sliding : Seq(BOOLEAN), listed : BOOLEAN, says : {"list", "stride", "nothing"},
            stride : Nat, known : Nat, header : Nat, index : Nat, length : Nat,
            maxContext : Nat, complete : BOOLEAN] :
        f.dense <= f.weights /\ Len(f.heads) > 0 /\ Len(f.sliding) = Len(f.heads)}

Layers(f) == Len(f.heads)

\* Tensors whose names hold "_exps": what -ncmoe can move
Experts(m) == m.weights - m.dense

GlobalLayers(f) == {i \in 1..Layers(f) : ~f.sliding[i]}
CachingLayers(f) == {i \in 1..Layers(f) : f.heads[i] # 0}
Windowed(f) == \E i \in 1..Layers(f) : f.sliding[i]

\* Every n-th layer is global.
Alternates(f, n) == \A i \in 1..Layers(f) : f.sliding[i] <=> i % n # 0

\* A stride, published or known of the architecture, is that of the layers.
Truthful(f) ==
    /\ f.says = "stride" => f.stride > 0 /\ Alternates(f, f.stride)
    /\ f.says = "nothing" /\ f.known > 1 /\ Windowed(f) => Alternates(f, f.known)

-----------------------------------------------------------------------------
(* The attention layout.                                                   *)

Largest(f, layers) == IF layers = {} THEN 0 ELSE Max({f.heads[i] : i \in layers})

\* GgufMetadata.n_kv_heads: the largest published count, over the global
\* layers if the file says which they are
KvHeads(f) ==
    LET global == GlobalLayers(f) \cap CachingLayers(f)
    IN  IF f.listed /\ f.says = "list" /\ global # {} THEN Largest(f, global)
        ELSE Largest(f, CachingLayers(f))

AtLeastOne(n) == IF n < 1 THEN 1 ELSE n

\* Mutant of FullAttention: an architecture that is known to alternate is taken
\* to alternate in a file that has no window.
FullAttentionByName(f) ==
    IF f.listed /\ CachingLayers(f) # 1..Layers(f) THEN Cardinality(CachingLayers(f))
    ELSE IF f.says = "list" THEN AtLeastOne(Cardinality(GlobalLayers(f)))
    ELSE IF f.says = "stride" /\ f.stride > 1 THEN AtLeastOne(Layers(f) \div f.stride)
    ELSE IF f.known > 1 THEN AtLeastOne(Layers(f) \div f.known)
    ELSE Layers(f)

\* GgufMetadata.full_attn_layers: how many layers have a cache that grows
\* with the context, from the best evidence the file holds
FullAttention(f) ==
    IF f.listed /\ CachingLayers(f) # 1..Layers(f) THEN Cardinality(CachingLayers(f))
    ELSE IF f.says = "list" THEN AtLeastOne(Cardinality(GlobalLayers(f)))
    ELSE IF f.says = "stride" /\ f.stride > 1 THEN AtLeastOne(Layers(f) \div f.stride)
    ELSE IF Windowed(f) /\ f.known > 1 THEN AtLeastOne(Layers(f) \div f.known)
    ELSE Layers(f)

SlidingLayers(f) == IF Windowed(f) THEN Layers(f) - FullAttention(f) ELSE 0

\* Every head of a global layer grows with the context: one pair for each.
GrowingHeads(f) ==
    {p \in GlobalLayers(f) \X (1..Largest(f, 1..Layers(f))) : p[2] <= f.heads[p[1]]}

-----------------------------------------------------------------------------
(* Parsing a prefix.                                                       *)

\* parse_gguf_header raises GgufTruncated if the metadata are cut
HoldsHeader(f, prefix) == prefix >= f.header

\* A tensor index that is cut is taken for one that is absent
HoldsIndex(f, prefix) == prefix >= f.index

\* The weights that are not experts: measured from the gaps between tensors,
\* or without an index 15% of a mixture of experts
Dense(f, measured) ==
    IF measured THEN f.dense
    ELSE IF f.moe THEN (15 * f.weights) \div 100
    ELSE f.weights

\* model_from_gguf: the model as the solver knows it
ModelOf(f, measured) ==
    [weights |-> f.weights, dense |-> Dense(f, measured), measured |-> measured,
     moe |-> f.moe, layers |-> Layers(f),
     growing |-> f.dim * KvHeads(f) * FullAttention(f),
     fixed |-> f.dim * KvHeads(f) * SlidingLayers(f),
     maxContext |-> f.maxContext, native |-> FALSE, score |-> 0]
=============================================================================
