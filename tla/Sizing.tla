-------------------------------- MODULE Sizing --------------------------------
(***************************************************************************)
(* A model file from its header to a running server: `plan` or `up --gguf` *)
(* reads as much of the file as it takes, and solves; llama-server starts  *)
(* with the flags of the verdict; `verify` reads and solves again and      *)
(* compares the verdict with the server's log.                             *)
(*                                                                         *)
(* One such sequence is a behavior.  External: what a web server sends; a  *)
(* size it states is that of the file (for a Content-Range that ends in    *)
(* "/ *" the code would take that of the reply).  External too: how much   *)
(* memory llama-server takes, which is what its flags say of the file as   *)
(* it is, plus what the solver has no term for (Drift), and which of it    *)
(* its log names; of several KV lines a log has all or none.  When verify  *)
(* measures again, the server holds part of the memory.                    *)
(***************************************************************************)
EXTENDS GgufHeader, Budget

CONSTANTS
    Asks,       \* what the user asks: a file, how it is read, a machine, a plan
    Machines,   \* the machines a plan is compared across
    Catalogue,  \* CATALOGUE, a sequence of models
    Steps,      \* PROGRESSIVE_READ_STEPS, in MiB
    LocalRead,  \* HEADER_READ_BYTES, in MiB
    Drift       \* how far the KV cache and the compute buffer may be from the plan

ASSUME SizingAssumption ==
    /\ \A a \in Asks : /\ a.file \in FileType /\ a.way \in {"local", "url"}
                      /\ a.hw \in MachineType /\ a.plan \in PlanType
    /\ Catalogue \in Seq(ModelType)
    /\ Steps \in Seq(Nat) /\ Len(Steps) > 0 /\ LocalRead \in Nat
    /\ Machines \subseteq MachineType /\ Drift \subseteq Int

\* A file whose stride is wrong is read wrong: no reader can tell.
ASSUME TruthfulAssumption == \A a \in Asks : Truthful(a.file)

VARIABLES
    ask,        \* the arguments of the commands
    hw,         \* the hardware as the running command sees it
    cmd,        \* "plan" or "verify"
    pc,
    step,       \* the read step of read_gguf_url
    found,      \* "no", then "model", or why there is none: "unreadable", "lost"
    model,      \* the model that was read, if found = "model"
    verdict,
    server,     \* what llama-server took, or NoServer
    report      \* how the last command ended

vars == <<ask, hw, cmd, pc, step, found, model, verdict, server, report>>

NoModel == [weights |-> 0, dense |-> 0]
NoVerdict == [status |-> "none"]
NoServer == [gpu |-> FALSE, up |-> FALSE]

Init ==
    /\ ask \in Asks
    /\ hw = ask.hw
    /\ cmd = "plan" /\ pc = "read" /\ step = 1
    /\ found = "no" /\ model = NoModel /\ verdict = NoVerdict
    /\ server = NoServer
    /\ report = "none"

-----------------------------------------------------------------------------
(* _model_from_args.                                                       *)

Ends(how, m) == found' = how /\ model' = m /\ pc' = "solve"

\* parse_gguf_header and model_from_gguf on a prefix that holds the metadata;
\* without the size of the file (`sized`) there are no weights to plan for.
Parse(f, prefix, sized) ==
    IF f.complete /\ sized THEN Ends("model", ModelOf(f, HoldsIndex(f, prefix)))
    ELSE Ends("unreadable", NoModel)

ReadLocal ==
    LET f == ask.file
        prefix == Lesser(LocalRead, f.length)
    IN  /\ pc = "read" /\ ask.way = "local"
        /\ IF HoldsHeader(f, prefix) THEN Parse(f, prefix, TRUE) ELSE Ends("unreadable", NoModel)
        /\ UNCHANGED <<ask, hw, cmd, step, verdict, server, report>>

\* Mutant of Exhausted: a reply of the size asked for is taken for the end.
ExhaustedEarly(f, got) == got <= Steps[step]

\* A reply shorter than what was asked for: the server has given all it has
Exhausted(f, got) == got < Steps[step]

\* The most a reply may hold that respects the range
AskedFor(f) == Lesser(Steps[step], f.length)

\* How much of the file one reply may hold: what was asked for, less of it, or
\* the whole file if the server ignores the range
Replies(f) == 0..AskedFor(f) \cup {f.length}

\* One request of read_gguf_url.  `sized`: the reply has a Content-Range or a
\* Content-Length.
ReadUrl(got, sized) ==
    LET f == ask.file
    IN  /\ pc = "read" /\ ask.way = "url" /\ got \in Replies(f)
        /\ \/ HoldsHeader(f, got) /\ Parse(f, got, sized) /\ UNCHANGED step
           \/ /\ ~HoldsHeader(f, got) /\ (Exhausted(f, got) \/ step = Len(Steps))
              /\ Ends("unreadable", NoModel) /\ UNCHANGED step
           \/ /\ ~HoldsHeader(f, got) /\ ~Exhausted(f, got) /\ step < Len(Steps)
              /\ step' = step + 1
              /\ UNCHANGED <<pc, found, model>>
        /\ UNCHANGED <<ask, hw, cmd, verdict, server, report>>

\* A body that ends before its Content-Length raises IncompleteRead, which is
\* no OSError: the command ends with a traceback.
ReadBreaks ==
    /\ pc = "read" /\ ask.way = "url"
    /\ pc' = "done" /\ report' = "raised"
    /\ UNCHANGED <<ask, hw, cmd, step, found, model, verdict, server>>

\* An OSError is a note; the commands go on without the model
ReadFails ==
    /\ pc = "read"
    /\ Ends("lost", NoModel)
    /\ UNCHANGED <<ask, hw, cmd, step, verdict, server, report>>

-----------------------------------------------------------------------------
(* cmd_plan, cmd_up and the first half of cmd_verify.                      *)

\* The verdict on the model that was read, or on the best of the catalogue
VerdictsOn(h, plan) ==
    IF found = "model" THEN {Solve(h, model, plan)} ELSE Recommended(h, Catalogue, plan)

Runs(v) == v.status \in {"FITS", "TIGHT"}

\* No verdict and a refusal end plan, up and verify alike.  A plan for a model
\* that was not read names no file with -m, so no server follows it.
Decide ==
    /\ pc = "solve"
    /\ \/ /\ \A v \in VerdictsOn(hw, ask.plan) : ~Runs(v)
          /\ pc' = "done" /\ report' = "refused"
          /\ UNCHANGED verdict
       \/ \E v \in VerdictsOn(hw, ask.plan) :
             /\ Runs(v)
             /\ verdict' = v
             /\ IF cmd = "verify" THEN pc' = "compare" /\ UNCHANGED report
                ELSE pc' = (IF found = "model" THEN "start" ELSE "done") /\ report' = "planned"
    /\ UNCHANGED <<ask, hw, cmd, step, found, model, server>>

-----------------------------------------------------------------------------
(* llama-server (external).                                                *)

\* The layers a verdict's flags keep off the GPU: their experts, or whole.
\* Times the number of layers, to stay exact.
RamShare(f, v) ==
    IF f.moe THEN v.cpuMoe * Experts(f)
    ELSE (Layers(f) - v.gpuLayers) * f.weights

VramShare(f, v) == Layers(f) * f.weights - RamShare(f, v)

Taken(s) == s.vramWeights + s.kv + s.compute

\* The machine as verify sees it: as stated on its command line, or measured
\* again; mapped weights may be counted as free RAM still.
SeenLater(s) ==
    {[hw EXCEPT !.freeVram = Unmeasured, !.freeRam = Unmeasured]} \union
    {[hw EXCEPT
        !.freeVram = IF @ = Unmeasured THEN @ ELSE Positive(@ - Taken(s)),
        !.freeRam = IF @ = Unmeasured THEN @ ELSE Positive(@ - r)] : r \in {0, s.ramWeights}}

\* It starts with the flags of the verdict, on the CPU if it finds no GPU.  If
\* the card has too little memory it dies, or the driver pages.  Then the user
\* runs verify.
Start(gpu, d, e) ==
    LET f == ask.file
        ram == IF gpu THEN RamShare(f, verdict) \div Layers(f) ELSE f.weights
        s == [gpu |-> gpu, up |-> TRUE,
              vramWeights |-> f.weights - ram, ramWeights |-> ram,
              kv |-> Positive(verdict.kv + d), compute |-> Positive(ComputeBuffer + e),
              layers |-> Layers(f), experts |-> IF gpu THEN verdict.cpuMoe ELSE 0]
    IN  /\ pc = "start"
        /\ \/ /\ gpu /\ Taken(s) > hw.vram
              /\ pc' = "done" /\ report' = "crashed"
              /\ UNCHANGED <<hw, cmd, step, found, model, server>>
           \/ /\ server' = s
              /\ hw' \in SeenLater(s)
              /\ cmd' = "verify" /\ pc' = "read" /\ step' = 1
              /\ found' = "no" /\ model' = NoModel
              /\ report' = "none"
        /\ UNCHANGED <<ask, verdict>>

-----------------------------------------------------------------------------
(* compare() in verify.py.                                                 *)

Tolerance == GB \div 4          \* TOLERANCE_GB
UnderFail == GB \div 2          \* UNDER_PREDICT_FAIL_GB
OverWarn == GB                  \* OVER_PREDICT_WARN_GB

\* _compare_memory
Judged(predicted, actual) ==
    IF actual - predicted <= Tolerance /\ predicted - actual <= Tolerance THEN "OK"
    ELSE IF \/ actual - predicted >= UnderFail
            \/ predicted > 0 /\ 2 * actual >= 3 * predicted THEN "FAIL"
    ELSE IF predicted - actual >= OverWarn THEN "WARN"
    ELSE "OK"

\* Mutant of JudgedCompute: a larger buffer than planned is a warning too.
JudgedComputeMild(actual) ==
    IF actual - ComputeBuffer <= Tolerance /\ ComputeBuffer - actual <= Tolerance THEN "OK"
    ELSE "WARN"

JudgedCompute(actual) ==
    IF actual - ComputeBuffer <= Tolerance /\ ComputeBuffer - actual <= Tolerance THEN "OK"
    ELSE IF actual < ComputeBuffer THEN "WARN"
    ELSE "FAIL"

\* What a startup log may name: the buffers, the layers that were offloaded,
\* the tensors that were moved.  Which lines are there depends on the verbosity
\* and on how much of the log was saved.
Parts == {"vram", "ram", "kv", "compute", "layers", "experts"}

\* Observed.gpu_in_use: a device buffer for weights names the device, and the
\* line about the layers says that some were offloaded.
GpuInUse(logged) ==
    server.gpu /\ server.vramWeights > 0 /\ {"vram", "layers"} \subseteq logged

Judgements ==
    [vram |-> Judged(verdict.model.weights - verdict.spilled, server.vramWeights),
     ram |-> Judged(verdict.spilled, server.ramWeights),
     kv |-> Judged(verdict.kv, server.kv),
     compute |-> JudgedCompute(server.compute)]

\* What is not logged is not judged.
Findings(logged) == {Judgements[part] : part \in logged \cap DOMAIN Judgements}

\* The expert layers, the number of layers, and unused VRAM, of which the log
\* says nothing if one of the three buffers is missing
Warned(logged) ==
    \/ "experts" \in logged /\ server.experts > 0 /\ server.experts # verdict.cpuMoe
    \/ "layers" \in logged /\ verdict.model.layers \notin {server.layers, server.layers + 1}
    \/ {"vram", "kv", "compute"} \subseteq logged /\ VramUsed(verdict) - Taken(server) > Tolerance

Compare(logged) ==
    /\ pc = "compare"
    /\ report' = IF ~GpuInUse(logged) \/ "FAIL" \in Findings(logged) THEN "fail"
                 ELSE IF "WARN" \in Findings(logged) \/ Warned(logged) THEN "warn"
                 ELSE "ok"
    /\ pc' = "done"
    /\ UNCHANGED <<ask, hw, cmd, step, found, model, verdict, server>>

Next ==
    \/ ReadLocal
    \/ \E got \in Replies(ask.file), sized \in BOOLEAN : ReadUrl(got, sized)
    \/ ReadBreaks
    \/ ReadFails
    \/ Decide
    \/ \E gpu \in BOOLEAN, d, e \in Drift : Start(gpu, d, e)
    \/ \E logged \in SUBSET Parts : Compare(logged)

Spec == Init /\ [][Next]_vars

-----------------------------------------------------------------------------
(* Properties.                                                             *)

\* The variables have the values their comments say; amounts of memory are
\* naturals, although most are differences.
TypeOK ==
    /\ ask \in Asks
    /\ cmd \in {"plan", "verify"}
    /\ pc \in {"read", "solve", "start", "compare", "done"}
    /\ step \in 1..Len(Steps)
    /\ found \in {"no", "model", "unreadable", "lost"}
    /\ found = "model" => model.dense \in 0..model.weights /\ model.growing \in Nat
    /\ Runs(verdict) =>
          /\ verdict.spilled \in 0..verdict.model.weights
          /\ verdict.cpuMoe \in 0..verdict.model.layers
          /\ verdict.gpuLayers \in 0..verdict.model.layers
    /\ server.up => server.vramWeights \in Nat /\ server.ramWeights \in Nat
    /\ report \in {"none", "planned", "refused", "crashed", "raised", "fail", "warn", "ok"}

\* A file is called unreadable only if something is missing from it, its header
\* ends beyond the most the reader ever asks for, or the last reply was short of
\* what was asked for and is there, or did not say how long the file is: no place
\* where a prefix is cut, and no reply that ignores the range, makes
\* read_gguf_url give up earlier.
ReadReaches ==
    [][found' = "unreadable" /\ found = "no" =>
          LET f == ask.file
          IN  \/ ~f.complete \/ f.header > f.length
              \/ ask.way = "local" /\ f.header > LocalRead
              \/ ask.way = "url" /\ f.header > Steps[Len(Steps)]
              \/ /\ ask.way = "url"
                 /\ \A got \in Replies(f), sized \in BOOLEAN :
                       ReadUrl(got, sized) => got < AskedFor(f) \/ ~sized]_vars

\* However a file describes its attention, the cache is planned for at least
\* the heads that grow with the context (n_kv_heads times full_attn_layers).
KvCovered ==
    found = "model" =>
        model.growing >= ask.file.dim * Cardinality(GrowingHeads(ask.file))

\* The flags of a plan that runs put no more weights on the GPU than there is
\* room for, if the dense part was measured and is not itself too large: whole
\* layers are moved, always enough of them.
VramRespected ==
    pc = "start" /\ model.measured /\ (model.moe => model.dense <= Room(hw, model, ask.plan)) =>
        VramShare(ask.file, verdict) <= Layers(ask.file) * Room(hw, model, ask.plan)

\* What one layer may hold, so that TightMargin covers the rounding
LayerWithinMargin(f) ==
    (IF f.moe THEN Experts(f) ELSE f.weights) <= Layers(f) * TightMargin

\* A plan that FITS does not page: what its flags move to RAM, a whole number
\* of layers, fits the usable RAM beside the prompt cache and the process.
FitsNeverPages ==
    pc = "start" /\ model.measured /\ verdict.status = "FITS" /\ LayerWithinMargin(ask.file) =>
        RamShare(ask.file, verdict) <=
            Layers(ask.file) * (UsableRam(hw) - PromptCache(ask.plan) - Overhead)

AtLeast(h, g) ==
    /\ h.vram >= g.vram /\ h.ram >= g.ram
    /\ (h.freeVram = Unmeasured) = (g.freeVram = Unmeasured) /\ h.freeVram >= g.freeVram
    /\ (h.freeRam = Unmeasured) = (g.freeRam = Unmeasured) /\ h.freeRam >= g.freeRam

SmallerPlans == [context : 1..ask.plan.context, slots : 1..ask.plan.slots]

\* A better machine, a shorter context or fewer slots never make a verdict
\* worse, and never make `recommend` choose what it ranked lower.
MoreNeverHurts ==
    pc \in {"start", "compare"} =>
        \A h \in Machines, p \in SmallerPlans : AtLeast(h, hw) =>
            \E v \in VerdictsOn(h, p) : Runs(v) /\ ~Better(verdict, v)

\* The VRAM that verify finds taken, if what the log does not name is as planned
Accounted(logged) ==
    server.vramWeights + (IF "kv" \in logged THEN server.kv ELSE verdict.kv)
        + (IF "compute" \in logged THEN server.compute ELSE ComputeBuffer)

\* A server whose log accounts for more VRAM than there is to give, by the sum of
\* what verify tolerates in each part, is never passed by verify: no drift of one
\* part hides behind another, a plan for another model, memory that was measured
\* again, or a line that is not in the log.  Of a part that is not logged verify
\* knows nothing: what that takes beyond the plan is not caught.
OvercommitCaught ==
    [][\A logged \in SUBSET Parts :
          Compare(logged) /\ server.gpu
              /\ Accounted(logged) >= UsableVram(hw) + 2 * UnderFail + Tolerance
          => report' \notin {"warn", "ok"}]_vars
=============================================================================
