------------------------------- MODULE MCSizing -------------------------------
(* Instances of Sizing for TLC.  Memory is in tenths of a megabyte and     *)
(* context in 32K tokens, so a head of 64 takes 45 a unit of context.      *)
EXTENDS Sizing

ReadSteps == <<2, 8, 32, 96>>

\* Gigabytes between what was planned and what was taken
Noise == {-12000, 2400, 9000}

-----------------------------------------------------------------------------
(* Files.                                                                  *)

Uniform(heads, layers) == [i \in 1..layers |-> heads]
Every(n, layers) == [i \in 1..layers |-> i % n # 0]

File(weights, dense, moe) ==
    [weights |-> weights, dense |-> dense, moe |-> moe, dim |-> 1,
     heads |-> Uniform(1, 4), sliding |-> Every(1, 4), listed |-> FALSE,
     says |-> "nothing", stride |-> 0, known |-> 0,
     header |-> 1, index |-> 1, length |-> 200, maxContext |-> 4, complete |-> TRUE]

\* gpt-oss-20b: alternating, which only its architecture tells
GptOss == [File(121100, 19180, TRUE) EXCEPT !.heads = Uniform(8, 24), !.sliding = Every(2, 24),
               !.known = 2, !.header = 20, !.index = 24]

\* Gemma 4: two heads of 512 on every sixth layer, listed layer by layer.  The
\* first read that holds its header cuts its index.
Gemma == [File(129100, 25800, TRUE) EXCEPT !.heads = [i \in 1..30 |-> IF i % 6 = 0 THEN 2 ELSE 8],
              !.dim = 8, !.sliding = Every(6, 30), !.listed = TRUE, !.says = "list", !.known = 6,
              !.header = 31, !.index = 33, !.maxContext = 8]

\* Qwen2.5-Coder-14B, dense
Qwen14 == [File(89900, 89900, FALSE) EXCEPT !.heads = Uniform(8, 48), !.dim = 2,
               !.sliding = [i \in 1..48 |-> FALSE], !.header = 6, !.index = 7]

\* A file whose header ends at h, cut to a length
Cut(h, length) == [GptOss EXCEPT !.header = h, !.index = h, !.length = length]

Partial == [GptOss EXCEPT !.complete = FALSE]

\* Every way to lay out and to describe three layers of attention
Described(layout) ==
    {[layout EXCEPT !.says = "list"], layout} \union
    {[layout EXCEPT !.says = "stride", !.stride = n, !.sliding = Every(n, 3)] : n \in {2, 3}} \union
    {[layout EXCEPT !.known = n, !.sliding = Every(n, 3)] : n \in {2, 3}} \union
    {[layout EXCEPT !.known = n, !.sliding = <<FALSE, FALSE, FALSE>>] : n \in {2, 3}}

Layouts ==
    UNION {Described([File(1000, 1000, FALSE) EXCEPT !.heads = h, !.sliding = s, !.listed = TRUE]) :
              h \in [1..3 -> 0..2], s \in [1..3 -> BOOLEAN]}
    \union
    UNION {Described([File(1000, 1000, FALSE) EXCEPT !.heads = Uniform(h, 3), !.sliding = s]) :
              h \in 1..2, s \in [1..3 -> BOOLEAN]}

-----------------------------------------------------------------------------
(* Machines and plans.                                                     *)

Machine(vram, ram) ==
    [vram |-> vram, ram |-> ram, freeVram |-> Unmeasured, freeRam |-> Unmeasured]
Measured(vram, ram, freeVram, freeRam) ==
    [vram |-> vram, ram |-> ram, freeVram |-> freeVram, freeRam |-> freeRam]

Laptops ==
    {Machine(80000, 160000), Machine(80000, 320000), Machine(160000, 320000),
     Measured(80000, 160000, 78000, 130000), Measured(80000, 320000, 60000, 240000)}
Everything == Laptops \union {Measured(160000, 320000, 150000, 290000)}
Sweep == {Machine(80000, 151760 + 4000 * i) : i \in 0..15}
NoCard == Machine(0, 160000)

Plan(context, slots) == [context |-> context, slots |-> slots]

Ask(file, way, machine, plan) ==
    [file |-> file, way |-> way, hw |-> machine, plan |-> plan]

-----------------------------------------------------------------------------
(* The questions.                                                          *)

PlanAsks ==
    {Ask(r[1], r[2], h, p) : h \in Laptops, p \in {Plan(1, 1), Plan(2, 2), Plan(4, 2)},
        r \in {<<GptOss, "local">>, <<Qwen14, "local">>, <<Gemma, "url">>}}
    \union {Ask(f, "local", h, Plan(1, 2)) : f \in {GptOss, Gemma, Qwen14}, h \in Sweep}
    \union {Ask(f, w, NoCard, Plan(1, 1)) : w \in {"local", "url"},
               f \in {Cut(40, 200), Cut(96, 96), Cut(120, 200), Cut(20, 15), Cut(8, 8), Partial}}
    \union {Ask(f, "url", NoCard, Plan(1, 1)) : f \in Layouts}

\* A model of the catalogue, measured when it was entered
Entry(f, native, score) == [ModelOf(f, TRUE) EXCEPT !.native = native, !.score = score]

Models == <<Entry(GptOss, TRUE, 604), Entry(Gemma, FALSE, 574), Entry(Qwen14, FALSE, 0)>>
=============================================================================
