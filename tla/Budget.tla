-------------------------------- MODULE Budget --------------------------------
(***************************************************************************)
(* The budget solver (budget.py): whether a model fits a machine, the      *)
(* flags that split it between GPU and CPU, and which model of the         *)
(* catalogue to recommend.                                                 *)
(*                                                                         *)
(* Memory is counted in whole units, so the sums are exact where the code  *)
(* adds floats.  Speculation is the default, ngram, and -ub is the         *)
(* default: no command sets either.  Licences, warnings and the speed      *)
(* estimate change no verdict.                                             *)
(***************************************************************************)
EXTENDS Integers, Sequences

CONSTANTS
    GB,             \* memory units in a gigabyte
    DriverReserve,  \* VRAM_DRIVER_RESERVE_GB
    IdleRam,        \* WINDOWS_IDLE_RAM_GB
    ComputeBuffer,  \* compute_buffer_gb(DEFAULT_UBATCH)
    Overhead,       \* PROCESS_OVERHEAD_GB + SPEC_NGRAM_RAM_GB
    KvHead,         \* cache of one head for one unit of context
    KvWindow        \* cache of one head for the sliding window

ASSUME UnitsAssumption ==
    /\ GB \in Nat \ {0} /\ GB % 4 = 0      \* quarters of a gigabyte are exact
    /\ DriverReserve \in Nat /\ IdleRam \in Nat
    /\ ComputeBuffer \in Nat /\ Overhead \in Nat /\ KvHead \in Nat /\ KvWindow \in Nat

TightMargin == GB           \* TIGHT_MARGIN_GB
RamSafety == GB             \* MEASURED_RAM_SAFETY_GB

\* A machine: what is installed, and what was measured to be free
Unmeasured == -1
MachineType == [vram : Nat, ram : Nat, freeVram : Nat \union {Unmeasured},
                freeRam : Nat \union {Unmeasured}]
PlanType == [context : Nat, slots : Nat \ {0}]
ModelType ==
    {m \in [weights : Nat, dense : Nat, measured : BOOLEAN, moe : BOOLEAN, layers : Nat \ {0},
            growing : Nat, fixed : Nat, maxContext : Nat, native : BOOLEAN, score : Nat] :
        m.dense <= m.weights}

Lesser(a, b) == IF a < b THEN a ELSE b
Positive(a) == IF a < 0 THEN 0 ELSE a

\* Hardware.vram_usable_gb
UsableVram(hw) ==
    IF hw.freeVram # Unmeasured THEN Lesser(hw.freeVram, hw.vram)
    ELSE Positive(hw.vram - DriverReserve)

\* Hardware.ram_usable_gb
UsableRam(hw) ==
    IF hw.freeRam # Unmeasured THEN Positive(Lesser(hw.freeRam, hw.ram) - RamSafety)
    ELSE Positive(hw.ram - IdleRam)

\* Mutant of PromptCache: the two sizes are swapped.
PromptCacheSwapped(plan) == IF plan.slots = 1 THEN 2 * GB ELSE GB

\* Plan.effective_cram_mib without --cram
PromptCache(plan) == IF plan.slots = 1 THEN GB ELSE 2 * GB

-----------------------------------------------------------------------------
(* solve().                                                                *)

KvCache(m, plan) ==
    (m.growing * KvHead * plan.context + m.fixed * KvWindow) * plan.slots

\* vram_for_weights
Room(hw, m, plan) == UsableVram(hw) - KvCache(m, plan) - ComputeBuffer

Spilled(hw, m, plan) == Positive(m.weights - Room(hw, m, plan))

RamNeeded(hw, m, plan) == Spilled(hw, m, plan) + PromptCache(plan) + Overhead

Headroom(hw, m, plan) == UsableRam(hw) - RamNeeded(hw, m, plan)

\* Mutant of CeilDiv: the number of layers is rounded to the nearest one.
CeilDivNearest(a, b) == (2 * a + b) \div (2 * b)

CeilDiv(a, b) == (a + b - 1) \div b

\* -ncmoe: the layers whose experts must leave the GPU
CpuMoe(m, spilled) ==
    IF spilled > 0 /\ m.moe /\ m.weights > m.dense
    THEN Lesser(m.layers, CeilDiv(spilled * m.layers, m.weights - m.dense))
    ELSE 0

\* -ngl for a dense model: the layers that fit
GpuLayers(m, spilled) ==
    IF spilled > 0 /\ ~m.moe /\ m.weights > 0
    THEN ((m.weights - spilled) * m.layers) \div m.weights
    ELSE m.layers

Refuse(hw, m, plan) ==
    \/ plan.context > m.maxContext
    \/ Room(hw, m, plan) <= 0
    \/ Headroom(hw, m, plan) < 0

\* Mutant of Status: a plan that needs all the RAM there is still fits.
StatusNoMargin(hw, m, plan) == IF Refuse(hw, m, plan) THEN "REFUSE" ELSE "FITS"

Status(hw, m, plan) ==
    IF Refuse(hw, m, plan) THEN "REFUSE"
    ELSE IF Headroom(hw, m, plan) < TightMargin THEN "TIGHT"
    ELSE "FITS"

\* The verdict on a plan, with the split the flags enforce
Solve(hw, m, plan) ==
    LET spilled == Spilled(hw, m, plan)
    IN  [status |-> Status(hw, m, plan), model |-> m,
         kv |-> KvCache(m, plan), spilled |-> spilled,
         cpuMoe |-> CpuMoe(m, spilled), gpuLayers |-> GpuLayers(m, spilled)]

\* Verdict.vram_used_gb
VramUsed(v) == v.model.weights - v.spilled + v.kv + ComputeBuffer

-----------------------------------------------------------------------------
(* recommend().                                                            *)

\* The key of recommend's max(): FITS, then native quantisation, then score
Better(v, w) ==
    \/ v.status = "FITS" /\ w.status # "FITS"
    \/ /\ (v.status = "FITS") = (w.status = "FITS")
       /\ \/ v.model.native /\ ~w.model.native
          \/ v.model.native = w.model.native /\ v.model.score > w.model.score

\* The first of the best verdicts, in the order of the catalogue, that are not
\* refusals; {} is None.
Recommended(hw, catalogue, plan) ==
    LET verdict(i) == Solve(hw, catalogue[i], plan)
        running == {i \in 1..Len(catalogue) : verdict(i).status # "REFUSE"}
        first == {i \in running : \A j \in running :
                    ~Better(verdict(j), verdict(i)) /\ (j < i => Better(verdict(i), verdict(j)))}
    IN  {verdict(i) : i \in first}
=============================================================================
