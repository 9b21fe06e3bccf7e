--------------------------- MODULE SetupFlowProofs ---------------------------
(***************************************************************************)
(* Theorems about setup, for any numbers of laptops, sizes of the model    *)
(* and runs, wherever they are cut short.                                  *)
(***************************************************************************)
EXTENDS SetupFlow, TLAPS

-----------------------------------------------------------------------------
(* The order of the files, and of the steps.                               *)

LEMMA UpFilesOrder ==
    /\ Len(UpFiles) = 6
    /\ UpFiles[1] = "powercfg" /\ UpFiles[2] = "nssm" /\ UpFiles[3] = "watchdog"
    /\ UpFiles[4] = "loop" /\ UpFiles[5] = "flags" /\ UpFiles[6] = "plan"
BY DEF UpFiles

LEMMA UpFilesNames ==
    /\ FileNames = {"powercfg", "nssm", "watchdog", "loop", "flags", "plan"}
    /\ \A i \in 1..6 : UpFiles[i] \in FileNames
    /\ Scripts \subseteq FileNames
<1>1. \A i \in 1..6 : UpFiles[i] \in FileNames
  BY UpFilesOrder DEF FileNames
<1>2. FileNames \subseteq {"powercfg", "nssm", "watchdog", "loop", "flags", "plan"}
  <2> SUFFICES ASSUME NEW i \in 1..6
               PROVE  UpFiles[i] \in {"powercfg", "nssm", "watchdog", "loop", "flags", "plan"}
    BY UpFilesOrder DEF FileNames
  <2>1. i = 1 \/ i = 2 \/ i = 3 \/ i = 4 \/ i = 5 \/ i = 6
    OBVIOUS
  <2> QED
    BY <2>1, UpFilesOrder
<1>3. {"powercfg", "nssm", "watchdog", "loop", "flags", "plan"} \subseteq FileNames
  BY <1>1, UpFilesOrder
<1> QED
  BY <1>1, <1>2, <1>3 DEF Scripts

\* The place where setup goes is the first step of what is left, never inside
\* one.
LEMMA GotoFirst ==
    ASSUME NEW todo
    PROVE  /\ Goto(todo) \in {"fetch", "connect", "keys", "up", "invite"}
           /\ Goto(todo) = "connect" => "model" \in todo
BY DEF Goto

\* A value for the arguments of a command that does not run
LEMMA NoRunIsRun ==
    /\ NoRun \in Run /\ NoRun.pc = "idle" /\ NoRun.todo = {}
<1>1. (CHOOSE n \in Fleets : TRUE) \in Fleets /\ (CHOOSE c \in Contexts : TRUE) \in Contexts
  BY FleetsAssumption, ContextsAssumption
<1> QED
  BY <1>1, UpFilesOrder DEF NoRun, Run, PC

\* The next step of a run of setup
LEMMA DoneIsRun ==
    ASSUME run \in Run, NEW step
    PROVE  /\ Done(step) \in Run
           /\ Done(step).todo = run.todo \ {step}
           /\ Done(step).pc \in {"fetch", "connect", "keys", "up", "invite"}
           /\ Done(step).pc = "connect" => "model" \in run.todo
           /\ Done(step).file = run.file
<1> DEFINE rest == run.todo \ {step}
<1>1. Done(step) = [run EXCEPT !.todo = rest, !.pc = Goto(rest)]
  BY DEF Done
<1>2. Goto(rest) \in {"fetch", "connect", "keys", "up", "invite"}
      /\ (Goto(rest) = "connect" => "model" \in rest)
  BY GotoFirst
<1>3. rest \in SUBSET Steps /\ Goto(rest) \in PC
  BY <1>2 DEF Run, PC
<1> HIDE DEF rest
<1>4. Done(step) \in Run /\ Done(step).todo = rest /\ Done(step).pc = Goto(rest)
      /\ Done(step).file = run.file
  BY <1>1, <1>3 DEF Run
<1> QED
  BY <1>2, <1>4 DEF rest

-----------------------------------------------------------------------------
(* The inductive invariant.                                                *)

\* What a run may count on at each point: `up` past its preflight, on a machine
\* that serves; a download of the model, on one that has none; and of the files
\* of `up` the ones before the run's are there.
RunInv ==
    /\ run.pc \in {"open", "write"} => Needed \subseteq llama /\ keys > 0
    /\ run.pc \in {"connect", "model"} => "model" \in run.todo
    /\ "model" \in run.todo => model = 0
    /\ \A i \in 1..6 : i < run.file => deploy[UpFiles[i]] # Absent
    /\ run.pc = "write" => deploy[UpFiles[run.file]] # Absent

SetupInv == TypeOK /\ RunInv /\ ServiceOnlyIfRunnable /\ PlanImpliesScripts

LEMMA SetupInvInit == Init => SetupInv
<1> SUFFICES ASSUME Init PROVE SetupInv
  OBVIOUS
<1>1. \A f \in FileNames : deploy[f] = Absent
  BY DEF Init
<1>2. TypeOK
  BY NoRunIsRun, ChunksAssumption, BoundsAssumption DEF Init, TypeOK, Contents
<1>3. RunInv
  BY NoRunIsRun DEF Init, RunInv, NoRun
<1>4. ServiceOnlyIfRunnable
  BY <1>1, UpFilesNames DEF ServiceOnlyIfRunnable, Absent, NoPlan
<1>5. PlanImpliesScripts
  BY <1>1, UpFilesNames DEF PlanImpliesScripts, HavePlan
<1> QED
  BY <1>2, <1>3, <1>4, <1>5 DEF SetupInv

\* A step that changes only where the run is
LEMMA RunStepsKeepSetupInv ==
    ASSUME SetupInv, run' \in Run, UNCHANGED <<llama, part, model, keys, deploy>>,
           faults' \in 0..MaxFaults,
           run'.pc \in {"open", "write"} => Needed \subseteq llama /\ keys > 0,
           run'.pc \in {"connect", "model"} => "model" \in run'.todo,
           "model" \in run'.todo => model = 0,
           run'.file \in {1, run.file}, run'.pc # "write"
    PROVE  SetupInv'
<1>1. TypeOK'
  BY DEF SetupInv, TypeOK
<1>2. RunInv'
  BY DEF SetupInv, RunInv, TypeOK, Run
<1>3. ServiceOnlyIfRunnable' /\ PlanImpliesScripts'
  BY DEF SetupInv, ServiceOnlyIfRunnable, PlanImpliesScripts, HavePlan
<1> QED
  BY <1>1, <1>2, <1>3 DEF SetupInv
\* The same when the step only moves `pc`, or ends the run.
LEMMA MovesKeepSetupInv ==
    ASSUME SetupInv, UNCHANGED <<llama, part, model, keys, deploy>>, faults' \in 0..MaxFaults,
           NEW where \in PC \ {"connect", "model", "open", "write"},
           run' = NoRun \/ run' = [run EXCEPT !.pc = where]
    PROVE  SetupInv'
<1>1. CASE run' = NoRun
  <2>1. run'.file = 1
    BY <1>1 DEF NoRun
  <2> QED
    BY <1>1, <2>1, NoRunIsRun, RunStepsKeepSetupInv
<1>2. CASE run' = [run EXCEPT !.pc = where]
  <2>1. run \in Run
    BY DEF SetupInv, TypeOK
  <2>2. run' \in Run /\ run'.pc = where /\ run'.todo = run.todo /\ run'.file = run.file
    BY <1>2, <2>1 DEF Run
  <2>3. "model" \in run.todo => model = 0
    BY DEF SetupInv, RunInv
  <2> QED
    BY <2>2, <2>3, RunStepsKeepSetupInv
<1> QED
  BY <1>1, <1>2

\* Commands start from what is on disk.
LEMMA StartsKeepSetupInv ==
    ASSUME SetupInv, NEW n \in Fleets, NEW c \in Contexts, NEW gguf \in BOOLEAN,
           StartSetup(n, c) \/ StartUp(n, c, gguf)
    PROVE  SetupInv'
<1>1. CASE StartSetup(n, c)
  <2>1. run' = [pc |-> Goto(Plan(n)), cmd |-> "setup", devices |-> n, context |-> c,
                gguf |-> TRUE, todo |-> Plan(n), file |-> 1]
    BY <1>1 DEF StartSetup
  <2>2. Plan(n) \subseteq Steps
    BY DEF Plan
  <2>3. "model" \in Plan(n) => model = 0
    BY ChunksAssumption DEF Plan, HaveModel, SetupInv, TypeOK, Steps
  <2>4. Goto(Plan(n)) \in {"fetch", "connect", "keys", "up", "invite"}
        /\ (Goto(Plan(n)) = "connect" => "model" \in Plan(n))
    BY GotoFirst
  <2>5. run' \in Run
    BY <2>1, <2>2, <2>4, UpFilesOrder DEF Run, PC
  <2>6. faults' \in 0..MaxFaults /\ UNCHANGED <<llama, part, model, keys, deploy>>
    BY <1>1 DEF StartSetup, SetupInv, TypeOK
  <2> QED
    BY <2>1, <2>3, <2>4, <2>5, <2>6, RunStepsKeepSetupInv
<1>2. CASE StartUp(n, c, gguf)
  <2>1. run' = [pc |-> "up", cmd |-> "up", devices |-> n, context |-> c,
                gguf |-> gguf, todo |-> {}, file |-> 1]
    BY <1>2 DEF StartUp
  <2>2. run' \in Run
    BY <2>1, UpFilesOrder DEF Run, PC
  <2>3. faults' \in 0..MaxFaults /\ UNCHANGED <<llama, part, model, keys, deploy>>
    BY <1>2 DEF StartUp, SetupInv, TypeOK
  <2> QED
    BY <2>1, <2>2, <2>3, RunStepsKeepSetupInv
<1> QED
  BY <1>1, <1>2

\* Steps that only go on, and the ends of a run
LEMMA PlainStepsKeepSetupInv ==
    ASSUME SetupInv, Fetch \/ FetchRuntime \/ PrintInvites \/ Exit \/ NetworkError \/ Kill
    PROVE  SetupInv'
<1> USE DEF PC
<1>1. CASE Fetch
  BY <1>1, MovesKeepSetupInv DEF Fetch, SetupInv, TypeOK
<1>2. CASE FetchRuntime
  BY <1>2, MovesKeepSetupInv DEF FetchRuntime, SetupInv, TypeOK
<1>3. CASE PrintInvites
  BY <1>3, MovesKeepSetupInv DEF PrintInvites, SetupInv, TypeOK
<1>4. CASE Exit
  BY <1>4, MovesKeepSetupInv DEF Exit, SetupInv, TypeOK
<1>5. CASE NetworkError \/ Kill
  <2>1. run' = NoRun /\ UNCHANGED <<llama, part, model, keys, deploy>>
        /\ faults < MaxFaults /\ faults' = faults + 1
    BY <1>5 DEF NetworkError, Kill
  <2>2. faults' \in 0..MaxFaults
    BY <2>1, BoundsAssumption DEF SetupInv, TypeOK
  <2>3. run'.file = 1
    BY <2>1 DEF NoRun
  <2> QED
    BY <2>1, <2>2, <2>3, NoRunIsRun, RunStepsKeepSetupInv
<1> QED
  BY <1>1, <1>2, <1>3, <1>4, <1>5

\* `up` goes on only past its preflight.
LEMMA PreflightKeepsSetupInv == ASSUME SetupInv, Preflight PROVE SetupInv'
<1>1. faults' \in 0..MaxFaults /\ UNCHANGED <<llama, part, model, keys, deploy>>
  BY DEF Preflight, SetupInv, TypeOK
<1>2. CASE ~Passes
  BY <1>1, <1>2, MovesKeepSetupInv DEF Preflight, PC
<1>3. CASE Passes
  <2>1. run' = [run EXCEPT !.pc = "open"]
    BY <1>3 DEF Preflight
  <2>2. run \in Run
    BY DEF SetupInv, TypeOK
  <2>3. run' \in Run /\ run'.pc = "open" /\ run'.todo = run.todo /\ run'.file = run.file
    BY <2>1, <2>2 DEF Run, PC
  <2>4. "model" \in run.todo => model = 0
    BY DEF SetupInv, RunInv
  <2> QED
    BY <1>1, <1>3, <2>3, <2>4, RunStepsKeepSetupInv DEF Passes
<1> QED
  BY <1>2, <1>3

-----------------------------------------------------------------------------
(* Steps that fetch and issue.                                             *)

\* A step that adds to what is there, outside of `up`, and leaves the model and
\* the files of `up` alone
LEMMA AdditionsKeepSetupInv ==
    ASSUME SetupInv, run' \in Run, UNCHANGED <<model, deploy, faults>>,
           llama \subseteq llama', llama' \subseteq Archive \cup {"runtime"},
           part' \in 0..Chunks, keys' \in Nat, keys <= keys',
           run'.pc \notin {"open", "write"},
           run'.pc \in {"connect", "model"} => "model" \in run'.todo,
           run'.todo \subseteq run.todo, run'.file = run.file
    PROVE  SetupInv'
<1>1. TypeOK'
  BY DEF SetupInv, TypeOK
<1>2. RunInv'
  BY DEF SetupInv, RunInv
<1>3. ServiceOnlyIfRunnable'
  BY DEF SetupInv, TypeOK, ServiceOnlyIfRunnable
<1>4. PlanImpliesScripts'
  BY DEF SetupInv, PlanImpliesScripts, HavePlan
<1> QED
  BY <1>1, <1>2, <1>3, <1>4 DEF SetupInv

LEMMA FetchStepsKeepSetupInv ==
    ASSUME SetupInv,
           (\E m \in Archive : Unpack(m)) \/ UnpackRuntime \/ Connect \/ Receive \/ IssueKey
    PROVE  SetupInv'
<1>0. TypeOK /\ RunInv /\ run \in Run
  BY DEF SetupInv, TypeOK
<1>1. ASSUME NEW m \in Archive, Unpack(m) PROVE SetupInv'
  <2>1. llama' = llama \cup {m} /\ run.pc = "unpack"
        /\ UNCHANGED <<part, model, keys, deploy, faults>>
    BY <1>1 DEF Unpack
  <2>2. run' = run \/ run' = [run EXCEPT !.pc = "fetchRuntime"] \/ run' = Done("llama")
    BY <1>1 DEF Unpack
  <2>3. run' \in Run /\ run'.pc \notin {"open", "write", "model"}
        /\ run'.todo \in {run.todo, run.todo \ {"llama"}} /\ run'.file = run.file
        /\ (run'.pc = "connect" => "model" \in run.todo)
    <3>1. CASE run' = run
      BY <1>0, <2>1, <3>1
    <3>2. CASE run' = [run EXCEPT !.pc = "fetchRuntime"]
      BY <1>0, <3>2 DEF Run, PC
    <3>3. CASE run' = Done("llama")
      BY <1>0, <3>3, DoneIsRun
    <3> QED
      BY <2>2, <3>1, <3>2, <3>3
  <2>4. "model" \in run.todo => "model" \in run.todo \ {"llama"}
    OBVIOUS
  <2> QED
    BY <1>0, <2>1, <2>3, <2>4, AdditionsKeepSetupInv DEF TypeOK
<1>2. CASE UnpackRuntime
  <2>1. llama' = llama \cup {"runtime"} /\ run' = Done("llama")
        /\ UNCHANGED <<part, model, keys, deploy, faults>>
    BY <1>2 DEF UnpackRuntime
  <2>2. run' \in Run /\ run'.pc \notin {"open", "write", "model"}
        /\ run'.todo = run.todo \ {"llama"} /\ run'.file = run.file
        /\ (run'.pc = "connect" => "model" \in run.todo)
    BY <1>0, <2>1, DoneIsRun
  <2> QED
    BY <1>0, <2>1, <2>2, AdditionsKeepSetupInv DEF TypeOK
<1>3. CASE Connect
  <2>1. run' = [run EXCEPT !.pc = "model"] /\ run.pc = "connect" /\ part' = 0
        /\ UNCHANGED <<llama, model, keys, deploy, faults>>
    BY <1>3 DEF Connect
  <2>2. run' \in Run /\ run'.pc = "model" /\ run'.todo = run.todo /\ run'.file = run.file
    BY <1>0, <2>1 DEF Run, PC
  <2>3. "model" \in run.todo
    BY <1>0, <2>1 DEF RunInv
  <2>4. part' \in 0..Chunks
    BY <2>1, ChunksAssumption
  <2> QED
    BY <1>0, <2>1, <2>2, <2>3, <2>4, AdditionsKeepSetupInv DEF TypeOK
<1>4. CASE Receive
  <2>1. run' = run /\ run.pc = "model" /\ part < Chunks /\ part' = part + 1
        /\ UNCHANGED <<llama, model, keys, deploy, faults>>
    BY <1>4 DEF Receive
  <2>2. part' \in 0..Chunks
    BY <1>0, <2>1, ChunksAssumption DEF TypeOK
  <2>3. "model" \in run.todo
    BY <1>0, <2>1 DEF RunInv
  <2> QED
    BY <1>0, <2>1, <2>2, <2>3, AdditionsKeepSetupInv DEF TypeOK
<1>5. CASE IssueKey
  <2>1. run.pc = "keys" /\ keys' = keys + 1 /\ (run' = run \/ run' = Done("keys"))
        /\ UNCHANGED <<llama, part, model, deploy, faults>>
    BY <1>5 DEF IssueKey
  <2>2. run' \in Run /\ run'.pc \notin {"open", "write", "model"}
        /\ run'.todo \in {run.todo, run.todo \ {"keys"}} /\ run'.file = run.file
        /\ (run'.pc = "connect" => "model" \in run.todo)
    BY <1>0, <2>1, DoneIsRun
  <2>3. keys' \in Nat /\ keys <= keys'
    BY <1>0, <2>1 DEF TypeOK
  <2>4. "model" \in run.todo => "model" \in run.todo \ {"keys"}
    OBVIOUS
  <2> QED
    BY <1>0, <2>1, <2>2, <2>3, <2>4, AdditionsKeepSetupInv DEF TypeOK
<1> QED
  BY <1>1, <1>2, <1>3, <1>4, <1>5
\* The model gets its final name on a machine that has none: no file of `up`
\* names one yet.
LEMMA RenameKeepsSetupInv == ASSUME SetupInv, Rename PROVE SetupInv'
<1>0. TypeOK /\ RunInv /\ run \in Run
  BY DEF SetupInv, TypeOK
<1>1. run.pc = "model" /\ model' = part /\ part' = 0 /\ run' = Done("model")
      /\ UNCHANGED <<llama, keys, deploy, faults>>
  BY DEF Rename
<1>2. model = 0
  BY <1>0, <1>1 DEF RunInv
<1>3. run' \in Run /\ run'.pc \notin {"connect", "model", "open", "write"}
      /\ "model" \notin run'.todo /\ run'.file = run.file
  <2>1. run'.pc # "connect"
    BY <1>0, <1>1, GotoFirst DEF Done, Run
  <2> QED
    BY <1>0, <1>1, <2>1, DoneIsRun
<1>4. TypeOK'
  BY <1>0, <1>1, <1>3, ChunksAssumption DEF TypeOK
<1>5. RunInv'
  BY <1>0, <1>1, <1>3 DEF RunInv
<1>6. ServiceOnlyIfRunnable'
  BY <1>1, <1>2, ChunksAssumption DEF SetupInv, ServiceOnlyIfRunnable
<1>7. PlanImpliesScripts'
  BY <1>1 DEF SetupInv, PlanImpliesScripts, HavePlan
<1> QED
  BY <1>4, <1>5, <1>6, <1>7 DEF SetupInv

-----------------------------------------------------------------------------
(* The files of `up`.                                                      *)

LEMMA PlanIsTyped ==
    ASSUME TypeOK
    PROVE  [context |-> run.context, slots |-> run.devices, path |-> ModelPath] \in Plans
BY DEF TypeOK, Run, Plans, Paths, ModelPath

\* A file that is opened comes after those before it, the plan after all.
LEMMA OpenFileKeepsSetupInv == ASSUME SetupInv, OpenFile PROVE SetupInv'
<1>0. TypeOK /\ RunInv /\ run \in Run /\ run.file \in 1..6
  BY UpFilesOrder DEF SetupInv, TypeOK, Run
<1> DEFINE name == UpFiles[run.file]
<1>1. run.pc = "open" /\ deploy' = [deploy EXCEPT ![name] = Torn]
      /\ run' = [run EXCEPT !.pc = "write"]
      /\ UNCHANGED <<llama, part, model, keys, faults>>
  BY DEF OpenFile
<1>2. name \in FileNames
  BY <1>0, UpFilesNames
<1>3. run' \in Run /\ run'.pc = "write" /\ run'.todo = run.todo /\ run'.file = run.file
  BY <1>0, <1>1 DEF Run, PC
<1>4. Torn # Absent /\ Torn \in Contents /\ Torn.plan.path # "gguf"
  BY DEF Torn, Absent, Contents, NoPlan
<1>5. deploy' \in [FileNames -> Contents] /\ deploy'[name] = Torn
      /\ \A f \in FileNames : f # name => deploy'[f] = deploy[f]
  BY <1>0, <1>1, <1>2, <1>4 DEF TypeOK
<1> HIDE DEF name
<1>6. \A f \in FileNames : deploy[f] # Absent => deploy'[f] # Absent
  BY <1>4, <1>5
<1>7. TypeOK'
  BY <1>0, <1>1, <1>3, <1>5 DEF TypeOK
<1>8. RunInv'
  BY <1>0, <1>1, <1>3, <1>4, <1>5, <1>6, UpFilesNames DEF RunInv, name
<1>9. ServiceOnlyIfRunnable'
  BY <1>0, <1>1, <1>4, <1>5, UpFilesNames DEF SetupInv, RunInv, ServiceOnlyIfRunnable
<1>10. PlanImpliesScripts'
  <2>1. CASE name = "plan"
    <3>1. run.file = 6
      <4>1. run.file \in {1, 2, 3, 4, 5, 6}
        BY <1>0
      <4> QED
        BY <2>1, <4>1, UpFilesOrder DEF name
    <3>2. \A f \in Scripts : deploy[f] # Absent
      BY <1>0, <3>1, UpFilesOrder DEF RunInv, Scripts
    <3> QED
      BY <1>6, <3>2, UpFilesNames DEF PlanImpliesScripts
  <2>2. CASE name # "plan"
    BY <1>5, <1>6, <2>2, UpFilesNames DEF SetupInv, PlanImpliesScripts, HavePlan
  <2> QED
    BY <2>1, <2>2
<1> QED
  BY <1>7, <1>8, <1>9, <1>10 DEF SetupInv

\* A file is written where it was opened, and names the model it could read.
LEMMA WriteFileKeepsSetupInv == ASSUME SetupInv, WriteFile PROVE SetupInv'
<1>0. TypeOK /\ RunInv /\ run \in Run /\ run.file \in 1..6
  BY UpFilesOrder DEF SetupInv, TypeOK, Run
<1> DEFINE name == UpFiles[run.file]
           plan == [context |-> run.context, slots |-> run.devices, path |-> ModelPath]
<1>1. run.pc = "write" /\ deploy' = [deploy EXCEPT ![name] = WholeFrom(plan)]
      /\ UNCHANGED <<llama, part, model, keys, faults>>
  BY DEF WriteFile
<1>2. name \in FileNames
  BY <1>0, UpFilesNames
<1>3. plan \in Plans /\ (plan.path = "gguf" => model >= Header)
  BY <1>0, PlanIsTyped DEF ModelPath
<1> HIDE DEF plan
<1>4. WholeFrom(plan) # Absent /\ WholeFrom(plan) \in Contents /\ WholeFrom(plan).plan = plan
  BY <1>3 DEF WholeFrom, Absent, Contents
<1>5. deploy' \in [FileNames -> Contents] /\ deploy'[name] = WholeFrom(plan)
      /\ \A f \in FileNames : f # name => deploy'[f] = deploy[f]
  BY <1>0, <1>1, <1>2, <1>4 DEF TypeOK
<1> HIDE DEF name
<1>6. \A f \in FileNames : deploy'[f] # Absent <=> deploy[f] # Absent
  BY <1>0, <1>1, <1>4, <1>5 DEF RunInv, name
<1>7. run' \in Run /\ run'.pc \notin {"model", "write"} /\ run'.todo \subseteq run.todo
      /\ (run'.pc = "connect" => "model" \in run'.todo)
      /\ run'.file <= run.file + 1
  <2>1. CASE run' = [run EXCEPT !.pc = "open", !.file = @ + 1] /\ run.file < 6
    <3>1. run.file + 1 \in 1..Len(UpFiles)
      BY <1>0, <2>1, UpFilesOrder
    <3>2. run' = [run EXCEPT !.pc = "open", !.file = run.file + 1]
      BY <1>0, <2>1 DEF Run
    <3>3. run' \in Run /\ run'.pc = "open" /\ run'.todo = run.todo
          /\ run'.file = run.file + 1
      BY <1>0, <3>1, <3>2 DEF Run, PC
    <3> QED
      BY <1>0, <3>3
  <2>2. CASE run' = Done("up")
    <3>1. "model" \in run.todo => "model" \in run.todo \ {"up"}
      OBVIOUS
    <3> QED
      BY <1>0, <2>2, <3>1, DoneIsRun
  <2>3. CASE run' = [run EXCEPT !.pc = "exited"]
    BY <1>0, <2>3 DEF Run, PC
  <2>4. \/ run' = [run EXCEPT !.pc = "open", !.file = @ + 1] /\ run.file < Len(UpFiles)
        \/ run' = Done("up")
        \/ run' = [run EXCEPT !.pc = "exited"]
    BY DEF WriteFile
  <2>5. Len(UpFiles) = 6
    BY UpFilesOrder
  <2> QED
    BY <2>1, <2>2, <2>3, <2>4, <2>5
<1>8. TypeOK'
  BY <1>0, <1>1, <1>5, <1>7 DEF TypeOK
<1>9. RunInv'
  <2>1. \A i \in 1..6 : i < run'.file => deploy'[UpFiles[i]] # Absent
    <3> SUFFICES ASSUME NEW i \in 1..6, i < run'.file PROVE deploy'[UpFiles[i]] # Absent
      OBVIOUS
    <3>1. run'.file \in 1..6 /\ (i < run.file \/ i = run.file)
      BY <1>0, <1>7, UpFilesOrder DEF Run
    <3>2. deploy[UpFiles[i]] # Absent
      BY <1>0, <1>1, <3>1 DEF RunInv
    <3> QED
      BY <1>6, <3>2, UpFilesNames
  <2> QED
    BY <1>0, <1>1, <1>7, <2>1 DEF RunInv
<1>10. ServiceOnlyIfRunnable'
  BY <1>0, <1>1, <1>3, <1>4, <1>5, <1>6, UpFilesNames
     DEF SetupInv, RunInv, ServiceOnlyIfRunnable
<1>11. PlanImpliesScripts'
  BY <1>6, UpFilesNames DEF SetupInv, PlanImpliesScripts, HavePlan
<1> QED
  BY <1>8, <1>9, <1>10, <1>11 DEF SetupInv

-----------------------------------------------------------------------------

LEMMA NextKeepsSetupInv == SetupInv /\ [Next]_vars => SetupInv'
<1> SUFFICES ASSUME SetupInv, [Next]_vars PROVE SetupInv'
  OBVIOUS
<1>1. CASE Progress
  BY <1>1, PlainStepsKeepSetupInv, PreflightKeepsSetupInv, FetchStepsKeepSetupInv,
     RenameKeepsSetupInv, OpenFileKeepsSetupInv, WriteFileKeepsSetupInv DEF Progress
<1>2. CASE Setup
  BY <1>2, StartsKeepSetupInv DEF Setup
<1>3. CASE \E n \in Fleets, c \in Contexts, gguf \in BOOLEAN : StartUp(n, c, gguf)
  BY <1>3, StartsKeepSetupInv
<1>4. CASE NetworkError \/ Kill
  BY <1>4, PlainStepsKeepSetupInv
<1>5. CASE UNCHANGED vars
  BY <1>5 DEF vars, SetupInv, TypeOK, RunInv, ServiceOnlyIfRunnable, PlanImpliesScripts, HavePlan
<1> QED
  BY <1>1, <1>2, <1>3, <1>4, <1>5 DEF Next

LEMMA SetupInvHolds == Spec => []SetupInv
BY SetupInvInit, NextKeepsSetupInv, PTL DEF Spec

\* Every run, wherever it is cut short, leaves files that are typed: in
\* particular never more of a model than there is.
THEOREM SetupTypes == Spec => []TypeOK
<1>1. SetupInv => TypeOK
  BY DEF SetupInv
<1> QED
  BY <1>1, SetupInvHolds, PTL

\* After any sequence of runs of setup and up, cut short anywhere, the scripts on
\* disk belong to a machine on which llama-server starts and a key was issued,
\* and name the model only if its header can be read (preflight, cmd_up).
THEOREM OnlyRunnable == Spec => []ServiceOnlyIfRunnable
<1>1. SetupInv => ServiceOnlyIfRunnable
  BY DEF SetupInv
<1> QED
  BY <1>1, SetupInvHolds, PTL

\* After any sequence of runs, cut short anywhere, a plan file, even a torn one,
\* stands beside all the scripts `service install` runs: cmd_up writes it last.
THEOREM ScriptsBeforePlan == Spec => []PlanImpliesScripts
<1>1. SetupInv => PlanImpliesScripts
  BY DEF SetupInv
<1> QED
  BY <1>1, SetupInvHolds, PTL

-----------------------------------------------------------------------------
(* If no response ends early: a model is a whole one.                      *)

\* Only a .part file that holds the whole body gets the final name, however
\* often a download was cut short and begun again (download).
THEOREM WholeModels == ASSUME ~EarlyEnd PROVE Spec => []ModelIsWhole
<1>1. Init => ModelIsWhole
  BY DEF Init, ModelIsWhole
<1>2. ModelIsWhole /\ [Next]_vars => ModelIsWhole'
  <2> SUFFICES ASSUME ModelIsWhole, [Next]_vars PROVE ModelIsWhole'
    OBVIOUS
  <2>1. CASE Rename
    BY <2>1 DEF Rename, ModelIsWhole
  <2>2. CASE UNCHANGED model
    BY <2>2 DEF ModelIsWhole
  <2>3. Rename \/ UNCHANGED model
    BY DEF Next, vars, Progress, Setup, StartSetup, StartUp, Fetch, FetchRuntime, Unpack,
           UnpackRuntime, Connect, Receive, IssueKey, Preflight, OpenFile, WriteFile,
           PrintInvites, Exit, NetworkError, Kill
  <2> QED
    BY <2>1, <2>2, <2>3
<1> QED
  BY <1>1, <1>2, PTL DEF Spec

-----------------------------------------------------------------------------
(* If no run is killed while it writes the files of `up`: they agree.      *)

PlanOfRun == [context |-> run.context, slots |-> run.devices, path |-> ModelPath]

\* `up` begins with the first file, and what it has written it wrote from its
\* own plan; outside of it the two files agree.
MatchInv ==
    /\ run.pc \notin {"open", "write", "invite", "exited"} => run.file = 1
    /\ run.pc \in {"up", "open", "write"} => run.todo \subseteq {"up"}
    /\ run.pc \in {"open", "write"} =>
          \A i \in 1..6 : i < run.file => deploy[UpFiles[i]] = WholeFrom(PlanOfRun)
    /\ run.pc \notin {"open", "write"} => (HavePlan => deploy["nssm"] = deploy["plan"])

LEMMA UpFilesDistinct == \A i, j \in 1..6 : UpFiles[i] = UpFiles[j] => i = j
<1> SUFFICES ASSUME NEW i \in 1..6, NEW j \in 1..6, UpFiles[i] = UpFiles[j] PROVE i = j
  OBVIOUS
<1>1. i \in {1, 2, 3, 4, 5, 6} /\ j \in {1, 2, 3, 4, 5, 6}
  OBVIOUS
<1> QED
  BY <1>1, UpFilesOrder

\* Setup comes to `up` when the steps before it are done.
LEMMA GotoUp ==
    ASSUME NEW todo \in SUBSET Steps
    PROVE  /\ Goto(todo) = "up" => todo \subseteq {"up"}
           /\ todo = {} => Goto(todo) = "invite"
<1>1. CASE "llama" \in todo \/ "model" \in todo \/ "keys" \in todo
  <2>1. Goto(todo) \in {"fetch", "connect", "keys"}
    BY <1>1 DEF Goto
  <2> QED
    BY <1>1, <2>1
<1>2. CASE "llama" \notin todo /\ "model" \notin todo /\ "keys" \notin todo
  <2>1. todo \subseteq {"up"}
    BY <1>2 DEF Steps
  <2>2. "up" \notin todo => Goto(todo) = "invite"
    BY <1>2 DEF Goto
  <2> QED
    BY <2>1, <2>2
<1> QED
  BY <1>1, <1>2

LEMMA DoneGoesOn ==
    ASSUME run \in Run, NEW step
    PROVE  /\ Done(step).pc = "up" => Done(step).todo \subseteq {"up"}
           /\ run.todo \subseteq {step} => Done(step).pc = "invite"
<1>1. run.todo \ {step} \in SUBSET Steps
  BY DEF Run
<1>2. Done(step).pc = Goto(run.todo \ {step}) /\ Done(step).todo = run.todo \ {step}
  BY DEF Done, Run
<1>3. run.todo \subseteq {step} => run.todo \ {step} = {}
  OBVIOUS
<1> QED
  BY <1>1, <1>2, <1>3, GotoUp

\* Steps outside of `up` do not touch its files.
LEMMA OtherStepsKeepMatchInv ==
    ASSUME MatchInv, run.pc \notin {"open", "write"}, deploy' = deploy,
           run'.pc \notin {"open", "write"},
           run'.pc \in {"invite", "exited"} \/ run'.file = 1,
           run'.pc = "up" => run'.todo \subseteq {"up"}
    PROVE  MatchInv'
<1>1. HavePlan => deploy["nssm"] = deploy["plan"]
  BY DEF MatchInv
<1>2. HavePlan' => deploy'["nssm"] = deploy'["plan"]
  BY <1>1 DEF HavePlan, Absent
<1> QED
  BY <1>2 DEF MatchInv

LEMMA NextKeepsMatchInv ==
    ASSUME KillAt \cap {"open", "write"} = {}, SetupInv, MatchInv, [Next]_vars
    PROVE  MatchInv'
<1>0. TypeOK /\ run \in Run /\ run.file \in 1..6
  BY UpFilesOrder DEF SetupInv, TypeOK, Run
<1>1. ASSUME NEW n \in Fleets, NEW c \in Contexts, NEW gguf \in BOOLEAN,
             StartSetup(n, c) \/ StartUp(n, c, gguf)
      PROVE  MatchInv'
  <2>1. CASE StartSetup(n, c)
    <3>1. Plan(n) \in SUBSET Steps
      BY DEF Plan
    <3>2. run.pc = "idle" /\ deploy' = deploy /\ run'.pc = Goto(Plan(n))
          /\ run'.todo = Plan(n) /\ run'.file = 1
      BY <2>1 DEF StartSetup
    <3> QED
      BY <3>1, <3>2, GotoFirst, GotoUp, OtherStepsKeepMatchInv
  <2>2. CASE StartUp(n, c, gguf)
    <3>1. run.pc = "idle" /\ deploy' = deploy /\ run'.pc = "up" /\ run'.todo = {}
          /\ run'.file = 1
      BY <2>2 DEF StartUp
    <3> QED
      BY <3>1, OtherStepsKeepMatchInv
  <2> QED
    BY <1>1, <2>1, <2>2
<1>2. ASSUME run.pc \notin {"up", "open", "write", "invite", "exited"}, deploy' = deploy,
             NEW step \in Steps, run' = Done(step)
      PROVE  MatchInv'
  <2>1. run.file = 1
    BY <1>2 DEF MatchInv
  <2> QED
    BY <1>0, <1>2, <2>1, DoneIsRun, DoneGoesOn, OtherStepsKeepMatchInv
<1>3. ASSUME run.pc \notin {"up", "open", "write", "invite", "exited"}, deploy' = deploy,
             NEW where \in {"unpack", "fetchRuntime", "unpackRuntime", "model"},
             run' = run \/ run' = [run EXCEPT !.pc = where]
      PROVE  MatchInv'
  <2>1. run.file = 1
    BY <1>3 DEF MatchInv
  <2>2. run'.file = 1 /\ run'.pc \in {run.pc, where}
    BY <1>0, <1>3, <2>1 DEF Run
  <2> QED
    BY <1>3, <2>1, <2>2, OtherStepsKeepMatchInv
<1>4. ASSUME run.pc \notin {"open", "write"}, deploy' = deploy, run' = NoRun
      PROVE  MatchInv'
  <2>1. run'.file = 1 /\ run'.pc = "idle"
    BY <1>4 DEF NoRun
  <2> QED
    BY <1>4, <2>1, OtherStepsKeepMatchInv
<1> USE DEF Steps
<1>5. CASE Fetch
  BY <1>3, <1>5 DEF Fetch
<1>6. CASE FetchRuntime
  BY <1>3, <1>6 DEF FetchRuntime
<1>7. CASE \E m \in Archive : Unpack(m)
  <2>1. run.pc = "unpack" /\ deploy' = deploy
        /\ (run' = run \/ run' = [run EXCEPT !.pc = "fetchRuntime"] \/ run' = Done("llama"))
    BY <1>7 DEF Unpack
  <2> QED
    BY <1>2, <1>3, <2>1
<1>8. CASE UnpackRuntime
  BY <1>2, <1>8 DEF UnpackRuntime
<1>9. CASE Connect
  BY <1>3, <1>9 DEF Connect
<1>10. CASE Receive
  BY <1>3, <1>10 DEF Receive
<1>11. CASE Rename
  BY <1>2, <1>11 DEF Rename
<1>12. CASE IssueKey
  <2>1. run.pc = "keys" /\ deploy' = deploy /\ (run' = run \/ run' = Done("keys"))
    BY <1>12 DEF IssueKey
  <2> QED
    BY <1>2, <1>3, <2>1
<1>13. CASE Preflight
  <2>1. CASE run' = NoRun
    BY <1>4, <1>13, <2>1 DEF Preflight
  <2>2. CASE run' = [run EXCEPT !.pc = "open"]
    <3>1. run.pc = "up" /\ run.file = 1 /\ run.todo \subseteq {"up"}
      BY <1>13 DEF Preflight, MatchInv
    <3>2. run'.pc = "open" /\ run'.file = 1 /\ run'.todo \subseteq {"up"}
      BY <1>0, <2>2, <3>1 DEF Run
    <3> QED
      BY <3>2 DEF MatchInv
  <2> QED
    BY <1>13, <2>1, <2>2 DEF Preflight
<1>14. CASE OpenFile
  <2>1. run.pc = "open" /\ run' = [run EXCEPT !.pc = "write"] /\ model' = model
        /\ deploy' = [deploy EXCEPT ![UpFiles[run.file]] = Torn]
    BY <1>14 DEF OpenFile
  <2>2. run'.pc = "write" /\ run'.file = run.file /\ run'.todo = run.todo
        /\ run'.context = run.context /\ run'.devices = run.devices /\ run'.gguf = run.gguf
    BY <1>0, <2>1 DEF Run
  <2>3. PlanOfRun' = PlanOfRun
    BY <2>1, <2>2 DEF PlanOfRun, ModelPath
  <2>4. \A i \in 1..6 : i < run.file => deploy'[UpFiles[i]] = deploy[UpFiles[i]]
    BY <1>0, <2>1, UpFilesDistinct, UpFilesNames DEF TypeOK
  <2>5. WholeFrom(PlanOfRun)' = WholeFrom(PlanOfRun)
    BY <2>3 DEF WholeFrom
  <2>6. run.todo \subseteq {"up"}
        /\ \A i \in 1..6 : i < run.file => deploy[UpFiles[i]] = WholeFrom(PlanOfRun)
    BY <2>1 DEF MatchInv
  <2> QED
    BY <2>2, <2>4, <2>5, <2>6 DEF MatchInv
<1>15. CASE WriteFile
  <2>1. run.pc = "write" /\ model' = model
        /\ deploy' = [deploy EXCEPT ![UpFiles[run.file]] = WholeFrom(PlanOfRun)]
    BY <1>15 DEF WriteFile, PlanOfRun
  <2>2. run.todo \subseteq {"up"}
        /\ \A i \in 1..6 : i < run.file => deploy[UpFiles[i]] = WholeFrom(PlanOfRun)
    BY <2>1 DEF MatchInv
  <2>3. \A i \in 1..6 : i <= run.file => deploy'[UpFiles[i]] = WholeFrom(PlanOfRun)
    <3> SUFFICES ASSUME NEW i \in 1..6, i <= run.file
                 PROVE  deploy'[UpFiles[i]] = WholeFrom(PlanOfRun)
      OBVIOUS
    <3>1. CASE i = run.file
      BY <1>0, <2>1, <3>1, UpFilesNames DEF TypeOK
    <3>2. CASE i < run.file
      <4>1. UpFiles[i] # UpFiles[run.file]
        BY <1>0, <3>2, UpFilesDistinct
      <4>2. deploy'[UpFiles[i]] = deploy[UpFiles[i]]
        BY <1>0, <2>1, <4>1, UpFilesNames DEF TypeOK
      <4> QED
        BY <2>2, <3>2, <4>2
    <3> QED
      BY <1>0, <3>1, <3>2
  <2>4. CASE run.file < 6
    <3>1. run' = [run EXCEPT !.pc = "open", !.file = @ + 1]
      BY <1>15, <2>4, UpFilesOrder DEF WriteFile
    <3>2. run'.pc = "open" /\ run'.file = run.file + 1 /\ run'.todo = run.todo
          /\ run'.context = run.context /\ run'.devices = run.devices /\ run'.gguf = run.gguf
      BY <1>0, <3>1 DEF Run
    <3>3. WholeFrom(PlanOfRun)' = WholeFrom(PlanOfRun)
      BY <2>1, <3>2 DEF WholeFrom, PlanOfRun, ModelPath
    <3>4. \A i \in 1..6 : i < run'.file => deploy'[UpFiles[i]] = WholeFrom(PlanOfRun)'
      BY <1>0, <2>3, <3>2, <3>3
    <3> QED
      BY <2>2, <3>2, <3>4 DEF MatchInv
  <2>5. CASE run.file = 6
    <3>1. run' = Done("up") \/ run' = [run EXCEPT !.pc = "exited"]
      <4>1. ~(run.file < Len(UpFiles))
        BY <2>5, UpFilesOrder
      <4> QED
        BY <1>15, <4>1 DEF WriteFile
    <3>2. run'.pc \in {"invite", "exited"}
      BY <1>0, <2>2, <3>1, DoneGoesOn DEF Run
    <3>3. deploy'["nssm"] = WholeFrom(PlanOfRun) /\ deploy'["plan"] = WholeFrom(PlanOfRun)
      BY <2>3, <2>5, UpFilesOrder
    <3> QED
      BY <3>2, <3>3 DEF MatchInv
  <2> QED
    BY <1>0, <2>4, <2>5
<1>16. CASE PrintInvites
  <2>1. run.pc = "invite" /\ deploy' = deploy /\ run' = [run EXCEPT !.pc = "exited"]
    BY <1>16 DEF PrintInvites
  <2>2. run'.pc = "exited"
    BY <1>0, <2>1 DEF Run
  <2> QED
    BY <2>1, <2>2, OtherStepsKeepMatchInv
<1>17. CASE Exit
  BY <1>4, <1>17 DEF Exit
<1>18. CASE NetworkError \/ Kill
  <2>1. run.pc \notin {"open", "write"} /\ deploy' = deploy /\ run' = NoRun
    BY <1>18 DEF NetworkError, Kill
  <2> QED
    BY <1>4, <2>1
<1>19. CASE UNCHANGED vars
  BY <1>19 DEF vars, MatchInv, HavePlan, PlanOfRun, ModelPath, WholeFrom
<1> QED
  BY <1>1, <1>5, <1>6, <1>7, <1>8, <1>9, <1>10, <1>11, <1>12, <1>13, <1>14, <1>15, <1>16,
     <1>17, <1>18, <1>19 DEF Next, Progress, Setup

\* If no run is killed while it writes the files of `up`, the plan that invites
\* are made from is, between runs, the one the service was generated from.
THEOREM PlanOfService ==
    ASSUME KillAt \cap {"open", "write"} = {}
    PROVE  Spec => []ScriptsMatchPlan
<1>1. Init => MatchInv
  BY NoRunIsRun, UpFilesNames DEF Init, MatchInv, HavePlan, NoRun
<1>2. SetupInv /\ MatchInv /\ [Next]_vars => MatchInv'
  BY NextKeepsMatchInv
<1>3. MatchInv => ScriptsMatchPlan
  BY DEF MatchInv, ScriptsMatchPlan
<1> QED
  BY <1>1, <1>2, <1>3, SetupInvHolds, PTL DEF Spec
=============================================================================
