------------------------------ MODULE SetupFlow ------------------------------
(***************************************************************************)
(* `setup` (cmd_setup, plan_setup, _install_llama, download, unzip) and    *)
(* `up` (cmd_up), run again and again on a machine where any of the runs   *)
(* may have been cut short.  No progress is recorded: every run plans from *)
(* the files it finds.  What is on disk is state; what a run has worked    *)
(* out is lost when it ends or dies.                                       *)
(*                                                                         *)
(* Simplifications.  The machine has a GPU, disk space and a model that    *)
(* fits, and the release resolves or the run ends before it changes        *)
(* anything.  Keys are counted: which laptop has which, and the files they *)
(* are kept in, is the subject of KeyBroker.  Commands run one at a time.  *)
(***************************************************************************)
EXTENDS Naturals, Sequences, FiniteSets

CONSTANTS
    Fleets,       \* values of --devices
    Contexts,     \* values of --context
    Chunks,       \* bound: size of the model, in chunks of a download
    Header,       \* the chunks of it that hold the GGUF header
    Cuda,         \* TRUE: the CUDA build, which needs a second archive
    KillAt,       \* the places where a run may be killed
    EarlyEnd,     \* TRUE: a response may end before its Content-Length
    MaxFaults     \* bound: kills and network errors in a behaviour

ASSUME FleetsAssumption == Fleets \subseteq Nat \ {0} /\ Fleets # {}
ASSUME ContextsAssumption == Contexts \subseteq Nat \ {0} /\ Contexts # {}
ASSUME ChunksAssumption == Chunks \in Nat \ {0} /\ Header \in 1..Chunks
ASSUME BoundsAssumption == Cuda \in BOOLEAN /\ EarlyEnd \in BOOLEAN /\ MaxFaults \in Nat

VARIABLES
    run,        \* the command that runs
    llama,      \* what has been unpacked of llama.cpp
    part,       \* chunks in the model's .part file
    model,      \* chunks in the .gguf, 0 if there is none
    keys,       \* number of active keys
    deploy,     \* the files `up` writes
    faults      \* history: kills and network errors so far

vars == <<run, llama, part, model, keys, deploy, faults>>

\* What llama-server needs to start: the executable, the rest of the archive,
\* and for the CUDA build NVIDIA's runtime.
Archive == {"exe", "libraries"}
Needed == IF Cuda THEN Archive \cup {"runtime"} ELSE Archive

\* What `up` plans: a window for each slot, and the path after -m, which is
\* that of the model file or a placeholder.
Paths == {"gguf", "placeholder"}
Plans == [context : Contexts, slots : Fleets, path : Paths]
NoPlan == [context |-> 0, slots |-> 0, path |-> "placeholder"]

\* The contents of a file `up` writes: of each only the plan it came from.  A
\* torn one is truncated and not yet written.
Absent == [state |-> "absent", plan |-> NoPlan]
Torn == [state |-> "torn", plan |-> NoPlan]
WholeFrom(plan) == [state |-> "whole", plan |-> plan]
Contents == {Absent, Torn} \cup {WholeFrom(plan) : plan \in Plans}

\* Mutant of UpFiles: the plan is written first.
PlanFirst == <<"plan", "powercfg", "nssm", "watchdog", "loop", "flags">>

\* In the order of cmd_up's `written`; the plan is the last one.
UpFiles == <<"powercfg", "nssm", "watchdog", "loop", "flags", "plan">>
FileNames == {UpFiles[i] : i \in 1..Len(UpFiles)}
Scripts == {"powercfg", "nssm", "watchdog"}      \* SERVICE_SCRIPTS

Readable(f) == deploy[f].state = "whole"

PC == {"idle", "fetch", "unpack", "fetchRuntime", "unpackRuntime", "connect",
       "model", "keys", "up", "open", "write", "invite", "exited"}

Steps == {"llama", "model", "keys", "up"}

Run == [pc : PC, cmd : {"setup", "up"}, devices : Fleets, context : Contexts,
        gguf : BOOLEAN, todo : SUBSET Steps, file : 1..Len(UpFiles)]

NoRun == [pc |-> "idle", cmd |-> "setup", devices |-> CHOOSE n \in Fleets : TRUE,
          context |-> CHOOSE c \in Contexts : TRUE, gguf |-> TRUE, todo |-> {}, file |-> 1]

TypeOK ==
    /\ run \in Run
    /\ llama \subseteq Archive \cup {"runtime"}
    /\ part \in 0..Chunks /\ model \in 0..Chunks
    /\ keys \in Nat
    /\ deploy \in [FileNames -> Contents]
    /\ faults \in 0..MaxFaults

Init ==
    /\ run = NoRun
    /\ llama = {}
    /\ part = 0 /\ model = 0
    /\ keys = 0
    /\ deploy = [f \in FileNames |-> Absent]
    /\ faults = 0

-----------------------------------------------------------------------------
(* Planning.                                                               *)

\* find_llama_server, find_gguf and plan_file.exists(): a file that is there
\* counts as done.
HaveLlama == "exe" \in llama
HaveModel == model > 0
HavePlan == deploy["plan"] # Absent

\* plan_setup.  The steps service and invite only print.
Plan(devices) ==
    {s \in Steps : \/ s = "llama" /\ ~HaveLlama
                   \/ s = "model" /\ ~HaveModel
                   \/ s = "keys" /\ keys < devices
                   \/ s = "up" /\ (~HavePlan \/ keys < devices)}

\* Where setup goes for the first step of `todo`
Goto(todo) ==
    IF "llama" \in todo THEN "fetch"
    ELSE IF "model" \in todo THEN "connect"
    ELSE IF "keys" \in todo THEN "keys"
    ELSE IF "up" \in todo THEN "up"
    ELSE "invite"

Done(step) == LET rest == run.todo \ {step}
              IN  [run EXCEPT !.todo = rest, !.pc = Goto(rest)]

StartSetup(n, c) ==
    /\ run.pc = "idle"
    /\ run' = [pc |-> Goto(Plan(n)), cmd |-> "setup", devices |-> n, context |-> c,
               gguf |-> TRUE, todo |-> Plan(n), file |-> 1]
    /\ UNCHANGED <<llama, part, model, keys, deploy, faults>>

\* `up --slots n --context c --llama-server`, with the --gguf file or without;
\* without llama-server preflight fails.
StartUp(n, c, gguf) ==
    /\ run.pc = "idle" /\ HaveLlama
    /\ gguf => HaveModel
    /\ run' = [pc |-> "up", cmd |-> "up", devices |-> n, context |-> c,
               gguf |-> gguf, todo |-> {}, file |-> 1]
    /\ UNCHANGED <<llama, part, model, keys, deploy, faults>>

-----------------------------------------------------------------------------
(* Installing llama.cpp.                                                   *)

\* download() of an archive.  One that is cut short is refused by its size or
\* does not open as a zip: nothing of it is unpacked, and the run ends.
Fetch ==
    /\ run.pc = "fetch"
    /\ run' = [run EXCEPT !.pc = "unpack"]
    /\ UNCHANGED <<llama, part, model, keys, deploy, faults>>

FetchRuntime ==
    /\ run.pc = "fetchRuntime"
    /\ run' = [run EXCEPT !.pc = "unpackRuntime"]
    /\ UNCHANGED <<llama, part, model, keys, deploy, faults>>

\* unzip() writes one member after the other into the directory where
\* find_llama_server looks.  What an earlier run has unpacked there is written
\* again.  A member cut in two does not load: it counts as missing, and a
\* broken executable as one whose libraries are.
Unpack(m) ==
    /\ run.pc = "unpack" /\ m \in Archive \ llama
    /\ llama' = llama \cup {m}
    /\ run' = IF llama' # Archive THEN run
              ELSE IF Cuda THEN [run EXCEPT !.pc = "fetchRuntime"]
              ELSE Done("llama")
    /\ UNCHANGED <<part, model, keys, deploy, faults>>

UnpackRuntime ==
    /\ run.pc = "unpackRuntime"
    /\ llama' = llama \cup {"runtime"}
    /\ run' = Done("llama")
    /\ UNCHANGED <<part, model, keys, deploy, faults>>

-----------------------------------------------------------------------------
(* Downloading the model: download() without an expected size.             *)

\* Mutant of Connect: the .part file is opened with "xb".
ConnectExclusive ==
    /\ run.pc = "connect"
    /\ part = 0
    /\ run' = [run EXCEPT !.pc = "model"]
    /\ UNCHANGED <<llama, part, model, keys, deploy, faults>>

\* The .part file is opened with "wb"
Connect ==
    /\ run.pc = "connect"
    /\ part' = 0
    /\ run' = [run EXCEPT !.pc = "model"]
    /\ UNCHANGED <<llama, model, keys, deploy, faults>>

Receive ==
    /\ run.pc = "model" /\ part < Chunks
    /\ part' = part + 1
    /\ UNCHANGED <<run, llama, model, keys, deploy, faults>>

\* Mutant of Rename: the chunks go to the final name.
RenameEarly ==
    /\ run.pc = "model"
    /\ part > 0
    /\ model' = part
    /\ part' = IF part = Chunks THEN 0 ELSE part
    /\ run' = IF part = Chunks THEN Done("model") ELSE run
    /\ UNCHANGED <<llama, keys, deploy, faults>>

\* part.replace(dest), when read() returns no more bytes: at the end of the
\* body, or when the connection was closed before it.  An empty file reads
\* like one that ends within its header.
Rename ==
    /\ run.pc = "model"
    /\ part = Chunks \/ (EarlyEnd /\ part > 0)
    /\ model' = part
    /\ part' = 0
    /\ run' = Done("model")
    /\ UNCHANGED <<llama, keys, deploy, faults>>

-----------------------------------------------------------------------------
(* Keys and `up`.                                                          *)

IssueKey ==
    /\ run.pc = "keys" /\ keys < run.devices
    /\ keys' = keys + 1
    /\ run' = IF keys' = run.devices THEN Done("keys") ELSE run
    /\ UNCHANGED <<llama, part, model, deploy, faults>>

\* Mutant of Passes: the build is not probed.
PassesUnprobed == keys > 0

\* preflight: llama-server --version must start and tell a build number, and
\* there must be a key.
Passes == Needed \subseteq llama /\ keys > 0

Preflight ==
    /\ run.pc = "up"
    /\ run' = IF Passes THEN [run EXCEPT !.pc = "open"] ELSE NoRun
    /\ UNCHANGED <<llama, part, model, keys, deploy, faults>>

\* Mutant of OpenFile: a file that is there is left as it is, but for the plan.
OpenFileIfAbsent ==
    /\ run.pc = "open"
    /\ IF UpFiles[run.file] # "plan" /\ deploy[UpFiles[run.file]] # Absent
       THEN /\ run' = [run EXCEPT !.file = @ + 1]
            /\ UNCHANGED deploy
       ELSE /\ deploy' = [deploy EXCEPT ![UpFiles[run.file]] = Torn]
            /\ run' = [run EXCEPT !.pc = "write"]
    /\ UNCHANGED <<llama, part, model, keys, faults>>

\* write_text of the next file: it is truncated, then written
OpenFile ==
    /\ run.pc = "open"
    /\ deploy' = [deploy EXCEPT ![UpFiles[run.file]] = Torn]
    /\ run' = [run EXCEPT !.pc = "write"]
    /\ UNCHANGED <<llama, part, model, keys, faults>>

\* Mutant of ModelPath: the file is named whether or not it could be read.
ModelPathUnread == IF run.gguf THEN "gguf" ELSE "placeholder"

\* _model_from_args reads the header of the model.  Without one, or if it cannot
\* be read (that is a note), the recommended model is planned, whose path is
\* not known.
ModelPath == IF run.gguf /\ model >= Header THEN "gguf" ELSE "placeholder"

WriteFile ==
    /\ run.pc = "write"
    /\ deploy' = [deploy EXCEPT ![UpFiles[run.file]] =
          WholeFrom([context |-> run.context, slots |-> run.devices, path |-> ModelPath])]
    /\ run' = IF run.file < Len(UpFiles)
              THEN [run EXCEPT !.pc = "open", !.file = @ + 1]
              ELSE IF run.cmd = "setup" THEN Done("up")
              ELSE [run EXCEPT !.pc = "exited"]
    /\ UNCHANGED <<llama, part, model, keys, faults>>

\* The end of setup: invites are printed if the plan can be read, and a note
\* if it cannot; the exit code is 0 either way.
PrintInvites ==
    /\ run.pc = "invite"
    /\ run' = [run EXCEPT !.pc = "exited"]
    /\ UNCHANGED <<llama, part, model, keys, deploy, faults>>

Exit ==
    /\ run.pc = "exited"
    /\ run' = NoRun
    /\ UNCHANGED <<llama, part, model, keys, deploy, faults>>

-----------------------------------------------------------------------------
(* What goes wrong, and what else the user does.                           *)

\* urlopen or read raises OSError: setup returns 1
NetworkError ==
    /\ run.pc \in {"fetch", "fetchRuntime", "connect", "model"}
    /\ faults < MaxFaults
    /\ faults' = faults + 1
    /\ run' = NoRun
    /\ UNCHANGED <<llama, part, model, keys, deploy>>

Kill ==
    /\ run.pc \in KillAt \ {"idle", "exited"}
    /\ faults < MaxFaults
    /\ faults' = faults + 1
    /\ run' = NoRun
    /\ UNCHANGED <<llama, part, model, keys, deploy>>

-----------------------------------------------------------------------------

Progress ==
    \/ Fetch \/ (\E m \in Archive : Unpack(m)) \/ FetchRuntime \/ UnpackRuntime
    \/ Connect \/ Receive \/ Rename
    \/ IssueKey \/ Preflight \/ OpenFile \/ WriteFile \/ PrintInvites \/ Exit

Setup == \E n \in Fleets, c \in Contexts : StartSetup(n, c)

Next ==
    \/ Progress
    \/ Setup
    \/ \E n \in Fleets, c \in Contexts, gguf \in BOOLEAN : StartUp(n, c, gguf)
    \/ NetworkError
    \/ Kill

Spec == Init /\ [][Next]_vars

\* A run goes on unless it is killed, and the user runs setup again after one
\* that did not finish.
Fairness == WF_vars(Progress) /\ SF_vars(Setup)

FairSpec == Spec /\ Fairness

-----------------------------------------------------------------------------
(* Properties of every sequence of runs, wherever they were cut short.     *)

\* A service script is there only if llama-server starts and a key was issued,
\* and it names the model file only if there is one with a readable header: what
\* preflight saw stays true, whatever runs come after.
ServiceOnlyIfRunnable ==
    /\ (\E f \in Scripts : deploy[f] # Absent) => Needed \subseteq llama /\ keys > 0
    /\ \A f \in Scripts : deploy[f].plan.path = "gguf" => model >= Header

\* A plan means that `service install` finds every script it runs (cmd_up
\* writes the plan last).
PlanImpliesScripts == HavePlan => \A f \in Scripts : deploy[f] # Absent

-----------------------------------------------------------------------------
(* Properties of runs that are cut short while they download.              *)

\* If no response ends early, a model file is a whole one, wherever downloads
\* were cut short and begun again: "writing to .part first makes a truncated
\* file impossible to mistake for a finished one" (download).
ModelIsWhole == model \in {0, Chunks}

\* Between runs the plan the invites are made from is the one the service was
\* generated from.
ScriptsMatchPlan == run.pc = "idle" /\ HavePlan => deploy["nssm"] = deploy["plan"]

\* Setup, run again after each failure, one day returns 0 and there is a plan
\* it can make invites from.
SetupSucceeds == <>(run.pc = "exited" /\ run.cmd = "setup" /\ Readable("plan"))

-----------------------------------------------------------------------------
(* What the repository says of setup and the code does not do.             *)

\* "A resumed run is simply a first run on a machine where the first few steps
\* happen to be done already" (wizard.py): the plan a setup that returns 0
\* leaves has, as after a first run, a slot for each of the laptops it was
\* asked for.
SetupPlansForAll ==
    run.pc = "exited" /\ run.cmd = "setup" /\ Readable("plan")
    => deploy["plan"].plan.slots >= run.devices
=============================================================================
