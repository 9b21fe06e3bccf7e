------------------------------ MODULE Handoff -------------------------------
(***************************************************************************)
(* How the context a slot holds, and the key, travel from the server to a  *)
(* coding agent on one laptop, and how `check` judges the result: `up`     *)
(* writes the plan, NSSM starts llama-server with its flags, `invite`      *)
(* prints a token, `join` asks the running server and writes the agent's   *)
(* config with a sidecar, and the user edits that config by hand.          *)
(*                                                                         *)
(* Simplifications.  One laptop: laptops share nothing but the server.     *)
(* The server's commands are atomic here (KeyBroker and SetupFlow cut      *)
(* them into steps), other laptops' keys are in its list, and a server     *)
(* that still loads its model is down: both answer no probe.  The model id *)
(* a server offers is always the fixed alias.  Every join is made in one   *)
(* directory.  check is called without arguments, and what it asks after   *)
(* the context (a completion, a tool call, a stream) succeeds.             *)
(***************************************************************************)
EXTENDS Naturals, Sequences, FiniteSets

CONSTANTS
    Clients,      \* the agents joined on this laptop
    Contexts,     \* values of `up --context` and of a hand edit
    Slots,        \* values of `up --slots`
    Fallback,     \* FALLBACK_CONTEXT
    MaxKey,       \* bound: keys issued to this laptop
    KillJoin,     \* TRUE: a join may be killed
    MaxChanges    \* bound: everything but following the printed fixes

ClientNames == {"opencode", "continue", "aider", "octofriend", "qwen", "cline"}

ASSUME ClientsAssumption == Clients \subseteq ClientNames /\ Clients # {}
ASSUME SizesAssumption ==
    /\ Contexts \subseteq Nat \ {0} /\ Contexts # {} /\ Fallback \in Nat \ {0}
    /\ Slots \subseteq Nat \ {0} /\ Slots # {}
ASSUME BoundsAssumption == MaxKey \in Nat \ {0} /\ MaxChanges \in Nat /\ KillJoin \in BOOLEAN

VARIABLES
    plan,       \* server-plan.json and the scripts of the same `up`
    service,    \* the flags NSSM has for the service
    server,     \* the running llama-server
    key,        \* this laptop's active key, which is in the key file
    tokens,     \* the invites printed for this laptop
    files,      \* the files of the laptop's config directory
    env,        \* environment variables of the laptop
    printed,    \* the `setx` line the last join printed
    used,       \* the agent join last began to configure
    edited,     \* history: the config was edited since the last join
    join,       \* the join that runs
    changes     \* history: number of changes so far

serverVars == <<plan, service, server, key, tokens>>
laptopVars == <<files, env, printed, used, edited, join>>
vars == <<plan, service, server, key, tokens, files, env, printed, used, edited,
          join, changes>>

None == "none"
NoKey == 0
NoContext == 0

Plans == [context : Contexts, slots : Slots]
NoPlan == [context |-> NoContext, slots |-> 0]

\* Mutant of CtxSizeFlag: -c taken for the size of one slot.
PerSlot(p) == p.context

\* "-c is the TOTAL KV pool, divided across slots"
CtxSizeFlag(p) == p.context * p.slots

Flags(p) == [c |-> CtxSizeFlag(p), np |-> p.slots]
NoFlags == [c |-> 0, np |-> 0]

\* A running server: the flags it was started with, the size of its slots (the
\* n_ctx of /props), and the key of this laptop in the file it parsed.
Down == [up |-> FALSE, flags |-> NoFlags, context |-> NoContext, key |-> NoKey]
Running(flags) ==
    [up |-> TRUE, flags |-> flags, context |-> flags.c \div flags.np, key |-> key]

Accepts(k) == server.up /\ k # NoKey /\ k = server.key

-----------------------------------------------------------------------------
(* The files join writes, and what their readers find in them.             *)

EnvVars == {"LOCAL_LLM_KEY", "OPENAI_API_KEY"}

\* key_env_var: where the agent reads its key, when not in its file.
EnvVar(client) ==
    CASE client = "aider" -> "OPENAI_API_KEY"
      [] client \in {"opencode", "octofriend", "qwen"} -> "LOCAL_LLM_KEY"
      [] OTHER -> None

\* A directory has one file for each agent, named after it here, aider's second
\* file, and the sidecar.
FileNames == Clients \cup {"metadata", "sidecar"}
Generic == Clients \cap {"continue", "qwen"}        \* GENERIC_FILENAMES

\* A file join has written stands for the choice it was written from.
Absent == [state |-> "absent", client |-> None, context |-> NoContext, key |-> NoKey]
Torn == [Absent EXCEPT !.state = "torn"]
WrittenBy(j) == [state |-> "whole", client |-> j.client, context |-> j.context, key |-> j.key]
Whole(name) == name \in FileNames /\ files[name].state = "whole"

\* Mutant of Writes: a sidecar that is there is kept.
WritesKeepSidecar(client) ==
    (IF client = "aider" THEN <<client, "metadata">> ELSE <<client>>)
        \o (IF Whole("sidecar") THEN <<>> ELSE <<"sidecar">>)

\* The files of one join, in the order of ClientConfig.write
Writes(client) ==
    IF client = "aider" THEN <<client, "metadata", "sidecar">> ELSE <<client, "sidecar">>

\* _READERS, without the one for cline that was taken out
Readers == <<"opencode", "continue", "aider", "octofriend", "qwen">>

\* The file that carries the agent's context window
Carrier(client) == IF client = "aider" THEN "metadata" ELSE client

\* What the agent is pinned to: Qwen Code cannot be pinned, and aider without
\* readable metadata is not.
Pinned(client) ==
    IF client # "qwen" /\ Whole(Carrier(client)) THEN files[Carrier(client)].context
    ELSE NoContext

EnvKey(client) == IF EnvVar(client) = None THEN NoKey ELSE env[EnvVar(client)]

KeyOf(client) == IF client = "continue" THEN files[client].key ELSE EnvKey(client)

\* The model id: Qwen Code's provider id has a suffix of its own.
ModelOf(client) == IF client = "qwen" THEN "alias-localllm" ELSE "alias"

NoConfig == [client |-> None, context |-> NoContext, model |-> None, key |-> NoKey]

\* A torn file is empty, and no reader accepts an empty file.
Readable(i) == Readers[i] \in Clients /\ Whole(Readers[i])

\* _read_own_config: the first file of _READERS that parses
Own ==
    IF \E i \in DOMAIN Readers : Readable(i)
    THEN LET first == CHOOSE i \in DOMAIN Readers :
                         Readable(i) /\ \A k \in 1..(i - 1) : ~Readable(k)
             c == Readers[first]
         IN  [client |-> c, context |-> Pinned(c), model |-> ModelOf(c), key |-> KeyOf(c)]
    ELSE NoConfig

\* Mutant of Recorded: the key is looked up in the environment only.
RecordedEnvKey ==
    IF ~Whole("sidecar") THEN NoConfig
    ELSE LET c == files["sidecar"].client
         IN  [client |-> c, context |-> files["sidecar"].context, model |-> "alias",
              key |-> EnvKey(c)]

\* _read_sidecar: the key is not in it, but where the agent has it
Recorded ==
    IF ~Whole("sidecar") THEN NoConfig
    ELSE LET c == files["sidecar"].client
         IN  [client |-> c, context |-> files["sidecar"].context, model |-> "alias",
              key |-> IF EnvKey(c) # NoKey THEN EnvKey(c) ELSE Own.key]

\* The fields in which the agent's file disagrees with the sidecar
Drift ==
    IF Own = NoConfig \/ Recorded = NoConfig THEN {}
    ELSE {f \in {"context", "model"} : Own[f] # Recorded[f]}
             \ (IF Own.context = NoContext THEN {"context"} ELSE {})

\* Mutant of Found: the sidecar is preferred unconditionally.
FoundRecorded == IF Recorded # NoConfig THEN Recorded ELSE Own

\* read_client_config
Found ==
    CASE Recorded = NoConfig -> Own
      [] Recorded # NoConfig /\ (Own = NoConfig \/ Drift = {}) -> Recorded
      [] OTHER -> [Own EXCEPT !.context = IF @ # NoContext THEN @ ELSE Recorded.context,
                              !.key = IF @ # NoKey THEN @ ELSE Recorded.key]

\* diagnose, of /health and of /v1/models: all is well if both answer with 2xx.
\* A server that is still loading its model is down.
Diagnosed(k) == server.up /\ Accepts(k)

\* check_model_visibility: the server offers one model, under its alias.
ModelVisible(model) == model = "alias"

\* A config without a context is not judged.
FitsSlot(context) == context = NoContext \/ context <= server.context

\* cmd_check without arguments; its request for an answer is taken as answered.
ChecksPass ==
    /\ Found # NoConfig
    /\ Diagnosed(Found.key)
    /\ ModelVisible(Found.model)
    /\ FitsSlot(Found.context)

-----------------------------------------------------------------------------
(* The server.                                                             *)

AnyContext == Contexts \cup {Fallback, NoContext}
Keys == 0..MaxKey

\* A join: its arguments, what it resolved, and the file it is at
Join == [pc : {"idle", "probe", "open", "write"}, client : Clients,
         asked : SUBSET AnyContext, planned : AnyContext, probes : BOOLEAN,
         context : AnyContext, key : Keys, file : 1..3]

NoJoin == [pc |-> "idle", client |-> CHOOSE c \in Clients : TRUE, asked |-> {},
           planned |-> NoContext, probes |-> FALSE, context |-> NoContext,
           key |-> NoKey, file |-> 1]

TypeOK ==
    /\ plan \in Plans \cup {NoPlan}
    /\ service \in {Flags(p) : p \in Plans} \cup {NoFlags}
    /\ server = Down \/ /\ server.up /\ server.key \in Keys
                        /\ server.flags \in {Flags(p) : p \in Plans}
                        /\ server.context \in Contexts
    /\ key \in Keys \ {NoKey}
    /\ tokens \subseteq [context : Contexts, key : Keys]
    /\ files \in [FileNames -> [state : {"absent", "torn", "whole"},
                                client : Clients \cup {None},
                                context : AnyContext, key : Keys]]
    /\ env \in [EnvVars -> Keys]
    /\ printed \in [var : EnvVars \cup {None}, key : Keys]
    /\ used \in Clients \cup {None}
    /\ edited \in BOOLEAN
    /\ join \in Join
    /\ changes \in 0..MaxChanges

\* `setup` has issued the laptop's first key.
Init ==
    /\ plan = NoPlan
    /\ service = NoFlags
    /\ server = Down
    /\ key = 1
    /\ tokens = {}
    /\ files = [f \in FileNames |-> Absent]
    /\ env = [v \in EnvVars |-> NoKey]
    /\ printed = [var |-> None, key |-> NoKey]
    /\ used = None
    /\ edited = FALSE
    /\ join = NoJoin
    /\ changes = 0

Change == changes < MaxChanges /\ changes' = changes + 1

Up(p) ==
    /\ Change
    /\ plan' = p
    /\ UNCHANGED <<service, server, key, tokens, laptopVars>>

\* The scripts set the flags NSSM keeps for the service, and start it if it is
\* not running.  A running server keeps the flags it was started with.
InstallService ==
    /\ plan # NoPlan /\ service # Flags(plan)
    /\ service' = Flags(plan)
    /\ server' = IF server.up THEN server ELSE Running(service')
    /\ UNCHANGED <<plan, key, tokens, laptopVars, changes>>

\* SERVICE_AUTO_START, and AppExit Default Restart
ServerStart ==
    /\ service # NoFlags /\ ~server.up
    /\ server' = Running(service)
    /\ UNCHANGED <<plan, service, key, tokens, laptopVars, changes>>

ServerStop ==
    /\ Change
    /\ server.up
    /\ server' = Down
    /\ UNCHANGED <<plan, service, key, tokens, laptopVars>>

\* Restart-Service, which invite tells the user to run after a new key
RestartService ==
    /\ server.up /\ server # Running(service)
    /\ server' = Running(service)
    /\ UNCHANGED <<plan, service, key, tokens, laptopVars, changes>>

Token == [context |-> plan.context, key |-> key]

Invite ==
    /\ plan # NoPlan /\ Token \notin tokens
    /\ tokens' = tokens \cup {Token}
    /\ UNCHANGED <<plan, service, server, key, laptopVars, changes>>

\* `invite --rotate`: revoke, issue, and rewrite the key file
Rotate ==
    /\ Change
    /\ plan # NoPlan /\ key < MaxKey
    /\ key' = key + 1
    /\ tokens' = tokens \cup {[context |-> plan.context, key |-> key']}
    /\ UNCHANGED <<plan, service, server, laptopVars>>

-----------------------------------------------------------------------------
(* join.                                                                   *)

\* `planned` is the number of the invite or of the plan file, if there is one;
\* `asked` is --context, empty if it is not given.
StartJoin(client, k, planned, asked, probes) ==
    /\ join.pc = "idle"
    /\ join' = [NoJoin EXCEPT !.pc = "probe", !.client = client, !.key = k,
                   !.planned = planned, !.asked = asked, !.probes = probes]
    /\ UNCHANGED <<serverVars, files, env, printed, used, edited>>

JoinByInvite(client) ==
    /\ Change
    /\ \E t \in tokens, probes \in BOOLEAN,
        asked \in {{n} : n \in Contexts \cup {0}} \cup {{}} :
          StartJoin(client, t.key, t.context, asked, probes)

\* `join --device --url` where the key store is, with its plan file or without
JoinByName(client) ==
    /\ Change
    /\ \E planned \in {plan.context, NoContext} :
          StartJoin(client, key, planned, {}, TRUE)

\* What check and join tell the user to do: paste the newest invite
JoinAgain(client) ==
    /\ ~ChecksPass /\ server.up /\ Token \in tokens
    /\ StartJoin(client, Token.key, Token.context, {}, TRUE)
    /\ UNCHANGED changes

\* resolve_context: the server's number, else the plan's
Budget(confirmed) == IF confirmed # NoContext THEN confirmed ELSE join.planned

\* A request for no tokens, or for more than a slot holds
Refused(confirmed) ==
    \E n \in join.asked :
        n = 0 \/ (Budget(confirmed) # NoContext /\ n > Budget(confirmed))

\* Mutant of Choice: a context that is pinned already is kept.
ChoiceKeepsPinned(confirmed) ==
    CASE Pinned(join.client) # NoContext -> Pinned(join.client)
      [] OTHER -> IF Budget(confirmed) # NoContext THEN Budget(confirmed) ELSE Fallback

Choice(confirmed) ==
    CASE join.asked # {} -> CHOOSE n \in join.asked : TRUE
      [] join.asked = {} /\ Budget(confirmed) # NoContext -> Budget(confirmed)
      [] OTHER -> Fallback

\* _looks_like_ours: an empty file has neither the marker nor the shape.
LooksLikeOurs(name) == files[name].state # "torn"

\* join ends without writing if the server rejects the key, the context is
\* refused, or a generic file does not look like one it wrote.
Resolve ==
    /\ join.pc = "probe"
    /\ LET asks == join.probes /\ server.up
           confirmed == IF asks THEN server.context ELSE NoContext
       IN  join' = IF \/ asks /\ ~Accepts(join.key)
                      \/ Refused(confirmed)
                      \/ join.client \in Generic /\ ~LooksLikeOurs(join.client)
                   THEN NoJoin
                   ELSE [join EXCEPT !.pc = "open", !.context = Choice(confirmed)]
    /\ used' = IF join'.pc = "open" THEN join.client ELSE used
    /\ UNCHANGED <<serverVars, files, env, printed, edited, changes>>

\* write_text truncates the file, then writes it.
OpenConfig ==
    /\ join.pc = "open"
    /\ files' = [files EXCEPT ![Writes(join.client)[join.file]] = Torn]
    /\ join' = [join EXCEPT !.pc = "write"]
    /\ UNCHANGED <<serverVars, env, printed, used, edited, changes>>

WriteConfig ==
    /\ join.pc = "write"
    /\ files' = [files EXCEPT ![Writes(join.client)[join.file]] = WrittenBy(join)]
    /\ IF join.file < Len(Writes(join.client))
       THEN /\ join' = [join EXCEPT !.pc = "open", !.file = @ + 1]
            /\ UNCHANGED <<printed, edited>>
       ELSE /\ join' = NoJoin
            /\ printed' = [var |-> EnvVar(join.client), key |-> join.key]
            /\ edited' = FALSE
    /\ UNCHANGED <<serverVars, env, used, changes>>

KillAJoin ==
    /\ KillJoin
    /\ Change
    /\ join.pc # "idle"
    /\ join' = NoJoin
    /\ UNCHANGED <<serverVars, files, env, printed, used, edited>>

-----------------------------------------------------------------------------
(* The user of the laptop.                                                 *)

\* The `setx` line join printed, and a new shell
SetKey ==
    /\ printed.var # None /\ env[printed.var] # printed.key
    /\ env' = [env EXCEPT ![printed.var] = printed.key]
    /\ UNCHANGED <<serverVars, files, printed, used, edited, join, changes>>

\* The context in the agent's own file, edited by hand
Edit(client, n) ==
    /\ Change
    /\ join.pc = "idle" /\ Whole(client) /\ Pinned(client) \notin {NoContext, n}
    /\ files' = [files EXCEPT ![Carrier(client)].context = n]
    /\ edited' = TRUE
    /\ UNCHANGED <<serverVars, env, printed, used, join>>

Next ==
    \/ \E p \in Plans : Up(p)
    \/ InstallService \/ ServerStart \/ ServerStop \/ RestartService
    \/ Invite \/ Rotate
    \/ \E c \in Clients : JoinByInvite(c) \/ JoinByName(c) \/ JoinAgain(c)
    \/ Resolve \/ OpenConfig \/ WriteConfig \/ KillAJoin
    \/ SetKey
    \/ \E c \in Clients, n \in Contexts : Edit(c, n)

Spec == Init /\ [][Next]_vars

\* NSSM starts the server, a join goes on unless it is killed, and the user
\* does what the commands print: installs the service, restarts it for a new
\* key, makes an invite, joins with it, runs `setx`.
Fairness ==
    /\ WF_vars(ServerStart) /\ WF_vars(InstallService) /\ WF_vars(RestartService)
    /\ WF_vars(Invite) /\ WF_vars(SetKey)
    /\ WF_vars(Resolve \/ OpenConfig \/ WriteConfig)
    /\ \A c \in Clients : WF_vars(JoinAgain(c))

FairSpec == Spec /\ Fairness

-----------------------------------------------------------------------------
(* Properties.                                                             *)

\* The agent, as it will load its files and its environment, authenticates and
\* stays within a slot.
AgentWorks(client) ==
    /\ Whole(client)
    /\ Pinned(client) # NoContext /\ Pinned(client) <= server.context
    /\ Accepts(KeyOf(client))

\* When all checks pass, the agent that was joined does work: what read_client_config
\* put together from the sidecar, the agent's file and the environment is what
\* the agent loads.
CheckIsSound == join.pc = "idle" /\ ChecksPass => AgentWorks(used)

\* check finds no fault with an agent that works, even where a killed join left
\* the sidecar of an earlier one or none.
CheckIsComplete == join.pc = "idle" /\ used # None /\ AgentWorks(used) => ChecksPass

\* A server started with the flags of the plan gives each slot the context the
\* plan and the invites promise.
PlannedIsServed == server.up /\ server.flags = Flags(plan) => server.context = plan.context

\* check says that a config was edited only if it was (DiscoveredClient.drift).
DriftMeansEdited == join.pc = "idle" /\ Drift # {} => edited

\* Once the server has a plan, doing what check, join and invite print brings a
\* laptop back to where all checks pass, after every change.
FixesConverge == plan # NoPlan ~> ChecksPass
=============================================================================
