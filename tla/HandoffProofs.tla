---------------------------- MODULE HandoffProofs ----------------------------
(***************************************************************************)
(* Theorems about the handoff, for any agents, windows, slots and keys.    *)
(***************************************************************************)
EXTENDS Handoff, TLAPS

\* What an invite promises for one slot is what the pool divides to.
LEMMA PoolDivides ==
    ASSUME NEW n \in Nat, NEW s \in Nat \ {0}
    PROVE  (n * s) \div s = n
BY SMT

LEMMA FlagsDivide ==
    ASSUME NEW p \in Plans
    PROVE  /\ Flags(p).c \div Flags(p).np = p.context
           /\ Flags(p).np # 0
           /\ p.context \in Contexts
<1>1. p.context \in Nat /\ p.slots \in Nat \ {0} /\ p.context \in Contexts
  BY SizesAssumption DEF Plans
<1>2. Flags(p).c = p.context * p.slots /\ Flags(p).np = p.slots
  BY DEF Flags, CtxSizeFlag
<1>3. (p.context * p.slots) \div p.slots = p.context
  BY <1>1, PoolDivides
<1> QED
  BY <1>1, <1>2, <1>3

-----------------------------------------------------------------------------
(* The files of a join.                                                    *)

\* A join writes two files, or three, of the directory.
LEMMA WritesFiles ==
    ASSUME NEW client \in Clients
    PROVE  /\ Len(Writes(client)) \in 2..3
           /\ \A i \in 1..Len(Writes(client)) : Writes(client)[i] \in FileNames
<1>1. CASE client = "aider"
  <2>1. Writes(client) = <<client, "metadata", "sidecar">>
    BY <1>1 DEF Writes
  <2>2. Len(Writes(client)) = 3 /\ Writes(client)[1] = client
        /\ Writes(client)[2] = "metadata" /\ Writes(client)[3] = "sidecar"
    BY <2>1
  <2>3. \A i \in 1..3 : i = 1 \/ i = 2 \/ i = 3
    OBVIOUS
  <2> QED
    BY <2>2, <2>3 DEF FileNames
<1>2. CASE client # "aider"
  <2>1. Writes(client) = <<client, "sidecar">>
    BY <1>2 DEF Writes
  <2>2. Len(Writes(client)) = 2 /\ Writes(client)[1] = client /\ Writes(client)[2] = "sidecar"
    BY <2>1
  <2>3. \A i \in 1..2 : i = 1 \/ i = 2
    OBVIOUS
  <2> QED
    BY <2>2, <2>3 DEF FileNames
<1> QED
  BY <1>1, <1>2

LEMMA NoJoinIsJoin == NoJoin \in Join /\ NoJoin.file = 1 /\ NoJoin.pc = "idle"
<1>1. (CHOOSE c \in Clients : TRUE) \in Clients
  BY ClientsAssumption
<1> QED
  BY <1>1, BoundsAssumption DEF NoJoin, Join, AnyContext, Keys, NoContext, NoKey

\* The first file of a join is one of its files.
LEMMA FirstFile ==
    ASSUME NEW client \in Clients
    PROVE  1 <= Len(Writes(client))
<1>1. Len(Writes(client)) \in 2..3
  BY WritesFiles
<1> DEFINE n == Len(Writes(client))
<1> HIDE DEF n
<1>2. n \in 2..3 => 1 <= n
  BY SMT
<1> QED
  BY <1>1, <1>2 DEF n

LEMMA NoJoinHasFiles == NoJoin.client \in Clients /\ NoJoin.file <= Len(Writes(NoJoin.client))
BY NoJoinIsJoin, FirstFile DEF Join

LEMMA EnvVarIsTyped == \A client : EnvVar(client) \in EnvVars \cup {None}
BY DEF EnvVar, EnvVars

-----------------------------------------------------------------------------
(* The inductive invariant.                                                *)

\* A join is at one of its files, only an installed service runs, and a running
\* server divides its pool.
HandoffInv ==
    /\ TypeOK
    /\ join.file <= Len(Writes(join.client))
    /\ server.up => service # NoFlags
    /\ server.up => server.context = server.flags.c \div server.flags.np

LaptopTypes ==
    /\ files \in [FileNames -> [state : {"absent", "torn", "whole"},
                                client : Clients \cup {None},
                                context : AnyContext, key : Keys]]
    /\ env \in [EnvVars -> Keys]
    /\ printed \in [var : EnvVars \cup {None}, key : Keys]
    /\ used \in Clients \cup {None}
    /\ edited \in BOOLEAN
    /\ join \in Join
    /\ join.file <= Len(Writes(join.client))

ServerTypes ==
    /\ plan \in Plans \cup {NoPlan}
    /\ service \in {Flags(p) : p \in Plans} \cup {NoFlags}
    /\ server = Down \/ /\ server.up /\ server.key \in Keys
                        /\ server.flags \in {Flags(p) : p \in Plans}
                        /\ server.context \in Contexts
    /\ key \in Keys \ {NoKey}
    /\ tokens \subseteq [context : Contexts, key : Keys]
    /\ server.up => service # NoFlags
    /\ server.up => server.context = server.flags.c \div server.flags.np

\* The server's half of the invariant and the laptop's
LEMMA HandoffInvSplits ==
    HandoffInv <=> ServerTypes /\ LaptopTypes /\ changes \in 0..MaxChanges
BY DEF HandoffInv, TypeOK, ServerTypes, LaptopTypes

LEMMA HandoffInvInit == Init => HandoffInv
<1> SUFFICES ASSUME Init PROVE HandoffInv
  OBVIOUS
<1>1. 1 \in Keys \ {NoKey} /\ NoKey \in Keys
  BY BoundsAssumption DEF Keys, NoKey
<1>2. ServerTypes
  BY <1>1 DEF Init, ServerTypes, Down
<1>3. Absent \in [state : {"absent", "torn", "whole"}, client : Clients \cup {None},
                  context : AnyContext, key : Keys]
  BY <1>1 DEF Absent, AnyContext
<1>4. LaptopTypes
  <2>1. join \in Join /\ join.file = 1
    BY NoJoinIsJoin DEF Init
  <2>2. join.file <= Len(Writes(join.client))
    BY <2>1, WritesFiles DEF Join
  <2> QED
    BY <1>1, <1>3, <2>1, <2>2 DEF Init, LaptopTypes
<1> QED
  BY <1>2, <1>4, HandoffInvSplits, BoundsAssumption DEF Init

LEMMA ChangeIsCounted ==
    ASSUME changes \in 0..MaxChanges, Change \/ UNCHANGED changes
    PROVE  changes' \in 0..MaxChanges
BY BoundsAssumption DEF Change

LEMMA ServerKeepsLaptop == ASSUME LaptopTypes, UNCHANGED laptopVars PROVE LaptopTypes'
BY DEF LaptopTypes, laptopVars

LEMMA LaptopKeepsServer == ASSUME ServerTypes, UNCHANGED serverVars PROVE ServerTypes'
BY DEF ServerTypes, serverVars

-----------------------------------------------------------------------------
(* Steps of the server.                                                    *)

\* A server that starts divides the pool of its flags.
LEMMA RunningIsServed ==
    ASSUME ServerTypes, NEW flags \in {Flags(p) : p \in Plans}
    PROVE  /\ Running(flags).up /\ Running(flags).key \in Keys
           /\ Running(flags).flags = flags
           /\ Running(flags).context \in Contexts
           /\ Running(flags).context = flags.c \div flags.np
<1>1. PICK p \in Plans : flags = Flags(p)
  OBVIOUS
<1>2. flags.c \div flags.np \in Contexts
  BY <1>1, FlagsDivide
<1> QED
  BY <1>2 DEF Running, ServerTypes

LEMMA ServerStepsKeepServerTypes ==
    ASSUME ServerTypes,
           \/ \E p \in Plans : Up(p)
           \/ InstallService \/ ServerStart \/ ServerStop \/ RestartService
           \/ Invite \/ Rotate
    PROVE  ServerTypes'
<1>1. ASSUME NEW p \in Plans, Up(p) PROVE ServerTypes'
  BY <1>1 DEF Up, ServerTypes
<1>2. ASSUME service' \in {Flags(p) : p \in Plans}, server' = Running(service'),
             UNCHANGED <<plan, key, tokens>>
      PROVE  ServerTypes'
  <2>1. server'.up /\ server'.key \in Keys /\ server'.flags = service'
        /\ server'.context \in Contexts
        /\ server'.context = service'.c \div service'.np
    BY <1>2, RunningIsServed
  <2>2. service' # NoFlags
    BY <1>2, FlagsDivide DEF NoFlags
  <2> QED
    BY <1>2, <2>1, <2>2 DEF ServerTypes
<1>3. CASE InstallService
  <2>1. plan \in Plans
    BY <1>3 DEF InstallService, ServerTypes
  <2>2. service' = Flags(plan) /\ service' \in {Flags(p) : p \in Plans}
    BY <1>3, <2>1 DEF InstallService
  <2>3. server' = server \/ server' = Running(service')
    BY <1>3 DEF InstallService
  <2>4. UNCHANGED <<plan, key, tokens>>
    BY <1>3 DEF InstallService
  <2>5. CASE server' = server
    <3>1. service' # NoFlags
      BY <2>1, <2>2, FlagsDivide DEF NoFlags
    <3> QED
      BY <2>2, <2>4, <2>5, <3>1 DEF ServerTypes
  <2>6. CASE server' = Running(service')
    BY <1>2, <2>2, <2>4, <2>6
  <2> QED
    BY <2>3, <2>5, <2>6
<1>7. CASE ServerStart \/ RestartService
  <2>1. server' = Running(service') /\ UNCHANGED <<plan, service, key, tokens>>
    BY <1>7 DEF ServerStart, RestartService
  <2>2. service # NoFlags
    BY <1>7 DEF ServerStart, RestartService, ServerTypes
  <2>3. service' \in {Flags(p) : p \in Plans}
    BY <2>1, <2>2 DEF ServerTypes
  <2> QED
    BY <1>2, <2>1, <2>3
<1>4. CASE ServerStop
  BY <1>4 DEF ServerStop, ServerTypes, Down
<1>5. CASE Invite
  <2>1. plan \in Plans
    BY <1>5 DEF Invite, ServerTypes
  <2>2. Token \in [context : Contexts, key : Keys]
    BY <2>1 DEF Token, Plans, ServerTypes
  <2> QED
    BY <1>5, <2>2 DEF Invite, ServerTypes
<1>6. CASE Rotate
  <2>1. plan \in Plans
    BY <1>6 DEF Rotate, ServerTypes
  <2>2. key' \in Keys \ {NoKey}
    BY <1>6, BoundsAssumption DEF Rotate, ServerTypes, Keys, NoKey
  <2>3. [context |-> plan.context, key |-> key'] \in [context : Contexts, key : Keys]
    BY <2>1, <2>2 DEF Plans
  <2> QED
    BY <1>6, <2>2, <2>3 DEF Rotate, ServerTypes
<1> QED
  BY <1>1, <1>3, <1>4, <1>5, <1>6, <1>7

-----------------------------------------------------------------------------
(* Steps of the laptop.                                                    *)

\* join pins the context of its arguments, of the server, of a plan, or 8192.
LEMMA ChoiceIsTyped ==
    ASSUME LaptopTypes, NEW confirmed \in AnyContext
    PROVE  Choice(confirmed) \in AnyContext
<1>1. join.asked \subseteq AnyContext /\ join.planned \in AnyContext
  BY DEF LaptopTypes, Join
<1>2. Budget(confirmed) \in AnyContext
  BY <1>1 DEF Budget
<1>3. Fallback \in AnyContext
  BY DEF AnyContext
<1>4. CASE join.asked # {}
  <2>1. (CHOOSE n \in join.asked : TRUE) \in join.asked
    BY <1>4
  <2> QED
    BY <1>1, <1>4, <2>1 DEF Choice
<1>5. CASE join.asked = {}
  BY <1>2, <1>3, <1>5 DEF Choice
<1> QED
  BY <1>4, <1>5

LEMMA StartKeepsLaptopTypes ==
    ASSUME LaptopTypes, NEW client \in Clients, NEW k \in Keys,
           NEW planned \in AnyContext, NEW asked \in SUBSET AnyContext,
           NEW probes \in BOOLEAN, StartJoin(client, k, planned, asked, probes)
    PROVE  LaptopTypes' /\ UNCHANGED serverVars
<1>1. join' = [NoJoin EXCEPT !.pc = "probe", !.client = client, !.key = k,
                  !.planned = planned, !.asked = asked, !.probes = probes]
      /\ UNCHANGED <<serverVars, files, env, printed, used, edited>>
  BY DEF StartJoin
<1>2. join' \in Join /\ join'.file = 1 /\ join'.client = client
  BY <1>1, NoJoinIsJoin DEF Join
<1>3. join'.file <= Len(Writes(join'.client))
  BY <1>2, FirstFile
<1> QED
  BY <1>1, <1>2, <1>3 DEF LaptopTypes

LEMMA JoinsKeepTypes ==
    ASSUME LaptopTypes, ServerTypes, NEW c \in Clients,
           JoinByInvite(c) \/ JoinByName(c) \/ JoinAgain(c)
    PROVE  LaptopTypes' /\ UNCHANGED serverVars
<1>1. plan.context \in AnyContext /\ NoContext \in AnyContext
  BY DEF ServerTypes, Plans, NoPlan, AnyContext
<1>2. \A t \in tokens : t.key \in Keys /\ t.context \in AnyContext
  BY DEF ServerTypes, AnyContext
<1>3. {} \in SUBSET AnyContext
      /\ \A n \in Contexts \cup {0} : {n} \in SUBSET AnyContext
  BY DEF AnyContext, NoContext
<1>4. CASE JoinByInvite(c)
  <2>1. PICK t \in tokens, probes \in BOOLEAN,
             asked \in {{n} : n \in Contexts \cup {0}} \cup {{}} :
               StartJoin(c, t.key, t.context, asked, probes)
    BY <1>4 DEF JoinByInvite
  <2> QED
    BY <1>2, <1>3, <2>1, StartKeepsLaptopTypes
<1>5. CASE JoinByName(c)
  <2>1. PICK planned \in {plan.context, NoContext} : StartJoin(c, key, planned, {}, TRUE)
    BY <1>5 DEF JoinByName
  <2>2. key \in Keys
    BY DEF ServerTypes
  <2> QED
    BY <1>1, <1>3, <2>1, <2>2, StartKeepsLaptopTypes
<1>6. CASE JoinAgain(c)
  <2>1. Token \in tokens /\ StartJoin(c, Token.key, Token.context, {}, TRUE)
    BY <1>6 DEF JoinAgain
  <2> QED
    BY <1>2, <1>3, <2>1, StartKeepsLaptopTypes
<1> QED
  BY <1>4, <1>5, <1>6

LEMMA ResolveKeepsTypes ==
    ASSUME LaptopTypes, ServerTypes, Resolve
    PROVE  LaptopTypes' /\ UNCHANGED serverVars
<1> DEFINE asks == join.probes /\ server.up
           confirmed == IF asks THEN server.context ELSE NoContext
<1>1. confirmed \in AnyContext
  BY DEF ServerTypes, AnyContext, Down
<1>2. join' = NoJoin \/ join' = [join EXCEPT !.pc = "open", !.context = Choice(confirmed)]
  BY DEF Resolve
<1>3. UNCHANGED <<serverVars, files, env, printed, edited>>
      /\ used' \in {join.client, used}
  BY DEF Resolve
<1> HIDE DEF confirmed
<1>4. join.client \in Clients /\ join \in Join
  BY DEF LaptopTypes, Join
<1>5. join' \in Join /\ join'.file <= Len(Writes(join'.client))
  <2>1. CASE join' = NoJoin
    BY <2>1, NoJoinIsJoin, NoJoinHasFiles
  <2>2. CASE join' = [join EXCEPT !.pc = "open", !.context = Choice(confirmed)]
    <3>1. join' \in Join
      BY <1>1, <1>4, <2>2, ChoiceIsTyped DEF Join
    <3>2. join'.file = join.file /\ join'.client = join.client
      BY <1>4, <2>2 DEF Join
    <3> QED
      BY <3>1, <3>2 DEF LaptopTypes
  <2> QED
    BY <1>2, <2>1, <2>2
<1> QED
  BY <1>3, <1>4, <1>5 DEF LaptopTypes

-----------------------------------------------------------------------------
(* A file that join opens, and one that it writes                          *)

LEMMA FilesKeepTypes ==
    ASSUME LaptopTypes, OpenConfig \/ WriteConfig
    PROVE  LaptopTypes' /\ UNCHANGED serverVars
<1> DEFINE F == [state : {"absent", "torn", "whole"}, client : Clients \cup {None},
                 context : AnyContext, key : Keys]
           name == Writes(join.client)[join.file]
<1>1. join \in Join /\ join.client \in Clients /\ join.context \in AnyContext
      /\ join.key \in Keys /\ join.file \in 1..3
      /\ join.file <= Len(Writes(join.client)) /\ files \in [FileNames -> F]
  BY DEF LaptopTypes, Join
<1>2. Len(Writes(join.client)) \in 2..3
  BY <1>1, WritesFiles
<1>3. name \in FileNames
  BY <1>1, <1>2, WritesFiles
<1>4. Torn \in F /\ WrittenBy(join) \in F
  BY <1>1, BoundsAssumption DEF Torn, Absent, WrittenBy, AnyContext, Keys, NoKey
<1>5. CASE OpenConfig
  <2>1. files' = [files EXCEPT ![name] = Torn] /\ join' = [join EXCEPT !.pc = "write"]
        /\ UNCHANGED <<serverVars, env, printed, used, edited>>
    BY <1>5 DEF OpenConfig
  <2>2. files' \in [FileNames -> F]
    BY <1>1, <1>3, <1>4, <2>1
  <2>3. join' \in Join /\ join'.file = join.file /\ join'.client = join.client
    BY <1>1, <2>1 DEF Join
  <2> QED
    BY <2>1, <2>2, <2>3 DEF LaptopTypes
<1>6. CASE WriteConfig
  <2>1. files' = [files EXCEPT ![name] = WrittenBy(join)]
        /\ UNCHANGED <<serverVars, env, used>>
    BY <1>6 DEF WriteConfig
  <2>2. files' \in [FileNames -> F]
    BY <1>1, <1>3, <1>4, <2>1
  <2>3. CASE join.file < Len(Writes(join.client))
    <3>1. join' = [join EXCEPT !.pc = "open", !.file = @ + 1] /\ UNCHANGED <<printed, edited>>
      BY <1>6, <2>3 DEF WriteConfig
    <3>2. join.file + 1 \in 1..3 /\ join.file + 1 <= Len(Writes(join.client))
      <4> DEFINE n == Len(Writes(join.client))
                 i == join.file
      <4>1. n \in 2..3 /\ i \in 1..3 /\ i < n
        BY <1>1, <1>2, <2>3
      <4> HIDE DEF n, i
      <4>2. i + 1 \in 1..3 /\ i + 1 <= n
        BY <4>1, SMT
      <4> QED
        BY <4>2 DEF n, i
    <3>3. join' \in Join /\ join'.file = join.file + 1 /\ join'.client = join.client
      BY <1>1, <3>1, <3>2 DEF Join
    <3> QED
      BY <2>1, <2>2, <3>1, <3>2, <3>3 DEF LaptopTypes
  <2>4. CASE ~(join.file < Len(Writes(join.client)))
    <3>1. join' = NoJoin /\ edited' = FALSE
          /\ printed' = [var |-> EnvVar(join.client), key |-> join.key]
      BY <1>6, <2>4 DEF WriteConfig
    <3>2. printed' \in [var : EnvVars \cup {None}, key : Keys]
      BY <1>1, <3>1, EnvVarIsTyped
    <3>3. join' \in Join /\ join'.file <= Len(Writes(join'.client))
      BY <3>1, NoJoinIsJoin, NoJoinHasFiles
    <3> QED
      BY <2>1, <2>2, <3>1, <3>2, <3>3 DEF LaptopTypes
  <2> QED
    BY <2>3, <2>4
<1> QED
  BY <1>5, <1>6

LEMMA UserKeepsTypes ==
    ASSUME LaptopTypes,
           KillAJoin \/ SetKey \/ \E c \in Clients, n \in Contexts : Edit(c, n)
    PROVE  LaptopTypes' /\ UNCHANGED serverVars
<1>1. CASE KillAJoin
  <2>1. join' = NoJoin /\ UNCHANGED <<serverVars, files, env, printed, used, edited>>
    BY <1>1 DEF KillAJoin
  <2>2. join' \in Join /\ join'.file <= Len(Writes(join'.client))
    BY <2>1, NoJoinIsJoin, NoJoinHasFiles
  <2> QED
    BY <2>1, <2>2 DEF LaptopTypes
<1>2. CASE SetKey
  <2>1. env' = [env EXCEPT ![printed.var] = printed.key]
        /\ UNCHANGED <<serverVars, files, printed, used, edited, join>>
    BY <1>2 DEF SetKey
  <2>2. env' \in [EnvVars -> Keys]
    BY <2>1 DEF LaptopTypes
  <2> QED
    BY <2>1, <2>2 DEF LaptopTypes
<1>3. ASSUME NEW c \in Clients, NEW n \in Contexts, Edit(c, n)
      PROVE  LaptopTypes' /\ UNCHANGED serverVars
  <2> DEFINE F == [state : {"absent", "torn", "whole"}, client : Clients \cup {None},
                   context : AnyContext, key : Keys]
  <2>1. files' = [files EXCEPT ![Carrier(c)].context = n] /\ edited' = TRUE
        /\ UNCHANGED <<serverVars, env, printed, used, join>>
    BY <1>3 DEF Edit
  <2>2. Carrier(c) \in FileNames /\ n \in AnyContext /\ files \in [FileNames -> F]
    BY DEF Carrier, FileNames, AnyContext, LaptopTypes
  <2>3. [files[Carrier(c)] EXCEPT !.context = n] \in F
    BY <2>2
  <2>4. files' = [files EXCEPT ![Carrier(c)] = [files[Carrier(c)] EXCEPT !.context = n]]
    BY <2>1
  <2>5. files' \in [FileNames -> F]
    BY <2>2, <2>3, <2>4
  <2> QED
    BY <2>1, <2>5 DEF LaptopTypes
<1> QED
  BY <1>1, <1>2, <1>3

-----------------------------------------------------------------------------
(* The theorems.                                                           *)

LEMMA ChangesCount ==
    ASSUME HandoffInv, [Next]_vars
    PROVE  changes' \in 0..MaxChanges
<1>1. changes \in 0..MaxChanges
  BY DEF HandoffInv, TypeOK
<1>2. Change \/ UNCHANGED changes
  BY DEF Next, vars, Up, InstallService, ServerStart, ServerStop, RestartService, Invite,
         Rotate, JoinByInvite, JoinByName, JoinAgain, Resolve, OpenConfig, WriteConfig,
         KillAJoin, SetKey, Edit
<1> QED
  BY <1>1, <1>2, ChangeIsCounted

LEMMA HandoffInvNext == HandoffInv /\ [Next]_vars => HandoffInv'
<1> SUFFICES ASSUME HandoffInv, [Next]_vars PROVE HandoffInv'
  OBVIOUS
<1>1. ServerTypes /\ LaptopTypes
  BY HandoffInvSplits
<1>2. changes' \in 0..MaxChanges
  BY ChangesCount
<1>3. (ServerTypes /\ LaptopTypes)'
  <2>1. CASE \/ \E p \in Plans : Up(p)
             \/ InstallService \/ ServerStart \/ ServerStop \/ RestartService
             \/ Invite \/ Rotate
    <3>1. UNCHANGED laptopVars
      BY <2>1 DEF Up, InstallService, ServerStart, ServerStop, RestartService, Invite, Rotate
    <3> QED
      BY <1>1, <2>1, <3>1, ServerStepsKeepServerTypes, ServerKeepsLaptop
  <2>2. ASSUME NEW c \in Clients, JoinByInvite(c) \/ JoinByName(c) \/ JoinAgain(c)
        PROVE  (ServerTypes /\ LaptopTypes)'
    BY <1>1, <2>2, JoinsKeepTypes, LaptopKeepsServer
  <2>3. CASE Resolve \/ OpenConfig \/ WriteConfig
    BY <1>1, <2>3, ResolveKeepsTypes, FilesKeepTypes, LaptopKeepsServer
  <2>4. CASE KillAJoin \/ SetKey \/ \E c \in Clients, n \in Contexts : Edit(c, n)
    BY <1>1, <2>4, UserKeepsTypes, LaptopKeepsServer
  <2>5. CASE UNCHANGED vars
    BY <1>1, <2>5, ServerKeepsLaptop, LaptopKeepsServer DEF vars, serverVars, laptopVars
  <2> QED
    BY <2>1, <2>2, <2>3, <2>4, <2>5 DEF Next
<1>4. HandoffInv' <=> (ServerTypes /\ LaptopTypes)' /\ changes' \in 0..MaxChanges
  BY DEF HandoffInv, TypeOK, ServerTypes, LaptopTypes
<1> QED
  BY <1>2, <1>3, <1>4

\* The invariant holds for any agents, sizes and number of changes.
THEOREM HandoffInvariant == Spec => []HandoffInv
BY HandoffInvInit, HandoffInvNext, PTL DEF Spec

\* Every variable keeps its type, a join's place in its files included.
THEOREM HandoffTypes == Spec => []TypeOK
<1>1. HandoffInv => TypeOK
  BY DEF HandoffInv
<1> QED
  BY <1>1, HandoffInvariant, PTL

\* llama-server, started with the -c and -np that `up` wrote, gives each slot the
\* context of the plan, for every context and every number of slots.
THEOREM SlotsHoldThePlan == Spec => []PlannedIsServed
<1>1. HandoffInv => PlannedIsServed
  <2> SUFFICES ASSUME HandoffInv, server.up, server.flags = Flags(plan)
               PROVE  server.context = plan.context
    BY DEF PlannedIsServed
  <2>1. server.context = server.flags.c \div server.flags.np
        /\ server.flags \in {Flags(p) : p \in Plans} /\ plan \in Plans \cup {NoPlan}
    BY DEF HandoffInv, TypeOK, Down
  <2>2. Flags(NoPlan).np = 0
    BY DEF Flags, NoPlan
  <2>3. PICK p \in Plans : server.flags = Flags(p)
    BY <2>1
  <2>4. plan \in Plans
    BY <2>1, <2>2, <2>3, FlagsDivide
  <2> QED
    BY <2>1, <2>4, FlagsDivide
<1> QED
  BY <1>1, HandoffInvariant, PTL

-----------------------------------------------------------------------------
(* What check reads in a directory of one agent.                           *)

LEMMA OneOfTheNames ==
    ASSUME NEW agent, Clients = {agent}
    PROVE  /\ agent \in ClientNames /\ agent \in FileNames /\ "sidecar" \in FileNames
           /\ agent \in {"opencode", "continue", "aider", "octofriend", "qwen", "cline"}
           /\ agent # None
<1>1. agent \in ClientNames
  BY ClientsAssumption
<1> QED
  BY <1>1 DEF ClientNames, FileNames, None

OwnConfig(c) ==
    [client |-> c, context |-> Pinned(c), model |-> ModelOf(c), key |-> KeyOf(c)]

\* Every agent but cline has a reader, which finds the agent's file if it is whole.
LEMMA OwnOfOne ==
    ASSUME NEW agent, Clients = {agent}
    PROVE  /\ agent # "cline" /\ Whole(agent) => Own = OwnConfig(agent)
           /\ ~(agent # "cline" /\ Whole(agent)) => Own = NoConfig
<1>1. /\ DOMAIN Readers = 1..5
      /\ Readers[1] = "opencode" /\ Readers[2] = "continue" /\ Readers[3] = "aider"
      /\ Readers[4] = "octofriend" /\ Readers[5] = "qwen"
  BY DEF Readers
<1>2. \A i \in 1..5 : i = 1 \/ i = 2 \/ i = 3 \/ i = 4 \/ i = 5
  OBVIOUS
<1>3. \A i \in DOMAIN Readers : Readers[i] # "cline"
  BY <1>1, <1>2
<1>4. \A i \in DOMAIN Readers : Readable(i) <=> Readers[i] = agent /\ Whole(agent)
  BY DEF Readable
<1>5. CASE agent # "cline" /\ Whole(agent)
  <2>1. PICK n \in 1..5 : Readers[n] = agent
    BY <1>1, <1>5, OneOfTheNames
  <2>2. \A k \in 1..5 : Readers[k] = agent => k = n
    BY <1>1, <1>2, <2>1
  <2>3. Readable(n) /\ \A k \in 1..(n - 1) : ~Readable(k)
    <3>1. Readable(n)
      BY <1>1, <1>4, <1>5, <2>1
    <3>2. ASSUME NEW k \in 1..(n - 1) PROVE ~Readable(k)
      <4>1. k \in 1..5 /\ k # n
        BY <2>1
      <4> QED
        BY <1>1, <1>4, <2>2, <4>1
    <3> QED
      BY <3>1, <3>2
  <2> DEFINE First(i) == Readable(i) /\ \A k \in 1..(i - 1) : ~Readable(k)
             first == CHOOSE i \in DOMAIN Readers : First(i)
  <2>4. n \in DOMAIN Readers /\ First(n)
    BY <1>1, <2>1, <2>3
  <2> HIDE DEF First
  <2>5. first \in DOMAIN Readers /\ First(first)
    BY <2>4
  <2>6. Readers[first] = agent
    BY <1>4, <2>5 DEF First
  <2>7. Own = OwnConfig(Readers[first])
    BY <1>1, <2>1, <2>3 DEF Own, OwnConfig, First
  <2> QED
    BY <1>5, <2>6, <2>7
<1>6. CASE ~(agent # "cline" /\ Whole(agent))
  <2>1. \A i \in DOMAIN Readers : ~Readable(i)
    BY <1>3, <1>4, <1>6
  <2> QED
    BY <1>6, <2>1 DEF Own
<1> QED
  BY <1>5, <1>6

\* No agent reads its key both from its file and from a variable.
LEMMA KeysHaveOnePlace ==
    /\ EnvKey("continue") = NoKey /\ EnvKey("cline") = NoKey /\ EnvKey(None) = NoKey
    /\ \A c \in ClientNames : EnvKey(c) # NoKey => KeyOf(c) = EnvKey(c)
BY DEF EnvKey, EnvVar, KeyOf, ClientNames, None

\* The sidecar, if it is whole, is of the one agent.
LEMMA RecordedOfOne ==
    ASSUME NEW agent, Clients = {agent}, LaptopTypes
    PROVE  /\ ~Whole("sidecar") => Recorded = NoConfig
           /\ Whole("sidecar") =>
                /\ Recorded # NoConfig
                /\ Recorded.context = files["sidecar"].context
                /\ Recorded.model = "alias"
                /\ Recorded.key = Own.key
                   \/ (Recorded.key = EnvKey(agent) /\ EnvKey(agent) # NoKey)
<1>1. CASE Whole("sidecar")
  <2> DEFINE c == files["sidecar"].client
  <2>1. c = agent \/ c = None
    BY OneOfTheNames DEF LaptopTypes
  <2>2. Recorded = [client |-> c, context |-> files["sidecar"].context, model |-> "alias",
                    key |-> IF EnvKey(c) # NoKey THEN EnvKey(c) ELSE Own.key]
    BY <1>1 DEF Recorded
  <2>3. EnvKey(c) # NoKey => c = agent
    BY <2>1, KeysHaveOnePlace
  <2>4. /\ Recorded.model = "alias" /\ Recorded.context = files["sidecar"].context
        /\ EnvKey(c) # NoKey => Recorded.key = EnvKey(c)
        /\ EnvKey(c) = NoKey => Recorded.key = Own.key
    BY <2>2
  <2>5. NoConfig.model = "none"
    BY DEF NoConfig, None
  <2>6. Recorded # NoConfig
    BY <2>4, <2>5
  <2>7. Recorded.key = Own.key \/ (Recorded.key = EnvKey(agent) /\ EnvKey(agent) # NoKey)
    <3>1. CASE EnvKey(c) # NoKey
      <4>1. c = agent
        BY <2>3, <3>1
      <4> HIDE DEF c
      <4> QED
        BY <2>4, <3>1, <4>1
    <3>2. CASE EnvKey(c) = NoKey
      BY <2>4, <3>2
    <3> QED
      BY <3>1, <3>2
  <2> QED
    BY <1>1, <2>4, <2>6, <2>7
<1>2. CASE ~Whole("sidecar")
  BY <1>2 DEF Recorded
<1> QED
  BY <1>1, <1>2

\* An agent's own file that is whole and pins a window decides what check judges:
\* the window and the key that the agent loads, whatever the sidecar says.
LEMMA FoundIsWhatItLoads ==
    ASSUME NEW agent, Clients = {agent}, LaptopTypes,
           agent # "cline", agent # "qwen", Whole(agent), Pinned(agent) # NoContext
    PROVE  /\ Found # NoConfig
           /\ Found.context = Pinned(agent)
           /\ Found.key = KeyOf(agent)
           /\ Found.model = "alias"
<1>1. Own = OwnConfig(agent)
  BY OwnOfOne
<1>2. Own.context = Pinned(agent) /\ Own.key = KeyOf(agent) /\ Own.model = "alias"
  BY <1>1 DEF OwnConfig, ModelOf
<1>3. NoConfig.model = "none"
  BY DEF NoConfig, None
<1>4. Own # NoConfig
  BY <1>2, <1>3
<1>5. agent \in ClientNames
  BY OneOfTheNames
<1>6. CASE Recorded = NoConfig
  <2>1. Found = Own
    BY <1>6 DEF Found
  <2> QED
    BY <1>2, <1>4, <2>1
<1>7. CASE Recorded # NoConfig
  <2>1. /\ Recorded.context = files["sidecar"].context /\ Recorded.model = "alias"
        /\ Recorded.key = KeyOf(agent)
    BY <1>2, <1>5, <1>7, RecordedOfOne, KeysHaveOnePlace
  <2>2. CASE Drift = {}
    <3>1. Found = Recorded
      BY <1>7, <2>2 DEF Found
    <3>2. Drift = {f \in {"context", "model"} : Own[f] # Recorded[f]} \ {}
      BY <1>2, <1>4, <1>7 DEF Drift
    <3>3. Own["context"] = Recorded["context"]
      BY <2>2, <3>2
    <3> QED
      BY <1>2, <1>7, <2>1, <3>1, <3>3
  <2>3. CASE Drift # {}
    <3>1. Found = [Own EXCEPT !.context = IF @ # NoContext THEN @ ELSE Recorded.context,
                              !.key = IF @ # NoKey THEN @ ELSE Recorded.key]
      BY <1>4, <1>7, <2>3 DEF Found
    <3>2. Found.context = Pinned(agent) /\ Found.key = KeyOf(agent) /\ Found.model = "alias"
      BY <1>1, <2>1, <3>1 DEF OwnConfig, ModelOf
    <3> QED
      BY <1>3, <3>2
  <2> QED
    BY <2>2, <2>3
<1> QED
  BY <1>6, <1>7

\* check finds no fault with the one agent of a directory that works, for every
\* agent there is, and wherever its joins were killed.
THEOREM CheckFindsNoFalseFault ==
    ASSUME NEW agent, Clients = {agent}
    PROVE  Spec => []CheckIsComplete
<1>1. HandoffInv => CheckIsComplete
  <2> SUFFICES ASSUME HandoffInv, used # None, AgentWorks(used)
               PROVE  ChecksPass
    BY DEF CheckIsComplete
  <2>1. LaptopTypes
    BY HandoffInvSplits
  <2>2. used = agent
    BY <2>1 DEF LaptopTypes
  <2>3. /\ Whole(agent) /\ Pinned(agent) # NoContext /\ Pinned(agent) <= server.context
        /\ Accepts(KeyOf(agent))
    BY <2>2 DEF AgentWorks
  <2>4. agent # "qwen"
    BY <2>3 DEF Pinned
  <2>5. agent # "cline"
    <3>1. KeyOf("cline") = NoKey
      BY KeysHaveOnePlace DEF KeyOf
    <3> QED
      BY <2>3, <3>1 DEF Accepts
  <2>6. /\ Found # NoConfig /\ Found.context = Pinned(agent)
        /\ Found.key = KeyOf(agent) /\ Found.model = "alias"
    BY <2>1, <2>3, <2>4, <2>5, FoundIsWhatItLoads
  <2>7. Diagnosed(Found.key) /\ ModelVisible(Found.model) /\ FitsSlot(Found.context)
    BY <2>3, <2>6 DEF Diagnosed, Accepts, ModelVisible, FitsSlot
  <2> QED
    BY <2>6, <2>7 DEF ChecksPass
<1> QED
  BY <1>1, HandoffInvariant, PTL

-----------------------------------------------------------------------------
(* What the joins of a directory have written so far.                      *)

\* Nothing is in the directory before a join began to write there, and every
\* file that is whole carries a window.
BegunInv ==
    /\ \A f \in FileNames : files[f].state # "absent" => used # None
    /\ \A f \in FileNames : Whole(f) => files[f].context # NoContext
    /\ join.pc \in {"open", "write"} => used # None /\ join.context # NoContext

\* What join pins is never "no context": not for a request of 0, which it refuses,
\* and not without a server and a plan, where it falls back.
LEMMA ChoiceIsAContext ==
    ASSUME NEW confirmed, ~Refused(confirmed)
    PROVE  Choice(confirmed) # NoContext
<1>1. CASE join.asked # {}
  <2>1. (CHOOSE n \in join.asked : TRUE) \in join.asked
    BY <1>1
  <2>2. \A n \in join.asked : n # NoContext
    BY DEF Refused, NoContext
  <2> QED
    BY <1>1, <2>1, <2>2 DEF Choice
<1>2. CASE join.asked = {}
  BY <1>2, SizesAssumption DEF Choice, NoContext
<1> QED
  BY <1>1, <1>2

LEMMA BegunInit == Init => BegunInv
BY NoJoinIsJoin DEF Init, BegunInv, Absent, Whole

\* What becomes of the join, the last agent and the directory, in a step that is
\* not one of a join that writes
LEMMA QuietStepsOfADirectory ==
    ASSUME [Next]_vars, ~(Resolve \/ OpenConfig \/ WriteConfig),
           ~(\E c \in Clients, n \in Contexts : Edit(c, n))
    PROVE  /\ UNCHANGED <<files, used, edited>>
           /\ \/ UNCHANGED join
              \/ KillAJoin /\ join' = NoJoin
              \/ /\ join.pc = "idle"
                 /\ \E c \in Clients : \E k, planned, asked, probes :
                      join' = [NoJoin EXCEPT !.pc = "probe", !.client = c, !.key = k,
                                  !.planned = planned, !.asked = asked, !.probes = probes]
<1>1. CASE UNCHANGED vars
  BY <1>1 DEF vars
<1>2. CASE \/ \E p \in Plans : Up(p)
           \/ InstallService \/ ServerStart \/ ServerStop \/ RestartService
           \/ Invite \/ Rotate
  BY <1>2 DEF Up, InstallService, ServerStart, ServerStop, RestartService, Invite, Rotate,
              laptopVars
<1>3. ASSUME NEW c \in Clients, JoinByInvite(c) \/ JoinByName(c) \/ JoinAgain(c)
      PROVE  \E k, planned, asked, probes : StartJoin(c, k, planned, asked, probes)
  BY <1>3 DEF JoinByInvite, JoinByName, JoinAgain
<1>4. ASSUME NEW c \in Clients, JoinByInvite(c) \/ JoinByName(c) \/ JoinAgain(c)
      PROVE  /\ UNCHANGED <<files, used, edited>> /\ join.pc = "idle"
             /\ \E k, planned, asked, probes :
                  join' = [NoJoin EXCEPT !.pc = "probe", !.client = c, !.key = k,
                              !.planned = planned, !.asked = asked, !.probes = probes]
  <2>1. PICK k, planned, asked, probes : StartJoin(c, k, planned, asked, probes)
    BY <1>3, <1>4
  <2> QED
    BY <2>1 DEF StartJoin
<1>5. CASE KillAJoin
  BY <1>5 DEF KillAJoin
<1>6. CASE SetKey
  BY <1>6 DEF SetKey
<1> QED
  BY <1>1, <1>2, <1>4, <1>5, <1>6 DEF Next

\* A join that opens or writes a file
LEMMA WritingStepsOfADirectory ==
    ASSUME LaptopTypes, OpenConfig \/ WriteConfig
    PROVE  LET name == Writes(join.client)[join.file]
           IN  /\ join.pc \in {"open", "write"} /\ name \in FileNames /\ used' = used
               /\ files' = [files EXCEPT ![name] = Torn]
                  \/ files' = [files EXCEPT ![name] = WrittenBy(join)]
               /\ join' = NoJoin \/ (join'.context = join.context /\ join'.pc \in {"open", "write"})
<1>1. join \in Join /\ join.client \in Clients /\ join.file \in 1..3
      /\ join.file <= Len(Writes(join.client))
  BY DEF LaptopTypes, Join
<1>2. Writes(join.client)[join.file] \in FileNames
  BY <1>1, WritesFiles
<1>3. CASE OpenConfig
  BY <1>1, <1>2, <1>3 DEF OpenConfig, Join
<1>4. CASE WriteConfig
  BY <1>1, <1>2, <1>4 DEF WriteConfig, Join
<1> QED
  BY <1>3, <1>4

LEMMA BegunNext == LaptopTypes /\ BegunInv /\ [Next]_vars => BegunInv'
<1> SUFFICES ASSUME LaptopTypes, BegunInv, [Next]_vars PROVE BegunInv'
  OBVIOUS
<1> DEFINE F == [state : {"absent", "torn", "whole"}, client : Clients \cup {None},
                 context : AnyContext, key : Keys]
<1>t. files \in [FileNames -> F] /\ join \in Join /\ NoJoin.pc = "idle" /\ NoJoin \in Join
      /\ join.client \in Clients /\ None \notin Clients
  <2>1. None \notin Clients
    BY ClientsAssumption DEF None, ClientNames
  <2> QED
    BY <2>1, NoJoinIsJoin DEF LaptopTypes, Join
<1>1. CASE Resolve
  <2> DEFINE confirmed == IF join.probes /\ server.up THEN server.context ELSE NoContext
  <2>1. UNCHANGED files /\ used' = IF join'.pc = "open" THEN join.client ELSE used
    BY <1>1 DEF Resolve
  <2>2. \/ join' = NoJoin
        \/ ~Refused(confirmed) /\ join' = [join EXCEPT !.pc = "open", !.context = Choice(confirmed)]
    BY <1>1 DEF Resolve
  <2> HIDE DEF confirmed
  <2>3. join'.pc \in {"open", "write"} => used' # None /\ join'.context # NoContext
    <3>1. CASE join' = NoJoin
      BY <1>t, <3>1
    <3>2. CASE /\ ~Refused(confirmed)
               /\ join' = [join EXCEPT !.pc = "open", !.context = Choice(confirmed)]
      <4>1. Choice(confirmed) # NoContext
        BY <3>2, ChoiceIsAContext
      <4>2. join'.pc = "open" /\ join'.context = Choice(confirmed)
        BY <1>t, <3>2 DEF Join
      <4>3. join.client # None
        BY <1>t
      <4> QED
        BY <2>1, <4>1, <4>2, <4>3
    <3> QED
      BY <2>2, <3>1, <3>2
  <2>4. used # None => used' # None
    BY <1>t, <2>1
  <2> QED
    BY <2>1, <2>3, <2>4 DEF BegunInv, Whole
<1>2. CASE OpenConfig \/ WriteConfig
  <2> DEFINE name == Writes(join.client)[join.file]
  <2>1. /\ join.pc \in {"open", "write"} /\ name \in FileNames /\ used' = used
        /\ files' = [files EXCEPT ![name] = Torn]
           \/ files' = [files EXCEPT ![name] = WrittenBy(join)]
        /\ join' = NoJoin \/ (join'.context = join.context /\ join'.pc \in {"open", "write"})
    BY <1>2, WritingStepsOfADirectory
  <2> HIDE DEF name
  <2>2. used # None /\ join.context # NoContext
    BY <2>1 DEF BegunInv
  <2>3. \A f \in FileNames : f # name => files'[f] = files[f]
    BY <1>t, <2>1
  <2>4. files'[name] = Torn \/ files'[name] = WrittenBy(join)
    BY <1>t, <2>1
  <2>5. files'[name].state = "whole" => files'[name].context # NoContext
    BY <2>2, <2>4 DEF Torn, Absent, WrittenBy
  <2>6. join'.pc \in {"open", "write"} => used' # None /\ join'.context # NoContext
    BY <1>t, <2>1, <2>2
  <2>7. \A f \in FileNames : files'[f].state = "whole" => files'[f].context # NoContext
    BY <2>3, <2>5 DEF BegunInv, Whole
  <2> QED
    BY <2>1, <2>2, <2>6, <2>7 DEF BegunInv, Whole
<1>3. ASSUME NEW c \in Clients, NEW n \in Contexts, Edit(c, n) PROVE BegunInv'
  <2>1. /\ files' = [files EXCEPT ![Carrier(c)].context = n] /\ UNCHANGED <<used, join>>
    BY <1>3 DEF Edit
  <2>2. n # NoContext
    BY SizesAssumption DEF NoContext
  <2>3. \A f \in FileNames : /\ files'[f].state = files[f].state
                             /\ files'[f].context = files[f].context \/ files'[f].context = n
    BY <1>t, <2>1
  <2> QED
    BY <2>1, <2>2, <2>3 DEF BegunInv, Whole
<1>4. CASE /\ ~(Resolve \/ OpenConfig \/ WriteConfig)
           /\ ~(\E c \in Clients, n \in Contexts : Edit(c, n))
  <2>1. UNCHANGED <<files, used>>
    BY <1>4, QuietStepsOfADirectory
  <2>2. UNCHANGED join \/ join'.pc \notin {"open", "write"}
    BY <1>t, <1>4, QuietStepsOfADirectory DEF Join
  <2> QED
    BY <2>1, <2>2 DEF BegunInv, Whole
<1> QED
  BY <1>1, <1>2, <1>3, <1>4

\* The files of an agent, its sidecar among them, are of one join as long as no
\* join of it is killed: at rest all of them are there or none is, with one window
\* unless the user edited it; and a join has written every file before its own.
TogetherInv(agent) ==
    /\ join.pc \in {"idle", "probe"} =>
         \A i, k \in 1..Len(Writes(agent)) :
            /\ files[Writes(agent)[i]].state = files[Writes(agent)[k]].state
            /\ edited \/ files[Writes(agent)[i]].context = files[Writes(agent)[k]].context
    /\ join.pc = "probe" => join.file = 1
    /\ join.pc \in {"open", "write"} =>
         \A i \in 1..Len(Writes(agent)) :
            i < join.file => files[Writes(agent)[i]] = WrittenBy(join)

\* A join never comes back to a file.
LEMMA WritesApart ==
    ASSUME NEW agent \in ClientNames,
           NEW i \in 1..Len(Writes(agent)), NEW k \in 1..Len(Writes(agent)), i # k
    PROVE  Writes(agent)[i] # Writes(agent)[k]
<1>1. agent # "metadata" /\ agent # "sidecar"
  BY DEF ClientNames
<1>2. CASE agent = "aider"
  <2>1. Writes(agent) = <<agent, "metadata", "sidecar">>
    BY <1>2 DEF Writes
  <2>2. i \in 1..3 /\ k \in 1..3
    BY <2>1
  <2>3. Writes(agent)[1] = agent /\ Writes(agent)[2] = "metadata" /\ Writes(agent)[3] = "sidecar"
    BY <2>1
  <2>4. (i = 1 \/ i = 2 \/ i = 3) /\ (k = 1 \/ k = 2 \/ k = 3)
    BY <2>2
  <2> QED
    BY <1>1, <2>3, <2>4
<1>3. CASE agent # "aider"
  <2>1. Writes(agent) = <<agent, "sidecar">>
    BY <1>3 DEF Writes
  <2>2. i \in 1..2 /\ k \in 1..2
    BY <2>1
  <2>3. Writes(agent)[1] = agent /\ Writes(agent)[2] = "sidecar"
    BY <2>1
  <2>4. (i = 1 \/ i = 2) /\ (k = 1 \/ k = 2)
    BY <2>2
  <2> QED
    BY <1>1, <2>3, <2>4
<1> QED
  BY <1>2, <1>3

\* The agent's file, the one with its window and the sidecar are files of its join.
LEMMA PlacesOfFiles ==
    ASSUME NEW agent \in ClientNames
    PROVE  \E i, k, m \in 1..Len(Writes(agent)) :
              /\ Writes(agent)[i] = agent /\ Writes(agent)[k] = Carrier(agent)
              /\ Writes(agent)[m] = "sidecar"
<1>1. CASE agent = "aider"
  <2>1. Writes(agent) = <<agent, "metadata", "sidecar">> /\ Carrier(agent) = "metadata"
    BY <1>1 DEF Writes, Carrier
  <2>2. Len(Writes(agent)) = 3 /\ Writes(agent)[1] = agent
        /\ Writes(agent)[2] = "metadata" /\ Writes(agent)[3] = "sidecar"
    BY <2>1
  <2> QED
    BY <2>1, <2>2
<1>2. CASE agent # "aider"
  <2>1. Writes(agent) = <<agent, "sidecar">> /\ Carrier(agent) = agent
    BY <1>2 DEF Writes, Carrier
  <2>2. Len(Writes(agent)) = 2 /\ Writes(agent)[1] = agent /\ Writes(agent)[2] = "sidecar"
    BY <2>1
  <2> QED
    BY <2>1, <2>2
<1> QED
  BY <1>1, <1>2

LEMMA TogetherInit ==
    ASSUME NEW agent, Clients = {agent}, Init
    PROVE  TogetherInv(agent)
<1>1. \A i \in 1..Len(Writes(agent)) : files[Writes(agent)[i]] = Absent
  BY WritesFiles DEF Init
<1> QED
  BY <1>1, NoJoinIsJoin DEF Init, TogetherInv

\* The steps of a join that writes, with the one agent of the directory
LEMMA WritesKeepTogether ==
    ASSUME NEW agent, Clients = {agent}, LaptopTypes, TogetherInv(agent),
           OpenConfig \/ WriteConfig
    PROVE  TogetherInv(agent)'
<1> DEFINE W == Writes(agent)
           n == Len(W)
           F == [state : {"absent", "torn", "whole"}, client : Clients \cup {None},
                 context : AnyContext, key : Keys]
<1>1. join \in Join /\ join.client = agent /\ join.file \in 1..3 /\ join.file <= n
      /\ files \in [FileNames -> F] /\ agent \in ClientNames
  BY OneOfTheNames DEF LaptopTypes, Join
<1>2. n \in 2..3 /\ \A i \in 1..n : W[i] \in FileNames
  BY WritesFiles
<1>3. join.file \in 1..n
  BY <1>1, <1>2
<1>4. \A i, k \in 1..n : i # k => W[i] # W[k]
  BY <1>1, WritesApart
<1> HIDE DEF n, W
<1>5. CASE OpenConfig
  <2>1. /\ join.pc = "open" /\ files' = [files EXCEPT ![W[join.file]] = Torn]
        /\ join' = [join EXCEPT !.pc = "write"]
    BY <1>1, <1>5 DEF OpenConfig, W
  <2>2. join'.pc = "write" /\ join'.file = join.file /\ WrittenBy(join') = WrittenBy(join)
    BY <1>1, <2>1 DEF Join, WrittenBy
  <2>3. ASSUME NEW i \in 1..n, i < join.file PROVE files'[W[i]] = WrittenBy(join)
    <3>1. files[W[i]] = WrittenBy(join)
      BY <2>1, <2>3 DEF TogetherInv, n, W
    <3>2. i # join.file
      BY <1>3, <2>3
    <3>3. W[i] # W[join.file]
      BY <1>3, <1>4, <3>2
    <3> QED
      BY <1>1, <1>2, <2>1, <3>1, <3>3
  <2> QED
    BY <2>2, <2>3 DEF TogetherInv, n, W
<1>6. CASE WriteConfig
  <2>1. join.pc = "write" /\ files' = [files EXCEPT ![W[join.file]] = WrittenBy(join)]
    BY <1>1, <1>6 DEF WriteConfig, W
  <2>2. ASSUME NEW i \in 1..n, i <= join.file PROVE files'[W[i]] = WrittenBy(join)
    <3>1. CASE W[i] = W[join.file]
      BY <1>1, <1>2, <2>1, <3>1
    <3>2. CASE W[i] # W[join.file]
      <4>1. i < join.file
        BY <1>3, <2>2, <3>2
      <4>2. files[W[i]] = WrittenBy(join)
        BY <2>1, <4>1 DEF TogetherInv, n, W
      <4> QED
        BY <1>1, <1>2, <2>1, <3>2, <4>2
    <3> QED
      BY <3>1, <3>2
  <2>3. CASE join.file < n
    <3>1. join' = [join EXCEPT !.pc = "open", !.file = @ + 1]
      BY <1>1, <1>6, <2>3 DEF WriteConfig, n, W
    <3>2. join'.pc = "open" /\ join'.file = join.file + 1 /\ WrittenBy(join') = WrittenBy(join)
      BY <1>1, <3>1 DEF Join, WrittenBy
    <3>3. \A i \in 1..n : i < join'.file => files'[W[i]] = WrittenBy(join')
      <4> SUFFICES ASSUME NEW i \in 1..n, i < join'.file
                   PROVE  files'[W[i]] = WrittenBy(join')
        OBVIOUS
      <4>1. i <= join.file
        BY <1>3, <3>2
      <4> QED
        BY <2>2, <3>2, <4>1
    <3> QED
      BY <3>2, <3>3 DEF TogetherInv, n, W
  <2>4. CASE ~(join.file < n)
    <3>1. join' = NoJoin
      BY <1>1, <1>6, <2>4 DEF WriteConfig, n, W
    <3>2. \A i \in 1..n : i <= join.file
      BY <1>2, <1>3, <2>4
    <3>3. \A i \in 1..n : files'[W[i]] = WrittenBy(join)
      BY <2>2, <3>2
    <3> QED
      BY <3>1, <3>3, NoJoinIsJoin DEF TogetherInv, n, W
  <2> QED
    BY <2>3, <2>4
<1> QED
  BY <1>5, <1>6

LEMMA TogetherNext ==
    ASSUME NEW agent, Clients = {agent}, ~KillJoin, LaptopTypes, TogetherInv(agent),
           [Next]_vars
    PROVE  TogetherInv(agent)'
<1> DEFINE W == Writes(agent)
           n == Len(W)
           F == [state : {"absent", "torn", "whole"}, client : Clients \cup {None},
                 context : AnyContext, key : Keys]
<1>1. join \in Join /\ files \in [FileNames -> F]
      /\ NoJoin.pc = "idle" /\ NoJoin.file = 1 /\ NoJoin \in Join
  BY NoJoinIsJoin DEF LaptopTypes
<1>2. \A i \in 1..n : W[i] \in FileNames
  BY WritesFiles
<1> HIDE DEF n, W
<1>3. CASE Resolve
  <2> DEFINE confirmed == IF join.probes /\ server.up THEN server.context ELSE NoContext
  <2>1. /\ join.pc = "probe" /\ UNCHANGED <<files, edited>>
        /\ join' = NoJoin \/ join' = [join EXCEPT !.pc = "open", !.context = Choice(confirmed)]
    BY <1>3 DEF Resolve
  <2> HIDE DEF confirmed
  <2>2. CASE join' = NoJoin
    BY <1>1, <2>1, <2>2 DEF TogetherInv
  <2>3. CASE join' = [join EXCEPT !.pc = "open", !.context = Choice(confirmed)]
    <3>1. join'.pc = "open" /\ join'.file = 1
      BY <1>1, <2>1, <2>3 DEF Join, TogetherInv
    <3>2. \A i \in 1..n : ~(i < 1)
      OBVIOUS
    <3> QED
      BY <3>1, <3>2 DEF TogetherInv, n, W
  <2> QED
    BY <2>1, <2>2, <2>3
<1>4. CASE OpenConfig \/ WriteConfig
  BY <1>4, WritesKeepTogether
<1>5. ASSUME NEW c \in Clients, NEW size \in Contexts, Edit(c, size)
      PROVE  TogetherInv(agent)'
  <2>1. /\ files' = [files EXCEPT ![Carrier(c)].context = size] /\ edited' = TRUE
        /\ join' = join /\ join.pc = "idle"
    BY <1>5 DEF Edit
  <2>2. \A f \in FileNames : files'[f].state = files[f].state
    BY <1>1, <2>1
  <2> QED
    BY <1>2, <2>1, <2>2 DEF TogetherInv, n, W
<1>6. CASE /\ ~(Resolve \/ OpenConfig \/ WriteConfig)
           /\ ~(\E c \in Clients, size \in Contexts : Edit(c, size))
  <2>1. UNCHANGED <<files, edited>>
    BY <1>6, QuietStepsOfADirectory
  <2>2. UNCHANGED join \/ (join.pc = "idle" /\ join'.pc = "probe" /\ join'.file = 1)
    <3>1. ~KillAJoin
      BY DEF KillAJoin
    <3> QED
      BY <1>1, <1>6, <3>1, QuietStepsOfADirectory DEF Join
  <2> QED
    BY <2>1, <2>2 DEF TogetherInv
<1> QED
  BY <1>3, <1>4, <1>5, <1>6

-----------------------------------------------------------------------------
(* What check may say of a directory of one agent.                         *)

\* With no agent's file to read, check has no key of an agent that keeps it there.
LEMMA NoFileNoKey ==
    ASSUME NEW agent, Clients = {agent}, agent \in {"continue", "cline"}, LaptopTypes,
           Own = NoConfig
    PROVE  ~ChecksPass
<1>1. Own.key = NoKey
  BY DEF NoConfig
<1>2. EnvKey(agent) = NoKey
  BY KeysHaveOnePlace
<1>3. CASE Recorded = NoConfig
  BY <1>3 DEF Found, ChecksPass
<1>4. CASE Recorded # NoConfig
  <2>1. Found = Recorded
    BY <1>4 DEF Found
  <2>2. Found.key = NoKey
    BY <1>1, <1>2, <1>4, <2>1, RecordedOfOne
  <2> QED
    BY <2>2 DEF ChecksPass, Diagnosed, Accepts
<1> QED
  BY <1>3, <1>4

\* The provider id that setup writes for Qwen Code is not the model a server offers.
LEMMA QwenIsNotServed ==
    ASSUME Clients = {"qwen"}, LaptopTypes, Whole("qwen")
    PROVE  ~ChecksPass
<1>1. Own = OwnConfig("qwen")
  BY OwnOfOne
<1>2. Own.model = "alias-localllm" /\ NoConfig.model = "none"
  BY <1>1 DEF OwnConfig, ModelOf, NoConfig, None
<1>3. Own # NoConfig
  BY <1>2
<1>4. Found.model = "alias-localllm"
  <2>1. CASE Recorded = NoConfig
    BY <1>2, <2>1 DEF Found
  <2>2. CASE Recorded # NoConfig
    <3>1. Recorded.model = "alias"
      BY <2>2, RecordedOfOne
    <3>2. Own["model"] # Recorded["model"]
      BY <1>2, <3>1
    <3>3. "model" \in Drift
      BY <1>3, <2>2, <3>2 DEF Drift
    <3>4. Found = [Own EXCEPT !.context = IF @ # NoContext THEN @ ELSE Recorded.context,
                              !.key = IF @ # NoKey THEN @ ELSE Recorded.key]
      BY <1>3, <2>2, <3>3 DEF Found
    <3> QED
      BY <1>1, <3>4 DEF OwnConfig, ModelOf
  <2> QED
    BY <2>1, <2>2
<1> QED
  BY <1>4 DEF ChecksPass, ModelVisible

\* An agent that keeps its key in its file, or whose joins are not killed: then a
\* check that passes has read what the agent loads, and the agent works.
THEOREM CheckTellsTheTruth ==
    ASSUME NEW agent, Clients = {agent}, KillJoin => agent \in {"continue", "cline"}
    PROVE  Spec => []CheckIsSound
<1> DEFINE Inv == HandoffInv /\ BegunInv /\ (~KillJoin => TogetherInv(agent))
<1>1. Init => Inv
  BY HandoffInvInit, BegunInit, TogetherInit
<1>2. Inv /\ [Next]_vars => Inv'
  <2> SUFFICES ASSUME Inv, [Next]_vars PROVE Inv'
    OBVIOUS
  <2>1. LaptopTypes
    BY HandoffInvSplits
  <2>2. HandoffInv' /\ BegunInv'
    BY <2>1, HandoffInvNext, BegunNext
  <2>3. ~KillJoin => TogetherInv(agent)'
    BY <2>1, TogetherNext
  <2> QED
    BY <2>2, <2>3
<1>3. Inv => CheckIsSound
  <2> SUFFICES ASSUME Inv, join.pc = "idle", ChecksPass
               PROVE  AgentWorks(used)
    BY DEF CheckIsSound
  <2>1. LaptopTypes /\ agent \in ClientNames /\ agent \in FileNames /\ "sidecar" \in FileNames
    BY HandoffInvSplits, OneOfTheNames
  <2>2. ASSUME ~KillJoin
        PROVE  /\ Whole("sidecar") => Whole(agent)
               /\ Whole(agent) => Whole(Carrier(agent))
    <3>1. PICK i, k, m \in 1..Len(Writes(agent)) :
             /\ Writes(agent)[i] = agent /\ Writes(agent)[k] = Carrier(agent)
             /\ Writes(agent)[m] = "sidecar"
      BY <2>1, PlacesOfFiles
    <3>2. files[agent].state = files[Carrier(agent)].state
          /\ files[agent].state = files["sidecar"].state
      BY <2>2, <3>1 DEF TogetherInv
    <3>3. Carrier(agent) \in FileNames
      BY <2>1 DEF Carrier, FileNames
    <3> QED
      BY <2>1, <3>2, <3>3 DEF Whole
  <2>3. agent # "cline" /\ Whole(agent)
    <3> SUFFICES ASSUME ~(agent # "cline" /\ Whole(agent)) PROVE FALSE
      OBVIOUS
    <3>1. Own = NoConfig
      BY OwnOfOne
    <3>2. CASE agent \in {"continue", "cline"}
      BY <2>1, <3>1, <3>2, NoFileNoKey
    <3>3. CASE agent \notin {"continue", "cline"}
      <4>1. Recorded = NoConfig
        BY <2>1, <2>2, <3>3, RecordedOfOne
      <4> QED
        BY <3>1, <4>1 DEF Found, ChecksPass
    <3> QED
      BY <3>2, <3>3
  <2>4. agent # "qwen"
    BY <2>1, <2>3, QwenIsNotServed
  <2>5. Whole(Carrier(agent))
    <3>1. CASE KillJoin
      BY <2>3, <3>1 DEF Carrier
    <3> QED
      BY <2>2, <2>3, <3>1
  <2>6. Pinned(agent) # NoContext
    BY <2>4, <2>5 DEF Pinned, BegunInv, Whole
  <2>7. used = agent
    <3>1. used # None
      BY <2>1, <2>3 DEF BegunInv, Whole
    <3> QED
      BY <2>1, <3>1 DEF LaptopTypes
  <2>8. Found.context = Pinned(agent) /\ Found.key = KeyOf(agent)
    BY <2>1, <2>3, <2>4, <2>6, FoundIsWhatItLoads
  <2>9. Accepts(KeyOf(agent)) /\ Pinned(agent) <= server.context
    BY <2>6, <2>8 DEF ChecksPass, Diagnosed, FitsSlot
  <2> QED
    BY <2>3, <2>6, <2>7, <2>9 DEF AgentWorks
<1> QED
  BY <1>1, <1>2, <1>3, PTL DEF Spec

\* Of a directory of one agent, Qwen Code aside, whose joins are not killed, check
\* says that the config was edited only if the user edited it.
THEOREM DriftIsTheUsers ==
    ASSUME NEW agent, Clients = {agent}, agent # "qwen", ~KillJoin
    PROVE  Spec => []DriftMeansEdited
<1> DEFINE Inv == HandoffInv /\ TogetherInv(agent)
<1>1. Init => Inv
  BY HandoffInvInit, TogetherInit
<1>2. Inv /\ [Next]_vars => Inv'
  BY HandoffInvSplits, HandoffInvNext, TogetherNext
<1>3. Inv => DriftMeansEdited
  <2> SUFFICES ASSUME Inv, join.pc = "idle", Drift # {}, ~edited
               PROVE  FALSE
    BY DEF DriftMeansEdited
  <2>1. LaptopTypes /\ agent \in ClientNames
    BY HandoffInvSplits, OneOfTheNames
  <2>2. Own # NoConfig /\ Recorded # NoConfig
    BY DEF Drift
  <2>3. agent # "cline" /\ Whole(agent) /\ Own = OwnConfig(agent)
    BY <2>2, OwnOfOne
  <2>4. Own.model = "alias" /\ Own.context = Pinned(agent)
    BY <2>3 DEF OwnConfig, ModelOf
  <2>5. Whole("sidecar") /\ Recorded.model = "alias"
        /\ Recorded.context = files["sidecar"].context
    BY <2>1, <2>2, RecordedOfOne
  <2>6. files[Carrier(agent)].context = files["sidecar"].context
    <3>1. PICK k, m \in 1..Len(Writes(agent)) :
             Writes(agent)[k] = Carrier(agent) /\ Writes(agent)[m] = "sidecar"
      BY <2>1, PlacesOfFiles
    <3> QED
      BY <3>1 DEF TogetherInv
  <2>7. Pinned(agent) = NoContext \/ Pinned(agent) = files["sidecar"].context
    BY <2>6 DEF Pinned
  <2>8. \A f \in {"context", "model"} :
           Own[f] # Recorded[f] => f = "context" /\ Own.context = NoContext
    <3>1. Own["model"] = Recorded["model"]
      BY <2>4, <2>5
    <3>2. Own["context"] # Recorded["context"] => Own.context = NoContext
      BY <2>4, <2>5, <2>7
    <3> QED
      BY <3>1, <3>2
  <2> QED
    BY <2>2, <2>8 DEF Drift
<1> QED
  BY <1>1, <1>2, <1>3, PTL DEF Spec
=============================================================================
