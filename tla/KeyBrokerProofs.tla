--------------------------- MODULE KeyBrokerProofs ---------------------------
(***************************************************************************)
(* Theorems about the key broker, for any number of devices, processes and *)
(* planned laptops.                                                        *)
(***************************************************************************)
EXTENDS KeyBroker, FiniteSetTheorems, TLAPS

-----------------------------------------------------------------------------
(* The operations of KeyStore on well-formed lists.                        *)

\* for_device returns an active entry of the device, and the only one.
LEMMA ForDeviceIsActive ==
    ASSUME NEW entries, WellFormed(entries), NEW d, HasActive(entries, d),
           entries \subseteq DeviceKey
    PROVE  /\ ForDevice(entries, d) \in entries
           /\ ForDevice(entries, d).active
           /\ ForDevice(entries, d).device = d
           /\ ForDevice(entries, d) \in DeviceKey
<1>1. PICK e \in ActiveFor(entries, d) : TRUE
  BY DEF HasActive
<1>2. \A f \in ActiveFor(entries, d) : f = e
  BY <1>1 DEF ActiveFor, ActiveEntries, WellFormed, OneActivePerDevice
<1>3. e.key \in Nat
  BY <1>1 DEF ActiveFor, ActiveEntries, DeviceKey
<1>4. \A f \in ActiveFor(entries, d) : e.key <= f.key
  BY <1>2, <1>3
<1>5. ForDevice(entries, d) \in ActiveFor(entries, d)
  BY <1>1, <1>4 DEF ForDevice, Oldest
<1> QED
  BY <1>5 DEF ActiveFor, ActiveEntries

\* add keeps a list well formed when the device has no active key and the
\* key is new.
LEMMA WithAddedWellFormed ==
    ASSUME NEW entries, entries \subseteq DeviceKey, WellFormed(entries),
           NEW d \in Devices, ~HasActive(entries, d),
           NEW n \in Nat, \A e \in entries : e.key <= n
    PROVE  /\ WithAdded(entries, d, n + 1) \subseteq DeviceKey
           /\ WellFormed(WithAdded(entries, d, n + 1))
           /\ \A e \in WithAdded(entries, d, n + 1) : e.key <= n + 1
<1> DEFINE new == [device |-> d, key |-> n + 1, active |-> TRUE]
<1>1. new \in DeviceKey
  BY DEF DeviceKey
<1>2. \A e \in entries : e.key \in Nat /\ e.key # n + 1 /\ e.key <= n + 1
  BY DEF DeviceKey
<1>3. \A e \in entries : e.active => e.device # d
  BY DEF HasActive, ActiveFor, ActiveEntries
<1>4. /\ WithAdded(entries, d, n + 1) = entries \cup {new}
      /\ new.key = n + 1 /\ new.device = d
  BY DEF WithAdded
<1> HIDE DEF new
<1>5. KeyIdentifiesEntry(WithAdded(entries, d, n + 1))
  BY <1>2, <1>4 DEF WellFormed, KeyIdentifiesEntry
<1>6. OneActivePerDevice(WithAdded(entries, d, n + 1))
  BY <1>3, <1>4 DEF WellFormed, OneActivePerDevice, ActiveEntries
<1> QED
  BY <1>1, <1>2, <1>4, <1>5, <1>6 DEF WellFormed

\* revoke keeps a list well formed, and forgets no key.
LEMMA WithRevokedWellFormed ==
    ASSUME NEW entries, entries \subseteq DeviceKey, WellFormed(entries),
           NEW d, HasActive(entries, d)
    PROVE  /\ WithRevoked(entries, d) \subseteq DeviceKey
           /\ WellFormed(WithRevoked(entries, d))
           /\ \A e \in WithRevoked(entries, d) : \E f \in entries : e.key = f.key
           /\ \A f \in entries : ~f.active => f \in WithRevoked(entries, d)
<1> DEFINE e == ForDevice(entries, d)
           old == [e EXCEPT !.active = FALSE]
<1>1. e \in entries /\ e.active /\ e \in DeviceKey
  BY ForDeviceIsActive
<1>2. old \in DeviceKey /\ old.key = e.key /\ ~old.active
  BY <1>1 DEF DeviceKey
<1>3. WithRevoked(entries, d) = (entries \ {e}) \cup {old}
  BY DEF WithRevoked
<1> HIDE DEF e, old
<1>4. KeyIdentifiesEntry(WithRevoked(entries, d))
  BY <1>1, <1>2, <1>3 DEF WellFormed, KeyIdentifiesEntry
<1>5. OneActivePerDevice(WithRevoked(entries, d))
  BY <1>2, <1>3 DEF WellFormed, OneActivePerDevice, ActiveEntries
<1> QED
  BY <1>1, <1>2, <1>3, <1>4, <1>5 DEF WellFormed

-----------------------------------------------------------------------------
(* Every interleaving: types and attribution.                              *)

\* A list that only holds keys generated so far
GoodList(list, n) ==
    /\ list \subseteq DeviceKey /\ IsFiniteSet(list)
    /\ WellFormed(list)
    /\ \A e \in list : e.key <= n

\* AttributionSound is inductive once no list holds a key that has not been
\* generated: the next key is then new to every one of them.
BrokerInv ==
    /\ TypeOK
    /\ GoodList(store.entries, issued)
    /\ \A p \in Procs : GoodList(proc[p].mem, issued) /\ GoodList(proc[p].outer, issued)

LEMMA EmptyIsGood == \A n \in Nat : GoodList({}, n)
BY FS_EmptySet DEF GoodList, WellFormed, OneActivePerDevice, KeyIdentifiesEntry, ActiveEntries

LEMMA IdleIsProcess == Idle \in Process /\ Idle.mem = {} /\ Idle.outer = {} /\ Idle.pc = "idle"
BY DEF Idle, Process, PC, Commands, NoDevice

LEMMA GoodListGrows ==
    ASSUME NEW list, NEW n \in Nat, GoodList(list, n)
    PROVE  GoodList(list, n + 1)
BY DEF GoodList, DeviceKey

LEMMA BrokerInvInit == Init => BrokerInv
<1> SUFFICES ASSUME Init PROVE BrokerInv
  OBVIOUS
<1>1. TypeOK
  BY IdleIsProcess DEF Init, TypeOK
<1> QED
  BY <1>1, EmptyIsGood, IdleIsProcess DEF BrokerInv, Init

LEMMA LoadKeepsBrokerInv ==
    ASSUME BrokerInv, NEW p \in Procs, NEW c \in Commands,
           NEW d \in Devices \cup {NoDevice}, Load(p, c, d)
    PROVE  BrokerInv'
<1>1. FirstMissing(store.entries) \in Nat
  <2>1. IsFiniteSet(ActiveEntries(store.entries))
    BY FS_Subset DEF BrokerInv, GoodList, ActiveEntries
  <2> QED
    BY <2>1, FS_CardinalityType DEF FirstMissing
<1> QED
  BY <1>1, EmptyIsGood DEF Load, BrokerInv, TypeOK, Process, PC, DeviceCommands, Commands

LEMMA IssueKeepsBrokerInv ==
    ASSUME BrokerInv, NEW p \in Procs, NEW d \in Devices, Issue(p, d)
    PROVE  BrokerInv'
<1> DEFINE r == proc[p]
<1>1. r \in Process /\ GoodList(r.mem, issued) /\ issued \in Nat /\ ~HasActive(r.mem, d)
  BY DEF BrokerInv, TypeOK, Issue, IssuesFor, Unissued
<1>2. GoodList(WithAdded(r.mem, d, issued + 1), issued + 1)
  <2>1. IsFiniteSet(WithAdded(r.mem, d, issued + 1))
    BY <1>1, FS_AddElement DEF GoodList, WithAdded
  <2> QED
    BY <1>1, <2>1, WithAddedWellFormed DEF GoodList
<1>3. d \in Nat /\ d + 1 \in Nat
  BY DevicesAssumption
<1>4. proc' \in [Procs -> Process]
  BY <1>1, <1>2, <1>3 DEF BrokerInv, TypeOK, Issue, Process, PC, GoodList
<1>5. TypeOK'
  BY <1>1, <1>4 DEF BrokerInv, TypeOK, Issue
<1>6. GoodList(store'.entries, issued')
  BY <1>1, EmptyIsGood DEF Issue
<1>7. ASSUME NEW q \in Procs
      PROVE  GoodList(proc'[q].mem, issued') /\ GoodList(proc'[q].outer, issued')
  BY <1>1, <1>2, GoodListGrows DEF BrokerInv, TypeOK, Issue, Process
<1> QED
  BY <1>5, <1>6, <1>7 DEF BrokerInv

LEMMA WithdrawKeepsBrokerInv ==
    ASSUME BrokerInv, NEW p \in Procs, Withdraw(p)
    PROVE  BrokerInv'
<1> DEFINE r == proc[p]
           list == WithRevoked(r.mem, r.dev)
<1>1. r \in Process /\ GoodList(r.mem, issued) /\ issued \in Nat
  BY DEF BrokerInv, TypeOK
<1>2. GoodList(list, issued)
  <2>1. IsFiniteSet(r.mem \ {ForDevice(r.mem, r.dev)})
    BY <1>1, FS_Subset DEF GoodList
  <2>3. IsFiniteSet(list)
    BY <2>1, FS_AddElement DEF WithRevoked
  <2>2. \A e \in list : e.key <= issued
    BY <1>1, WithRevokedWellFormed DEF GoodList, Withdraw
  <2> QED
    BY <1>1, <2>2, <2>3, WithRevokedWellFormed DEF GoodList, Withdraw
<1> HIDE DEF list
<1>3. proc' = [proc EXCEPT ![p].mem = list, ![p].pc = "saving"]
  BY DEF Withdraw, list
<1>4. proc' \in [Procs -> Process]
  BY <1>1, <1>2, <1>3 DEF BrokerInv, TypeOK, Process, PC, GoodList
<1>5. TypeOK'
  BY <1>4 DEF BrokerInv, TypeOK, Withdraw
<1>6. GoodList(store'.entries, issued')
  BY <1>1, EmptyIsGood DEF Withdraw
<1>7. ASSUME NEW q \in Procs
      PROVE  GoodList(proc'[q].mem, issued') /\ GoodList(proc'[q].outer, issued')
  BY <1>1, <1>2, <1>3 DEF BrokerInv, TypeOK, Process, Withdraw
<1> QED
  BY <1>5, <1>6, <1>7 DEF BrokerInv

LEMMA SaveKeepsBrokerInv ==
    ASSUME BrokerInv, NEW p \in Procs, Save(p)
    PROVE  BrokerInv'
<1>1. proc[p] \in Process /\ GoodList(proc[p].mem, issued)
  BY DEF BrokerInv, TypeOK
<1>2. AfterSave(proc[p]) \in PC
  BY DEF AfterSave, PC
<1>3. proc' \in [Procs -> Process]
  BY <1>1, <1>2 DEF BrokerInv, TypeOK, Save, Process
<1>4. TypeOK'
  BY <1>1, <1>3 DEF BrokerInv, TypeOK, Save, GoodList, DeviceKey
<1>5. \A q \in Procs : proc'[q].mem = proc[q].mem /\ proc'[q].outer = proc[q].outer
  BY <1>1 DEF BrokerInv, TypeOK, Save, Process
<1> QED
  BY <1>1, <1>4, <1>5 DEF BrokerInv, Save

\* What the other steps of a command do to the state, as far as this goes
LEMMA OtherStepsKeepBrokerInv ==
    ASSUME BrokerInv, NEW p \in Procs,
           \/ ReuseKey(p) \/ Refuse(p) \/ EnterUp(p) \/ Preflight(p) \/ SkipUp(p)
           \/ WriteScripts(p) \/ OpenPlan(p) \/ WritePlan(p) \/ LoadPlan(p)
           \/ OpenKeyFile(p) \/ WriteKeyFile(p)
           \/ Exit(p) \/ Kill(p)
    PROVE  BrokerInv'
<1> USE DEF BrokerInv, TypeOK
<1>1. /\ proc \in [Procs -> Process] /\ proc[p] \in Process
      /\ UNCHANGED <<store, issued, revoked, server>>
  BY DEF ReuseKey, Refuse, EnterUp, Preflight, SkipUp, WriteScripts,
         OpenPlan, WritePlan, LoadPlan,
         OpenKeyFile, WriteKeyFile, Exit, Kill
<1>2. keyfile' \in [exists : BOOLEAN, keys : SUBSET Nat]
  <2>1. AllowList(proc[p].mem) \subseteq Nat
    BY <1>1 DEF AllowList, ActiveEntries, Process, DeviceKey
  <2>2. CASE OpenKeyFile(p)
    <3>1. keyfile' \in {keyfile, [exists |-> TRUE, keys |-> {}]}
      BY <2>2 DEF OpenKeyFile
    <3>2. [exists |-> TRUE, keys |-> {}] \in [exists : BOOLEAN, keys : SUBSET Nat]
      OBVIOUS
    <3>3. keyfile \in [exists : BOOLEAN, keys : SUBSET Nat]
      OBVIOUS
    <3> HIDE DEF BrokerInv, TypeOK
    <3> QED
      BY <3>1, <3>2, <3>3
  <2>3. CASE WriteKeyFile(p)
    BY <2>1, <2>3 DEF WriteKeyFile
  <2> QED
    BY <2>2, <2>3 DEF ReuseKey, Refuse, EnterUp, Preflight, SkipUp, WriteScripts,
         OpenPlan, WritePlan, LoadPlan, Exit, Kill
<1>3. deployed' \in {"none", "scripts", "torn", "plan"}
  BY DEF ReuseKey, Refuse, EnterUp, Preflight, SkipUp, WriteScripts,
         OpenPlan, WritePlan, LoadPlan,
         OpenKeyFile, WriteKeyFile, Exit, Kill
<1>4. PICK r \in Process :
         /\ proc' = [proc EXCEPT ![p] = r]
         /\ r.mem \in {{}, proc[p].mem, proc[p].outer, store.entries}
         /\ r.outer \in {{}, proc[p].mem, proc[p].outer}
  <2>1. CASE ReuseKey(p) \/ Preflight(p) \/ SkipUp(p) \/ WriteScripts(p)
               \/ OpenPlan(p) \/ LoadPlan(p) \/ OpenKeyFile(p) \/ WriteKeyFile(p)
    <3>1. PICK l \in PC : proc' = [proc EXCEPT ![p].pc = l]
      BY <2>1 DEF ReuseKey, Preflight, SkipUp, WriteScripts, OpenPlan, LoadPlan,
             OpenKeyFile, WriteKeyFile, PC
    <3>2. [proc[p] EXCEPT !.pc = l] \in Process
      BY <1>1 DEF Process
    <3> QED
      BY <1>1, <3>1, <3>2 DEF Process
  <2>2. CASE Refuse(p) \/ Exit(p) \/ Kill(p)
    BY <2>2, IdleIsProcess DEF Refuse, Exit, Kill
  <2>3. CASE EnterUp(p)
    <3>1. CASE store.torn
      BY <2>3, <3>1, IdleIsProcess DEF EnterUp
    <3>2. CASE ~store.torn
      <4> DEFINE r == [proc[p] EXCEPT !.outer = proc[p].mem, !.mem = store.entries,
                                      !.inUp = TRUE]
      <4>1. r \in Process /\ r.mem = store.entries /\ r.outer = proc[p].mem
        BY <1>1 DEF Process
      <4>2. proc' = [proc EXCEPT ![p] = r]
        BY <2>3, <3>2 DEF EnterUp
      <4> QED
        BY <4>1, <4>2
    <3> QED
      BY <3>1, <3>2
  <2>4. CASE WritePlan(p)
    <3>1. CASE proc[p].inUp
      <4> DEFINE r == [proc[p] EXCEPT !.pc = "loadplan", !.inUp = FALSE, !.todoUp = FALSE,
                                      !.mem = proc[p].outer, !.outer = {}]
      <4>1. r \in Process /\ r.mem = proc[p].outer /\ r.outer = {}
        BY <1>1 DEF Process, PC
      <4>2. proc' = [proc EXCEPT ![p] = r]
        BY <2>4, <3>1 DEF WritePlan
      <4> QED
        BY <4>1, <4>2
    <3>2. CASE ~proc[p].inUp
      <4> DEFINE r == [proc[p] EXCEPT !.pc = "exited"]
      <4>1. r \in Process /\ r.mem = proc[p].mem /\ r.outer = proc[p].outer
        BY <1>1 DEF Process, PC
      <4>2. proc' = [proc EXCEPT ![p] = r]
        BY <2>4, <3>2 DEF WritePlan
      <4> QED
        BY <4>1, <4>2
    <3> QED
      BY <3>1, <3>2
  <2> QED
    BY <2>1, <2>2, <2>3, <2>4
<1>5. \A q \in Procs : GoodList(proc'[q].mem, issued') /\ GoodList(proc'[q].outer, issued')
  BY <1>1, <1>4, EmptyIsGood
<1> QED
  BY <1>1, <1>2, <1>3, <1>4, <1>5

LEMMA NextKeepsBrokerInv == BrokerInv /\ [Next]_vars => BrokerInv'
<1> SUFFICES ASSUME BrokerInv, [Next]_vars PROVE BrokerInv'
  OBVIOUS
<1>1. CASE UNCHANGED vars
  BY <1>1 DEF vars, BrokerInv, TypeOK
<1>2. CASE ServerStart \/ ServerStop
  <2>1. server' \in [up : BOOLEAN, accepted : SUBSET Nat]
    <3>1. keyfile.keys \in SUBSET Nat
      BY DEF BrokerInv, TypeOK
    <3>2. CASE ServerStart
      BY <3>1, <3>2 DEF ServerStart
    <3>3. CASE ServerStop
      BY <3>3 DEF ServerStop
    <3> QED
      BY <1>2, <3>2, <3>3
  <2>2. UNCHANGED <<proc, store, keyfile, deployed, issued, revoked>>
    BY <1>2 DEF ServerStart, ServerStop
  <2> QED
    BY <2>1, <2>2 DEF BrokerInv, TypeOK
<1>3. ASSUME NEW p \in Procs, NEW c \in Commands, NEW d \in Devices \cup {NoDevice},
             Load(p, c, d)
      PROVE  BrokerInv'
  BY <1>3, LoadKeepsBrokerInv
<1>4. ASSUME NEW p \in Procs, Step(p) \/ Kill(p) PROVE BrokerInv'
  BY <1>4, IssueKeepsBrokerInv, WithdrawKeepsBrokerInv, SaveKeepsBrokerInv,
     OtherStepsKeepBrokerInv DEF Step
<1> QED
  BY <1>1, <1>2, <1>3, <1>4 DEF Next

LEMMA BrokerInvHolds == Spec => []BrokerInv
BY BrokerInvInit, NextKeepsBrokerInv, PTL DEF Spec

\* Every variable keeps its type: in particular a list in memory or on disk
\* only ever holds entries of devices that exist.
THEOREM BrokerTypes == Spec => []TypeOK
BY BrokerInvHolds, PTL DEF BrokerInv

\* Whatever commands run at the same time and wherever they are killed, no
\* device has two active keys and no key belongs to two entries, in keys.json
\* and in every list a command may still save.
THEOREM Attribution == Spec => []AttributionSound
<1>1. BrokerInv => AttributionSound
  BY DEF BrokerInv, GoodList, AttributionSound
<1> QED
  BY <1>1, BrokerInvHolds, PTL

-----------------------------------------------------------------------------
(* Every interleaving: the key file is there before the service.           *)

\* A process that has opened the key file has made it exist
KeyFileInv ==
    /\ ServiceHasKeyFile
    /\ \A p \in Procs : proc[p].pc \in {"writing", "scripts", "plan", "planning"} => keyfile.exists

LEMMA NextKeepsKeyFileInv == BrokerInv /\ KeyFileInv /\ [Next]_vars => KeyFileInv'
<1> SUFFICES ASSUME BrokerInv, KeyFileInv, [Next]_vars PROVE KeyFileInv'
  OBVIOUS
<1> USE DEF KeyFileInv, ServiceHasKeyFile
<1>0. proc \in [Procs -> Process]
  BY DEF BrokerInv, TypeOK
<1>1. CASE UNCHANGED vars
  BY <1>1 DEF vars
<1>2. CASE ServerStart \/ ServerStop
  BY <1>2 DEF ServerStart, ServerStop
<1>3. ASSUME NEW p \in Procs, NEW c \in Commands, NEW d \in Devices \cup {NoDevice},
             Load(p, c, d)
      PROVE  KeyFileInv'
  BY <1>0, <1>3 DEF Load
<1>4. ASSUME NEW p \in Procs, Step(p) \/ Kill(p) PROVE KeyFileInv'
  <2> USE <1>0
  <2>1. CASE OpenKeyFile(p)
    <3>1. CASE MayOpen(proc[p])
      BY <2>1, <3>1 DEF OpenKeyFile
    <3>2. CASE ~MayOpen(proc[p])
      BY <2>1, <3>2 DEF OpenKeyFile, Process
    <3> QED
      BY <3>1, <3>2
  <2>2. CASE WriteKeyFile(p)
    BY <2>2 DEF WriteKeyFile
  <2>3. CASE WriteScripts(p)
    BY <2>3 DEF WriteScripts
  <2>4. CASE OpenPlan(p) \/ WritePlan(p)
    <3>1. keyfile.exists /\ UNCHANGED keyfile
      BY <2>4 DEF OpenPlan, WritePlan
    <3> QED
      BY <3>1
  <2>5. ASSUME NEW d \in Devices, Issue(p, d) PROVE KeyFileInv'
    BY <2>5 DEF Issue
  <2>6. CASE Withdraw(p) \/ ReuseKey(p) \/ Preflight(p) \/ SkipUp(p) \/ LoadPlan(p)
    BY <2>6 DEF Withdraw, ReuseKey, Preflight, SkipUp, LoadPlan, Process
  <2>7. CASE Save(p)
    BY <2>7 DEF Save, AfterSave
  <2>8. CASE Refuse(p) \/ Exit(p) \/ Kill(p)
    BY <2>8, IdleIsProcess DEF Refuse, Exit, Kill
  <2>9. CASE EnterUp(p)
    <3>1. \A q \in Procs : proc'[q].pc \in {proc[q].pc, "idle"}
      <4>1. [proc[p] EXCEPT !.outer = proc[p].mem, !.mem = store.entries,
                            !.inUp = TRUE].pc = proc[p].pc
        BY DEF Process
      <4> QED
        BY <2>9, <4>1, IdleIsProcess DEF EnterUp
    <3> QED
      BY <2>9, <3>1 DEF EnterUp
  <2> QED
    BY <1>4, <2>1, <2>2, <2>3, <2>4, <2>5, <2>6, <2>7, <2>8, <2>9 DEF Step
<1> QED
  BY <1>1, <1>2, <1>3, <1>4 DEF Next

\* No interleaving of commands, and no kill, leaves service scripts on disk
\* without the key file llama-server must be able to open when it starts.
THEOREM KeyFileBeforeService == Spec => []ServiceHasKeyFile
<1>1. Init => KeyFileInv
  BY IdleIsProcess DEF Init, KeyFileInv, ServiceHasKeyFile
<1>2. KeyFileInv => ServiceHasKeyFile
  BY DEF KeyFileInv
<1> QED
  BY <1>1, <1>2, BrokerInvHolds, NextKeepsKeyFileInv, PTL DEF Spec

-----------------------------------------------------------------------------
(* Commands that run one at a time.                                        *)

\* What a command that runs alone can count on, as it goes: the list in
\* memory is the one on disk except while it is being saved, the file is
\* written from that list, and a printed key is in it.
Alone(r, st, kf, withdrawn) ==
    /\ r.inUp => r.cmd = "setup" /\ r.pc # "saving"
    /\ r.pc = "saving" => \A k \in withdrawn : \E e \in r.mem : e.key = k /\ ~e.active
    /\ r.pc \notin {"idle", "saving"} =>
          /\ ~st.torn /\ r.mem = st.entries
          /\ r.inUp => r.outer = st.entries
    /\ r.pc \in {"scripts", "plan", "planning"} => RunsUp(r)
    /\ (r.pc \in {"scripts", "plan", "planning"} \/ (r.pc = "exited" /\ r.cmd # "add" /\ kf.exists))
          => kf.keys = AllowList(st.entries)
    /\ r.pc \in {"loadplan", "noted"} => r.cmd = "setup" /\ ~r.inUp
    /\ \/ r.cmd = "invite" /\ r.pc = "saving"
       \/ r.cmd \in {"invite", "rotate"} /\ r.pc \in {"allowlist", "writing", "exited"}
       => HasActive(r.mem, r.dev)

\* ExitMeansSynced, RevokedStays and InvitesWork are not inductive: they say
\* nothing of a command that has not ended.
AloneInv ==
    /\ \A p, q \in Procs : proc[p].pc # "idle" /\ proc[q].pc # "idle" => p = q
    /\ RevokedStays
    /\ \A p \in Procs : Alone(proc[p], store, keyfile, revoked)

LEMMA IdleIsAlone == \A st, kf, w : Alone(Idle, st, kf, w)
BY DEF Alone, Idle

\* When p is the one command that runs, a step of p only has to look after p.
LEMMA OnlyOneRuns ==
    ASSUME BrokerInv, AloneInv, NEW p \in Procs, proc[p].pc # "idle",
           NEW r \in Process, proc' = [proc EXCEPT ![p] = r],
           Alone(r, store', keyfile', revoked'), RevokedStays'
    PROVE  AloneInv'
<1>1. proc \in [Procs -> Process]
  BY DEF BrokerInv, TypeOK
<1>2. \A q \in Procs : q # p => proc'[q] = proc[q] /\ proc[q].pc = "idle"
  BY <1>1 DEF AloneInv
<1>3. proc'[p] = r
  BY <1>1
<1>4. \A q \in Procs : Alone(proc'[q], store', keyfile', revoked')
  <2> TAKE q \in Procs
  <2>1. CASE q = p
    BY <1>3, <2>1
  <2>2. CASE q # p
    <3>1. Alone(proc[q], store, keyfile, revoked)
      BY DEF AloneInv
    <3> QED
      BY <1>2, <2>2, <3>1 DEF Alone
  <2> QED
    BY <2>1, <2>2
<1>5. \A q, s \in Procs : proc'[q].pc # "idle" /\ proc'[s].pc # "idle" => q = s
  BY <1>2
<1> QED
  BY <1>4, <1>5 DEF AloneInv

LEMMA LoadKeepsAloneInv ==
    ASSUME Exclusive, BrokerInv, AloneInv, NEW p \in Procs, NEW c \in Commands,
           NEW d \in Devices \cup {NoDevice}, Load(p, c, d)
    PROVE  AloneInv'
<1>1. proc \in [Procs -> Process]
  BY DEF BrokerInv, TypeOK
<1>2. \A q \in Procs : proc[q].pc = "idle"
  BY DEF Load, Quiet
<1>3. /\ UNCHANGED <<store, keyfile, revoked>> /\ ~store.torn
      /\ proc'[p].pc \in {"loaded", "allowlist"} /\ proc'[p].mem = store.entries
      /\ ~proc'[p].inUp /\ proc'[p].cmd = c
      /\ proc'[p].pc = "allowlist" => c = "export"
      /\ \A q \in Procs : q # p => proc'[q] = proc[q]
  BY <1>1 DEF Load
<1>4. Alone(proc'[p], store', keyfile', revoked')
  BY <1>3 DEF Alone
<1>5. \A q \in Procs : Alone(proc'[q], store', keyfile', revoked')
  BY <1>3, <1>4 DEF AloneInv
<1>6. RevokedStays'
  BY <1>3 DEF AloneInv, RevokedStays
<1> QED
  BY <1>2, <1>3, <1>5, <1>6 DEF AloneInv

LEMMA IssueKeepsAloneInv ==
    ASSUME BrokerInv, AloneInv, NEW p \in Procs, NEW d \in Devices, Issue(p, d)
    PROVE  AloneInv'
<1> DEFINE r == proc'[p]
<1>1. proc[p] \in Process /\ Alone(proc[p], store, keyfile, revoked)
  BY DEF BrokerInv, TypeOK, AloneInv
<1>2. /\ r.mem = WithAdded(proc[p].mem, d, issued + 1) /\ r.pc = "saving"
      /\ r.cmd = proc[p].cmd /\ r.dev = proc[p].dev /\ ~r.inUp
      /\ proc' = [proc EXCEPT ![p] = r]
  BY <1>1 DEF Issue, Process, BrokerInv, TypeOK
<1>3. r \in Process
  BY IssueKeepsBrokerInv DEF BrokerInv, TypeOK
<1>4. ~store.torn /\ proc[p].mem = store.entries /\ UNCHANGED <<revoked, keyfile>>
  BY <1>1 DEF Alone, Issue
<1>5. \A k \in revoked : \E e \in r.mem : e.key = k /\ ~e.active
  BY <1>2, <1>4 DEF AloneInv, RevokedStays, WithAdded
<1>6. r.cmd = "invite" => HasActive(r.mem, r.dev)
  <2>1. r.cmd = "invite" => d = r.dev
    BY <1>2 DEF Issue, IssuesFor
  <2>2. HasActive(r.mem, d)
    <3> DEFINE new == [device |-> d, key |-> issued + 1, active |-> TRUE]
    <3>1. new \in r.mem /\ new.active /\ new.device = d
      BY <1>2 DEF WithAdded
    <3> HIDE DEF new
    <3> QED
      BY <3>1 DEF HasActive, ActiveFor, ActiveEntries
  <2> QED
    BY <2>1, <2>2
<1>7. Alone(r, store', keyfile', revoked')
  BY <1>2, <1>4, <1>5, <1>6 DEF Alone
<1>8. RevokedStays'
  BY DEF Issue, RevokedStays
<1> QED
  BY <1>2, <1>3, <1>7, <1>8, OnlyOneRuns DEF Issue

LEMMA WithdrawKeepsAloneInv ==
    ASSUME BrokerInv, AloneInv, NEW p \in Procs, Withdraw(p)
    PROVE  AloneInv'
<1> DEFINE r == proc'[p]
<1>1. proc[p] \in Process /\ Alone(proc[p], store, keyfile, revoked)
      /\ GoodList(proc[p].mem, issued)
  BY DEF BrokerInv, TypeOK, AloneInv
<1>2. /\ r.mem = WithRevoked(proc[p].mem, proc[p].dev) /\ r.pc = "saving"
      /\ r.cmd = proc[p].cmd /\ r.dev = proc[p].dev /\ r.inUp = proc[p].inUp
      /\ r.cmd \in {"revoke", "rotate"}
      /\ proc' = [proc EXCEPT ![p] = r]
  BY <1>1 DEF Withdraw, Process, BrokerInv, TypeOK
<1>3. r \in Process
  BY WithdrawKeepsBrokerInv DEF BrokerInv, TypeOK
<1>4. /\ ~store.torn /\ proc[p].mem = store.entries /\ UNCHANGED <<revoked, keyfile>>
      /\ ~proc[p].inUp
  BY <1>1 DEF Alone, Withdraw
<1>5. \A k \in revoked : \E e \in r.mem : e.key = k /\ ~e.active
  <2>1. \A e \in proc[p].mem : ~e.active => e \in r.mem
    BY <1>1, <1>2, WithRevokedWellFormed DEF GoodList, Withdraw
  <2> QED
    BY <1>4, <2>1 DEF AloneInv, RevokedStays
<1>6. Alone(r, store', keyfile', revoked')
  BY <1>2, <1>4, <1>5 DEF Alone
<1>7. RevokedStays'
  BY DEF Withdraw, RevokedStays
<1> QED
  BY <1>2, <1>3, <1>6, <1>7, OnlyOneRuns DEF Withdraw

LEMMA SaveKeepsAloneInv ==
    ASSUME BrokerInv, AloneInv, NEW p \in Procs, Save(p)
    PROVE  AloneInv'
<1> DEFINE r == proc'[p]
<1>1. proc[p] \in Process /\ Alone(proc[p], store, keyfile, revoked)
  BY DEF BrokerInv, TypeOK, AloneInv
<1>2. /\ r.mem = proc[p].mem /\ r.pc = AfterSave(proc[p])
      /\ r.cmd = proc[p].cmd /\ r.dev = proc[p].dev /\ r.inUp = proc[p].inUp
      /\ proc' = [proc EXCEPT ![p] = r]
      /\ store' = [torn |-> FALSE, entries |-> r.mem] /\ UNCHANGED keyfile
      /\ proc[p].pc = "saving"
  BY <1>1 DEF Save, Process, BrokerInv, TypeOK
<1>3. r \in Process
  BY SaveKeepsBrokerInv DEF BrokerInv, TypeOK
<1>4. ~r.inUp /\ \A k \in revoked : \E e \in r.mem : e.key = k /\ ~e.active
  BY <1>1, <1>2 DEF Alone
<1>5. /\ r.pc \in {"loaded", "allowlist", "exited"}
      /\ r.pc = "exited" => r.cmd = "add"
      /\ r.pc = "allowlist" /\ r.cmd = "rotate" => HasActive(r.mem, r.dev)
  BY <1>2 DEF AfterSave
<1>6. r.cmd = "invite" => HasActive(r.mem, r.dev)
  BY <1>1, <1>2 DEF Alone
<1>7. Alone(r, store', keyfile', revoked')
  BY <1>2, <1>4, <1>5, <1>6 DEF Alone
<1>8. RevokedStays'
  <2>1. revoked' = revoked \cup {e.key : e \in {e \in r.mem : ~e.active}}
    BY <1>2 DEF Save
  <2> QED
    BY <1>2, <1>4, <2>1 DEF RevokedStays
<1> QED
  BY <1>2, <1>3, <1>7, <1>8, OnlyOneRuns

\* The other steps leave the store alone, and no process is left saving.
LEMMA OtherStepsKeepAloneInv ==
    ASSUME BrokerInv, AloneInv, NEW p \in Procs,
           \/ ReuseKey(p) \/ Refuse(p) \/ EnterUp(p) \/ Preflight(p) \/ SkipUp(p)
           \/ WriteScripts(p) \/ OpenPlan(p) \/ WritePlan(p) \/ LoadPlan(p)
           \/ OpenKeyFile(p) \/ WriteKeyFile(p)
           \/ Exit(p) \/ Kill(p)
    PROVE  AloneInv'
<1> DEFINE r == proc'[p]
<1>1. proc[p] \in Process /\ Alone(proc[p], store, keyfile, revoked)
  BY DEF BrokerInv, TypeOK, AloneInv
<1>2. UNCHANGED <<store, revoked>> /\ proc[p].pc # "idle"
  BY DEF ReuseKey, Refuse, EnterUp, Preflight, SkipUp, WriteScripts,
         OpenPlan, WritePlan, LoadPlan,
         OpenKeyFile, WriteKeyFile, Exit, Kill
<1>3. RevokedStays'
  BY <1>2 DEF AloneInv, RevokedStays
<1>4. r \in Process
  BY OtherStepsKeepBrokerInv DEF BrokerInv, TypeOK
<1>5. proc \in [Procs -> Process]
  BY DEF BrokerInv, TypeOK
<1>6. proc' = [proc EXCEPT ![p] = r]
  BY <1>5 DEF ReuseKey, Refuse, EnterUp, Preflight, SkipUp, WriteScripts,
         OpenPlan, WritePlan, LoadPlan,
         OpenKeyFile, WriteKeyFile, Exit, Kill
<1> SUFFICES Alone(r, store', keyfile', revoked')
  BY <1>2, <1>3, <1>4, <1>6, OnlyOneRuns
<1>7. CASE Refuse(p) \/ Exit(p) \/ Kill(p)
  BY <1>5, <1>7, IdleIsAlone DEF Refuse, Exit, Kill
<1>8. CASE EnterUp(p)
  <2>1. ~store.torn /\ proc[p].mem = store.entries /\ UNCHANGED keyfile
    BY <1>1, <1>8 DEF EnterUp, Alone
  <2>2. r = [proc[p] EXCEPT !.outer = proc[p].mem, !.mem = store.entries, !.inUp = TRUE]
    BY <1>5, <1>8, <2>1 DEF EnterUp
  <2>3. /\ r.pc = "loaded" /\ r.cmd = "setup" /\ r.mem = store.entries
        /\ r.outer = store.entries
    <3>1. proc[p].pc = "loaded" /\ proc[p].cmd = "setup"
      BY <1>8 DEF EnterUp
    <3> HIDE DEF r
    <3> QED
      BY <1>1, <2>1, <2>2, <3>1 DEF Process
  <2> QED
    BY <1>2, <2>1, <2>3 DEF Alone
<1>9. CASE ReuseKey(p) \/ Preflight(p)
  <2>1. /\ r.pc = "allowlist" /\ r.mem = proc[p].mem /\ r.outer = proc[p].outer
        /\ r.cmd = proc[p].cmd /\ r.dev = proc[p].dev /\ r.inUp = proc[p].inUp
        /\ UNCHANGED keyfile /\ proc[p].pc = "loaded"
    BY <1>1, <1>5, <1>9 DEF ReuseKey, Preflight, Process
  <2>2. r.cmd \in {"invite", "rotate"} => HasActive(r.mem, r.dev)
    BY <1>1, <1>9, <2>1 DEF ReuseKey, Preflight, RunsUp, Alone
  <2> QED
    BY <1>1, <1>2, <2>1, <2>2 DEF Alone
<1>14. CASE SkipUp(p) \/ LoadPlan(p)
  <2>1. /\ r.pc \in {"loadplan", "allowlist", "noted"}
        /\ r.mem = proc[p].mem /\ r.outer = proc[p].outer
        /\ r.cmd = proc[p].cmd /\ r.dev = proc[p].dev /\ r.inUp = proc[p].inUp
        /\ UNCHANGED keyfile /\ proc[p].pc \in {"loaded", "loadplan"}
    BY <1>1, <1>5, <1>14 DEF SkipUp, LoadPlan, Process
  <2>2. r.cmd = "setup" /\ ~r.inUp
    BY <1>1, <1>14, <2>1 DEF SkipUp, LoadPlan, Alone
  <2> QED
    BY <1>1, <1>2, <2>1, <2>2 DEF Alone
<1>10. CASE OpenKeyFile(p)
  <2>1. /\ r.mem = proc[p].mem /\ r.outer = proc[p].outer
        /\ r.cmd = proc[p].cmd /\ r.dev = proc[p].dev /\ r.inUp = proc[p].inUp
        /\ proc[p].pc = "allowlist"
    BY <1>1, <1>5, <1>10 DEF OpenKeyFile, Process
  <2>2. r.pc = "writing" \/ (r.pc = "exited" /\ ~keyfile'.exists)
    <3>1. CASE MayOpen(proc[p])
      BY <1>1, <1>5, <1>10, <3>1 DEF OpenKeyFile, Process
    <3>2. CASE ~MayOpen(proc[p])
      <4>1. ~keyfile.exists
        BY <3>2 DEF MayOpen
      <4>2. UNCHANGED keyfile /\ proc' = [proc EXCEPT ![p].pc = "exited"]
        BY <1>10, <3>2 DEF OpenKeyFile
      <4> QED
        BY <1>1, <1>5, <4>1, <4>2 DEF Process
    <3> QED
      BY <3>1, <3>2
  <2> QED
    BY <1>1, <1>2, <2>1, <2>2 DEF Alone
<1>11. CASE WriteKeyFile(p)
  <2>1. /\ r.mem = proc[p].mem /\ r.outer = proc[p].outer
        /\ r.cmd = proc[p].cmd /\ r.dev = proc[p].dev /\ r.inUp = proc[p].inUp
        /\ proc[p].pc = "writing"
        /\ r.pc = "exited" \/ (r.pc = "scripts" /\ RunsUp(r))
        /\ keyfile'.keys = AllowList(proc[p].mem)
    BY <1>1, <1>5, <1>11 DEF WriteKeyFile, Process, RunsUp
  <2> QED
    BY <1>1, <1>2, <2>1 DEF Alone
<1>12. CASE WriteScripts(p) \/ OpenPlan(p)
  <2>1. /\ r.mem = proc[p].mem /\ r.outer = proc[p].outer
        /\ r.cmd = proc[p].cmd /\ r.dev = proc[p].dev /\ r.inUp = proc[p].inUp
        /\ proc[p].pc \in {"scripts", "plan"} /\ r.pc \in {"plan", "planning"}
        /\ UNCHANGED keyfile
    BY <1>1, <1>5, <1>12 DEF WriteScripts, OpenPlan, Process
  <2> QED
    BY <1>1, <1>2, <2>1 DEF Alone, RunsUp
<1>13. CASE WritePlan(p)
  <2>1. proc[p].pc = "planning" /\ UNCHANGED keyfile
    BY <1>13 DEF WritePlan
  <2>2. CASE proc[p].inUp
    <3>1. /\ r.mem = proc[p].outer /\ r.pc = "loadplan" /\ r.cmd = proc[p].cmd /\ ~r.inUp
      BY <1>1, <1>5, <1>13, <2>2 DEF WritePlan, Process
    <3> QED
      BY <1>1, <1>2, <2>1, <2>2, <3>1 DEF Alone
  <2>3. CASE ~proc[p].inUp
    <3>1. /\ r.mem = proc[p].mem /\ r.pc = "exited" /\ r.cmd = proc[p].cmd /\ ~r.inUp
      BY <1>1, <1>5, <1>13, <2>3 DEF WritePlan, Process
    <3>2. r.cmd = "up"
      BY <1>1, <2>1, <2>3, <3>1 DEF Alone, RunsUp
    <3> QED
      BY <1>1, <1>2, <2>1, <2>3, <3>1, <3>2 DEF Alone
  <2> QED
    BY <2>2, <2>3
<1> QED
  BY <1>7, <1>8, <1>9, <1>10, <1>11, <1>12, <1>13, <1>14

LEMMA NextKeepsAloneInv == Exclusive /\ BrokerInv /\ AloneInv /\ [Next]_vars => AloneInv'
<1> SUFFICES ASSUME Exclusive, BrokerInv, AloneInv, [Next]_vars PROVE AloneInv'
  OBVIOUS
<1>1. CASE UNCHANGED vars
  BY <1>1 DEF vars, AloneInv, RevokedStays
<1>2. CASE ServerStart \/ ServerStop
  BY <1>2 DEF ServerStart, ServerStop, AloneInv, RevokedStays
<1>3. ASSUME NEW p \in Procs, NEW c \in Commands, NEW d \in Devices \cup {NoDevice},
             Load(p, c, d)
      PROVE  AloneInv'
  BY <1>3, LoadKeepsAloneInv
<1>4. ASSUME NEW p \in Procs, Step(p) \/ Kill(p) PROVE AloneInv'
  BY <1>4, IssueKeepsAloneInv, WithdrawKeepsAloneInv, SaveKeepsAloneInv,
     OtherStepsKeepAloneInv DEF Step
<1> QED
  BY <1>1, <1>2, <1>3, <1>4 DEF Next

LEMMA AloneInvHolds == ASSUME Exclusive PROVE Spec => []AloneInv
<1>1. Init => AloneInv
  BY IdleIsProcess, IdleIsAlone DEF Init, AloneInv, RevokedStays
<1>2. BrokerInv /\ AloneInv /\ [Next]_vars => AloneInv'
  BY NextKeepsAloneInv
<1> QED
  BY <1>1, <1>2, BrokerInvHolds, PTL DEF Spec

\* If commands run one at a time, a saved revocation is never lost, whatever
\* is killed: the entry stays in keys.json, and stays revoked.
THEOREM RevocationIsKept == ASSUME Exclusive PROVE Spec => []RevokedStays
<1>1. AloneInv => RevokedStays
  BY DEF AloneInv
<1> QED
  BY <1>1, AloneInvHolds, PTL

\* Setup leaves `up` out only if there is a plan, and a plan stays, torn or
\* whole; it ends with a note only if it found it torn.
SetupFoundPlan(r, found) ==
    /\ r.cmd = "setup" /\ ~r.todoUp => found \in {"torn", "plan"}
    /\ r.pc \in {"loadplan", "noted"} => ~r.todoUp
    /\ r.pc = "noted" => found = "torn"

PlanInv == \A p \in Procs : SetupFoundPlan(proc[p], deployed)

LEMMA IdleFoundPlan == \A found : SetupFoundPlan(Idle, found)
BY DEF SetupFoundPlan, Idle

LEMMA NextKeepsPlanInv == BrokerInv /\ AloneInv /\ PlanInv /\ [Next]_vars => PlanInv'
<1> SUFFICES ASSUME BrokerInv, AloneInv, PlanInv, [Next]_vars PROVE PlanInv'
  OBVIOUS
<1>1. CASE UNCHANGED vars \/ ServerStart \/ ServerStop
  <2>1. UNCHANGED <<proc, deployed>>
    BY <1>1 DEF vars, ServerStart, ServerStop
  <2> QED
    BY <2>1 DEF PlanInv, SetupFoundPlan
<1>2. proc \in [Procs -> Process]
  BY DEF BrokerInv, TypeOK
<1>3. ASSUME NEW p \in Procs, NEW c \in Commands, NEW d \in Devices \cup {NoDevice},
             Load(p, c, d)
      PROVE  PlanInv'
  <2>1. /\ UNCHANGED deployed /\ deployed \in {"none", "scripts", "torn", "plan"}
        /\ proc'[p].pc \in {"loaded", "allowlist"} /\ proc'[p].cmd = c
        /\ c = "setup" /\ ~proc'[p].todoUp => deployed \notin {"none", "scripts"}
        /\ \A q \in Procs : q # p => proc'[q] = proc[q]
    BY <1>2, <1>3 DEF Load, BrokerInv, TypeOK
  <2>2. SetupFoundPlan(proc'[p], deployed')
    BY <2>1 DEF SetupFoundPlan
  <2> QED
    BY <2>1, <2>2 DEF PlanInv
<1>4. ASSUME NEW p \in Procs, Step(p) \/ Kill(p) PROVE PlanInv'
  <2> DEFINE r == proc'[p]
  <2>1. /\ proc[p] \in Process /\ Alone(proc[p], store, keyfile, revoked)
        /\ SetupFoundPlan(proc[p], deployed)
    BY <1>2 DEF AloneInv, PlanInv
  <2>2. proc[p].pc # "idle" /\ \A q \in Procs : q # p => proc'[q] = proc[q]
    BY <1>2, <1>4 DEF Step, Issue, Withdraw, Save, ReuseKey, Refuse, EnterUp, Preflight,
         SkipUp, WriteScripts, OpenPlan, WritePlan, LoadPlan, OpenKeyFile, WriteKeyFile,
         Exit, Kill
  <2>3. \A q \in Procs : q # p => proc[q].pc = "idle"
    BY <2>2 DEF AloneInv
  <2>4. deployed \in {"torn", "plan"} => deployed' \in {"torn", "plan"}
    BY <1>4 DEF Step, Issue, Withdraw, Save, ReuseKey, Refuse, EnterUp, Preflight,
         SkipUp, WriteScripts, OpenPlan, WritePlan, LoadPlan, OpenKeyFile, WriteKeyFile,
         Exit, Kill
  <2>5. SetupFoundPlan(r, deployed')
    <3>1. CASE Refuse(p) \/ Exit(p) \/ Kill(p)
      BY <1>2, <3>1, IdleFoundPlan DEF Refuse, Exit, Kill
    <3>2. CASE EnterUp(p)
      <4>1. /\ ~store.torn /\ UNCHANGED deployed /\ proc[p].pc = "loaded"
        BY <2>1, <3>2 DEF EnterUp, Alone
      <4>2. r = [proc[p] EXCEPT !.outer = proc[p].mem, !.mem = store.entries, !.inUp = TRUE]
        BY <1>2, <3>2, <4>1 DEF EnterUp
      <4>3. r.cmd = proc[p].cmd /\ r.todoUp = proc[p].todoUp /\ r.pc = "loaded"
        <5> HIDE DEF r
        <5> QED
          BY <2>1, <4>1, <4>2 DEF Process
      <4> QED
        BY <2>1, <4>1, <4>3 DEF SetupFoundPlan
    <3>3. CASE WritePlan(p)
      <4>1. /\ deployed' = "plan" /\ r.pc \in {"loadplan", "exited"}
            /\ r.pc = "loadplan" => ~r.todoUp
        BY <1>2, <2>1, <3>3 DEF WritePlan, Process
      <4> QED
        BY <4>1 DEF SetupFoundPlan
    <3>4. CASE LoadPlan(p)
      <4>1. /\ UNCHANGED deployed /\ proc[p].pc = "loadplan"
            /\ r.cmd = proc[p].cmd /\ r.todoUp = proc[p].todoUp
            /\ r.pc \in {"allowlist", "noted"}
            /\ r.pc = "noted" => deployed # "plan"
        BY <1>2, <2>1, <3>4 DEF LoadPlan, Process
      <4>2. proc[p].cmd = "setup"
        BY <2>1, <4>1 DEF Alone
      <4> QED
        BY <2>1, <4>1, <4>2 DEF SetupFoundPlan
    <3>5. CASE SkipUp(p)
      <4>1. r.pc = "loadplan" /\ r.todoUp = proc[p].todoUp /\ ~r.todoUp
            /\ r.cmd = proc[p].cmd
        BY <1>2, <2>1, <3>5 DEF SkipUp, Process
      <4> QED
        BY <2>1, <2>4, <4>1 DEF SetupFoundPlan
    <3>6. CASE \/ \E d \in Devices : Issue(p, d)
               \/ Withdraw(p) \/ Save(p) \/ ReuseKey(p) \/ Preflight(p)
               \/ WriteScripts(p) \/ OpenPlan(p) \/ OpenKeyFile(p) \/ WriteKeyFile(p)
      <4> DEFINE Same == /\ r.todoUp = proc[p].todoUp /\ r.cmd = proc[p].cmd
                         /\ r.pc \notin {"loadplan", "noted"}
      <4>1. Same
        <5>1. CASE Save(p)
          <6>1. AfterSave(proc[p]) \notin {"loadplan", "noted"}
            BY DEF AfterSave
          <6> QED
            BY <1>2, <2>1, <5>1, <6>1 DEF Save, Process
        <5>2. CASE Withdraw(p) \/ ReuseKey(p) \/ Preflight(p) \/ WriteScripts(p) \/ OpenPlan(p)
          BY <1>2, <2>1, <5>2 DEF Withdraw, ReuseKey, Preflight, WriteScripts, OpenPlan, Process
        <5>3. CASE OpenKeyFile(p) \/ WriteKeyFile(p)
          BY <1>2, <2>1, <5>3 DEF OpenKeyFile, WriteKeyFile, Process
        <5>4. ASSUME NEW d \in Devices, Issue(p, d) PROVE Same
          BY <1>2, <2>1, <5>4 DEF Issue, Process
        <5> QED
          BY <3>6, <5>1, <5>2, <5>3, <5>4
      <4> QED
        BY <2>1, <2>4, <4>1 DEF SetupFoundPlan
    <3> QED
      BY <1>4, <3>1, <3>2, <3>3, <3>4, <3>5, <3>6 DEF Step
  <2>6. ASSUME NEW q \in Procs, q # p PROVE SetupFoundPlan(proc'[q], deployed')
    BY <2>2, <2>3, <2>4, <2>6 DEF PlanInv, SetupFoundPlan
  <2> QED
    BY <2>5, <2>6 DEF PlanInv
<1> QED
  BY <1>1, <1>3, <1>4 DEF Next

\* If commands run one at a time, one that returns 0 leaves the key file equal
\* to the active keys of the store, whatever it found there; setup may leave it
\* as it was, but only over a plan that a killed `up` left torn.
THEOREM ExitSynced == ASSUME Exclusive PROVE Spec => []ExitMeansSynced
<1>1. AloneInv /\ PlanInv => ExitMeansSynced
  BY DEF AloneInv, Alone, PlanInv, SetupFoundPlan, ExitMeansSynced
<1>2. Init => PlanInv
  BY IdleFoundPlan DEF Init, PlanInv
<1> QED
  BY <1>1, <1>2, NextKeepsPlanInv, BrokerInvHolds, AloneInvHolds, PTL DEF Spec

\* If commands run one at a time, the key of an invite that was printed is
\* active, and in the key file if there is one.
THEOREM PrintedInvitesWork == ASSUME Exclusive PROVE Spec => []InvitesWork
<1>1. BrokerInv /\ AloneInv => InvitesWork
  <2> SUFFICES ASSUME BrokerInv, AloneInv, NEW p \in Procs, proc[p].pc = "exited"
               PROVE  /\ Tokens(proc[p]) \subseteq AllowList(store.entries)
                      /\ keyfile.exists => Tokens(proc[p]) \subseteq keyfile.keys
    BY DEF InvitesWork
  <2>1. Alone(proc[p], store, keyfile, revoked) /\ GoodList(proc[p].mem, issued)
    BY DEF AloneInv, BrokerInv
  <2>2. proc[p].mem = store.entries
    BY <2>1 DEF Alone
  <2>3. Tokens(proc[p]) \subseteq AllowList(proc[p].mem)
    <3>1. CASE proc[p].cmd \in {"invite", "rotate"}
      <4>1. HasActive(proc[p].mem, proc[p].dev)
        BY <2>1, <3>1 DEF Alone
      <4> QED
        BY <2>1, <3>1, <4>1, ForDeviceIsActive
           DEF Tokens, AllowList, ActiveEntries, GoodList
    <3>2. CASE proc[p].cmd \notin {"invite", "rotate"}
      BY <3>2 DEF Tokens, AllowList, FirstActive, ActiveEntries
    <3> QED
      BY <3>1, <3>2
  <2>4. keyfile.exists /\ proc[p].cmd # "add" => keyfile.keys = AllowList(store.entries)
    BY <2>1 DEF Alone
  <2>5. proc[p].cmd = "add" => Tokens(proc[p]) = {}
    BY DEF Tokens
  <2> QED
    BY <2>2, <2>3, <2>4, <2>5
<1> QED
  BY <1>1, BrokerInvHolds, AloneInvHolds, PTL

-----------------------------------------------------------------------------
(* Commands that run one at a time implement the ledger.                   *)

LedgerNow == IF store.torn THEN UNION {proc[p].mem : p \in Saving} ELSE store.entries
LostNow == store.torn /\ Saving = {}

\* The ledger is in memory only while keys.json is torn.
LedgerInv == \A p \in Procs : proc[p].pc = "saving" => store.torn

\* What the one command that runs finds
LEMMA LedgerFound ==
    ASSUME BrokerInv, AloneInv, LedgerInv, NEW p \in Procs, proc[p].pc # "idle"
    PROVE  /\ LedgerNow = proc[p].mem /\ ~LostNow
           /\ proc[p].pc = "saving" => store.torn
           /\ proc[p].pc # "saving" => ~store.torn /\ store.entries = proc[p].mem
<1>1. Alone(proc[p], store, keyfile, revoked) /\ \A q \in Procs : q # p => proc[q].pc = "idle"
  BY DEF AloneInv
<1>2. CASE proc[p].pc = "saving"
  <2>1. store.torn /\ Saving = {p}
    BY <1>1, <1>2 DEF LedgerInv, Saving
  <2> QED
    BY <1>2, <2>1 DEF LedgerNow, LostNow
<1>3. CASE proc[p].pc # "saving"
  BY <1>1, <1>3 DEF Alone, LedgerNow, LostNow
<1> QED
  BY <1>2, <1>3

\* What it leaves
LEMMA LedgerLeft ==
    ASSUME BrokerInv, AloneInv, NEW p \in Procs, proc[p].pc # "idle",
           NEW r, proc' = [proc EXCEPT ![p] = r]
    PROVE  /\ Saving' = IF r.pc = "saving" THEN {p} ELSE {}
           /\ r.pc = "saving" /\ store'.torn => LedgerNow' = r.mem /\ ~LostNow'
           /\ ~store'.torn => LedgerNow' = store'.entries /\ ~LostNow'
           /\ r.pc # "saving" /\ store'.torn => LedgerNow' = {} /\ LostNow'
           /\ (r.pc = "saving" => store'.torn) => LedgerInv'
<1>1. proc'[p] = r /\ \A q \in Procs : q # p => proc'[q].pc = "idle"
  BY DEF BrokerInv, TypeOK, AloneInv
<1>2. Saving' = IF r.pc = "saving" THEN {p} ELSE {}
  BY <1>1 DEF Saving
<1>3. LedgerNow' = IF store'.torn THEN UNION {proc'[q].mem : q \in Saving'} ELSE store'.entries
  BY DEF LedgerNow
<1>4. LostNow' <=> store'.torn /\ Saving' = {}
  BY DEF LostNow
<1>5. Saving' = {p} => UNION {proc'[q].mem : q \in Saving'} = r.mem
  BY <1>1
<1>6. Saving' = {} => UNION {proc'[q].mem : q \in Saving'} = {}
  OBVIOUS
<1> QED
  BY <1>1, <1>2, <1>3, <1>4, <1>5, <1>6 DEF LedgerInv

\* A step of the ledger, in terms of what it is now
LedgerStep ==
    \/ \E d \in Devices :
          /\ ~LostNow /\ HasActive(LedgerNow, d) /\ LedgerNow' = WithRevoked(LedgerNow, d)
          /\ ~LostNow' /\ UNCHANGED <<keyfile, server>>
    \/ \E d \in Devices, k \in 1..MaxKeys :
          /\ ~LostNow /\ ~HasActive(LedgerNow, d) /\ \A e \in LedgerNow : e.key # k
          /\ LedgerNow' = WithAdded(LedgerNow, d, k)
          /\ ~LostNow' /\ UNCHANGED <<keyfile, server>>
    \/ LedgerNow' = {} /\ LostNow' /\ UNCHANGED <<keyfile, server>>
    \/ /\ ~LostNow /\ keyfile'.keys \in {{}, AllowList(LedgerNow)}
       /\ LedgerNow' = LedgerNow /\ ~LostNow' /\ UNCHANGED server
    \/ /\ server'.accepted \in {{}, keyfile.keys}
       /\ LedgerNow' = LedgerNow /\ LostNow' = LostNow /\ UNCHANGED keyfile
    \/ /\ LedgerNow' = LedgerNow /\ LostNow' = LostNow /\ UNCHANGED <<keyfile, server>>

\* The operations of KeyStore are the same in the ledger.
LEMMA SameOperations ==
    ASSUME NEW entries, NEW d, NEW k
    PROVE  /\ Ledger!HasActive(entries, d) = HasActive(entries, d)
           /\ Ledger!AllowList(entries) = AllowList(entries)
           /\ Ledger!WithAdded(entries, d, k) = WithAdded(entries, d, k)
           /\ Ledger!WithRevoked(entries, d) = WithRevoked(entries, d)
<1>1. \A list : Ledger!ActiveEntries(list) = ActiveEntries(list)
  BY DEF Ledger!ActiveEntries, ActiveEntries
<1>2. \A list : Ledger!ActiveFor(list, d) = ActiveFor(list, d)
  BY <1>1 DEF Ledger!ActiveFor, ActiveFor
<1>3. Ledger!HasActive(entries, d) = HasActive(entries, d)
  BY <1>2 DEF Ledger!HasActive, HasActive
<1>4. Ledger!AllowList(entries) = AllowList(entries)
  BY <1>1 DEF Ledger!AllowList, AllowList
<1>5. Ledger!WithAdded(entries, d, k) = WithAdded(entries, d, k)
  BY DEF Ledger!WithAdded, WithAdded
<1>6. \A list : Ledger!Oldest(list) = Oldest(list)
  BY DEF Ledger!Oldest, Oldest
<1>7. Ledger!ForDevice(entries, d) = ForDevice(entries, d)
  BY <1>2, <1>6 DEF Ledger!ForDevice, ForDevice
<1>8. Ledger!WithRevoked(entries, d) = WithRevoked(entries, d)
  BY <1>7 DEF Ledger!WithRevoked, WithRevoked
<1> QED
  BY <1>3, <1>4, <1>5, <1>8

LEMMA LedgerStepIsStep == LedgerStep => [Ledger!Next]_(Ledger!vars)
<1> SUFFICES ASSUME LedgerStep PROVE [Ledger!Next]_(Ledger!vars)
  OBVIOUS
<1>1. ASSUME NEW d \in Devices,
             ~LostNow, HasActive(LedgerNow, d), LedgerNow' = WithRevoked(LedgerNow, d),
             ~LostNow', UNCHANGED <<keyfile, server>>
      PROVE  Ledger!Revoke(d)
  BY <1>1, SameOperations DEF LedgerNow, LostNow, Ledger!Revoke
<1>2. ASSUME NEW d \in Devices, NEW k \in 1..MaxKeys,
             ~LostNow, ~HasActive(LedgerNow, d), \A e \in LedgerNow : e.key # k,
             LedgerNow' = WithAdded(LedgerNow, d, k),
             ~LostNow', UNCHANGED <<keyfile, server>>
      PROVE  Ledger!Record(d, k)
  BY <1>2, SameOperations DEF LedgerNow, LostNow, Ledger!Record
<1>3. ASSUME LedgerNow' = {}, LostNow', UNCHANGED <<keyfile, server>>
      PROVE  Ledger!Lose
  BY <1>3 DEF LedgerNow, LostNow, Ledger!Lose
<1>4. ASSUME ~LostNow, keyfile'.keys \in {{}, AllowList(LedgerNow)},
             LedgerNow' = LedgerNow, ~LostNow', UNCHANGED server
      PROVE  Ledger!Publish
  BY <1>4, SameOperations DEF LedgerNow, LostNow, Ledger!Publish
<1>5. ASSUME server'.accepted \in {{}, keyfile.keys}, LedgerNow' = LedgerNow,
             LostNow' = LostNow, UNCHANGED keyfile
      PROVE  Ledger!Serve
  BY <1>5 DEF LedgerNow, LostNow, Ledger!Serve
<1>6. ASSUME LedgerNow' = LedgerNow, LostNow' = LostNow, UNCHANGED <<keyfile, server>>
      PROVE  UNCHANGED (Ledger!vars)
  BY <1>6 DEF LedgerNow, LostNow, Ledger!vars
<1> QED
  BY <1>1, <1>2, <1>3, <1>4, <1>5, <1>6, Zenon DEF LedgerStep, Ledger!Next

\* Issuing a key records it, and revoking a key revokes it.
LEMMA ListChangesAreLedgerSteps ==
    ASSUME BrokerInv, AloneInv, LedgerInv, NEW p \in Procs,
           (\E d \in Devices : Issue(p, d)) \/ Withdraw(p)
    PROVE  /\ LedgerInv' /\ LedgerStep
           /\ LedgerNow' = proc'[p].mem /\ ~LostNow' /\ proc'[p].pc = "saving"
<1> DEFINE r == proc'[p]
<1>1. /\ proc[p].pc = "loaded" /\ store' = [torn |-> TRUE, entries |-> {}]
      /\ UNCHANGED <<keyfile, server>>
  BY DEF Issue, Withdraw
<1>2. LedgerNow = proc[p].mem /\ ~LostNow
  BY <1>1, LedgerFound
<1>3. proc[p] \in Process /\ proc' \in [Procs -> Process] /\ GoodList(proc[p].mem, issued)
  BY IssueKeepsBrokerInv, WithdrawKeepsBrokerInv DEF BrokerInv, TypeOK
<1>4. r.pc = "saving" /\ proc' = [proc EXCEPT ![p] = r]
  <2>1. proc \in [Procs -> Process]
    BY DEF BrokerInv, TypeOK
  <2>2. CASE Withdraw(p)
    BY <1>3, <2>1, <2>2 DEF Withdraw, Process
  <2>3. ASSUME NEW d \in Devices, Issue(p, d) PROVE r.pc = "saving" /\ proc' = [proc EXCEPT ![p] = r]
    BY <1>3, <2>1, <2>3 DEF Issue, Process
  <2> QED
    BY <2>2, <2>3
<1> HIDE DEF r
<1>5. LedgerNow' = r.mem /\ ~LostNow' /\ LedgerInv'
  BY <1>1, <1>4, LedgerLeft
<1>6. ASSUME NEW d \in Devices, Issue(p, d) PROVE LedgerStep
  <2>1. r.mem = WithAdded(proc[p].mem, d, issued + 1)
    BY <1>3, <1>6 DEF Issue, Process, r
  <2>2. issued + 1 \in 1..MaxKeys
    <3>1. issued \in Nat /\ issued < MaxKeys
      BY <1>6 DEF Issue, BrokerInv, TypeOK
    <3> QED
      BY <3>1, MaxKeysAssumption
  <2>3. ~HasActive(proc[p].mem, d)
    BY <1>6 DEF Issue, IssuesFor, Unissued
  <2>4. \A e \in proc[p].mem : e.key # issued + 1
    BY <1>3 DEF GoodList, DeviceKey, BrokerInv, TypeOK
  <2> QED
    BY <1>1, <1>2, <1>5, <2>1, <2>2, <2>3, <2>4 DEF LedgerStep
<1>7. ASSUME Withdraw(p) PROVE LedgerStep
  <2> DEFINE d == proc[p].dev
  <2>1. r.mem = WithRevoked(proc[p].mem, d) /\ HasActive(proc[p].mem, d)
    BY <1>3, <1>7 DEF Withdraw, Process, r
  <2>2. d \in Devices
    <3>1. PICK e \in proc[p].mem : e.device = d
      BY <2>1 DEF HasActive, ActiveFor, ActiveEntries
    <3> QED
      BY <1>3, <3>1 DEF GoodList, DeviceKey
  <2> QED
    BY <1>1, <1>2, <1>5, <2>1, <2>2 DEF LedgerStep
<1> QED
  BY <1>4, <1>5, <1>6, <1>7 DEF r

\* No other step of a command changes the ledger, but a kill may lose it.
LEMMA OtherStepsAreLedgerSteps ==
    ASSUME BrokerInv, AloneInv, LedgerInv, NEW p \in Procs,
           \/ Save(p)
           \/ ReuseKey(p) \/ Refuse(p) \/ EnterUp(p) \/ Preflight(p) \/ SkipUp(p)
           \/ WriteScripts(p) \/ OpenPlan(p) \/ WritePlan(p) \/ LoadPlan(p)
           \/ OpenKeyFile(p) \/ WriteKeyFile(p)
           \/ Exit(p) \/ Kill(p)
    PROVE  /\ LedgerInv' /\ LedgerStep
           /\ Kill(p) \/ (LedgerNow' = LedgerNow /\ ~LostNow')
<1> DEFINE r == proc'[p]
<1>1. proc \in [Procs -> Process] /\ proc[p] \in Process
  BY DEF BrokerInv, TypeOK
<1>2. proc[p].pc # "idle" /\ UNCHANGED server
  BY DEF Save, ReuseKey, Refuse, EnterUp, Preflight, SkipUp, WriteScripts,
         OpenPlan, WritePlan, LoadPlan,
         OpenKeyFile, WriteKeyFile, Exit, Kill
<1>3. LedgerNow = proc[p].mem /\ ~LostNow
  BY <1>2, LedgerFound
<1>4. proc' = [proc EXCEPT ![p] = r]
  BY <1>1 DEF Save, ReuseKey, Refuse, EnterUp, Preflight, SkipUp, WriteScripts,
         OpenPlan, WritePlan, LoadPlan, OpenKeyFile, WriteKeyFile, Exit, Kill
<1>5. CASE Save(p)
  <2>1. store' = [torn |-> FALSE, entries |-> proc[p].mem] /\ r.pc # "saving"
    BY <1>1, <1>5 DEF Save, AfterSave, Process
  <2> HIDE DEF r
  <2>2. LedgerNow' = proc[p].mem /\ ~LostNow' /\ LedgerInv'
    BY <1>2, <1>4, <2>1, LedgerLeft
  <2>3. LedgerNow' = LedgerNow /\ LostNow' = LostNow /\ UNCHANGED <<keyfile, server>>
    BY <1>2, <1>3, <1>5, <2>2 DEF Save, LostNow
  <2> QED
    BY <2>2, <2>3 DEF LedgerStep
<1>6. CASE Kill(p) /\ proc[p].pc = "saving"
  <2>1. store' = store /\ store.torn /\ r.pc # "saving" /\ UNCHANGED keyfile
    BY <1>1, <1>2, <1>6, LedgerFound, IdleIsProcess DEF Kill
  <2> HIDE DEF r
  <2>2. LedgerNow' = {} /\ LostNow' /\ LedgerInv'
    BY <1>2, <1>4, <2>1, LedgerLeft
  <2> QED
    BY <1>2, <1>6, <2>1, <2>2 DEF LedgerStep
<1>7. CASE proc[p].pc # "saving"
  <2>1. ~store.torn /\ store.entries = proc[p].mem
    BY <1>2, <1>7, LedgerFound
  <2>2. UNCHANGED store
    BY <1>7 DEF Save, ReuseKey, Refuse, EnterUp, Preflight, SkipUp, WriteScripts,
         OpenPlan, WritePlan, LoadPlan, OpenKeyFile, WriteKeyFile, Exit, Kill
  <2>3. r.pc # "saving"
    <3>1. CASE EnterUp(p)
      <4>1. r = [proc[p] EXCEPT !.outer = proc[p].mem, !.mem = store.entries, !.inUp = TRUE]
        BY <1>1, <2>1, <3>1 DEF EnterUp
      <4> HIDE DEF r
      <4> QED
        BY <1>1, <1>7, <4>1 DEF Process
    <3>2. CASE WritePlan(p)
      <4>1. CASE proc[p].inUp
        <5>1. r = [proc[p] EXCEPT !.pc = "loadplan", !.inUp = FALSE, !.todoUp = FALSE,
                                  !.mem = proc[p].outer, !.outer = {}]
          BY <1>1, <3>2, <4>1 DEF WritePlan
        <5> HIDE DEF r
        <5> QED
          BY <1>1, <5>1 DEF Process
      <4>2. CASE ~proc[p].inUp
        BY <1>1, <3>2, <4>2 DEF WritePlan, Process
      <4> QED
        BY <4>1, <4>2
    <3> QED
      BY <1>1, <1>7, <3>1, <3>2, IdleIsProcess
         DEF Save, ReuseKey, Refuse, Preflight, SkipUp, WriteScripts, OpenPlan, LoadPlan,
             OpenKeyFile, WriteKeyFile, Exit, Kill, Process
  <2> HIDE DEF r
  <2>4. LedgerNow' = proc[p].mem /\ ~LostNow' /\ LedgerInv'
    BY <1>2, <1>4, <2>1, <2>2, <2>3, LedgerLeft
  <2>5. keyfile' = keyfile \/ keyfile'.keys \in {{}, AllowList(proc[p].mem)}
    <3>1. CASE OpenKeyFile(p) \/ WriteKeyFile(p)
      BY <3>1 DEF OpenKeyFile, WriteKeyFile
    <3>2. CASE ~(OpenKeyFile(p) \/ WriteKeyFile(p))
      BY <3>2 DEF Save, ReuseKey, Refuse, EnterUp, Preflight, SkipUp, WriteScripts,
         OpenPlan, WritePlan, LoadPlan, Exit, Kill
    <3> QED
      BY <3>1, <3>2
  <2>6. LostNow' = LostNow
    BY <1>3, <2>4 DEF LostNow
  <2> QED
    BY <1>2, <1>3, <2>4, <2>5, <2>6 DEF LedgerStep
<1>8. proc[p].pc = "saving" => Save(p) \/ Kill(p)
  BY DEF ReuseKey, Refuse, EnterUp, Preflight, SkipUp, WriteScripts,
         OpenPlan, WritePlan, LoadPlan,
         OpenKeyFile, WriteKeyFile, Exit
<1> QED
  BY <1>5, <1>6, <1>7, <1>8

LEMMA NextIsLedgerStep ==
    Exclusive /\ BrokerInv /\ AloneInv /\ LedgerInv /\ [Next]_vars => LedgerInv' /\ LedgerStep
<1> SUFFICES ASSUME Exclusive, BrokerInv, AloneInv, LedgerInv, [Next]_vars
             PROVE  LedgerInv' /\ LedgerStep
  OBVIOUS
<1>1. UNCHANGED <<proc, store>> => LedgerInv' /\ LedgerNow' = LedgerNow /\ LostNow' = LostNow
  BY DEF LedgerInv, LedgerNow, LostNow, Saving
<1>2. CASE UNCHANGED vars
  BY <1>1, <1>2 DEF vars, LedgerStep
<1>3. CASE ServerStart \/ ServerStop
  <2>1. /\ server'.accepted \in {{}, keyfile.keys}
        /\ UNCHANGED <<proc, store, keyfile>>
    BY <1>3 DEF ServerStart, ServerStop
  <2> QED
    BY <1>1, <2>1 DEF LedgerStep
<1>4. ASSUME NEW p \in Procs, NEW c \in Commands, NEW d \in Devices \cup {NoDevice},
             Load(p, c, d)
      PROVE  LedgerInv' /\ LedgerStep
  <2>1. ~store.torn /\ UNCHANGED <<store, keyfile, server>>
    BY <1>4 DEF Load
  <2>2. \A q \in Procs : proc[q].pc = "idle" /\ proc'[q].pc # "saving"
    BY <1>4 DEF Load, Quiet, BrokerInv, TypeOK
  <2>3. LedgerInv' /\ LedgerNow' = LedgerNow /\ LostNow' = LostNow
    BY <2>1, <2>2 DEF LedgerInv, LedgerNow, LostNow
  <2> QED
    BY <2>1, <2>3 DEF LedgerStep
<1>5. ASSUME NEW p \in Procs, Step(p) \/ Kill(p) PROVE LedgerInv' /\ LedgerStep
  BY <1>5, ListChangesAreLedgerSteps, OtherStepsAreLedgerSteps DEF Step
<1> QED
  BY <1>2, <1>3, <1>4, <1>5 DEF Next

LEMMA InitIsLedgerInit == Init => LedgerInv /\ Ledger!Init
<1> SUFFICES ASSUME Init PROVE LedgerInv /\ Ledger!Init
  OBVIOUS
<1>1. /\ store = [torn |-> FALSE, entries |-> {}] /\ keyfile.keys = {}
      /\ server.accepted = {} /\ \A p \in Procs : proc[p].pc = "idle"
  BY IdleIsProcess DEF Init
<1> QED
  BY <1>1 DEF LedgerInv, Ledger!Init

\* If commands run one at a time, then for any number of processes and
\* devices and wherever a command is killed, the two files, the KeyStore
\* objects and the server behave as one ledger that each command changes in one
\* step, with a list that is published from it as it is.
THEOREM LedgerImplemented == ASSUME Exclusive PROVE Spec => LedgerKept
<1>1. BrokerInv /\ AloneInv /\ LedgerInv /\ [Next]_vars => LedgerInv' /\ [Ledger!Next]_(Ledger!vars)
  BY NextIsLedgerStep, LedgerStepIsStep
<1> QED
  BY <1>1, InitIsLedgerInit, BrokerInvHolds, AloneInvHolds, PTL
     DEF Spec, LedgerKept, Ledger!Spec

LEMMA LedgerIsGood == BrokerInv /\ AloneInv /\ LedgerInv => GoodList(LedgerNow, issued)
<1> SUFFICES ASSUME BrokerInv, AloneInv, LedgerInv PROVE GoodList(LedgerNow, issued)
  OBVIOUS
<1>1. issued \in Nat
  BY DEF BrokerInv, TypeOK
<1>2. CASE ~store.torn
  BY <1>2 DEF LedgerNow, BrokerInv
<1>3. CASE store.torn /\ Saving = {}
  <2>1. LedgerNow = {}
    BY <1>3 DEF LedgerNow
  <2> QED
    BY <1>1, <2>1, EmptyIsGood
<1>4. ASSUME NEW p \in Saving PROVE GoodList(LedgerNow, issued)
  BY <1>4, LedgerFound DEF Saving, BrokerInv
<1> QED
  BY <1>2, <1>3, <1>4

\* One step of the ledger forgets no entry
LEMMA LedgerStepKeepsEntries ==
    ASSUME GoodList(LedgerNow, issued), LedgerStep
    PROVE  LostNow' \/ \A e \in LedgerNow : \E f \in LedgerNow' :
              f.key = e.key /\ f.device = e.device /\ (f.active => e.active)
<1>1. ASSUME NEW d \in Devices, HasActive(LedgerNow, d), LedgerNow' = WithRevoked(LedgerNow, d),
             NEW e \in LedgerNow
      PROVE  \E f \in LedgerNow' :
                f.key = e.key /\ f.device = e.device /\ (f.active => e.active)
  <2> DEFINE now == ForDevice(LedgerNow, d)
             old == [now EXCEPT !.active = FALSE]
  <2>1. now \in DeviceKey
    BY <1>1, ForDeviceIsActive DEF GoodList
  <2>2. old.key = now.key /\ old.device = now.device /\ ~old.active
    BY <2>1 DEF DeviceKey
  <2>3. LedgerNow' = (LedgerNow \ {now}) \cup {old}
    BY <1>1 DEF WithRevoked
  <2> HIDE DEF now, old
  <2> QED
    BY <1>1, <2>2, <2>3
<1>2. ASSUME NEW d, NEW k, LedgerNow' = WithAdded(LedgerNow, d, k)
      PROVE  LedgerNow \subseteq LedgerNow'
  BY <1>2 DEF WithAdded
<1> QED
  BY <1>1, <1>2 DEF LedgerStep

\* If commands run one at a time, whatever is killed, then as long as the
\* ledger is not lost no step gives an issued key to another device, forgets
\* it, or makes a revoked one active again.
THEOREM KeysNeverTakenBack == ASSUME Exclusive PROVE Spec => Ledger!NeverTakenBack
<1>1. BrokerInv /\ AloneInv /\ LedgerInv /\ [Next]_vars
      => LedgerInv' /\ (LostNow' \/ \A e \in LedgerNow : \E f \in LedgerNow' :
              f.key = e.key /\ f.device = e.device /\ (f.active => e.active))
  BY NextIsLedgerStep, LedgerIsGood, LedgerStepKeepsEntries
<1>2. BrokerInv /\ AloneInv /\ LedgerInv /\ [Next]_vars
      => LedgerInv' /\
         [Ledger!KeptOrLost]_(Ledger!vars)
  BY <1>1 DEF LedgerNow, LostNow, Ledger!KeptOrLost
<1> QED
  BY <1>2, InitIsLedgerInit, BrokerInvHolds, AloneInvHolds, PTL
     DEF Spec, Ledger!NeverTakenBack

\* Under the same assumption, every key on the list and every key the server
\* accepts has been issued to a device the ledger can name.
THEOREM ListedKeysAreIssued == ASSUME Exclusive PROVE Spec => []Ledger!OnlyIssued
<1> DEFINE IssuedNow == {e.key : e \in LedgerNow}
           Listed == LostNow \/ (keyfile.keys \subseteq IssuedNow
                                 /\ server.accepted \subseteq IssuedNow)
<1>1. Listed <=> Ledger!OnlyIssued
  BY DEF LedgerNow, LostNow, Ledger!OnlyIssued, Ledger!Issued
<1>2. Init => Listed
  BY DEF Init
<1>3. ASSUME BrokerInv, AloneInv, LedgerInv, [Next]_vars, Listed PROVE LedgerInv' /\ Listed'
  <2>1. LedgerInv' /\ LedgerStep
    BY <1>3, NextIsLedgerStep
  <2>2. LostNow' \/ IssuedNow \subseteq IssuedNow'
    <3>1. LostNow' \/ \A e \in LedgerNow : \E f \in LedgerNow' : f.key = e.key
      BY <1>3, <2>1, LedgerIsGood, LedgerStepKeepsEntries
    <3> QED
      BY <3>1
  <2>3. AllowList(LedgerNow) \subseteq IssuedNow
    BY DEF AllowList, ActiveEntries
  <2>4. LostNow => LostNow'
    BY <2>1 DEF LedgerStep
  <2>5. /\ keyfile'.keys \subseteq keyfile.keys \cup IssuedNow
        /\ server'.accepted \subseteq server.accepted \cup keyfile.keys
    <3> HIDE DEF IssuedNow
    <3> QED
      BY <2>1, <2>3 DEF LedgerStep
  <2> HIDE DEF IssuedNow
  <2> QED
    BY <1>3, <2>1, <2>2, <2>4, <2>5
<1> QED
  BY <1>1, <1>2, <1>3, InitIsLedgerInit, BrokerInvHolds, AloneInvHolds, PTL DEF Spec

-----------------------------------------------------------------------------
(* Commands that run one at a time and are not killed.                     *)

\* The command has withdrawn a key, or is a rotation that will issue one, and
\* comes to the key file yet.
Pending(r) ==
    \/ r.cmd \in {"revoke", "rotate"} /\ r.pc \in {"saving", "allowlist"}
    \/ r.cmd = "rotate" /\ r.pc = "loaded" /\ ~HasActive(r.mem, r.dev)

\* NoStaleKeyAtRest is not inductive: a key is out of the ledger before it is out
\* of the key file.  Until then the command that withdrew it is pending.
FreshInv ==
    /\ ~LostNow
    /\ keyfile.exists /\ (\A p \in Procs : ~Pending(proc[p]))
          => keyfile.keys \subseteq AllowList(LedgerNow)

\* When p is the one command that runs, only p may be pending.
LEMMA OnlyOnePending ==
    ASSUME BrokerInv, AloneInv, NEW p \in Procs, proc[p].pc # "idle",
           NEW r, proc' = [proc EXCEPT ![p] = r]
    PROVE  /\ (\A q \in Procs : ~Pending(proc[q])) <=> ~Pending(proc[p])
           /\ (\A q \in Procs : ~Pending(proc'[q])) <=> ~Pending(r)
<1>1. proc'[p] = r
  BY DEF BrokerInv, TypeOK
<1>2. \A q \in Procs : q # p => proc[q].pc = "idle" /\ proc'[q] = proc[q]
  BY DEF AloneInv, BrokerInv, TypeOK
<1>3. \A q \in Procs : q # p => ~Pending(proc[q])
  BY <1>2 DEF Pending
<1> QED
  BY <1>1, <1>2, <1>3

\* Issuing a key takes none off the list, and withdrawing one is pending.
LEMMA ListChangesKeepFresh ==
    ASSUME BrokerInv, AloneInv, LedgerInv, FreshInv, NEW p \in Procs,
           (\E d \in Devices : Issue(p, d)) \/ Withdraw(p)
    PROVE  FreshInv'
<1> DEFINE r == proc'[p]
<1>1. proc \in [Procs -> Process] /\ proc[p] \in Process
  BY DEF BrokerInv, TypeOK
<1>2. proc[p].pc = "loaded" /\ UNCHANGED keyfile
  BY DEF Issue, Withdraw
<1>3. LedgerNow = proc[p].mem
  BY <1>2, LedgerFound
<1>4. LedgerNow' = r.mem /\ ~LostNow' /\ r.pc = "saving"
  BY ListChangesAreLedgerSteps
<1>5. proc' = [proc EXCEPT ![p] = r] /\ r.cmd = proc[p].cmd
  <2>1. CASE Withdraw(p)
    BY <1>1, <2>1 DEF Withdraw, Process
  <2>2. ASSUME NEW d \in Devices, Issue(p, d)
        PROVE  proc' = [proc EXCEPT ![p] = r] /\ r.cmd = proc[p].cmd
    BY <1>1, <2>2 DEF Issue, Process
  <2> QED
    BY <2>1, <2>2
<1>6. (\A q \in Procs : ~Pending(proc'[q])) => ~Pending(r) /\ r.cmd \notin {"revoke", "rotate"}
  BY <1>4 DEF Pending
<1>7. Pending(proc[p]) => proc[p].cmd \in {"revoke", "rotate"}
  BY DEF Pending
<1> HIDE DEF r
<1>8. ASSUME NEW d \in Devices, Issue(p, d) PROVE AllowList(LedgerNow) \subseteq AllowList(LedgerNow')
  <2>1. r.mem = WithAdded(proc[p].mem, d, issued + 1)
    BY <1>1, <1>8 DEF Issue, Process, r
  <2> QED
    BY <1>3, <1>4, <2>1 DEF AllowList, ActiveEntries, WithAdded
<1>9. Withdraw(p) => proc[p].cmd \in {"revoke", "rotate"}
  BY DEF Withdraw
<1>10. (\A q \in Procs : ~Pending(proc[q])) <=> ~Pending(proc[p])
  BY <1>2, <1>5, OnlyOnePending
<1> QED
  BY <1>2, <1>4, <1>5, <1>6, <1>7, <1>8, <1>9, <1>10 DEF FreshInv

\* A pending command stays so until it has opened the key file, and the others
\* leave the list as it is or write it from the ledger.
LEMMA OtherStepsKeepFresh ==
    ASSUME ~Crashes, BrokerInv, AloneInv, LedgerInv, FreshInv, NEW p \in Procs,
           \/ Save(p)
           \/ ReuseKey(p) \/ Refuse(p) \/ EnterUp(p) \/ Preflight(p) \/ SkipUp(p)
           \/ WriteScripts(p) \/ OpenPlan(p) \/ WritePlan(p) \/ LoadPlan(p)
           \/ OpenKeyFile(p) \/ WriteKeyFile(p)
           \/ Exit(p)
    PROVE  FreshInv'
<1> DEFINE r == proc'[p]
<1>1. proc \in [Procs -> Process] /\ proc[p] \in Process
      /\ Alone(proc[p], store, keyfile, revoked)
  BY DEF BrokerInv, TypeOK, AloneInv
<1>2. proc[p].pc # "idle"
  BY DEF Save, ReuseKey, Refuse, EnterUp, Preflight, SkipUp, WriteScripts,
         OpenPlan, WritePlan, LoadPlan,
         OpenKeyFile, WriteKeyFile, Exit
<1>3. LedgerNow = proc[p].mem
  BY <1>2, LedgerFound
<1>4. LedgerNow' = LedgerNow /\ ~LostNow'
  BY OtherStepsAreLedgerSteps DEF Kill
<1>5. proc' = [proc EXCEPT ![p] = r]
  BY <1>1 DEF Save, ReuseKey, Refuse, EnterUp, Preflight, SkipUp, WriteScripts,
         OpenPlan, WritePlan, LoadPlan, OpenKeyFile, WriteKeyFile, Exit
<1>6. /\ (\A q \in Procs : ~Pending(proc[q])) <=> ~Pending(proc[p])
      /\ (\A q \in Procs : ~Pending(proc'[q])) <=> ~Pending(r)
  BY <1>2, <1>5, OnlyOnePending
<1>7. CASE OpenKeyFile(p)
  BY <1>4, <1>7 DEF OpenKeyFile, MayOpen, FreshInv
<1>8. CASE WriteKeyFile(p)
  BY <1>3, <1>4, <1>8 DEF WriteKeyFile, FreshInv
<1>9. CASE Save(p)
  <2>1. /\ r.pc = AfterSave(proc[p]) /\ r.cmd = proc[p].cmd /\ r.dev = proc[p].dev
        /\ r.mem = proc[p].mem /\ proc[p].pc = "saving" /\ UNCHANGED keyfile
    BY <1>1, <1>9 DEF Save, Process
  <2>2. Pending(proc[p]) => Pending(r)
    BY <2>1 DEF Pending, AfterSave
  <2> QED
    BY <1>4, <1>6, <2>1, <2>2 DEF FreshInv
<1>10. CASE \/ ReuseKey(p) \/ Refuse(p) \/ EnterUp(p) \/ Preflight(p) \/ SkipUp(p)
            \/ WriteScripts(p) \/ OpenPlan(p) \/ WritePlan(p) \/ LoadPlan(p) \/ Exit(p)
  <2>1. UNCHANGED keyfile
    BY <1>10 DEF ReuseKey, Refuse, EnterUp, Preflight, SkipUp, WriteScripts,
         OpenPlan, WritePlan, LoadPlan, Exit
  <2>2. \/ proc[p].pc \in {"scripts", "plan", "planning", "loadplan", "noted", "exited"}
        \/ proc[p].pc = "loaded" /\ proc[p].cmd # "rotate"
    BY <1>1, <1>10 DEF ReuseKey, Refuse, Refuses, EnterUp, Preflight, SkipUp,
         WriteScripts, OpenPlan, WritePlan, LoadPlan, Exit, Alone, RunsUp
  <2>3. ~Pending(proc[p])
    BY <2>2 DEF Pending
  <2> QED
    BY <1>4, <1>6, <2>1, <2>3 DEF FreshInv
<1> QED
  BY <1>7, <1>8, <1>9, <1>10

LEMMA NextKeepsFresh ==
    ASSUME Exclusive, ~Crashes
    PROVE  BrokerInv /\ AloneInv /\ LedgerInv /\ FreshInv /\ [Next]_vars
           => LedgerInv' /\ FreshInv'
<1> SUFFICES ASSUME BrokerInv, AloneInv, LedgerInv, FreshInv, [Next]_vars
             PROVE  LedgerInv' /\ FreshInv'
  OBVIOUS
<1>1. LedgerInv'
  BY NextIsLedgerStep
<1>2. CASE UNCHANGED <<proc, store, keyfile>>
  <2>1. LedgerNow' = LedgerNow /\ (LostNow' <=> LostNow)
    BY <1>2 DEF LedgerNow, LostNow, Saving
  <2>2. \A q \in Procs : Pending(proc'[q]) <=> Pending(proc[q])
    BY <1>2 DEF Pending
  <2>3. AllowList(LedgerNow') = AllowList(LedgerNow)
    BY <2>1
  <2> QED
    BY <1>1, <1>2, <2>1, <2>2, <2>3 DEF FreshInv
<1>3. ASSUME NEW p \in Procs, NEW c \in Commands, NEW d \in Devices \cup {NoDevice},
             Load(p, c, d)
      PROVE  FreshInv'
  <2>1. ~store.torn /\ UNCHANGED <<store, keyfile>>
    BY <1>3 DEF Load
  <2>2. \A q \in Procs : proc[q].pc = "idle"
    BY <1>3 DEF Load, Quiet
  <2>3. \A q \in Procs : ~Pending(proc[q])
    BY <2>2 DEF Pending
  <2>4. LedgerNow = store.entries /\ LedgerNow' = store.entries /\ ~LostNow'
    BY <2>1 DEF LedgerNow, LostNow
  <2> QED
    BY <2>1, <2>3, <2>4 DEF FreshInv
<1>4. ASSUME NEW p \in Procs, Step(p) PROVE FreshInv'
  BY <1>4, ListChangesKeepFresh, OtherStepsKeepFresh DEF Step
<1>5. ASSUME NEW p \in Procs, Kill(p) PROVE FreshInv'
  BY <1>5 DEF Kill
<1>6. ServerStart \/ ServerStop \/ UNCHANGED vars => UNCHANGED <<proc, store, keyfile>>
  BY DEF ServerStart, ServerStop, vars
<1> QED
  BY <1>1, <1>2, <1>3, <1>4, <1>5, <1>6 DEF Next

\* If commands run one at a time and none is killed, then between them the key
\* file holds no revoked key: `revoke` and a rotation rewrite it before they end
\* (_refresh_key_file), and no other command puts a key on it that is not active.
THEOREM RevokedIsOffTheList ==
    ASSUME Exclusive, ~Crashes PROVE Spec => []NoStaleKeyAtRest
<1>1. Init => FreshInv
  BY DEF Init, FreshInv, LostNow
<1>2. AloneInv /\ FreshInv => NoStaleKeyAtRest
  <2> SUFFICES ASSUME AloneInv, FreshInv, Quiet, keyfile.exists
               PROVE  keyfile.keys \subseteq AllowList(store.entries)
    BY DEF NoStaleKeyAtRest
  <2>1. Saving = {} /\ \A p \in Procs : ~Pending(proc[p])
    BY DEF Quiet, Saving, Pending
  <2>2. LedgerNow = store.entries
    BY <2>1 DEF FreshInv, LostNow, LedgerNow
  <2> QED
    BY <2>1, <2>2 DEF FreshInv
<1> QED
  BY <1>1, <1>2, InitIsLedgerInit, NextKeepsFresh, BrokerInvHolds, AloneInvHolds, PTL DEF Spec

-----------------------------------------------------------------------------
(* A revocation that has reached the key file and the server.              *)

NoneReturns ==
    \A k \in revoked : k \notin keyfile.keys \cup server.accepted
        => k \notin keyfile'.keys \cup server'.accepted

\* A command that runs alone writes the key file without the revoked keys.
LEMMA AloneWritesNoRevoked ==
    ASSUME BrokerInv, AloneInv, NEW p \in Procs, WriteKeyFile(p), NEW k \in revoked
    PROVE  k \notin keyfile'.keys
<1>1. ~store.torn /\ proc[p].mem = store.entries /\ keyfile'.keys = AllowList(store.entries)
  BY DEF WriteKeyFile, AloneInv, Alone
<1>2. KeyIdentifiesEntry(store.entries)
  BY DEF BrokerInv, GoodList, WellFormed
<1>3. PICK e \in store.entries : e.key = k /\ ~e.active
  BY <1>1 DEF AloneInv, RevokedStays
<1> QED
  BY <1>1, <1>2, <1>3 DEF AllowList, ActiveEntries, KeyIdentifiesEntry

LEMMA NextReturnsNone == BrokerInv /\ AloneInv /\ [Next]_vars => NoneReturns
<1> SUFFICES ASSUME BrokerInv, AloneInv, [Next]_vars PROVE NoneReturns
  OBVIOUS
<1>1. \/ UNCHANGED <<keyfile, server>>
      \/ UNCHANGED server /\ keyfile'.keys = {}
      \/ UNCHANGED server /\ \E p \in Procs : WriteKeyFile(p)
      \/ UNCHANGED keyfile /\ server'.accepted \in {{}, keyfile.keys}
  <2>1. CASE UNCHANGED vars
    BY <2>1 DEF vars
  <2>2. CASE ServerStart \/ ServerStop
    BY <2>2 DEF ServerStart, ServerStop
  <2>3. ASSUME NEW p \in Procs, OpenKeyFile(p) \/ WriteKeyFile(p)
        PROVE  /\ UNCHANGED server
               /\ UNCHANGED keyfile \/ keyfile'.keys = {} \/ WriteKeyFile(p)
    BY <2>3 DEF OpenKeyFile, WriteKeyFile
  <2>4. ASSUME NEW p \in Procs, NEW c \in Commands, NEW d \in Devices \cup {NoDevice},
               Load(p, c, d)
        PROVE  UNCHANGED <<keyfile, server>>
    BY <2>4 DEF Load
  <2>5. ASSUME NEW p \in Procs,
               \/ \E d \in Devices : Issue(p, d)
               \/ Withdraw(p) \/ Save(p) \/ ReuseKey(p) \/ Refuse(p)
               \/ EnterUp(p) \/ Preflight(p) \/ SkipUp(p) \/ WriteScripts(p)
               \/ OpenPlan(p) \/ WritePlan(p) \/ LoadPlan(p) \/ Exit(p) \/ Kill(p)
        PROVE  UNCHANGED <<keyfile, server>>
    BY <2>5 DEF Issue, Withdraw, Save, ReuseKey, Refuse, EnterUp, Preflight, SkipUp,
         WriteScripts, OpenPlan, WritePlan, LoadPlan, Exit, Kill
  <2> QED
    BY <2>1, <2>2, <2>3, <2>4, <2>5 DEF Next, Step
<1>2. ASSUME NEW p \in Procs, WriteKeyFile(p), NEW k \in revoked PROVE k \notin keyfile'.keys
  BY <1>2, AloneWritesNoRevoked
<1> QED
  BY <1>1, <1>2 DEF NoneReturns

\* The half of RevocationTakesEffect that needs no fairness: if commands run one at
\* a time, then wherever they are killed, a revoked key that is off the key file and
\* that the server does not accept never comes back to either, whatever setup,
\* `up`, an invite or a restart does afterwards.
THEOREM RevokedNeverReturns == ASSUME Exclusive PROVE Spec => [][NoneReturns]_vars
BY NextReturnsNone, BrokerInvHolds, AloneInvHolds, PTL DEF Spec
=============================================================================
