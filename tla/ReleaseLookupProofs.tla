-------------------------- MODULE ReleaseLookupProofs --------------------------
(***************************************************************************)
(* Theorems about ReleaseLookup, for every minimum build, any number of    *)
(* builds that are published meanwhile, and any failures.                  *)
(***************************************************************************)
EXTENDS ReleaseLookup, TLAPS

\* A tag that was worked out in this run: no build, or one that was the latest
\* when the run started or later.
Behind(tag) == tag # 0 /\ tag < run.atStart

(***************************************************************************)
(* The inductive invariant.  What is latest only advances, and the feed is *)
(* never behind it; a plan with a size comes from a first lookup that      *)
(* brought files, and nothing is looked up after it.                       *)
(***************************************************************************)

\* How far a run has come, and what it has then seen
Progress ==
    /\ run.pc = "feedFiles" => run.tag # 0
    /\ run.pc = "pointerFile" => latest # 0
    /\ run.pc = "nightlyFiles" => run.tag # 0
    /\ run.pc = "resolved" /\ run.listing # {} => run.tag # 0
    /\ run.pc = "install" /\ run.listing # {} => run.tag # 0
    /\ run.pc = "install" /\ run.lookup = 1 => BuildIsRecentEnough(run.tag)
    /\ run.planned # 0 => /\ run.planned = run.tag
                          /\ run.pc \in {"install", "installed", "failed"}

LookupInv ==
    /\ TypeOK
    /\ latest = 0 => pointer
    /\ run.atStart <= latest
    /\ ~Behind(run.tag)
    /\ Progress
    /\ installed # 0 => /\ run.pc = "installed" /\ installed = run.tag
                        /\ run.lookup = 1 => BuildIsRecentEnough(installed)

\* The changes of the run that the actions make keep its type.
LEMMA RunTypes ==
    ASSUME TypeOK, NEW pc \in PC, NEW tag \in 0..MaxBuild, NEW listing \in SUBSET Kinds,
           NEW planned \in 0..MaxBuild
    PROVE  /\ [run EXCEPT !.pc = pc] \in Run
           /\ [run EXCEPT !.pc = pc, !.tag = tag] \in Run
           /\ [run EXCEPT !.pc = pc, !.tag = tag, !.listing = listing] \in Run
           /\ [run EXCEPT !.pc = pc, !.planned = planned] \in Run
           /\ [run EXCEPT !.pc = pc, !.lookup = 2, !.tag = tag, !.listing = listing] \in Run
<1>0. run \in Run
  BY DEF TypeOK
<1>1. [run EXCEPT !.pc = pc] \in Run
  BY <1>0 DEF Run
<1>2. [run EXCEPT !.pc = pc, !.tag = tag] \in Run
  BY <1>0 DEF Run
<1>3. [run EXCEPT !.pc = pc, !.tag = tag, !.listing = listing] \in Run
  BY <1>0 DEF Run
<1>4. [run EXCEPT !.pc = pc, !.planned = planned] \in Run
  BY <1>0 DEF Run
<1>5. [run EXCEPT !.pc = pc, !.lookup = 2, !.tag = tag, !.listing = listing] \in Run
  <2>1. 2 \in 1..2
    OBVIOUS
  <2> QED
    BY <1>0, <2>1 DEF Run
<1> QED
  BY <1>1, <1>2, <1>3, <1>4, <1>5

LEMMA RangeFacts ==
    ASSUME LookupInv
    PROVE  /\ newest \in 1..MaxBuild /\ latest \in 0..newest /\ latest \in 0..MaxBuild
           /\ run.tag \in 0..MaxBuild /\ run.atStart \in 0..MaxBuild /\ run.pc \in PC
           /\ run.lookup \in 1..2 /\ run.listing \in SUBSET Kinds /\ run.planned \in 0..MaxBuild
           /\ MaxBuild \in Nat /\ MinBuild \in Nat \ {0} /\ installed \in 0..MaxBuild
           /\ \A b \in 1..MaxBuild : files[b] \in SUBSET Kinds
<1>1. /\ MaxBuild \in Nat /\ MinBuild \in Nat \ {0}
      /\ newest \in 1..MaxBuild /\ latest \in 0..newest /\ run \in Run
      /\ files \in [1..MaxBuild -> SUBSET Kinds] /\ installed \in 0..MaxBuild
  BY BuildsAssumption DEF LookupInv, TypeOK, Builds
<1>2. latest \in 0..MaxBuild
  BY <1>1
<1> QED
  BY <1>1, <1>2 DEF Run

LEMMA LookupInit == Init => LookupInv
<1> SUFFICES ASSUME Init PROVE LookupInv
  OBVIOUS
<1>1. newest \in 1..MaxBuild /\ MaxBuild \in Nat /\ latest \in 0..newest /\ latest \in 0..MaxBuild
  BY BuildsAssumption DEF Init, Builds
<1>2. run \in Run /\ files \in [Builds -> SUBSET Kinds]
  BY <1>1 DEF Init, NewRun, Run, PC, Kinds
<1>3. TypeOK
  BY <1>1, <1>2 DEF Init, TypeOK, Builds
<1> QED
  BY <1>1, <1>3 DEF Init, LookupInv, NewRun, Progress, Behind

LEMMA GitHubKeeps == LookupInv /\ GitHub => LookupInv'
<1> SUFFICES ASSUME LookupInv, GitHub PROVE LookupInv'
  OBVIOUS
<1>1. UNCHANGED <<pointer, run, installed>>
  BY DEF GitHub, Publish, Upload, Advance
<1>2. latest <= latest'
  <2>1. latest \in Nat
    BY RangeFacts
  <2>2. latest' = latest \/ \E b \in Builds : latest' = b /\ latest < b
    BY DEF GitHub, Publish, Upload, Advance
  <2> QED
    BY <2>1, <2>2, RangeFacts DEF Builds
<1>3. TypeOK'
  <2>1. CASE Publish
    BY <2>1, RangeFacts DEF Publish, LookupInv, TypeOK, Builds
  <2>2. ASSUME NEW b \in Builds, Advance(b) PROVE TypeOK'
    BY <2>2, RangeFacts DEF Advance, LookupInv, TypeOK, Builds
  <2>3. ASSUME NEW b \in Builds, NEW k \in Kinds, Upload(b, k) PROVE TypeOK'
    BY <2>3, RangeFacts DEF Upload, LookupInv, TypeOK, Builds
  <2> QED
    BY <2>1, <2>2, <2>3 DEF GitHub
<1>4. run.atStart <= latest' /\ (latest' = 0 => latest = 0)
  BY <1>2, <1>3, RangeFacts DEF LookupInv, TypeOK
<1> QED
  BY <1>1, <1>3, <1>4 DEF LookupInv, Progress, Behind, BuildIsRecentEnough

\* Every step of the lookup that ends where no build is installed.
LEMMA GoKeeps ==
    ASSUME LookupInv, NEW pc \in PC \ {"installed", "install", "resolved", "feedFiles",
                                       "nightlyFiles"},
           pc = "pointerFile" => latest # 0,
           run.planned # 0 => pc = "failed", run.pc # "installed", Go(pc)
    PROVE  LookupInv'
<1>1. run' = [run EXCEPT !.pc = pc] /\ UNCHANGED <<world, installed>> /\ run \in Run
  BY DEF Go, LookupInv, TypeOK
<1>2. run' \in Run
  BY <1>1, RunTypes, RangeFacts DEF LookupInv
<1>3. TypeOK'
  BY <1>1, <1>2 DEF world, LookupInv, TypeOK
<1>4. /\ run'.pc = pc /\ run'.tag = run.tag /\ run'.planned = run.planned
      /\ run'.atStart = run.atStart
  BY <1>1 DEF Run
<1> QED
  BY <1>1, <1>3, <1>4 DEF world, LookupInv, Progress, Behind

LEMMA ResolvedKeeps ==
    ASSUME LookupInv, NEW tag \in 0..MaxBuild, NEW listing \in SUBSET Kinds,
           tag = 0 => listing = {}, ~Behind(tag), run.planned = 0, run.pc # "installed",
           Resolved(tag, listing)
    PROVE  LookupInv'
<1>1. run' = [run EXCEPT !.pc = "resolved", !.tag = tag, !.listing = listing]
      /\ UNCHANGED <<world, installed>> /\ run \in Run
  BY DEF Resolved, LookupInv, TypeOK
<1>2. run' \in Run
  <2>1. "resolved" \in PC
    BY DEF PC
  <2> QED
    BY <1>1, <2>1, RunTypes, RangeFacts DEF LookupInv
<1>3. TypeOK'
  BY <1>1, <1>2 DEF world, LookupInv, TypeOK
<1>4. /\ run'.pc = "resolved" /\ run'.tag = tag /\ run'.listing = listing
      /\ run'.planned = run.planned /\ run'.atStart = run.atStart
  BY <1>1 DEF Run
<1> QED
  BY <1>1, <1>3, <1>4 DEF world, LookupInv, Progress, Behind

\* The tag is known, and its files are asked for.
LEMMA NamedKeeps ==
    ASSUME LookupInv, NEW pc \in {"feedFiles", "nightlyFiles", "latestFiles"},
           NEW tag \in 0..MaxBuild, pc # "latestFiles" => tag # 0, ~Behind(tag),
           run.planned = 0, run.pc # "installed",
           run' = [run EXCEPT !.pc = pc, !.tag = tag], UNCHANGED <<world, installed>>
    PROVE  LookupInv'
<1>1. run \in Run
  BY DEF LookupInv, TypeOK
<1>2. run' \in Run
  BY RunTypes, RangeFacts DEF LookupInv, PC
<1>3. TypeOK'
  BY <1>2 DEF world, LookupInv, TypeOK
<1>4. /\ run'.pc = pc /\ run'.tag = tag /\ run'.planned = run.planned
      /\ run'.atStart = run.atStart
  BY <1>1 DEF Run
<1> QED
  BY <1>3, <1>4 DEF world, LookupInv, Progress, Behind

LEMMA LatestReleaseKeeps ==
    ASSUME LookupInv, run.pc \in {"api", "latestFiles"}, LatestRelease
    PROVE  LookupInv'
<1>1. run.planned = 0 /\ run.atStart <= latest
  BY DEF LookupInv, Progress
<1>2. CASE ~pointer
  <2>1. latest # 0 /\ latest \in 1..MaxBuild /\ files[latest] \in SUBSET Kinds /\ ~Behind(latest)
    BY <1>1, <1>2, RangeFacts DEF LookupInv, Behind
  <2> QED
    BY <1>1, <1>2, <2>1, RangeFacts, ResolvedKeeps DEF LatestRelease
<1>3. CASE pointer /\ latest # 0
  BY <1>1, <1>3, GoKeeps DEF LatestRelease, PC
<1>4. CASE pointer /\ latest = 0
  BY <1>1, <1>4, RangeFacts, ResolvedKeeps DEF LatestRelease, Behind
<1> QED
  BY <1>2, <1>3, <1>4

LEMMA AnswerKeeps ==
    LookupInv /\ (Answer \/ FeedFails \/ ApiFails \/ LookupFails) => LookupInv'
<1> SUFFICES ASSUME LookupInv, Answer \/ FeedFails \/ ApiFails \/ LookupFails
             PROVE  LookupInv'
  OBVIOUS
<1>1. /\ run.planned # 0 => run.pc \in {"install", "installed", "failed"}
      /\ run.atStart <= latest /\ ~Behind(run.tag)
  BY DEF LookupInv, Progress
<1>2. CASE FeedAnswers
  <2>1. CASE NewestTag = 0
    BY <1>1, <1>2, <2>1, GoKeeps DEF FeedAnswers, At, PC
  <2>2. CASE NewestTag # 0
    <3>1. NewestTag \in 0..MaxBuild /\ ~Behind(NewestTag)
      BY <1>1, RangeFacts DEF NewestTag, Behind
    <3> QED
      BY <1>1, <1>2, <2>2, <3>1, NamedKeeps DEF FeedAnswers, At
  <2> QED
    BY <2>1, <2>2
<1>3. CASE FeedFilesAnswer
  <2>1. run.tag # 0 /\ run.tag \in 1..MaxBuild /\ files[run.tag] \in SUBSET Kinds
    BY <1>3, RangeFacts DEF FeedFilesAnswer, At, LookupInv, Progress
  <2>2. CASE files[run.tag] \cap Binaries # {}
    BY <1>1, <1>3, <2>1, <2>2, RangeFacts, ResolvedKeeps DEF FeedFilesAnswer, At
  <2>3. CASE ~(files[run.tag] \cap Binaries # {})
    BY <1>1, <1>3, <2>3, GoKeeps DEF FeedFilesAnswer, At, PC
  <2> QED
    BY <2>2, <2>3
<1>4. CASE ApiAnswers
  BY <1>4, LatestReleaseKeeps DEF ApiAnswers, At
<1>5. CASE RedirectAnswers
  <2> DEFINE tag == IF pointer THEN 0 ELSE latest
  <2>1. tag \in 0..MaxBuild /\ ~Behind(tag)
    BY <1>1, RangeFacts DEF Behind
  <2> QED
    BY <1>1, <1>5, <2>1, NamedKeeps DEF RedirectAnswers, At
<1>6. CASE LatestFilesAnswer
  <2>1. CASE run.tag # 0
    <3>1. run.tag \in 1..MaxBuild /\ files[run.tag] \in SUBSET Kinds
      BY <2>1, RangeFacts
    <3> QED
      BY <1>1, <1>6, <2>1, <3>1, RangeFacts, ResolvedKeeps DEF LatestFilesAnswer, At
  <2>2. CASE run.tag = 0
    BY <1>6, <2>2, LatestReleaseKeeps DEF LatestFilesAnswer, At
  <2> QED
    BY <2>1, <2>2
<1>7. CASE PointerAnswers
  <2>2. ~Behind(latest)
    BY <1>1, RangeFacts DEF Behind
  <2> QED
    BY <1>1, <1>7, <2>2, RangeFacts, NamedKeeps DEF PointerAnswers, At, LookupInv, Progress
<1>8. CASE NightlyFilesAnswer
  <2>1. run.tag # 0 /\ run.tag \in 1..MaxBuild /\ files[run.tag] \in SUBSET Kinds
    BY <1>8, RangeFacts DEF NightlyFilesAnswer, At, LookupInv, Progress
  <2> QED
    BY <1>1, <1>8, <2>1, RangeFacts, ResolvedKeeps DEF NightlyFilesAnswer, At
<1>9. CASE FeedFails
  BY <1>1, <1>9, GoKeeps DEF FeedFails, At, PC
<1>10. CASE ApiFails
  BY <1>1, <1>10, GoKeeps DEF ApiFails, At, PC
<1>11. CASE LookupFails
  BY <1>1, <1>11, GoKeeps DEF LookupFails, PC
<1> QED
  BY <1>2, <1>3, <1>4, <1>5, <1>6, <1>7, <1>8, <1>9, <1>10, <1>11 DEF Answer

LEMMA FirstKeeps == LookupInv /\ First => LookupInv'
<1> SUFFICES ASSUME LookupInv, First PROVE LookupInv'
  OBVIOUS
<1>1. /\ UNCHANGED <<world, installed>> /\ run \in Run /\ run.pc \in {"lost", "resolved"}
      /\ run.lookup = 1
  BY DEF First, At, LookupInv, TypeOK
<1>2. run.planned = 0 /\ installed = 0
  BY <1>1 DEF LookupInv, Progress
<1>3. CASE run' = SecondLookup
  <2>1. run' \in Run
    <3>1. "feed" \in PC /\ {} \in SUBSET Kinds /\ 0 \in 0..MaxBuild
      BY RangeFacts DEF PC
    <3> QED
      BY <1>3, <3>1, RunTypes DEF LookupInv, SecondLookup
  <2>2. TypeOK'
    BY <1>1, <2>1 DEF world, LookupInv, TypeOK
  <2>3. run'.pc = "feed" /\ run'.tag = 0 /\ run'.planned = 0 /\ run'.atStart = run.atStart
    BY <1>1, <1>2, <1>3 DEF SecondLookup, Run
  <2> QED
    BY <1>1, <1>2, <2>2, <2>3 DEF world, LookupInv, Progress, Behind
<1>4. CASE run' = [run EXCEPT !.pc = "refused"]
  BY <1>1, <1>2, <1>4, GoKeeps DEF Go, PC
<1>5. CASE /\ At("resolved") /\ BuildIsRecentEnough(run.tag)
           /\ run' = [run EXCEPT
                         !.pc = "install",
                         !.planned = IF "windows" \in run.listing THEN run.tag ELSE 0]
  <2> DEFINE planned == IF "windows" \in run.listing THEN run.tag ELSE 0
  <2>1. planned \in 0..MaxBuild /\ "install" \in PC
    BY RangeFacts DEF PC
  <2>2. run' \in Run
    BY <1>5, <2>1, RunTypes DEF LookupInv
  <2>3. TypeOK'
    BY <1>1, <2>2 DEF world, LookupInv, TypeOK
  <2>4. /\ run'.pc = "install" /\ run'.tag = run.tag /\ run'.planned = planned
        /\ run'.atStart = run.atStart /\ run'.lookup = 1 /\ run'.listing = run.listing
    BY <1>1, <1>5 DEF Run
  <2>5. run.tag # 0 /\ ~Behind(run.tag)
    BY <1>5 DEF BuildIsRecentEnough, LookupInv
  <2>6. planned # 0 => planned = run.tag
    OBVIOUS
  <2> HIDE DEF planned
  <2> QED
    BY <1>1, <1>2, <1>5, <2>3, <2>4, <2>5, <2>6 DEF world, LookupInv, Progress, Behind
<1> QED
  BY <1>3, <1>4, <1>5 DEF First

LEMMA SecondKeeps == LookupInv /\ Second => LookupInv'
<1> SUFFICES ASSUME LookupInv, Second PROVE LookupInv'
  OBVIOUS
<1>1. run.lookup = 2 /\ run.planned = 0 /\ installed = 0 /\ run \in Run
  BY DEF Second, At, LookupInv, Progress, TypeOK
<1>2. CASE At("lost") /\ Go("failed")
  BY <1>1, <1>2, GoKeeps DEF At, PC
<1>3. CASE At("resolved") /\ Go("install")
  <2>1. run' = [run EXCEPT !.pc = "install"] /\ UNCHANGED <<world, installed>>
    BY <1>3 DEF Go
  <2>2. TypeOK'
    <3>1. "install" \in PC
      BY DEF PC
    <3>2. run' \in Run
      BY <2>1, <3>1, RunTypes, RangeFacts DEF LookupInv
    <3> QED
      BY <2>1, <3>2 DEF world, LookupInv, TypeOK
  <2>3. /\ run'.pc = "install" /\ run'.tag = run.tag /\ run'.planned = 0 /\ run'.lookup = 2
        /\ run'.atStart = run.atStart /\ run'.listing = run.listing
    BY <1>1, <2>1 DEF Run
  <2> QED
    BY <1>1, <1>3, <2>1, <2>2, <2>3 DEF world, At, LookupInv, Progress, Behind
<1> QED
  BY <1>2, <1>3 DEF Second

LEMMA InstallKeeps == LookupInv /\ Install => LookupInv'
<1> SUFFICES ASSUME LookupInv, Install PROVE LookupInv'
  OBVIOUS
<1>1. /\ run.pc = "install" /\ run' = [run EXCEPT !.pc = "installed"] /\ installed' = run.tag
      /\ UNCHANGED world /\ run \in Run /\ run.tag \in 0..MaxBuild
  BY RangeFacts DEF Install, At, LookupInv, TypeOK
<1>2. TypeOK'
  <2>1. "installed" \in PC
    BY DEF PC
  <2>2. run' \in Run
    BY <1>1, <2>1, RunTypes, RangeFacts DEF LookupInv
  <2> QED
    BY <1>1, <2>2 DEF world, LookupInv, TypeOK
<1>3. /\ run'.pc = "installed" /\ run'.tag = run.tag /\ run'.planned = run.planned
      /\ run'.atStart = run.atStart /\ run'.lookup = run.lookup
  BY <1>1 DEF Run
<1> QED
  BY <1>1, <1>2, <1>3 DEF world, LookupInv, Progress, Behind, BuildIsRecentEnough

LEMMA RerunKeeps == LookupInv /\ Rerun => LookupInv'
<1> SUFFICES ASSUME LookupInv, Rerun PROVE LookupInv'
  OBVIOUS
<1>1. run' = NewRun /\ UNCHANGED <<world, installed>> /\ installed = 0
  BY DEF Rerun, LookupInv
<1>2. run' \in Run
  BY <1>1, RangeFacts DEF NewRun, Run, PC, Kinds
<1>3. TypeOK'
  BY <1>1, <1>2 DEF world, LookupInv, TypeOK
<1>4. /\ run'.pc = "feed" /\ run'.tag = 0 /\ run'.planned = 0 /\ run'.atStart = latest
      /\ latest \in Nat
  BY <1>1, RangeFacts DEF NewRun
<1> QED
  BY <1>1, <1>3, <1>4 DEF world, LookupInv, Progress, Behind

THEOREM LookupInvariant == Spec => []LookupInv
<1>1. LookupInv /\ [Next]_vars => LookupInv'
  <2> SUFFICES ASSUME LookupInv, [Next]_vars PROVE LookupInv'
    OBVIOUS
  <2>1. CASE GitHub
    BY <2>1, GitHubKeeps
  <2>2. CASE Answer \/ FeedFails \/ ApiFails \/ LookupFails
    BY <2>2, AnswerKeeps
  <2>3. CASE First
    BY <2>3, FirstKeeps
  <2>4. CASE Second
    BY <2>4, SecondKeeps
  <2>5. CASE Install
    BY <2>5, InstallKeeps
  <2>6. CASE InstallFails
    <3>1. run.pc = "install" /\ Go("failed") /\ "failed" \in PC
      BY <2>6 DEF InstallFails, At, PC
    <3> QED
      BY <3>1, GoKeeps
  <2>7. CASE Rerun
    BY <2>7, RerunKeeps
  <2>8. CASE UNCHANGED vars
    BY <2>8 DEF vars, world, LookupInv, TypeOK, Progress, Behind
  <2> QED
    BY <2>1, <2>2, <2>3, <2>4, <2>5, <2>6, <2>7, <2>8 DEF Next, Answer
<1> QED
  BY <1>1, LookupInit, PTL DEF Spec

(***************************************************************************)
(* The theorems.                                                           *)
(***************************************************************************)

\* Tags, listings and plans are what their names say, whatever GitHub answers.
THEOREM LookupTypes == Spec => []TypeOK
<1>1. LookupInv => TypeOK
  BY DEF LookupInv
<1> QED
  BY <1>1, LookupInvariant, PTL

\* A build that is too old gets past setup only through a first lookup that
\* brought nothing.
THEOREM OldNeedsLoss == Spec => []OldOnlyUnlisted
<1>1. LookupInv => OldOnlyUnlisted
  <2> SUFFICES ASSUME LookupInv, installed \in 1..(MinBuild - 1) PROVE run.lookup = 2
    BY DEF OldOnlyUnlisted
  <2>1. installed # 0 /\ ~(installed >= MinBuild)
    BY RangeFacts
  <2> QED
    BY <2>1, RangeFacts DEF LookupInv, BuildIsRecentEnough
<1> QED
  BY <1>1, LookupInvariant, PTL

\* Whatever is published between the plan and the download, the build whose
\* size was shown is the one that is installed.
THEOREM AsPlanned == Spec => []InstalledAsPlanned
<1>1. LookupInv => InstalledAsPlanned
  BY DEF LookupInv, Progress, InstalledAsPlanned
<1> QED
  BY <1>1, LookupInvariant, PTL

\* No order of answers, failures and releases makes setup install a build older
\* than the one that was the latest when it started.
THEOREM NotBehindLatest == Spec => []NeverBehindLatest
<1>1. LookupInv => NeverBehindLatest
  <2> SUFFICES ASSUME LookupInv, installed # 0 PROVE installed >= run.atStart
    BY DEF NeverBehindLatest
  <2>1. installed = run.tag /\ ~Behind(run.tag)
    BY DEF LookupInv
  <2> QED
    BY <2>1, RangeFacts DEF Behind
<1> QED
  BY <1>1, LookupInvariant, PTL
=============================================================================
