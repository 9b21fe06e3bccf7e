----------------------------- MODULE ReleaseLookup -----------------------------
(***************************************************************************)
(* Which build of llama.cpp `setup` installs: latest_llama_release         *)
(* (install.py) and its two calls in cmd_setup, request by request, while  *)
(* the project goes on publishing.                                         *)
(*                                                                         *)
(* External: GitHub.  A build is published first and gets its files one by *)
(* one.  /releases/latest is a build with binaries, or a release that only *)
(* points to one.  Any request may fail.                                   *)
(*                                                                         *)
(* A build is its number, 0 what is no build: the tag of a pointer         *)
(* release, or none.  Of the files of a build only the kinds matter that   *)
(* setup tells apart.  Runs are of one backend, into an empty directory;   *)
(* what is unpacked, and how a download may break, is in SetupFlow.        *)
(***************************************************************************)
EXTENDS Naturals, FiniteSets

CONSTANTS
    MinBuild,   \* MIN_LLAMA_BUILD
    MaxBuild    \* bound: the last build that is published

ASSUME BuildsAssumption == MinBuild \in Nat \ {0} /\ MaxBuild \in Nat /\ MinBuild <= MaxBuild

VARIABLES
    newest,     \* the newest build
    files,      \* of each build, what is uploaded
    pointer,    \* does /releases/latest only point to a build?
    latest,     \* that build, or 0: the pointer is not uploaded
    run,        \* the setup that runs, or how the last one ended
    installed   \* the build found by find_llama_server, or 0

world == <<newest, files, pointer, latest>>
vars == <<world, run, installed>>

Builds == 1..MaxBuild

\* is_llama_binary_asset for another system, for Windows and the backend; and
\* what is no binary: cudart-*.zip.
Kinds == {"other", "windows", "runtime"}
Binaries == {"other", "windows"}

PC == {"feed", "feedFiles", "api", "redirect", "latestFiles", "pointerFile", "nightlyFiles",
       "resolved", "lost", "install", "installed", "refused", "failed"}

\* `planned` is the build setup named above the plan, if its Windows file was
\* listed, `atStart` what was latest when the run started.
Run == [pc : PC, lookup : 1..2, tag : 0..MaxBuild, listing : SUBSET Kinds,
        planned : 0..MaxBuild, atStart : 0..MaxBuild]

NewRun == [pc |-> "feed", lookup |-> 1, tag |-> 0, listing |-> {}, planned |-> 0,
           atStart |-> latest]

TypeOK ==
    /\ newest \in Builds /\ latest \in 0..newest
    /\ files \in [Builds -> SUBSET Kinds]
    /\ pointer \in BOOLEAN
    /\ run \in Run
    /\ installed \in 0..MaxBuild

\* A first build is there, or all of several but the newest.
Init ==
    /\ newest \in Builds
    /\ files = [b \in Builds |-> IF b < newest THEN Kinds ELSE {}]
    /\ pointer \in BOOLEAN
    /\ latest \in 0..(newest - 1) /\ (latest = 0 => pointer)
    /\ run = NewRun
    /\ installed = 0

-----------------------------------------------------------------------------
(* GitHub (external).                                                      *)

Publish ==
    /\ newest < MaxBuild
    /\ newest' = newest + 1
    /\ UNCHANGED <<files, pointer, latest, run, installed>>

Upload(b, k) ==
    /\ b <= newest /\ k \notin files[b]
    /\ files' = [files EXCEPT ![b] = @ \cup {k}]
    /\ UNCHANGED <<newest, pointer, latest, run, installed>>

\* Another build, all of whose files are there, becomes the latest.
Advance(b) ==
    /\ latest < b /\ b <= newest /\ files[b] = Kinds
    /\ latest' = b
    /\ UNCHANGED <<newest, files, pointer, run, installed>>

-----------------------------------------------------------------------------
(* latest_llama_release, one action for the answer to each request.        *)

At(pc) == run.pc = pc
Go(pc) == run' = [run EXCEPT !.pc = pc] /\ UNCHANGED <<world, installed>>
Resolved(tag, listing) ==
    /\ run' = [run EXCEPT !.pc = "resolved", !.tag = tag, !.listing = listing]
    /\ UNCHANGED <<world, installed>>

\* Mutant of NewestTag: the oldest build that is new enough.
OldestTag == IF newest >= MinBuild THEN MinBuild ELSE 0

\* Mutant of NewestTag: what the API calls the latest.
LatestTag == IF latest >= MinBuild THEN latest ELSE 0

\* newest_build_tag of the feed, which lists every build, newest first
NewestTag == IF newest >= MinBuild THEN newest ELSE 0

FeedAnswers ==
    /\ At("feed")
    /\ IF NewestTag = 0 THEN Go("api")
       ELSE /\ run' = [run EXCEPT !.pc = "feedFiles", !.tag = NewestTag]
            /\ UNCHANGED <<world, installed>>

FeedFilesAnswer ==
    /\ At("feedFiles")
    /\ IF files[run.tag] \cap Binaries # {} THEN Resolved(run.tag, files[run.tag]) ELSE Go("api")

\* Any failure on this way leads to the API, and is not told.
FeedFails == (At("feed") \/ At("feedFiles")) /\ Go("api")

\* needs_nightly_lookup: a release that only points to a build names it in a
\* file, once that is uploaded.
LatestRelease ==
    IF ~pointer THEN Resolved(latest, files[latest])
    ELSE IF latest # 0 THEN Go("pointerFile")
    ELSE Resolved(0, {})

ApiAnswers == At("api") /\ LatestRelease

\* The API answers 60 times an hour.
ApiFails == At("api") /\ Go("redirect")

RedirectAnswers ==
    /\ At("redirect")
    /\ run' = [run EXCEPT !.pc = "latestFiles", !.tag = IF pointer THEN 0 ELSE latest]
    /\ UNCHANGED <<world, installed>>

\* expanded_assets of the tag the redirect named
LatestFilesAnswer ==
    /\ At("latestFiles")
    /\ IF run.tag # 0 THEN Resolved(run.tag, files[run.tag]) ELSE LatestRelease

PointerAnswers ==
    /\ At("pointerFile")
    /\ run' = [run EXCEPT !.pc = "nightlyFiles", !.tag = latest]
    /\ UNCHANGED <<world, installed>>

NightlyFilesAnswer == At("nightlyFiles") /\ Resolved(run.tag, files[run.tag])

\* The OSError of the last way is the caller's.
LookupFails ==
    /\ run.pc \in {"redirect", "latestFiles", "pointerFile", "nightlyFiles"}
    /\ Go("lost")

-----------------------------------------------------------------------------
(* cmd_setup.                                                              *)

\* Mutant of BuildIsRecentEnough: off by one.
BuildIsAlmostRecent(b) == b + 1 >= MinBuild

BuildIsRecentEnough(b) == b # 0 /\ b >= MinBuild

SecondLookup == [run EXCEPT !.pc = "feed", !.lookup = 2, !.tag = 0, !.listing = {}]

\* Mutant of First: the release is looked up again when it is installed.
FirstForgotten ==
    /\ run.lookup = 1
    /\ \/ At("lost") /\ run' = SecondLookup
       \/ At("resolved") /\ ~BuildIsRecentEnough(run.tag) /\ run' = [run EXCEPT !.pc = "refused"]
       \/ /\ At("resolved") /\ BuildIsRecentEnough(run.tag)
          /\ run' = [SecondLookup EXCEPT
                        !.planned = IF "windows" \in run.listing THEN run.tag ELSE 0]
    /\ UNCHANGED <<world, installed>>

\* Before the plan is shown: an OSError is a note, an old build is refused, and
\* files that were listed are those that will be installed.
First ==
    /\ run.lookup = 1
    /\ \/ At("lost") /\ run' = SecondLookup
       \/ At("resolved") /\ ~BuildIsRecentEnough(run.tag) /\ run' = [run EXCEPT !.pc = "refused"]
       \/ /\ At("resolved") /\ BuildIsRecentEnough(run.tag) /\ run.listing = {}
          /\ run' = SecondLookup
       \/ /\ At("resolved") /\ BuildIsRecentEnough(run.tag) /\ run.listing # {}
          /\ run' = [run EXCEPT
                        !.pc = "install",
                        !.planned = IF "windows" \in run.listing THEN run.tag ELSE 0]
    /\ UNCHANGED <<world, installed>>

\* When there is nothing to install yet; the build is not looked at again.
Second ==
    /\ run.lookup = 2
    /\ \/ At("lost") /\ Go("failed")
       \/ At("resolved") /\ Go("install")

\* _install_llama: the Windows build, if it is listed
Install ==
    /\ At("install") /\ "windows" \in run.listing
    /\ installed' = run.tag
    /\ run' = [run EXCEPT !.pc = "installed"]
    /\ UNCHANGED world

\* No such build is listed, or its download breaks off.
InstallFails == At("install") /\ Go("failed")

\* The user runs setup again.  Once something is installed it looks up nothing.
Rerun ==
    /\ run.pc \in {"refused", "failed"}
    /\ run' = NewRun
    /\ UNCHANGED <<world, installed>>

-----------------------------------------------------------------------------

Answer ==
    \/ FeedAnswers \/ FeedFilesAnswer \/ ApiAnswers \/ RedirectAnswers
    \/ LatestFilesAnswer \/ PointerAnswers \/ NightlyFilesAnswer

GitHub == Publish \/ (\E b \in Builds : Advance(b) \/ \E k \in Kinds : Upload(b, k))

Next ==
    \/ GitHub
    \/ FeedAnswers \/ FeedFilesAnswer \/ FeedFails
    \/ ApiAnswers \/ ApiFails
    \/ RedirectAnswers \/ LatestFilesAnswer \/ PointerAnswers \/ NightlyFilesAnswer
    \/ LookupFails
    \/ First \/ Second \/ Install \/ InstallFails \/ Rerun

Spec == Init /\ [][Next]_vars

\* setup runs on, the user runs it again, what was started on GitHub is
\* completed, and what is asked for again and again, the feed or a download,
\* comes at last.
Fairness ==
    /\ WF_vars(First \/ Second \/ Install \/ InstallFails \/ Rerun)
    /\ WF_vars(Answer \/ FeedFails \/ ApiFails \/ LookupFails)
    /\ WF_vars(Publish) /\ \A b \in Builds, k \in Kinds : WF_vars(Upload(b, k))
    /\ SF_vars(FeedAnswers) /\ SF_vars(FeedFilesAnswer) /\ SF_vars(Install)

LiveSpec == Spec /\ Fairness

-----------------------------------------------------------------------------
(* Properties.                                                             *)

\* "preflight refuses an old build" (cli.py): one is only installed by a run
\* whose first lookup brought no files, because it failed or nothing was
\* uploaded; what GitHub does between the two lookups never makes it happen.
OldOnlyUnlisted ==
    installed \in 1..(MinBuild - 1) => run.lookup = 2

\* The build setup named above the plan, its file listed, is the one that is
\* installed, although other builds are published meanwhile.
InstalledAsPlanned ==
    installed # 0 /\ run.planned # 0 => installed = run.planned

\* No way to a build, and no failure on another one, ends with a build that is
\* older than what was the latest when setup started.
NeverBehindLatest ==
    installed # 0 => installed >= run.atStart

\* "would have deadlocked the setup permanently" (install.py): it does not. If
\* the user goes on, something is installed.
GetsThrough == <>(installed # 0)
=============================================================================
