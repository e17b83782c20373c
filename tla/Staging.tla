------------------------------- MODULE Staging -------------------------------
(***************************************************************************)
(* The files of one host: how its agent downloads a build (deploy-          *)
(* downloader) and puts it in place (deploy-stager). Environments of the   *)
(* host share the directory of builds, which holds for an environment e    *)
(* and a build b                                                           *)
(*   e_b.war       what was downloaded,                                    *)
(*   b.extracted   the marker of a finished download,                      *)
(*   e.war         the copy in use, to which the target of e is a link.    *)
(* The executor runs one script at a time, in a session of its own: a      *)
(* timeout or another goal kills it wherever it is, but when the agent     *)
(* dies, it goes on beside the scripts of the next agent.                  *)
(***************************************************************************)
EXTENDS Naturals

CONSTANTS
  Envs,         \* environments of the host
  BuildsOf,     \* the builds that an environment deploys
  Checksums,    \* whether the store has checksums of the builds
  MaxDeploys,   \* bound on deploys
  MaxFaults,    \* bound on killed and failed scripts, error pages, agents that die
  None

Builds == UNION {BuildsOf[e] : e \in Envs}

ASSUME StagingAssumption ==
  /\ BuildsOf \in [Envs -> SUBSET Builds]
  /\ Checksums \in BOOLEAN
  /\ MaxDeploys \in Nat /\ MaxFaults \in Nat
  /\ None \notin Envs \cup Builds

VARIABLES
  goal,     \* the build of the deploy of an environment (build_info)
  stage,    \* what the agent has to do for it next
  war,      \* content of e_b.war
  marker,   \* whether b.extracted exists
  served,   \* e.war: the build copied and the content
  link,     \* whether the target of e is a link to e.war
  script,   \* the script of the agent, and one of an agent that died
  deploys, faults, \* history: how many so far
  crashed   \* history: an agent died under its script

files == <<war, marker, served, link>>
vars == <<goal, stage, files, script, deploys, faults, crashed>>

Scripts == {"child", "orphan"}
NoScript == [pc |-> "none", env |-> None, build |-> None]
NoFile == [build |-> None, content |-> "none"]

\* A file somebody began to write has that script as its content.
Content == {"none", "whole", "page"} \cup Scripts

Init ==
  /\ goal = [e \in Envs |-> None]
  /\ stage = [e \in Envs |-> "NONE"]
  /\ war = [e \in Envs |-> [b \in Builds |-> "none"]]
  /\ marker = [b \in Builds |-> FALSE]
  /\ served = [e \in Envs |-> NoFile]
  /\ link = [e \in Envs |-> FALSE]
  /\ script = [s \in Scripts |-> NoScript]
  /\ deploys = 0 /\ faults = 0
  /\ crashed = FALSE

Fault == faults < MaxFaults /\ faults' = faults + 1

At(s, pc)   == script[s].pc = pc
Goto(s, pc) == script' = [script EXCEPT ![s].pc = pc]
End(s)      == script' = [script EXCEPT ![s] = NoScript]

\* Exit code 0: the agent, if it still is there, reports it and goes on.
Succeed(s, next) ==
  /\ End(s)
  /\ stage' = IF s = "child" THEN [stage EXCEPT ![script[s].env] = next] ELSE stage

-----------------------------------------------------------------------------
(* Downloader.download *)

\* The marker has the name of the build only.
Look(s) ==
  /\ At(s, "look")
  /\ \/ marker[script[s].build] /\ Succeed(s, "STAGING")
     \/ ~marker[script[s].build] /\ Goto(s, "fetch") /\ stage' = stage
  /\ UNCHANGED <<goal, files, deploys, faults, crashed>>

\* Mutant of Fetch: the marker is written first.
FetchMarked(s) ==
  LET e == script[s].env  b == script[s].build IN
  /\ At(s, "fetch")
  /\ war' = [war EXCEPT ![e][b] = s]
  /\ marker' = [marker EXCEPT ![b] = TRUE]
  /\ Goto(s, "fetching")
  /\ UNCHANGED <<goal, stage, served, link, deploys, faults, crashed>>

\* curl -o opens and truncates the file.
Fetch(s) ==
  LET e == script[s].env  b == script[s].build IN
  /\ At(s, "fetch")
  /\ war' = [war EXCEPT ![e][b] = s]
  /\ Goto(s, "fetching")
  /\ UNCHANGED <<goal, stage, marker, served, link, deploys, faults, crashed>>

\* The transfer ends. Without -f an error page is a success for curl. Who is not
\* the last to have truncated the file leaves a hole in it.
Fetched(s) ==
  LET e == script[s].env  b == script[s].build IN
  /\ At(s, "fetching")
  /\ \E c \in {"whole", "page"} :
       /\ war' = [war EXCEPT ![e][b] = IF @ = s THEN c ELSE @]
       /\ IF c = "page" THEN Fault ELSE faults' = faults
  /\ Goto(s, "verify")
  /\ UNCHANGED <<goal, stage, marker, served, link, deploys, crashed>>

\* Compare with the checksum, if there is one.
Verify(s) ==
  /\ At(s, "verify")
  /\ IF Checksums /\ war[script[s].env][script[s].build] # "whole" THEN End(s) ELSE Goto(s, "mark")
  /\ UNCHANGED <<goal, stage, files, deploys, faults, crashed>>

\* Mutant of Mark: on to a stage that nothing here handles.
MarkOnward(s) ==
  /\ At(s, "mark")
  /\ marker' = [marker EXCEPT ![script[s].build] = TRUE]
  /\ Succeed(s, "POST_DOWNLOAD")
  /\ UNCHANGED <<goal, war, served, link, deploys, faults, crashed>>

Mark(s) ==
  /\ At(s, "mark")
  /\ marker' = [marker EXCEPT ![script[s].build] = TRUE]
  /\ Succeed(s, "STAGING")
  /\ UNCHANGED <<goal, war, served, link, deploys, faults, crashed>>

-----------------------------------------------------------------------------
(* Stager.enable_package. The name of the enabled build is e.war, never that of *)
(* the build to stage, so the early return is not taken.                        *)

\* Mutant of Unlink: the link stays until it is replaced.
UnlinkNothing(s) ==
  /\ At(s, "unlink")
  /\ Goto(s, "remove")
  /\ UNCHANGED <<goal, stage, files, deploys, faults, crashed>>

\* Mutant of Unlink: what the link leads to is removed instead of the link.
UnlinkTarget(s) ==
  /\ At(s, "unlink")
  /\ served' = [served EXCEPT ![script[s].env] = IF link[script[s].env] THEN NoFile ELSE @]
  /\ Goto(s, "remove")
  /\ UNCHANGED <<goal, stage, war, marker, link, deploys, faults, crashed>>

\* os.path.exists follows the link: a dangling one stays.
Unlink(s) ==
  LET e == script[s].env IN
  /\ At(s, "unlink")
  /\ link' = IF served[e] = NoFile THEN link ELSE [link EXCEPT ![e] = FALSE]
  /\ Goto(s, "remove")
  /\ UNCHANGED <<goal, stage, war, marker, served, deploys, faults, crashed>>

\* chown needs the file of this environment; then the old copy is removed.
Remove(s) ==
  LET e == script[s].env IN
  /\ At(s, "remove")
  /\ \/ /\ war[e][script[s].build] = "none"
        /\ End(s)
        /\ served' = served
     \/ /\ war[e][script[s].build] # "none"
        /\ served' = [served EXCEPT ![e] = NoFile]
        /\ Goto(s, "copy")
  /\ UNCHANGED <<goal, stage, war, marker, link, deploys, faults, crashed>>

Copy(s) ==
  /\ At(s, "copy")
  /\ served' = [served EXCEPT ![script[s].env] = [build |-> script[s].build, content |-> s]]
  /\ Goto(s, "copying")
  /\ UNCHANGED <<goal, stage, war, marker, link, deploys, faults, crashed>>

\* A copy of what there was to read; nothing if the copy was removed meanwhile.
Copied(s) ==
  LET e == script[s].env  b == script[s].build IN
  /\ At(s, "copying")
  /\ served' = [served EXCEPT ![e].content =
       IF @ # s \/ war[e][b] \in Scripts THEN @ ELSE war[e][b]]
  /\ Goto(s, "link")
  /\ UNCHANGED <<goal, stage, war, marker, link, deploys, faults, crashed>>

\* os.symlink fails if there is a link. The rename is one of the link to itself.
Link(s) ==
  LET e == script[s].env IN
  /\ At(s, "link")
  /\ \/ link[e] /\ End(s) /\ UNCHANGED <<stage, link>>
     \/ ~link[e] /\ link' = [link EXCEPT ![e] = TRUE] /\ Succeed(s, "DONE")
  /\ UNCHANGED <<goal, war, marker, served, deploys, faults, crashed>>

-----------------------------------------------------------------------------
(* The agent. *)

\* An answer brings a new deploy, or the same from the start after a reset.
\* Executor.run_cmd kills the script that is running for another goal.
NewGoal(e) ==
  /\ deploys < MaxDeploys
  /\ deploys' = deploys + 1
  /\ \E b \in BuildsOf[e] : goal' = [goal EXCEPT ![e] = b]
  /\ stage' = [stage EXCEPT ![e] = "DOWNLOADING"]
  /\ End("child")
  /\ UNCHANGED <<files, faults, crashed>>

\* process_deploy: the stage is begun, or begun again.
Begin(e) ==
  /\ At("child", "none")
  /\ stage[e] \in {"DOWNLOADING", "STAGING"}
  /\ script' = [script EXCEPT !["child"] =
       [pc |-> IF stage[e] = "DOWNLOADING" THEN "look" ELSE "unlink",
        env |-> e, build |-> goal[e]]]
  /\ UNCHANGED <<goal, stage, files, deploys, faults, crashed>>

\* A script is killed (timeout, a goal for another environment) or fails.
Die(s) ==
  /\ ~At(s, "none")
  /\ Fault
  /\ End(s)
  /\ UNCHANGED <<goal, stage, files, deploys, crashed>>

\* The agent dies and is started again; the script has a session of its own.
Crash ==
  LET c == script["child"] IN
  /\ c.pc # "none"
  /\ At("orphan", "none")
  /\ Fault
  /\ script' = [script EXCEPT !["child"] = NoScript, !["orphan"] = c]
  /\ war' = IF c.pc = "fetching" /\ war[c.env][c.build] = "child"
            THEN [war EXCEPT ![c.env][c.build] = "orphan"] ELSE war
  /\ served' = IF c.pc = "copying" /\ served[c.env].content = "child"
               THEN [served EXCEPT ![c.env].content = "orphan"] ELSE served
  /\ crashed' = TRUE
  /\ UNCHANGED <<goal, stage, marker, link, deploys>>

Downloading(s) == Look(s) \/ Fetch(s) \/ Fetched(s) \/ Verify(s) \/ Mark(s)
Switching(s) == Unlink(s) \/ Remove(s) \/ Copy(s) \/ Copied(s) \/ Link(s)
Step(s) == Downloading(s) \/ Switching(s)

Next ==
  \/ \E e \in Envs : NewGoal(e) \/ Begin(e)
  \/ \E s \in Scripts : Step(s) \/ Die(s)
  \/ Crash

Spec == Init /\ [][Next]_vars

\* The agent pings for ever and its scripts come to an end; those of an agent
\* that died may hang.
FairSpec == Spec /\ WF_vars(\E e \in Envs : Begin(e)) /\ WF_vars(Step("child"))
-----------------------------------------------------------------------------
(***************************************************************************)
(* Properties.                                                             *)
(***************************************************************************)
Script == [pc : {"none", "look", "fetch", "fetching", "verify", "mark",
                 "unlink", "remove", "copy", "copying", "link"},
           env : Envs \cup {None}, build : Builds \cup {None}]

TypeOK ==
  /\ goal \in [Envs -> Builds \cup {None}]
  /\ stage \in [Envs -> {"NONE", "DOWNLOADING", "STAGING", "DONE"}]
  /\ war \in [Envs -> [Builds -> Content]]
  /\ marker \in [Builds -> BOOLEAN]
  /\ served \in [Envs -> [build : Builds \cup {None}, content : Content]]
  /\ link \in [Envs -> BOOLEAN]
  /\ script \in [Scripts -> Script]
  /\ deploys \in 0 .. MaxDeploys /\ faults \in 0 .. MaxFaults
  /\ crashed \in BOOLEAN

\* The environments of the host deploy builds of their own.
Apart == \A e, f \in Envs : e # f => BuildsOf[e] \cap BuildsOf[f] = {}

\* "{} exists. tarball have already been extracted.": after DOWNLOADING the file
\* to stage is there and complete.
DownloadedIsWhole ==
  ~crashed => \A e \in Envs : stage[e] \in {"STAGING", "DONE"} => war[e][goal[e]] = "whole"

\* Whenever the target of an environment exists, it leads to a complete build:
\* however often scripts were killed half-way, what runs the service never finds
\* a part of one there (unless an agent died under its script).
TargetIsWhole ==
  ~crashed => \A e \in Envs : link[e] => served[e].content = "whole"

\* Once STAGING was reported as SUCCEEDED, the target leads to the build of the
\* deploy, whatever other environments and scripts killed before have left.
DoneServesGoal ==
  ~crashed => \A e \in Envs :
    stage[e] = "DONE" => link[e] /\ served[e] = [build |-> goal[e], content |-> "whole"]

\* Scripts are started again until the stage is done: no files that killed or
\* abandoned scripts leave behind, a dangling link for one, keep the host from it.
Staged == <>[](\A e \in Envs : stage[e] \in {"NONE", "DONE"})
=============================================================================
