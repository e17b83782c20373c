---------------------------- MODULE StagingProofs ----------------------------
(***************************************************************************)
(* What Staging promises for any number of environments, builds, deploys   *)
(* and killed or failed scripts, until an agent dies under its script: if  *)
(* the environments of a host deploy builds of their own (Apart) and the   *)
(* builds have checksums, a stage that succeeded left complete files.      *)
(***************************************************************************)
EXTENDS Staging, TLAPS

Fetching == {"fetch", "fetching", "verify", "mark"}
Switched == {"remove", "copy", "copying", "link"}

\* A script works for an environment that has a deploy.
Placed == \A s \in Scripts : script[s].pc # "none" =>
            /\ script[s].env \in Envs
            /\ {script[s].build, goal[script[s].env]} \subseteq BuildsOf[script[s].env]
Goals == \A e \in Envs : stage[e] # "NONE" => goal[e] \in BuildsOf[e]

TypeInv == TypeOK /\ Placed /\ Goals

\* The agent's script runs for the goal and the stage of its environment. Who
\* downloads has seen no marker; between the removal of the old link and the new
\* one there is none.
Child == script["child"]
ChildOK ==
  Child.pc # "none" =>
    /\ Child.build = goal[Child.env]
    /\ stage[Child.env] = IF Child.pc \in Fetching \cup {"look"} THEN "DOWNLOADING" ELSE "STAGING"
    /\ Child.pc \in Fetching => ~marker[Child.build]
    /\ Child.pc = "mark" => war[Child.env][Child.build] = "whole"
    /\ Child.pc \in Switched => ~link[Child.env]
    /\ Child.pc = "copying" => served[Child.env] = [build |-> Child.build, content |-> "child"]
    /\ Child.pc = "link" => served[Child.env] = [build |-> Child.build, content |-> "whole"]

\* A marker stands for the complete file of the one environment that deploys the
\* build.
Marked ==
  /\ \A e \in Envs : \A b \in BuildsOf[e] : marker[b] => war[e][b] = "whole"
  /\ \A e \in Envs : stage[e] \in {"STAGING", "DONE"} => marker[goal[e]]

Files ==
  \A e \in Envs :
    /\ link[e] => served[e].content = "whole"
    /\ stage[e] = "DONE" => link[e] /\ served[e] = [build |-> goal[e], content |-> "whole"]

\* The inductive invariant.
Calm == script["orphan"] = NoScript /\ ChildOK /\ Marked /\ Files
Inv == TypeInv /\ (~crashed => Calm)

-----------------------------------------------------------------------------
LEMMA BuildsAre == ASSUME NEW e \in Envs, NEW b \in BuildsOf[e] PROVE b \in Builds
BY DEF Builds

LEMMA NoScriptIs ==
  /\ NoScript \in Script
  /\ NoScript.pc = "none"
BY DEF NoScript, Script

LEMMA TypeInit == ASSUME Init PROVE TypeInv
<1> USE StagingAssumption DEF Init
<1>1. TypeOK
  <2>1. script \in [Scripts -> Script]
    BY NoScriptIs
  <2>2. served \in [Envs -> [build : Builds \cup {None}, content : Content]]
    BY DEF NoFile, Content
  <2>3. war \in [Envs -> [Builds -> Content]] /\ marker \in [Builds -> BOOLEAN]
    BY DEF Content
  <2>4. goal \in [Envs -> Builds \cup {None}] /\ link \in [Envs -> BOOLEAN]
    OBVIOUS
  <2>5. stage \in [Envs -> {"NONE", "DOWNLOADING", "STAGING", "DONE"}]
    OBVIOUS
  <2>6. deploys \in 0 .. MaxDeploys /\ faults \in 0 .. MaxFaults
    BY SMT
  <2>7. crashed \in BOOLEAN
    OBVIOUS
  <2> QED
    BY <2>1, <2>2, <2>3, <2>4, <2>5, <2>6, <2>7 DEF TypeOK
<1>2. Placed /\ Goals
  BY NoScriptIs DEF Placed, Goals
<1> QED
  BY <1>1, <1>2 DEF TypeInv

\* Ending a script, or moving one that runs, keeps the records well-formed.
LEMMA EndKeeps ==
  ASSUME TypeInv, NEW s \in Scripts, End(s), goal' = goal
  PROVE  script' \in [Scripts -> Script] /\ Placed'
BY NoScriptIs DEF TypeInv, TypeOK, Placed, End

LEMMA GotoKeeps ==
  ASSUME TypeInv, NEW s \in Scripts, script[s].pc # "none",
         NEW pc \in {"look", "fetch", "fetching", "verify", "mark",
                     "unlink", "remove", "copy", "copying", "link"}, Goto(s, pc), goal' = goal
  PROVE  /\ script' \in [Scripts -> Script]
         /\ script' = [script EXCEPT ![s] = script'[s]]
         /\ script'[s].pc = pc
         /\ script'[s].env = script[s].env
         /\ script'[s].build = script[s].build
         /\ Placed'
<1>1. script \in [Scripts -> Script]
  BY DEF TypeInv, TypeOK
<1>2. script'[s] = [script[s] EXCEPT !.pc = pc] /\ script' = [script EXCEPT ![s] = script'[s]]
  BY <1>1 DEF Goto
<1>3. /\ script'[s] \in Script /\ script'[s].pc = pc
      /\ script'[s].env = script[s].env /\ script'[s].build = script[s].build
  BY <1>1, <1>2 DEF Script
<1>4. script' \in [Scripts -> Script]
  BY <1>1, <1>2, <1>3
<1>5. Placed'
  <2> SUFFICES ASSUME NEW t \in Scripts, script'[t].pc # "none"
               PROVE  /\ script'[t].env \in Envs
                      /\ {script'[t].build, goal[script'[t].env]} \subseteq BuildsOf[script'[t].env]
    BY DEF Placed
  <2>1. CASE t = s
    BY <1>3, <2>1 DEF TypeInv, Placed
  <2>2. CASE t # s
    BY <1>1, <1>2, <2>2 DEF TypeInv, Placed
  <2> QED
    BY <2>1, <2>2
<1> QED
  BY <1>2, <1>3, <1>4, <1>5

LEMMA SucceedKeeps ==
  ASSUME TypeInv, NEW s \in Scripts, script[s].pc # "none",
         NEW next \in {"STAGING", "DONE"}, Succeed(s, next), goal' = goal
  PROVE  /\ script' \in [Scripts -> Script]
         /\ stage' \in [Envs -> {"NONE", "DOWNLOADING", "STAGING", "DONE"}]
         /\ Placed' /\ Goals'
<1>1. script' \in [Scripts -> Script] /\ Placed'
  BY EndKeeps DEF Succeed
<1>2. script[s].env \in Envs /\ goal[script[s].env] \in BuildsOf[script[s].env]
  BY DEF TypeInv, Placed
<1>3. stage' = stage \/ stage' = [stage EXCEPT ![script[s].env] = next]
  BY DEF Succeed
<1>4. stage' \in [Envs -> {"NONE", "DOWNLOADING", "STAGING", "DONE"}]
  BY <1>2, <1>3 DEF TypeInv, TypeOK
<1>5. Goals'
  BY <1>2, <1>3 DEF TypeInv, TypeOK, Goals
<1> QED
  BY <1>1, <1>4, <1>5

LEMMA TypeStep == ASSUME TypeInv, [Next]_vars PROVE TypeInv'
<1> USE StagingAssumption
<1>1. ASSUME NEW s \in Scripts, Step(s) PROVE TypeInv'
  <2>1. script[s].pc # "none" /\ goal' = goal /\ deploys' = deploys /\ crashed' = crashed
    BY <1>1 DEF Step, Downloading, Switching, Look, Fetch, Fetched, Verify, Mark, Unlink,
       Remove, Copy, Copied, Link, At
  <2>2. /\ script[s].env \in Envs /\ script[s].build \in Builds
        /\ war[script[s].env][script[s].build] \in Content
    BY <2>1, BuildsAre DEF TypeInv, TypeOK, Placed
  <2>3. faults' \in 0 .. MaxFaults
    BY <1>1 DEF Step, Downloading, Switching, Look, Fetch, Fetched, Verify, Mark, Unlink,
       Remove, Copy, Copied, Link, Fault, TypeInv, TypeOK
  <2>4. /\ script' \in [Scripts -> Script] /\ Placed' /\ Goals'
        /\ stage' \in [Envs -> {"NONE", "DOWNLOADING", "STAGING", "DONE"}]
    <3>1. \/ End(s) /\ stage' = stage
          \/ \E pc \in {"look", "fetch", "fetching", "verify", "mark",
                         "unlink", "remove", "copy", "copying", "link"} :
               Goto(s, pc) /\ stage' = stage
          \/ \E next \in {"STAGING", "DONE"} : Succeed(s, next)
      BY <1>1 DEF Step, Downloading, Switching, Look, Fetch, Fetched, Verify, Mark, Unlink,
         Remove, Copy, Copied, Link
    <3>2. stage' = stage => /\ Goals'
                            /\ stage' \in [Envs -> {"NONE", "DOWNLOADING", "STAGING", "DONE"}]
      BY <2>1 DEF TypeInv, TypeOK, Goals
    <3> QED
      BY <2>1, <3>1, <3>2, EndKeeps, GotoKeeps, SucceedKeeps
  <2>5. war' \in [Envs -> [Builds -> Content]]
    <3>1. \/ war' = war
          \/ \E c \in Content : war' = [war EXCEPT ![script[s].env][script[s].build] = c]
      BY <1>1, <2>2 DEF Step, Downloading, Switching, Look, Fetch, Fetched, Verify, Mark, Unlink,
         Remove, Copy, Copied, Link, Content, files
    <3>2. war \in [Envs -> [Builds -> Content]]
      BY DEF TypeInv, TypeOK
    <3>3. \A c \in Content : [war[script[s].env] EXCEPT ![script[s].build] = c] \in [Builds -> Content]
      BY <2>2, <3>2
    <3>4. ASSUME NEW c \in Content
          PROVE  [war EXCEPT ![script[s].env][script[s].build] = c] \in [Envs -> [Builds -> Content]]
      <4> DEFINE f == [war[script[s].env] EXCEPT ![script[s].build] = c]
      <4>1. [war EXCEPT ![script[s].env][script[s].build] = c] = [war EXCEPT ![script[s].env] = f]
        OBVIOUS
      <4>2. f \in [Builds -> Content] /\ script[s].env \in Envs
        BY <2>2, <3>3
      <4> HIDE DEF f
      <4>3. [war EXCEPT ![script[s].env] = f] \in [Envs -> [Builds -> Content]]
        BY <3>2, <4>2
      <4> QED
        BY <4>1, <4>3
    <3>5. CASE war' = war
      BY <3>2, <3>5
    <3>6. ASSUME NEW c \in Content, war' = [war EXCEPT ![script[s].env][script[s].build] = c]
          PROVE  war' \in [Envs -> [Builds -> Content]]
      BY <3>4, <3>6, Zenon
    <3> QED
      BY <3>1, <3>5, <3>6, Zenon
  <2>6. marker' \in [Builds -> BOOLEAN]
    BY <1>1, <2>2 DEF Step, Downloading, Switching, Look, Fetch, Fetched, Verify, Mark, Unlink,
       Remove, Copy, Copied, Link, TypeInv, TypeOK, files
  <2>7. served' \in [Envs -> [build : Builds \cup {None}, content : Content]]
    <3> DEFINE File == [build : Builds \cup {None}, content : Content]
    <3>1. served \in [Envs -> [build : Builds \cup {None}, content : Content]]
      BY DEF TypeInv, TypeOK
    <3>2. \/ served' = served
          \/ served' = [served EXCEPT ![script[s].env] = NoFile]
          \/ served' = [served EXCEPT ![script[s].env] =
                          [build |-> script[s].build, content |-> s]]
          \/ \E c \in Content : served' = [served EXCEPT ![script[s].env].content = c]
      BY <1>1, <2>2, <3>1 DEF Step, Downloading, Switching, Look, Fetch, Fetched, Verify, Mark,
         Unlink, Remove, Copy, Copied, Link, files
    <3>3. NoFile \in File /\ [build |-> script[s].build, content |-> s] \in File
      BY <2>2 DEF NoFile, Content
    <3>4. \A c \in Content : [served[script[s].env] EXCEPT !.content = c] \in File
      BY <2>2, <3>1
    <3>5. CASE served' = [served EXCEPT ![script[s].env] = NoFile]
      BY <3>1, <3>3, <3>5
    <3>6. CASE served' = [served EXCEPT ![script[s].env] =
                           [build |-> script[s].build, content |-> s]]
      BY <3>1, <3>3, <3>6
    <3>7. ASSUME NEW c \in Content, served' = [served EXCEPT ![script[s].env].content = c]
          PROVE  served' \in [Envs -> File]
      BY <2>2, <3>1, <3>4, <3>7
    <3> QED
      BY <3>1, <3>2, <3>5, <3>6, <3>7
  <2>8. link' \in [Envs -> BOOLEAN]
    BY <1>1, <2>2 DEF Step, Downloading, Switching, Look, Fetch, Fetched, Verify, Mark, Unlink,
       Remove, Copy, Copied, Link, TypeInv, TypeOK, files
  <2> QED
    BY <2>1, <2>3, <2>4, <2>5, <2>6, <2>7, <2>8 DEF TypeInv, TypeOK
<1>2. ASSUME NEW e \in Envs, NewGoal(e) PROVE TypeInv'
  <2>1. PICK b \in BuildsOf[e] : goal' = [goal EXCEPT ![e] = b]
    BY <1>2 DEF NewGoal
  <2>2. goal' \in [Envs -> Builds \cup {None}] /\ Goals'
    BY <1>2, <2>1, BuildsAre DEF NewGoal, TypeInv, TypeOK, Goals
  <2>3. script' \in [Scripts -> Script] /\ Placed'
    <3>1. script \in [Scripts -> Script] /\ script' = [script EXCEPT !["child"] = NoScript]
      BY <1>2 DEF NewGoal, End, TypeInv, TypeOK
    <3>2. script' \in [Scripts -> Script]
      BY <3>1, NoScriptIs
    <3> SUFFICES ASSUME NEW t \in Scripts, script'[t].pc # "none"
                 PROVE  /\ script'[t].env \in Envs
                        /\ {script'[t].build, goal'[script'[t].env]} \subseteq BuildsOf[script'[t].env]
      BY <3>2 DEF Placed
    <3>3. script'[t] = script[t] /\ script[t].pc # "none"
      BY <3>1, NoScriptIs
    <3> QED
      BY <2>1, <3>3 DEF TypeInv, TypeOK, Placed
  <2>4. stage' \in [Envs -> {"NONE", "DOWNLOADING", "STAGING", "DONE"}]
    BY <1>2 DEF NewGoal, TypeInv, TypeOK
  <2>5. deploys' \in 0 .. MaxDeploys
    BY <1>2 DEF NewGoal, TypeInv, TypeOK
  <2> QED
    BY <1>2, <2>2, <2>3, <2>4, <2>5 DEF NewGoal, files, TypeInv, TypeOK
<1>3. ASSUME NEW e \in Envs, Begin(e) PROVE TypeInv'
  <2> DEFINE new == [pc |-> IF stage[e] = "DOWNLOADING" THEN "look" ELSE "unlink",
                     env |-> e, build |-> goal[e]]
  <2>1. goal[e] \in BuildsOf[e] /\ goal[e] \in Builds
    BY <1>3, BuildsAre DEF Begin, TypeInv, Goals
  <2>2. new \in Script
    BY <2>1 DEF Script
  <2>3. script' = [script EXCEPT !["child"] = new]
    BY <1>3 DEF Begin
  <2>4. script' \in [Scripts -> Script]
    BY <2>2, <2>3 DEF TypeInv, TypeOK
  <2>5. Placed'
    BY <1>3, <2>1, <2>3 DEF Begin, TypeInv, TypeOK, Placed
  <2> QED
    BY <1>3, <2>4, <2>5 DEF Begin, files, TypeInv, TypeOK, Goals
<1>4. ASSUME NEW s \in Scripts, Die(s) PROVE TypeInv'
  <2>1. script' \in [Scripts -> Script] /\ Placed'
    BY <1>4, EndKeeps DEF Die
  <2>2. faults' \in 0 .. MaxFaults
    BY <1>4 DEF Die, Fault, TypeInv, TypeOK
  <2> QED
    BY <1>4, <2>1, <2>2 DEF Die, files, TypeInv, TypeOK, Goals
<1>5. ASSUME Crash PROVE TypeInv'
  <2>1. script' \in [Scripts -> Script] /\ Placed'
    BY <1>5, NoScriptIs DEF Crash, Scripts, TypeInv, TypeOK, Placed
  <2>2. faults' \in 0 .. MaxFaults /\ "orphan" \in Content
    BY <1>5 DEF Crash, Fault, TypeInv, TypeOK, Content, Scripts
  <2>3. war' \in [Envs -> [Builds -> Content]]
    BY <1>5, <2>2 DEF Crash, TypeInv, TypeOK
  <2>4. served' \in [Envs -> [build : Builds \cup {None}, content : Content]]
    <3>1. served \in [Envs -> [build : Builds \cup {None}, content : Content]]
      BY DEF TypeInv, TypeOK
    <3>2. \/ served' = served
          \/ served' = [served EXCEPT ![Child.env] = [@ EXCEPT !.content = "orphan"]]
      BY <1>5 DEF Crash, Child
    <3>3. ASSUME NEW e \in Envs
          PROVE  [served[e] EXCEPT !.content = "orphan"] \in [build : Builds \cup {None}, content : Content]
      BY <2>2, <3>1
    <3> QED
      BY <3>1, <3>2, <3>3
  <2> QED
    BY <1>5, <2>1, <2>2, <2>3, <2>4 DEF Crash, TypeInv, TypeOK, Goals
<1>6. CASE UNCHANGED vars
  BY <1>6 DEF vars, files, TypeInv, TypeOK, Placed, Goals
<1> QED
  BY <1>1, <1>2, <1>3, <1>4, <1>5, <1>6 DEF Next

-----------------------------------------------------------------------------
\* Nothing is asked of a script that is over.
LEMMA EndCalm ==
  ASSUME TypeInv, Calm, End("child"), Marked', Files' PROVE Calm'
<1>1. script'["orphan"] = NoScript /\ script'["child"] = NoScript
  BY DEF End, Calm, TypeInv, TypeOK, Scripts
<1> QED
  BY <1>1, NoScriptIs DEF Calm, ChildOK, Child

\* A script that runs keeps to its environment and build.
LEMMA GotoCalm ==
  ASSUME TypeInv, Calm, Child.pc # "none", goal' = goal,
         NEW pc \in {"look", "fetch", "fetching", "verify", "mark",
                     "unlink", "remove", "copy", "copying", "link"}, Goto("child", pc)
  PROVE  /\ script'["orphan"] = NoScript
         /\ Child' = [pc |-> pc, env |-> Child.env, build |-> Child.build]
         /\ Child.env \in Envs /\ Child.build \in BuildsOf[Child.env] /\ Child.build \in Builds
<1>1. "child" \in Scripts /\ "orphan" \in Scripts
  BY DEF Scripts
<1>2. script \in [Scripts -> Script] /\ Child \in Script
  BY <1>1 DEF TypeInv, TypeOK, Child
<1>3. Child' = [Child EXCEPT !.pc = pc] /\ script'["orphan"] = script["orphan"]
  BY <1>1, <1>2 DEF Goto, Child
<1>4. Child' = [pc |-> pc, env |-> Child.env, build |-> Child.build]
  BY <1>2, <1>3 DEF Script
<1> QED
  BY <1>1, <1>3, <1>4, BuildsAre DEF Calm, TypeInv, Placed, Child

LEMMA DownloadingCalm ==
  ASSUME Apart, Checksums, TypeInv, Calm, Downloading("child") PROVE Calm'
<1> DEFINE e == Child.env
           b == Child.build
<1> USE DEF Child
<1>1. /\ goal' = goal /\ Child.pc # "none"
      /\ e \in Envs /\ b \in BuildsOf[e] /\ b \in Builds /\ b = goal[e]
      /\ stage[e] = "DOWNLOADING" /\ "child" \in Scripts
  <2>1. goal' = goal /\ Child.pc \in Fetching \cup {"look"} /\ "child" \in Scripts
    BY DEF Downloading, Look, Fetch, Fetched, Verify, Mark, At, Fetching, Scripts
  <2> QED
    BY <2>1, BuildsAre DEF Calm, ChildOK, TypeInv, Placed, Fetching
<1>2. CASE Look("child") /\ marker[b]
  <2>1. End("child") /\ stage' = [stage EXCEPT ![e] = "STAGING"] /\ UNCHANGED files
    BY <1>2 DEF Look, Succeed
  <2>2. Marked' /\ Files'
    BY <1>1, <1>2, <2>1 DEF files, Calm, Marked, Files, TypeInv, TypeOK
  <2> QED
    BY <2>1, <2>2, EndCalm
<1>3. CASE Look("child") /\ ~marker[b]
  <2>1. Goto("child", "fetch") /\ stage' = stage /\ UNCHANGED files
    BY <1>3 DEF Look
  <2> QED
    BY <1>1, <1>3, <2>1, GotoCalm DEF files, Calm, ChildOK, Marked, Files, Fetching, Switched
<1>4. CASE Fetch("child") \/ Fetched("child")
  <2>1. PICK pc \in {"fetching", "verify"} : Goto("child", pc)
    BY <1>4 DEF Fetch, Fetched
  <2>2. /\ UNCHANGED <<stage, marker, served, link>> /\ ~marker[b]
        /\ \E c : war' = [war EXCEPT ![e][b] = c]
    BY <1>1, <1>4 DEF Fetch, Fetched, At, Calm, ChildOK, Fetching
  <2>3. \A f \in Envs : \A d \in BuildsOf[f] : marker[d] => war'[f][d] = war[f][d]
    BY <1>1, <2>2, BuildsAre DEF TypeInv, TypeOK
  <2>4. Marked' /\ Files'
    BY <1>1, <2>2, <2>3 DEF Calm, Marked, Files
  <2> QED
    BY <1>1, <2>1, <2>2, <2>4, GotoCalm DEF Calm, ChildOK, Fetching, Switched
<1>5. CASE Verify("child")
  <2>1. UNCHANGED <<goal, stage, files>>
    BY <1>5 DEF Verify
  <2>2. Marked' /\ Files'
    BY <2>1 DEF files, Calm, Marked, Files
  <2>3. CASE End("child")
    BY <2>2, <2>3, EndCalm
  <2>4. CASE Goto("child", "mark") /\ war[e][b] = "whole"
    <3>1. ~marker[b]
      BY <1>5 DEF Verify, At, Calm, ChildOK, Fetching
    <3> QED
      BY <1>1, <2>1, <2>2, <2>4, <3>1, GotoCalm DEF files, Calm, ChildOK, Fetching, Switched
  <2> QED
    BY <1>5, <2>3, <2>4 DEF Verify
<1>6. CASE Mark("child")
  <2>1. /\ marker' = [marker EXCEPT ![b] = TRUE] /\ stage' = [stage EXCEPT ![e] = "STAGING"]
        /\ End("child") /\ UNCHANGED <<war, served, link>>
    BY <1>6 DEF Mark, Succeed
  <2>2. war[e][b] = "whole"
    BY <1>1, <1>6 DEF Mark, At, Calm, ChildOK
  <2>3. \A f \in Envs : b \in BuildsOf[f] => f = e
    BY <1>1 DEF Apart
  <2>4. Marked'
    <3>1. \A d \in Builds : marker'[d] = (d = b \/ marker[d])
      BY <1>1, <2>1 DEF TypeInv, TypeOK
    <3>2. \A f \in Envs : \A d \in BuildsOf[f] : marker'[d] => war'[f][d] = "whole"
      BY <2>1, <2>2, <2>3, <3>1, BuildsAre DEF Calm, Marked
    <3>3. \A f \in Envs : stage'[f] \in {"STAGING", "DONE"} => marker'[goal[f]]
      BY <1>1, <2>1, <3>1, BuildsAre DEF Calm, Marked, TypeInv, TypeOK, Goals
    <3> QED
      BY <1>1, <3>2, <3>3 DEF Marked
  <2>5. Files'
    BY <1>1, <2>1 DEF Calm, Files, TypeInv, TypeOK
  <2> QED
    BY <2>1, <2>4, <2>5, EndCalm
<1> QED
  BY <1>2, <1>3, <1>4, <1>5, <1>6 DEF Downloading

LEMMA SwitchingCalm == ASSUME TypeInv, Calm, Switching("child") PROVE Calm'
<1> DEFINE e == Child.env
           b == Child.build
<1> USE DEF Child
<1>1. /\ UNCHANGED <<goal, war, marker>> /\ Child.pc # "none"
      /\ e \in Envs /\ b \in BuildsOf[e] /\ b \in Builds /\ b = goal[e]
      /\ stage[e] = "STAGING" /\ "child" \in Scripts
  <2>1. /\ UNCHANGED <<goal, war, marker>> /\ "child" \in Scripts
        /\ Child.pc \in {"unlink"} \cup Switched
    BY DEF Switching, Unlink, Remove, Copy, Copied, Link, At, Switched, Scripts
  <2> QED
    BY <2>1, BuildsAre DEF Calm, ChildOK, TypeInv, Placed, Switched, Fetching
<1>2. war[e][b] = "whole"
  BY <1>1 DEF Calm, Marked
<1>3. stage' = stage => Marked'
  BY <1>1 DEF Calm, Marked
\* The environment under way is not DONE, the others are left alone.
<1>4. ASSUME stage' = stage, ~link'[e],
             \A f \in Envs : f # e => link'[f] = link[f] /\ served'[f] = served[f]
      PROVE  Files'
  BY <1>1, <1>4 DEF Calm, Files
<1>5. CASE Unlink("child")
  <2>1. Goto("child", "remove") /\ UNCHANGED <<stage, served>>
    BY <1>5 DEF Unlink
  <2>2. link' = IF served[e] = NoFile THEN link ELSE [link EXCEPT ![e] = FALSE]
    BY <1>5 DEF Unlink
  <2>3. link[e] => served[e] # NoFile
    <3>1. NoFile.content # "whole"
      BY DEF NoFile
    <3>2. link[e] => served[e].content = "whole"
      BY <1>1 DEF Calm, Files
    <3> HIDE DEF Child
    <3> QED
      BY <3>1, <3>2
  <2>4. ~link'[e] /\ \A f \in Envs : f # e => link'[f] = link[f]
    BY <1>1, <2>2, <2>3 DEF TypeInv, TypeOK
  <2> QED
    BY <1>1, <1>3, <1>4, <2>1, <2>4, GotoCalm DEF Calm, ChildOK, Fetching, Switched
<1>6. CASE Remove("child")
  <2>1. /\ Goto("child", "copy") /\ UNCHANGED <<stage, link>>
        /\ served' = [served EXCEPT ![e] = NoFile]
    BY <1>2, <1>6 DEF Remove
  <2>2. ~link[e]
    BY <1>6 DEF Remove, At, Calm, ChildOK, Switched
  <2>3. \A f \in Envs : f # e => served'[f] = served[f]
    BY <2>1 DEF TypeInv, TypeOK
  <2> QED
    BY <1>1, <1>3, <1>4, <2>1, <2>2, <2>3, GotoCalm DEF Calm, ChildOK, Fetching, Switched
<1>7. CASE Copy("child")
  <2>1. /\ Goto("child", "copying") /\ UNCHANGED <<stage, link>>
        /\ served' = [served EXCEPT ![e] = [build |-> b, content |-> "child"]]
    BY <1>7 DEF Copy
  <2>2. ~link[e]
    BY <1>7 DEF Copy, At, Calm, ChildOK, Switched
  <2>3. /\ \A f \in Envs : f # e => served'[f] = served[f]
        /\ served'[e] = [build |-> b, content |-> "child"]
    BY <1>1, <2>1 DEF TypeInv, TypeOK
  <2> QED
    BY <1>1, <1>3, <1>4, <2>1, <2>2, <2>3, GotoCalm DEF Calm, ChildOK, Fetching, Switched
<1>8. CASE Copied("child")
  <2>1. /\ Goto("child", "link") /\ UNCHANGED <<stage, link>> /\ ~link[e]
        /\ served[e] = [build |-> b, content |-> "child"]
    BY <1>8 DEF Copied, At, Calm, ChildOK, Switched
  <2>2. served' = [served EXCEPT ![e].content = "whole"]
    BY <1>2, <1>8, <2>1 DEF Copied, Scripts
  <2>3. /\ \A f \in Envs : f # e => served'[f] = served[f]
        /\ served'[e] = [build |-> b, content |-> "whole"]
    BY <1>1, <2>1, <2>2 DEF TypeInv, TypeOK
  <2> QED
    BY <1>1, <1>3, <1>4, <2>1, <2>3, GotoCalm DEF Calm, ChildOK, Fetching, Switched
<1>9. CASE Link("child")
  <2>1. ~link[e] /\ served[e] = [build |-> b, content |-> "whole"]
    BY <1>9 DEF Link, At, Calm, ChildOK, Switched
  <2>2. /\ End("child") /\ served' = served /\ link' = [link EXCEPT ![e] = TRUE]
        /\ stage' = [stage EXCEPT ![e] = "DONE"]
    BY <1>9, <2>1 DEF Link, Succeed
  <2>3. Marked'
    BY <1>1, <2>2 DEF Calm, Marked, TypeInv, TypeOK
  <2>4. Files'
    BY <1>1, <2>1, <2>2 DEF Calm, Files, TypeInv, TypeOK
  <2> QED
    BY <2>2, <2>3, <2>4, EndCalm
<1> QED
  BY <1>5, <1>6, <1>7, <1>8, <1>9 DEF Switching

LEMMA InvStep == ASSUME Apart, Checksums, Inv, [Next]_vars PROVE Inv'
<1>1. TypeInv /\ TypeInv'
  BY TypeStep DEF Inv
<1> SUFFICES ASSUME ~crashed' PROVE Calm'
  BY <1>1 DEF Inv
<1>2. Calm /\ ~Crash
  <2>1. crashed \in BOOLEAN /\ crashed' \in {crashed, TRUE}
    BY <1>1 DEF TypeInv, TypeOK, Next, NewGoal, Begin, Step, Downloading, Switching, Look, Fetch,
       Fetched, Verify, Mark, Unlink, Remove, Copy, Copied, Link, Die, Crash, vars
  <2> QED
    BY <2>1 DEF Inv, Crash
<1>3. ASSUME NEW s \in Scripts, Step(s) \/ Die(s) PROVE Calm'
  <2>1. s = "child"
    BY <1>2, <1>3, NoScriptIs DEF Calm, Scripts, Die, Step, Downloading, Switching, Look, Fetch,
       Fetched, Verify, Mark, Unlink, Remove, Copy, Copied, Link, At
  <2>2. CASE Step(s)
    BY <1>1, <1>2, <2>1, <2>2, DownloadingCalm, SwitchingCalm DEF Step
  <2>3. CASE Die(s)
    BY <1>1, <1>2, <2>1, <2>3, EndCalm DEF Die, files, Calm, Marked, Files
  <2> QED
    BY <1>3, <2>2, <2>3
<1>4. ASSUME NEW e \in Envs, NewGoal(e) PROVE Calm'
  <2>1. /\ End("child") /\ UNCHANGED files
        /\ stage' = [stage EXCEPT ![e] = "DOWNLOADING"]
        /\ \A f \in Envs : f # e => goal'[f] = goal[f]
    BY <1>1, <1>4 DEF NewGoal, TypeInv, TypeOK
  <2>2. Marked'
    BY <1>1, <1>2, <2>1 DEF files, Calm, Marked, TypeInv, TypeOK
  <2>3. Files'
    BY <1>1, <1>2, <2>1 DEF files, Calm, Files, TypeInv, TypeOK
  <2> QED
    BY <1>1, <1>2, <2>1, <2>2, <2>3, EndCalm
<1>5. ASSUME NEW e \in Envs, Begin(e) PROVE Calm'
  <2>1. /\ UNCHANGED <<goal, stage, files>> /\ stage[e] \in {"DOWNLOADING", "STAGING"}
        /\ script'["orphan"] = script["orphan"]
        /\ script'["child"] = [pc |-> IF stage[e] = "DOWNLOADING" THEN "look" ELSE "unlink",
                               env |-> e, build |-> goal[e]]
    BY <1>1, <1>5 DEF Begin, TypeInv, TypeOK, Scripts
  <2> QED
    BY <1>2, <2>1 DEF files, Calm, ChildOK, Child, Marked, Files, Fetching, Switched
<1>6. CASE UNCHANGED vars
  BY <1>2, <1>6 DEF vars, files, Calm, ChildOK, Child, Marked, Files
<1> QED
  BY <1>2, <1>3, <1>4, <1>5, <1>6 DEF Next

LEMMA InvInit == ASSUME Init PROVE Inv
<1>1. Calm
  BY NoScriptIs DEF Init, Calm, ChildOK, Child, Marked, Files, Builds, Scripts
<1> QED
  BY <1>1, TypeInit DEF Inv

LEMMA InvCorrect == ASSUME Apart, Checksums PROVE Spec => []Inv
BY InvInit, InvStep, PTL DEF Spec

-----------------------------------------------------------------------------
\* Every variable keeps its type, whoever crashes and whatever is shared.
THEOREM TypeCorrect == Spec => []TypeOK
<1>1. TypeInv => TypeOK
  BY DEF TypeInv
<1> QED
  BY <1>1, TypeInit, TypeStep, PTL DEF Spec

\* However many scripts are killed or fail, the target of an environment never
\* leads to a part of a build (Stager.enable_package).
THEOREM TargetStaysWhole == ASSUME Apart, Checksums PROVE Spec => []TargetIsWhole
<1>1. Inv => TargetIsWhole
  BY DEF Inv, Calm, Files, TargetIsWhole
<1> QED
  BY <1>1, InvCorrect, PTL

\* After STAGING the target leads to the build of the deploy
\* (DeployAgent.process_deploy).
THEOREM DoneStaysServed == ASSUME Apart, Checksums PROVE Spec => []DoneServesGoal
<1>1. Inv => DoneServesGoal
  BY DEF Inv, Calm, Files, DoneServesGoal
<1> QED
  BY <1>1, InvCorrect, PTL

\* After DOWNLOADING the file to stage is complete; run StagingShared shows that
\* this needs Apart (Downloader.download).
THEOREM DownloadedStaysWhole == ASSUME Apart, Checksums PROVE Spec => []DownloadedIsWhole
<1>1. Inv => DownloadedIsWhole
  BY DEF Inv, TypeInv, Goals, Calm, Marked, DownloadedIsWhole
<1> QED
  BY <1>1, InvCorrect, PTL
=============================================================================
