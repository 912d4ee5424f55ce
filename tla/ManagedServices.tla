-------------------------- MODULE ManagedServices --------------------------
(***************************************************************************)
(* The servers a run keeps in the background: scripts/lib/runtime.sh       *)
(* starts one in a session of its own, writes its pid into work/pids and   *)
(* stops, later and from another script, whatever that file names.  The    *)
(* file is the only thing the next run knows of the server, nothing locks  *)
(* it, and a run can be interrupted between any two commands.              *)
(*                                                                         *)
(* Modelled: stop_managed_pid step by step, stop_servers.sh, the two       *)
(* launchers (launch_vllm_bg.sh, launch_retrievers.sh), run_all.sh around  *)
(* them, run_full_pipeline.sh around run_all.sh, somebody who types        *)
(* "bash scripts/stop_servers.sh", and what the operating system does.     *)
(***************************************************************************)
EXTENDS Naturals, Sequences, FiniteSets, SequencesExt

CONSTANTS
  Pids,        \* the process ids the system hands out
  Order,       \* the services of the launcher, in the order it starts them
  TrapFirst,   \* the launcher's trap is set before it starts a service
  Nested,      \* run_full_pipeline.sh runs around run_all.sh
  MaxRuns, MaxInterrupts, MaxKills, MaxDeaths, MaxReuses, MaxUserStops

NoPid == "none"
NoFile == "absent"
Torn == "torn"

\* Every service has a program and a pid file of its own.
ASSUME ServicesAssumption ==
  /\ Order \in Seq(STRING) /\ Order # <<>> /\ IsInjective(Order)
  /\ Range(Order) \cap {"nothing", "kin", "stranger"} = {}
  /\ Pids \cap {NoPid, NoFile, Torn} = {}
  /\ {TrapFirst, Nested} \subseteq BOOLEAN
  /\ {MaxRuns, MaxInterrupts, MaxKills, MaxDeaths, MaxReuses, MaxUserStops}
       \subseteq Nat

VARIABLES
  proc,       \* what runs, or last ran, under each pid
  alive,      \* which processes of that pid's group are alive
  signalled,  \* the pids a stop has sent SIGTERM or SIGKILL
  port,       \* the pid that listens on each service's port
  file,       \* what each service's pid file holds
  at,         \* where each script is
  stop,       \* its call of stop_managed_pid, and those it has yet to make
  mine,       \* the pids the launcher has started
  next,       \* how many services the launcher is done with
  outcome,    \* how the last run left the services
  lost,       \* services whose record a crash or another stop destroyed
  left        \* what is left of every bound

vars == <<proc, alive, signalled, port, file, at, stop, mine, next, outcome,
          lost, left>>
os == <<proc, alive, signalled, port>>
launch == <<mine, next>>

Services == Range(Order)
Agents == {"run", "user"}

Leads(p) == "leader" \in alive[p]
Serves(p) == Leads(p) /\ proc[p] \in Services

Init ==
  /\ proc = [p \in Pids |-> "nothing"]
  /\ alive = [p \in Pids |-> {}]
  /\ signalled = {}
  /\ port = [s \in Services |-> NoPid]
  /\ file = [s \in Services |-> NoFile]
  /\ at = [a \in Agents |-> "idle"]
  /\ stop = [a \in Agents |-> [todo |-> <<>>, step |-> "read", pid |-> NoPid,
                               failed |-> FALSE]]
  /\ mine = [s \in Services |-> NoPid]
  /\ next = 0
  /\ outcome = "none"
  /\ lost = {}
  /\ left = [runs |-> MaxRuns, interrupts |-> MaxInterrupts,
             kills |-> MaxKills, deaths |-> MaxDeaths, reuses |-> MaxReuses,
             userStops |-> MaxUserStops]

Spend(what) == left[what] > 0 /\ left' = [left EXCEPT ![what] = @ - 1]

----------------------------------------------------------------------------
(* stop_managed_pid, for the first service of the list the script works    *)
(* down.  Other scripts and the processes themselves move between its      *)
(* steps.                                                                  *)

StopPlaces == {"quiet", "again", "halt", "sweep", "clean", "final", "outer",
               "byHand"}

Stopping(a) == at[a] \in StopPlaces /\ stop[a].todo # <<>>
Target(a) == Head(stop[a].todo)

Doing(a, step) == Stopping(a) /\ stop[a].step = step
Then(a, step) == stop' = [stop EXCEPT ![a].step = step]

\* The function returns 0 or 1; every script but a launcher about to start
\* goes on to its next service either way, and remembers the failure.
Return(a, ok) ==
  stop' = [stop EXCEPT
             ![a] = [todo |-> IF at[a] = "halt" /\ ~ok THEN <<>>
                              ELSE Tail(@.todo),
                     step |-> "read", pid |-> NoPid,
                     failed |-> @.failed \/ ~ok]]

\* The file goes away, removed or moved to quarantine.  What it names by now
\* need not be the pid this stop has read.
Forget(a) ==
  /\ file' = [file EXCEPT ![Target(a)] = NoFile]
  /\ lost' = lost \cup {p \in Pids : /\ p = file[Target(a)]
                                     /\ p # stop[a].pid
                                     /\ Serves(p)}

StopReads(a) ==
  /\ Doing(a, "read")
  /\ \/ file[Target(a)] = NoFile /\ Return(a, TRUE)
     \/ file[Target(a)] = Torn /\ Then(a, "invalid")
     \/ /\ file[Target(a)] \in Pids
        /\ stop' = [stop EXCEPT ![a].step = "look", ![a].pid = file[Target(a)]]
  /\ UNCHANGED <<os, file, at, launch, outcome, lost, left>>

\* Not a number: the file is set aside, and the stop counts as done; but a
\* launcher ends with a command that fails, as mv does on a file that is gone.
StopInvalid(a) ==
  /\ Doing(a, "invalid")
  /\ Forget(a)
  /\ Return(a, at[a] = "halt" => file[Target(a)] # NoFile)
  /\ UNCHANGED <<os, at, launch, outcome, left>>

StopLooks(a) ==
  /\ Doing(a, "look")
  /\ Then(a, IF Leads(stop[a].pid) THEN "identify" ELSE "drop")
  /\ UNCHANGED <<os, file, at, launch, outcome, lost, left>>

\* Mutant of Matches: only the pid is looked at.
MatchesAnyProgram(p) == Leads(p)

\* The command line contains the expected program and the working directory
\* is this checkout.  Another program of the same checkout and the same
\* interpreter ("kin") passes; a process that has just exited does not.
Matches(p) == Leads(p) /\ proc[p] \in Services \cup {"kin"}

StopIdentifies(a) ==
  /\ Doing(a, "identify")
  /\ Then(a, IF Matches(stop[a].pid) THEN "session" ELSE "refuse")
  /\ UNCHANGED <<os, file, at, launch, outcome, lost, left>>

\* ps tells whether the pid leads a session.  It fails for one that has just
\* exited: a launcher ends there, the others go on with the pid alone, which
\* they will find gone.
StopAsksSession(a) ==
  /\ Doing(a, "session")
  /\ \/ Leads(stop[a].pid) /\ Then(a, "term")
     \/ ~Leads(stop[a].pid) /\ at[a] # "halt" /\ Then(a, "drop")
     \/ ~Leads(stop[a].pid) /\ at[a] = "halt" /\ Return(a, FALSE)
  /\ UNCHANGED <<os, file, at, launch, outcome, lost, left>>

StopRefuses(a) ==
  /\ Doing(a, "refuse")
  /\ Forget(a)
  /\ Return(a, FALSE)
  /\ UNCHANGED <<os, at, launch, outcome, left>>

Signal(a) ==
  signalled' = signalled \cup {p \in {stop[a].pid} : alive[p] # {}}

StopTerminates(a) ==
  /\ \/ Doing(a, "term") /\ Then(a, "poll")
     \/ Doing(a, "kill") /\ Then(a, "last")
  /\ Signal(a)
  /\ UNCHANGED <<proc, alive, port, file, at, launch, outcome, lost, left>>

\* A poll that finds the whole group gone, and the patience running out.
StopSeesItGone(a) ==
  /\ Doing(a, "poll") \/ Doing(a, "last")
  /\ alive[stop[a].pid] = {}
  /\ Then(a, "drop")
  /\ UNCHANGED <<os, file, at, launch, outcome, lost, left>>

\* Mutant of StopIsImpatient: no end to the polls after SIGTERM.
StopIsPatient(a) ==
  /\ Doing(a, "poll")
  /\ alive[stop[a].pid] # {}
  /\ UNCHANGED vars

StopIsImpatient(a) ==
  /\ Doing(a, "poll")
  /\ alive[stop[a].pid] # {}
  /\ Then(a, "kill")
  /\ UNCHANGED <<os, file, at, launch, outcome, lost, left>>

\* Mutants of StopGivesUp: the file goes although the process stays; the
\* function returns 0 although the process stays.
StopForgets(a) ==
  /\ Doing(a, "last")
  /\ alive[stop[a].pid] # {}
  /\ Forget(a)
  /\ Return(a, FALSE)
  /\ UNCHANGED <<os, at, launch, outcome, left>>

StopSaysDone(a) ==
  /\ Doing(a, "last")
  /\ alive[stop[a].pid] # {}
  /\ Return(a, TRUE)
  /\ UNCHANGED <<os, file, at, launch, outcome, lost, left>>

StopGivesUp(a) ==
  /\ Doing(a, "last")
  /\ alive[stop[a].pid] # {}
  /\ Return(a, FALSE)
  /\ UNCHANGED <<os, file, at, launch, outcome, lost, left>>

StopDrops(a) ==
  /\ Doing(a, "drop")
  /\ Forget(a)
  /\ Return(a, TRUE)
  /\ UNCHANGED <<os, at, launch, outcome, left>>

StopStep(a) ==
  \/ StopReads(a) \/ StopInvalid(a) \/ StopLooks(a) \/ StopIdentifies(a)
  \/ StopAsksSession(a) \/ StopRefuses(a) \/ StopTerminates(a) \/ StopSeesItGone(a)
  \/ StopIsImpatient(a) \/ StopGivesUp(a) \/ StopDrops(a)

----------------------------------------------------------------------------
(* The scripts around it.                                                  *)

\* The script goes on at the place; where the place is a stop, it stops the
\* launcher's services in starting order, or all of them in reverse.
Go(a, place) ==
  /\ at' = [at EXCEPT ![a] = place]
  /\ stop' = [stop EXCEPT
                ![a] = [todo |-> IF place \notin StopPlaces THEN <<>>
                                 ELSE IF place = "halt" THEN Order
                                 ELSE Reverse(Order),
                        step |-> "read", pid |-> NoPid, failed |-> FALSE]]

\* Where the run goes when its command fails: from run_all.sh and what it
\* calls to its trap, except from the last stop, which follows the trap's
\* removal; from run_full_pipeline.sh, and after run_all.sh, to its trap.
Failed ==
  IF Nested /\ at["run"] \in {"quiet", "bootstrap", "clean", "final"}
  THEN "outer"
  ELSE IF at["run"] \in {"clean", "final", "outer"} THEN "idle" ELSE "clean"

\* The same while a launcher runs, which has a trap of its own, set before or
\* after it starts its services.
Trapped ==
  \/ at["run"] \in {"wait", "ask", "probe"}
  \/ TrapFirst /\ at["run"] \in {"start", "record", "write"}
Outwards == IF Trapped THEN "sweep" ELSE Failed

Begin ==
  /\ at["run"] = "idle"
  /\ Spend("runs")
  /\ Go("run", "quiet")
  /\ outcome' = "none"
  /\ UNCHANGED <<os, file, launch, lost>>

\* Mutant of AfterStop: "|| true" after every stop.
AfterAnyStop ==
  LET place == at["run"] IN
  CASE place = "quiet" -> "bootstrap"
    [] place = "again" -> "prepare"
    [] place = "halt" -> "ports"
    [] place = "sweep" -> "clean"
    [] place \in {"clean", "final"} -> IF Nested THEN "outer" ELSE "idle"
    [] place = "outer" -> "idle"

\* After the stop that ends a place.  Only run_all.sh and a launcher look at
\* its status; the traps and the full pipeline add "|| true".
AfterStop ==
  LET place == at["run"] IN
  IF place \in {"quiet", "again", "halt", "final"} /\ stop["run"].failed
     /\ ~(place = "quiet" /\ Nested)
  THEN Failed
  ELSE CASE place = "quiet" -> "bootstrap"
         [] place = "again" -> "prepare"
         [] place = "halt" -> "ports"
         [] place = "sweep" -> "clean"
         [] place \in {"clean", "final"} -> IF Nested THEN "outer" ELSE "idle"
         [] place = "outer" -> "idle"

StopEnds ==
  /\ at["run"] \in StopPlaces
  /\ stop["run"].todo = <<>>
  /\ Go("run", AfterStop)
  /\ outcome' = IF AfterStop # "idle" THEN outcome
                ELSE IF stop["run"].failed THEN "unclean" ELSE "clean"
  /\ next' = 0
  /\ mine' = [s \in Services |-> NoPid]
  /\ UNCHANGED <<os, file, lost, left>>

\* The environments are rebuilt; inside the full pipeline run_all.sh then
\* stops the servers once more.  Data and indexes are prepared after that.
Bootstrap ==
  /\ at["run"] = "bootstrap"
  /\ \/ Go("run", IF Nested THEN "again" ELSE "prepare")
     \/ Go("run", Failed)
  /\ UNCHANGED <<os, file, launch, outcome, lost, left>>

Prepare ==
  /\ at["run"] = "prepare"
  /\ Go("run", "halt") \/ Go("run", Failed)
  /\ UNCHANGED <<os, file, launch, outcome, lost, left>>

----------------------------------------------------------------------------
(* A launcher, once its own services are stopped.                          *)

Current == Order[next + 1]

\* Done with one service, the launcher does the same for the next one, and
\* after the last it goes on at the place.
Onwards(same, place) ==
  IF next + 1 < Len(Order) THEN Go("run", same) /\ next' = next + 1
                           ELSE Go("run", place) /\ next' = 0

CheckPorts ==
  /\ at["run"] = "ports"
  /\ Go("run", IF \A s \in Services : port[s] = NoPid THEN "start"
               ELSE Outwards)
  /\ UNCHANGED <<os, file, launch, outcome, lost, left>>

\* The system never hands out a pid somebody is still using; that a stop
\* looks at it is no use, but its few seconds are too short for a reuse.
Fresh(p) == alive[p] = {} /\ \A a \in Agents : stop[a].pid # p

\* A service leads a session of its own: no interrupt of the run reaches it.
Start(p) ==
  /\ at["run"] = "start"
  /\ Fresh(p)
  /\ proc' = [proc EXCEPT ![p] = Current]
  /\ alive' = [alive EXCEPT ![p] = {"leader", "worker"}]
  /\ mine' = [mine EXCEPT ![Current] = p]
  /\ Go("run", "record")
  /\ UNCHANGED <<signalled, port, file, next, outcome, lost, left>>

\* The shell opens the file, empty, and then writes the pid into it: a file
\* that has been moved or removed meanwhile takes the pid with it.
Record ==
  /\ at["run"] = "record"
  /\ file' = [file EXCEPT ![Current] = Torn]
  /\ Go("run", "write")
  /\ UNCHANGED <<os, launch, outcome, lost, left>>

Write ==
  /\ at["run"] = "write"
  /\ \/ /\ file[Current] = Torn
        /\ file' = [file EXCEPT ![Current] = mine[Current]]
        /\ lost' = lost
     \/ /\ file[Current] # Torn
        /\ lost' = lost \cup {p \in {mine[Current]} : Serves(p)}
        /\ file' = file
  /\ Onwards("start", "wait")
  /\ UNCHANGED <<os, mine, outcome, left>>

\* wait_for_http: is the process alive, does anybody answer on its port, is
\* the time up.
WaitLooks ==
  /\ at["run"] = "wait"
  /\ Leads(mine[Current])
  /\ Go("run", "ask")
  /\ UNCHANGED <<os, file, launch, outcome, lost, left>>

WaitAsks ==
  /\ at["run"] = "ask"
  /\ \/ port[Current] # NoPid /\ Onwards("wait", "probe")
     \/ Go("run", "wait") /\ next' = next
  /\ UNCHANGED <<os, file, mine, outcome, lost, left>>

\* One request to the service; launch_retrievers.sh looks at the process
\* once more before it.
Probe ==
  /\ at["run"] = "probe"
  /\ port[Current] # NoPid
  /\ TrapFirst => Leads(mine[Current])
  /\ Onwards("probe", "work")
  /\ UNCHANGED <<os, file, mine, outcome, lost, left>>

\* The process cannot be started or has died, the time is up, the request
\* fails.
LauncherFails ==
  /\ at["run"] \in {"start", "wait", "probe"}
  /\ Go("run", Outwards)
  /\ UNCHANGED <<os, file, launch, outcome, lost, left>>

----------------------------------------------------------------------------
(* The evaluations, and how a run ends.                                    *)

WorkEnds ==
  /\ at["run"] = "work"
  /\ \/ Go("run", "final") /\ outcome' = outcome
     \/ Go("run", Failed) /\ outcome' = outcome
     \/ /\ Go("run", IF Nested THEN "outer" ELSE "idle")  \* KEEP_SERVERS=1
        /\ outcome' = "kept"
  /\ UNCHANGED <<os, file, launch, lost, left>>

\* The service whose pid the launcher knows and the file does not say yet.
BeingRecorded ==
  {p \in Pids : /\ at["run"] \in {"record", "write"}
                /\ p = mine[Current]
                /\ Serves(p)}

\* Ctrl-C, or SIGTERM to the group: every script of the run gets it.  A trap
\* is removed by its first use.
Interrupt ==
  /\ at["run"] # "idle"
  /\ Spend("interrupts")
  /\ Go("run", Outwards)
  /\ lost' = lost \cup BeingRecorded
  /\ outcome' = "interrupted"
  /\ UNCHANGED <<os, file, launch>>

\* SIGKILL to the scripts: no trap runs.
Kill ==
  /\ at["run"] # "idle"
  /\ Spend("kills")
  /\ Go("run", "idle")
  /\ lost' = lost \cup BeingRecorded
  /\ outcome' = "killed"
  /\ mine' = [s \in Services |-> NoPid]
  /\ next' = 0
  /\ UNCHANGED <<os, file>>

UserStops ==
  /\ at["user"] = "idle"
  /\ Spend("userStops")
  /\ Go("user", "byHand")
  /\ UNCHANGED <<os, file, launch, outcome, lost>>

UserIsDone ==
  /\ at["user"] = "byHand"
  /\ stop["user"].todo = <<>>
  /\ Go("user", "idle")
  /\ UNCHANGED <<os, file, launch, outcome, lost, left>>

----------------------------------------------------------------------------
(* The processes and the system.                                           *)

Closed(p) == [s \in Services |-> IF port[s] = p THEN NoPid ELSE port[s]]

Leaves(p, who) ==
  LET rest == alive[p] \ {who} IN
  /\ alive' = [alive EXCEPT ![p] = rest]
  /\ proc' = [proc EXCEPT ![p] = IF rest = {} THEN "nothing" ELSE @]
  /\ signalled' = IF rest = {} THEN signalled \ {p} ELSE signalled

Listen(p) ==
  /\ Serves(p)
  /\ port[proc[p]] = NoPid
  /\ port' = [port EXCEPT ![proc[p]] = p]
  /\ UNCHANGED <<proc, alive, signalled, file, at, stop, launch, outcome, lost,
                 left>>

\* The leader ends: told to, for want of its port, or for reasons of its own.
\* A worker of its group may outlive it.
Exit(p) ==
  /\ Leads(p)
  /\ IF p \in signalled \/ (Serves(p) /\ port[proc[p]] \notin {NoPid, p})
     THEN left' = left ELSE Spend("deaths")
  /\ port' = Closed(p)
  /\ lost' = lost \ {p}
  /\ Leaves(p, "leader")
  /\ UNCHANGED <<file, at, stop, launch, outcome>>

WorkerExits(p) ==
  /\ alive[p] = {"worker"}
  /\ Leaves(p, "worker")
  /\ UNCHANGED <<port, file, at, stop, launch, outcome, lost, left>>

\* A pid file may outlive its process: the system then hands the pid to
\* another program, one of this checkout that runs under the same interpreter
\* or any other.
Reuse(p) ==
  /\ Fresh(p)
  /\ p \in Range(file)
  /\ Spend("reuses")
  /\ \E other \in {"kin", "stranger"} : proc' = [proc EXCEPT ![p] = other]
  /\ alive' = [alive EXCEPT ![p] = {"leader"}]
  /\ UNCHANGED <<signalled, port, file, at, stop, launch, outcome, lost>>

Script ==
  \/ StopStep("run") \/ StopEnds \/ Bootstrap \/ Prepare \/ CheckPorts
  \/ \E p \in Pids : Start(p)
  \/ Record \/ Write \/ WaitLooks \/ WaitAsks \/ Probe \/ LauncherFails
  \/ WorkEnds

User == StopStep("user") \/ UserIsDone

Next ==
  \/ Script \/ User
  \/ Begin \/ Interrupt \/ Kill \/ UserStops
  \/ \E p \in Pids : Listen(p) \/ Exit(p) \/ WorkerExits(p) \/ Reuse(p)

Spec == Init /\ [][Next]_vars

\* A script that can take a step takes one, and the deadline of a wait
\* passes; no service is assumed to do anything, not even to obey a signal.
FairSpec ==
  /\ Spec
  /\ WF_vars(Script) /\ SF_vars(LauncherFails)
  /\ WF_vars(User)

----------------------------------------------------------------------------
(* What the scripts promise.                                               *)

TypeOK ==
  /\ proc \in [Pids -> Services \cup {"nothing", "kin", "stranger"}]
  /\ alive \in [Pids -> SUBSET {"leader", "worker"}]
  /\ signalled \subseteq Pids
  /\ port \in [Services -> Pids \cup {NoPid}]
  /\ file \in [Services -> Pids \cup {NoFile, Torn}]
  /\ at \in [Agents -> StopPlaces \cup {"idle", "bootstrap", "prepare", "ports",
               "start", "record", "write", "wait", "ask", "probe", "work"}]
  /\ at["run"] # "byHand" /\ at["user"] \in {"idle", "byHand"}
  /\ stop \in [Agents ->
       [todo : Seq(Services),
        step : {"read", "invalid", "look", "identify", "session", "refuse",
                "term", "poll", "kill", "last", "drop"},
        pid : Pids \cup {NoPid}, failed : BOOLEAN]]
  /\ mine \in [Services -> Pids \cup {NoPid}]
  /\ next \in 0 .. Len(Order) - 1
  /\ lost \subseteq Pids

\* Every server that runs is named by its pid file, the only thing the next
\* run knows of it.  There are two exceptions: the launcher that has started it
\* and writes the file now, and what "lost" lists, servers whose launcher died
\* in that moment or whose file another stop took for the one it had read.
EachServiceIsRecorded ==
  \A p \in Pids :
    Serves(p) => file[proc[p]] = p \/ p \in lost \cup BeingRecorded

\* run_all.sh rebuilds no environment and no index under a running server,
\* whatever earlier runs and their interruptions left, but for the lost ones.
\* Inside the full pipeline, which ignores a stop that fails, this holds only
\* from run_all.sh's own stop on.
EnvironmentIsQuiet ==
  at["run"] \in {"prepare", "ports", IF Nested THEN "ports" ELSE "bootstrap"}
    => \A p \in Pids : Serves(p) => p \in lost

\* No launcher starts a second server of a kind while one it could know of
\* still runs, though stopping one can fail and a server that still loads does
\* not hold its port yet.
AtMostOne ==
  \A p, q \in Pids :
    Serves(p) /\ Serves(q) /\ proc[p] = proc[q] => p = q \/ {p, q} \cap lost # {}

\* The evaluations start only on servers this run has launched: an answer on
\* the port is no proof of that, the pid the launcher watches and the port it
\* found free have to make it one.
ReadyIsOwn ==
  at["run"] = "work" =>
    \A s \in Services : port[s] \in {mine[s], NoPid} \cup lost

\* The scripts know the servers that run: each by its file, one of a kind, and
\* the ones that the evaluations use as their own.
ServersAreKnown == TypeOK /\ EachServiceIsRecorded /\ AtMostOne /\ ReadyIsOwn

\* A pid file that has outlived its process never gets a process signalled
\* that runs another program or in another directory.
StrangersAreSafe == \A p \in signalled : proc[p] # "stranger"

\* A run whose last stop reported success, in a trap or at its end, leaves no
\* server behind but the lost ones.
LeavesNothing ==
  at["run"] = "idle" /\ outcome = "clean"
    => \A p \in Pids : Serves(p) => p \in lost

\* No server can hang a run or a stop, by never answering or by ignoring every
\* signal.
RunsEnd == /\ at["run"] # "idle" ~> at["run"] = "idle"
           /\ at["user"] # "idle" ~> at["user"] = "idle"
=============================================================================
