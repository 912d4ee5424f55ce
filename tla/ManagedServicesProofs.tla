----------------------- MODULE ManagedServicesProofs -----------------------
(***************************************************************************)
(* Theorems about ManagedServices, for every list of services, every set   *)
(* of process ids, both launchers and any number of runs, interrupts,      *)
(* kills, deaths and reused pids.                                          *)
(*                                                                         *)
(* The inductive invariant says what a stop knows about the pid it has     *)
(* read, which services a stop that has not failed has already cleared,    *)
(* and which servers the launcher has started itself.                      *)
(***************************************************************************)
EXTENDS ManagedServices, TLAPS

\* No server of the kind runs, but for the lost ones.
Cleared(s) == \A p \in Pids : Serves(p) /\ proc[p] = s => p \in lost

\* The pid a stop looks at since it has read the file: it names one, a process
\* found gone is gone, one it refuses is no server, and one that has passed the
\* check of its command line is no stranger as long as it lives.
StopKnows(a) ==
  LET q == stop[a].pid IN
  /\ stop[a].step \in {"read", "invalid"} <=> q = NoPid
  /\ stop[a].step = "drop" => ~Leads(q)
  /\ stop[a].step = "refuse" => ~Serves(q)
  /\ stop[a].step \in {"session", "term", "poll", "kill", "last"}
       => alive[q] = {} \/ proc[q] # "stranger"

\* What has been signalled and is not gone is no stranger.
SignalledLive ==
  \A p \in signalled : alive[p] # {} /\ proc[p] # "stranger"

\* Who listens on a port is the server it belongs to.
PortsAreServed ==
  \A s \in Services : port[s] # NoPid =>
    Serves(port[s]) /\ proc[port[s]] = s

\* While the stops of a place go well, the services they are done with are
\* cleared.
StopsClear ==
  at["run"] \in StopPlaces /\ ~stop["run"].failed =>
    \A s \in Services : s \in Range(stop["run"].todo) \/ Cleared(s)

\* From the launcher's check of the ports to the end of the evaluations, the
\* servers are the ones it has started, or lost, and it has started none of the
\* services that are still to come.
LaunchedAreMine ==
  /\ at["run"] \in {"start", "record", "write", "wait", "ask", "probe", "work"}
       => \A p \in Pids : Serves(p) => p \in lost \/ p = mine[proc[p]]
  /\ at["run"] \in {"ports", "start"} =>
       \A i \in 1 .. Len(Order) : i > next => mine[Order[i]] = NoPid
  /\ at["run"] \in {"record", "write"} =>
       /\ mine[Current] \in Pids
       /\ Serves(mine[Current]) => proc[mine[Current]] = Current
       /\ \A i \in 1 .. Len(Order) : i > next + 1 => mine[Order[i]] = NoPid

\* A run is called clean when it is over, not before.
CleanIsOver == at["run"] # "idle" => outcome # "clean"

\* What is lost still runs.
LostServe == \A p \in lost : Serves(p)

\* The inductive invariant.
IInv ==
  /\ TypeOK
  /\ \A a \in Agents : StopKnows(a)
  /\ SignalledLive
  /\ PortsAreServed
  /\ EachServiceIsRecorded
  /\ AtMostOne
  /\ StopsClear
  /\ EnvironmentIsQuiet
  /\ LaunchedAreMine
  /\ CleanIsOver
  /\ LeavesNothing
  /\ LostServe

----------------------------------------------------------------------------
(* Facts about the constants and the lists the stops work down.            *)

\* What ServicesAssumption says of the constants, in the form the proofs use.
LEMMA ConstantFacts ==
  /\ Order \in Seq(Services) /\ Len(Order) \in Nat /\ Len(Order) > 0
  /\ \A i, j \in 1 .. Len(Order) : Order[i] = Order[j] => i = j
  /\ \A i \in 1 .. Len(Order) : Order[i] \in Services
  /\ "nothing" \notin Services /\ "kin" \notin Services
  /\ "stranger" \notin Services
  /\ NoPid \notin Pids /\ NoFile \notin Pids /\ Torn \notin Pids
<1>1. Order \in Seq(STRING) /\ Order # <<>> /\ IsInjective(Order)
  BY ServicesAssumption
<1>2. DOMAIN Order = 1 .. Len(Order) /\ Len(Order) \in Nat
  BY <1>1
<1>3. Order \in Seq(Services)
  <2>1. Order \in [1 .. Len(Order) -> Services]
    BY <1>1, <1>2 DEF Services, Range
  <2> QED
    BY <2>1, <1>2
<1>4. Len(Order) > 0
  BY <1>1
<1>5. \A i, j \in 1 .. Len(Order) : Order[i] = Order[j] => i = j
  BY <1>1, <1>2 DEF IsInjective
<1>6. \A i \in 1 .. Len(Order) : Order[i] \in Services
  BY <1>2 DEF Services, Range
<1>7. /\ "nothing" \notin Services /\ "kin" \notin Services
      /\ "stranger" \notin Services
  BY ServicesAssumption DEF Services
<1>8. NoPid \notin Pids /\ NoFile \notin Pids /\ Torn \notin Pids
  BY ServicesAssumption DEF NoPid, NoFile, Torn
<1> QED
  BY <1>2, <1>3, <1>4, <1>5, <1>6, <1>7, <1>8

\* A stop of all services has each of them on its list, in either order.
LEMMA ListsAreComplete ==
  /\ Reverse(Order) \in Seq(Services) /\ Order \in Seq(Services)
  /\ \A s \in Services : s \in Range(Order) /\ s \in Range(Reverse(Order))
<1> DEFINE n == Len(Order)
<1>1. Order \in Seq(Services) /\ n \in Nat /\ n > 0 /\ DOMAIN Order = 1 .. n
  BY ConstantFacts
<1>2. Reverse(Order) = [i \in 1 .. n |-> Order[(n - i) + 1]]
  BY DEF Reverse
<1>3. \A i \in 1 .. n : (n - i) + 1 \in 1 .. n
  BY <1>1
<1>4. Reverse(Order) \in Seq(Services)
  BY <1>1, <1>2, <1>3
<1>5. ASSUME NEW s \in Services
      PROVE  s \in Range(Reverse(Order))
  <2>1. PICK j \in 1 .. n : Order[j] = s
    BY <1>1 DEF Services, Range
  <2>2. (n - j) + 1 \in 1 .. n /\ (n - ((n - j) + 1)) + 1 = j
    BY <1>1
  <2>3. Reverse(Order)[(n - j) + 1] = s
    BY <1>2, <2>1, <2>2
  <2>4. DOMAIN Reverse(Order) = 1 .. n
    BY <1>2
  <2> QED
    BY <2>2, <2>3, <2>4 DEF Range
<1> QED
  BY <1>1, <1>4, <1>5 DEF Services

\* The service a stop is done with is the only one that leaves its list.
LEMMA TailOfList ==
  ASSUME NEW S, NEW t \in Seq(S), t # <<>>
  PROVE  /\ Head(t) \in S /\ Tail(t) \in Seq(S)
         /\ \A s : s \in Range(t) => s = Head(t) \/ s \in Range(Tail(t))
<1>1. Head(t) \in S /\ Tail(t) \in Seq(S) /\ Head(t) = t[1]
  OBVIOUS
<1>2. ASSUME NEW s, s \in Range(t), s # Head(t)
      PROVE  s \in Range(Tail(t))
  <2>1. PICK i \in 1 .. Len(t) : t[i] = s
    BY <1>2 DEF Range
  <2>2. i # 1 /\ i - 1 \in 1 .. Len(Tail(t)) /\ Tail(t)[i - 1] = t[i]
    BY <2>1, <1>1, <1>2
  <2>3. DOMAIN Tail(t) = 1 .. Len(Tail(t))
    BY <1>1
  <2> QED
    BY <2>1, <2>2, <2>3 DEF Range
<1> QED
  BY <1>1, <1>2

----------------------------------------------------------------------------
(* What the processes and the system do.                                   *)

ProcessStep ==
  \E p \in Pids : Listen(p) \/ Exit(p) \/ WorkerExits(p) \/ Reuse(p)

\* The processes leave the scripts alone.  No server appears, one that ends is
\* not lost any more, a pid that a stop looks at gets no other program, and who
\* comes to listen on a port is its server.
ProcessEffects ==
  /\ UNCHANGED <<file, at, stop, mine, next, outcome>>
  /\ proc' \in [Pids -> Services \cup {"nothing", "kin", "stranger"}]
  /\ alive' \in [Pids -> SUBSET {"leader", "worker"}]
  /\ \A q \in Pids : Serves(q)' => Serves(q) /\ proc'[q] = proc[q]
  /\ \A q \in Pids : Leads(q)' => Leads(q) \/ Fresh(q)
  /\ \A q \in Pids :
       alive'[q] # {} => Fresh(q) \/ (alive[q] # {} /\ proc'[q] = proc[q])
  /\ lost' \subseteq lost
  /\ \A q \in lost : q \in lost' \/ ~Serves(q)'
  /\ \A q \in lost' : Serves(q) => Serves(q)'
  /\ signalled' \subseteq signalled
  /\ \A q \in signalled' : alive[q] # {} => alive'[q] # {}
  /\ \A t \in Services :
       /\ port'[t] \in Pids \cup {NoPid}
       /\ port'[t] # NoPid => Serves(port[t])' /\ proc'[port'[t]] = t
  /\ port' \in [Services -> Pids \cup {NoPid}]

\* ProcessEffects says what a step of a process, or of the system, does.
LEMMA WhatProcessesDo ==
  ASSUME TypeOK, ProcessStep, PortsAreServed
  PROVE  ProcessEffects
<1> USE ConstantFacts DEF TypeOK, Serves, Leads, launch, PortsAreServed
<1>1. PICK p \in Pids : Listen(p) \/ Exit(p) \/ WorkerExits(p) \/ Reuse(p)
  BY DEF ProcessStep
<1>2. CASE Listen(p)
  BY <1>2 DEF ProcessEffects, Listen
<1>3. CASE Exit(p)
  BY <1>3 DEF ProcessEffects, Exit, Leaves, Closed
<1>4. CASE WorkerExits(p)
  BY <1>4 DEF ProcessEffects, WorkerExits, Leaves
<1>5. CASE Reuse(p)
  BY <1>5 DEF ProcessEffects, Reuse, Fresh
<1> QED
  BY <1>1, <1>2, <1>3, <1>4, <1>5

----------------------------------------------------------------------------
(* What a step of stop_managed_pid does.                                   *)

StopRecord ==
  [todo : Seq(Services),
   step : {"read", "invalid", "look", "identify", "session", "refuse", "term",
           "poll", "kill", "last", "drop"},
   pid : Pids \cup {NoPid}, failed : BOOLEAN]

\* It signals only live processes that are no strangers; of a server whose file
\* it takes away it makes a lost one; and it either stays with its service, or
\* fails, or goes on to the next one from a service without a file.
StopEffects(a) ==
  /\ UNCHANGED <<proc, alive, port, at, mine, next, outcome>>
  /\ signalled' \subseteq Pids
  /\ \A p \in signalled' : p \notin signalled => alive[p] # {} /\ proc[p] # "stranger"
  /\ file' \in [Services -> Pids \cup {NoFile, Torn}]
  /\ \A p \in Pids :
       Serves(p) /\ file[proc[p]] = p => file'[proc[p]] = p \/ p \in lost'
  /\ lost' \subseteq Pids /\ lost \subseteq lost'
  /\ \A p \in lost' : p \in lost \/ Serves(p)
  /\ stop'[a] \in StopRecord /\ stop' = [stop EXCEPT ![a] = stop'[a]]
  /\ StopKnows(a)'
  /\ \/ stop'[a].todo = stop[a].todo /\ stop'[a].failed = stop[a].failed
     \/ stop'[a].failed
     \/ /\ stop[a].todo # <<>> /\ stop'[a].todo = Tail(stop[a].todo)
        /\ stop'[a].failed = stop[a].failed
        /\ file'[Head(stop[a].todo)] = NoFile

\* A return goes on to the next service, or has failed.
LEMMA WhatAReturnDoes ==
  ASSUME TypeOK, NEW a \in Agents, NEW ok \in BOOLEAN, Stopping(a), Return(a, ok)
  PROVE  /\ stop'[a] \in StopRecord /\ stop' = [stop EXCEPT ![a] = stop'[a]]
         /\ stop'[a].step = "read" /\ stop'[a].pid = NoPid
         /\ ~ok => stop'[a].failed
         /\ ok => /\ stop'[a].todo = Tail(stop[a].todo)
                  /\ stop'[a].failed = stop[a].failed
<1>1. stop \in [Agents -> StopRecord] /\ stop[a].todo \in Seq(Services)
      /\ stop[a].failed \in BOOLEAN /\ stop[a].todo # <<>>
  BY DEF TypeOK, StopRecord, Stopping
<1>2. Tail(stop[a].todo) \in Seq(Services) /\ <<>> \in Seq(Services)
  BY <1>1
<1> DEFINE list == IF at[a] = "halt" /\ ~ok THEN <<>> ELSE Tail(stop[a].todo)
           failed == stop[a].failed \/ ~ok
<1>3. stop' = [stop EXCEPT ![a] = [todo |-> list, step |-> "read",
                                  pid |-> NoPid, failed |-> failed]]
  BY <1>1 DEF Return
<1>4. list \in Seq(Services) /\ failed \in BOOLEAN
      /\ (~ok => failed)
  BY <1>1, <1>2
<1>5. ok => list = Tail(stop[a].todo) /\ failed = stop[a].failed
  BY <1>1
<1> HIDE DEF list, failed
<1> QED
  BY <1>1, <1>3, <1>4, <1>5 DEF StopRecord

\* A file goes away under its own name only, and a server it named is lost,
\* unless the stop has found that its pid is none.
LEMMA WhatForgetDoes ==
  ASSUME TypeOK, NEW a \in Agents, Stopping(a), Forget(a),
         stop[a].pid = NoPid \/ ~Serves(stop[a].pid)
  PROVE  /\ file' \in [Services -> Pids \cup {NoFile, Torn}]
         /\ \A p \in Pids :
              Serves(p) /\ file[proc[p]] = p
                => file'[proc[p]] = p \/ p \in lost'
         /\ lost' \subseteq Pids /\ lost \subseteq lost'
         /\ \A p \in lost' : p \in lost \/ Serves(p)
         /\ file'[Head(stop[a].todo)] = NoFile
<1>1. Target(a) \in Services
  BY TailOfList, SMTT(40) DEF TypeOK, Stopping, Target
<1> QED
  BY <1>1, ConstantFacts DEF Forget, TypeOK, Target, Serves

\* StopEffects says what a step of stop_managed_pid does.
LEMMA WhatAStopDoes ==
  ASSUME TypeOK, NEW a \in Agents, StopKnows(a), StopStep(a)
  PROVE  StopEffects(a)
<1> DEFINE t == Head(stop[a].todo)
<1>0. /\ stop[a] \in StopRecord /\ stop \in [Agents -> StopRecord]
      /\ stop[a].todo # <<>> /\ Stopping(a)
      /\ t \in Services /\ Tail(stop[a].todo) \in Seq(Services)
  <2>1. stop \in [Agents -> StopRecord] /\ stop[a].todo \in Seq(Services)
    BY DEF TypeOK, StopRecord
  <2>2. Stopping(a) /\ stop[a].todo # <<>>
    BY DEF StopStep, StopReads, StopInvalid, StopLooks, StopIdentifies,
           StopAsksSession, StopRefuses, StopTerminates, StopSeesItGone,
           StopIsImpatient, StopGivesUp, StopDrops, Doing, Stopping
  <2> QED
    BY <2>1, <2>2, TailOfList
<1> USE ConstantFacts, <1>0 DEF TypeOK, StopEffects, StopKnows, StopRecord,
        Serves, Leads, launch, os, Then, Doing, Stopping, Target
<1>0a. ASSUME NEW ok \in BOOLEAN, Return(a, ok),
              alive' = alive, proc' = proc
       PROVE  /\ stop'[a] \in StopRecord /\ stop' = [stop EXCEPT ![a] = stop'[a]]
              /\ StopKnows(a)'
              /\ ~ok => stop'[a].failed
              /\ ok => /\ stop'[a].todo = Tail(stop[a].todo)
                       /\ stop'[a].failed = stop[a].failed
  <2> HIDE DEF StopRecord, StopKnows, Stopping
  <2>1. /\ stop'[a] \in StopRecord /\ stop' = [stop EXCEPT ![a] = stop'[a]]
        /\ stop'[a].step = "read" /\ stop'[a].pid = NoPid
        /\ ~ok => stop'[a].failed
        /\ ok => /\ stop'[a].todo = Tail(stop[a].todo)
                 /\ stop'[a].failed = stop[a].failed
    BY <1>0a, WhatAReturnDoes
  <2>2. StopKnows(a)'
    BY <2>1, SMTT(40) DEF StopKnows
  <2> QED
    BY <2>1, <2>2
<1>1. CASE StopReads(a)
  <2>1. CASE file[t] = NoFile /\ Return(a, TRUE)
    <3> HIDE DEF StopRecord, StopKnows
    <3> QED
      BY <1>0a, <1>1, <2>1 DEF StopReads
  <2>2. CASE file[t] = Torn /\ Then(a, "invalid")
    BY <1>1, <2>2, ZenonT(60) DEF StopReads
  <2>3. CASE /\ file[t] \in Pids
             /\ stop' = [stop EXCEPT ![a].step = "look", ![a].pid = file[t]]
    BY <1>1, <2>3 DEF StopReads
  <2> QED
    BY <1>1, <2>1, <2>2, <2>3 DEF StopReads
<1>2. CASE StopInvalid(a)
  <2>1. /\ Forget(a) /\ Return(a, at[a] = "halt" => file[Target(a)] # NoFile)
        /\ (at[a] = "halt" => file[Target(a)] # NoFile) \in BOOLEAN
        /\ UNCHANGED <<proc, alive, signalled, port, at, mine, next, outcome>>
    BY <1>2 DEF StopInvalid
  <2>2. stop[a].pid = NoPid \/ ~Serves(stop[a].pid)
    BY <1>2 DEF StopInvalid
  <2> HIDE DEF StopRecord, StopKnows, Serves
  <2>3. stop'[a].failed \/ (stop'[a].todo = Tail(stop[a].todo) /\ stop'[a].failed = stop[a].failed)
    BY <1>0a, <2>1
  <2> QED
    BY <2>1, <2>2, <2>3, WhatForgetDoes, <1>0a
<1>3. CASE StopLooks(a)
  BY <1>3, ZenonT(60) DEF StopLooks
<1>4. CASE StopIdentifies(a)
  BY <1>4, ZenonT(60) DEF StopIdentifies, Matches
<1>5. CASE StopAsksSession(a)
  <2>1. CASE ~Leads(stop[a].pid) /\ at[a] = "halt" /\ Return(a, FALSE)
    <3> HIDE DEF StopRecord, StopKnows
    <3> QED
      BY <1>0a, <1>5, <2>1 DEF StopAsksSession
  <2>2. CASE Leads(stop[a].pid) /\ Then(a, "term")
    BY <1>5, <2>2 DEF StopAsksSession
  <2>3. CASE ~Leads(stop[a].pid) /\ at[a] # "halt" /\ Then(a, "drop")
    BY <1>5, <2>3 DEF StopAsksSession
  <2> QED
    BY <1>5, <2>1, <2>2, <2>3 DEF StopAsksSession
<1>6. CASE StopRefuses(a)
  <2>1. /\ Forget(a) /\ Return(a, FALSE) /\ (FALSE) \in BOOLEAN
        /\ UNCHANGED <<proc, alive, signalled, port, at, mine, next, outcome>>
    BY <1>6 DEF StopRefuses
  <2>2. stop[a].pid = NoPid \/ ~Serves(stop[a].pid)
    BY <1>6 DEF StopRefuses
  <2> HIDE DEF StopRecord, StopKnows, Serves
  <2>3. stop'[a].failed
    BY <1>0a, <2>1
  <2> QED
    BY <2>1, <2>2, <2>3, WhatForgetDoes, <1>0a
<1>7. CASE StopTerminates(a)
  <2>1. Signal(a) /\ UNCHANGED <<proc, alive, port, file, at, launch, outcome, lost>>
    BY <1>7 DEF StopTerminates
  <2>2. stop[a].pid \in Pids /\ stop[a].step \in {"term", "kill"}
    BY <1>7 DEF StopTerminates
  <2>3. /\ signalled' \subseteq Pids
        /\ \A p \in signalled' :
             p \notin signalled => alive[p] # {} /\ proc[p] # "stranger"
    BY <2>1, <2>2 DEF Signal
  <2>4. PICK new \in {"poll", "last"} : Then(a, new)
    BY <1>7 DEF StopTerminates
  <2>5. StopKnows(a)'
    BY <2>1, <2>2, <2>4
  <2>6. /\ stop'[a] \in StopRecord /\ stop' = [stop EXCEPT ![a] = stop'[a]]
        /\ stop'[a].todo = stop[a].todo /\ stop'[a].failed = stop[a].failed
    BY <2>1, <2>2, <2>4
  <2> HIDE DEF StopRecord, StopKnows, Serves
  <2> QED
    BY <2>1, <2>2, <2>3, <2>5, <2>6
<1>8. CASE StopSeesItGone(a)
  BY <1>8 DEF StopSeesItGone
<1>9. CASE StopIsImpatient(a)
  BY <1>9 DEF StopIsImpatient
<1>10. CASE StopGivesUp(a)
  <2>1. Return(a, FALSE) /\ UNCHANGED <<os, file, at, launch, outcome, lost>>
    BY <1>10 DEF StopGivesUp
  <2> HIDE DEF StopRecord, StopKnows
  <2> QED
    BY <2>1, <1>0a
<1>11. CASE StopDrops(a)
  <2>1. /\ Forget(a) /\ Return(a, TRUE) /\ (TRUE) \in BOOLEAN
        /\ UNCHANGED <<proc, alive, signalled, port, at, mine, next, outcome>>
    BY <1>11 DEF StopDrops
  <2>2. stop[a].pid = NoPid \/ ~Serves(stop[a].pid)
    BY <1>11 DEF StopDrops
  <2> HIDE DEF StopRecord, StopKnows, Serves
  <2>3. stop'[a].todo = Tail(stop[a].todo) /\ stop'[a].failed = stop[a].failed
    BY <1>0a, <2>1
  <2> QED
    BY <2>1, <2>2, <2>3, WhatForgetDoes, <1>0a
<1> QED
  BY <1>1, <1>2, <1>3, <1>4, <1>5, <1>6, <1>7, <1>8, <1>9, <1>10, <1>11 DEF StopStep

----------------------------------------------------------------------------
(* What the scripts around it do.                                          *)

Places(a) ==
  IF a = "user" THEN {"idle", "byHand"}
  ELSE (StopPlaces \ {"byHand"}) \cup
       {"idle", "bootstrap", "prepare", "ports", "start", "record", "write",
        "wait", "ask", "probe", "work"}

\* A script that goes on has its stops before it, all of them, and has looked at
\* no pid yet.
GoEffects(a) ==
  /\ at' \in [Agents -> StopPlaces \cup {"idle", "bootstrap", "prepare", "ports",
                "start", "record", "write", "wait", "ask", "probe", "work"}]
  /\ at'["run"] # "byHand" /\ at'["user"] \in {"idle", "byHand"}
  /\ at' = [at EXCEPT ![a] = at'[a]]
  /\ stop'[a] \in StopRecord /\ stop' = [stop EXCEPT ![a] = stop'[a]]
  /\ StopKnows(a)' /\ stop'[a].pid = NoPid
  /\ at'[a] \in StopPlaces => \A s \in Services : s \in Range(stop'[a].todo)

\* Where a script goes, it goes as GoEffects says.
LEMMA WhatGoDoes ==
  ASSUME TypeOK, NEW a \in Agents, NEW place \in Places(a), Go(a, place)
  PROVE  GoEffects(a) /\ at'[a] = place
<1> DEFINE list == IF place \notin StopPlaces THEN <<>>
                   ELSE IF place = "halt" THEN Order ELSE Reverse(Order)
<1>1. /\ list \in Seq(Services)
      /\ place \in StopPlaces => \A s \in Services : s \in Range(list)
  BY ListsAreComplete
<1>2. stop' = [stop EXCEPT ![a] = [todo |-> list, step |-> "read",
                                  pid |-> NoPid, failed |-> FALSE]]
  BY DEF Go
<1>3. /\ at' \in [Agents -> StopPlaces \cup {"idle", "bootstrap", "prepare", "ports",
                    "start", "record", "write", "wait", "ask", "probe", "work"}]
      /\ at'["run"] # "byHand" /\ at'["user"] \in {"idle", "byHand"}
      /\ at' = [at EXCEPT ![a] = place] /\ at'[a] = place
  BY DEF Go, TypeOK, Places, StopPlaces, Agents
<1> HIDE DEF list
<1>4. /\ stop'[a] \in StopRecord /\ stop' = [stop EXCEPT ![a] = stop'[a]]
      /\ stop'[a].pid = NoPid /\ stop'[a].step = "read"
      /\ stop'[a].todo = list
  BY <1>1, <1>2 DEF TypeOK, StopRecord
<1>5. StopKnows(a)'
  BY <1>4 DEF StopKnows
<1> QED
  BY <1>1, <1>3, <1>4, <1>5 DEF GoEffects

\* Every step of the run but a start, and every step of its own user, goes on.
RunStep ==
  \/ StopEnds \/ Bootstrap \/ Prepare \/ CheckPorts \/ Record \/ Write
  \/ WaitLooks \/ WaitAsks \/ Probe \/ LauncherFails \/ WorkEnds
  \/ Begin \/ Interrupt \/ Kill

\* Where the run goes, from each of its places.
LEMMA WhereTheRunGoes ==
  ASSUME TypeOK, RunStep
  PROVE  \E place \in Places("run") : Go("run", place)
<1> USE DEF Places, StopPlaces, TypeOK, Agents
<1>1. CASE StopEnds
  BY <1>1 DEF StopEnds, AfterStop, Failed
<1>2. CASE Bootstrap
  BY <1>2 DEF Bootstrap, Failed
<1>3. CASE Prepare
  BY <1>3 DEF Prepare, Failed
<1>4. CASE CheckPorts
  BY <1>4 DEF CheckPorts, Outwards, Failed
<1>5. CASE Record
  BY <1>5 DEF Record
<1>6. CASE Write
  BY <1>6 DEF Write, Onwards
<1>7. CASE WaitLooks
  BY <1>7 DEF WaitLooks
<1>8. CASE WaitAsks
  BY <1>8 DEF WaitAsks, Onwards
<1>9. CASE Probe
  BY <1>9 DEF Probe, Onwards
<1>10. CASE LauncherFails
  BY <1>10 DEF LauncherFails, Outwards, Failed
<1>11. CASE WorkEnds
  BY <1>11 DEF WorkEnds, Failed
<1>12. CASE Begin
  BY <1>12 DEF Begin
<1>13. CASE Interrupt
  BY <1>13 DEF Interrupt, Outwards, Failed
<1>14. CASE Kill
  BY <1>14 DEF Kill
<1> QED
  BY <1>1, <1>2, <1>3, <1>4, <1>5, <1>6, <1>7, <1>8, <1>9, <1>10, <1>11, <1>12, <1>13,
     <1>14 DEF RunStep

\* A step of the run leaves the processes alone, and what it counts as lost are
\* servers.
RunEffects ==
  /\ UNCHANGED <<proc, alive, signalled, port>>
  /\ GoEffects("run")
  /\ file' \in [Services -> Pids \cup {NoFile, Torn}]
  /\ mine' \in [Services -> Pids \cup {NoPid}]
  /\ next' \in 0 .. Len(Order) - 1
  /\ lost' \subseteq Pids /\ lost \subseteq lost'
  /\ \A p \in lost' : p \in lost \/ Serves(p)

\* RunEffects says what a step of the scripts around the stops does.
LEMMA WhatTheRunDoes ==
  ASSUME TypeOK, LaunchedAreMine, RunStep
  PROVE  RunEffects
<1>0. GoEffects("run")
  BY WhereTheRunGoes, WhatGoDoes DEF Agents
<1>0a. Current \in Services
  BY ConstantFacts DEF TypeOK, Current
<1> USE ConstantFacts, <1>0, <1>0a DEF TypeOK, RunEffects, os, launch, Serves, Leads, GoEffects
<1> HIDE DEF GoEffects
<1>1. CASE StopEnds
  BY <1>1 DEF StopEnds, AfterStop, Failed
<1>2. CASE Bootstrap
  BY <1>2 DEF Bootstrap, Failed
<1>3. CASE Prepare
  BY <1>3 DEF Prepare, Failed
<1>4. CASE CheckPorts
  BY <1>4 DEF CheckPorts, Outwards, Failed, Trapped
<1>5. CASE Record
  BY <1>5 DEF Record, BeingRecorded
<1>6. CASE Write
  <2>1. /\ file' \in [Services -> Pids \cup {NoFile, Torn}]
        /\ lost' \subseteq Pids /\ lost \subseteq lost'
        /\ \A p \in lost' : p \in lost \/ Serves(p)
    BY <1>6, ZenonT(60) DEF Write, LaunchedAreMine
  <2>2. next' \in 0 .. Len(Order) - 1
    BY <1>6 DEF Write, Onwards
  <2> QED
    BY <1>6, <2>1, <2>2 DEF Write
<1>7. CASE WaitLooks
  BY <1>7 DEF WaitLooks
<1>8. CASE WaitAsks
  BY <1>8 DEF WaitAsks, Onwards
<1>9. CASE Probe
  BY <1>9 DEF Probe, Onwards
<1>10. CASE LauncherFails
  BY <1>10 DEF LauncherFails, Outwards, Failed, Trapped
<1>11. CASE WorkEnds
  BY <1>11 DEF WorkEnds, Failed
<1>12. CASE Begin
  BY <1>12 DEF Begin
<1>13. CASE Interrupt
  BY <1>13 DEF Interrupt, Outwards, Failed, Trapped, BeingRecorded
<1>14. CASE Kill
  BY <1>14 DEF Kill, BeingRecorded
<1> QED
  BY <1>1, <1>2, <1>3, <1>4, <1>5, <1>6, <1>7, <1>8, <1>9, <1>10, <1>11, <1>12, <1>13,
     <1>14 DEF RunStep

\* The environments are rebuilt after a stop that has not failed, and on the way
\* to the launcher no server starts.
LEMMA RunKeepsQuiet ==
  ASSUME TypeOK, StopsClear, EnvironmentIsQuiet, RunStep, RunEffects
  PROVE  EnvironmentIsQuiet'
<1> USE DEF Go, StopsClear, EnvironmentIsQuiet, RunEffects, TypeOK, Agents, StopPlaces,
        Range, Cleared, Serves, Leads
<1>1. CASE StopEnds
  BY <1>1 DEF StopEnds, AfterStop, Failed
<1>2. CASE Bootstrap
  BY <1>2 DEF Bootstrap, Failed
<1>3. CASE Prepare
  BY <1>3 DEF Prepare, Failed
<1>4. CASE CheckPorts
  BY <1>4 DEF CheckPorts, Outwards, Failed, Trapped
<1>5. CASE Record
  BY <1>5 DEF Record, Current, BeingRecorded
<1>6. CASE Write
  BY <1>6 DEF Write, Onwards, BeingRecorded, Current
<1>7. CASE WaitLooks
  BY <1>7 DEF WaitLooks
<1>8. CASE WaitAsks
  BY <1>8 DEF WaitAsks, Onwards
<1>9. CASE Probe
  BY <1>9 DEF Probe, Onwards
<1>10. CASE LauncherFails
  BY <1>10 DEF LauncherFails, Outwards, Failed, Trapped
<1>11. CASE WorkEnds
  BY <1>11 DEF WorkEnds, Failed
<1>12. CASE Begin
  BY <1>12 DEF Begin
<1>13. CASE Interrupt
  BY <1>13 DEF Interrupt, Outwards, Failed, Trapped, BeingRecorded, Current
<1>14. CASE Kill
  BY <1>14 DEF Kill, BeingRecorded, Current
<1> QED
  BY <1>1, <1>2, <1>3, <1>4, <1>5, <1>6, <1>7, <1>8, <1>9, <1>10, <1>11, <1>12, <1>13,
     <1>14 DEF RunStep

\* A run that ends clean does so after a last stop that has not failed.
LEMMA RunKeepsClean ==
  ASSUME TypeOK, StopsClear, CleanIsOver, LeavesNothing, RunStep, RunEffects
  PROVE  CleanIsOver' /\ LeavesNothing'
<1> USE DEF Go, StopsClear, CleanIsOver, LeavesNothing, RunEffects, TypeOK, Agents,
        StopPlaces, Range, Cleared, Serves, Leads
<1>1. CASE StopEnds
  BY <1>1 DEF StopEnds, AfterStop, Failed
<1>2. CASE Bootstrap
  BY <1>2 DEF Bootstrap, Failed
<1>3. CASE Prepare
  BY <1>3 DEF Prepare, Failed
<1>4. CASE CheckPorts
  BY <1>4 DEF CheckPorts, Outwards, Failed, Trapped
<1>5. CASE Record
  BY <1>5 DEF Record, Current, BeingRecorded
<1>6. CASE Write
  BY <1>6 DEF Write, Onwards, BeingRecorded, Current
<1>7. CASE WaitLooks
  BY <1>7 DEF WaitLooks
<1>8. CASE WaitAsks
  BY <1>8 DEF WaitAsks, Onwards
<1>9. CASE Probe
  BY <1>9 DEF Probe, Onwards
<1>10. CASE LauncherFails
  BY <1>10 DEF LauncherFails, Outwards, Failed, Trapped
<1>11. CASE WorkEnds
  BY <1>11 DEF WorkEnds, Failed
<1>12. CASE Begin
  BY <1>12 DEF Begin
<1>13. CASE Interrupt
  BY <1>13 DEF Interrupt, Outwards, Failed, Trapped, BeingRecorded, Current
<1>14. CASE Kill
  BY <1>14 DEF Kill, BeingRecorded, Current
<1> QED
  BY <1>1, <1>2, <1>3, <1>4, <1>5, <1>6, <1>7, <1>8, <1>9, <1>10, <1>11, <1>12, <1>13,
     <1>14 DEF RunStep

\* The launcher gets to its start with every service cleared, and moves on from
\* one service to the next with its pid noted.
LEMMA RunKeepsLaunched ==
  ASSUME TypeOK, EnvironmentIsQuiet, StopsClear, LaunchedAreMine, RunStep, RunEffects
  PROVE  LaunchedAreMine'
<1> USE ConstantFacts DEF Go, EnvironmentIsQuiet, LaunchedAreMine, RunEffects, TypeOK,
        Agents, StopPlaces, Serves, Leads, launch, os
<1>1. CASE StopEnds
  BY <1>1 DEF StopEnds, AfterStop, Failed
<1>2. CASE Bootstrap
  BY <1>2 DEF Bootstrap, Failed
<1>3. CASE Prepare
  BY <1>3 DEF Prepare, Failed
<1>4. CASE CheckPorts
  BY <1>4 DEF CheckPorts, Outwards, Failed, Trapped
<1>5. CASE Record
  BY <1>5 DEF Record, Current, BeingRecorded
<1>6. CASE Write
  <2>1. mine' = mine /\ lost \subseteq lost' /\ at["run"] = "write"
    BY <1>6 DEF Write
  <2>2. \/ at'["run"] = "start" /\ next' = next + 1
        \/ at'["run"] = "wait"
    BY <1>6 DEF Write, Onwards
  <2>3. CASE at'["run"] = "start" /\ next' = next + 1
    BY <2>1, <2>3
  <2>4. CASE at'["run"] = "wait"
    BY <2>1, <2>4
  <2> QED
    BY <2>2, <2>3, <2>4
<1>7. CASE WaitLooks
  BY <1>7 DEF WaitLooks
<1>8. CASE WaitAsks
  <2>1. mine' = mine /\ lost' = lost
        /\ at["run"] = "ask" /\ at'["run"] \in {"wait", "probe"}
    BY <1>8 DEF WaitAsks, Onwards
  <2> QED
    BY <2>1
<1>9. CASE Probe
  <2>1. mine' = mine /\ lost' = lost
        /\ at["run"] = "probe" /\ at'["run"] \in {"probe", "work"}
    BY <1>9 DEF Probe, Onwards
  <2> QED
    BY <2>1
<1>10. CASE LauncherFails
  BY <1>10 DEF LauncherFails, Outwards, Failed, Trapped
<1>11. CASE WorkEnds
  BY <1>11 DEF WorkEnds, Failed
<1>12. CASE Begin
  BY <1>12 DEF Begin
<1>13. CASE Interrupt
  BY <1>13 DEF Interrupt, Outwards, Failed, Trapped, BeingRecorded, Current
<1>14. CASE Kill
  BY <1>14 DEF Kill, BeingRecorded, Current
<1> QED
  BY <1>1, <1>2, <1>3, <1>4, <1>5, <1>6, <1>7, <1>8, <1>9, <1>10, <1>11, <1>12, <1>13,
     <1>14 DEF RunStep

\* Between the start of a server and the pid in its file the launcher knows it,
\* and whoever ends the launcher in that moment makes it a lost one.
LEMMA RunKeepsRecorded ==
  ASSUME TypeOK, EachServiceIsRecorded, LaunchedAreMine, RunStep, RunEffects
  PROVE  EachServiceIsRecorded'
<1> USE ConstantFacts DEF Go, EachServiceIsRecorded, LaunchedAreMine, BeingRecorded,
        Current, RunEffects, TypeOK, Agents, StopPlaces, Serves, Leads, launch, os
<1>1. CASE StopEnds
  BY <1>1 DEF StopEnds, AfterStop, Failed
<1>2. CASE Bootstrap
  BY <1>2 DEF Bootstrap, Failed
<1>3. CASE Prepare
  BY <1>3 DEF Prepare, Failed
<1>4. CASE CheckPorts
  BY <1>4 DEF CheckPorts, Outwards, Failed, Trapped
<1>5. CASE Record
  <2>1. /\ mine' = mine /\ next' = next /\ lost' = lost
        /\ at["run"] = "record" /\ at'["run"] = "write"
        /\ file' = [file EXCEPT ![Current] = Torn]
    BY <1>5 DEF Record
  <2>2. Current \in Services
    BY DEF Current
  <2>3. \A p \in Pids : Serves(p) /\ proc[p] # Current =>
          file'[proc[p]] = p \/ p \in lost \/ p = mine[Current]
    BY <2>1, <2>2
  <2>4. \A p \in Pids : Serves(p) /\ proc[p] = Current =>
          p \in lost \/ p = mine[Current]
    BY <2>1
  <2> QED
    BY <2>1, <2>3, <2>4
<1>6. CASE Write
  <2>1. /\ mine' = mine /\ at["run"] = "write"
        /\ \/ file[Current] = Torn /\ lost' = lost
              /\ file' = [file EXCEPT ![Current] = mine[Current]]
           \/ /\ file[Current] # Torn /\ file' = file
              /\ lost' = lost \cup {p \in {mine[Current]} : Serves(p)}
    BY <1>6 DEF Write
  <2>2. Current \in Services /\ mine[Current] \in Pids
    BY <2>1 DEF Current
  <2>3. \A p \in Pids : Serves(p) =>
          file[proc[p]] = p \/ p \in lost \/ p = mine[Current]
    BY <2>1
  <2>4. \A p \in Pids : Serves(p) /\ proc[p] = Current =>
          p \in lost \/ p = mine[Current]
    BY <2>1
  <2> QED
    BY <2>1, <2>2, <2>3, <2>4
<1>7. CASE WaitLooks
  BY <1>7 DEF WaitLooks
<1>8. CASE WaitAsks
  BY <1>8 DEF WaitAsks, Onwards
<1>9. CASE Probe
  BY <1>9 DEF Probe, Onwards
<1>10. CASE LauncherFails
  BY <1>10 DEF LauncherFails, Outwards, Failed, Trapped
<1>11. CASE WorkEnds
  BY <1>11 DEF WorkEnds, Failed
<1>12. CASE Begin
  BY <1>12 DEF Begin
<1>13. CASE Interrupt
  BY <1>13 DEF Interrupt, Outwards, Failed, Trapped
<1>14. CASE Kill
  BY <1>14 DEF Kill
<1> QED
  BY <1>1, <1>2, <1>3, <1>4, <1>5, <1>6, <1>7, <1>8, <1>9, <1>10, <1>11, <1>12, <1>13,
     <1>14 DEF RunStep

----------------------------------------------------------------------------
(* Each kind of step keeps the invariant.                                  *)

\* A step of a stop: what it clears, it clears of every server of that kind, since
\* a server without a file is lost.
LEMMA StopKeepsIInv ==
  ASSUME IInv, NEW a \in Agents, StopStep(a)
  PROVE  IInv'
<1>0. StopEffects(a)
  BY WhatAStopDoes DEF IInv
<1>0a. PICK b \in Agents : b # a /\ \A c \in Agents : c = a \/ c = b
  BY DEF Agents
<1> USE ConstantFacts, <1>0 DEF IInv, StopEffects, Serves, Leads
<1>1. TypeOK'
  BY ZenonT(60) DEF TypeOK, StopRecord
<1>2. (\A d \in Agents : StopKnows(d))'
  <2>1. SUFFICES ASSUME NEW c \in Agents
               PROVE  StopKnows(c)'
    OBVIOUS
  <2>2. CASE c = a
    BY <2>2
  <2>3. CASE c # a
    <3>1. stop'[c] = stop[c] /\ StopKnows(c)
      BY <2>3 DEF TypeOK
    <3> QED
      BY <3>1 DEF StopKnows
  <2> QED
    BY <2>2, <2>3
<1>3. SignalledLive'
  BY DEF SignalledLive
<1>4. PortsAreServed'
  BY DEF PortsAreServed
<1>5. EachServiceIsRecorded'
  BY DEF EachServiceIsRecorded, BeingRecorded, Current
<1>6. AtMostOne'
  BY DEF AtMostOne
<1>7. StopsClear'
  <2> SUFFICES ASSUME at["run"] \in StopPlaces, ~stop'["run"].failed,
                      NEW s \in Services, s \notin Range(stop'["run"].todo)
               PROVE  Cleared(s)'
    BY DEF StopsClear
  <2>1. Cleared(s) => Cleared(s)'
    BY DEF Cleared
  <2>2. CASE a # "run"
    <3>1. stop'["run"] = stop["run"]
      BY <2>2 DEF TypeOK, Agents
    <3> QED
      BY <2>1, <3>1 DEF StopsClear
  <2>3. CASE a = "run" /\ s \notin Range(stop["run"].todo)
    <3>1. ~stop["run"].failed
      BY <2>3
    <3> QED
      BY <2>1, <2>3, <3>1 DEF StopsClear
  <2>4. CASE a = "run" /\ s \in Range(stop["run"].todo)
    <3>1. /\ stop["run"].todo # <<>> /\ stop'["run"].todo = Tail(stop["run"].todo)
          /\ file'[Head(stop["run"].todo)] = NoFile
      BY <2>4
    <3>2. stop["run"].todo \in Seq(Services)
      BY DEF TypeOK, Agents
    <3>3. s = Head(stop["run"].todo) /\ file'[s] = NoFile
      BY <2>4, <3>1, <3>2, TailOfList
    <3>4. BeingRecorded' = {}
      BY DEF BeingRecorded, StopPlaces
    <3> QED
      BY <1>5, <3>3, <3>4 DEF Cleared, EachServiceIsRecorded
  <2> QED
    BY <2>2, <2>3, <2>4
<1>8. EnvironmentIsQuiet'
  BY DEF EnvironmentIsQuiet
<1>9. LaunchedAreMine'
  BY DEF LaunchedAreMine, Current, TypeOK
<1>10. CleanIsOver'
  BY DEF CleanIsOver
<1>11. LeavesNothing'
  BY DEF LeavesNothing
<1>12. LostServe'
  BY DEF LostServe
<1> QED
  BY <1>1, <1>2, <1>3, <1>4, <1>5, <1>6, <1>7, <1>8, <1>9, <1>10, <1>11, <1>12 DEF IInv

\* A step of the scripts around the stops.
LEMMA RunKeepsIInv ==
  ASSUME IInv, RunStep
  PROVE  IInv'
<1>0. RunEffects /\ GoEffects("run")
  BY WhatTheRunDoes DEF IInv, RunEffects
<1>0a. stop'["user"] = stop["user"]
  BY <1>0 DEF GoEffects, IInv, TypeOK, Agents
<1> USE ConstantFacts, <1>0 DEF IInv, RunEffects, Serves, Leads
<1>1. TypeOK'
  <2>1. stop' \in [Agents -> StopRecord]
    BY DEF GoEffects, TypeOK, StopRecord
  <2> QED
    BY <2>1 DEF GoEffects, TypeOK, StopRecord
<1>2. (\A a \in Agents : StopKnows(a))'
  <2>1. StopKnows("user")'
    <3>1. StopKnows("user")
      BY DEF Agents
    <3> QED
      BY <1>0a, <3>1 DEF StopKnows
  <2> QED
    BY <2>1 DEF Agents, GoEffects
<1>3. SignalledLive'
  BY DEF SignalledLive
<1>4. PortsAreServed'
  BY DEF PortsAreServed
<1>5. EachServiceIsRecorded'
  BY RunKeepsRecorded
<1>6. AtMostOne'
  BY DEF AtMostOne
<1>7. StopsClear'
  BY DEF StopsClear, GoEffects
<1>8. EnvironmentIsQuiet'
  BY RunKeepsQuiet
<1>9. LaunchedAreMine'
  BY RunKeepsLaunched
<1>10. CleanIsOver'
  BY RunKeepsClean
<1>11. LeavesNothing'
  BY RunKeepsClean
<1>12. LostServe'
  BY DEF LostServe
<1> QED
  BY <1>1, <1>2, <1>3, <1>4, <1>5, <1>6, <1>7, <1>8, <1>9, <1>10, <1>11, <1>12 DEF IInv

\* Somebody types the stop by hand, and is done with it.
LEMMA UserKeepsIInv ==
  ASSUME IInv, UserStops \/ UserIsDone
  PROVE  IInv'
<1>0. GoEffects("user") /\ UNCHANGED <<os, file, launch, outcome, lost>>
  <2>1. \E place \in Places("user") : Go("user", place)
    BY DEF UserStops, UserIsDone, Places
  <2> QED
    BY <2>1, WhatGoDoes DEF UserStops, UserIsDone, Agents, IInv
<1>0a. stop'["run"] = stop["run"] /\ at'["run"] = at["run"]
  BY <1>0 DEF GoEffects, IInv, TypeOK, Agents
<1> USE ConstantFacts, <1>0, <1>0a DEF IInv, os, launch, Serves, Leads
<1>1. TypeOK'
  <2>1. stop' \in [Agents -> StopRecord]
    BY DEF GoEffects, TypeOK, StopRecord
  <2> QED
    BY <2>1 DEF GoEffects, TypeOK, StopRecord
<1>2. (\A a \in Agents : StopKnows(a))'
  <2>1. StopKnows("run")'
    <3>1. StopKnows("run")
      BY DEF Agents
    <3> QED
      BY <1>0a, <3>1 DEF StopKnows
  <2> QED
    BY <2>1 DEF Agents, GoEffects
<1>3. SignalledLive'
  BY DEF SignalledLive
<1>4. PortsAreServed'
  BY DEF PortsAreServed
<1>5. EachServiceIsRecorded'
  BY DEF EachServiceIsRecorded, BeingRecorded, Current
<1>6. AtMostOne'
  BY DEF AtMostOne
<1>7. StopsClear'
  BY DEF StopsClear, Cleared
<1>8. EnvironmentIsQuiet'
  BY DEF EnvironmentIsQuiet
<1>9. LaunchedAreMine'
  BY DEF LaunchedAreMine, Current
<1>10. CleanIsOver'
  BY DEF CleanIsOver
<1>11. LeavesNothing'
  BY DEF LeavesNothing
<1>12. LostServe'
  BY DEF LostServe
<1> QED
  BY <1>1, <1>2, <1>3, <1>4, <1>5, <1>6, <1>7, <1>8, <1>9, <1>10, <1>11, <1>12 DEF IInv

\* The launcher starts a server where none of that kind runs, but for lost ones,
\* under a pid that nobody knows.
LEMMA StartKeepsIInv ==
  ASSUME IInv, NEW p \in Pids, Start(p)
  PROVE  IInv'
<1>0. GoEffects("run") /\ at["run"] = "start" /\ at'["run"] = "record"
  BY WhatGoDoes DEF Start, Places, Agents, IInv
<1>0a. stop'["user"] = stop["user"] /\ at'["user"] = at["user"]
  BY <1>0 DEF GoEffects, IInv, TypeOK, Agents
<1>0b. Current \in Services /\ next + 1 \in 1 .. Len(Order)
  BY ConstantFacts DEF IInv, TypeOK, Current
<1>0c. /\ Fresh(p) /\ proc' = [proc EXCEPT ![p] = Current]
       /\ alive' = [alive EXCEPT ![p] = {"leader", "worker"}]
       /\ mine' = [mine EXCEPT ![Current] = p]
       /\ UNCHANGED <<signalled, port, file, next, outcome, lost>>
  BY DEF Start
<1>0d. \A q \in Pids : q # p => (Serves(q) <=> Serves(q)') /\ proc'[q] = proc[q]
  BY <1>0c DEF IInv, TypeOK, Serves, Leads
<1>0e. Serves(p)' /\ proc'[p] = Current /\ ~Serves(p) /\ alive[p] = {}
  BY <1>0b, <1>0c DEF IInv, TypeOK, Serves, Leads, Fresh
<1>0f. \A q \in Pids : Serves(q) /\ proc[q] = Current => q \in lost
  <2>1. next + 1 > next
    BY DEF IInv, TypeOK
  <2>2. mine[Current] = NoPid
    BY <1>0, <1>0b, <2>1 DEF IInv, LaunchedAreMine, Current
  <2> QED
    BY <1>0, <2>2, ConstantFacts DEF IInv, LaunchedAreMine
<1> USE ConstantFacts, <1>0, <1>0a, <1>0b, <1>0c, <1>0d, <1>0e DEF IInv
<1>1. TypeOK'
  <2>1. stop' \in [Agents -> StopRecord]
    BY DEF GoEffects, TypeOK, StopRecord
  <2> QED
    BY <2>1 DEF GoEffects, TypeOK, StopRecord
<1>2. (\A a \in Agents : StopKnows(a))'
  <2>1. StopKnows("user")'
    <3>1. StopKnows("user") /\ stop["user"].pid # p
      BY DEF Agents, Fresh
    <3>2. stop["user"].pid \in Pids \cup {NoPid}
      BY DEF TypeOK, Agents
    <3>3. \A q \in Pids : q # p => alive'[q] = alive[q] /\ proc'[q] = proc[q]
      BY DEF TypeOK
    <3> QED
      BY <3>1, <3>2, <3>3 DEF StopKnows, Serves, Leads
  <2> QED
    BY <2>1 DEF Agents, GoEffects
<1>3. SignalledLive'
  BY DEF SignalledLive, TypeOK
<1>4. PortsAreServed'
  BY DEF PortsAreServed, TypeOK
<1>5. EachServiceIsRecorded'
  <2>1. p \in BeingRecorded'
    BY DEF BeingRecorded, Current, TypeOK
  <2>2. BeingRecorded = {}
    BY DEF BeingRecorded
  <2> QED
    BY <2>1, <2>2 DEF EachServiceIsRecorded
<1>6. AtMostOne'
  BY <1>0f DEF AtMostOne
<1>7. StopsClear'
  BY DEF StopsClear, StopPlaces
<1>8. EnvironmentIsQuiet'
  BY DEF EnvironmentIsQuiet
<1>9. LaunchedAreMine'
  <2>1. /\ Current' = Current /\ mine'[Current] = p
        /\ \A t \in Services : t # Current => mine'[t] = mine[t]
    BY DEF Current, TypeOK
  <2>2. \A q \in Pids : Serves(q)' => q \in lost' \/ q = mine'[proc'[q]]
    <3> TAKE q \in Pids
    <3>1. CASE q = p
      BY <2>1, <3>1
    <3>2. CASE q # p
      <4> SUFFICES ASSUME Serves(q) PROVE q \in lost \/ q = mine'[proc[q]]
        BY <3>2
      <4>1. proc[q] \in Services /\ (q \in lost \/ q = mine[proc[q]])
        BY DEF LaunchedAreMine, Serves
      <4> QED
        BY <2>1, <4>1, <1>0f
    <3> QED
      BY <3>1, <3>2
  <2>3. \A i \in 1 .. Len(Order) : i > next + 1 => mine'[Order[i]] = NoPid
    <3> SUFFICES ASSUME NEW i \in 1 .. Len(Order), i > next + 1
                 PROVE  mine'[Order[i]] = NoPid
      OBVIOUS
    <3>1. Order[i] # Current /\ i > next
      BY DEF Current, TypeOK
    <3>2. mine[Order[i]] = NoPid
      BY <3>1 DEF LaunchedAreMine
    <3> QED
      BY <2>1, <3>1, <3>2
  <2> QED
    BY <2>1, <2>2, <2>3 DEF LaunchedAreMine
<1>10. CleanIsOver'
  BY DEF CleanIsOver
<1>11. LeavesNothing'
  BY DEF LeavesNothing
<1>12. LostServe'
  BY DEF LostServe, TypeOK
<1> QED
  BY <1>1, <1>2, <1>3, <1>4, <1>5, <1>6, <1>7, <1>8, <1>9, <1>10, <1>11, <1>12 DEF IInv

\* A server comes up, a process ends, a pid is handed out again.
LEMMA ProcessesKeepIInv ==
  ASSUME IInv, ProcessStep
  PROVE  IInv'
<1>0. ProcessEffects
  BY WhatProcessesDo DEF IInv
<1> USE ConstantFacts, <1>0 DEF IInv, ProcessEffects
<1>1. TypeOK'
  BY DEF TypeOK
<1>2. (\A a \in Agents : StopKnows(a))'
  <2> SUFFICES ASSUME NEW a \in Agents
               PROVE  StopKnows(a)'
    OBVIOUS
  <2>1. StopKnows(a) /\ stop'[a] = stop[a]
    OBVIOUS
  <2>2. stop[a].pid \in Pids => ~Fresh(stop[a].pid)
    BY DEF Fresh
  <2>3. stop[a].pid \in Pids \cup {NoPid}
    BY DEF TypeOK
  <2> QED
    BY <2>1, <2>2, <2>3 DEF StopKnows
<1>3. SignalledLive'
  BY DEF SignalledLive, TypeOK, Fresh
<1>4. PortsAreServed'
  BY DEF PortsAreServed
<1>5. EachServiceIsRecorded'
  BY DEF EachServiceIsRecorded, BeingRecorded, Current
<1>6. AtMostOne'
  BY DEF AtMostOne
<1>7. StopsClear'
  BY DEF StopsClear, Cleared
<1>8. EnvironmentIsQuiet'
  BY DEF EnvironmentIsQuiet
<1>9. LaunchedAreMine'
  BY DEF LaunchedAreMine, Current
<1>10. CleanIsOver'
  BY DEF CleanIsOver
<1>11. LeavesNothing'
  BY DEF LeavesNothing
<1>12. LostServe'
  BY DEF LostServe
<1> QED
  BY <1>1, <1>2, <1>3, <1>4, <1>5, <1>6, <1>7, <1>8, <1>9, <1>10, <1>11, <1>12 DEF IInv

----------------------------------------------------------------------------
(* The theorems.                                                           *)

\* Nothing runs and nothing is recorded at first.
LEMMA InitIInv ==
  Init => IInv
<1> SUFFICES ASSUME Init
             PROVE  IInv
  OBVIOUS
<1> USE ConstantFacts DEF Init
<1>1. TypeOK
  <2>1. <<>> \in Seq(Services)
    OBVIOUS
  <2>2. stop \in [Agents -> StopRecord]
    BY <2>1 DEF StopRecord
  <2>3. 0 \in 0 .. Len(Order) - 1
    OBVIOUS
  <2>4. /\ at \in [Agents -> {"idle"}] /\ at["run"] = "idle"
        /\ at["user"] = "idle"
    BY DEF Agents
  <2> QED
    BY <2>2, <2>3, <2>4 DEF TypeOK, StopRecord
<1>2. (\A p \in Pids : ~Serves(p)) /\ lost = {} /\ signalled = {}
  BY DEF Serves, Leads
<1>3. \A a \in Agents : StopKnows(a)
  BY DEF StopKnows
<1>4. at["run"] = "idle" /\ outcome = "none"
  BY DEF Agents
<1> QED
  BY <1>1, <1>2, <1>3, <1>4 DEF IInv, SignalledLive, PortsAreServed, EachServiceIsRecorded,
     AtMostOne, StopsClear, EnvironmentIsQuiet, LaunchedAreMine, CleanIsOver,
     LeavesNothing, LostServe, StopPlaces

\* Every step of the scripts, of their user and of the system keeps the invariant.
LEMMA NextKeepsIInv ==
  IInv /\ [Next]_vars => IInv'
<1> SUFFICES ASSUME IInv, [Next]_vars
             PROVE  IInv'
  OBVIOUS
<1>1. ASSUME NEW a \in Agents, StopStep(a)
      PROVE  IInv'
  BY <1>1, StopKeepsIInv
<1>2. CASE RunStep
  BY <1>2, RunKeepsIInv
<1>3. CASE UserStops \/ UserIsDone
  BY <1>3, UserKeepsIInv
<1>4. ASSUME NEW p \in Pids, Start(p)
      PROVE  IInv'
  BY <1>4, StartKeepsIInv
<1>5. CASE ProcessStep
  BY <1>5, ProcessesKeepIInv
<1>6. CASE UNCHANGED vars
  BY <1>6 DEF IInv, vars, TypeOK, StopKnows, SignalledLive, PortsAreServed,
     EachServiceIsRecorded,
     AtMostOne, StopsClear, EnvironmentIsQuiet, LaunchedAreMine, CleanIsOver,
     LeavesNothing, LostServe, Serves, Leads, Cleared, BeingRecorded, Current
<1> QED
  BY <1>1, <1>2, <1>3, <1>4, <1>5, <1>6 DEF Next, Script, User, RunStep, ProcessStep, Agents

\* The inductive invariant holds in every reachable state.
LEMMA Invariance ==
  Spec => []IInv
<1> QED
  BY InitIInv, NextKeepsIInv, PTL DEF Spec

\* The scripts know the servers that run, whatever is interrupted or killed and
\* whoever stops servers beside them: each server is named by its pid file, of no
\* kind do two run, and the evaluations use their own, all but for the lost ones.
THEOREM ServersStayKnown == Spec => []ServersAreKnown
<1>1. IInv => ServersAreKnown
  <2>1. ASSUME IInv
        PROVE  ReadyIsOwn
    <3> SUFFICES ASSUME at["run"] = "work", NEW s \in Services
                 PROVE  port[s] \in {mine[s], NoPid} \cup lost
      BY DEF ReadyIsOwn
    <3>1. port[s] = NoPid \/ (/\ port[s] \in Pids /\ Serves(port[s])
                              /\ proc[port[s]] = s)
      BY <2>1 DEF IInv, TypeOK, PortsAreServed
    <3> QED
      BY <2>1, <3>1 DEF IInv, LaunchedAreMine
  <2> QED
    BY <2>1 DEF IInv, ServersAreKnown
<1> QED
  BY <1>1, Invariance, PTL

\* No stop signals a process of another program or another directory, although
\* a pid file outlives its process and its pid is used again.
THEOREM StrangersStaySafe == Spec => []StrangersAreSafe
<1>1. IInv => StrangersAreSafe
  BY DEF IInv, SignalledLive, StrangersAreSafe
<1> QED
  BY <1>1, Invariance, PTL

\* No environment and no index is rebuilt under a server, but for the lost ones.
THEOREM EnvironmentStaysQuiet == Spec => []EnvironmentIsQuiet
<1>1. IInv => EnvironmentIsQuiet
  BY DEF IInv
<1> QED
  BY <1>1, Invariance, PTL

\* A run whose last stop reported success leaves no server behind.
THEOREM CleanRunsLeaveNothing == Spec => []LeavesNothing
<1>1. IInv => LeavesNothing
  BY DEF IInv
<1> QED
  BY <1>1, Invariance, PTL

\* What the scripts call lost is a server that runs: nothing that has ended
\* excuses anything.
THEOREM OnlyServersAreLost == Spec => [](\A p \in lost : Serves(p))
<1>1. IInv => \A p \in lost : Serves(p)
  BY DEF IInv, LostServe
<1> QED
  BY <1>1, Invariance, PTL
=============================================================================
