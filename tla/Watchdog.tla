------------------------------ MODULE Watchdog ------------------------------
(* The watchdog on the trading computer: restarts of the terminal, the API,   *)
(* the web server and the bridge, one at a time, and the status it shows.     *)
EXTENDS Integers, Sequences, FiniteSets

CONSTANTS
  Targets,        \* targets that are asked for
  FrontendCmd,    \* TRUE: the web server is started by a configured command
  Stubborn,       \* processes that cannot be terminated (access denied)
  Crashing,       \* components that may end by themselves
  MaxRequests     \* bound: restarts that are asked for
Components == {"mt5", "bridge", "api", "frontend"}

VARIABLES
  run,       \* generation of the process of a component, 0 when it is down
  made,      \* generations started so far
  lock,      \* restart_lock
  thread,    \* what is left of a restart: steps of a component, and later ones
  base,      \* generations when the restart was asked for
  actions,   \* verdicts, one per request
  docker,    \* docker_status_cache: what it says and whether it is old
  refresh,   \* the thread that asks docker holds docker_status_lock
  probe      \* a status request that has done its health checks
watchVars == <<run, made, lock, thread, base, actions, docker, refresh, probe>>

Idle == [target |-> "none", steps |-> <<>>, later |-> <<>>]
NoProbe == [up |-> {}, open |-> FALSE]
WatchInit ==
  /\ run = [c \in Components |-> 1] /\ made = [c \in Components |-> 1]
  /\ lock = FALSE /\ thread = Idle /\ base = made /\ actions = <<>>
  /\ docker = [says |-> "UNKNOWN", old |-> TRUE] /\ refresh = FALSE
  /\ probe = NoProbe

Up == {c \in Components : run[c] > 0}

\* A component ends by itself.
Exit(c) == /\ run[c] > 0 /\ run' = [run EXCEPT ![c] = 0]
           /\ UNCHANGED <<made, lock, thread, base, actions, docker, refresh, probe>>

----------------------------------------------------------------------------
(* A restart. *)

Processes(c) == [i \in 1..3 |-> [component |-> c, do |-> <<"kill", "start", "check">>[i]]]
Compose(c) == [i \in 1..3 |-> [component |-> c, do |-> <<"stop", "build", "up">>[i]]]
Restart(c) == CASE c \in {"mt5", "bridge"} -> Processes(c)
                [] c = "api" -> Compose(c)
                [] c = "frontend" -> IF FrontendCmd THEN <<[component |-> c, do |-> "launch"]>> ELSE Compose(c)
\* restart_all restarts one component after the other.
Parts(target) == IF target = "all" THEN <<"api", "frontend", "mt5", "bridge">> ELSE <<target>>
Begin(target, parts) ==
  [target |-> target, steps |-> IF parts = <<>> THEN <<>> ELSE Restart(Head(parts)),
   later |-> IF parts = <<>> THEN <<>> ELSE Tail(parts)]

\* run_restart: a second request is refused, not queued.
Request(target) ==
  /\ Len(actions) < MaxRequests /\ ~lock /\ lock' = TRUE
  /\ actions' = Append(actions, "RESTARTING")
  /\ thread' = Begin(target, Parts(target)) /\ base' = made
  /\ UNCHANGED <<run, made, docker, refresh, probe>>

\* What a step does: the generation that runs after it, and whether it raises;
\* a command of docker that takes too long raises though it may have its effect.
Outcomes(c, do) ==
  CASE do \in {"kill", "stop"} ->
         {[gen |-> IF c \in Stubborn THEN run[c] ELSE 0, ok |-> TRUE]}
         \cup (IF do = "stop" THEN {[gen |-> run[c], ok |-> FALSE], [gen |-> 0, ok |-> FALSE]} ELSE {})
    [] do = "build" -> {[gen |-> run[c], ok |-> ok] : ok \in BOOLEAN}
    [] do \in {"start", "launch"} ->
         {[gen |-> run[c], ok |-> ok] : ok \in BOOLEAN}
         \cup (IF run[c] > 0 THEN {} ELSE {[gen |-> made[c] + 1, ok |-> TRUE]})
    [] do = "up" -> {[gen |-> run[c], ok |-> FALSE]} \cup {[gen |-> made[c] + 1, ok |-> ok] : ok \in BOOLEAN}
    [] do = "check" -> {[gen |-> run[c], ok |-> run[c] > 0]}

GoesOnAlways(target, c) == target = "all"   \* (a mutant)
\* restart_all goes on without the web server, and with nothing else.
GoesOn(target, c) == target = "all" /\ c = "frontend"

Step ==
  LET s == Head(thread.steps) IN
  /\ thread.steps # <<>>
  /\ \E o \in Outcomes(s.component, s.do) :
       /\ run' = [run EXCEPT ![s.component] = o.gen]
       /\ made' = [made EXCEPT ![s.component] = IF o.gen > @ THEN o.gen ELSE @]
       /\ thread' = IF o.ok /\ Len(thread.steps) > 1 THEN [thread EXCEPT !.steps = Tail(@)]
                    ELSE IF o.ok \/ GoesOn(thread.target, s.component)
                         THEN Begin(thread.target, thread.later)
                         ELSE Begin("failed", <<>>)
  /\ UNCHANGED <<lock, base, actions, docker, refresh, probe>>

\* _perform_restart records the verdict and releases the lock.
Finish ==
  /\ thread.target # "none" /\ thread.steps = <<>>
  /\ actions' = [actions EXCEPT ![Len(actions)] = IF thread.target = "failed" THEN "FAIL" ELSE "OK"]
  /\ thread' = Idle /\ lock' = FALSE
  /\ UNCHANGED <<run, made, base, docker, refresh, probe>>

\* The watchdog itself is restarted: the thread ends wherever it is.
WatchdogRestarts ==
  /\ actions # <<>> /\ lock' = FALSE /\ thread' = Idle /\ refresh' = FALSE /\ probe' = NoProbe
  /\ actions' = [i \in DOMAIN actions |-> "LOST"]
  /\ docker' = [says |-> "UNKNOWN", old |-> TRUE]
  /\ UNCHANGED <<run, made, base>>

----------------------------------------------------------------------------
(* check_status. *)

DockerAges == /\ ~docker.old /\ docker' = [docker EXCEPT !.old = TRUE]
              /\ UNCHANGED <<run, made, lock, thread, base, actions, refresh, probe>>
RefreshDocker(says) ==
  /\ refresh /\ refresh' = FALSE /\ docker' = [says |-> says, old |-> FALSE]
  /\ UNCHANGED <<run, made, lock, thread, base, actions, probe>>

\* First the health checks over the network ...
Probe == /\ ~probe.open /\ probe' = [up |-> Up, open |-> TRUE]
         /\ UNCHANGED <<run, made, lock, thread, base, actions, docker, refresh>>

\* ... then the processes of the system, and docker as it was last seen; the
\* ticks are as good as what the bridge says through the API.
Item(key) ==
  CASE key = "mt5" -> IF "mt5" \in Up THEN "OK" ELSE "FAIL"
    [] key = "bridge" -> IF "bridge" \in probe.up THEN IF "mt5" \in probe.up THEN "OK" ELSE "WARN"
                         ELSE IF "bridge" \in Up THEN "WARN" ELSE "FAIL"
    [] key = "api" -> IF "api" \in probe.up THEN "OK" ELSE "FAIL"
    [] key = "frontend" -> IF "frontend" \in probe.up THEN "OK" ELSE "WARN"
    [] key = "docker" -> docker.says
    [] key = "ticks" -> IF "api" \notin probe.up THEN "FAIL"
                        ELSE IF {"bridge", "mt5"} \subseteq probe.up THEN "OK" ELSE "FAIL"
Items == {Item(k) : k \in {"mt5", "bridge", "api", "frontend", "docker", "ticks"}}
Overall == IF "FAIL" \in Items THEN "FAIL" ELSE IF "WARN" \in Items THEN "WARN" ELSE "OK"

Answer ==
  /\ probe.open /\ probe' = NoProbe
  /\ refresh' = (refresh \/ docker.old)
  /\ UNCHANGED <<run, made, lock, thread, base, actions, docker>>

----------------------------------------------------------------------------
WatchNext ==
  \/ \E c \in Crashing : Exit(c)
  \/ \E target \in Targets : Request(target)
  \/ Step \/ Finish \/ WatchdogRestarts
  \/ DockerAges \/ \E says \in {"OK", "FAIL"} : RefreshDocker(says)
  \/ Probe \/ Answer

Promised(target) ==
  CASE target = "all" -> {"api", "mt5", "bridge"}
    [] target = "frontend" -> IF FrontendCmd THEN {} ELSE {"frontend"}
    [] OTHER -> {target} \cap Components

(* A restart that is recorded as OK has ended the old process of every        *)
(* component it is for, and started a new one; and the lock is free only when *)
(* every request has its verdict.                                             *)
VerdictIsTrue ==
  [][/\ Finish /\ thread.target # "failed" =>
          \A c \in Promised(thread.target) : made[c] > base[c] /\ (run[c] = 0 \/ run[c] > base[c])
     /\ \A i \in DOMAIN actions' : actions'[i] = "RESTARTING" => lock']_watchVars

\* "Todo OK" means that docker answered.  It does not hold: a status that is
\* UNKNOWN counts neither as a failure nor as a warning.
AllOkIsKnown == [][Answer /\ Overall = "OK" => docker.says # "UNKNOWN"]_watchVars
=============================================================================
