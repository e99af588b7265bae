--------------------------- MODULE DoltContainer ----------------------------
(***************************************************************************)
(* The container that serves the database: docker/entrypoint.sh beside the *)
(* nightly runs it follows.                                                *)
(*                                                                         *)
(* The script clones the repository into a volume, or pulls if there is    *)
(* one, starts the SQL server, waits for its port, starts the application  *)
(* and then waits for either to end.  From then on the server follows the  *)
(* branch by itself (read replication, dolt-sql-server.yaml).  Docker      *)
(* starts a container that ended again, unless it was told to stop it; the *)
(* volume stays.                                                           *)
(*                                                                         *)
(* tini is the first process and passes a TERM on to bash; when bash ends, *)
(* everything ends.  bash reports a child that ended before wait -n was    *)
(* called if it ended by itself, and forgets it if a signal killed it.     *)
(***************************************************************************)
EXTENDS NightlyRefresh

CONSTANTS MaxCrashes  \* bound: failures and stops of the container

ASSUME ContainerAssumption == MaxCrashes \in Nat

VARIABLES
    volume,   \* REPO_DIR: nothing, what a clone has begun, or a repository
    data,     \* its tables
    script,   \* where the entrypoint is
    process,  \* the two children: dolt and the application
    stopped,  \* docker stop was called
    crashes   \* failures so far

containerVars == <<volume, data, script, process, stopped, crashes>>
vars == <<nightlyVars, containerVars>>

Phases == {"off", "begin", "clone", "pull", "serve", "probe", "launch", "await", "wait"}
\* "ending": told to; "forgotten": killed by a signal while nobody waited.
Life == {"none", "starting", "up", "ending", "dead", "forgotten"}
Children == {"dolt", "app"}
NoChildren == [c \in Children |-> "none"]

Init ==
    /\ NightlyInit
    /\ volume = "none"
    /\ data = Whole(All(0))
    /\ script = "off"
    /\ process = NoChildren
    /\ stopped = FALSE
    /\ crashes = 0

Goto(from, to) == script = from /\ script' = to
Fails == crashes < MaxCrashes /\ crashes' = crashes + 1
Ends == script' = "off" /\ process' = NoChildren

-----------------------------------------------------------------------------
(* The script.                                                              *)

Start_Once ==
    /\ ~stopped /\ crashes = 0
    /\ Goto("off", "begin")
    /\ UNCHANGED <<volume, data, process, stopped, crashes>>

\* restart: unless-stopped.
Start ==
    /\ ~stopped
    /\ Goto("off", "begin")
    /\ UNCHANGED <<volume, data, process, stopped, crashes>>

\* if [ ! -d "${REPO_DIR}/.dolt" ]; a clone makes that directory first.
Look ==
    /\ script = "begin"
    /\ script' = IF volume = "none" THEN "clone" ELSE "pull"
    /\ volume' = IF volume = "none" THEN "partial" ELSE volume
    /\ UNCHANGED <<data, process, stopped, crashes>>

Cloned ==
    /\ Goto("clone", "serve")
    /\ volume' = "whole"
    /\ data' = head
    /\ UNCHANGED <<process, stopped, crashes>>

\* The remote does not answer: dolt removes what it made, the script exits.
CloneFails ==
    /\ script = "clone"
    /\ Fails
    /\ Ends
    /\ volume' = "none"
    /\ UNCHANGED <<data, stopped>>

Pulled ==
    /\ volume = "whole"
    /\ Goto("pull", "serve")
    /\ data' = head
    /\ UNCHANGED <<volume, process, stopped, crashes>>

\* A warning; what is there is served.
PullFails ==
    /\ Goto("pull", "serve")
    /\ IF volume = "whole" THEN Fails ELSE UNCHANGED crashes
    /\ UNCHANGED <<volume, data, process, stopped>>

\* dolt sql-server &, and from here on the trap is set.
Serve ==
    /\ Goto("serve", "probe")
    /\ process' = [process EXCEPT !["dolt"] = "starting"]
    /\ UNCHANGED <<volume, data, stopped, crashes>>

\* The port is open; a server that is ending may still have it so.
Probed ==
    /\ process["dolt"] \in {"up", "ending"}
    /\ Goto("probe", "launch")
    /\ UNCHANGED <<volume, data, process, stopped, crashes>>

\* kill -0 finds no server.
ProbeFindsNone ==
    /\ script = "probe"
    /\ process["dolt"] = "dead"
    /\ Ends
    /\ UNCHANGED <<volume, data, stopped, crashes>>

\* 120 tries are over, and the server is still not there.
ProbeGivesUp ==
    /\ script = "probe"
    /\ process["dolt"] \in {"starting", "ending"}
    /\ Fails
    /\ Ends
    /\ UNCHANGED <<volume, data, stopped>>

\* uvicorn ... &
Launch ==
    /\ Goto("launch", "await")
    /\ process' = [process EXCEPT !["app"] = "up"]
    /\ UNCHANGED <<volume, data, stopped, crashes>>

\* wait -n is called.
Await ==
    /\ Goto("await", "wait")
    /\ UNCHANGED <<volume, data, process, stopped, crashes>>

Noticed_AppOnly == process["app"] = "dead"

\* What wait -n returns for: a child that ended, or that none is left it knows.
Noticed == \/ \E c \in Children : process[c] = "dead"
           \/ \A c \in Children : process[c] = "forgotten"

\* With set -e or through its last lines the script exits.
Returns ==
    /\ script = "wait"
    /\ Noticed
    /\ Ends
    /\ UNCHANGED <<volume, data, stopped, crashes>>

-----------------------------------------------------------------------------
(* The children.                                                            *)

Opens ==
    /\ process["dolt"] = "starting"
    /\ process' = [process EXCEPT !["dolt"] = "up"]
    /\ UNCHANGED <<volume, data, script, stopped, crashes>>

\* A child exits, or is killed by a signal (out of memory); a signal between
\* the last probe and wait -n is forgotten.
Dies(c) ==
    /\ process[c] \in {"starting", "up", "ending"}
    /\ Fails
    /\ \E how \in {"dead", "forgotten"} :
         /\ how = "forgotten" => script \in {"launch", "await"}
         /\ process' = [process EXCEPT ![c] = how]
    /\ UNCHANGED <<volume, data, script, stopped>>

\* A server that was told to ends by itself.
Obeys ==
    /\ process["dolt"] = "ending"
    /\ process' = [process EXCEPT !["dolt"] = "dead"]
    /\ UNCHANGED <<volume, data, script, stopped, crashes>>

\* The application starts a transaction, and the replica has pulled.
Replicate ==
    /\ process["dolt"] = "up" /\ process["app"] = "up"
    /\ volume = "whole"
    /\ data' = head
    /\ UNCHANGED <<volume, script, process, stopped, crashes>>

-----------------------------------------------------------------------------
(* Docker.                                                                  *)

\* The container is killed: power, memory, docker kill.
Kill ==
    /\ script # "off"
    /\ Fails
    /\ Ends
    /\ UNCHANGED <<volume, data, stopped>>

Terminated_Ignored(p) == p

\* kill -TERM "${DOLT_PID}" of the trap.
Terminated(p) == [p EXCEPT !["dolt"] = IF @ \in {"starting", "up"} THEN "ending" ELSE @]

Trapped == script \in {"probe", "launch", "await"}

\* docker stop, and the TERM that reaches bash: it dies if the trap is not set
\* yet, leaves wait -n, or passes the signal on to dolt when its command ends.
Stop ==
    /\ ~stopped /\ script # "off"
    /\ Fails
    /\ stopped' = TRUE
    /\ IF Trapped
       THEN process' = Terminated(process) /\ UNCHANGED script
       ELSE Ends
    /\ UNCHANGED <<volume, data>>

\* Ten seconds after docker stop.
KillStopped ==
    /\ stopped /\ script # "off"
    /\ Ends
    /\ UNCHANGED <<volume, data, stopped, crashes>>

\* docker start.
Resume ==
    /\ stopped /\ script = "off"
    /\ stopped' = FALSE
    /\ UNCHANGED <<volume, data, script, process, crashes>>

Script ==
    \/ Look \/ Cloned \/ Pulled \/ PullFails \/ Serve \/ Probed \/ ProbeFindsNone
    \/ Launch \/ Await \/ Returns

ContainerNext ==
    \/ Start \/ Script \/ CloneFails \/ ProbeGivesUp
    \/ Opens \/ Obeys \/ Replicate \/ \E c \in Children : Dies(c)
    \/ Kill \/ Stop \/ KillStopped \/ Resume

Next ==
    \/ NightlyNext /\ UNCHANGED containerVars
    \/ ContainerNext /\ UNCHANGED nightlyVars

\* The schedule starts a run every night, and its steps end; Docker starts what
\* ended; the script and the children go on; somebody asks the application, so
\* that transactions start.
Fairness ==
    /\ WF_nightlyVars(NightStep)
    /\ WF_containerVars(Start) /\ WF_containerVars(Script)
    /\ WF_containerVars(Opens) /\ WF_containerVars(Obeys) /\ WF_containerVars(Replicate)

Spec == Init /\ [][Next]_vars /\ Fairness

-----------------------------------------------------------------------------
(* Properties.                                                              *)

\* Types of the state; only a whole repository has data.
TypeOK ==
    /\ NightlyTypeOK
    /\ volume \in {"none", "partial", "whole"}
    /\ data \in Tables
    /\ volume # "whole" => data = Whole(All(0))
    /\ script \in Phases
    /\ process \in [Children -> Life]
    /\ stopped \in BOOLEAN
    /\ crashes \in 0..MaxCrashes

\* DoltHub only ever shows the result of a whole run, and the container moves
\* from one such result to a later one: through failing nights, dry runs,
\* clones, pulls, replication, kills and restarts.
Published == INSTANCE PublishedRuns WITH served <- data
MirrorsRuns == Published!Spec

\* Neither process outlives the other: when the server or the application
\* exits, at any point of the script, the container ends.
EndsTogether == \A c \in Children : process[c] = "dead" ~> script = "off"

\* A docker stop ends the container without the kill that follows it, though
\* before the trap, in the start-up loop and in wait -n it takes three ways;
\* not if the server was killed unnoticed.
StopIsHeard == stopped ~> script = "off" \/ process["dolt"] = "forgotten"

\* A first clone that was cut short: the directory is there, and the script
\* will never clone again.
Broken == volume = "partial" /\ script # "clone"

\* What a company files reaches the readers of the container, unless it stays
\* stopped, its first clone was cut short, or a child was killed unnoticed.  Two
\* things of the nights may keep it away for good: more companies filed since a
\* push than an update accepts, so that every later night stops; or the company
\* filed between the two downloads of a night, and never filed again.
EventuallyServed ==
    []<>~stopped /\ []<>~TooMany =>
      \A c \in Company : []<>~Overlooked(c) =>
        \A v \in 2..MaxFilings + 1 :
          sec[c] >= v ~> \/ \A p \in Part : data[p][c] >= v
                        \/ Broken \/ \E child \in Children : process[child] = "forgotten"
=============================================================================
