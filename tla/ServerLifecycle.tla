-------------------------- MODULE ServerLifecycle --------------------------
(***************************************************************************)
(* The stdio servers of the workspaces of one machine.  A server that      *)
(* starts lists the servers it takes for stale, the one its workspace's    *)
(* pid file names and those the process table shows with the workspace as  *)
(* their directory, terminates them one by one, writes the pid file,       *)
(* closes the rows of delegations that have no end, and serves.  Nothing   *)
(* excludes two servers from starting at once, a process from ending, or   *)
(* a pid from being given to another process.                              *)
(***************************************************************************)
EXTENDS Naturals, FiniteSets

CONSTANTS
    Pids,        \* process ids
    Workspaces,  \* workspaces
    NoPid,       \* a workspace without pid file
    MaxLives     \* bound: processes that bear a pid, one after another

ASSUME LifecycleAssumption == NoPid \notin Pids /\ MaxLives \in Nat

VARIABLES
    kind,     \* "server", "command" such as delegate, "report" such as status, "other"
    at,       \* where the process is; "gone" when the pid is free
    home,     \* its workspace
    lives,    \* processes that have borne the pid
    targets,  \* pids it has still to terminate
    pidfile,  \* workspace -> the pid in its stdio.pid
    rows,     \* rows of delegations without end; an orphan has NoPid
    hidden,   \* processes whose directory the probes do not find
    stuck,    \* processes that cannot be terminated
    killAll   \* MCP_CODER_SINGLETON_KILL_ALL

lifecycleVars ==
    <<kind, at, home, lives, targets, pidfile, rows, hidden, stuck, killAll>>
settings == <<hidden, stuck, killAll>>

LifecycleInit ==
    /\ kind = [p \in Pids |-> "other"]
    /\ at = [p \in Pids |-> "gone"]
    /\ home = [p \in Pids |-> NoPid]
    /\ lives = [p \in Pids |-> 0]
    /\ targets = [p \in Pids |-> {}]
    /\ pidfile = [w \in Workspaces |-> NoPid]
    /\ rows = {}
    /\ hidden \in SUBSET Pids
    /\ stuck \in SUBSET Pids
    /\ killAll \in BOOLEAN

Lives(p) == at[p] # "gone"

\* A process begins: a server's start-up, a command, or a stranger to whom
\* the pid of an earlier process was given.
Begin(p, k, w) ==
    /\ ~Lives(p) /\ lives[p] < MaxLives
    /\ k = "other" => lives[p] > 0
    /\ lives' = [lives EXCEPT ![p] = @ + 1]
    /\ kind' = [kind EXCEPT ![p] = k]
    /\ home' = [home EXCEPT ![p] = w]
    /\ at' = [at EXCEPT ![p] = IF k = "server" THEN "started" ELSE "running"]
    /\ UNCHANGED <<targets, pidfile, rows, settings>>

\* Processes end, whoever ends them; their open rows stay.
Ended(gone) ==
    /\ at' = [p \in Pids |-> IF p \in gone THEN "gone" ELSE at[p]]
    /\ kind' = [p \in Pids |-> IF p \in gone THEN "other" ELSE kind[p]]
    /\ home' = [p \in Pids |-> IF p \in gone THEN NoPid ELSE home[p]]
    /\ rows' = {[r EXCEPT !.pid = IF @ \in gone THEN NoPid ELSE @] : r \in rows}

\* The command line of a server; that of a command which is not listed in
\* _CLI_SUBCOMMANDS looks the same.
ServerLine(q) == Lives(q) /\ kind[q] \in {"server", "report"}

\* stale_mcp_pids
\* Mutant: only the process the pid file names is stale.
StaleByFile(p) == {pidfile[home[p]]} \ {p, NoPid}

Stale(p) ==
    ({pidfile[home[p]]} \ {NoPid, p})
        \union {q \in Pids \ {p} : ServerLine(q) /\ q \notin hidden /\ home[q] = home[p]}

\* enforce_single_stdio_server: list, terminate each, write the pid file.
List(p) ==
    /\ at[p] = "started"
    /\ at' = [at EXCEPT ![p] = "ending"]
    /\ targets' = [targets EXCEPT ![p] = Stale(p)]
    /\ UNCHANGED <<kind, home, lives, pidfile, rows, settings>>

\* _terminate_pid: what holds the pid by now is terminated, or given up.
\* Mutant: it waits until the process is gone.
TerminateSurely(p, q) ==
    /\ at[p] \in {"ending", "sweeping"} /\ q \in targets[p] \ stuck
    /\ Ended({q})
    /\ targets' = [targets EXCEPT ![p] = @ \ {q}, ![q] = {}]
    /\ UNCHANGED <<lives, pidfile, settings>>

Terminate(p, q) ==
    /\ at[p] \in {"ending", "sweeping"} /\ q \in targets[p]
    /\ Ended({q} \ stuck)
    /\ targets' = [targets EXCEPT ![p] = @ \ {q}, ![q] = IF q \in stuck THEN @ ELSE {}]
    /\ UNCHANGED <<lives, pidfile, settings>>

Register(p) ==
    /\ at[p] = "ending" /\ targets[p] = {}
    /\ pidfile' = [pidfile EXCEPT ![home[p]] = p]
    /\ at' = [at EXCEPT ![p] = "registered"]
    /\ UNCHANGED <<kind, home, lives, targets, rows, settings>>

\* main: the servers of the other workspaces, terminated only when asked.
Sweep(p) ==
    /\ at[p] = "registered"
    /\ at' = [at EXCEPT ![p] = "sweeping"]
    /\ targets' = [targets EXCEPT ![p] =
                      IF killAll THEN {q \in Pids \ {p} : ServerLine(q)} ELSE {}]
    /\ UNCHANGED <<kind, home, lives, pidfile, rows, settings>>

\* _reconcile_on_startup, then run_stdio.
Reconcile(p) ==
    /\ at[p] = "sweeping" /\ targets[p] = {}
    /\ rows' = {r \in rows : r.ws # home[p]}
    /\ at' = [at EXCEPT ![p] = "serving"]
    /\ UNCHANGED <<kind, home, lives, targets, pidfile, settings>>

\* A delegation of a server, or of `delegate' on the command line.
BeginDelegation(p) ==
    /\ at[p] = "serving" \/ (at[p] = "running" /\ kind[p] = "command")
    /\ \A r \in rows : r.pid # p
    /\ rows' = rows \union {[ws |-> home[p], pid |-> p]}
    /\ UNCHANGED <<kind, at, home, lives, targets, pidfile, settings>>

EndDelegation(p) ==
    /\ \E r \in rows : r.pid = p /\ rows' = rows \ {r}
    /\ UNCHANGED <<kind, at, home, lives, targets, pidfile, settings>>

\* The client closes the pipe, the process fails or is done, or somebody
\* kills it: `mcp-coder kill' ends servers by the same probes.
Quit(p) ==
    /\ Lives(p)
    /\ Ended({p})
    /\ targets' = [targets EXCEPT ![p] = {}]
    /\ UNCHANGED <<lives, pidfile, settings>>

KillCommand(p) ==
    /\ Lives(p) /\ kind[p] = "server" /\ p \notin stuck
    /\ Ended({p})
    /\ targets' = [targets EXCEPT ![p] = {}]
    /\ UNCHANGED <<lives, pidfile, settings>>

StartsUp(p) ==
    List(p) \/ (\E q \in Pids : Terminate(p, q)) \/ Register(p) \/ Sweep(p) \/ Reconcile(p)

LifecycleNext == \E p \in Pids :
    \/ \E k \in {"server", "command", "report", "other"}, w \in Workspaces : Begin(p, k, w)
    \/ StartsUp(p)
    \/ BeginDelegation(p) \/ EndDelegation(p)
    \/ Quit(p) \/ KillCommand(p)

\* A start-up goes on by itself.
LifecycleSpec ==
    LifecycleInit /\ [][LifecycleNext]_lifecycleVars /\ \A p \in Pids : WF_lifecycleVars(StartsUp(p))

LifecycleTypeOK ==
    /\ at \in [Pids -> {"gone", "started", "ending", "registered", "sweeping", "serving", "running"}]
    /\ pidfile \in [Workspaces -> Pids \union {NoPid}]
    /\ targets \in [Pids -> SUBSET Pids]
    /\ rows \subseteq [ws : Workspaces, pid : Pids \union {NoPid}]

Odd == hidden \union stuck

\* Two servers of a workspace serve together only if a probe could not see
\* one of them or a signal not end it, and the pid file names the one that
\* serves, whatever the order in which they started (singleton.py:223, 249).
OneServes ==
    \A p \in Pids \ Odd :
        at[p] = "serving" =>
            /\ pidfile[home[p]] \in {p} \union Odd
            /\ \A q \in Pids \ ({p} \union Odd) : at[q] = "serving" => home[q] # home[p]

\* The row of a delegation is closed over its running process only when that
\* is a command, which no start looks for, or when it or the server that
\* closed it could not be seen or ended (main.py:632, snapshot.py:214).
OrphansOnly ==
    [][\A r \in rows \ rows' :
          r.pid # NoPid /\ Lives(r.pid)' /\ ~EndDelegation(r.pid) =>
              \/ kind[r.pid] = "command"
              \/ r.pid \in Odd
              \/ \E p \in Odd : at[p] = "sweeping" /\ home[p] = r.ws]_lifecycleVars

\* A command in the list of commands is terminated by a start only when its
\* pid was an earlier process's (singleton.py:19, 112).
CommandsSpared ==
    [][\A p, q \in Pids :
          Terminate(p, q) /\ kind[q] = "command" /\ Lives(q) /\ ~Lives(q)' => lives[q] > 1]_lifecycleVars

\* A start of one workspace leaves the servers of the others alone unless it
\* was told to end them, or their pid was an earlier process's
\* (singleton.py:199, main.py:623).
OthersSpared ==
    [][\A p, q \in Pids :
          Terminate(p, q) /\ Lives(q) /\ ~Lives(q)' /\ home[q] # home[p]
              => killAll \/ lives[q] > 1]_lifecycleVars

\* A server that starts comes to serve, or is ended: a process that does not
\* die holds it up for its patience only (singleton.py:159).
StartsEnd == \A p \in Pids : at[p] = "started" ~> at[p] \in {"serving", "gone"}

\* A start comes to its end and harms nobody it does not replace: no running
\* delegation of a server, no command, no server of another workspace.
StartsBehave == StartsEnd /\ OrphansOnly /\ CommandsSpared /\ OthersSpared
=============================================================================
