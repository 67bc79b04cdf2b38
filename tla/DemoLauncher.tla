---------------------------- MODULE DemoLauncher ----------------------------
(***************************************************************************)
(* The demo launcher                                                       *)
(*                                                                         *)
(*   scripts/demo.ts                                                       *)
(*                                                                         *)
(* Launchers on one host: each creates, or reuses, a local cluster with a  *)
(* registry, deploys the workspace into it, and rebuilds it at a prompt    *)
(* until it is left or signalled; --delete takes clusters down, whoever    *)
(* runs in them.  Every command of a step may fail; the main program and   *)
(* the signal handlers interleave, and the end of the process cuts the     *)
(* others short.  A cluster name comes from the commit of the workspace or *)
(* from the environment, and so may the port the app is forwarded to; the  *)
(* registry's port is random.                                              *)
(***************************************************************************)
EXTENDS Naturals, FiniteSets

CONSTANTS
  Launchers,    \* invocations of the launcher
  ClusterNames, \* names they may use
  Ports,        \* local ports they may forward to the app
  MaxRefreshes, \* bound: rebuilds at the prompt
  MaxSignals,   \* bound: SIGINT or SIGTERM received
  NoLauncher, NoName

ASSUME DemoAssumption ==
  /\ NoLauncher \notin Launchers /\ NoName \notin ClusterNames
  /\ {MaxRefreshes, MaxSignals} \subseteq Nat

VARIABLES
  step,      \* where the main program of each launcher is
  named,     \* clusterName
  targets,   \* of --delete: the clusters still to be deleted
  port,      \* config.port
  cluster,   \* who created the cluster of a name
  registry,  \* whose port the registry of a name listens on
  pod,       \* how often the app's pod of a name was replaced
  forward,   \* the replacement of the pod that the port-forward is bound to, 0 without one
  tunnel,    \* the public tunnel of each launcher
  handler,   \* the exit code its signal handler is going to leave
  tearing,   \* teardown: not begun, the cluster's turn, the registry's, done
  failed,    \* teardownFailed
  why,       \* the step that threw
  code,      \* exit code of the process
  refreshes, signals

host   == <<cluster, registry, pod>>
links  == <<forward, tunnel>>
config == <<named, targets, port>>
ending == <<handler, tearing, failed, why, code>>
counts == <<refreshes, signals>>
demoVars == <<step, config, host, links, ending, counts>>

Alive(l) == code[l] = "none"

DemoInit ==
  /\ step = [l \in Launchers |-> "start"] /\ named = [l \in Launchers |-> NoName]
  /\ targets = [l \in Launchers |-> {}] /\ port \in [Launchers -> Ports]
  /\ cluster = [n \in ClusterNames |-> NoLauncher]
  /\ registry = [n \in ClusterNames |-> NoLauncher]
  /\ pod = [n \in ClusterNames |-> 0]
  /\ forward = [l \in Launchers |-> 0]
  /\ tunnel = [l \in Launchers |-> "off"]
  /\ handler = [l \in Launchers |-> "none"]
  /\ tearing = [l \in Launchers |-> "no"]
  /\ failed = [l \in Launchers |-> FALSE]
  /\ why = [l \in Launchers |-> "none"]
  /\ code = [l \in Launchers |-> "none"]
  /\ refreshes = 0 /\ signals = 0

-----------------------------------------------------------------------------
(***************************************************************************)
(* The main program.  An error at any step leads to its finally clause.    *)
(***************************************************************************)
Moves(l, from, to) == Alive(l) /\ step[l] = from /\ step' = [step EXCEPT ![l] = to]

Reused(n) == cluster[n] # NoLauncher

\* The rollout replaces the pod.
Replaced(n) == [pod EXCEPT ![n] = @ + 1]

\* A command fails or a probe runs into its deadline, perhaps after the new pod was applied.
Throws(l) ==
  /\ Alive(l)
  /\ step[l] \in {"registry", "cluster", "database", "build", "push", "deploy", "verify", "tunnel"}
  /\ step' = [step EXCEPT ![l] = "finally"]
  /\ why' = [why EXCEPT ![l] = step[l]]
  /\ \/ UNCHANGED pod
     \/ step[l] = "deploy" /\ Reused(named[l]) /\ pod' = Replaced(named[l])
  /\ UNCHANGED <<config, handler, tearing, failed, code, cluster, registry, links, counts>>

\* The name is given, or that of the commit.  A cluster of the name is reused, whoever made
\* it; its registry with it.  A tunnel is wanted or not.
Begin(l) ==
  \E n \in ClusterNames, t \in {"off", "wanted"} :
    /\ Moves(l, "start", IF Reused(n) THEN "database" ELSE "registry")
    /\ named' = [named EXCEPT ![l] = n] /\ tunnel' = [tunnel EXCEPT ![l] = t]
    /\ UNCHANGED <<targets, port, host, forward, ending, counts>>

CreateRegistry(l) ==
  /\ Moves(l, "registry", "cluster") /\ registry[named[l]] = NoLauncher
  /\ registry' = [registry EXCEPT ![named[l]] = l]
  /\ UNCHANGED <<config, cluster, pod, links, ending, counts>>

CreateCluster(l) ==
  /\ Moves(l, "cluster", "database") /\ ~Reused(named[l])
  /\ cluster' = [cluster EXCEPT ![named[l]] = l]
  /\ UNCHANGED <<config, registry, pod, links, ending, counts>>

\* Kubeconfig, Postgres and init-remote.
Bootstrap(l) ==
  /\ Moves(l, "database", "build") /\ Reused(named[l])
  /\ UNCHANGED <<config, host, links, ending, counts>>

Build(l) ==
  /\ Moves(l, "build", "push")
  /\ UNCHANGED <<config, host, links, ending, counts>>

\* The image goes to the port this launcher drew, not to the one the registry has.
Push(l) ==
  /\ Moves(l, "push", "deploy") /\ registry[named[l]] = l
  /\ UNCHANGED <<config, host, links, ending, counts>>

\* A port-forward lives with its pod.
Forwards(k) == forward[k] # 0 /\ Reused(named[k]) /\ forward[k] = pod[named[k]]

\* The first deployment is followed by the port-forward, which ends at once when another
\* launcher's holds the port.
Deploy(l) ==
  /\ Moves(l, "deploy", "verify") /\ Reused(named[l])
  /\ pod' = Replaced(named[l])
  /\ forward' = [forward EXCEPT ![l] =
       IF @ # 0 \/ \E k \in Launchers \ {l} : Forwards(k) /\ port[k] = port[l] THEN @ ELSE pod'[named[l]]]
  /\ UNCHANGED <<config, cluster, registry, tunnel, ending, counts>>

\* The probe inside the pod, and the one of the port, whoever forwards it.
Served(l) == Reused(named[l]) /\ \E k \in Launchers : Forwards(k) /\ port[k] = port[l]

Verify(l) ==
  /\ Moves(l, "verify", IF tunnel[l] = "wanted" THEN "tunnel" ELSE "prompt") /\ Served(l)
  /\ UNCHANGED <<config, host, links, ending, counts>>

\* A public address is assigned in time and shows the page.
OpenTunnel(l) ==
  /\ Moves(l, "tunnel", "prompt") /\ Served(l)
  /\ tunnel' = [tunnel EXCEPT ![l] = "open"]
  /\ UNCHANGED <<config, forward, host, ending, counts>>

\* Enter at the prompt.
Refresh(l) ==
  /\ refreshes < MaxRefreshes /\ refreshes' = refreshes + 1
  /\ Moves(l, "prompt", "build")
  /\ UNCHANGED <<config, signals, host, links, ending>>

Quit(l) ==
  /\ Moves(l, "prompt", "finally")
  /\ UNCHANGED <<config, host, links, ending, counts>>

-----------------------------------------------------------------------------
(***************************************************************************)
(* teardown, entered once, by the finally clause or by a handler.          *)
(***************************************************************************)
BeginTeardown(l) ==
  /\ tearing' = [tearing EXCEPT ![l] = IF @ = "no" THEN "cluster" ELSE @]
  /\ forward' = [forward EXCEPT ![l] = IF tearing[l] = "no" THEN 0 ELSE @]
  /\ tunnel'  = [tunnel EXCEPT ![l] = IF tearing[l] = "no" THEN "off" ELSE @]

\* A second entry returns at once: the error is reported, or the handler is left to end it.
Finally(l) ==
  /\ Moves(l, "finally", IF tearing[l] = "no" THEN "await"
                         ELSE IF why[l] = "none" /\ ~failed[l] THEN "over" ELSE "left")
  /\ BeginTeardown(l)
  /\ UNCHANGED <<config, handler, failed, why, code, host, counts>>

\* The handlers are installed before the cluster is looked for, and not for --delete.
Unguarded(l) == step[l] \in {"start", "delete", "purge"}

\* SIGINT or SIGTERM, and perhaps another.
Signal(l) ==
  /\ Alive(l) /\ signals < MaxSignals /\ signals' = signals + 1
  /\ \E with \in {"130", "143"} :
       \/ /\ Unguarded(l) /\ code' = [code EXCEPT ![l] = with]
          /\ UNCHANGED <<handler, tearing, links>>
       \* A teardown under way is not waited for: the process ends with this handler.
       \/ /\ ~Unguarded(l) /\ handler' = [handler EXCEPT ![l] = with]
          /\ code' = [code EXCEPT ![l] = IF tearing[l] = "no" THEN @ ELSE with]
          /\ BeginTeardown(l)
  /\ UNCHANGED <<step, config, failed, why, refreshes, host>>

Gone(f, n) == [f EXCEPT ![n] = NoLauncher]

DeleteCluster(l) ==
  /\ Alive(l) /\ tearing[l] = "cluster"
  /\ tearing' = [tearing EXCEPT ![l] = "registry"]
  /\ \/ cluster' = Gone(cluster, named[l]) /\ UNCHANGED failed
     \/ failed' = [failed EXCEPT ![l] = TRUE] /\ UNCHANGED cluster
  /\ UNCHANGED <<step, config, registry, pod, handler, why, code, links, counts>>

\* Best effort.
DeleteRegistry(l) ==
  /\ Alive(l) /\ tearing[l] = "registry"
  /\ tearing' = [tearing EXCEPT ![l] = "done"]
  /\ \/ registry' = Gone(registry, named[l])
     \/ UNCHANGED registry
  /\ UNCHANGED <<step, config, cluster, pod, handler, failed, why, code, links, counts>>

ExitsWith(l, with) ==
  /\ Alive(l) /\ code' = [code EXCEPT ![l] = with]
  /\ UNCHANGED <<step, config, handler, tearing, failed, why, host, links, counts>>

\* main returns, or throws, after its teardown.
ExitOK(l) ==
  /\ step[l] = "await" /\ tearing[l] = "done" /\ why[l] = "none" /\ ~failed[l]
  /\ ExitsWith(l, "0")

ExitFailed(l) ==
  /\ \/ step[l] = "await" /\ tearing[l] = "done" /\ (why[l] # "none" \/ failed[l])
     \/ step[l] = "left"
  /\ ExitsWith(l, "1")

ExitSignalled(l) ==
  handler[l] # "none" /\ tearing[l] = "done" /\ ExitsWith(l, handler[l])

-----------------------------------------------------------------------------
(***************************************************************************)
(* The other uses of the command.                                          *)
(***************************************************************************)
\* --status, or a tool that is missing: nothing has been begun.
Declines(l) == step[l] = "start" /\ \E with \in {"0", "1"} : ExitsWith(l, with)

\* --delete: the cluster that is named, or every one there is.
BeginDelete(l) ==
  /\ Moves(l, "start", "delete")
  /\ \E names \in {{n} : n \in ClusterNames} \cup {{n \in ClusterNames : Reused(n)}} :
       targets' = [targets EXCEPT ![l] = names]
  /\ UNCHANGED <<named, port, host, links, ending, counts>>

PurgeCluster(l) ==
  /\ Moves(l, "delete", "purge")
  /\ \E n \in targets[l] :
       /\ cluster' = Gone(cluster, n)
       /\ named' = [named EXCEPT ![l] = n] /\ targets' = [targets EXCEPT ![l] = @ \ {n}]
  /\ UNCHANGED <<port, registry, pod, links, ending, counts>>

\* Best effort.
PurgeRegistry(l) ==
  /\ Moves(l, "purge", "delete")
  /\ registry' = Gone(registry, named[l]) \/ UNCHANGED registry
  /\ UNCHANGED <<config, cluster, pod, links, ending, counts>>

PurgeEnds(l) ==
  /\ step[l] = "delete"
  /\ \/ targets[l] = {} /\ ExitsWith(l, "0")
     \/ targets[l] # {} /\ ExitsWith(l, "1")   \* a cluster that cannot be deleted

DemoNext ==
  \E l \in Launchers :
    \/ Begin(l) \/ CreateRegistry(l) \/ CreateCluster(l) \/ Bootstrap(l) \/ Build(l)
    \/ Push(l) \/ Deploy(l) \/ Verify(l) \/ OpenTunnel(l) \/ Refresh(l) \/ Quit(l) \/ Throws(l)
    \/ Finally(l) \/ Signal(l) \/ DeleteCluster(l) \/ DeleteRegistry(l)
    \/ ExitOK(l) \/ ExitFailed(l) \/ ExitSignalled(l)
    \/ Declines(l) \/ BeginDelete(l) \/ PurgeCluster(l) \/ PurgeRegistry(l) \/ PurgeEnds(l)

DemoSpec == DemoInit /\ [][DemoNext]_demoVars

-----------------------------------------------------------------------------
DemoTypeOK ==
  /\ named \in [Launchers -> ClusterNames \cup {NoName}]
  /\ targets \in [Launchers -> SUBSET ClusterNames] /\ port \in [Launchers -> Ports]
  /\ {cluster, registry} \subseteq [ClusterNames -> Launchers \cup {NoLauncher}]
  /\ pod \in [ClusterNames -> Nat] /\ forward \in [Launchers -> Nat]
  /\ tunnel \in [Launchers -> {"off", "wanted", "open"}]
  /\ tearing \in [Launchers -> {"no", "cluster", "registry", "done"}]
  /\ handler \in [Launchers -> {"none", "130", "143"}]
  /\ code \in [Launchers -> {"none", "0", "1", "130", "143"}]
  /\ refreshes \in 0..MaxRefreshes /\ signals \in 0..MaxSignals

\* Success means cleaned up: a launcher exits with 0 only when no step of it threw and the
\* cluster it made is gone; a launcher that a signal ended, or that failed, never does.
DemoSound ==
  \A l \in Launchers :
    code[l] = "0" => /\ why[l] = "none" /\ handler[l] = "none"
                     /\ \A n \in ClusterNames : cluster[n] # l
=============================================================================
