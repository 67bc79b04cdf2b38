------------------------------ MODULE Provision ------------------------------
(***************************************************************************)
(* The scripts that build an environment in the cloud.                     *)
(*                                                                         *)
(*   scripts/gcp/provision.ts   scripts/gcp/common.ts                      *)
(*   scripts/gcp/doctor.ts      scripts/gcp/deploy.ts (its checks)         *)
(*                                                                         *)
(* A script walks a fixed list of resources, creates what it does not find *)
(* and reuses what it does.  Several operators may run it, and one that    *)
(* failed or was interrupted is run again, so that what it finds may be    *)
(* half built.  The cloud answers a creation with an operation to poll.    *)
(***************************************************************************)
EXTENDS Naturals, Sequences

CONSTANTS
  Operators,    \* runs of the script that may overlap
  MaxReruns     \* bound: times a failed run is started again

ASSUME ProvisionAssumption == MaxReruns \in Nat

VARIABLES
  cloud,     \* the state of each resource
  script     \* each operator's run: the resource it is at and what it does there

provisionVars == <<cloud, script>>

\* main: the resources in the order it ensures them.
Order == <<"services", "network", "subnet", "ssh rule", "app rule", "range",
           "connection", "cluster", "instance", "vm", "port">>

Resources == {Order[i] : i \in 1..(Len(Order) - 1)}

\* What the cloud asks to be ready before it accepts a creation.
Needs == [r \in Resources |->
  CASE r = "services"   -> {}
    [] r = "network"    -> {"services"}
    [] r \in {"subnet", "ssh rule", "app rule", "range"} -> {"network"}
    [] r = "connection" -> {"range"}
    [] r = "cluster"    -> {"connection"}
    [] r = "instance"   -> {"cluster"}
    [] r = "vm"         -> {"subnet"}]

\* The resources whose state is read again after their operation ended.
ReadBack == {"cluster", "instance", "vm"}

ResourceAt(o)  == Order[script[o].at]
Doing(o, what) == script[o].doing = what
Becomes(o, what) == script' = [script EXCEPT ![o].doing = what]
MoveOn(o) == script' = [script EXCEPT ![o].at = @ + 1, ![o].doing = "look"]
Throw(o)  == Becomes(o, "failed")

-----------------------------------------------------------------------------
ProvisionInit ==
  /\ cloud = [r \in Resources |-> "absent"]
  /\ script = [o \in Operators |-> [at |-> 1, doing |-> "doctor", reruns |-> 0]]

\* runDoctor: the project is active and the credential may do all that follows, or nothing is touched.
Doctor(o) ==
  /\ Doing(o, "doctor")
  /\ Becomes(o, "look") \/ Throw(o)
  /\ UNCHANGED cloud

\* --skip-doctor: what the credential may not do shows where it is asked for.
SkipDoctor(o) == Doing(o, "doctor") /\ Becomes(o, "look") /\ UNCHANGED cloud

\* As LookAgain below, had an instance that exists been taken for one that is ready.
LookAgainWrong(o) ==
  /\ Doing(o, "check") /\ ResourceAt(o) # "vm"
  /\ IF cloud[ResourceAt(o)] = "ready" \/ ResourceAt(o) = "instance" THEN MoveOn(o) ELSE Becomes(o, "state")
  /\ UNCHANGED cloud

\* ensureAlloyDb: the state decides whether there is still something to wait for.
LookAgain(o) ==
  /\ Doing(o, "check") /\ ResourceAt(o) # "vm"
  /\ IF cloud[ResourceAt(o)] = "ready" THEN MoveOn(o) ELSE Becomes(o, "state")
  /\ UNCHANGED cloud

\* ensureVm: a machine that is not running is started, whoever created it.
StartVm(o) ==
  /\ Doing(o, "check") /\ ResourceAt(o) = "vm"
  /\ IF cloud["vm"] = "ready" THEN MoveOn(o) /\ UNCHANGED cloud
     ELSE IF cloud["vm"] = "absent" THEN Throw(o) /\ UNCHANGED cloud
     ELSE cloud' = [cloud EXCEPT !["vm"] = "building"] /\ Becomes(o, "starting")

\* The GET of a resource: networks, ranges and rules that exist are taken as they are.
Look(o) ==
  /\ Doing(o, "look") /\ ResourceAt(o) # "port"
  /\ LET r == ResourceAt(o) IN
     CASE r = "services"   -> IF cloud[r] = "ready" THEN MoveOn(o) ELSE Becomes(o, "ask")
       [] r = "connection" -> Becomes(o, "ask")
       [] OTHER            -> IF cloud[r] = "absent" THEN Becomes(o, "ask")
                              ELSE IF r \in ReadBack THEN Becomes(o, "check") ELSE MoveOn(o)
  /\ UNCHANGED cloud

\* The POST that creates it, and what the cloud makes of it.
Ask(o) ==
  /\ Doing(o, "ask")
  /\ LET r == ResourceAt(o) IN
     \/ /\ cloud[r] = "absent" /\ \A n \in Needs[r] : cloud[n] = "ready"
        /\ cloud' = [cloud EXCEPT ![r] = "building"]
        /\ Becomes(o, "operation")
     \/ /\ r = "services" /\ cloud[r] # "absent"        \* enabling twice is no error
        /\ Becomes(o, "operation") /\ UNCHANGED cloud
     \/ /\ r # "services"
        /\ cloud[r] # "absent" \/ \E n \in Needs[r] : cloud[n] # "ready"
        /\ Throw(o) /\ UNCHANGED cloud

\* ensurePrivateServiceAccess: a connection the cloud refuses to create is taken to exist.
ConnectionRefused(o) ==
  /\ Doing(o, "ask") /\ ResourceAt(o) = "connection"
  /\ cloud["connection"] # "absent" \/ cloud["range"] # "ready"
  /\ MoveOn(o) /\ UNCHANGED cloud

\* waitForGoogleOperation saw the operation end.
OperationEnds(o) ==
  /\ Doing(o, "operation ended")
  /\ IF ResourceAt(o) \in ReadBack THEN Becomes(o, "check") ELSE MoveOn(o)
  /\ UNCHANGED cloud

\* The start's operation ended; the address is read whatever the state is by then.
VmStarted(o) ==
  /\ Doing(o, "start ended") /\ MoveOn(o) /\ UNCHANGED cloud

\* waitUntilClusterReady, waitUntilInstanceReady.
WaitReady(o) ==
  /\ Doing(o, "state")
  /\ \/ cloud[ResourceAt(o)] = "ready"  /\ MoveOn(o)
     \/ cloud[ResourceAt(o)] = "failed" /\ Throw(o)
  /\ UNCHANGED cloud

\* waitForTcpPort: the machine answers on port 22, through the rule that lets it.
Port(o) ==
  /\ Doing(o, "look") /\ ResourceAt(o) = "port"
  /\ cloud["vm"] = "ready" /\ cloud["ssh rule"] = "ready"
  /\ Becomes(o, "complete") /\ UNCHANGED cloud

\* A request the API refuses, or an operation whose poll shows an error.
RequestFails(o) ==
  /\ script[o].doing \in {"look", "check", "ask", "operation", "starting", "state"}
  /\ Throw(o) /\ UNCHANGED cloud

\* getGoogleAccessToken, before every request: the credential cannot be renewed, or is a
\* token from the environment, which never is, and outlived by a long wait.
TokenFails(o) ==
  /\ script[o].doing \notin {"failed", "complete"}
  /\ Throw(o) /\ UNCHANGED cloud

\* A wait that ran out: what was asked for goes on being built.
WaitsTooLong(o) ==
  /\ script[o].doing \in {"operation", "starting", "state"} \/ ResourceAt(o) = "port"
  /\ ~Doing(o, "complete")
  /\ Throw(o) /\ UNCHANGED cloud

Rerun(o) ==
  /\ Doing(o, "failed") /\ script[o].reruns < MaxReruns
  /\ script' = [script EXCEPT ![o] = [at |-> 1, doing |-> "doctor", reruns |-> @.reruns + 1]]
  /\ UNCHANGED cloud

\* The cloud finishes what it builds, for all who poll its operation.
CloudSettles(r) ==
  /\ cloud[r] = "building"
  /\ \E works \in BOOLEAN :
       /\ cloud' = [cloud EXCEPT ![r] =
            IF works THEN "ready" ELSE IF r \in {"cluster", "instance"} THEN "failed"
            ELSE IF r = "vm" THEN "stopped" ELSE "absent"]
       /\ script' = [o \in Operators |->
            IF ResourceAt(o) = r /\ script[o].doing \in {"operation", "starting"}
            THEN [script[o] EXCEPT !.doing =
                   IF ~works THEN "failed" ELSE IF @ = "operation" THEN "operation ended" ELSE "start ended"]
            ELSE script[o]]

\* The services were ready already when they were asked for.
ServicesEnabled(o) ==
  /\ Doing(o, "operation") /\ ResourceAt(o) = "services" /\ cloud["services"] = "ready"
  /\ Becomes(o, "operation ended") /\ UNCHANGED cloud

VmStops ==
  /\ cloud["vm"] = "ready" /\ cloud' = [cloud EXCEPT !["vm"] = "stopped"]
  /\ UNCHANGED script

ProvisionNext ==
  \/ \E o \in Operators :
       \/ Doctor(o) \/ SkipDoctor(o) \/ Look(o) \/ LookAgain(o) \/ StartVm(o) \/ Ask(o) \/ ConnectionRefused(o)
       \/ OperationEnds(o) \/ VmStarted(o) \/ WaitReady(o) \/ Port(o)
       \/ RequestFails(o) \/ TokenFails(o) \/ WaitsTooLong(o)
       \/ ServicesEnabled(o) \/ Rerun(o)
  \/ \E r \in Resources : CloudSettles(r)
  \/ VmStops

ProvisionSpec == ProvisionInit /\ [][ProvisionNext]_provisionVars

-----------------------------------------------------------------------------
ProvisionTypeOK ==
  /\ cloud \in [Resources -> {"absent", "building", "ready", "failed", "stopped"}]
  /\ script \in [Operators -> [at : 1..Len(Order), reruns : 0..MaxReruns,
       doing : {"doctor", "look", "check", "ask", "operation", "operation ended", "starting",
                "start ended", "state", "failed", "complete"}]]

\* "Provisioning complete." is printed only when every resource is ready, those included
\* that the script found half built and did not wait for, because a later one cannot be
\* had without them; the firewall rule of the application is the one nothing depends on.
ProvisionWhole ==
  [][\A o \in Operators :
       (script'[o].doing = "complete" /\ ~Doing(o, "complete"))
         => \A r \in Resources \ {"app rule"} : cloud'[r] = "ready"]_provisionVars
=============================================================================
