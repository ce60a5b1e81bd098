-------------------------- MODULE SandboxLifecycle --------------------------
(***************************************************************************)
(* The Docker objects of the tasks: SandboxManager sets up a network, a    *)
(* proxy and a container one after the other and takes them down in the    *)
(* opposite order, run_task, the single_agent node and resume_graph decide *)
(* when, a janitor sweeps what is left, and the process may die at any     *)
(* point.  Every call to Docker runs in an executor: between two of them   *)
(* other tasks and the janitor make theirs.                                *)
(*                                                                         *)
(* Docker is external: a container that runs is an endpoint of its         *)
(* network, a network with endpoints cannot be removed, and a container    *)
(* that could not be started may be left behind, created.                  *)
(***************************************************************************)
EXTENDS Naturals

CONSTANTS
    Tasks,
    MaxFaults,    \* bound: removals that Docker refuses
    MaxCrashes,   \* bound: deaths of the process that runs the tasks
    MaxSweeps     \* bound: runs of the janitor

ASSUME SandboxAssumption ==
    MaxFaults \in Nat /\ MaxCrashes \in Nat /\ MaxSweeps \in Nat

Kinds == {"network", "proxy", "container"}
Containers == {"proxy", "container"}

VARIABLES
    single,    \* the tasks of the single_agent topology
    pc,        \* where run_task is with the sandbox of a task
    handles,   \* handles[t]: which of _network, _proxy_container, _container are set
    docker,    \* docker[t][k]: "none", "created" or "up"
    old,       \* old[t]: the objects that got older than JANITOR_MAX_AGE_SECONDS
    janitor,   \* what the sweep does, and the objects it still goes through
    faults, crashes, sweeps,
    \* History, read by the properties only
    spoiled,   \* tasks a removal of which failed, or that left a created container
    doomed,    \* the stale objects the last sweep has to remove
    refused    \* Docker refused a removal to the last sweep

vars == <<single, pc, handles, docker, old, janitor, faults, crashes, sweeps, spoiled,
          doomed, refused>>

counters == <<faults, crashes, sweeps>>
sweeping == <<janitor, doomed, refused>>

SetUp == {"proxy", "container", "clone"}
TakeDown == {"remove container", "remove proxy", "remove network"}
Serving == {"running", "paused"}
Ownerless == {"done", "abandoned", "lost"}

SandboxTypeOK ==
    /\ single \subseteq Tasks
    /\ pc \in [Tasks -> {"new"} \cup SetUp \cup TakeDown \cup Serving \cup Ownerless]
    /\ handles \in [Tasks -> SUBSET Kinds]
    /\ docker \in [Tasks -> [Kinds -> {"none", "created", "up"}]]
    /\ old \in [Tasks -> SUBSET Kinds]
    /\ janitor \in [at : {"idle", "containers", "networks"}, list : SUBSET (Tasks \X Kinds)]
    /\ faults \in 0..MaxFaults /\ crashes \in 0..MaxCrashes /\ sweeps \in 0..MaxSweeps
    /\ spoiled \in SUBSET Tasks
    /\ doomed \in SUBSET (Tasks \X Kinds) /\ refused \in BOOLEAN

Init ==
    /\ single \in SUBSET Tasks
    /\ pc = [t \in Tasks |-> "new"]
    /\ handles = [t \in Tasks |-> {}]
    /\ docker = [t \in Tasks |-> [k \in Kinds |-> "none"]]
    /\ old = [t \in Tasks |-> {}]
    /\ janitor = [at |-> "idle", list |-> {}]
    /\ faults = 0 /\ crashes = 0 /\ sweeps = 0
    /\ spoiled = {} /\ doomed = {} /\ refused = FALSE

-----------------------------------------------------------------------------
(* Docker (external)                                                       *)

Exists(t, k) == docker[t][k] # "none"

Attached(t) == \E k \in Containers : docker[t][k] = "up"

Put(t, k, state) == docker' = [docker EXCEPT ![t][k] = state]

SlipGone(t, k) == Put(t, k, "removed")
Gone(t, k) == Put(t, k, "none")

\* The kinds in the order set-up makes them.
Before(k) ==
    [network |-> {}, proxy |-> {"network"}, container |-> {"network", "proxy"}][k]

\* An object gets older than the janitor's limit, after those made before it.
Age(t, k) ==
    /\ Exists(t, k) /\ k \notin old[t]
    /\ \A j \in Before(k) : Exists(t, j) => j \in old[t]
    /\ old' = [old EXCEPT ![t] = @ \cup {k}]
    /\ UNCHANGED <<single, pc, handles, docker, counters, sweeping, spoiled>>

-----------------------------------------------------------------------------
(* setup: any step may raise.  run_task then calls teardown; in the        *)
(* single_agent node set-up is outside the try, and nobody does.           *)

To(t, where) == pc' = [pc EXCEPT ![t] = where]

SetUpFails(t) == To(t, IF t \in single THEN "abandoned" ELSE "remove container")

Hold(t, k) == handles' = [handles EXCEPT ![t] = @ \cup {k}]

CreateNetwork(t) ==
    /\ pc[t] = "new"
    /\ \/ To(t, "proxy") /\ Put(t, "network", "up") /\ Hold(t, "network")
       \/ SetUpFails(t) /\ UNCHANGED <<docker, handles>>
    /\ UNCHANGED <<single, old, counters, sweeping, spoiled>>

\* containers.run on the network by its id: when it raises there is no handle,
\* whatever it has left.
Start(t, k, next) ==
    /\ pc[t] = k
    /\ \/ /\ docker[t]["network"] = "up"
          /\ To(t, next) /\ Put(t, k, "up") /\ Hold(t, k)
          /\ UNCHANGED spoiled
       \/ /\ SetUpFails(t)
          /\ \/ UNCHANGED <<docker, spoiled>>
             \/ Put(t, k, "created") /\ spoiled' = spoiled \cup {t}
          /\ UNCHANGED handles
    /\ UNCHANGED <<single, old, counters, sweeping>>

StartProxy(t) == Start(t, "proxy", "container")
StartContainer(t) == Start(t, "container", "clone")

\* The clone fails inside the try; the semantic store's connect, which only
\* run_task makes, fails outside, and nobody takes the sandbox down.
CloneAndConnect(t) ==
    /\ pc[t] = "clone"
    /\ \/ \E where \in {"running", "remove container"} : To(t, where)
       \/ t \notin single /\ To(t, "abandoned")
    /\ UNCHANGED <<single, handles, docker, old, counters, sweeping, spoiled>>

-----------------------------------------------------------------------------
(* The graph runs, pauses for a person with its sandbox up, and ends.      *)

GraphPauses(t) ==
    /\ pc[t] = "running" /\ t \notin single /\ To(t, "paused")
    /\ UNCHANGED <<single, handles, docker, old, counters, sweeping, spoiled>>

\* A resume that raises leaves the task as it is.
GraphEnds(t) ==
    /\ pc[t] \in Serving /\ To(t, "remove container")
    /\ UNCHANGED <<single, handles, docker, old, counters, sweeping, spoiled>>

-----------------------------------------------------------------------------
(* teardown: each step logs what it cannot remove and goes on.             *)

RemovalFails(t) ==
    /\ faults < MaxFaults /\ faults' = faults + 1
    /\ spoiled' = spoiled \cup {t}
    /\ UNCHANGED docker

\* stop and remove; a container that is gone is no error.
RemoveContainer(t, k) ==
    IF k \in handles[t]
    THEN \/ Gone(t, k) /\ UNCHANGED <<faults, spoiled>>
         \/ Exists(t, k) /\ RemovalFails(t)
    ELSE UNCHANGED <<docker, faults, spoiled>>

\* By the handle, then by name; a network with endpoints stays.
RemoveNetwork(t) ==
    IF "network" \in handles[t] /\ ~Attached(t)
    THEN \/ Gone(t, "network") /\ UNCHANGED <<faults, spoiled>>
         \/ Exists(t, "network") /\ RemovalFails(t)
    ELSE UNCHANGED <<docker, faults, spoiled>>

SlipTearDown(t) ==
    /\ \/ /\ pc[t] = "remove container" /\ RemoveNetwork(t)
          /\ To(t, "remove proxy") /\ UNCHANGED handles
       \/ /\ pc[t] = "remove proxy" /\ RemoveContainer(t, "proxy")
          /\ To(t, "remove network") /\ UNCHANGED handles
       \/ /\ pc[t] = "remove network" /\ RemoveContainer(t, "container")
          /\ To(t, "done") /\ handles' = [handles EXCEPT ![t] = {}]
    /\ UNCHANGED <<single, old, crashes, sweeps, sweeping>>

\* The container, the proxy, the network, and the handles are forgotten
\* whatever became of the objects.
TearDown(t) ==
    /\ \/ /\ pc[t] = "remove container" /\ RemoveContainer(t, "container")
          /\ To(t, "remove proxy") /\ UNCHANGED handles
       \/ /\ pc[t] = "remove proxy" /\ RemoveContainer(t, "proxy")
          /\ To(t, "remove network") /\ UNCHANGED handles
       \/ /\ pc[t] = "remove network" /\ RemoveNetwork(t)
          /\ To(t, "done") /\ handles' = [handles EXCEPT ![t] = {}]
    /\ UNCHANGED <<single, old, crashes, sweeps, sweeping>>

\* The process dies: its handles are gone, the objects are not.
Crash ==
    /\ crashes < MaxCrashes /\ crashes' = crashes + 1
    /\ pc' = [t \in Tasks |-> IF pc[t] \in {"new", "done"} THEN pc[t] ELSE "lost"]
    /\ handles' = [t \in Tasks |-> {}]
    /\ UNCHANGED <<single, docker, old, faults, sweeps, sweeping, spoiled>>

-----------------------------------------------------------------------------
(* The janitor                                                             *)

AllContainers == {x \in Tasks \X Containers : Exists(x[1], x[2])}
AllNetworks == {x \in Tasks \X {"network"} : Exists(x[1], x[2])}

\* The age is not looked at; the prefix of the proxies is forgotten.
SlipStale == AllContainers
SlipStaleNoProxies == {x \in AllContainers : x[2] = "container" /\ x[2] \in old[x[1]]}

\* created_ts < cutoff, the cutoff of the start of the sweep.
Stale == {x \in AllContainers : x[2] \in old[x[1]]}

\* What is stale of the objects an ownerless task has left, unless a young
\* container of the task holds it back.
Reclaimable ==
    {x \in Tasks \X Kinds :
        /\ pc[x[1]] \in Ownerless /\ Exists(x[1], x[2]) /\ x[2] \in old[x[1]]
        /\ \A c \in Containers : Exists(x[1], c) => c \in old[x[1]]}

StartSweep ==
    /\ janitor.at = "idle" /\ sweeps < MaxSweeps /\ sweeps' = sweeps + 1
    /\ janitor' = [at |-> "containers", list |-> Stale]
    /\ doomed' = Reclaimable /\ refused' = FALSE
    /\ UNCHANGED <<single, pc, handles, docker, old, faults, crashes, spoiled>>

Listed(t, k) == <<t, k>> \in janitor.list

Unlist(t, k) == janitor' = [janitor EXCEPT !.list = @ \ {<<t, k>>}]

\* What Docker refuses is logged and left.
SweepFails(t) == RemovalFails(t) /\ refused' = TRUE

\* SandboxManager's own sweep tries once more and then raises.
GiveUp == janitor' = [at |-> "idle", list |-> {}]

SweepContainer(t, k) ==
    /\ janitor.at = "containers" /\ Listed(t, k)
    /\ \/ Unlist(t, k) /\ Gone(t, k) /\ UNCHANGED <<faults, spoiled, refused>>
       \/ Exists(t, k) /\ SweepFails(t) /\ (Unlist(t, k) \/ GiveUp)
    /\ UNCHANGED <<single, pc, handles, old, crashes, sweeps, doomed>>

ListNetworks ==
    /\ janitor.at = "containers" /\ janitor.list = {}
    /\ janitor' = [at |-> "networks", list |-> AllNetworks]
    /\ UNCHANGED <<single, pc, handles, docker, old, counters, spoiled, doomed, refused>>

\* Of any age, although the docstring says only stale ones: what keeps the
\* network of a live sandbox is its endpoints.
SweepNetwork(t) ==
    /\ janitor.at = "networks" /\ Listed(t, "network") /\ Unlist(t, "network")
    /\ \/ ~Attached(t) /\ Gone(t, "network") /\ UNCHANGED <<faults, spoiled, refused>>
       \/ Attached(t) /\ UNCHANGED <<docker, faults, spoiled, refused>>
       \/ ~Attached(t) /\ Exists(t, "network") /\ SweepFails(t)
    /\ UNCHANGED <<single, pc, handles, old, crashes, sweeps, doomed>>

EndSweep ==
    /\ janitor.at = "networks" /\ janitor.list = {}
    /\ janitor' = [janitor EXCEPT !.at = "idle"]
    /\ UNCHANGED <<single, pc, handles, docker, old, counters, spoiled, doomed, refused>>

Janitor ==
    \/ StartSweep \/ ListNetworks \/ EndSweep
    \/ \E t \in Tasks : SweepNetwork(t) \/ \E k \in Containers : SweepContainer(t, k)

SetUpStep(t) ==
    CreateNetwork(t) \/ StartProxy(t) \/ StartContainer(t) \/ CloneAndConnect(t)

Next ==
    \/ \E t \in Tasks :
        \/ SetUpStep(t) \/ GraphPauses(t) \/ GraphEnds(t) \/ TearDown(t)
        \/ \E k \in Kinds : Age(t, k)
    \/ Crash \/ Janitor

Spec == Init /\ [][Next]_vars

-----------------------------------------------------------------------------
(* Properties                                                              *)

\* A task that failed in any step of its set-up, or whose graph ended, leaves
\* no object once run_task or resume_graph has taken the sandbox down, when
\* Docker refused nothing: what it set up is what it still has handles of, and
\* the network goes when nothing is attached to it any more.
CleanTeardownLeavesNothing ==
    \A t \in Tasks :
        pc[t] = "done" /\ t \notin spoiled => \A k \in Kinds : ~Exists(t, k)

\* A sweep beside a graph that runs, or waits for a person, takes nothing of a
\* sandbox whose containers are younger than the limit, although it removes
\* networks whatever their age.
NoYoungSandboxLost ==
    \A t \in Tasks :
        pc[t] \in Serving /\ old[t] \cap Containers = {} =>
            \A k \in Kinds : docker[t][k] = "up"

\* A sweep that Docker refused nothing has removed, with its one pass, every
\* object that was stale when it began and had no owner, as long as no container
\* of its task was young: those of a process that died between two steps of a
\* set-up or a teardown, too.  Of networks that are not stale it asks nothing.
SweepReclaims ==
    janitor.at = "idle" /\ ~refused => \A x \in doomed : ~Exists(x[1], x[2])

=============================================================================
