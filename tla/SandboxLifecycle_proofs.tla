---------------------- MODULE SandboxLifecycle_proofs ----------------------
(* Theorems about SandboxLifecycle, for any tasks and any bounds.          *)
EXTENDS SandboxLifecycle, TLAPS

States == {"none", "created", "up"}
Places == {"new"} \cup SetUp \cup TakeDown \cup Serving \cup Ownerless

\* Putting one object into a state changes that object only.
LEMMA PutEffect ==
    ASSUME docker \in [Tasks -> [Kinds -> States]],
           NEW t \in Tasks, NEW k \in Kinds, NEW state \in States, Put(t, k, state)
    PROVE  /\ docker' \in [Tasks -> [Kinds -> States]]
           /\ \A u \in Tasks, j \in Kinds :
                docker'[u][j] = IF u = t /\ j = k THEN state ELSE docker[u][j]
<1> DEFINE row == [docker[t] EXCEPT ![k] = state]
<1>1. row \in [Kinds -> States] /\ \A j \in Kinds : row[j] = IF j = k THEN state ELSE docker[t][j]
  OBVIOUS
<1>2. docker' = [docker EXCEPT ![t] = row]
  BY DEF Put
<1> HIDE DEF row
<1>3. docker' \in [Tasks -> [Kinds -> States]]
  BY <1>1, <1>2
<1>4. \A u \in Tasks : docker'[u] = IF u = t THEN row ELSE docker[u]
  BY <1>2
<1> QED BY <1>1, <1>3, <1>4

LEMMA ToEffect ==
    ASSUME pc \in [Tasks -> Places], NEW t \in Tasks, NEW where \in Places, To(t, where)
    PROVE  /\ pc' \in [Tasks -> Places]
           /\ \A u \in Tasks : pc'[u] = IF u = t THEN where ELSE pc[u]
BY DEF To

LEMMA HoldEffect ==
    ASSUME handles \in [Tasks -> SUBSET Kinds], NEW t \in Tasks, NEW k \in Kinds, Hold(t, k)
    PROVE  /\ handles' \in [Tasks -> SUBSET Kinds]
           /\ \A u \in Tasks : handles'[u] = IF u = t THEN handles[t] \cup {k} ELSE handles[u]
BY DEF Hold

-----------------------------------------------------------------------------
(* The inductive invariant                                                 *)

\* Nothing is made before set-up.
NewInv(t) == pc[t] = "new" => \A k \in Kinds : ~Exists(t, k)

\* As long as nothing went wrong with the objects of a task whose teardown will
\* come, it has a handle of each, and teardown has removed them in its order.
OwnInv(t) ==
    t \notin spoiled /\ pc[t] \notin {"abandoned", "lost"} =>
        /\ \A k \in Kinds : Exists(t, k) => k \in handles[t]
        /\ pc[t] \in {"remove proxy", "remove network", "done"} => ~Exists(t, "container")
        /\ pc[t] \in {"remove network", "done"} => ~Exists(t, "proxy")
        /\ pc[t] = "done" => ~Exists(t, "network")

\* What set-up has started is up as long as no container is old: what is
\* attached keeps the network.
UpInv(t) ==
    old[t] \cap Containers = {} =>
        /\ pc[t] \in {"container", "clone"} \cup Serving =>
               docker[t]["network"] = "up" /\ docker[t]["proxy"] = "up"
        /\ pc[t] \in {"clone"} \cup Serving => docker[t]["container"] = "up"

\* The containers that the sweep still goes through are old.
ListInv ==
    janitor.at = "containers" =>
        \A x \in janitor.list : x[2] \in Containers /\ x[2] \in old[x[1]]

\* What is doomed has no owner, and every container that holds it back is
\* doomed as well.
DoomInv ==
    \A x \in doomed :
        /\ pc[x[1]] \in Ownerless
        /\ \A c \in Containers : Exists(x[1], c) => <<x[1], c>> \in doomed

\* What is doomed and still there is still to come.
SweepInv ==
    ~refused => \A x \in doomed : Exists(x[1], x[2]) =>
        /\ janitor.at # "idle"
        /\ janitor.at = "containers" /\ x[2] \in Containers => x \in janitor.list
        /\ janitor.at = "networks" => x[2] = "network" /\ x \in janitor.list

SandboxInv ==
    /\ SandboxTypeOK
    /\ \A t \in Tasks : NewInv(t) /\ OwnInv(t) /\ UpInv(t)
    /\ ListInv /\ DoomInv /\ SweepInv

TaskInv(t) == NewInv(t) /\ OwnInv(t) /\ UpInv(t)

-----------------------------------------------------------------------------
(* What the steps leave alone                                              *)

ObjectTypes ==
    /\ pc \in [Tasks -> Places]
    /\ handles \in [Tasks -> SUBSET Kinds]
    /\ docker \in [Tasks -> [Kinds -> States]]
    /\ old \in [Tasks -> SUBSET Kinds]
    /\ spoiled \in SUBSET Tasks

SweepTypes ==
    /\ janitor \in [at : {"idle", "containers", "networks"}, list : SUBSET (Tasks \X Kinds)]
    /\ doomed \in SUBSET (Tasks \X Kinds) /\ refused \in BOOLEAN

CounterTypes ==
    faults \in 0..MaxFaults /\ crashes \in 0..MaxCrashes /\ sweeps \in 0..MaxSweeps

LEMMA TypeParts ==
    SandboxTypeOK <=> single \subseteq Tasks /\ ObjectTypes /\ SweepTypes /\ CounterTypes
BY DEF SandboxTypeOK, ObjectTypes, SweepTypes, CounterTypes, Places, States

\* What a step does to a task it is not about.
Frame(u) ==
    /\ pc'[u] = pc[u] /\ handles'[u] = handles[u]
    /\ \A k \in Kinds : docker'[u][k] = docker[u][k]
    /\ old[u] \subseteq old'[u] /\ (u \in spoiled => u \in spoiled')

LEMMA FrameInv ==
    ASSUME NEW u \in Tasks, TaskInv(u), Frame(u)
    PROVE  TaskInv(u)'
<1> USE DEF Frame, Exists, Kinds, Containers
<1>1. NewInv(u)'
  BY DEF TaskInv, NewInv
<1>2. OwnInv(u)'
  BY DEF TaskInv, OwnInv
<1>3. UpInv(u)'
  BY DEF TaskInv, UpInv
<1> QED BY <1>1, <1>2, <1>3 DEF TaskInv

\* What no step does to a task without an owner: give it one, or an object.
Orphaned(u) ==
    pc[u] \in Ownerless =>
        pc'[u] \in Ownerless /\ \A k \in Kinds : Exists(u, k)' => Exists(u, k)

\* A step of a task, or the death of the process, leaves the sweep in order.
LEMMA SweepKept ==
    ASSUME SandboxInv, UNCHANGED sweeping,
           \A u \in Tasks : Orphaned(u) /\ old[u] \subseteq old'[u]
    PROVE  ListInv' /\ DoomInv' /\ SweepInv'
<1> USE DEF SandboxInv, sweeping
<1>1. SweepTypes
  BY TypeParts
<1>2. ListInv'
  BY <1>1 DEF ListInv, SweepTypes
<1>3. \A x \in doomed : x[1] \in Tasks /\ x[2] \in Kinds /\ x = <<x[1], x[2]>>
  BY <1>1 DEF SweepTypes
<1>4. DoomInv'
  BY <1>3 DEF DoomInv, Orphaned, Containers, Kinds
<1>5. SweepInv'
  BY <1>3 DEF DoomInv, SweepInv, Orphaned
<1> QED BY <1>2, <1>4, <1>5

-----------------------------------------------------------------------------
(* The steps of a task                                                     *)

TaskStep(t) ==
    /\ ObjectTypes' /\ CounterTypes' /\ UNCHANGED <<single, sweeping>>
    /\ \A u \in Tasks \ {t} : Frame(u)
    /\ Orphaned(t) /\ old[t] \subseteq old'[t]
    /\ TaskInv(t)'

LEMMA TaskStepInv ==
    ASSUME SandboxInv, NEW t \in Tasks, TaskStep(t)
    PROVE  SandboxInv'
<1>1. SandboxTypeOK'
  <2>1. SweepTypes'
    BY TypeParts DEF SandboxInv, TaskStep, SweepTypes, sweeping
  <2>2. single' \subseteq Tasks /\ ObjectTypes' /\ CounterTypes'
    BY TypeParts DEF SandboxInv, TaskStep
  <2> QED BY <2>1, <2>2
    DEF SandboxTypeOK, ObjectTypes, SweepTypes, CounterTypes, Places, States
<1>2. \A u \in Tasks : TaskInv(u)'
  BY FrameInv DEF SandboxInv, TaskStep, TaskInv
<1>3. \A u \in Tasks : Orphaned(u) /\ old[u] \subseteq old'[u]
  BY DEF TaskStep, Frame, Orphaned, Exists
<1>4. ListInv' /\ DoomInv' /\ SweepInv'
  BY <1>3, SweepKept DEF TaskStep
<1> QED BY <1>1, <1>2, <1>4 DEF SandboxInv, TaskInv

LEMMA AgeStep ==
    ASSUME SandboxInv, NEW t \in Tasks, NEW k \in Kinds, Age(t, k)
    PROVE  TaskStep(t)
<1> USE DEF Age, sweeping, counters
<1>1. ObjectTypes /\ CounterTypes /\ TaskInv(t)
  BY TypeParts DEF SandboxInv, TaskInv
<1>2. old' \in [Tasks -> SUBSET Kinds] /\ \A u \in Tasks : old[u] \subseteq old'[u]
  BY <1>1 DEF ObjectTypes
<1>3. ObjectTypes' /\ CounterTypes'
  BY <1>1, <1>2 DEF ObjectTypes, CounterTypes
<1>4. \A u \in Tasks : Frame(u) /\ Orphaned(u)
  BY <1>2 DEF Frame, Orphaned, Exists
<1>5. TaskInv(t)'
  BY <1>1, <1>4, FrameInv
<1> QED BY <1>2, <1>3, <1>4, <1>5 DEF TaskStep

\* The fields of one task, when only they change.
Moves(t, where, held) ==
    /\ pc' \in [Tasks -> Places] /\ handles' \in [Tasks -> SUBSET Kinds]
    /\ pc'[t] = where /\ handles'[t] = held
    /\ \A u \in Tasks \ {t} : pc'[u] = pc[u] /\ handles'[u] = handles[u]

Sets(t, k, state) ==
    /\ docker' \in [Tasks -> [Kinds -> States]]
    /\ docker'[t][k] = state
    /\ \A u \in Tasks, j \in Kinds : u # t \/ j # k => docker'[u][j] = docker[u][j]

LEMMA PutSets ==
    ASSUME ObjectTypes, NEW t \in Tasks, NEW k \in Kinds, NEW state \in States,
           Put(t, k, state)
    PROVE  Sets(t, k, state)
<1>1. /\ docker' \in [Tasks -> [Kinds -> States]]
      /\ \A u \in Tasks, j \in Kinds :
           docker'[u][j] = IF u = t /\ j = k THEN state ELSE docker[u][j]
  BY PutEffect DEF ObjectTypes
<1> QED BY <1>1 DEF Sets

\* A failed set-up goes to teardown, or to nobody.
LEMMA SetUpFailsEffect ==
    ASSUME ObjectTypes, NEW t \in Tasks, SetUpFails(t)
    PROVE  \E where \in {"abandoned", "remove container"} :
             /\ pc' \in [Tasks -> Places] /\ pc'[t] = where
             /\ \A u \in Tasks \ {t} : pc'[u] = pc[u]
<1> DEFINE where == IF t \in single THEN "abandoned" ELSE "remove container"
<1>1. To(t, where)
  BY DEF SetUpFails
<1>2. where \in {"abandoned", "remove container"} /\ where \in Places
  BY DEF Places, Ownerless, TakeDown
<1> HIDE DEF where
<1> QED BY <1>1, <1>2, ToEffect DEF ObjectTypes

\* What every lemma on a step of a task starts from.
LEMMA Parts ==
    ASSUME SandboxInv
    PROVE  ObjectTypes /\ CounterTypes /\ \A t \in Tasks : TaskInv(t)
BY TypeParts DEF SandboxInv, TaskInv

\* A task goes on with the objects it has.
LEMMA WalkStep ==
    ASSUME SandboxInv, NEW t \in Tasks, NEW where,
           \/ where \in {"abandoned", "remove container"} /\ pc[t] \in {"new"} \cup SetUp \cup Serving
           \/ where = "running" /\ pc[t] = "clone"
           \/ where = "paused" /\ pc[t] = "running",
           pc' \in [Tasks -> Places], pc'[t] = where,
           \A u \in Tasks \ {t} : pc'[u] = pc[u],
           UNCHANGED <<single, handles, docker, old, counters, sweeping, spoiled>>
    PROVE  TaskStep(t)
<1>1. ObjectTypes /\ CounterTypes /\ TaskInv(t)
  BY Parts
<1>2. ObjectTypes' /\ CounterTypes'
  BY <1>1 DEF ObjectTypes, CounterTypes, counters
<1>3. Orphaned(t)
  BY DEF Orphaned, SetUp, Serving, Ownerless
<1>4. \A u \in Tasks \ {t} : Frame(u)
  BY DEF Frame
<1>5. TaskInv(t)'
  BY <1>1 DEF TaskInv, NewInv, OwnInv, UpInv, Exists, SetUp, Serving
<1> QED BY <1>2, <1>3, <1>4, <1>5 DEF TaskStep

LEMMA CreateNetworkStep ==
    ASSUME SandboxInv, NEW t \in Tasks, CreateNetwork(t)
    PROVE  TaskStep(t)
<1>1. ObjectTypes /\ CounterTypes /\ TaskInv(t)
  BY Parts
<1>2. /\ pc[t] = "new" /\ UNCHANGED <<single, sweeping>>
      /\ UNCHANGED <<old, faults, crashes, sweeps, spoiled>>
  BY DEF CreateNetwork, counters
<1>3. CASE To(t, "proxy") /\ Put(t, "network", "up") /\ Hold(t, "network")
  <2>1. "proxy" \in Places /\ "network" \in Kinds /\ "up" \in States
    BY DEF Places, SetUp, Kinds, States
  <2>2. Sets(t, "network", "up")
    BY <1>1, <1>3, <2>1, PutSets
  <2>3. pc' \in [Tasks -> Places] /\ \A u \in Tasks : pc'[u] = IF u = t THEN "proxy" ELSE pc[u]
    BY <1>1, <1>3, <2>1, ToEffect DEF ObjectTypes
  <2>4. /\ handles' \in [Tasks -> SUBSET Kinds]
        /\ \A u \in Tasks :
             handles'[u] = IF u = t THEN handles[t] \cup {"network"} ELSE handles[u]
    BY <1>1, <1>3, <2>1, HoldEffect DEF ObjectTypes
  <2>5. Moves(t, "proxy", handles[t] \cup {"network"})
    BY <2>3, <2>4 DEF Moves
  <2>6. ObjectTypes' /\ \A u \in Tasks \ {t} : Frame(u)
    BY <1>1, <1>2, <2>2, <2>5 DEF ObjectTypes, Frame, Moves, Sets
  <2>7. \A k \in Kinds : docker[t][k] = "none"
    BY <1>1, <1>2 DEF TaskInv, NewInv, Exists
  <2>8. TaskInv(t)'
    BY <2>2, <2>5, <2>7
       DEF TaskInv, NewInv, OwnInv, UpInv, Exists, Moves, Sets, Kinds, Serving
  <2> QED BY <1>1, <1>2, <2>6, <2>8 DEF TaskStep, Orphaned, Ownerless, CounterTypes
<1>4. CASE SetUpFails(t) /\ UNCHANGED <<docker, handles>>
  <2>1. PICK where \in {"abandoned", "remove container"} :
          /\ pc' \in [Tasks -> Places] /\ pc'[t] = where
          /\ \A u \in Tasks \ {t} : pc'[u] = pc[u]
    BY <1>1, <1>4, SetUpFailsEffect
  <2>2. UNCHANGED <<single, handles, docker, old, counters, sweeping, spoiled>>
    BY <1>2, <1>4 DEF counters
  <2> QED BY <1>2, <2>1, <2>2, WalkStep
<1> QED BY <1>3, <1>4 DEF CreateNetwork

\* One start: the proxy's or the container's.
LEMMA StartStep ==
    ASSUME SandboxInv, NEW t \in Tasks, NEW k, NEW next, Start(t, k, next),
           (k = "proxy" /\ next = "container") \/ (k = "container" /\ next = "clone")
    PROVE  TaskStep(t)
<1>1. ObjectTypes /\ CounterTypes /\ TaskInv(t)
  BY Parts
<1>2. /\ pc[t] = k /\ UNCHANGED <<single, sweeping>>
      /\ UNCHANGED <<old, faults, crashes, sweeps>>
  BY DEF Start, counters
<1>3. next \in Places /\ k \in Kinds /\ k \in Containers /\ "up" \in States /\ "created" \in States
  BY DEF Places, SetUp, Kinds, Containers, States
<1>4. Orphaned(t) /\ CounterTypes'
  BY <1>1, <1>2 DEF Orphaned, Ownerless, CounterTypes
<1>5. CASE /\ docker[t]["network"] = "up"
           /\ To(t, next) /\ Put(t, k, "up") /\ Hold(t, k)
           /\ UNCHANGED spoiled
  <2>1. Sets(t, k, "up")
    BY <1>1, <1>3, <1>5, PutSets
  <2>2. pc' \in [Tasks -> Places] /\ \A u \in Tasks : pc'[u] = IF u = t THEN next ELSE pc[u]
    BY <1>1, <1>3, <1>5, ToEffect DEF ObjectTypes
  <2>3. /\ handles' \in [Tasks -> SUBSET Kinds]
        /\ \A u \in Tasks :
             handles'[u] = IF u = t THEN handles[t] \cup {k} ELSE handles[u]
    BY <1>1, <1>3, <1>5, HoldEffect DEF ObjectTypes
  <2>4. Moves(t, next, handles[t] \cup {k})
    BY <2>2, <2>3 DEF Moves
  <2>5. ObjectTypes' /\ \A u \in Tasks \ {t} : Frame(u)
    BY <1>1, <1>2, <1>5, <2>1, <2>4 DEF ObjectTypes, Frame, Moves, Sets
  <2>6. NewInv(t)' /\ OwnInv(t)'
    BY <1>1, <1>2, <1>5, <2>1, <2>4
       DEF TaskInv, NewInv, OwnInv, Exists, Moves, Sets, Kinds
  <2>7. UpInv(t)'
    BY <1>1, <1>2, <1>5, <2>1, <2>4
       DEF TaskInv, UpInv, Moves, Sets, Kinds, Serving, Containers
  <2> QED BY <1>2, <1>4, <2>5, <2>6, <2>7 DEF TaskStep, TaskInv
<1>6. CASE /\ SetUpFails(t) /\ UNCHANGED handles
           /\ \/ UNCHANGED <<docker, spoiled>>
              \/ Put(t, k, "created") /\ spoiled' = spoiled \cup {t}
  <2>1. PICK where \in {"abandoned", "remove container"} :
          /\ pc' \in [Tasks -> Places] /\ pc'[t] = where
          /\ \A u \in Tasks \ {t} : pc'[u] = pc[u]
    BY <1>1, <1>6, SetUpFailsEffect
  <2>2. CASE UNCHANGED <<docker, spoiled>>
    <3>1. UNCHANGED <<single, handles, docker, old, counters, sweeping, spoiled>>
      BY <1>2, <1>6, <2>2 DEF counters
    <3>2. pc[t] \in {"new"} \cup SetUp \cup Serving
      BY <1>2 DEF SetUp
    <3> QED BY <2>1, <3>1, <3>2, WalkStep
  <2>3. CASE Put(t, k, "created") /\ spoiled' = spoiled \cup {t}
    <3>1. Sets(t, k, "created")
      BY <1>1, <1>3, <2>3, PutSets
    <3>2. spoiled' \in SUBSET Tasks /\ \A u \in Tasks : u \in spoiled => u \in spoiled'
      BY <1>1, <2>3 DEF ObjectTypes
    <3>3. ObjectTypes'
      BY <1>1, <1>2, <1>6, <2>1, <3>1, <3>2 DEF ObjectTypes, Sets
    <3>4. \A u \in Tasks \ {t} : Frame(u)
      BY <1>2, <1>6, <2>1, <3>1, <3>2 DEF Frame, Sets
    <3>5. t \in spoiled'
      BY <2>3
    <3>6. TaskInv(t)'
      BY <2>1, <3>5 DEF TaskInv, NewInv, OwnInv, UpInv, Serving
    <3> QED BY <1>2, <1>4, <3>3, <3>4, <3>6 DEF TaskStep
  <2> QED BY <1>6, <2>2, <2>3
<1> QED BY <1>5, <1>6 DEF Start

LEMMA SetUpStepStep ==
    ASSUME SandboxInv, NEW t \in Tasks, SetUpStep(t)
    PROVE  TaskStep(t)
<1>1. CASE CloneAndConnect(t)
  <2>1. PICK where \in {"running", "remove container", "abandoned"} : To(t, where)
    BY <1>1 DEF CloneAndConnect
  <2>2. where \in Places
    BY DEF Places, Serving, TakeDown, Ownerless
  <2>3. /\ pc' \in [Tasks -> Places] /\ pc'[t] = where
        /\ \A u \in Tasks \ {t} : pc'[u] = pc[u]
    BY <2>1, <2>2, ToEffect, Parts DEF ObjectTypes
  <2>4. /\ pc[t] = "clone" /\ pc[t] \in {"new"} \cup SetUp \cup Serving
        /\ UNCHANGED <<single, handles, docker, old, counters, sweeping, spoiled>>
    BY <1>1 DEF CloneAndConnect, SetUp
  <2> QED BY <2>3, <2>4, WalkStep
<1>2. CASE StartProxy(t)
  BY <1>2, StartStep DEF StartProxy
<1>3. CASE StartContainer(t)
  BY <1>3, StartStep DEF StartContainer
<1> QED BY <1>1, <1>2, <1>3, CreateNetworkStep DEF SetUpStep

LEMMA GraphStep ==
    ASSUME SandboxInv, NEW t \in Tasks, GraphPauses(t) \/ GraphEnds(t)
    PROVE  TaskStep(t)
<1>1. PICK where \in {"paused", "remove container"} :
        /\ To(t, where)
        /\ where = "paused" => pc[t] = "running"
        /\ pc[t] \in Serving
  BY DEF GraphPauses, GraphEnds, Serving
<1>2. where \in Places
  BY DEF Places, Serving, TakeDown
<1>3. /\ pc' \in [Tasks -> Places] /\ pc'[t] = where
      /\ \A u \in Tasks \ {t} : pc'[u] = pc[u]
  BY <1>1, <1>2, ToEffect, Parts DEF ObjectTypes
<1>4. UNCHANGED <<single, handles, docker, old, counters, sweeping, spoiled>>
  BY DEF GraphPauses, GraphEnds
<1> QED BY <1>1, <1>3, <1>4, WalkStep

\* A removal: the object is gone, or the task is spoiled, or nothing changed.
Removal(t, k) ==
    /\ docker' \in [Tasks -> [Kinds -> States]] /\ spoiled' \in SUBSET Tasks
    /\ faults' \in 0..MaxFaults /\ spoiled \subseteq spoiled'
    /\ \A u \in Tasks, j \in Kinds :
         docker'[u][j] = docker[u][j] \/ (u = t /\ j = k /\ docker'[u][j] = "none")
    /\ docker'[t][k] = "none" \/ docker'[t][k] = docker[t][k]

LEMMA GoneEffect ==
    ASSUME ObjectTypes, CounterTypes, NEW t \in Tasks, NEW k \in Kinds,
           Gone(t, k), UNCHANGED <<faults, spoiled>>
    PROVE  Removal(t, k) /\ docker'[t][k] = "none"
<1>1. "none" \in States
  BY DEF States
<1>2. /\ docker' \in [Tasks -> [Kinds -> States]]
      /\ \A u \in Tasks, j \in Kinds :
           docker'[u][j] = IF u = t /\ j = k THEN "none" ELSE docker[u][j]
  BY <1>1, PutEffect DEF Gone, ObjectTypes
<1> QED BY <1>2 DEF Removal, ObjectTypes, CounterTypes

LEMMA RefusedEffect ==
    ASSUME ObjectTypes, CounterTypes, NEW t \in Tasks, NEW k \in Kinds, RemovalFails(t)
    PROVE  Removal(t, k) /\ t \in spoiled'
<1>1. faults' \in 0..MaxFaults
  BY SandboxAssumption DEF RemovalFails, CounterTypes
<1>2. /\ spoiled' \in SUBSET Tasks /\ spoiled \subseteq spoiled' /\ t \in spoiled'
      /\ docker' = docker
  BY DEF RemovalFails, ObjectTypes
<1> QED BY <1>1, <1>2 DEF Removal, ObjectTypes

LEMMA KeptEffect ==
    ASSUME ObjectTypes, CounterTypes, NEW t \in Tasks, NEW k \in Kinds,
           UNCHANGED <<docker, faults, spoiled>>
    PROVE  Removal(t, k)
BY DEF Removal, ObjectTypes, CounterTypes

LEMMA RemoveContainerEffect ==
    ASSUME ObjectTypes, CounterTypes, NEW t \in Tasks, NEW k \in Kinds, RemoveContainer(t, k)
    PROVE  /\ Removal(t, k)
           /\ k \in handles[t] => docker'[t][k] = "none" \/ t \in spoiled'
BY GoneEffect, RefusedEffect, KeptEffect DEF RemoveContainer

LEMMA RemoveNetworkEffect ==
    ASSUME ObjectTypes, CounterTypes, NEW t \in Tasks, RemoveNetwork(t)
    PROVE  /\ Removal(t, "network")
           /\ "network" \in handles[t] /\ ~Attached(t) =>
                docker'[t]["network"] = "none" \/ t \in spoiled'
<1>1. "network" \in Kinds
  BY DEF Kinds
<1> QED BY <1>1, GoneEffect, RefusedEffect, KeptEffect DEF RemoveNetwork

\* One step of teardown, with what it has to have reached.
LEMMA TearDownOne ==
    ASSUME SandboxInv, NEW t \in Tasks, NEW k \in Kinds, NEW where \in Places,
           \/ k = "container" /\ pc[t] = "remove container" /\ where = "remove proxy"
           \/ k = "proxy" /\ pc[t] = "remove proxy" /\ where = "remove network"
           \/ k = "network" /\ pc[t] = "remove network" /\ where = "done",
           Removal(t, k), To(t, where),
           handles' \in [Tasks -> SUBSET Kinds],
           \A u \in Tasks \ {t} : handles'[u] = handles[u],
           where # "done" => handles'[t] = handles[t],
           OwnInv(t) => (t \notin spoiled => docker'[t][k] = "none" \/ t \in spoiled'),
           UNCHANGED <<single, old, crashes, sweeps, sweeping>>
    PROVE  TaskStep(t)
<1>1. ObjectTypes /\ CounterTypes /\ TaskInv(t)
  BY Parts
<1>2. pc' \in [Tasks -> Places] /\ \A u \in Tasks : pc'[u] = IF u = t THEN where ELSE pc[u]
  BY <1>1, ToEffect DEF ObjectTypes
<1>3. ObjectTypes'
  BY <1>1, <1>2 DEF ObjectTypes, Removal
<1>4. CounterTypes'
  BY <1>1 DEF CounterTypes, Removal
<1>5. \A u \in Tasks \ {t} : Frame(u)
  BY <1>2 DEF Frame, Removal
<1>6. Orphaned(t)
  BY DEF Orphaned, Ownerless
<1>7. \A j \in Kinds : Exists(t, j)' => Exists(t, j)
  BY DEF Removal, Exists
<1>8. t \notin spoiled' => t \notin spoiled /\ ~Exists(t, k)'
  BY <1>1 DEF TaskInv, Removal, Exists
<1>9. OwnInv(t)'
  <2>1. SUFFICES ASSUME t \notin spoiled'
                 PROVE  OwnInv(t)'
    BY DEF OwnInv
  <2>2. t \notin spoiled /\ ~Exists(t, k)'
    BY <1>8, <2>1
  <2> QED BY <1>1, <1>2, <1>7, <2>2 DEF TaskInv, OwnInv, Kinds
<1>10. NewInv(t)' /\ UpInv(t)'
  BY <1>2 DEF NewInv, UpInv, Serving
<1> QED BY <1>3, <1>4, <1>5, <1>6, <1>9, <1>10 DEF TaskStep, TaskInv

LEMMA TearDownStep ==
    ASSUME SandboxInv, NEW t \in Tasks, TearDown(t)
    PROVE  TaskStep(t)
<1>1. ObjectTypes /\ CounterTypes /\ TaskInv(t)
  BY Parts
<1>2. /\ \A k \in Kinds : k \in {"network", "proxy", "container"}
      /\ "network" \in Kinds /\ "proxy" \in Kinds /\ "container" \in Kinds
      /\ \A where \in {"remove proxy", "remove network", "done"} : where \in Places
  BY DEF Kinds, Places, TakeDown, Ownerless
<1>3. UNCHANGED <<single, old, crashes, sweeps, sweeping>>
  BY DEF TearDown
<1>4. CASE /\ pc[t] = "remove container" /\ RemoveContainer(t, "container")
           /\ To(t, "remove proxy") /\ UNCHANGED handles
  <2>1. /\ Removal(t, "container")
        /\ "container" \in handles[t] => docker'[t]["container"] = "none" \/ t \in spoiled'
    BY <1>1, <1>2, <1>4, RemoveContainerEffect
  <2>2. OwnInv(t) => (t \notin spoiled => docker'[t]["container"] = "none" \/ t \in spoiled')
    BY <1>2, <1>4, <2>1 DEF OwnInv, Exists, Removal
  <2>3. handles' \in [Tasks -> SUBSET Kinds] /\ \A u \in Tasks : handles'[u] = handles[u]
    BY <1>1, <1>4 DEF ObjectTypes
  <2>4. /\ pc[t] = "remove container" /\ To(t, "remove proxy")
        /\ "remove proxy" \in Places /\ "container" \in Kinds
    BY <1>2, <1>4
  <2> QED BY <1>3, <2>1, <2>2, <2>3, <2>4, TearDownOne
<1>5. CASE /\ pc[t] = "remove proxy" /\ RemoveContainer(t, "proxy")
           /\ To(t, "remove network") /\ UNCHANGED handles
  <2>1. /\ Removal(t, "proxy")
        /\ "proxy" \in handles[t] => docker'[t]["proxy"] = "none" \/ t \in spoiled'
    BY <1>1, <1>2, <1>5, RemoveContainerEffect
  <2>2. OwnInv(t) => (t \notin spoiled => docker'[t]["proxy"] = "none" \/ t \in spoiled')
    BY <1>2, <1>5, <2>1 DEF OwnInv, Exists, Removal
  <2>3. handles' \in [Tasks -> SUBSET Kinds] /\ \A u \in Tasks : handles'[u] = handles[u]
    BY <1>1, <1>5 DEF ObjectTypes
  <2>4. /\ pc[t] = "remove proxy" /\ To(t, "remove network")
        /\ "remove network" \in Places /\ "proxy" \in Kinds
    BY <1>2, <1>5
  <2> QED BY <1>3, <2>1, <2>2, <2>3, <2>4, TearDownOne
<1>6. CASE /\ pc[t] = "remove network" /\ RemoveNetwork(t)
           /\ To(t, "done") /\ handles' = [handles EXCEPT ![t] = {}]
  <2>1. /\ Removal(t, "network")
        /\ "network" \in handles[t] /\ ~Attached(t) =>
             docker'[t]["network"] = "none" \/ t \in spoiled'
    BY <1>1, <1>6, RemoveNetworkEffect
  <2>2. OwnInv(t) => (t \notin spoiled => docker'[t]["network"] = "none" \/ t \in spoiled')
    <3>1. SUFFICES ASSUME OwnInv(t), t \notin spoiled
                   PROVE  docker'[t]["network"] = "none" \/ t \in spoiled'
      OBVIOUS
    <3>2. /\ Exists(t, "network") => "network" \in handles[t]
          /\ ~Exists(t, "container") /\ ~Exists(t, "proxy")
      BY <1>2, <1>6, <3>1 DEF OwnInv
    <3>3. ~Attached(t)
      BY <3>2 DEF Attached, Containers, Exists
    <3> QED BY <1>2, <2>1, <3>2, <3>3 DEF Exists, Removal
  <2>3. /\ handles' \in [Tasks -> SUBSET Kinds]
        /\ \A u \in Tasks \ {t} : handles'[u] = handles[u]
    BY <1>1, <1>6 DEF ObjectTypes
  <2> QED BY <1>2, <1>3, <1>6, <2>1, <2>2, <2>3, TearDownOne
<1> QED BY <1>4, <1>5, <1>6 DEF TearDown

\* The process dies.
LEMMA CrashStep ==
    ASSUME SandboxInv, Crash
    PROVE  SandboxInv'
<1>1. ObjectTypes /\ CounterTypes /\ SweepTypes /\ single \subseteq Tasks
  BY TypeParts DEF SandboxInv
<1>2. UNCHANGED <<single, docker, old, faults, sweeps, spoiled>> /\ UNCHANGED sweeping
  BY DEF Crash
<1>3. \A t \in Tasks : pc'[t] = IF pc[t] \in {"new", "done"} THEN pc[t] ELSE "lost"
  BY DEF Crash
<1>4. pc' \in [Tasks -> Places]
  <2>1. \A t \in Tasks : (IF pc[t] \in {"new", "done"} THEN pc[t] ELSE "lost") \in Places
    BY <1>1 DEF ObjectTypes, Places, Ownerless
  <2> QED BY <2>1 DEF Crash
<1>5. handles' \in [Tasks -> SUBSET Kinds]
  BY DEF Crash
<1>6. ObjectTypes'
  BY <1>1, <1>2, <1>4, <1>5 DEF ObjectTypes
<1>7. CounterTypes'
  BY <1>1, <1>2, SandboxAssumption DEF CounterTypes, Crash
<1>8. SweepTypes'
  BY <1>1, <1>2 DEF SweepTypes, sweeping
<1>9. SandboxTypeOK'
  BY <1>1, <1>2, <1>6, <1>7, <1>8
     DEF SandboxTypeOK, ObjectTypes, SweepTypes, CounterTypes, Places, States
<1>10. ASSUME NEW t \in Tasks PROVE TaskInv(t)'
  <2>1. TaskInv(t)
    BY Parts
  <2>2. \A k \in Kinds : Exists(t, k)' <=> Exists(t, k)
    BY <1>2 DEF Exists
  <2>3. pc'[t] \in {"new", "done", "lost"} /\ (pc'[t] # "lost" => pc'[t] = pc[t])
    BY <1>3
  <2>4. NewInv(t)' /\ UpInv(t)'
    BY <2>1, <2>2, <2>3 DEF TaskInv, NewInv, UpInv, Serving
  <2>5. OwnInv(t)'
    BY <1>2, <2>1, <2>2, <2>3 DEF TaskInv, NewInv, OwnInv, Kinds
  <2> QED BY <2>4, <2>5 DEF TaskInv
<1>11. \A u \in Tasks : Orphaned(u) /\ old[u] \subseteq old'[u]
  BY <1>2, <1>3 DEF Orphaned, Ownerless, Exists
<1>12. ListInv' /\ DoomInv' /\ SweepInv'
  BY <1>2, <1>11, SweepKept
<1> QED BY <1>9, <1>10, <1>12 DEF SandboxInv, TaskInv

-----------------------------------------------------------------------------
(* The steps of the janitor                                                *)

\* What the janitor leaves alone.
Apart == UNCHANGED <<single, pc, handles, old, crashes>>

LEMMA Pairs ==
    ASSUME SandboxInv
    PROVE  /\ \A x \in doomed : x \in Tasks \X Kinds /\ x[1] \in Tasks /\ x[2] \in Kinds
           /\ \A x \in janitor.list : x \in Tasks \X Kinds /\ x[1] \in Tasks /\ x[2] \in Kinds
           /\ \A x \in Tasks \X Kinds : x = <<x[1], x[2]>>
           /\ janitor = [at |-> janitor.at, list |-> janitor.list]
           /\ janitor.list \subseteq Tasks \X Kinds
BY TypeParts DEF SandboxInv, SweepTypes

\* A removal by the janitor takes nothing a young sandbox needs.
LEMMA RemovalKeepsTasks ==
    ASSUME SandboxInv, NEW t \in Tasks, NEW k \in Kinds, Removal(t, k), Apart,
           old[t] \cap Containers = {} =>
               docker'[t][k] = docker[t][k] \/ (k = "network" /\ ~Attached(t))
    PROVE  /\ ObjectTypes' /\ \A u \in Tasks : TaskInv(u)'
           /\ \A u \in Tasks, j \in Kinds : Exists(u, j)' => Exists(u, j)
<1>1. ObjectTypes /\ \A u \in Tasks : TaskInv(u)
  BY Parts
<1>2. ObjectTypes'
  BY <1>1 DEF ObjectTypes, Removal, Apart
<1>3. \A u \in Tasks, j \in Kinds : Exists(u, j)' => Exists(u, j)
  BY DEF Removal, Exists
<1>4. ASSUME NEW u \in Tasks PROVE TaskInv(u)'
  <2>1. TaskInv(u) /\ pc'[u] = pc[u] /\ handles'[u] = handles[u] /\ old'[u] = old[u]
        /\ spoiled \subseteq spoiled'
    BY <1>1 DEF Apart, Removal
  <2>2. NewInv(u)' /\ OwnInv(u)'
    BY <1>3, <2>1 DEF TaskInv, NewInv, OwnInv, Kinds
  <2>3. UpInv(u)'
    <3>1. SUFFICES ASSUME old[u] \cap Containers = {},
                          pc[u] \in {"container", "clone"} \cup Serving
                   PROVE  UpInv(u)'
      BY <2>1 DEF UpInv
    <3>2. /\ docker[u]["network"] = "up" /\ docker[u]["proxy"] = "up"
          /\ pc[u] \in {"clone"} \cup Serving => docker[u]["container"] = "up"
      BY <2>1, <3>1 DEF TaskInv, UpInv
    <3>3. Attached(u)
      BY <3>2 DEF Attached, Containers
    <3>4. \A j \in Kinds : docker'[u][j] = docker[u][j]
      BY <3>1, <3>3 DEF Removal
    <3> QED BY <2>1, <3>2, <3>4 DEF UpInv, Kinds
  <2> QED BY <2>2, <2>3 DEF TaskInv
<1> QED BY <1>2, <1>3, <1>4

\* The parts that a step of the janitor has to keep make the whole.
LEMMA SweepWhole ==
    ASSUME SandboxInv, Apart, ObjectTypes', \A u \in Tasks : TaskInv(u)',
           SweepTypes', faults' \in 0..MaxFaults, sweeps' \in 0..MaxSweeps,
           ListInv', DoomInv', SweepInv'
    PROVE  SandboxInv'
<1>1. single' \subseteq Tasks /\ CounterTypes'
  BY TypeParts DEF SandboxInv, Apart, CounterTypes
<1>2. SandboxTypeOK'
  BY <1>1 DEF SandboxTypeOK, ObjectTypes, SweepTypes, CounterTypes, Places, States
<1> QED BY <1>2 DEF SandboxInv, TaskInv

LEMMA StartSweepStep ==
    ASSUME SandboxInv, StartSweep
    PROVE  SandboxInv'
<1>1. ObjectTypes /\ CounterTypes /\ \A u \in Tasks : TaskInv(u)
  BY Parts
<1>2. Apart /\ UNCHANGED <<docker, faults, spoiled>>
  BY DEF StartSweep, Apart
<1>3. janitor' = [at |-> "containers", list |-> Stale] /\ doomed' = Reclaimable /\ refused' = FALSE
  BY DEF StartSweep
<1>4. ObjectTypes' /\ \A u \in Tasks : TaskInv(u)'
  BY <1>1, <1>2
     DEF ObjectTypes, TaskInv, NewInv, OwnInv, UpInv, Exists, Apart
<1>5. Stale \subseteq Tasks \X Kinds /\ Reclaimable \subseteq Tasks \X Kinds
  BY DEF Stale, AllContainers, Reclaimable, Kinds, Containers
<1>6. SweepTypes'
  BY <1>3, <1>5 DEF SweepTypes
<1>7. faults' \in 0..MaxFaults /\ sweeps' \in 0..MaxSweeps
  BY <1>1, <1>2, SandboxAssumption DEF CounterTypes, StartSweep
<1>8. ListInv'
  BY <1>2, <1>3 DEF ListInv, Stale, AllContainers, Apart
<1>9. DoomInv'
  <2>1. ASSUME NEW x \in Reclaimable
        PROVE  /\ pc[x[1]] \in Ownerless
               /\ \A c \in Containers : Exists(x[1], c) => <<x[1], c>> \in Reclaimable
    BY DEF Reclaimable, Containers, Kinds
  <2> QED BY <1>2, <1>3, <2>1 DEF DoomInv, Exists, Apart
<1>10. SweepInv'
  <2>1. ASSUME NEW x \in Reclaimable, x[2] \in Containers
        PROVE  x \in Stale
    BY <2>1 DEF Reclaimable, Stale, AllContainers
  <2> QED BY <1>3, <2>1 DEF SweepInv
<1> QED BY <1>2, <1>4, <1>6, <1>7, <1>8, <1>9, <1>10, SweepWhole

\* The steps of a sweep that change its place only.
LEMMA ListNetworksStep ==
    ASSUME SandboxInv, ListNetworks
    PROVE  SandboxInv'
<1>1. ObjectTypes /\ CounterTypes /\ SweepTypes /\ \A u \in Tasks : TaskInv(u)
  BY Parts, TypeParts DEF SandboxInv
<1>2. Apart /\ UNCHANGED <<docker, faults, sweeps, spoiled, doomed, refused>>
  BY DEF ListNetworks, Apart, counters
<1>3. /\ janitor.at = "containers" /\ janitor.list = {}
      /\ janitor' = [at |-> "networks", list |-> AllNetworks]
  BY DEF ListNetworks
<1>4. ObjectTypes' /\ \A u \in Tasks : TaskInv(u)'
  BY <1>1, <1>2
     DEF ObjectTypes, TaskInv, NewInv, OwnInv, UpInv, Exists, Apart
<1>5. AllNetworks \subseteq Tasks \X Kinds
  BY DEF AllNetworks, Kinds
<1>6. SweepTypes' /\ faults' \in 0..MaxFaults /\ sweeps' \in 0..MaxSweeps
  BY <1>1, <1>2, <1>3, <1>5 DEF SweepTypes, CounterTypes
<1>7. ListInv'
  BY <1>3 DEF ListInv
<1>8. DoomInv'
  BY <1>2 DEF SandboxInv, DoomInv, Exists, Apart
<1>9. SweepInv'
  <2>1. ASSUME ~refused, NEW x \in doomed, Exists(x[1], x[2])
        PROVE  x[2] = "network" /\ x \in AllNetworks
    <3>1. x \in Tasks \X Kinds /\ x = <<x[1], x[2]>> /\ x[2] \in Kinds /\ x[1] \in Tasks
      BY Pairs
    <3>2. x[2] \notin Containers
      BY <1>3, <2>1 DEF SandboxInv, SweepInv
    <3>3. x[2] = "network"
      BY <3>1, <3>2 DEF Kinds, Containers
    <3> QED BY <2>1, <3>1, <3>3 DEF AllNetworks
  <2> QED BY <1>2, <1>3, <2>1 DEF SweepInv, Exists
<1> QED BY <1>2, <1>4, <1>6, <1>7, <1>8, <1>9, SweepWhole

LEMMA EndSweepStep ==
    ASSUME SandboxInv, EndSweep
    PROVE  SandboxInv'
<1>1. ObjectTypes /\ CounterTypes /\ SweepTypes /\ \A u \in Tasks : TaskInv(u)
  BY Parts, TypeParts DEF SandboxInv
<1>2. Apart /\ UNCHANGED <<docker, faults, sweeps, spoiled, doomed, refused>>
  BY DEF EndSweep, Apart, counters
<1>3. /\ janitor.at = "networks" /\ janitor.list = {}
      /\ janitor' = [at |-> "idle", list |-> {}]
  BY Pairs DEF EndSweep
<1>4. ObjectTypes' /\ \A u \in Tasks : TaskInv(u)'
  BY <1>1, <1>2
     DEF ObjectTypes, TaskInv, NewInv, OwnInv, UpInv, Exists, Apart
<1>5. SweepTypes' /\ faults' \in 0..MaxFaults /\ sweeps' \in 0..MaxSweeps
  BY <1>1, <1>2, <1>3 DEF SweepTypes, CounterTypes
<1>6. ListInv'
  BY <1>3 DEF ListInv
<1>7. DoomInv'
  BY <1>2 DEF SandboxInv, DoomInv, Exists, Apart
<1>8. SweepInv'
  BY <1>2, <1>3 DEF SandboxInv, SweepInv, Exists
<1> QED BY <1>2, <1>4, <1>5, <1>6, <1>7, <1>8, SweepWhole

\* The effect of one removal on the sweep.
LEMMA SweepContainerStep ==
    ASSUME SandboxInv, NEW t \in Tasks, NEW k \in Containers, SweepContainer(t, k)
    PROVE  SandboxInv'
<1>1. ObjectTypes /\ CounterTypes /\ SweepTypes /\ k \in Kinds
  BY Parts, TypeParts DEF SandboxInv, Kinds, Containers
<1>2. Apart /\ UNCHANGED <<sweeps, doomed>>
  BY DEF SweepContainer, Apart
<1>3. janitor.at = "containers" /\ <<t, k>> \in janitor.list
  BY DEF SweepContainer, Listed
<1>4. Removal(t, k)
  BY <1>1, GoneEffect, RefusedEffect DEF SweepContainer, SweepFails
<1>5. k \in old[t]
  <2>1. \A x \in janitor.list : x[2] \in old[x[1]]
    BY <1>3 DEF SandboxInv, ListInv
  <2> QED BY <1>3, <2>1
<1>6. /\ ObjectTypes' /\ \A u \in Tasks : TaskInv(u)'
      /\ \A u \in Tasks, j \in Kinds : Exists(u, j)' => Exists(u, j)
  BY <1>1, <1>2, <1>4, <1>5, RemovalKeepsTasks
<1>7. \/ janitor' = [at |-> "containers", list |-> janitor.list \ {<<t, k>>}]
      \/ janitor' = [at |-> "idle", list |-> {}]
  BY <1>3, Pairs DEF SweepContainer, Unlist, GiveUp
<1>8. SweepTypes' /\ faults' \in 0..MaxFaults /\ sweeps' \in 0..MaxSweeps
  <2>1. janitor.list \ {<<t, k>>} \subseteq Tasks \X Kinds
    BY Pairs
  <2>2. refused' \in BOOLEAN
    BY <1>1 DEF SweepContainer, SweepFails, SweepTypes
  <2>3. janitor' \in [at : {"idle", "containers", "networks"}, list : SUBSET (Tasks \X Kinds)]
    BY <1>7, <2>1
  <2> QED BY <1>1, <1>2, <1>4, <2>2, <2>3 DEF SweepTypes, CounterTypes, Removal
<1>9. ListInv'
  BY <1>2, <1>3, <1>7 DEF SandboxInv, ListInv, Apart
<1>10. DoomInv'
  <2>1. \A x \in doomed : x[1] \in Tasks
    BY Pairs
  <2>2. \A c \in Containers : c \in Kinds
    BY DEF Containers, Kinds
  <2> QED BY <1>2, <1>6, <2>1, <2>2 DEF SandboxInv, DoomInv, Apart
<1>11. SweepInv'
  <2>1. CASE refused'
    BY <2>1 DEF SweepInv
  <2>2. CASE ~refused'
    <3>1. /\ Gone(t, k) /\ UNCHANGED <<faults, spoiled, refused>>
          /\ janitor' = [at |-> "containers", list |-> janitor.list \ {<<t, k>>}]
      BY <1>3, <2>2, Pairs DEF SweepContainer, SweepFails, Unlist
    <3>2. docker'[t][k] = "none"
      BY <1>1, <3>1, GoneEffect
    <3>3. ASSUME NEW x \in doomed, Exists(x[1], x[2])', x[2] \in Containers
          PROVE  x \in janitor.list \ {<<t, k>>}
      <4>1. Exists(x[1], x[2]) /\ x \in janitor.list
        BY <1>3, <1>6, <2>2, <3>1, <3>3, Pairs DEF SandboxInv, SweepInv
      <4>2. x # <<t, k>>
        BY <3>2, <3>3 DEF Exists
      <4> QED BY <4>1, <4>2
    <3> QED BY <1>2, <3>1, <3>3 DEF SweepInv
  <2> QED BY <2>1, <2>2
<1> QED BY <1>2, <1>6, <1>8, <1>9, <1>10, <1>11, SweepWhole

LEMMA SweepNetworkStep ==
    ASSUME SandboxInv, NEW t \in Tasks, SweepNetwork(t)
    PROVE  SandboxInv'
<1>1. ObjectTypes /\ CounterTypes /\ SweepTypes /\ "network" \in Kinds
  BY Parts, TypeParts DEF SandboxInv, Kinds
<1>2. Apart /\ UNCHANGED <<sweeps, doomed>>
  BY DEF SweepNetwork, Apart
<1>3. /\ janitor.at = "networks" /\ <<t, "network">> \in janitor.list
      /\ janitor' = [at |-> "networks", list |-> janitor.list \ {<<t, "network">>}]
  BY Pairs DEF SweepNetwork, Listed, Unlist
<1>4. Removal(t, "network")
  BY <1>1, GoneEffect, RefusedEffect, KeptEffect DEF SweepNetwork, SweepFails
<1>5. docker'[t]["network"] = docker[t]["network"] \/ ~Attached(t)
  BY DEF SweepNetwork
<1>6. /\ ObjectTypes' /\ \A u \in Tasks : TaskInv(u)'
      /\ \A u \in Tasks, j \in Kinds : Exists(u, j)' => Exists(u, j)
  BY <1>1, <1>2, <1>4, <1>5, RemovalKeepsTasks
<1>7. SweepTypes' /\ faults' \in 0..MaxFaults /\ sweeps' \in 0..MaxSweeps
  <2>1. janitor.list \ {<<t, "network">>} \subseteq Tasks \X Kinds
    BY Pairs
  <2>2. refused' \in BOOLEAN
    BY <1>1 DEF SweepNetwork, SweepFails, SweepTypes
  <2>3. janitor' \in [at : {"idle", "containers", "networks"}, list : SUBSET (Tasks \X Kinds)]
    BY <1>3, <2>1
  <2> QED BY <1>1, <1>2, <1>4, <2>2, <2>3 DEF SweepTypes, CounterTypes, Removal
<1>8. ListInv'
  BY <1>3 DEF ListInv
<1>9. DoomInv'
  <2>1. \A x \in doomed : x[1] \in Tasks
    BY Pairs
  <2>2. \A c \in Containers : c \in Kinds
    BY DEF Containers, Kinds
  <2> QED BY <1>2, <1>6, <2>1, <2>2 DEF SandboxInv, DoomInv, Apart
<1>10. SweepInv'
  <2>1. CASE refused'
    BY <2>1 DEF SweepInv
  <2>2. CASE ~refused'
    <3>1. /\ ~refused
          /\ \/ ~Attached(t) /\ Gone(t, "network") /\ UNCHANGED <<faults, spoiled>>
             \/ Attached(t) /\ UNCHANGED docker
      BY <2>2 DEF SweepNetwork, SweepFails
    <3>2. \A x \in doomed : Exists(x[1], x[2]) => x[2] = "network" /\ x \in janitor.list
      BY <1>3, <3>1 DEF SandboxInv, SweepInv
    <3>3. ASSUME NEW x \in doomed, Exists(x[1], x[2])'
          PROVE  x[2] = "network" /\ x \in janitor.list \ {<<t, "network">>}
      <4>1. Exists(x[1], x[2])
        BY <1>6, <3>3, Pairs
      <4>2. CASE ~Attached(t) /\ Gone(t, "network") /\ UNCHANGED <<faults, spoiled>>
        <5>1. docker'[t]["network"] = "none"
          BY <1>1, <4>2, GoneEffect
        <5>2. x # <<t, "network">>
          BY <3>3, <5>1 DEF Exists
        <5> QED BY <3>2, <4>1, <5>2
      <4>3. CASE Attached(t) /\ UNCHANGED docker
        <5>1. PICK c \in Containers : docker[t][c] = "up"
          BY <4>3 DEF Attached
        <5>2. Exists(t, c) /\ c # "network"
          BY <5>1 DEF Exists, Containers
        <5>3. x[1] # t
          <6>1. SUFFICES ASSUME x[1] = t PROVE FALSE
            OBVIOUS
          <6>2. <<t, c>> \in doomed
            BY <5>2, <6>1 DEF SandboxInv, DoomInv
          <6>3. <<t, c>>[1] = t /\ <<t, c>>[2] = c
            OBVIOUS
          <6> QED BY <3>2, <5>2, <6>2, <6>3
        <5> QED BY <3>2, <4>1, <5>3
      <4> QED BY <3>1, <4>2, <4>3
    <3> QED BY <1>2, <1>3, <3>3 DEF SweepInv
  <2> QED BY <2>1, <2>2
<1> QED BY <1>2, <1>6, <1>7, <1>8, <1>9, <1>10, SweepWhole

-----------------------------------------------------------------------------
(* The theorems                                                            *)

LEMMA SandboxInit == Init => SandboxInv
<1> SUFFICES ASSUME Init PROVE SandboxInv
  OBVIOUS
<1>1. single \subseteq Tasks /\ CounterTypes
  BY SandboxAssumption DEF Init, CounterTypes
<1>2. ObjectTypes
  BY DEF Init, ObjectTypes, Places, States
<1>3. SweepTypes
  BY DEF Init, SweepTypes
<1>4. \A t \in Tasks : NewInv(t) /\ OwnInv(t) /\ UpInv(t)
  BY DEF Init, NewInv, OwnInv, UpInv, Exists, Serving
<1>5. ListInv /\ DoomInv /\ SweepInv
  BY DEF Init, ListInv, DoomInv, SweepInv
<1> QED BY <1>1, <1>2, <1>3, <1>4, <1>5, TypeParts DEF SandboxInv

LEMMA SandboxStep == SandboxInv /\ [Next]_vars => SandboxInv'
<1> SUFFICES ASSUME SandboxInv, [Next]_vars PROVE SandboxInv'
  OBVIOUS
<1>1. ASSUME NEW t \in Tasks,
             \/ SetUpStep(t) \/ GraphPauses(t) \/ GraphEnds(t) \/ TearDown(t)
             \/ \E k \in Kinds : Age(t, k)
      PROVE  SandboxInv'
  <2>1. TaskStep(t)
    BY <1>1, SetUpStepStep, GraphStep, TearDownStep, AgeStep
  <2> QED BY <2>1, TaskStepInv
<1>2. CASE Crash
  BY <1>2, CrashStep
<1>3. CASE Janitor
  BY <1>3, StartSweepStep, ListNetworksStep, EndSweepStep, SweepContainerStep,
     SweepNetworkStep DEF Janitor
<1>4. CASE UNCHANGED vars
  BY <1>4
     DEF vars, SandboxInv, SandboxTypeOK, NewInv, OwnInv, UpInv, ListInv, DoomInv,
         SweepInv, Exists
<1> QED BY <1>1, <1>2, <1>3, <1>4 DEF Next

THEOREM SandboxInvariant == Spec => []SandboxInv
BY SandboxInit, SandboxStep, PTL DEF Spec

\* The state stays well-typed.
THEOREM SandboxTypeCorrect == Spec => []SandboxTypeOK
<1>1. SandboxInv => SandboxTypeOK
  BY DEF SandboxInv
<1> QED BY <1>1, SandboxInvariant, PTL

\* run_task's and resume_graph's teardown of a task to which Docker refused
\* nothing leaves none of its objects, wherever its set-up failed.
THEOREM TeardownIsClean == Spec => []CleanTeardownLeavesNothing
<1>1. SandboxInv => CleanTeardownLeavesNothing
  BY DEF SandboxInv, OwnInv, CleanTeardownLeavesNothing, Kinds
<1> QED BY <1>1, SandboxInvariant, PTL

\* No sweep takes an object of a graph that runs or waits as long as its
\* containers are younger than the janitor's limit.
THEOREM YoungSandboxesStay == Spec => []NoYoungSandboxLost
<1>1. SandboxInv => NoYoungSandboxLost
  BY DEF SandboxInv, UpInv, NoYoungSandboxLost, Kinds
<1> QED BY <1>1, SandboxInvariant, PTL

\* A sweep that Docker refused nothing leaves no object that had lost its owner,
\* and its last young container, before the sweep began.
THEOREM SweepsReclaim == Spec => []SweepReclaims
<1>1. SandboxInv => SweepReclaims
  BY DEF SandboxInv, SweepInv, SweepReclaims
<1> QED BY <1>1, SandboxInvariant, PTL

=============================================================================
