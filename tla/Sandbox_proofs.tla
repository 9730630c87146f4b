--------------------------- MODULE Sandbox_proofs ---------------------------
(***************************************************************************)
(* The safety promises of Sandbox, proved for every number of starts and   *)
(* attaches and for all agents.                                            *)
(***************************************************************************)
EXTENDS Sandbox, Naturals, TLAPS

USE DEF Plain, Updated, Written, Steps, Calls, Process, Replica, BetweenSums, Between

-----------------------------------------------------------------------------
(* How one step changes one command. *)

LEMMA AfterIs ==
  /\ After["namespace"] = "config" /\ After["config"] = "service"
  /\ After["service"] = "deployment" /\ After["deployment"] = "await_proxy"
  /\ After["await_proxy"] = "volumes" /\ After["volumes"] = "pod"
  /\ After["pod"] = "secret" /\ After["secret"] = "forgejo"
  /\ After["forgejo"] = "await_forgejo" /\ After["await_forgejo"] = "launch"
  /\ After["launch"] = "preflight_runtime" /\ After["preflight_runtime"] = "policy"
  /\ After["policy"] = "check_proxy" /\ After["check_proxy"] = "ready"
  /\ After["ready"] = "inside"
BY DEF After

\* A command that goes on to the next step; nothing else about the others changes.
LEMMA MovedIs ==
  ASSUME proc \in [Processes -> Process], NEW p \in Processes, proc' = Moved(p),
         proc[p].step \notin {"idle", "inside", "left"}
  PROVE  /\ proc' \in [Processes -> Process]
         /\ proc'[p].step = After[proc[p].step]
         /\ \A q \in Processes : proc'[q].agent = proc[q].agent
         /\ \A q \in Processes \ {p} : proc'[q] = proc[q]
<1>1. proc[p] \in Process
  OBVIOUS
<1>2. After[proc[p].step] \in Steps
  BY <1>1, AfterIs
<1>3. [proc[p] EXCEPT !.step = After[proc[p].step], !.call = "create", !.seen = None]
        \in Process
  BY <1>1, <1>2
<1> QED
  BY <1>2, <1>3 DEF Moved

LEMMA CalledIs ==
  ASSUME proc \in [Processes -> Process], NEW p \in Processes, NEW c \in Calls,
         proc' = Called(p, c)
  PROVE  /\ proc' \in [Processes -> Process]
         /\ proc'[p].call = c
         /\ \A q \in Processes : proc'[q].step = proc[q].step
                                 /\ proc'[q].agent = proc[q].agent
         /\ \A q \in Processes \ {p} : proc'[q] = proc[q]
BY DEF Called

\* The objects that are ensured, by how that is done.
LEMMA EnsureIs ==
  ASSUME NEW p \in Processes, Ensure(p)
  PROVE  \/ \E k \in Plain : EnsurePlain(p, k)
         \/ \E k \in Updated : EnsureCreate(p, k) \/ EnsureFinds(p, k)
                              \/ EnsureGet(p, k) \/ EnsureUpdate(p, k)
BY DEF Ensure, EnsureNamespace, EnsureProxyService, EnsureVolumes,
       EnsureBootstrapSecret, EnsureForgejo, EnsureAgentNetworkPolicy, EnsureWritten,
       EnsureProxyConfig, EnsureProxyDeployment

\* No step changes the agent of a command.
LEMMA AgentsStay ==
  ASSUME proc \in [Processes -> Process], Next
  PROVE  \A q \in Processes : proc'[q].agent = proc[q].agent
<1> SUFFICES ASSUME NEW q \in Processes PROVE proc'[q].agent = proc[q].agent
  OBVIOUS
<1>1. ASSUME NEW p \in Processes, Begins(p) PROVE proc'[q].agent = proc[q].agent
  BY <1>1 DEF Begins, StartBegins, AttachBegins
<1>2. ASSUME NEW p \in Processes, Ensure(p) PROVE proc'[q].agent = proc[q].agent
  <2>1. \/ \E k \in Plain : EnsurePlain(p, k)
        \/ \E k \in Updated : EnsureCreate(p, k) \/ EnsureFinds(p, k)
                             \/ EnsureGet(p, k) \/ EnsureUpdate(p, k)
    BY <1>2, EnsureIs
  <2> QED
    BY <2>1 DEF EnsurePlain, EnsureCreate, EnsureFinds, EnsureGet, EnsureUpdate,
                Moved, Called
<1>3. ASSUME NEW p \in Processes, Replace(p) PROVE proc'[q].agent = proc[q].agent
  BY <1>3 DEF Replace, PodCreate, PodExists, PodDelete, PodAwait, PodRecreate,
              Moved, Called
<1>4. ASSUME NEW p \in Processes, Waits(p) \/ WaitForForgejo(p) \/ Leaves(p) \/ Fails(p)
      PROVE proc'[q].agent = proc[q].agent
  BY <1>4 DEF Waits, WaitForProxyReady, ProxyReady, WaitForPodReady, InContainer,
              WaitForForgejo, Leaves,
              Fails, Moved
<1>5. ASSUME PodGone \/ ProxyRolls \/ ProxyLost PROVE proc'[q].agent = proc[q].agent
  BY <1>5 DEF PodGone, ProxyRolls, ProxyLost
<1> QED
  BY <1>1, <1>2, <1>3, <1>4, <1>5 DEF Next

-----------------------------------------------------------------------------
(* Type correctness. *)

LEMMA ContentIsAgent ==
  ASSUME TypeOK, NEW k \in Written
  PROVE  Exists(k) => Content(k) \in Agents
BY SandboxAssumption DEF TypeOK, Exists, Content

LEMMA TypeInit == Init => TypeOK
BY SandboxAssumption DEF Init, TypeOK, Exists, Processes

LEMMA TypeNext == TypeOK /\ [Next]_vars => TypeOK'
<1> SUFFICES ASSUME TypeOK, [Next]_vars PROVE TypeOK'
  OBVIOUS
<1> USE DEF TypeOK
<1>1. ASSUME NEW p \in Processes, Begins(p) PROVE TypeOK'
  BY <1>1 DEF Begins, StartBegins, AttachBegins, At, Exists
<1>2. ASSUME NEW p \in Processes, Ensure(p) PROVE TypeOK'
  <2>1. ASSUME NEW k \in Plain, EnsurePlain(p, k) PROVE TypeOK'
    BY <2>1, MovedIs DEF EnsurePlain, At, Exists
  <2>2. ASSUME NEW k \in Updated, EnsureCreate(p, k) PROVE TypeOK'
    BY <2>2, MovedIs DEF EnsureCreate, Notes, Calling, At, Exists
  <2>3. ASSUME NEW k \in Updated, EnsureFinds(p, k) PROVE TypeOK'
    BY <2>3, CalledIs DEF EnsureFinds, Exists
  <2>4. ASSUME NEW k \in Updated, EnsureGet(p, k) PROVE TypeOK'
    <3>1. proc[p] \in Process /\ writer[k] \in Processes \union {None}
      OBVIOUS
    <3>2. [proc[p] EXCEPT !.call = "update", !.seen = writer[k]] \in Process
      BY <3>1
    <3> QED
      BY <2>4, <3>2 DEF EnsureGet, Exists
  <2>5. ASSUME NEW k \in Updated, EnsureUpdate(p, k) PROVE TypeOK'
    <3>1. proc' \in [Processes -> Process]
      BY <2>5, MovedIs DEF EnsureUpdate, Calling, At
    <3> QED
      BY <2>5, <3>1 DEF EnsureUpdate, Notes, Exists
  <2> QED
    BY <1>2, <2>1, <2>2, <2>3, <2>4, <2>5, EnsureIs
<1>3. ASSUME NEW p \in Processes, Replace(p) PROVE TypeOK'
  <2>1. CASE PodCreate(p)
    BY <2>1, MovedIs DEF PodCreate, Calling, At, Exists
  <2>2. CASE PodExists(p)
    BY <2>2, CalledIs DEF PodExists, Exists
  <2>3. CASE PodDelete(p)
    BY <2>3, CalledIs DEF PodDelete, Exists
  <2>4. CASE PodAwait(p)
    BY <2>4, CalledIs DEF PodAwait, Exists
  <2>5. CASE PodRecreate(p)
    BY <2>5, MovedIs DEF PodRecreate, Calling, At, Exists
  <2> QED
    BY <1>3, <2>1, <2>2, <2>3, <2>4, <2>5 DEF Replace
<1>4. ASSUME NEW p \in Processes, Waits(p) \/ WaitForForgejo(p) PROVE TypeOK'
  BY <1>4, MovedIs DEF Waits, WaitForProxyReady, ProxyReady, WaitForPodReady,
                       InContainer,
                       WaitForForgejo, At, Exists
<1>5. ASSUME NEW p \in Processes, Leaves(p) \/ Fails(p) PROVE TypeOK'
  <2>1. proc[p] \in Process
    OBVIOUS
  <2>2. /\ [proc[p] EXCEPT !.step = "left"] \in Process
        /\ [proc[p] EXCEPT !.failed = TRUE] \in Process
    BY <2>1
  <2>3. proc' \in [Processes -> Process]
    <3>1. CASE Leaves(p)
      BY <2>2, <3>1 DEF Leaves
    <3>2. CASE Fails(p)
      BY <2>2, <3>2 DEF Fails
    <3> QED
      BY <1>5, <3>1, <3>2
  <2> QED
    BY <1>5, <2>3 DEF Leaves, Fails, Exists
<1>6. CASE PodGone
  BY <1>6 DEF PodGone, Exists
<1>7. CASE ProxyRolls
  BY <1>7, ContentIsAgent DEF ProxyRolls, Exists
<1>8. CASE ProxyLost
  BY <1>8 DEF ProxyLost, Exists
<1>9. CASE UNCHANGED vars
  BY <1>9 DEF vars, Exists
<1> QED
  BY <1>1, <1>2, <1>3, <1>4, <1>5, <1>6, <1>7, <1>8, <1>9 DEF Next

\* All variables keep their types, and only a pod that is there is being deleted
\* (cluster/kube.go replacePod).
THEOREM TypeCorrect == Spec => []TypeOK
<1>1. Init => TypeOK
  BY TypeInit
<1>2. TypeOK /\ [Next]_vars => TypeOK'
  BY TypeNext
<1> QED
  BY <1>1, <1>2, PTL DEF Spec

-----------------------------------------------------------------------------
(* A command past a step that ensures an object has the object, and nothing is  *)
(* taken away again but the pod.                                                *)

PastConfig == Steps \ {"idle", "namespace", "config"}
PastService == PastConfig \ {"service"}
PastDeployment == PastService \ {"deployment"}
PastPolicy == {"check_proxy", "ready", "inside", "left"}

Ensured(p) ==
  /\ proc[p].step \in PastConfig => Exists("config")
  /\ proc[p].step \in PastService => "service" \in present
  /\ proc[p].step \in PastDeployment => Exists("deployment")
  /\ proc[p].step \in PastPolicy => "policy" \in present

EnsuredInv == \A p \in Processes : Ensured(p)

\* Objects stay.
LEMMA ObjectsStay ==
  ASSUME TypeOK, Next
  PROVE  /\ present \subseteq present'
         /\ Exists("config") => Exists("config")'
         /\ Exists("deployment") => Exists("deployment")'
<1>1. ASSUME NEW p \in Processes, Ensure(p)
      PROVE  /\ present \subseteq present'
             /\ Exists("config") => Exists("config")'
             /\ Exists("deployment") => Exists("deployment")'
  <2>1. \/ \E k \in Plain : EnsurePlain(p, k)
        \/ \E k \in Updated : EnsureCreate(p, k) \/ EnsureFinds(p, k)
                             \/ EnsureGet(p, k) \/ EnsureUpdate(p, k)
    BY <1>1, EnsureIs
  <2> QED
    BY <2>1, SandboxAssumption
    DEF TypeOK, Processes, Exists, EnsurePlain, EnsureCreate, EnsureFinds, EnsureGet,
        EnsureUpdate
<1>2. ASSUME NEW p \in Processes,
             Begins(p) \/ Replace(p) \/ Waits(p) \/ WaitForForgejo(p) \/ Leaves(p)
             \/ Fails(p)
      PROVE  /\ present' = present
             /\ writer'["config"] = writer["config"]
             /\ writer'["deployment"] = writer["deployment"]
  BY <1>2
  DEF TypeOK, Begins, StartBegins, AttachBegins, Replace, PodCreate, PodExists,
      PodDelete, PodAwait, PodRecreate, Waits, WaitForProxyReady, ProxyReady,
      WaitForPodReady, InContainer,
      WaitForForgejo, Leaves, Fails
<1>3. ASSUME PodGone \/ ProxyRolls \/ ProxyLost
      PROVE  /\ present' = present
             /\ writer'["config"] = writer["config"]
             /\ writer'["deployment"] = writer["deployment"]
  BY <1>3 DEF TypeOK, PodGone, ProxyRolls, ProxyLost
<1> QED
  BY <1>1, <1>2, <1>3 DEF Next, Exists

\* A command that stays where it is keeps what it relies on.
LEMMA EnsuredStays ==
  ASSUME TypeOK, Next, NEW q \in Processes, Ensured(q),
         proc'[q].step = proc[q].step
  PROVE  Ensured(q)'
BY ObjectsStay DEF Ensured

LEMMA EnsuredNext ==
  ASSUME TypeOK, EnsuredInv, [Next]_vars
  PROVE  EnsuredInv'
<1> USE DEF Ensured, PastConfig, PastService, PastDeployment, PastPolicy
<1>1. CASE UNCHANGED vars
  BY <1>1 DEF vars, EnsuredInv, Exists
<1> SUFFICES ASSUME Next, NEW q \in Processes PROVE Ensured(q)'
  BY <1>1 DEF EnsuredInv
<1>2. Ensured(q)
  BY DEF EnsuredInv
<1>3. ASSUME proc'[q].step = proc[q].step PROVE Ensured(q)'
  BY <1>2, <1>3, EnsuredStays
<1>4. ASSUME NEW p \in Processes, Begins(p) PROVE Ensured(q)'
  <2>1. CASE p # q
    BY <1>3, <1>4, <2>1 DEF Begins, StartBegins, AttachBegins, TypeOK
  <2>2. CASE p = q /\ StartBegins(p)
    BY <2>2 DEF StartBegins, TypeOK
  <2>3. CASE p = q /\ AttachBegins(p)
    <3>1. PICK s \in Starts : proc[s].step \in {"ready", "inside", "left"}
      BY <2>3 DEF AttachBegins
    <3>2. Ensured(s)
      BY DEF EnsuredInv, Processes
    <3>3. proc'[q].step = "launch"
      BY <2>3 DEF AttachBegins, TypeOK
    <3> QED
      BY <3>1, <3>2, <3>3, ObjectsStay
  <2> QED
    BY <1>4, <2>1, <2>2, <2>3 DEF Begins
<1>5. ASSUME NEW p \in Processes, Ensure(p) PROVE Ensured(q)'
  <2>1. ASSUME NEW k \in Plain, EnsurePlain(p, k) PROVE Ensured(q)'
    <3>1. CASE p = q
      <4>1. proc'[q].step = After[k] /\ k \in present'
        BY <2>1, <3>1, MovedIs DEF EnsurePlain, At, TypeOK
      <4> QED
        BY <1>2, <2>1, <3>1, <4>1, AfterIs, ObjectsStay DEF EnsurePlain, At
    <3>2. CASE p # q
      BY <1>3, <2>1, <3>2, MovedIs DEF EnsurePlain, At, TypeOK
    <3> QED
      BY <3>1, <3>2
  <2>2. ASSUME NEW k \in Updated, EnsureCreate(p, k) \/ EnsureUpdate(p, k)
        PROVE  Ensured(q)'
    <3>1. CASE p = q
      <4>1. proc[q].step = k /\ proc'[q].step = After[k]
        BY <2>2, <3>1, MovedIs DEF EnsureCreate, EnsureUpdate, Calling, At, TypeOK
      <4>2. Exists(k)'
        BY <2>2, SandboxAssumption
        DEF EnsureCreate, EnsureUpdate, TypeOK, Exists, Content, Processes
      <4> QED
        BY <1>2, <4>1, <4>2, AfterIs, ObjectsStay
    <3>2. CASE p # q
      BY <1>3, <2>2, <3>2, MovedIs DEF EnsureCreate, EnsureUpdate, Calling, At, TypeOK
    <3> QED
      BY <3>1, <3>2
  <2>3. ASSUME NEW k \in Updated, EnsureFinds(p, k) \/ EnsureGet(p, k)
        PROVE  Ensured(q)'
    BY <1>3, <2>3, CalledIs DEF EnsureFinds, EnsureGet, TypeOK
  <2> QED
    BY <1>5, <2>1, <2>2, <2>3, EnsureIs
<1>6. ASSUME NEW p \in Processes, Replace(p) PROVE Ensured(q)'
  <2>1. CASE PodCreate(p) \/ PodRecreate(p)
    <3>1. CASE p = q
      <4>1. proc[q].step = "pod" /\ proc'[q].step = "secret"
        BY <2>1, <3>1, MovedIs, AfterIs DEF PodCreate, PodRecreate, Calling, At,
                                            TypeOK
      <4> QED
        BY <1>2, <4>1, ObjectsStay
    <3>2. CASE p # q
      BY <1>3, <2>1, <3>2, MovedIs DEF PodCreate, PodRecreate, Calling, At, TypeOK
    <3> QED
      BY <3>1, <3>2
  <2>2. CASE PodExists(p) \/ PodDelete(p) \/ PodAwait(p)
    BY <1>3, <2>2, CalledIs DEF PodExists, PodDelete, PodAwait, TypeOK
  <2> QED
    BY <1>6, <2>1, <2>2 DEF Replace
<1>7. ASSUME NEW p \in Processes, Waits(p) \/ WaitForForgejo(p) PROVE Ensured(q)'
  <2>1. /\ proc[p].step \in {"await_proxy", "check_proxy", "launch",
                             "preflight_runtime", "ready", "await_forgejo"}
        /\ proc' = Moved(p)
    BY <1>7 DEF Waits, WaitForProxyReady, ProxyReady, WaitForPodReady, InContainer,
                WaitForForgejo, At
  <2>2. CASE p = q
    BY <1>2, <2>1, <2>2, MovedIs, AfterIs, ObjectsStay DEF TypeOK
  <2>3. CASE p # q
    BY <1>3, <2>1, <2>3, MovedIs DEF TypeOK
  <2> QED
    BY <2>2, <2>3
<1>8. ASSUME NEW p \in Processes, Leaves(p) PROVE Ensured(q)'
  <2>1. CASE p = q
    <3>1. proc[q].step \in {"inside", "ready"} /\ proc'[q].step = "left"
      BY <1>8, <2>1 DEF Leaves, At, TypeOK
    <3> QED
      BY <1>2, <3>1, ObjectsStay
  <2>2. CASE p # q
    BY <1>3, <1>8, <2>2 DEF Leaves, TypeOK
  <2> QED
    BY <2>1, <2>2
<1>9. ASSUME NEW p \in Processes, Fails(p) PROVE Ensured(q)'
  BY <1>3, <1>9 DEF Fails, TypeOK
<1>10. CASE PodGone \/ ProxyRolls \/ ProxyLost
  BY <1>3, <1>10 DEF PodGone, ProxyRolls, ProxyLost
<1> QED
  BY <1>4, <1>5, <1>6, <1>7, <1>8, <1>9, <1>10 DEF Next

\* Nobody is in an agent whose traffic is not sent through the proxy: in both
\* commands EnsureProxyPolicy comes before AttachAgent, and no command removes what
\* another relies on (cmd/root_flow.go validateProxyPolicy, cluster/proxy.go).
THEOREM ConfinedInsideHolds == Spec => []ConfinedInside
<1>1. Init => EnsuredInv
  BY DEF Init, EnsuredInv, Ensured, PastConfig, PastService, PastDeployment,
         PastPolicy
<1>2. TypeOK /\ EnsuredInv /\ [Next]_vars => EnsuredInv'
  BY EnsuredNext
<1>3. TypeOK /\ EnsuredInv => ConfinedInside
  BY DEF TypeOK, EnsuredInv, Ensured, ConfinedInside, At, PastConfig, PastService,
         PastDeployment, PastPolicy
<1> QED
  BY <1>1, <1>2, <1>3, TypeCorrect, PTL DEF Spec

-----------------------------------------------------------------------------
(* The pod. *)

\* Nobody gets past the pod without having created it, and who has deleted it stays
\* where it is until it has created it.
LEMMA PodStepsOnly ==
  ASSUME TypeOK, Next, NEW q \in Processes,
         \A p \in Processes : ~PodCreate(p) /\ ~PodRecreate(p)
  PROVE  /\ q \in Starts /\ HasPod(q)' => HasPod(q)
         /\ Replacing(q) => Replacing(q)'
<1> USE DEF HasPod, Replacing
<1>0. ASSUME proc'[q] = proc[q]
      PROVE  /\ q \in Starts /\ HasPod(q)' => HasPod(q)
             /\ Replacing(q) => Replacing(q)'
  BY <1>0
<1>1. ASSUME NEW p \in Processes, Begins(p)
      PROVE  /\ q \in Starts /\ HasPod(q)' => HasPod(q)
             /\ Replacing(q) => Replacing(q)'
  BY <1>1, SandboxAssumption
  DEF Begins, StartBegins, AttachBegins, At, TypeOK, Processes
<1>2. ASSUME NEW p \in Processes, Ensure(p)
      PROVE  /\ q \in Starts /\ HasPod(q)' => HasPod(q)
             /\ Replacing(q) => Replacing(q)'
  <2>1. ASSUME NEW k \in Plain \union Updated, proc[p].step = k, proc' = Moved(p)
        PROVE  /\ q \in Starts /\ HasPod(q)' => HasPod(q)
               /\ Replacing(q) => Replacing(q)'
    BY <1>0, <2>1, MovedIs, AfterIs DEF TypeOK
  <2>2. ASSUME NEW k \in Updated, EnsureFinds(p, k) \/ EnsureGet(p, k)
        PROVE  /\ q \in Starts /\ HasPod(q)' => HasPod(q)
               /\ Replacing(q) => Replacing(q)'
    BY <2>2, CalledIs DEF EnsureFinds, EnsureGet, Calling, At, TypeOK
  <2> QED
    BY <1>2, <2>1, <2>2, EnsureIs
    DEF EnsurePlain, EnsureCreate, EnsureUpdate, Calling, At
<1>3. ASSUME NEW p \in Processes, PodExists(p) \/ PodDelete(p) \/ PodAwait(p)
      PROVE  /\ q \in Starts /\ HasPod(q)' => HasPod(q)
             /\ Replacing(q) => Replacing(q)'
  BY <1>3, CalledIs DEF PodExists, PodDelete, PodAwait, Calling, At, TypeOK
<1>4. ASSUME NEW p \in Processes, Waits(p) \/ WaitForForgejo(p)
      PROVE  /\ q \in Starts /\ HasPod(q)' => HasPod(q)
             /\ Replacing(q) => Replacing(q)'
  <2>1. /\ proc[p].step \in {"await_proxy", "check_proxy", "launch",
                             "preflight_runtime", "ready", "await_forgejo"}
        /\ proc' = Moved(p)
    BY <1>4 DEF Waits, WaitForProxyReady, ProxyReady, WaitForPodReady, InContainer,
                WaitForForgejo, At
  <2> QED
    BY <1>0, <2>1, MovedIs, AfterIs DEF TypeOK
<1>5. ASSUME NEW p \in Processes, Leaves(p) \/ Fails(p)
      PROVE  /\ q \in Starts /\ HasPod(q)' => HasPod(q)
             /\ Replacing(q) => Replacing(q)'
  BY <1>5 DEF Leaves, Fails, At, TypeOK
<1>6. CASE PodGone \/ ProxyRolls \/ ProxyLost
  BY <1>0, <1>6 DEF PodGone, ProxyRolls, ProxyLost
<1> QED
  BY <1>1, <1>2, <1>3, <1>4, <1>5, <1>6 DEF Next, Replace

LEMMA PodSurvivesNext ==
  ASSUME TypeOK, PodSurvives, [Next]_vars
  PROVE  PodSurvives'
<1>1. CASE UNCHANGED vars
  BY <1>1 DEF vars, PodSurvives, HasPod, Replacing, Exists
<1> SUFFICES ASSUME Next, NEW s \in Starts, HasPod(s)',
                    \A p \in Processes : ~Replacing(p)'
             PROVE  Exists("pod")' /\ ~terminating'
  BY <1>1 DEF PodSurvives
<1>2. ASSUME NEW p \in Processes, PodCreate(p) \/ PodRecreate(p)
      PROVE  Exists("pod")' /\ ~terminating'
  BY <1>2, SandboxAssumption DEF PodCreate, PodRecreate, TypeOK, Exists, Processes
<1>3. ASSUME \A p \in Processes : ~PodCreate(p) /\ ~PodRecreate(p)
      PROVE  Exists("pod")' /\ ~terminating'
  <2>1. Exists("pod") /\ ~terminating
    BY <1>3, PodStepsOnly DEF PodSurvives, Processes
  <2>2. ASSUME NEW p \in Processes, PodDelete(p) PROVE FALSE
    <3>1. Replacing(p)'
      BY <2>2, CalledIs DEF PodDelete, Calling, At, Replacing, TypeOK
    <3> QED
      BY <3>1
  <2>3. ASSUME NEW p \in Processes, Ensure(p)
        PROVE  writer'["pod"] = writer["pod"] /\ terminating' = terminating
    BY <2>3, EnsureIs DEF EnsurePlain, EnsureCreate, EnsureFinds, EnsureGet,
                EnsureUpdate, TypeOK
  <2>4. ASSUME NEW p \in Processes,
               Begins(p) \/ PodExists(p) \/ PodAwait(p) \/ Waits(p)
               \/ WaitForForgejo(p) \/ Leaves(p) \/ Fails(p)
        PROVE  writer'["pod"] = writer["pod"] /\ terminating' = terminating
    BY <2>4 DEF Begins, StartBegins, AttachBegins, PodExists, PodAwait, Waits,
                WaitForProxyReady, ProxyReady, WaitForPodReady, InContainer,
                WaitForForgejo, Leaves, Fails
  <2>5. ASSUME PodGone \/ ProxyRolls \/ ProxyLost
        PROVE  writer'["pod"] = writer["pod"] /\ terminating' = terminating
    BY <2>1, <2>5 DEF PodGone, ProxyRolls, ProxyLost
  <2> QED
    BY <1>3, <2>1, <2>2, <2>3, <2>4, <2>5 DEF Next, Replace, Exists
<1> QED
  BY <1>2, <1>3

\* Once a start has got its pod there is one, unless some command is between the
\* deletion and the creation of replacePod, or was when it failed (cluster/kube.go).
THEOREM PodSurvivesHolds == Spec => []PodSurvives
<1>1. Init => PodSurvives
  BY DEF Init, PodSurvives, HasPod, Processes
<1>2. TypeOK /\ PodSurvives /\ [Next]_vars => PodSurvives'
  BY PodSurvivesNext
<1> QED
  BY <1>1, <1>2, TypeCorrect, PTL DEF Spec

-----------------------------------------------------------------------------
(* The replacement of the pod, as PodReplacement has it. *)

\* The steps an attach does not have (cmd/root_flow.go): nothing is created by it
\* but the policy.
StartsOnly ==
  {"namespace", "config", "service", "deployment", "await_proxy", "volumes", "pod",
   "secret", "forgejo", "await_forgejo"}
AttachesSkip == \A p \in Attaches : proc[p].step \notin StartsOnly

LEMMA AttachesSkipNext ==
  ASSUME TypeOK, AttachesSkip, [Next]_vars
  PROVE  AttachesSkip'
<1> USE DEF StartsOnly
<1>1. CASE UNCHANGED vars
  BY <1>1 DEF vars, AttachesSkip
<1> SUFFICES ASSUME Next, NEW q \in Attaches PROVE proc'[q].step \notin StartsOnly
  BY <1>1 DEF AttachesSkip
<1>0. q \in Processes /\ q \notin Starts /\ proc[q].step \notin StartsOnly
  BY SandboxAssumption DEF AttachesSkip, Processes
<1>10. ASSUME proc'[q] = proc[q] PROVE proc'[q].step \notin StartsOnly
  BY <1>0, <1>10
<1>2. ASSUME NEW p \in Processes, Begins(p) PROVE proc'[q].step \notin StartsOnly
  BY <1>0, <1>2 DEF Begins, StartBegins, AttachBegins, TypeOK
<1>3. ASSUME NEW p \in Processes, proc' = Moved(p),
             proc[p].step \notin {"idle", "inside", "left"}
      PROVE  proc'[q].step \notin StartsOnly
  BY <1>0, <1>10, <1>3, MovedIs, AfterIs DEF TypeOK
<1>4. ASSUME NEW p \in Processes, NEW c \in Calls, proc' = Called(p, c)
      PROVE  proc'[q].step \notin StartsOnly
  BY <1>0, <1>4, CalledIs DEF TypeOK
<1>5. ASSUME NEW p \in Processes, Ensure(p) PROVE proc'[q].step \notin StartsOnly
  <2>1. ASSUME NEW k \in Updated, EnsureGet(p, k)
        PROVE  proc'[q].step \notin StartsOnly
    BY <1>0, <2>1 DEF EnsureGet, TypeOK
  <2> QED
    BY <1>3, <1>4, <1>5, <2>1, EnsureIs
    DEF EnsurePlain, EnsureCreate, EnsureFinds, EnsureUpdate, Calling, At
<1>6. ASSUME NEW p \in Processes, Replace(p) PROVE proc'[q].step \notin StartsOnly
  BY <1>3, <1>4, <1>6
  DEF Replace, PodCreate, PodExists, PodDelete, PodAwait, PodRecreate, Calling, At
<1>7. ASSUME NEW p \in Processes, Waits(p) \/ WaitForForgejo(p)
      PROVE  proc'[q].step \notin StartsOnly
  BY <1>3, <1>7 DEF Waits, WaitForProxyReady, ProxyReady, WaitForPodReady,
                    InContainer, WaitForForgejo, At
<1>8. ASSUME NEW p \in Processes, Leaves(p) \/ Fails(p)
      PROVE  proc'[q].step \notin StartsOnly
  BY <1>0, <1>8 DEF Leaves, Fails, TypeOK
<1>9. CASE PodGone \/ ProxyRolls \/ ProxyLost
  BY <1>10, <1>9 DEF PodGone, ProxyRolls, ProxyLost
<1> QED
  BY <1>2, <1>5, <1>6, <1>7, <1>8, <1>9 DEF Next

\* The pod of PodReplacement.
ReadyPod == IF terminating THEN None ELSE writer["pod"]

\* A step by which no start comes to a pod, or gives it up, changes nothing there.
LEMMA ReplacementFrame ==
  ASSUME ReadyPod' = ReadyPod,
         \A q \in Starts : /\ HasPod(q)' <=> HasPod(q)
                           /\ Replacing(q)' <=> Replacing(q)
  PROVE  UNCHANGED Replacement!vars
BY DEF Replacement!vars, ReadyPod

\* The steps that are not of replacePod are of that kind.
LEMMA OtherStepsKeepPod ==
  ASSUME TypeOK, Next, \A p \in Processes : ~Replace(p)
  PROVE  UNCHANGED Replacement!vars
<1> USE DEF HasPod, Replacing
<1> DEFINE Same(q) == (HasPod(q)' <=> HasPod(q)) /\ (Replacing(q)' <=> Replacing(q))
<1>0. ASSUME NEW q \in Starts, proc'[q] = proc[q] PROVE Same(q)
  BY <1>0
<1>1. ASSUME NEW q \in Starts, NEW p \in Processes, proc' = Moved(p),
             proc[p].step \notin {"idle", "pod", "inside", "left"}
      PROVE  Same(q)
  <2>1. CASE p = q
    <3>1. proc'[q].step = After[proc[q].step]
      BY <1>1, <2>1, MovedIs DEF TypeOK
    <3>2. proc'[q].call = "create"
      BY <1>1, <2>1 DEF Moved, TypeOK
    <3> QED
      BY <1>1, <2>1, <3>1, <3>2, AfterIs DEF TypeOK
  <2>2. CASE p # q
    BY <1>0, <1>1, <2>2, MovedIs DEF TypeOK, Processes
  <2> QED
    BY <2>1, <2>2
<1>2. ASSUME NEW p \in Processes, Begins(p) PROVE UNCHANGED Replacement!vars
  <2>1. ReadyPod' = ReadyPod
    BY <1>2 DEF Begins, StartBegins, AttachBegins, ReadyPod
  <2>2. ASSUME NEW q \in Starts PROVE Same(q)
    BY <1>2, SandboxAssumption
    DEF Begins, StartBegins, AttachBegins, At, TypeOK, Processes
  <2> HIDE DEF HasPod, Replacing
  <2> QED
    BY <2>1, <2>2, ReplacementFrame
<1>3. ASSUME NEW p \in Processes, Ensure(p) PROVE UNCHANGED Replacement!vars
  <2>1. writer'["pod"] = writer["pod"] /\ terminating' = terminating
    BY <1>3, EnsureIs DEF EnsurePlain, EnsureCreate, EnsureFinds, EnsureGet,
                          EnsureUpdate, TypeOK
  <2>2. ReadyPod' = ReadyPod
    BY <2>1 DEF ReadyPod
  <2>3. ASSUME NEW q \in Starts PROVE Same(q)
    <3>1. ASSUME NEW k \in Updated, EnsureFinds(p, k) \/ EnsureGet(p, k)
          PROVE  Same(q)
      BY <3>1 DEF EnsureFinds, EnsureGet, Called, Calling, At, TypeOK, Processes
    <3>2. ASSUME NEW k \in Plain \union Updated, proc[p].step = k, proc' = Moved(p)
          PROVE  Same(q)
      BY <1>1, <3>2
    <3> HIDE DEF Same
    <3> QED
      BY <1>3, <3>1, <3>2, EnsureIs
      DEF EnsurePlain, EnsureCreate, EnsureUpdate, Calling, At
  <2> HIDE DEF HasPod, Replacing
  <2> QED
    BY <2>2, <2>3, ReplacementFrame
<1>4. ASSUME NEW p \in Processes, Waits(p) \/ WaitForForgejo(p)
      PROVE  UNCHANGED Replacement!vars
  <2>1. /\ proc[p].step \in {"await_proxy", "check_proxy", "launch",
                             "preflight_runtime", "ready", "await_forgejo"}
        /\ proc' = Moved(p)
        /\ ReadyPod' = ReadyPod
    BY <1>4 DEF Waits, WaitForProxyReady, ProxyReady, WaitForPodReady, InContainer,
                WaitForForgejo, At, ReadyPod
  <2>2. ASSUME NEW q \in Starts PROVE Same(q)
    BY <1>1, <2>1
  <2> HIDE DEF HasPod, Replacing
  <2> QED
    BY <2>1, <2>2, ReplacementFrame
<1>5. ASSUME NEW p \in Processes, Leaves(p) \/ Fails(p)
      PROVE  UNCHANGED Replacement!vars
  <2>1. ReadyPod' = ReadyPod
    BY <1>5 DEF Leaves, Fails, ReadyPod
  <2>2. ASSUME NEW q \in Starts PROVE Same(q)
    BY <1>5 DEF Leaves, Fails, At, TypeOK, Processes
  <2> HIDE DEF HasPod, Replacing
  <2> QED
    BY <2>1, <2>2, ReplacementFrame
<1>6. CASE PodGone \/ ProxyRolls \/ ProxyLost
  <2>1. ReadyPod' = ReadyPod /\ proc' = proc
    BY <1>6 DEF PodGone, ProxyRolls, ProxyLost, ReadyPod, TypeOK
  <2> QED
    BY <2>1, ReplacementFrame
<1> QED
  BY <1>2, <1>3, <1>4, <1>5, <1>6 DEF Next

\* Each call of replacePod is a taking, a putting, or nothing.
LEMMA ReplaceStep ==
  ASSUME TypeOK, AttachesSkip, NEW p \in Processes, Replace(p)
  PROVE  Replacement!Next \/ UNCHANGED Replacement!vars
<1> USE DEF HasPod, Replacing
<1>1. p \in Starts /\ proc[p].step = "pod"
  BY DEF AttachesSkip, StartsOnly, Processes, Replace, PodCreate, PodExists,
         PodDelete, PodAwait, PodRecreate, Calling, At
<1>2. CASE PodCreate(p) \/ PodRecreate(p)
  <2>1. ReadyPod = None /\ ReadyPod' = p
    BY <1>2 DEF PodCreate, PodRecreate, TypeOK, Exists, ReadyPod
  <2>2. /\ proc'[p].step = "secret"
        /\ \A q \in Processes \ {p} : proc'[q] = proc[q]
    BY <1>1, <1>2, MovedIs, AfterIs DEF PodCreate, PodRecreate, TypeOK
  <2>3. /\ {q \in Starts : HasPod(q)'} = {q \in Starts : HasPod(q)} \union {p}
        /\ {q \in Starts : Replacing(q)'} = {q \in Starts : Replacing(q)} \ {p}
    BY <1>1, <2>2 DEF Processes
  <2>4. p \notin {q \in Starts : HasPod(q)}
    BY <1>1
  <2>5. Replacement!Put(p)
    BY <2>1, <2>3, <2>4 DEF Replacement!Put, ReadyPod
  <2> QED
    BY <1>1, <2>5 DEF Replacement!Next
<1>3. CASE PodDelete(p)
  <2>1. ReadyPod' = None
    BY <1>3 DEF PodDelete, TypeOK, Exists, ReadyPod
  <2>2. /\ proc'[p].step = "pod" /\ proc'[p].call = "await"
        /\ \A q \in Processes \ {p} : proc'[q] = proc[q]
    BY <1>1, <1>3, CalledIs DEF PodDelete, TypeOK
  <2>3. /\ {q \in Starts : HasPod(q)'} = {q \in Starts : HasPod(q)}
        /\ {q \in Starts : Replacing(q)'} = {q \in Starts : Replacing(q)} \union {p}
    BY <1>1, <2>2 DEF Processes
  <2>4. p \notin {q \in Starts : HasPod(q)}
    BY <1>1
  <2>5. Replacement!Take(p)
    BY <2>1, <2>3, <2>4 DEF Replacement!Take, ReadyPod
  <2> QED
    BY <1>1, <2>5 DEF Replacement!Next
<1>4. CASE PodExists(p) \/ PodAwait(p)
  <2>1. ReadyPod' = ReadyPod
    BY <1>4 DEF PodExists, PodAwait, ReadyPod
  <2>2. \A q \in Starts : /\ HasPod(q)' <=> HasPod(q)
                          /\ Replacing(q)' <=> Replacing(q)
    BY <1>1, <1>4 DEF PodExists, PodAwait, Calling, Called, TypeOK, Processes
  <2> HIDE DEF HasPod, Replacing
  <2> QED
    BY <2>1, <2>2, ReplacementFrame
<1> QED
  BY <1>2, <1>3, <1>4 DEF Replace

\* The pod changes hands by a taking and a putting, each start gets its own once, and
\* none of them is put where another still is (cluster/kube.go replacePod).
THEOREM SandboxImplementsReplacement == Spec => ImplementsReplacement
<1>1. Init => Replacement!Init /\ AttachesSkip
  BY DEF Init, Replacement!Init, AttachesSkip, StartsOnly, Replacing, HasPod, Processes
<1>2. TypeOK /\ AttachesSkip /\ [Next]_vars => AttachesSkip'
  BY AttachesSkipNext
<1>3. TypeOK /\ AttachesSkip /\ [Next]_vars => [Replacement!Next]_(Replacement!vars)
  <2> SUFFICES ASSUME TypeOK, AttachesSkip, [Next]_vars
               PROVE  Replacement!Next \/ UNCHANGED Replacement!vars
    OBVIOUS
  <2>1. CASE Next
    BY <2>1, ReplaceStep, OtherStepsKeepPod
  <2>2. CASE UNCHANGED vars
    BY <2>2 DEF vars, Replacement!vars, Replacing, HasPod
  <2> QED
    BY <2>1, <2>2
<1> QED
  BY <1>1, <1>2, <1>3, TypeCorrect, PTL
  DEF Spec, ImplementsReplacement, Replacement!Spec

\* What PodReplacement promises holds of the cluster: the pod is that of a start which
\* got it, and is there when nobody is between taking and putting (replacePod).
THEOREM SandboxKeepsPod == Spec => []Replacement!PodIsServed
<1>1. Spec => Replacement!Spec
  BY SandboxImplementsReplacement DEF ImplementsReplacement
<1> QED
  BY <1>1, Replacement!PodIsServedHolds, PTL

-----------------------------------------------------------------------------
(* The allowlist.  Coherent is not inductive: what makes a start leave coherent  *)
(* objects behind is that it was alone between its writes, and that the first of *)
(* them, the allowlist, still is its own when it comes to the last.  Those that  *)
(* stopped on the way do not count: the last writer has written all of it anew.  *)

Inside(p, steps) == proc[p].step \in steps
Running(p) == Inside(p, Between) /\ ~proc[p].failed

Clean ==
  /\ \A p \in Processes : Running(p) => p = last
  /\ Exists("config") => last # None
  /\ last # None /\ ~LastIsPast(Between) => Content("config") = proc[last].agent
  /\ LastIsPast(BetweenSums) => Content("config") = Content("deployment")
  /\ LastIsPast(Between) => Content("config") = Content("pod")
  /\ LastIsPast(Between) => ~terminating
  /\ proxy # None => proxy.allowlist = proxy.checksum

CleanInv == ~muddled => Clean

LEMMA ContentStays ==
  ASSUME TypeOK, Next, NEW k \in Written, writer'[k] = writer[k]
  PROVE  Content(k)' = Content(k)
BY AgentsStay DEF TypeOK, Content, Exists

LEMMA ContentWritten ==
  ASSUME TypeOK, Next, NEW k \in Written, NEW p \in Processes, writer'[k] = p
  PROVE  Content(k)' = proc[p].agent
BY AgentsStay, SandboxAssumption DEF TypeOK, Content, Exists, Processes

\* A step that writes nothing, and by which nobody comes or goes.
LEMMA CleanFrame ==
  ASSUME TypeOK, Next, Clean, UNCHANGED <<writer, terminating, proxy, last>>,
         \A q \in Processes : /\ Inside(q, Between)' <=> Inside(q, Between)
                              /\ Inside(q, BetweenSums)' <=> Inside(q, BetweenSums)
                              /\ Running(q)' => Running(q)
  PROVE  Clean'
<1>1. /\ Content("config")' = Content("config")
      /\ Content("deployment")' = Content("deployment")
      /\ Content("pod")' = Content("pod")
  BY ContentStays
<1>2. /\ LastIsPast(Between)' <=> LastIsPast(Between)
      /\ LastIsPast(BetweenSums)' <=> LastIsPast(BetweenSums)
  BY DEF LastIsPast, Inside, TypeOK
<1>3. last # None => proc'[last].agent = proc[last].agent
  BY AgentsStay DEF TypeOK
<1> QED
  BY <1>1, <1>2, <1>3 DEF Clean, Exists

\* The step of one command, seen from the two windows.
LEMMA MovedWindows ==
  ASSUME TypeOK, NEW p \in Processes, proc' = Moved(p), ~proc[p].failed,
         proc[p].step \notin {"idle", "config", "deployment", "pod", "inside", "left"}
  PROVE  \A q \in Processes : /\ Inside(q, Between)' <=> Inside(q, Between)
                              /\ Inside(q, BetweenSums)' <=> Inside(q, BetweenSums)
                              /\ Running(q)' => Running(q)
BY MovedIs, AfterIs DEF TypeOK, Inside, Running

LEMMA CleanNext ==
  ASSUME TypeOK, CleanInv, [Next]_vars
  PROVE  CleanInv'
<1>1. CASE UNCHANGED vars
  BY <1>1 DEF vars, CleanInv, Clean, LastIsPast, Running, Inside, Content, Exists
<1> SUFFICES ASSUME Next, ~muddled' PROVE Clean'
  BY <1>1 DEF CleanInv
<1>2. ASSUME ~muddled PROVE Clean
  BY <1>2 DEF CleanInv
<1>3. ASSUME NEW p \in Processes, Begins(p) PROVE Clean'
  <2>1. Clean /\ UNCHANGED <<writer, terminating, proxy, last>>
    BY <1>2, <1>3 DEF Begins, StartBegins, AttachBegins
  <2>2. \A q \in Processes : /\ Inside(q, Between)' <=> Inside(q, Between)
                             /\ Inside(q, BetweenSums)' <=> Inside(q, BetweenSums)
                             /\ Running(q)' => Running(q)
    BY <1>3 DEF Begins, StartBegins, AttachBegins, At, TypeOK, Inside, Running
  <2> QED
    BY <2>1, <2>2, CleanFrame
<1>4. ASSUME NEW p \in Processes, NEW k \in Plain, EnsurePlain(p, k) PROVE Clean'
  <2>1. Clean /\ UNCHANGED <<writer, terminating, proxy, last>>
    BY <1>2, <1>4 DEF EnsurePlain
  <2> QED
    BY <1>4, <2>1, MovedWindows, CleanFrame DEF EnsurePlain, At
<1>5. ASSUME NEW p \in Processes, NEW k \in Updated,
             EnsureCreate(p, k) \/ EnsureUpdate(p, k)
      PROVE  Clean'
  <2>1. Clean /\ UNCHANGED <<terminating, proxy>> /\ Notes(p, k)
    BY <1>2, <1>5 DEF EnsureCreate, EnsureUpdate, Notes
  <2>2. Content(k)' = proc[p].agent
    <3>1. CASE writer'[k] = p
      BY <3>1, ContentWritten
    <3>2. CASE writer'[k] = writer[k] /\ Content(k) = proc[p].agent
      BY <3>2, ContentStays
    <3> QED
      BY <1>5, <3>1, <3>2 DEF EnsureCreate, EnsureUpdate, TypeOK
  <2>3. /\ proc[p].step = k /\ ~proc[p].failed /\ proc'[p].step = After[k]
        /\ \A q \in Processes \ {p} : proc'[q] = proc[q]
        /\ \A q \in Processes : proc'[q].agent = proc[q].agent
    BY <1>5, MovedIs DEF EnsureCreate, EnsureUpdate, Calling, At, TypeOK
  <2>4. CASE k = "config"
    <3>1. ~Overlaps(p) /\ last' = p
      BY <2>1, <2>4 DEF Notes
    <3>2. \A q \in Processes : Running(q)' => q = p
      BY <2>3, <3>1 DEF Overlaps, Running, Inside
    <3>3. ~LastIsPast(BetweenSums)' /\ ~LastIsPast(Between)'
      BY <2>3, <2>4, <3>1, AfterIs DEF LastIsPast
    <3>4. p # None
      BY SandboxAssumption DEF Processes
    <3> QED
      BY <2>1, <2>2, <2>3, <2>4, <3>1, <3>2, <3>3, <3>4 DEF Clean
  <2>5. CASE k = "deployment"
    <3>1. p = last /\ last' = last /\ p # None
      BY <2>1, <2>3, <2>5, SandboxAssumption DEF Clean, Running, Inside, Notes, Processes
    <3>2. \A q \in Processes : Running(q)' => q = p
      BY <2>1, <2>3, <3>1 DEF Clean, Running, Inside
    <3>3. ~LastIsPast(Between) /\ ~LastIsPast(Between)'
      BY <2>3, <2>5, <3>1, AfterIs DEF LastIsPast
    <3>4. Content("config")' = proc[p].agent
      <4>1. writer'["config"] = writer["config"]
        BY <1>5, <2>5 DEF EnsureCreate, EnsureUpdate, TypeOK
      <4> QED
        BY <2>1, <3>1, <3>3, <4>1, ContentStays DEF Clean
    <3> QED
      BY <2>1, <2>2, <2>3, <2>5, <3>1, <3>2, <3>3, <3>4 DEF Clean
  <2> QED
    BY <2>4, <2>5
<1>6. ASSUME NEW p \in Processes, NEW k \in Updated, EnsureFinds(p, k) \/ EnsureGet(p, k)
      PROVE  Clean'
  <2>1. Clean /\ UNCHANGED <<writer, terminating, proxy, last>>
    BY <1>2, <1>6 DEF EnsureFinds, EnsureGet
  <2>2. \A q \in Processes : proc'[q].step = proc[q].step /\ proc'[q].failed = proc[q].failed
    BY <1>6 DEF EnsureFinds, EnsureGet, Called, TypeOK
  <2> QED
    BY <2>1, <2>2, CleanFrame DEF Inside, Running
<1>7. ASSUME NEW p \in Processes, PodCreate(p) \/ PodRecreate(p) PROVE Clean'
  <2>1. Clean /\ UNCHANGED <<terminating, proxy, last>> /\ ~terminating
    BY <1>2, <1>7 DEF PodCreate, PodRecreate, TypeOK
  <2>2. /\ proc[p].step = "pod" /\ ~proc[p].failed /\ proc'[p].step = "secret"
        /\ \A q \in Processes \ {p} : proc'[q] = proc[q]
    BY <1>7, MovedIs, AfterIs DEF PodCreate, PodRecreate, Calling, At, TypeOK
  <2>3. p = last /\ p # None
    BY <2>1, <2>2, SandboxAssumption DEF Clean, Running, Inside, Processes
  <2>4. LastIsPast(BetweenSums) /\ ~LastIsPast(Between) /\ LastIsPast(Between)'
    BY <2>1, <2>2, <2>3 DEF LastIsPast
  <2>5. /\ Content("pod")' = proc[p].agent
        /\ Content("config")' = Content("config")
        /\ Content("deployment")' = Content("deployment")
    BY <1>7, ContentWritten, ContentStays DEF PodCreate, PodRecreate, TypeOK
  <2>6. \A q \in Processes : Running(q)' => q = last
    BY <2>1, <2>2, <2>3 DEF Clean, Running, Inside
  <2> QED
    BY <2>1, <2>3, <2>4, <2>5, <2>6 DEF Clean
<1>8. ASSUME NEW p \in Processes, PodExists(p) \/ PodDelete(p) \/ PodAwait(p)
      PROVE  Clean'
  <2>1. Clean /\ UNCHANGED <<writer, proxy, last>>
    BY <1>2, <1>8 DEF PodExists, PodDelete, PodAwait
  <2>2. \A q \in Processes : /\ proc'[q].step = proc[q].step
                             /\ proc'[q].failed = proc[q].failed
                             /\ proc'[q].agent = proc[q].agent
    BY <1>8 DEF PodExists, PodDelete, PodAwait, Called, TypeOK
  <2>3. p = last /\ p # None
    BY <1>8, <2>1, SandboxAssumption
    DEF PodExists, PodDelete, PodAwait, Calling, At, Clean, Running, Inside, Processes
  <2>4. /\ ~LastIsPast(Between) /\ ~LastIsPast(Between)'
        /\ LastIsPast(BetweenSums)' <=> LastIsPast(BetweenSums)
    BY <1>8, <2>1, <2>2, <2>3
    DEF PodExists, PodDelete, PodAwait, Calling, At, LastIsPast
  <2>5. /\ Content("config")' = Content("config")
        /\ Content("deployment")' = Content("deployment")
    BY <2>1, ContentStays
  <2>6. \A q \in Processes : Running(q)' => q = last
    BY <2>1, <2>2 DEF Clean, Running, Inside
  <2> QED
    BY <2>1, <2>2, <2>3, <2>4, <2>5, <2>6 DEF Clean
<1>9. ASSUME NEW p \in Processes, Waits(p) \/ WaitForForgejo(p) PROVE Clean'
  <2>1. Clean /\ UNCHANGED <<writer, terminating, proxy, last>>
    BY <1>2, <1>9 DEF Waits, WaitForProxyReady, ProxyReady, WaitForPodReady,
                      InContainer, WaitForForgejo
  <2>2. /\ proc[p].step \in {"await_proxy", "check_proxy", "launch",
                             "preflight_runtime", "ready", "await_forgejo"}
        /\ ~proc[p].failed
        /\ proc' = Moved(p)
    BY <1>9 DEF Waits, WaitForProxyReady, ProxyReady, WaitForPodReady, InContainer,
                WaitForForgejo, At
  <2> QED
    BY <2>1, <2>2, MovedWindows, CleanFrame
<1>10. ASSUME NEW p \in Processes, Leaves(p) \/ Fails(p) PROVE Clean'
  <2>1. Clean /\ UNCHANGED <<writer, terminating, proxy, last>>
    BY <1>2, <1>10 DEF Leaves, Fails
  <2>2. \A q \in Processes : /\ Inside(q, Between)' <=> Inside(q, Between)
                             /\ Inside(q, BetweenSums)' <=> Inside(q, BetweenSums)
                             /\ Running(q)' => Running(q)
    BY <1>10 DEF Leaves, Fails, At, TypeOK, Inside, Running
  <2> QED
    BY <2>1, <2>2, CleanFrame
<1>11. CASE PodGone
  <2>1. Clean /\ proc' = proc /\ proxy' = proxy /\ last' = last /\ ~terminating'
    BY <1>2, <1>11 DEF PodGone
  <2>2. ~LastIsPast(Between)
    BY <1>11, <2>1 DEF PodGone, Clean
  <2>3. /\ Content("config")' = Content("config")
        /\ Content("deployment")' = Content("deployment")
        /\ Exists("config")' <=> Exists("config")
    BY <1>11, ContentStays DEF PodGone, TypeOK, Exists
  <2> QED
    BY <2>1, <2>2, <2>3 DEF Clean, LastIsPast, Running, Inside
<1>12. CASE ProxyRolls
  <2>1. Clean /\ UNCHANGED <<proc, terminating, last, writer>> /\ LastIsPast(BetweenSums)
    BY <1>2, <1>12 DEF ProxyRolls
  <2>2. proxy'.allowlist = proxy'.checksum
    BY <1>12, <2>1 DEF ProxyRolls, Clean
  <2> QED
    BY <2>1, <2>2 DEF Clean, LastIsPast, Running, Inside, Content, Exists
<1>13. CASE ProxyLost
  <2>1. /\ Clean /\ UNCHANGED <<proc, terminating, last, writer>>
        /\ proxy' = None
    BY <1>2, <1>13 DEF ProxyLost
  <2> QED
    BY <2>1 DEF Clean, LastIsPast, Running, Inside, Content, Exists
<1> QED
  BY <1>3, <1>4, <1>5, <1>6, <1>7, <1>8, <1>9, <1>10, <1>11, <1>12, <1>13,
     EnsureIs
  DEF Next, Replace

\* Allowlist, checksum, replica and pod are of one agent as soon as the last start is
\* past its writes, however many were there before it and wherever they stopped
\* (cluster/proxy.go EnsureProxy, cluster/kube.go EnsureResources).
THEOREM CoherentHolds == Spec => []Coherent
<1>1. Init => CleanInv
  BY DEF Init, CleanInv, Clean, LastIsPast, Running, Inside, Exists
<1>2. TypeOK /\ CleanInv /\ [Next]_vars => CleanInv'
  BY CleanNext
<1>3. CleanInv => Coherent
  BY DEF CleanInv, Clean, Coherent
<1> QED
  BY <1>1, <1>2, <1>3, TypeCorrect, PTL DEF Spec

-----------------------------------------------------------------------------
(* The variant of a command. *)

StepsLeft ==
  [idle |-> 80, namespace |-> 76, config |-> 72, service |-> 68, deployment |-> 64,
   await_proxy |-> 60, volumes |-> 56, pod |-> 52, secret |-> 48, forgejo |-> 44,
   await_forgejo |-> 40, launch |-> 36, preflight_runtime |-> 32, policy |-> 28,
   check_proxy |-> 24, ready |-> 20, inside |-> 16, left |-> 12]
CallsLeft == [create |-> 3, get |-> 2, delete |-> 2, update |-> 1, await |-> 1, recreate |-> 0]

Left(p) ==
  StepsLeft[proc[p].step] + CallsLeft[proc[p].call] + (IF proc[p].failed THEN 0 ELSE 1)

\* No command retries a call or goes back to a step, and none does anything to another:
\* each call of a command brings it nearer to its end, whatever it meets, so it goes on
\* for ever only if it waits (StartWorkflow.Run, EnsureProxy, EnsureResources).
CommandsAdvance ==
  [][\/ PodGone \/ ProxyRolls \/ ProxyLost
     \/ \E p \in Processes : /\ Left(p)' < Left(p) /\ Left(p)' \in Nat
                             /\ \A q \in Processes \ {p} : proc'[q] = proc[q]]_vars

LEMMA MovedAdvances ==
  ASSUME TypeOK, NEW p \in Processes, proc' = Moved(p),
         proc[p].step \notin {"idle", "inside", "left"}
  PROVE  Left(p)' < Left(p) /\ \A q \in Processes \ {p} : proc'[q] = proc[q]
<1>1. proc[p].step \in Steps /\ proc[p].call \in Calls
  BY DEF TypeOK
<1>2. /\ proc'[p].step = After[proc[p].step] /\ proc'[p].call = "create"
      /\ proc'[p].failed = proc[p].failed
  BY DEF Moved, TypeOK
<1>3. StepsLeft[After[proc[p].step]] + 4 <= StepsLeft[proc[p].step]
      /\ StepsLeft[After[proc[p].step]] \in Nat /\ StepsLeft[proc[p].step] \in Nat
  BY <1>1, AfterIs DEF StepsLeft
<1>4. CallsLeft["create"] = 3 /\ CallsLeft[proc[p].call] \in Nat
  BY <1>1 DEF CallsLeft
<1>5. Left(p)' < Left(p)
  BY <1>2, <1>3, <1>4 DEF Left
<1> QED
  BY <1>5, MovedIs DEF TypeOK

LEMMA CalledAdvances ==
  ASSUME TypeOK, NEW p \in Processes, NEW c \in Calls, proc' = Called(p, c),
         CallsLeft[c] < CallsLeft[proc[p].call]
  PROVE  Left(p)' < Left(p) /\ \A q \in Processes \ {p} : proc'[q] = proc[q]
<1>1. proc[p].step \in Steps /\ proc[p].call \in Calls
  BY DEF TypeOK
<1>2. /\ proc'[p].step = proc[p].step /\ proc'[p].call = c
      /\ proc'[p].failed = proc[p].failed
  BY DEF Called, TypeOK
<1>3. /\ StepsLeft[proc[p].step] \in Nat
      /\ CallsLeft[proc[p].call] \in Nat /\ CallsLeft[c] \in Nat
  BY <1>1 DEF StepsLeft, CallsLeft
<1>4. Left(p)' < Left(p)
  BY <1>2, <1>3 DEF Left
<1> QED
  BY <1>4, CalledIs DEF TypeOK

LEMMA StepAdvances ==
  ASSUME TypeOK, NEW p \in Processes,
         Begins(p) \/ Ensure(p) \/ Replace(p) \/ Waits(p) \/ WaitForForgejo(p)
         \/ Leaves(p) \/ Fails(p)
  PROVE  Left(p)' < Left(p) /\ \A q \in Processes \ {p} : proc'[q] = proc[q]
<1>0. /\ CallsLeft["create"] = 3 /\ CallsLeft["get"] = 2 /\ CallsLeft["delete"] = 2
      /\ CallsLeft["update"] = 1 /\ CallsLeft["await"] = 1 /\ CallsLeft["recreate"] = 0
  BY DEF CallsLeft
<1>1. CASE Begins(p) \/ Leaves(p)
  <2>1. /\ \/ proc[p].step = "idle" /\ proc'[p].step \in {"namespace", "launch"}
           \/ proc[p].step \in {"inside", "ready"} /\ proc'[p].step = "left"
        /\ proc'[p].call = proc[p].call /\ proc'[p].failed = proc[p].failed
        /\ \A q \in Processes \ {p} : proc'[q] = proc[q]
    BY <1>1 DEF Begins, StartBegins, AttachBegins, Leaves, At, TypeOK
  <2>2. CallsLeft[proc[p].call] \in Nat
    BY DEF CallsLeft, TypeOK
  <2>3. Left(p)' < Left(p)
    BY <2>1, <2>2 DEF Left, StepsLeft
  <2> QED
    BY <2>1, <2>3
<1>2. CASE Ensure(p)
  <2>1. ASSUME NEW k \in Plain \union Updated, proc[p].step = k, proc' = Moved(p)
        PROVE  Left(p)' < Left(p) /\ \A q \in Processes \ {p} : proc'[q] = proc[q]
    BY <2>1, MovedAdvances
  <2>2. ASSUME NEW k \in Updated, EnsureFinds(p, k)
        PROVE  Left(p)' < Left(p) /\ \A q \in Processes \ {p} : proc'[q] = proc[q]
    BY <1>0, <2>2, CalledAdvances DEF EnsureFinds, Calling
  <2>3. ASSUME NEW k \in Updated, EnsureGet(p, k)
        PROVE  Left(p)' < Left(p) /\ \A q \in Processes \ {p} : proc'[q] = proc[q]
    <3>1. /\ proc[p].call = "get" /\ proc'[p].call = "update"
          /\ proc'[p].step = proc[p].step /\ proc'[p].failed = proc[p].failed
          /\ \A q \in Processes \ {p} : proc'[q] = proc[q]
      BY <2>3 DEF EnsureGet, Calling, TypeOK
    <3>2. StepsLeft[proc[p].step] \in Nat
      BY DEF StepsLeft, TypeOK
    <3>3. Left(p)' < Left(p)
      BY <1>0, <3>1, <3>2 DEF Left
    <3> QED
      BY <3>1, <3>3
  <2> QED
    BY <1>2, <2>1, <2>2, <2>3, EnsureIs
    DEF EnsurePlain, EnsureCreate, EnsureUpdate, Calling, At
<1>3. CASE PodCreate(p) \/ PodRecreate(p)
  BY <1>3, MovedAdvances DEF PodCreate, PodRecreate, Calling, At
<1>4. CASE PodExists(p) \/ PodDelete(p) \/ PodAwait(p)
  BY <1>0, <1>4, CalledAdvances DEF PodExists, PodDelete, PodAwait, Calling
<1>5. CASE Waits(p) \/ WaitForForgejo(p)
  BY <1>5, MovedAdvances DEF Waits, WaitForProxyReady, ProxyReady, WaitForPodReady,
                             InContainer, WaitForForgejo, At
<1>6. CASE Fails(p)
  <2>1. /\ proc'[p].step = proc[p].step /\ proc'[p].call = proc[p].call
        /\ ~proc[p].failed /\ proc'[p].failed
        /\ \A q \in Processes \ {p} : proc'[q] = proc[q]
    BY <1>6 DEF Fails, TypeOK
  <2>2. StepsLeft[proc[p].step] \in Nat /\ CallsLeft[proc[p].call] \in Nat
    BY DEF StepsLeft, CallsLeft, TypeOK
  <2>3. Left(p)' < Left(p)
    BY <2>1, <2>2 DEF Left
  <2> QED
    BY <2>1, <2>3
<1> QED
  BY <1>1, <1>2, <1>3, <1>4, <1>5, <1>6 DEF Replace

\* Each of the commands has at most Left(p) steps left, however many run and whatever
\* Kubernetes does (cmd/root_flow.go, cluster/kube.go, cluster/proxy.go).
THEOREM CommandsAdvanceHolds == Spec => CommandsAdvance
<1> DEFINE Step ==
      \/ PodGone \/ ProxyRolls \/ ProxyLost
      \/ \E p \in Processes : /\ Left(p)' < Left(p) /\ Left(p)' \in Nat
                              /\ \A q \in Processes \ {p} : proc'[q] = proc[q]
<1>1. TypeOK /\ TypeOK' /\ [Next]_vars => [Step]_vars
  <2> SUFFICES ASSUME TypeOK, TypeOK', Next PROVE Step
    OBVIOUS
  <2>1. ASSUME NEW p \in Processes,
               Begins(p) \/ Ensure(p) \/ Replace(p) \/ Waits(p) \/ WaitForForgejo(p)
               \/ Leaves(p) \/ Fails(p)
        PROVE  Step
    <3>1. Left(p)' \in Nat
      <4>1. proc'[p].step \in Steps /\ proc'[p].call \in Calls
        BY DEF TypeOK
      <4>2. StepsLeft[proc'[p].step] \in Nat /\ CallsLeft[proc'[p].call] \in Nat
        BY <4>1 DEF StepsLeft, CallsLeft
      <4> QED
        BY <4>2 DEF Left
    <3> QED
      BY <2>1, <3>1, StepAdvances
  <2> QED
    BY <2>1 DEF Next
<1> QED
  BY <1>1, TypeCorrect, PTL DEF Spec, CommandsAdvance

=============================================================================
