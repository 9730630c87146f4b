------------------------------- MODULE Sandbox -------------------------------
(***************************************************************************)
(* The Kubernetes objects of one repository, and the commands that make     *)
(* them: EnsureNamespace, EnsureProxy, EnsureResources, EnsureRepo, the     *)
(* readiness checks, EnsureProxyPolicy and ProxyReady, called in turn by    *)
(* every kagen start and, from the readiness of the pod on, by every kagen  *)
(* attach.  Nothing locks the namespace.  One API call is one action.       *)
(*                                                                          *)
(* An object is the command that wrote what it holds.  Two of them hold     *)
(* data that differ between commands: the allowlist (config) and its        *)
(* checksum (deployment), both a function of the agent.  The pod has the    *)
(* container of one agent.  Left out: a node that evicts the pod, and       *)
(* whoever changes the namespace with other tools.                          *)
(***************************************************************************)

CONSTANTS
  Agents,    \* the agent types
  Starts,    \* the kagen start commands
  Attaches,  \* the kagen attach commands
  None       \* no command, no agent, no proxy

ASSUME SandboxAssumption ==
  /\ Starts \cap Attaches = {}
  /\ None \notin Starts \union Attaches \union Agents

Processes == Starts \union Attaches

VARIABLES
  present,      \* the plain objects that exist
  writer,       \* the command whose write each other object holds
  terminating,  \* the pod has been deleted and is still there
  proxy,        \* the ready proxy replica
  last,         \* the start that wrote the config last
  muddled,      \* two starts have overlapped, or a replica came up too early
  proc          \* the commands

vars == <<present, writer, terminating, proxy, last, muddled, proc>>

-----------------------------------------------------------------------------
(* Objects and steps.  A step that ensures an object has its name. *)

\* The objects every command writes alike: the namespace, the service of the
\* proxy, the claims and files the pod mounts, the secret, the claim, deployment
\* and service of Forgejo, the network policy.
Plain == {"namespace", "service", "volumes", "secret", "forgejo", "policy"}

\* The objects that are updated when they exist, and the one that is replaced.
Updated == {"config", "deployment"}
Written == Updated \union {"pod"}

Steps == Plain \union Written \union
  {"idle", "await_proxy", "await_forgejo", "launch", "preflight_runtime",
   "check_proxy", "ready", "inside", "left"}

\* StartWorkflow.Run and what its steps call; kagen attach begins at launch.
After ==
  [namespace |-> "config", config |-> "service", service |-> "deployment",
   deployment |-> "await_proxy", await_proxy |-> "volumes", volumes |-> "pod",
   pod |-> "secret", secret |-> "forgejo", forgejo |-> "await_forgejo",
   await_forgejo |-> "launch", launch |-> "preflight_runtime",
   preflight_runtime |-> "policy", policy |-> "check_proxy",
   check_proxy |-> "ready", ready |-> "inside"]

\* call: the API call that is next; seen: the write that Get returned.
Calls == {"create", "get", "update", "delete", "await", "recreate"}
Process ==
  [step : Steps, call : Calls, seen : Processes \union {None},
   agent : Agents, failed : BOOLEAN]

Replica == [checksum : Agents, allowlist : Agents]

Exists(k) == writer[k] # None
Content(k) == IF Exists(k) THEN proc[writer[k]].agent ELSE None

TypeOK ==
  /\ present \in SUBSET Plain
  /\ writer \in [Written -> Processes \union {None}]
  /\ terminating \in BOOLEAN /\ (terminating => Exists("pod"))
  /\ proxy \in Replica \union {None}
  /\ last \in Processes \union {None}
  /\ muddled \in BOOLEAN
  /\ proc \in [Processes -> Process]

Init ==
  /\ present = {}
  /\ writer = [k \in Written |-> None]
  /\ terminating = FALSE
  /\ proxy = None
  /\ last = None
  /\ muddled = FALSE
  /\ proc \in [Processes -> [step : {"idle"}, call : {"create"}, seen : {None},
                             agent : Agents, failed : {FALSE}]]

-----------------------------------------------------------------------------
(* How a command moves on. *)

At(p, step) == proc[p].step = step /\ ~proc[p].failed
Calling(p, step, call) == At(p, step) /\ proc[p].call = call

Moved(p) ==
  [proc EXCEPT ![p].step = After[proc[p].step], ![p].call = "create", ![p].seen = None]
Called(p, call) == [proc EXCEPT ![p].call = call]

\* Between the write of the allowlist and that of its checksum, or of the pod.
BetweenSums == {"service", "deployment"}
Between == BetweenSums \union {"await_proxy", "volumes", "pod"}

\* Another command is there and has not stopped.
Overlaps(p) == \E q \in Processes \ {p} : proc[q].step \in Between /\ ~proc[q].failed

\* The start that wrote the config last has come past these steps.
LastIsPast(steps) == last # None /\ proc[last].step \notin steps

\* The history of a write: who wrote the config last, and who else was there.
Notes(p, k) ==
  IF k = "config"
  THEN last' = p /\ muddled' = (muddled \/ Overlaps(p))
  ELSE UNCHANGED <<last, muddled>>

-----------------------------------------------------------------------------
(* Create; when the object is there, Get and Update with the version read. *)

\* Mutant: an error of the API is not returned.
EnsurePlainSwallows(p, k) ==
  /\ At(p, k)
  /\ present' \in {present, present \union {k}}
  /\ proc' = Moved(p)
  /\ UNCHANGED <<writer, terminating, proxy, last, muddled>>

\* A plain object that exists is left alone, or updated with what it holds: the
\* secret, the service and the policy.
EnsurePlain(p, k) ==
  /\ At(p, k)
  /\ present' = present \union {k}
  /\ proc' = Moved(p)
  /\ UNCHANGED <<writer, terminating, proxy, last, muddled>>

EnsureCreate(p, k) ==
  /\ Calling(p, k, "create")
  /\ ~Exists(k)
  /\ writer' = [writer EXCEPT ![k] = p]
  /\ Notes(p, k)
  /\ proc' = Moved(p)
  /\ UNCHANGED <<present, terminating, proxy>>

\* AlreadyExists.
EnsureFinds(p, k) ==
  /\ Calling(p, k, "create")
  /\ Exists(k)
  /\ proc' = Called(p, "get")
  /\ UNCHANGED <<present, writer, terminating, proxy, last, muddled>>

EnsureGet(p, k) ==
  /\ Calling(p, k, "get")
  /\ proc' = [proc EXCEPT ![p].call = "update", ![p].seen = writer[k]]
  /\ UNCHANGED <<present, writer, terminating, proxy, last, muddled>>

\* Mutant: the allowlist of an earlier start is kept.
EnsureUpdateKeeps(p, k) ==
  /\ Calling(p, k, "update")
  /\ proc[p].seen = writer[k]
  /\ writer' = [writer EXCEPT ![k] = IF k = "config" THEN @ ELSE p]
  /\ Notes(p, k)
  /\ proc' = Moved(p)
  /\ UNCHANGED <<present, terminating, proxy>>

\* The API refuses an update of another version; Fails covers that.  An update
\* that changes nothing makes no new version.
EnsureUpdate(p, k) ==
  /\ Calling(p, k, "update")
  /\ proc[p].seen = writer[k]
  /\ writer' = [writer EXCEPT ![k] = IF Content(k) = proc[p].agent THEN @ ELSE p]
  /\ Notes(p, k)
  /\ proc' = Moved(p)
  /\ UNCHANGED <<present, terminating, proxy>>

EnsureNamespace(p) == EnsurePlain(p, "namespace")
EnsureProxyService(p) == EnsurePlain(p, "service")
EnsureVolumes(p) == EnsurePlain(p, "volumes")
EnsureBootstrapSecret(p) == EnsurePlain(p, "secret")
EnsureForgejo(p) == EnsurePlain(p, "forgejo")
EnsureAgentNetworkPolicy(p) == EnsurePlain(p, "policy")

EnsureWritten(p, k) ==
  EnsureCreate(p, k) \/ EnsureFinds(p, k) \/ EnsureGet(p, k) \/ EnsureUpdate(p, k)
EnsureProxyConfig(p) == EnsureWritten(p, "config")
EnsureProxyDeployment(p) == EnsureWritten(p, "deployment")

-----------------------------------------------------------------------------
(* replacePod. *)

PodCreate(p) ==
  /\ Calling(p, "pod", "create")
  /\ ~Exists("pod")
  /\ writer' = [writer EXCEPT !["pod"] = p]
  /\ proc' = Moved(p)
  /\ UNCHANGED <<present, terminating, proxy, last, muddled>>

\* Mutant: the pod of another start is taken over.
PodExistsReuses(p) ==
  /\ Calling(p, "pod", "create")
  /\ Exists("pod") /\ ~terminating
  /\ proc' = Moved(p)
  /\ UNCHANGED <<present, writer, terminating, proxy, last, muddled>>

PodExists(p) ==
  /\ Calling(p, "pod", "create")
  /\ Exists("pod")
  /\ proc' = Called(p, "delete")
  /\ UNCHANGED <<present, writer, terminating, proxy, last, muddled>>

\* NotFound is no error.
PodDelete(p) ==
  /\ Calling(p, "pod", "delete")
  /\ terminating' = Exists("pod")
  /\ proc' = Called(p, "await")
  /\ UNCHANGED <<present, writer, proxy, last, muddled>>

\* Mutant: the replacement waits without a deadline.
PodAwaitForever(p) ==
  /\ Calling(p, "pod", "await")
  /\ ~Exists("pod")
  /\ proc' = Called(p, "recreate")
  /\ UNCHANGED <<present, writer, terminating, proxy, last, muddled>>

\* The pod is not found, or the deadline has passed.
PodAwait(p) ==
  /\ Calling(p, "pod", "await")
  /\ proc' = Called(p, "recreate")
  /\ UNCHANGED <<present, writer, terminating, proxy, last, muddled>>

\* Mutant: a pod that is there is taken for the replacement.
PodRecreateAccepts(p) ==
  /\ Calling(p, "pod", "recreate")
  /\ writer' = [writer EXCEPT !["pod"] = IF Exists("pod") THEN @ ELSE p]
  /\ proc' = Moved(p)
  /\ UNCHANGED <<present, terminating, proxy, last, muddled>>

\* AlreadyExists is an error here; Fails covers it.
PodRecreate(p) ==
  /\ Calling(p, "pod", "recreate")
  /\ ~Exists("pod")
  /\ writer' = [writer EXCEPT !["pod"] = p]
  /\ proc' = Moved(p)
  /\ UNCHANGED <<present, terminating, proxy, last, muddled>>

-----------------------------------------------------------------------------
(* The steps that wait or check. *)

StartBegins(p) ==
  /\ p \in Starts
  /\ At(p, "idle")
  /\ proc' = [proc EXCEPT ![p].step = "namespace"]
  /\ UNCHANGED <<present, writer, terminating, proxy, last, muddled>>

\* There is a ready session with this agent.
AttachBegins(p) ==
  /\ p \in Attaches
  /\ At(p, "idle")
  /\ \E s \in Starts : /\ proc[s].agent = proc[p].agent
                       /\ proc[s].step \in {"ready", "inside", "left"}
  /\ proc' = [proc EXCEPT ![p].step = "launch"]
  /\ UNCHANGED <<present, writer, terminating, proxy, last, muddled>>

\* A ready replica is enough, of whatever revision.
WaitForProxyReady(p) ==
  /\ At(p, "await_proxy")
  /\ proxy # None
  /\ proc' = Moved(p)
  /\ UNCHANGED <<present, writer, terminating, proxy, last, muddled>>

\* ProxyReady, and Validate of the policy that it makes enforced.
ProxyReady(p) ==
  /\ At(p, "check_proxy")
  /\ proxy # None
  /\ proc' = Moved(p)
  /\ UNCHANGED <<present, writer, terminating, proxy, last, muddled>>

\* waitReady, which has no deadline.
WaitForForgejo(p) ==
  /\ At(p, "await_forgejo")
  /\ proc' = Moved(p)
  /\ UNCHANGED <<present, writer, terminating, proxy, last, muddled>>

\* kubectl wait; the pod is ready when its init container has cloned from Forgejo.
WaitForPodReady(p) ==
  /\ At(p, "launch")
  /\ Exists("pod") /\ ~terminating
  /\ {"secret", "forgejo"} \subseteq present
  /\ proc' = Moved(p)
  /\ UNCHANGED <<present, writer, terminating, proxy, last, muddled>>

\* The checks, and later the agent itself, run in the container of the agent.
InContainer(p) ==
  /\ At(p, "preflight_runtime") \/ At(p, "ready")
  /\ Content("pod") = proc[p].agent /\ ~terminating
  /\ proc' = Moved(p)
  /\ UNCHANGED <<present, writer, terminating, proxy, last, muddled>>

\* The user leaves, the container goes, or the start is detached.
Leaves(p) ==
  /\ At(p, "inside") \/ (p \in Starts /\ At(p, "ready"))
  /\ proc' = [proc EXCEPT ![p].step = "left"]
  /\ UNCHANGED <<present, writer, terminating, proxy, last, muddled>>

\* Every call may fail, every wait may end with its deadline, and every command
\* may be killed: it stops where it is.
Fails(p) ==
  /\ ~proc[p].failed
  /\ proc[p].step \notin {"idle", "inside", "left"}
  /\ proc' = [proc EXCEPT ![p].failed = TRUE]
  /\ UNCHANGED <<present, writer, terminating, proxy, last, muddled>>

-----------------------------------------------------------------------------
(* Kubernetes. *)

\* Mutant: the deletion is forgotten one step late.
PodGoneLate ==
  /\ terminating
  /\ writer' = [writer EXCEPT !["pod"] = None]
  /\ UNCHANGED <<present, terminating, proxy, last, muddled, proc>>

PodGone ==
  /\ terminating
  /\ terminating' = FALSE
  /\ writer' = [writer EXCEPT !["pod"] = None]
  /\ UNCHANGED <<present, proxy, last, muddled, proc>>

\* A replica of the current revision has become ready and takes the place of the
\* previous one; tinyproxy has read the allowlist it found.
ProxyRolls ==
  /\ Exists("deployment") /\ Exists("config")
  /\ proxy # None => proxy.checksum # Content("deployment")
  /\ proxy' = [checksum |-> Content("deployment"), allowlist |-> Content("config")]
  /\ muddled' = (muddled \/ ~LastIsPast(BetweenSums))
  /\ UNCHANGED <<present, writer, terminating, last, proc>>

ProxyLost ==
  /\ proxy # None
  /\ proxy' = None
  /\ UNCHANGED <<present, writer, terminating, last, muddled, proc>>

-----------------------------------------------------------------------------
Ensure(p) ==
  \/ EnsureNamespace(p) \/ EnsureProxyConfig(p) \/ EnsureProxyService(p)
  \/ EnsureProxyDeployment(p) \/ EnsureVolumes(p) \/ EnsureBootstrapSecret(p)
  \/ EnsureForgejo(p) \/ EnsureAgentNetworkPolicy(p)
Replace(p) ==
  PodCreate(p) \/ PodExists(p) \/ PodDelete(p) \/ PodAwait(p) \/ PodRecreate(p)
Waits(p) ==
  WaitForProxyReady(p) \/ ProxyReady(p) \/ WaitForPodReady(p) \/ InContainer(p)
Begins(p) == StartBegins(p) \/ AttachBegins(p)

Next ==
  \/ \E p \in Processes : Begins(p) \/ Ensure(p) \/ Replace(p) \/ Waits(p)
                          \/ WaitForForgejo(p) \/ Leaves(p) \/ Fails(p)
  \/ PodGone \/ ProxyRolls \/ ProxyLost

Spec == Init /\ [][Next]_vars

\* The steps that nothing in the code bounds: Forgejo is awaited without a deadline,
\* and so are the commands that kubectl exec runs, and the user.
Unbounded == {"idle", "await_forgejo", "preflight_runtime", "ready", "inside", "left"}

\* Every other step ends: its call is answered, or fails; its wait is over, or its
\* deadline passes.  Nothing is assumed of Kubernetes.
Deadline(p) == Fails(p) /\ ~(proc[p].step = "pod" /\ proc[p].call = "await")
Runs(p) ==
  /\ proc[p].step \notin Unbounded
  /\ Ensure(p) \/ Replace(p) \/ Waits(p) \/ Deadline(p)
FairSpec == Spec /\ \A p \in Processes : WF_vars(Runs(p))

-----------------------------------------------------------------------------
(* Safety. *)

\* A user enters an agent only when its namespace has the proxy, the policy that
\* sends all its traffic there and the allowlist: EnsureProxyPolicy and ProxyReady
\* come before attach_agent in both commands, and no command undoes another's.
ConfinedInside ==
  \A p \in Processes : At(p, "inside") =>
    {"policy", "service"} \subseteq present /\ Exists("deployment") /\ Exists("config")

\* replacePod deletes before it creates.  Once a start has got its pod, there is a
\* pod and nobody has deleted it, unless some start is between the two, or was when
\* it failed; this holds however many of them replace the one pod at once.
HasPod(p) ==
  proc[p].step \notin {"idle", "namespace", "config"} \union Between
Replacing(p) == proc[p].step = "pod" /\ proc[p].call \in {"await", "recreate"}

PodSurvives ==
  (\E p \in Starts : HasPod(p)) /\ (\A p \in Processes : ~Replacing(p))
    => Exists("pod") /\ ~terminating

\* Seen by the starts, the pod changes hands by a taking and a putting, whatever the
\* calls between them meet: a pod that is not gone when the deadline passes, another
\* start that creates or deletes, a start that stops (replacePod).
Replacement == INSTANCE PodReplacement WITH
  Owners <- Starts,
  NoPod <- None,
  pod <- IF terminating THEN None ELSE writer["pod"],
  between <- {p \in Starts : Replacing(p)},
  served <- {p \in Starts : HasPod(p)}

ImplementsReplacement == Replacement!Spec

\* The allowlist, the checksum by which the proxy is rolled out, the allowlist that
\* a replica of this revision has read and the container of the pod are all those
\* of one agent, whoever came before and wherever they stopped.  This holds as soon
\* as the start that wrote the allowlist last is past the other writes, unless two
\* running starts were there at once or a replica came up there: the objects are
\* repaired by the next start, but not a replica that has its checksum already.
Coherent ==
  ~muddled =>
    /\ LastIsPast(BetweenSums) =>
         /\ Content("config") = Content("deployment")
         /\ proxy # None /\ proxy.checksum = Content("deployment")
              => proxy.allowlist = Content("config")
    /\ LastIsPast(Between) => Content("config") = Content("pod")

-----------------------------------------------------------------------------
(* Liveness. *)

\* A command that is busy fails or comes to a step that nothing bounds, whatever
\* becomes of the pod and the proxy and whoever replaces them: those are awaited with
\* a deadline.
StartEnds ==
  \A p \in Processes :
    proc[p].step \notin Unbounded ~> proc[p].failed \/ proc[p].step \in Unbounded

=============================================================================
