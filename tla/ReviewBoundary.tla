--------------------------- MODULE ReviewBoundary ---------------------------
(***************************************************************************)
(* The review boundary of one repository and one branch: the host          *)
(* checkout, the refs kagen keeps in it under refs/remotes/kagen, the two   *)
(* branches of the Forgejo repository inside the cluster, the clone in the *)
(* runtime pod, and the commands that move commits between them: kagen     *)
(* start (pod, import, launch) and kagen pull.                             *)
(*                                                                         *)
(* A ref is the set of the commits reachable from it.  Every commit has    *)
(* one parent and a fresh id, so two refs are the same commit iff their    *)
(* sets are equal, and a fast-forward is set inclusion.  An absent ref is  *)
(* the empty set.  Every git command is one step.                          *)
(*                                                                         *)
(* Left out: other branches; merge commits made by hand; an agent that     *)
(* force-pushes or rebases; a Forgejo volume that is deleted.              *)
(***************************************************************************)
EXTENDS Naturals

CONSTANTS
  Pullers,    \* kagen pull processes on this checkout
  MaxCommit,  \* bound: commits made after the first one
  MaxReset    \* bound: times the user moves the branch back

ASSUME BoundsAssumption == MaxCommit \in Nat /\ MaxReset \in Nat

VARIABLES
  fresh,        \* the id of the next commit
  agentMade,    \* commits made in the workspace by the agent
  \* the host repository
  head,         \* the current branch
  dirty,        \* uncommitted changes in the working tree
  resets,       \* history: times the user moved the branch back
  trackBase,    \* refs/remotes/kagen/<branch>
  trackReview,  \* refs/remotes/kagen/kagen/<branch>
  \* the Forgejo repository
  base,         \* refs/heads/<branch>, the canonical branch
  review,       \* refs/heads/kagen/<branch>, the review branch
  reviewed,     \* history: agent commits that were ever on the review branch
  \* the runtime pod
  pod,          \* "none", "init" (workspace-sync runs) or "running"
  work,         \* the workspace clone
  \* the commands
  start,        \* the step kagen start is at
  pushing,      \* the HEAD that kagen start pushes
  attachable,   \* history: some session became ready
  pull          \* kagen pull: its step, the HEAD it saw first, its WIP commit,
                \* the review branch its fetch saw

hostVars == <<head, dirty, resets, trackBase, trackReview>>
forgeVars == <<base, review, reviewed>>
podVars == <<pod, work>>
startVars == <<start, pushing, attachable>>
vars == <<fresh, agentMade, hostVars, forgeVars, podVars, startVars, pull>>

-----------------------------------------------------------------------------
Absent == {}

StartSteps == {"idle", "import", "pushReview", "launch", "ready"}
PullRunning == {"protect", "fetch", "validate", "merge"}
PullEnded == {"idle", "ok", "noReview", "refused", "diverged", "failed"}

\* The process keeps nothing once it has ended.
Ended(outcome) ==
  [step |-> outcome, localBase |-> Absent, wip |-> {}, fetched |-> Absent]

\* Refs hold commits that were made, and a commit is made once.
Made == 0..(fresh - 1)
PullRecord == [step : PullRunning \union PullEnded, localBase : SUBSET Made,
               wip : SUBSET Made, fetched : SUBSET Made]

TypeOK ==
  /\ fresh \in Nat \ {0}
  /\ agentMade \subseteq Made
  /\ head \subseteq Made /\ dirty \in BOOLEAN /\ resets \in Nat
  /\ trackBase \subseteq Made /\ trackReview \subseteq Made
  /\ base \subseteq Made /\ review \subseteq Made /\ reviewed \subseteq agentMade
  /\ pod \in {"none", "init", "running"} /\ work \subseteq Made
  /\ start \in StartSteps /\ pushing \subseteq Made /\ attachable \in BOOLEAN
  /\ pull \in [Pullers -> PullRecord]

Init ==
  /\ fresh = 1
  /\ agentMade = {}
  /\ head = {0} /\ dirty = FALSE /\ resets = 0
  /\ trackBase = Absent /\ trackReview = Absent
  /\ base = Absent /\ review = Absent
  /\ reviewed = {}
  /\ pod = "none" /\ work = Absent
  /\ start = "idle" /\ pushing = Absent /\ attachable = FALSE
  /\ pull = [p \in Pullers |-> Ended("idle")]

-----------------------------------------------------------------------------
(* The user of the host checkout. *)

UserEdit ==
  /\ ~dirty
  /\ dirty' = TRUE
  /\ UNCHANGED <<fresh, agentMade, head, resets, trackBase, trackReview,
                 forgeVars, podVars, startVars, pull>>

\* Mutant: a commit that does not get an id of its own.
UserCommitSameId ==
  /\ dirty
  /\ fresh <= MaxCommit
  /\ head' = head \union {fresh}
  /\ dirty' \in BOOLEAN
  /\ UNCHANGED <<fresh, agentMade, resets, trackBase, trackReview, forgeVars,
                 podVars, startVars, pull>>

\* Commits all of the changes, or some of them.
UserCommit ==
  /\ dirty
  /\ fresh <= MaxCommit
  /\ fresh' = fresh + 1
  /\ head' = head \union {fresh}
  /\ dirty' \in BOOLEAN
  /\ UNCHANGED <<agentMade, resets, trackBase, trackReview, forgeVars, podVars,
                 startVars, pull>>

\* git reset --hard to an earlier commit of the branch.
UserReset ==
  /\ resets < MaxReset
  /\ resets' = resets + 1
  /\ \E c \in head : head' = {d \in head : d <= c}
  /\ dirty' = FALSE
  /\ UNCHANGED <<fresh, agentMade, trackBase, trackReview, forgeVars,
                 podVars, startVars, pull>>

-----------------------------------------------------------------------------
(* kagen start.  The sandbox resources are reconciled before the import,   *)
(* and an existing pod is replaced: its workspace volume is an emptyDir.   *)

StartResources ==
  /\ start \in {"idle", "ready"}
  /\ start' = "import"
  /\ pod' = "init"
  /\ work' = Absent
  /\ UNCHANGED <<fresh, agentMade, hostVars, forgeVars, pushing,
                 attachable, pull>>

\* One push -f HEAD:<branch> HEAD:kagen/<branch>: git resolves HEAD once and
\* the server updates one ref after the other.
StartPushBase ==
  /\ start = "import"
  /\ start' = "pushReview"
  /\ pushing' = head
  /\ base' = head
  /\ UNCHANGED <<fresh, agentMade, hostVars, review, reviewed,
                 podVars, attachable, pull>>

StartPushReview ==
  /\ start = "pushReview"
  /\ start' = "launch"
  /\ review' = pushing
  /\ reviewed' = reviewed \union (pushing \intersect agentMade)
  /\ UNCHANGED <<fresh, agentMade, hostVars, base, podVars,
                 pushing, attachable, pull>>

\* The push fails after the first ref and is tried again.
StartPushRetry ==
  /\ start = "pushReview"
  /\ start' = "import"
  /\ UNCHANGED <<fresh, agentMade, hostVars, forgeVars, podVars, pushing,
                 attachable, pull>>

\* WaitForPodReady returned; the remaining steps do not touch any ref.
StartLaunch ==
  /\ start = "launch"
  /\ pod = "running"
  /\ start' = "ready"
  /\ attachable' = TRUE
  /\ pushing' = Absent
  /\ UNCHANGED <<fresh, agentMade, hostVars, forgeVars, podVars, pull>>

\* A step fails or the process is killed: nothing is rolled back.
StartFail ==
  /\ start \in {"import", "pushReview", "launch"}
  /\ start' = "idle"
  /\ pushing' = Absent
  /\ UNCHANGED <<fresh, agentMade, hostVars, forgeVars, podVars, attachable,
                 pull>>

-----------------------------------------------------------------------------
(* The pod: the init container clones and checks out the review branch; it *)
(* fails and is restarted as long as that branch does not exist.           *)

WorkspaceSync ==
  /\ pod = "init"
  /\ review # Absent
  /\ pod' = "running"
  /\ work' = review
  /\ UNCHANGED <<fresh, agentMade, hostVars, forgeVars, startVars, pull>>

AgentRuns == pod = "running" /\ attachable

AgentCommit ==
  /\ AgentRuns
  /\ fresh <= MaxCommit
  /\ fresh' = fresh + 1
  /\ agentMade' = agentMade \union {fresh}
  /\ work' = work \union {fresh}
  /\ UNCHANGED <<hostVars, forgeVars, pod, startVars, pull>>

\* git push origin kagen/<branch>: refused unless it is a fast-forward.
AgentPush ==
  /\ AgentRuns
  /\ review \subseteq work
  /\ review # work
  /\ review' = work
  /\ reviewed' = reviewed \union (work \intersect agentMade)
  /\ UNCHANGED <<fresh, agentMade, hostVars, base, podVars,
                 startVars, pull>>

\* git push origin HEAD:<branch>: kagen does not prevent it.
AgentPushBase ==
  /\ AgentRuns
  /\ base \subseteq work
  /\ base # work
  /\ base' = work
  /\ UNCHANGED <<fresh, agentMade, hostVars, review, reviewed, podVars,
                 startVars, pull>>

-----------------------------------------------------------------------------
(* kagen pull. *)

Ends(p, outcome) == pull' = [pull EXCEPT ![p] = Ended(outcome)]
Goes(p, step) == pull' = [pull EXCEPT ![p].step = step]

\* DiscoverRepository: localBaseSHA is the HEAD before any WIP commit.
PullDiscover(p) ==
  /\ pull[p].step \in PullEnded
  /\ pull' = [pull EXCEPT ![p].step = "protect", ![p].localBase = head]
  /\ UNCHANGED <<fresh, agentMade, hostVars, forgeVars, podVars, startVars>>

\* Mutant: the changes are dropped instead of committed.
PullProtectDrops(p) ==
  /\ pull[p].step = "protect"
  /\ dirty' = FALSE
  /\ Goes(p, "fetch")
  /\ UNCHANGED <<fresh, agentMade, head, resets, trackBase, trackReview,
                 forgeVars, podVars, startVars>>

\* A dirty tree becomes a WIP commit; git add -A takes everything.
PullProtect(p) ==
  /\ pull[p].step = "protect"
  /\ \/ /\ dirty
        /\ fresh <= MaxCommit
        /\ fresh' = fresh + 1
        /\ head' = head \union {fresh}
        /\ dirty' = FALSE
        /\ pull' = [pull EXCEPT ![p].step = "fetch", ![p].wip = {fresh}]
     \/ /\ ~dirty
        /\ Goes(p, "fetch")
        /\ UNCHANGED <<fresh, head, dirty>>
  /\ UNCHANGED <<agentMade, resets, trackBase, trackReview, forgeVars, podVars,
                 startVars>>

\* Mutant: a refspec with +.
RejectedNever(track, remote) == FALSE

\* git fetch --prune <url> refs/heads/*:refs/remotes/kagen/* : the refspec has
\* no +, so a ref that would not fast-forward is refused and left as it is.
Rejected(track, remote) == remote # Absent /\ ~(track \subseteq remote)
Fetched(track, remote) == IF Rejected(track, remote) THEN track ELSE remote

\* Mutant: the two branches are fetched into each other's ref.
PullFetchSwapped(p) ==
  /\ pull[p].step = "fetch"
  /\ trackBase' = Fetched(trackBase, review)
  /\ trackReview' = Fetched(trackReview, base)
  /\ pull' = [pull EXCEPT ![p].step = "validate", ![p].fetched = base]
  /\ UNCHANGED <<fresh, agentMade, head, dirty, resets, forgeVars, podVars,
                 startVars>>

PullFetch(p) ==
  /\ pull[p].step = "fetch"
  /\ trackBase' = Fetched(trackBase, base)
  /\ trackReview' = Fetched(trackReview, review)
  /\ IF Rejected(trackBase, base) \/ Rejected(trackReview, review)
     THEN Ends(p, "failed")
     ELSE pull' = [pull EXCEPT ![p].step = "validate", ![p].fetched = review]
  /\ UNCHANGED <<fresh, agentMade, head, dirty, resets, forgeVars, podVars,
                 startVars>>

\* ValidatePullRefs.
PullValidate(p) ==
  /\ pull[p].step = "validate"
  /\ IF trackReview = Absent THEN Ends(p, "noReview")
     ELSE IF trackBase \notin {Absent, trackReview, pull[p].localBase}
     THEN Ends(p, "refused")
     ELSE Goes(p, "merge")
  /\ UNCHANGED <<fresh, agentMade, hostVars, forgeVars, podVars, startVars>>

\* Mutant: the canonical branch is merged, as it is by now.
PullMergeBase(p) ==
  /\ pull[p].step = "merge"
  /\ head' = head \union trackBase
  /\ Ends(p, "ok")
  /\ UNCHANGED <<fresh, agentMade, dirty, resets, trackBase, trackReview,
                 forgeVars, podVars, startVars>>

\* Mutant: the error of the merge is not reported.
PullMergeSwallows(p) ==
  /\ pull[p].step = "merge"
  /\ head' = IF head \subseteq trackReview THEN trackReview ELSE head
  /\ Ends(p, "ok")
  /\ UNCHANGED <<fresh, agentMade, dirty, resets, trackBase, trackReview,
                 forgeVars, podVars, startVars>>

\* git merge --ff-only: succeeds too when there is nothing to do.
PullMerge(p) ==
  /\ pull[p].step = "merge"
  /\ \/ /\ head \subseteq trackReview
        /\ head' = trackReview
        /\ Ends(p, "ok")
     \/ /\ trackReview \subseteq head
        /\ head' = head
        /\ Ends(p, "ok")
     \/ /\ ~(head \subseteq trackReview)
        /\ ~(trackReview \subseteq head)
        /\ head' = head
        /\ Ends(p, "diverged")
  /\ UNCHANGED <<fresh, agentMade, dirty, resets, trackBase, trackReview,
                 forgeVars, podVars, startVars>>

\* git, the runtime or the transport fails, git refuses to overwrite edits made
\* since the WIP commit, or the process is killed.
PullFail(p) ==
  /\ pull[p].step \in PullRunning
  /\ Ends(p, "failed")
  /\ UNCHANGED <<fresh, agentMade, hostVars, forgeVars, podVars, startVars>>

-----------------------------------------------------------------------------
UserNext == UserEdit \/ UserCommit \/ UserReset

StartNext ==
  \/ StartResources \/ StartPushBase \/ StartPushReview
  \/ StartPushRetry \/ StartLaunch \/ StartFail

PodNext == WorkspaceSync \/ AgentCommit \/ AgentPush \/ AgentPushBase

PullNext(p) ==
  \/ PullDiscover(p) \/ PullProtect(p) \/ PullFetch(p)
  \/ PullValidate(p) \/ PullMerge(p) \/ PullFail(p)

Next ==
  \/ UserNext
  \/ StartNext
  \/ PodNext
  \/ \E p \in Pullers : PullNext(p)

Spec == Init /\ [][Next]_vars

-----------------------------------------------------------------------------
(* What the boundary promises. *)

\* The abstract boundary (workflow/pull.go, forgejo/repo.go): kagen moves
\* agent commits to the host branch only out of the review branch.
Gate == INSTANCE ReviewGate WITH
          host <- head, agentWork <- agentMade, reviewed <- reviewed

ImplementsGate == Gate!Spec

\* No agent commit is on the host branch unless it was on the review branch of
\* Forgejo before: neither what was pushed to the canonical branch alone nor
\* what never left the workspace.
OnlyReviewedWork == head \intersect agentMade \subseteq reviewed

\* kagen never takes a commit from the host branch, and uncommitted changes
\* leave the working tree only as a new commit of the host; a hard reset by the
\* user is the only exception.
UserWorkKept ==
  [][UserReset \/ /\ head \subseteq head'
                  /\ dirty /\ ~dirty' =>
                       \E c \in head' \ head : c \notin agentMade]_vars

\* Commits that were once fetched stay reachable from refs/remotes/kagen, even
\* when a later start overwrites the branches of Forgejo.
FetchedWorkKept ==
  [][trackReview \subseteq trackReview' /\ trackBase \subseteq trackBase']_vars

\* A pull that reports success leaves the host branch with every commit its
\* fetch saw on the review branch.
PullDelivers ==
  [][\A p \in Pullers :
       pull[p].step = "merge" /\ pull'[p].step = "ok" =>
         pull[p].fetched \subseteq head']_vars

-----------------------------------------------------------------------------
(* What the documentation says and the code does not do. *)

\* README.md: agent commits accumulate in the in-cluster forge.  A second
\* kagen start force-pushes HEAD over the review branch.
AgentWorkAccumulates ==
  [][review \intersect agentMade \subseteq review' \union base']_vars

\* docs/USAGE.md: kagen pull protects local changes with a temporary commit
\* and fast-forwards or merges.  The WIP commit itself makes the branches
\* diverge, and only a fast-forward is tried.
ProtectedPullMerges ==
  [][\A p \in Pullers :
       /\ pull[p].step = "merge"
       /\ pull[p].localBase \subseteq pull[p].fetched
       /\ head = pull[p].localBase \union pull[p].wip
       => pull'[p].step # "diverged"]_vars

\* The error of ValidatePullRefs: the canonical branch advanced independently
\* of the review branch, an ambiguous state.  It is also the answer to a state
\* in which nothing is ambiguous: the canonical branch still is where start put
\* it, an ancestor of HEAD, and HEAD is an ancestor of the review branch, as
\* after a first pull and more work of the agent.
RefusesOnlyAmbiguity ==
  [][\A p \in Pullers :
       /\ pull[p].step = "validate"
       /\ trackBase \subseteq pull[p].localBase
       /\ pull[p].localBase \subseteq trackReview
       => pull'[p].step # "refused"]_vars

=============================================================================
