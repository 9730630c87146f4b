-------------------------- MODULE ReviewTransport --------------------------
(***************************************************************************)
(* The commands that reach Forgejo through a port forward: kagen open,     *)
(* which keeps it up until the user interrupts, the fetch of kagen pull,   *)
(* and the import of kagen start, which opens a forward for every attempt. *)
(* One command runs; it owns the forward of PortForward.                   *)
(*                                                                         *)
(* Left out: what is asked over the transport, with the polls and retries  *)
(* inside of one request (waitForAPI, pushRepo, ensureAdminUser); SIGTERM  *)
(* and a second interrupt.                                                 *)
(***************************************************************************)
EXTENDS PortForward

CONSTANTS
  Uses,        \* of the transport: a subset of {"open", "fetch", "import"}
  MaxAttempts  \* attempts of an import, 5 in the program

ASSUME UsesAssumption ==
  Uses \subseteq {"open", "fetch", "import"} /\ MaxAttempts \in Nat \ {0}

VARIABLES
  use,        \* what the command is
  step,       \* where it is
  attempt,    \* attempts it has begun
  outcome,    \* what it will return, or "again": this attempt failed
  handler,    \* signal.NotifyContext of waitForReviewInterrupt
  waitErrCh,  \* what the goroutine of kagen open sent
  interrupt   \* history: the user has pressed Ctrl+C

ownerVars == <<use, step, attempt, outcome, handler, waitErrCh, interrupt>>
vars == <<forwardVars, ownerVars>>

-----------------------------------------------------------------------------
TypeOK ==
  /\ ForwardTypeOK
  /\ use \in Uses
  /\ step \in {"idle", "start", "api", "create", "work", "browser", "review",
               "leave", "retry", "ended", "died"}
  /\ attempt \in 0..MaxAttempts
  /\ outcome \in {"none", "ok", "error", "again"}
  /\ handler \in {"none", "pending", "installed"}
  /\ waitErrCh \in {"empty", "nil", "error"}
  /\ interrupt \in BOOLEAN

Init ==
  /\ ForwardInit
  /\ use \in Uses
  /\ step = "idle" /\ attempt = 0 /\ outcome = "none"
  /\ handler = "none" /\ waitErrCh = "empty"
  /\ interrupt = FALSE

\* To the next step of the command, or out of it with the forward still up.
Goes(next) ==
  /\ step' = next
  /\ UNCHANGED <<forwardVars, use, attempt, outcome, handler, waitErrCh, interrupt>>

Leaves(how) ==
  /\ step' = "leave" /\ outcome' = how
  /\ UNCHANGED <<forwardVars, use, attempt, handler, waitErrCh, interrupt>>

\* Mutant: one attempt too many.
FailsOnceMore ==
  /\ IF use = "import" /\ attempt <= MaxAttempts /\ ctx = "live"
     THEN step' = "retry" /\ outcome' = "none"
     ELSE step' = "ended" /\ outcome' = "error"
  /\ UNCHANGED <<forwardVars, use, attempt, handler, waitErrCh, interrupt>>

\* No forward is up.  Only an import tries again, and not after its context was
\* cancelled (sleepContext).
Fails ==
  /\ IF use = "import" /\ attempt < MaxAttempts /\ ctx = "live"
     THEN step' = "retry" /\ outcome' = "none"
     ELSE step' = "ended" /\ outcome' = "error"
  /\ UNCHANGED <<forwardVars, use, attempt, handler, waitErrCh, interrupt>>

-----------------------------------------------------------------------------
(* StartReviewSession, ensureForgejoRepo. *)

\* The credentials may be missing, before anything is started.
Begin ==
  /\ step \in {"idle", "retry"}
  /\ \/ StartCommand /\ step' = "start" /\ attempt' = attempt + 1 /\ UNCHANGED outcome
     \/ /\ step = "idle" /\ step' = "ended" /\ outcome' = "error"
        /\ UNCHANGED <<forwardVars, attempt>>
  /\ UNCHANGED <<use, handler, waitErrCh, interrupt>>

StartReturns ==
  /\ step = "start"
  /\ \/ start = "session" /\ Goes("api")
     \/ start = "failed" /\ Fails

\* Mutant: the forward stays up when the API does not answer.
WaitForAPIAbandons ==
  /\ step = "api"
  /\ \/ kubectl = "running" /\ Goes(IF use = "import" THEN "create" ELSE "work")
     \/ Fails

\* waitForAPI, 30 times at most.
WaitForAPI ==
  /\ step = "api"
  /\ \/ kubectl = "running" /\ Goes(IF use = "import" THEN "create" ELSE "work")
     \/ Leaves("again")

CreateRepo ==
  /\ step = "create"
  /\ \/ kubectl = "running" /\ Goes("work")
     \/ Leaves("again")

-----------------------------------------------------------------------------
(* What the transport is used for. *)

\* pushRepo, FetchURL: git over the forward.
Transfer ==
  /\ step = "work"
  /\ use \in {"import", "fetch"}
  /\ \/ kubectl = "running" /\ Leaves("ok")
     \/ Leaves("error")

\* HasNewCommits of kagen open: an error, nothing to review, or a page to show.
CheckReviewable ==
  /\ step = "work"
  /\ use = "open"
  /\ \/ kubectl = "running" /\ (Leaves("ok") \/ Goes("browser"))
     \/ Leaves("error")

\* Then waitForInterrupt gets a goroutine of its own.
OpenBrowser ==
  /\ step = "browser"
  /\ \/ /\ step' = "review" /\ handler' = "pending"
        /\ UNCHANGED <<forwardVars, use, attempt, outcome, waitErrCh, interrupt>>
     \/ Leaves("error")

HandlerInstalls ==
  /\ handler = "pending"
  /\ handler' = "installed"
  /\ UNCHANGED <<forwardVars, use, step, attempt, outcome, waitErrCh, interrupt>>

\* Mutant: an interrupt is not reported.
HandlerReturnsSilently ==
  /\ handler = "installed"
  /\ interrupt \/ ctx = "cancelled"
  /\ handler' = "none"
  /\ waitErrCh' = IF ctx = "cancelled" THEN "error" ELSE waitErrCh
  /\ UNCHANGED <<forwardVars, use, step, attempt, outcome, interrupt>>

HandlerReturns ==
  /\ handler = "installed"
  /\ interrupt \/ ctx = "cancelled"
  /\ handler' = "none"
  /\ waitErrCh' = IF ctx = "cancelled" THEN "error" ELSE "nil"
  /\ UNCHANGED <<forwardVars, use, step, attempt, outcome, interrupt>>

\* Mutant: only the user ends the review.
ReviewSelectUser ==
  /\ step = "review"
  /\ waitErrCh # "empty" /\ Leaves(IF waitErrCh = "nil" THEN "ok" ELSE "error")

\* The user, or the end of the transport, whichever is seen first.
ReviewSelect ==
  /\ step = "review"
  /\ \/ waitErrCh # "empty" /\ Leaves(IF waitErrCh = "nil" THEN "ok" ELSE "error")
     \/ Done /\ Leaves("error")

-----------------------------------------------------------------------------
(* The end. *)

\* The deferred Stop of the session.
LeaveStops ==
  /\ step = "leave"
  /\ Release
  /\ UNCHANGED ownerVars

LeaveEnds ==
  /\ step = "leave"
  /\ start = "released"
  /\ IF outcome = "again" THEN Fails ELSE Goes("ended")

\* Ctrl+C reaches kagen and the child, which may exit of it.  Without a handler
\* kagen dies, and its goroutines with it.
Interrupt ==
  /\ step \notin {"idle", "ended", "died"}
  /\ ~interrupt
  /\ interrupt' = TRUE
  /\ step' = IF handler = "installed" THEN step ELSE "died"
  /\ UNCHANGED <<forwardVars, use, attempt, outcome, handler, waitErrCh>>

-----------------------------------------------------------------------------
OwnerStep ==
  \/ Begin \/ StartReturns \/ WaitForAPI \/ CreateRepo
  \/ Transfer \/ CheckReviewable \/ OpenBrowser \/ ReviewSelect
  \/ LeaveStops \/ LeaveEnds

HandlerStep == step # "died" /\ (HandlerInstalls \/ HandlerReturns)

Inside ==
  /\ \/ step # "died" /\ (CallStep \/ RunStep \/ ScanStep \/ KubectlPrints)
     \/ KubectlExits
     \/ step \notin {"idle", "ended", "died"} /\ Cancel
  /\ UNCHANGED ownerVars

Next == OwnerStep \/ HandlerStep \/ Inside \/ Interrupt

Spec == Init /\ [][Next]_vars

\* Goroutines run, and a child that was killed dies; a child that was not may
\* never print or exit.  What kagen asks over a transport that is up may take
\* for ever (Transfer, CheckReviewable).
FairSpec ==
  /\ Spec
  /\ WF_vars(step # "died" /\ CallStep /\ UNCHANGED ownerVars)
  /\ WF_vars(step # "died" /\ RunStep /\ UNCHANGED ownerVars)
  /\ WF_vars(step # "died" /\ ScanStep /\ UNCHANGED ownerVars)
  /\ WF_vars(Killed /\ KubectlExits /\ UNCHANGED ownerVars)
  /\ WF_vars(StartReturns \/ WaitForAPI \/ CreateRepo \/ OpenBrowser \/ ReviewSelect
             \/ LeaveStops \/ LeaveEnds)
  /\ WF_vars(HandlerStep)

-----------------------------------------------------------------------------
(* What the commands promise. *)

\* A command that has ended, and an import between two attempts, own no forward:
\* every way out stops it (defer session.Stop, ensureForgejoRepo).
CommandLeavesNothing ==
  step \in {"retry", "ended"} => start \in {"idle"} \union Returned

\* A command knows its forward: it uses one that Start has handed out and nobody has
\* stopped, stops it once, and while kagen open waits, either its goroutine still
\* waits for the user or its answer is there (OpenReview, ensureForgejoRepo).
OwnerKnows ==
  /\ step = "start" => start \in Starting \union {"session", "failed"}
  /\ step \in {"api", "create", "work", "browser", "review"} => start = "session"
  /\ step = "leave" => start \in {"session", "released"} \union Releasing
  /\ step = "review" => handler # "none" \/ waitErrCh # "empty"

\* A review that the user interrupts, or that loses its transport, ends: nobody
\* waits for the other for ever (OpenReview, Stop).
ReviewEnds ==
  step = "review" /\ (interrupt \/ kubectl = "exited") ~> step \in {"ended", "died"}

\* Start does not outlive the child: once kubectl has exited or the context is
\* cancelled, Start returns (its select, and run, which always closes doneCh).
StartReturnsAtLast ==
  step = "start" /\ (kubectl = "exited" \/ ctx = "cancelled") ~> step # "start"

=============================================================================
