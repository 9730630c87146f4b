----------------------- MODULE ReviewTransport_proofs -----------------------
(***************************************************************************)
(* The safety promises of PortForward and ReviewTransport, proved for      *)
(* every number of lines that kubectl prints and of attempts.              *)
(***************************************************************************)
EXTENDS ReviewTransport, Integers, TLAPS

USE DEF Starting, Releasing, Returned, Messages, Streams, Lines

\* Whatever a command does, its forward makes one of these steps or none.
ForwardNext ==
  \/ StartCommand \/ Release
  \/ CallStep \/ RunStep \/ ScanStep
  \/ KubectlPrints \/ KubectlExits \/ Cancel

-----------------------------------------------------------------------------
(* Type correctness. *)

LEMMA ForwardTypeInit == ForwardInit => ForwardTypeOK
<1> SUFFICES ASSUME ForwardInit PROVE ForwardTypeOK
  OBVIOUS
<1>1. printed \in Lines /\ unread \in Lines /\ unread <= printed
  BY LinesAssumption DEF ForwardInit
<1>2. scanner \in [Streams -> {"off", "reading", "ended"}]
  BY DEF ForwardInit
<1> QED
  BY <1>1, <1>2 DEF ForwardInit, ForwardTypeOK

LEMMA ForwardTypeNext == ForwardTypeOK /\ ForwardNext => ForwardTypeOK'
<1> SUFFICES ASSUME ForwardTypeOK, ForwardNext PROVE ForwardTypeOK'
  OBVIOUS
<1> USE DEF ForwardNext, StartCommand, Release, CallStep, StartSelectContext, StartSelectReady,
                StartSelectDone, StartProbe, Stop, StopReturns, RunStep, RunWaits,
                RunJoins, RunRecords, RunAnnounces, RunCloses, ScanStep, ScanLine,
                ScanEnds, KubectlPrints, KubectlExits, Cancel, childVars, channelVars
<1>1. printed' \in Lines /\ unread' \in Lines /\ unread' <= printed'
  <2>1. CASE StartCommand
    BY <2>1, LinesAssumption DEF ForwardTypeOK
  <2>2. CASE KubectlPrints
    BY <2>2, LinesAssumption DEF ForwardTypeOK
  <2>3. CASE ScanLine
    BY <2>3, LinesAssumption DEF ForwardTypeOK
  <2>4. CASE ~(StartCommand \/ KubectlPrints \/ ScanLine)
    BY <2>4 DEF ForwardTypeOK
  <2> QED
    BY <2>1, <2>2, <2>3, <2>4
<1>2. scanner' \in [Streams -> {"off", "reading", "ended"}]
  BY DEF ForwardTypeOK
<1>3. ctx' \in {"live", "cancelled"} /\ kubectl' \in {"none", "running", "exited"}
      /\ result' \in {"nil", "error"}
  BY DEF ForwardTypeOK
<1>4. runner' \in {"off", "wait", "join", "record", "announce", "close", "done"}
      /\ runErr' \in BOOLEAN /\ stopped' \in BOOLEAN
  BY DEF ForwardTypeOK
<1>5. announced' \in BOOLEAN /\ ready' \in Messages /\ localPort' \in BOOLEAN
  BY DEF ForwardTypeOK
<1>6. start' \in {"idle", "session"} \union Starting \union Releasing \union Returned
  BY DEF ForwardTypeOK
<1> QED
  BY <1>1, <1>2, <1>3, <1>4, <1>5, <1>6 DEF ForwardTypeOK

\* A step of a command moves its forward by one step of the forward at most.
LEMMA NextMovesForward == Next => ForwardNext \/ UNCHANGED forwardVars
BY DEF Next, OwnerStep, HandlerStep, Inside, Interrupt, Begin, StartReturns,
       WaitForAPI, CreateRepo, Transfer, CheckReviewable, OpenBrowser,
       ReviewSelect, LeaveStops, LeaveEnds, HandlerInstalls, HandlerReturns,
       Goes, Leaves, Fails, ForwardNext, forwardVars, childVars, channelVars

-----------------------------------------------------------------------------
(* The command.  TypeOK is not inductive: that no attempt begins after the  *)
(* last one rests on the test that Fails makes before it tries again.       *)

AttemptsLeft ==
  /\ step = "idle" => attempt = 0
  /\ step = "retry" => attempt < MaxAttempts

LEMMA CommandTypeInit == Init => TypeOK /\ AttemptsLeft
<1> SUFFICES ASSUME Init PROVE TypeOK /\ AttemptsLeft
  OBVIOUS
<1>1. attempt \in 0..MaxAttempts
  BY UsesAssumption DEF Init
<1>2. ForwardTypeOK
  BY ForwardTypeInit DEF Init
<1> QED
  BY <1>1, <1>2 DEF Init, TypeOK, AttemptsLeft

LEMMA CommandTypeNext == TypeOK /\ AttemptsLeft /\ [Next]_vars => TypeOK' /\ AttemptsLeft'
<1> SUFFICES ASSUME TypeOK, AttemptsLeft, [Next]_vars PROVE TypeOK' /\ AttemptsLeft'
  OBVIOUS
<1>1. CASE UNCHANGED vars
  BY <1>1 DEF TypeOK, AttemptsLeft, ForwardTypeOK, vars, ownerVars, forwardVars,
              childVars, channelVars
<1>2. CASE Next
  <2> USE <1>2 DEF Next, OwnerStep, HandlerStep, Inside, Interrupt, Begin, StartReturns,
             WaitForAPI, CreateRepo, Transfer, CheckReviewable, OpenBrowser,
             ReviewSelect, LeaveStops, LeaveEnds, HandlerInstalls, HandlerReturns,
             Goes, Leaves, Fails
  <2>1. ForwardTypeOK'
    BY NextMovesForward, ForwardTypeNext
    DEF TypeOK, ForwardTypeOK, forwardVars, childVars, channelVars
  <2>2. use' \in Uses /\ interrupt' \in BOOLEAN
    BY DEF TypeOK, ownerVars
  <2>3. attempt' \in 0..MaxAttempts /\ AttemptsLeft'
    <3>1. CASE Begin
      BY <3>1, UsesAssumption DEF TypeOK, AttemptsLeft
    <3>2. CASE ~Begin
      <4>1. step' # "idle" \/ step' = step
        BY <3>2 DEF TypeOK, ownerVars
      <4>2. attempt' = attempt
        BY <3>2 DEF ownerVars
      <4>3. step' = "retry" => step = "retry" \/ attempt < MaxAttempts
        BY <3>2 DEF ownerVars
      <4> QED
        BY <4>1, <4>2, <4>3 DEF TypeOK, AttemptsLeft
    <3> QED
      BY <3>1, <3>2
  <2>4. step' \in {"idle", "start", "api", "create", "work", "browser", "review",
                   "leave", "retry", "ended", "died"}
    BY DEF TypeOK, ownerVars
  <2>5. /\ outcome' \in {"none", "ok", "error", "again"}
        /\ handler' \in {"none", "pending", "installed"}
        /\ waitErrCh' \in {"empty", "nil", "error"}
    BY DEF TypeOK, ownerVars
  <2> QED
    BY <2>1, <2>2, <2>3, <2>4, <2>5 DEF TypeOK
<1> QED
  BY <1>1, <1>2

\* Variables, channels and the sync.Once hold values of their types, and an
\* import begins no more attempts than ensureForgejoRepo allows.
THEOREM TypeCorrect == Spec => []TypeOK
<1>1. TypeOK /\ AttemptsLeft /\ [Next]_vars => (TypeOK /\ AttemptsLeft)'
  BY CommandTypeNext
<1> QED
  BY CommandTypeInit, <1>1, PTL DEF Spec

-----------------------------------------------------------------------------
(* The forward.  run waits for the child and then for both scanners before  *)
(* it closes doneCh, and Start fails only without a child or behind doneCh. *)

ChildAwaited ==
  /\ runner = "off" => kubectl = "none" /\ \A s \in Streams : scanner[s] = "off"
  /\ PipesClosed => kubectl = "exited"

ScannersJoined ==
  runner \in {"record", "announce", "close", "done"} =>
    \A s \in Streams : scanner[s] = "ended"

CallerWaited ==
  /\ start = "idle" => runner = "off"
  /\ start \in Returned => runner \in {"off", "done"}

\* The port is stored before it is sent, in the same use of readyOnce.
PortStored ==
  /\ localPort => announced
  /\ ready = "port" => localPort
  /\ start \in {"probe", "session"} => localPort

\* run records an error unless Stop was called or the port is known, so that a
\* Start which still selects gets no message without either.
ErrorRecorded ==
  /\ start = "select" => ~stopped /\ ready # "zero"
  /\ runner = "announce" => runErr \/ localPort \/ stopped

ForwardInv ==
  ForwardTypeOK /\ ChildAwaited /\ ScannersJoined /\ CallerWaited
  /\ PortStored /\ ErrorRecorded

LEMMA ForwardInvInit == ForwardInit => ForwardInv
<1> SUFFICES ASSUME ForwardInit PROVE ForwardInv
  OBVIOUS
<1>1. ForwardTypeOK
  BY ForwardTypeInit
<1> QED
  BY <1>1 DEF ForwardInit, ForwardInv, ChildAwaited, ScannersJoined, CallerWaited,
              PortStored, ErrorRecorded, PipesClosed

LEMMA ForwardInvNext == ForwardInv /\ ForwardNext => ForwardInv'
<1> SUFFICES ASSUME ForwardInv, ForwardNext PROVE ForwardInv'
  OBVIOUS
<1>1. ForwardTypeOK'
  BY ForwardTypeNext DEF ForwardInv
<1> USE DEF ForwardNext, StartCommand, Release, CallStep, StartSelectContext,
            StartSelectReady, StartSelectDone, StartProbe, Stop, StopReturns, RunStep,
            RunWaits, RunJoins, RunRecords, RunAnnounces, RunCloses, ScanStep,
            ScanLine, ScanEnds, KubectlPrints, KubectlExits, Cancel, childVars,
            channelVars, Done, PipesClosed, ForwardInv, ForwardTypeOK
<1>2. ChildAwaited'
  BY DEF ChildAwaited
<1>3. ScannersJoined'
  BY DEF ChildAwaited, ScannersJoined
<1>4. CallerWaited'
  BY DEF CallerWaited
<1>5. PortStored'
  <2>1. CASE StartCommand
    BY <2>1 DEF PortStored
  <2>2. CASE CallStep \/ Release
    BY <2>2 DEF PortStored
  <2>3. CASE RunStep
    <3>1. CASE RunAnnounces
      <4>1. (announced' /\ ready' # "port") \/ UNCHANGED <<announced, ready>>
        BY <3>1
      <4>2. UNCHANGED <<localPort, start>>
        BY <3>1
      <4> QED
        BY <3>1, <4>1, <4>2 DEF PortStored
    <3>2. CASE RunWaits \/ RunJoins \/ RunRecords \/ RunCloses
      <4>1. UNCHANGED <<announced, ready, localPort, start>>
        BY <3>2
      <4> QED
        BY <4>1 DEF PortStored
    <3> QED
      BY <2>3, <3>1, <3>2
  <2>4. CASE ScanStep
    BY <2>4 DEF PortStored
  <2>5. CASE KubectlPrints \/ KubectlExits \/ Cancel
    BY <2>5 DEF PortStored
  <2> QED
    BY <2>1, <2>2, <2>3, <2>4, <2>5
<1>6. ErrorRecorded'
  <2>1. CASE StartCommand
    BY <2>1 DEF PortStored, ErrorRecorded, ScannersJoined
  <2>2. CASE CallStep \/ Release
    BY <2>2 DEF PortStored, ErrorRecorded, ScannersJoined
  <2>3. CASE RunStep
    <3>1. UNCHANGED <<localPort, stopped, start>>
      BY <2>3
    <3>2. CASE RunRecords
      <4>1. result = "nil" /\ ~localPort => runErr'
        BY <3>2
      <4>2. result = "error" /\ ~stopped => runErr'
        BY <3>2
      <4>3. runErr' \/ localPort \/ stopped
        BY <4>1, <4>2
      <4> QED
        BY <3>1, <3>2, <4>3 DEF ErrorRecorded
    <3>3. CASE RunAnnounces
      <4>1. start = "select" => ready' # "zero"
        BY <3>3 DEF PortStored, ErrorRecorded
      <4> QED
        BY <3>1, <3>3, <4>1 DEF ErrorRecorded
    <3>4. CASE RunWaits \/ RunJoins \/ RunCloses
      <4>1. ready' = ready /\ runner' # "announce"
        BY <3>4
      <4> QED
        BY <3>1, <4>1 DEF ErrorRecorded
    <3> QED
      BY <2>3, <3>2, <3>3, <3>4
  <2>4. CASE ScanStep
    BY <2>4 DEF PortStored, ErrorRecorded, ScannersJoined
  <2>5. CASE KubectlPrints \/ KubectlExits \/ Cancel
    BY <2>5 DEF PortStored, ErrorRecorded, ScannersJoined
  <2> QED
    BY <2>1, <2>2, <2>3, <2>4, <2>5
<1> QED
  BY <1>1, <1>2, <1>3, <1>4, <1>5, <1>6 DEF ForwardInv

LEMMA ForwardInvariant == Spec => []ForwardInv
<1>1. Init => ForwardInv
  BY ForwardInvInit DEF Init
<1>2. ForwardInv /\ [Next]_vars => ForwardInv'
  <2> SUFFICES ASSUME ForwardInv, [Next]_vars PROVE ForwardInv'
    OBVIOUS
  <2>1. CASE ForwardNext
    BY <2>1, ForwardInvNext
  <2>2. CASE UNCHANGED forwardVars
    BY <2>2 DEF ForwardInv, ForwardTypeOK, ChildAwaited, ScannersJoined, CallerWaited,
                PortStored, ErrorRecorded, PipesClosed, forwardVars, childVars, channelVars
  <2> QED
    BY <2>1, <2>2, NextMovesForward DEF vars
<1> QED
  BY <1>1, <1>2, PTL DEF Spec

\* When Start has failed, and when Stop has returned, kubectl is gone and no
\* goroutine of the forward runs.
THEOREM NothingIsLeftBehind == Spec => []NothingLeftBehind
<1>1. ForwardInv => NothingLeftBehind
  BY DEF ForwardInv, ForwardTypeOK, ChildAwaited, ScannersJoined, CallerWaited,
         NothingLeftBehind, PipesClosed
<1> QED
  BY <1>1, ForwardInvariant, PTL

\* A session that Start returns has a local port.
THEOREM SessionHasItsPort == Spec => []SessionHasPort
<1>1. ForwardInv => SessionHasPort
  BY DEF ForwardInv, PortStored, ErrorRecorded, SessionHasPort
<1> QED
  BY <1>1, ForwardInvariant, PTL

-----------------------------------------------------------------------------
(* The owner. *)

OwnerInv ==
  step \in {"idle", "retry", "ended"} => start \in {"idle"} \union Returned

\* No way out of a command, and no retry, leaves a forward up.
THEOREM CommandLeavesNothingHolds == Spec => []CommandLeavesNothing
<1>1. Init => OwnerInv
  BY DEF Init, ForwardInit, OwnerInv
<1>2. OwnerInv /\ [Next]_vars => OwnerInv'
  <2> SUFFICES ASSUME OwnerInv, [Next]_vars PROVE OwnerInv'
    OBVIOUS
  <2>1. CASE UNCHANGED vars
    BY <2>1 DEF OwnerInv, vars, ownerVars, forwardVars
  <2>2. CASE Inside
    BY <2>2 DEF OwnerInv, Inside, ownerVars, CallStep, StartSelectContext,
                StartSelectReady, StartSelectDone, StartProbe, Stop, StopReturns,
                RunStep, RunWaits, RunJoins, RunRecords, RunAnnounces, RunCloses,
                ScanStep, ScanLine, ScanEnds, KubectlPrints, KubectlExits, Cancel
  <2>3. CASE OwnerStep
    BY <2>3 DEF OwnerInv, OwnerStep, ownerVars, forwardVars, Begin, StartCommand,
                StartReturns, WaitForAPI, CreateRepo, Transfer, CheckReviewable,
                OpenBrowser, ReviewSelect, LeaveStops, LeaveEnds, Goes, Leaves, Fails,
                Release
  <2>4. CASE HandlerStep \/ Interrupt
    BY <2>4 DEF OwnerInv, HandlerStep, Interrupt, HandlerInstalls, HandlerReturns,
                forwardVars
  <2> QED
    BY <2>1, <2>2, <2>3, <2>4 DEF Next
<1>3. OwnerInv => CommandLeavesNothing
  BY DEF OwnerInv, CommandLeavesNothing
<1> QED
  BY <1>1, <1>2, <1>3, PTL DEF Spec

-----------------------------------------------------------------------------
(* Nobody waits for what cannot come. *)

\* A forward that somebody owns has its goroutine run.
AwaitInv ==
  /\ AnswerAwaits
  /\ start \in {"session"} \union Starting \union Releasing => runner # "off"

\* Start waits for a message that is sent or for run, and Stop for a child that was
\* killed: the safety half of StartReturnsAtLast, of which no lost message may be the
\* reason.
THEOREM AnswerAwaitsHolds == Spec => []AnswerAwaits
<1>1. Init => AwaitInv
  BY DEF Init, ForwardInit, AwaitInv, AnswerAwaits
<1>2. AwaitInv /\ [Next]_vars => AwaitInv'
  <2> SUFFICES ASSUME AwaitInv, [Next]_vars PROVE AwaitInv'
    OBVIOUS
  <2>1. CASE UNCHANGED forwardVars
    BY <2>1 DEF AwaitInv, AnswerAwaits, forwardVars, channelVars
  <2>2. CASE StartCommand \/ Release \/ CallStep
    BY <2>2 DEF AwaitInv, AnswerAwaits, StartCommand, Release, CallStep, StartSelectContext,
                StartSelectReady, StartSelectDone, StartProbe, Stop, StopReturns, channelVars
  <2>3. CASE RunStep
    <3>1. UNCHANGED <<start, stopped>> /\ (runner # "off" => runner' # "off")
      BY <2>3 DEF RunStep, RunWaits, RunJoins, RunRecords, RunAnnounces, RunCloses
    <3>2. UNCHANGED <<announced, ready>> \/ ready' # "empty"
      BY <2>3 DEF RunStep, RunWaits, RunJoins, RunRecords, RunAnnounces, RunCloses, channelVars
    <3> QED
      BY <3>1, <3>2 DEF AwaitInv, AnswerAwaits
  <2>4. CASE ScanStep
    BY <2>4 DEF AwaitInv, AnswerAwaits, ScanStep, ScanLine, ScanEnds, channelVars
  <2>5. CASE KubectlPrints \/ KubectlExits \/ Cancel
    BY <2>5 DEF AwaitInv, AnswerAwaits, KubectlPrints, KubectlExits, Cancel, channelVars
  <2> QED
    BY <2>1, <2>2, <2>3, <2>4, <2>5, NextMovesForward DEF vars, ForwardNext
<1>3. AwaitInv => AnswerAwaits
  BY DEF AwaitInv
<1> QED
  BY <1>1, <1>2, <1>3, PTL DEF Spec

\* A command uses, stops and awaits the forward that it owns, and while kagen open
\* waits for its user, that user is listened to: the safety half of ReviewEnds.
THEOREM OwnerKnowsHolds == Spec => []OwnerKnows
<1>1. Init => OwnerKnows
  BY DEF Init, OwnerKnows
<1>2. OwnerKnows /\ [Next]_vars => OwnerKnows'
  <2> SUFFICES ASSUME OwnerKnows, [Next]_vars PROVE OwnerKnows'
    OBVIOUS
  <2>1. CASE UNCHANGED vars
    BY <2>1 DEF OwnerKnows, vars, ownerVars, forwardVars
  <2>2. CASE Inside
    BY <2>2 DEF OwnerKnows, Inside, ownerVars, CallStep, StartSelectContext,
                StartSelectReady, StartSelectDone, StartProbe, Stop, StopReturns,
                RunStep, RunWaits, RunJoins, RunRecords, RunAnnounces, RunCloses,
                ScanStep, ScanLine, ScanEnds, KubectlPrints, KubectlExits, Cancel
  <2>3. CASE OwnerStep
    BY <2>3 DEF OwnerKnows, OwnerStep, ownerVars, forwardVars, Begin, StartCommand,
                StartReturns, WaitForAPI, CreateRepo, Transfer, CheckReviewable,
                OpenBrowser, ReviewSelect, LeaveStops, LeaveEnds, Goes, Leaves, Fails,
                Release
  <2>4. CASE HandlerStep \/ Interrupt
    BY <2>4 DEF OwnerKnows, HandlerStep, Interrupt, HandlerInstalls, HandlerReturns,
                forwardVars
  <2> QED
    BY <2>1, <2>2, <2>3, <2>4 DEF Next
<1> QED
  BY <1>1, <1>2, PTL DEF Spec

-----------------------------------------------------------------------------
(* The forward as its owner sees it. *)

Phase ==
  CASE start \in {"idle"} \union Returned -> "down"
    [] start \in Starting -> "starting"
    [] start = "session" -> "up"
    [] start \in Releasing -> "closing"

Alive ==
  \/ kubectl = "running"
  \/ runner \notin {"off", "done"}
  \/ \E s \in Streams : scanner[s] = "reading"

\* Behind doneCh nothing is alive, and nothing comes alive but by Start.
LEMMA AliveUntilDone ==
  ASSUME ForwardInv
  PROVE  /\ Done => ~Alive
         /\ runner = "off" => ~Alive
         /\ ~Alive => runner \in {"off", "done"}
  BY DEF ForwardInv, ForwardTypeOK, ChildAwaited, ScannersJoined, PipesClosed, Done, Alive

LEMMA AliveStays ==
  ASSUME ForwardInv, RunStep \/ ScanStep \/ KubectlPrints \/ KubectlExits \/ Cancel
  PROVE  /\ UNCHANGED start
         /\ ~Alive => ~Alive'
<1>1. UNCHANGED start
  BY DEF RunStep, RunWaits, RunJoins, RunRecords, RunAnnounces, RunCloses, ScanStep, ScanLine,
         ScanEnds, KubectlPrints, KubectlExits, Cancel
<1>2. CASE RunStep
  BY <1>2 DEF RunStep, RunWaits, RunJoins, RunRecords, RunAnnounces, RunCloses, Alive
<1>3. CASE ScanStep
  BY <1>3 DEF ScanStep, ScanLine, ScanEnds, Alive
<1>4. CASE KubectlPrints \/ KubectlExits \/ Cancel
  BY <1>4 DEF KubectlPrints, KubectlExits, Cancel, Alive, childVars
<1> QED
  BY <1>1, <1>2, <1>3, <1>4

LEMMA CallKeepsAlive ==
  ASSUME CallStep \/ Release
  PROVE  Alive' = Alive
  BY DEF CallStep, StartSelectContext, StartSelectReady, StartSelectDone, StartProbe, Stop,
         StopReturns, Release, Alive, childVars

LEMMA LifecycleStep ==
  ASSUME ForwardInv, ForwardNext
  PROVE  \/ /\ Phase = "down" /\ Phase' = "starting" /\ Alive'
         \/ Phase = "starting" /\ Phase' = "up" /\ Alive /\ Alive'
         \/ Phase = "starting" /\ Phase' = "down" /\ ~Alive /\ ~Alive'
         \/ Phase' = Phase /\ Alive /\ ~Alive'
         \/ Phase = "up" /\ Phase' = "closing" /\ Alive' = Alive
         \/ Phase = "closing" /\ Phase' = "down" /\ ~Alive /\ ~Alive'
         \/ Phase' = Phase /\ Alive' = Alive
<1>0. Alive \in BOOLEAN /\ Alive' \in BOOLEAN
  BY DEF Alive
<1>1. CASE StartCommand
  <2>1. CASE start' = "select"
    <3>1. Alive'
      BY <1>1, <2>1 DEF StartCommand, Alive
    <3> QED
      BY <1>1, <2>1, <3>1 DEF StartCommand, Phase
  <2>2. CASE start' # "select"
    <3>1. UNCHANGED <<childVars, scanner, runner>> /\ start' = "failed"
      BY <1>1, <2>2 DEF StartCommand
    <3>2. Alive' = Alive
      BY <3>1 DEF Alive, childVars
    <3> QED
      BY <1>1, <3>1, <3>2 DEF StartCommand, Phase
  <2> QED
    BY <2>1, <2>2
<1>2. CASE CallStep \/ Release
  <2>1. Alive' = Alive
    BY <1>2, CallKeepsAlive
  <2>2. CASE StartSelectDone \/ StopReturns
    <3>1. ~Alive
      BY <2>2, AliveUntilDone DEF StartSelectDone, StopReturns
    <3> QED
      BY <2>1, <2>2, <3>1 DEF StartSelectDone, StopReturns, Phase
  <2>3. CASE StartProbe
    <3>1. start' = "session" => Alive
      BY <2>3 DEF StartProbe, Alive
    <3> QED
      BY <2>1, <2>3, <3>1 DEF StartProbe, Phase
  <2>4. CASE StartSelectContext \/ StartSelectReady \/ Stop \/ Release
    BY <2>1, <2>4 DEF StartSelectContext, StartSelectReady, Stop, Release, Phase
  <2> QED
    BY <1>2, <2>2, <2>3, <2>4 DEF CallStep
<1>3. CASE RunStep \/ ScanStep \/ KubectlPrints \/ KubectlExits \/ Cancel
  BY <1>0, <1>3, AliveStays DEF Phase
<1> QED
  BY <1>1, <1>2, <1>3 DEF ForwardNext

\* Start, Stop and Wait keep what ForwardLifecycle promises, for whatever the child,
\* the scanners and the user do: a session is handed out alive, and there is nothing
\* left when Start has failed or Stop has returned.
THEOREM ForwardImplementsLifecycle == Spec => ImplementsLifecycle
<1> DEFINE Inner == Lifecycle!Init /\ [][Lifecycle!Next]_Lifecycle!vars
<1>1. Init => Lifecycle!Init
  BY DEF Init, ForwardInit, Lifecycle!Init
<1>2. ForwardInv /\ [Next]_vars => [Lifecycle!Next]_Lifecycle!vars
  <2> SUFFICES ASSUME ForwardInv, [Next]_vars PROVE [Lifecycle!Next]_Lifecycle!vars
    OBVIOUS
  <2>1. CASE ForwardNext
    BY <2>1, LifecycleStep DEF Phase, Alive, Lifecycle!Next, Lifecycle!Opens, Lifecycle!ComesUp,
       Lifecycle!Fails, Lifecycle!Dies, Lifecycle!Closes, Lifecycle!Closed, Lifecycle!vars
  <2>2. CASE UNCHANGED forwardVars
    BY <2>2 DEF forwardVars, childVars, Lifecycle!vars
  <2> QED
    BY <2>1, <2>2, NextMovesForward DEF vars
<1>3. Spec => Inner
  BY <1>1, <1>2, ForwardInvariant, PTL DEF Spec
<1> QED
  BY <1>3 DEF ImplementsLifecycle, Lifecycle!Spec

-----------------------------------------------------------------------------
(* The variant: every step uses up something that only a new attempt renews. *)

\* What the owner has left to do; a review begins with a goroutine of its own.
StepsLeft ==
  [idle |-> 13, start |-> 12, api |-> 11, create |-> 10, work |-> 9, browser |-> 8,
   review |-> 4, leave |-> 3, retry |-> 2, ended |-> 1, died |-> 0]
HandlerLeft == [pending |-> 2, installed |-> 1, none |-> 0]

\* What Start and Stop have left, and run.
CallLeft ==
  [select |-> 7, probe |-> 6, session |-> 5, release |-> 4, releasing |-> 3,
   stop |-> 2, stopping |-> 1, idle |-> 0, failed |-> 0, released |-> 0]
RunLeft ==
  [wait |-> 6, join |-> 5, record |-> 4, announce |-> 3, close |-> 2, done |-> 0,
   off |-> 0]

Once(condition) == IF condition THEN 1 ELSE 0

\* A line counts twice until it is printed, and once until it is read.
ForwardLeft ==
  2 * (MaxLines - printed) + unread + CallLeft[start] + RunLeft[runner]
  + Once(kubectl = "running") + Once(ctx = "live")
  + Once(scanner["stdout"] = "reading") + Once(scanner["stderr"] = "reading")

OwnerLeft == StepsLeft[step] + HandlerLeft[handler] + Once(~interrupt)

Left == ForwardLeft + OwnerLeft

\* Nothing starts over: within an attempt every step of the command, the goroutines,
\* the child and the user uses up a part of what is left, which is bounded, and there
\* are MaxAttempts attempts.  The steps are those of the model, in which the polling of
\* waitForAPI and the retries of pushRepo and ensureAdminUser, bounded in number, are
\* single steps.  A command that goes on for ever is one that waits (Start, Stop, run,
\* OpenReview, ensureForgejoRepo).
NothingStartsOver ==
  [][/\ Left \in Nat
     /\ \/ attempt' = attempt + 1 /\ attempt < MaxAttempts
        \/ attempt' = attempt /\ Left' < Left]_vars

\* The values of the functions, which are numbers.
LEMMA TablesInNat ==
  /\ ForwardTypeOK => CallLeft[start] \in Nat /\ RunLeft[runner] \in Nat
  /\ TypeOK => StepsLeft[step] \in Nat /\ HandlerLeft[handler] \in Nat
  /\ \A condition : Once(condition) \in 0..1
BY DEF ForwardTypeOK, TypeOK, CallLeft, RunLeft, StepsLeft, HandlerLeft, Once

LEMMA ForwardLeftInNat == ForwardTypeOK => ForwardLeft \in Nat
<1> SUFFICES ASSUME ForwardTypeOK PROVE ForwardLeft \in Nat
  OBVIOUS
<1>1. MaxLines - printed \in Nat /\ unread \in Nat
  BY LinesAssumption DEF ForwardTypeOK
<1>2. /\ Once(kubectl = "running") \in Nat /\ Once(ctx = "live") \in Nat
      /\ Once(scanner["stdout"] = "reading") \in Nat
      /\ Once(scanner["stderr"] = "reading") \in Nat
  BY DEF Once
<1> QED
  BY <1>1, <1>2, TablesInNat DEF ForwardLeft

\* Every step of the forward but the start of a child uses something up.
LEMMA ForwardAdvances ==
  ASSUME ForwardTypeOK,
         CallStep \/ RunStep \/ ScanStep \/ KubectlPrints \/ KubectlExits \/ Cancel \/ Release
  PROVE  ForwardLeft' < ForwardLeft /\ ForwardLeft' \in Nat
<1> DEFINE Rest ==
      2 * (MaxLines - printed) + unread
      + Once(kubectl = "running") + Once(ctx = "live")
      + Once(scanner["stdout"] = "reading") + Once(scanner["stderr"] = "reading")
<1>0. /\ MaxLines - printed \in Nat /\ unread \in Nat /\ printed \in Nat /\ MaxLines \in Nat
      /\ CallLeft[start] \in Nat /\ RunLeft[runner] \in Nat
      /\ Once(kubectl = "running") \in Nat /\ Once(ctx = "live") \in Nat
      /\ Once(scanner["stdout"] = "reading") \in Nat
      /\ Once(scanner["stderr"] = "reading") \in Nat
  BY LinesAssumption, TablesInNat DEF ForwardTypeOK, Once
<1>1. Rest \in Nat /\ ForwardLeft = Rest + CallLeft[start] + RunLeft[runner]
  BY <1>0 DEF ForwardLeft
<1>2. /\ ForwardLeft' = Rest' + CallLeft[start'] + RunLeft[runner']
      /\ ForwardLeft' \in Nat
  <2>1. /\ ForwardTypeOK'
    BY ForwardTypeNext DEF ForwardNext
  <2>2. /\ MaxLines - printed' \in Nat /\ unread' \in Nat
    <3>1. printed' \in 0..MaxLines /\ unread' \in 0..MaxLines
      BY <2>1 DEF ForwardTypeOK
    <3>2. \A n \in 0..MaxLines : n \in Nat /\ MaxLines - n \in Nat
      BY LinesAssumption
    <3> QED
      BY <3>1, <3>2
  <2>3. CallLeft[start'] \in Nat /\ RunLeft[runner'] \in Nat
    BY <2>1 DEF ForwardTypeOK, CallLeft, RunLeft
  <2>4. /\ Once(kubectl' = "running") \in Nat /\ Once(ctx' = "live") \in Nat
        /\ Once(scanner'["stdout"] = "reading") \in Nat
        /\ Once(scanner'["stderr"] = "reading") \in Nat
    BY DEF Once
  <2> QED
    BY <2>2, <2>3, <2>4 DEF ForwardLeft
<1>3. CASE CallStep \/ Release
  <2>1. Rest' = Rest /\ runner' = runner
    BY <1>3 DEF CallStep, StartSelectContext, StartSelectReady, StartSelectDone,
                StartProbe, Stop, StopReturns, Release, childVars, channelVars
  <2>2. CallLeft[start'] < CallLeft[start] /\ CallLeft[start'] \in Nat
    BY <1>3 DEF CallStep, StartSelectContext, StartSelectReady, StartSelectDone,
                StartProbe, Stop, StopReturns, Release, CallLeft
  <2> HIDE DEF Rest
  <2> QED
    BY <1>0, <1>1, <1>2, <2>1, <2>2
<1>4. CASE RunStep
  <2>1. Rest' = Rest /\ start' = start
    BY <1>4 DEF RunStep, RunWaits, RunJoins, RunRecords, RunAnnounces, RunCloses,
                childVars, channelVars
  <2>2. RunLeft[runner'] < RunLeft[runner] /\ RunLeft[runner'] \in Nat
    <3>1. \/ runner = "wait" /\ runner' = "join"
          \/ runner = "join" /\ runner' = "record"
          \/ runner = "record" /\ runner' = "announce"
          \/ runner = "announce" /\ runner' = "close"
          \/ runner = "close" /\ runner' = "done"
      BY <1>4 DEF RunStep, RunWaits, RunJoins, RunRecords, RunAnnounces, RunCloses
    <3> QED
      BY <3>1 DEF RunLeft
  <2> HIDE DEF Rest
  <2> QED
    BY <1>0, <1>1, <1>2, <2>1, <2>2
<1>5. CASE ScanStep \/ KubectlPrints \/ KubectlExits \/ Cancel
  <2>1. start' = start /\ runner' = runner
    BY <1>5 DEF ScanStep, ScanLine, ScanEnds, KubectlPrints, KubectlExits, Cancel,
                childVars, channelVars
  <2>2. Rest' < Rest /\ Rest' \in Int
    <3>1. CASE ScanLine \/ KubectlPrints
      BY <1>0, <3>1 DEF ScanLine, KubectlPrints, childVars, channelVars
    <3>2. CASE KubectlExits \/ Cancel
      <4>1. /\ printed' = printed /\ unread' = unread /\ scanner' = scanner
            /\ \/ kubectl = "running" /\ kubectl' = "exited" /\ ctx' = ctx
               \/ kubectl' = kubectl /\ ctx = "live" /\ ctx' = "cancelled"
        BY <3>2 DEF KubectlExits, Cancel, childVars, channelVars
      <4> QED
        BY <1>0, <4>1 DEF Once
    <3>3. ASSUME NEW s \in Streams, ScanEnds(s) PROVE Rest' < Rest /\ Rest' \in Int
      <4>1. /\ printed' = printed /\ unread' = unread /\ kubectl' = kubectl /\ ctx' = ctx
            /\ scanner[s] = "reading" /\ scanner'[s] = "ended"
            /\ \A r \in Streams \ {s} : scanner'[r] = scanner[r]
        BY <3>3 DEF ScanEnds, ForwardTypeOK, childVars, channelVars
      <4> QED
        BY <1>0, <4>1 DEF Once
    <3> QED
      BY <1>5, <3>1, <3>2, <3>3 DEF ScanStep
  <2> HIDE DEF Rest
  <2> QED
    BY <1>0, <1>1, <1>2, <2>1, <2>2
<1> QED
  BY <1>3, <1>4, <1>5

LEMMA LeftParts ==
  TypeOK => /\ ForwardLeft \in Nat /\ OwnerLeft \in Nat
            /\ Left = ForwardLeft + OwnerLeft
<1> SUFFICES ASSUME TypeOK PROVE ForwardLeft \in Nat /\ OwnerLeft \in Nat
  BY DEF Left
<1>1. Once(~interrupt) \in Nat
  BY DEF Once
<1> QED
  BY <1>1, TablesInNat, ForwardLeftInNat DEF TypeOK, OwnerLeft

\* The steps of the owner that do not move the forward.
LEMMA OwnerAdvances ==
  ASSUME TypeOK, UNCHANGED <<forwardVars, attempt>>,
         OwnerStep \/ HandlerStep \/ Interrupt
  PROVE  Left' < Left
<1>1. ForwardLeft' = ForwardLeft
  BY DEF ForwardLeft, forwardVars, childVars, channelVars
<1>2. OwnerLeft \in Nat /\ OwnerLeft' \in Nat /\ OwnerLeft' < OwnerLeft
  <2> USE DEF OwnerLeft, StepsLeft, HandlerLeft, Once, TypeOK
  <2>1. CASE OpenBrowser \/ HandlerStep \/ Interrupt
    BY <2>1 DEF OpenBrowser, HandlerStep, HandlerInstalls, HandlerReturns, Interrupt,
                Leaves
  <2>2. CASE OwnerStep /\ ~OpenBrowser
    <3>1. handler' = handler /\ interrupt' = interrupt
      BY <2>2 DEF OwnerStep, Begin, StartReturns, WaitForAPI, CreateRepo, Transfer,
                  CheckReviewable, ReviewSelect, LeaveStops, LeaveEnds, Goes, Leaves,
                  Fails, ownerVars
    <3>2. StepsLeft[step'] < StepsLeft[step]
      <4> USE DEF Goes, Leaves, Fails
      <4>1. CASE Begin
        BY <4>1 DEF Begin
      <4>2. CASE StartReturns \/ LeaveEnds
        BY <4>2 DEF StartReturns, LeaveEnds
      <4>3. CASE WaitForAPI \/ CreateRepo
        BY <4>3 DEF WaitForAPI, CreateRepo
      <4>4. CASE Transfer \/ CheckReviewable \/ ReviewSelect
        BY <4>4 DEF Transfer, CheckReviewable, ReviewSelect
      <4>5. CASE LeaveStops
        BY <4>5 DEF LeaveStops, Release, forwardVars
      <4> QED
        BY <2>2, <4>1, <4>2, <4>3, <4>4, <4>5 DEF OwnerStep
    <3>3. StepsLeft[step'] \in Nat /\ StepsLeft[step] \in Nat
      <4>1. step' \in {"idle", "start", "api", "create", "work", "browser", "review",
                       "leave", "retry", "ended", "died"}
        BY <2>2 DEF OwnerStep, Begin, StartReturns, WaitForAPI, CreateRepo, Transfer,
                    CheckReviewable, ReviewSelect, LeaveStops, LeaveEnds, Goes, Leaves,
                    Fails, ownerVars
      <4> QED
        BY <4>1
    <3> HIDE DEF StepsLeft
    <3> QED
      BY <3>1, <3>2, <3>3
  <2> QED
    BY <2>1, <2>2
<1>3. ForwardLeft \in Nat
  BY ForwardLeftInNat DEF TypeOK
<1>4. Left = ForwardLeft + OwnerLeft /\ Left' = ForwardLeft + OwnerLeft'
  BY <1>1 DEF Left
<1>5. \A f, a, b \in Nat : b < a => f + b < f + a
  OBVIOUS
<1> QED
  BY <1>2, <1>3, <1>4, <1>5

\* Whoever runs, a step of a command is a new attempt or uses something up.
LEMMA NextAdvances ==
  ASSUME TypeOK, AttemptsLeft, Next
  PROVE  \/ attempt' = attempt + 1 /\ attempt < MaxAttempts
         \/ attempt' = attempt /\ Left' < Left
<1>1. CASE Begin /\ attempt' = attempt + 1
  BY <1>1, UsesAssumption DEF Begin, AttemptsLeft
<1>2. CASE OwnerStep \/ HandlerStep \/ Interrupt
  <2>1. CASE LeaveStops
    <3>1. Release /\ OwnerLeft' = OwnerLeft /\ attempt' = attempt
      BY <2>1 DEF LeaveStops, OwnerLeft, ownerVars
    <3>2. ForwardLeft' < ForwardLeft /\ ForwardLeft' \in Nat
      BY <3>1, ForwardAdvances DEF TypeOK
    <3> QED
      BY <3>1, <3>2, LeftParts DEF Left
  <2>2. CASE ~LeaveStops /\ ~(Begin /\ attempt' = attempt + 1)
    <3>1. UNCHANGED <<forwardVars, attempt>>
      BY <1>2, <2>2 DEF OwnerStep, HandlerStep, Interrupt, Begin, StartReturns,
         WaitForAPI, CreateRepo, Transfer, CheckReviewable, OpenBrowser, ReviewSelect,
         LeaveEnds, HandlerInstalls, HandlerReturns, Goes, Leaves, Fails
    <3> QED
      BY <1>2, <3>1, OwnerAdvances
  <2> QED
    BY <1>1, <2>1, <2>2
<1>3. CASE Inside
  <2>1. /\ CallStep \/ RunStep \/ ScanStep \/ KubectlPrints \/ KubectlExits \/ Cancel
        /\ OwnerLeft' = OwnerLeft /\ attempt' = attempt
    BY <1>3 DEF Inside, OwnerLeft, ownerVars
  <2>2. ForwardLeft' < ForwardLeft /\ ForwardLeft' \in Nat
    BY <2>1, ForwardAdvances DEF TypeOK
  <2> QED
    BY <2>1, <2>2, LeftParts DEF Left
<1> QED
  BY <1>2, <1>3 DEF Next

\* Whatever a command, its goroutines, the child and the user do, it comes to an end
\* or to a wait; the attempts of an import are the only thing that is begun again.
THEOREM NothingStartsOverHolds == Spec => NothingStartsOver
<1>1. TypeOK /\ AttemptsLeft /\ [Next]_vars =>
        [/\ Left \in Nat
         /\ \/ attempt' = attempt + 1 /\ attempt < MaxAttempts
            \/ attempt' = attempt /\ Left' < Left]_vars
  BY NextAdvances, LeftParts DEF Left
<1>2. Spec => [](TypeOK /\ AttemptsLeft)
  BY CommandTypeInit, CommandTypeNext, PTL DEF Spec
<1> QED
  BY <1>1, <1>2, PTL DEF Spec, NothingStartsOver

=============================================================================
