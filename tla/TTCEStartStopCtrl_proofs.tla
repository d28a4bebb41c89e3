---------------------- MODULE TTCEStartStopCtrl_proofs ----------------------
(***************************************************************************)
(* Proofs about TTCEStartStopCtrl for any set of clients, any number of    *)
(* restart attempts and any delay: no PANIC() is reachable, the controller *)
(* is quiet when it is stopped, and clients that hold it stopped are safe. *)
(*                                                                         *)
(* The inductive invariant relates the state of the controller to the      *)
(* state of the TTCE and to all reports in flight: those in the work queue *)
(* followed by the one that the thread of the TTCE has not yet sent.  At   *)
(* most three reports are in flight, and their order is fixed.             *)
(***************************************************************************)
EXTENDS TTCEStartStopCtrl, FiniteSetTheorems, TLAPS

Errors == {"triggerTimeout", "pllLossOfLock", "sampleRetFalse"}
Run == <<"running", "none">>
Stop(r) == <<"stopped", r>>

(* The report that a thread with the calls d before it has to send, if any. *)
Unsent(d) ==
  IF d = <<>> THEN <<>>
  ELSE IF d[1] = Change("running", "none") THEN <<Run>>
  ELSE IF d[Len(d)].state = "stopped" THEN <<Stop(d[Len(d)].reason)>>
  ELSE <<>>

(* All reports that have not reached the controller, the oldest first. *)
InFlight == wq \o Unsent(doing)

(* What the TTCE (requests f, state s) and the reports in flight R can be   *)
(* in each state of the controller.                                         *)
WhenStopped(f, s, R) == f = {} /\ s = "stopped" /\ R = <<>>

WhenStarting(f, s, R) ==
  \/ f = {"start"} /\ s = "stopped" /\ R = <<>>
  \/ f = {} /\ s \in {"starting", "waitLock"} /\ R = <<>>
  \/ f = {} /\ s = "running" /\ R = <<Run>>
  \/ f = {} /\ s = "stopped" /\ R = <<Stop("triggerTimeout")>>
  \/ f = {} /\ s = "stopped" /\ \E e \in Errors : R = <<Run, Stop(e)>>

WhenRunning(f, s, R) ==
  \/ f = {} /\ s = "running" /\ R = <<>>
  \/ f = {} /\ s = "stopped" /\ \E e \in Errors : R = <<Stop(e)>>

WhenStopPending(f, s, R) ==
  \/ f = {"stop"} /\ R = <<>>
  \/ f = {"stop"} /\ s = "running" /\ R = <<Run>>
  \/ f = {"stop"} /\ s = "stopped" /\ \E e \in Errors : R = <<Stop(e)>> \/ R = <<Run, Stop(e)>>
  \/ f = {} /\ s = "stopped" /\ R \in {<<Stop("reqStopSampling")>>, <<Run, Stop("reqStopSampling")>>}
  \/ f = {} /\ s = "stopped" /\
       \E e \in Errors : R \in {<<Stop(e), Stop("reqStopSampling")>>,
                                <<Run, Stop(e), Stop("reqStopSampling")>>}

WhenStoppedStopPending(f, s, R) ==
  \/ f = {"stop"} /\ s = "stopped" /\ R = <<>>
  \/ f = {} /\ s = "stopped" /\ R = <<Stop("reqStopSampling")>>

Expected(k, f, s, R) ==
  \/ k = "stopped" /\ WhenStopped(f, s, R)
  \/ k = "starting" /\ WhenStarting(f, s, R)
  \/ k = "running" /\ WhenRunning(f, s, R)
  \/ k = "stopPending" /\ WhenStopPending(f, s, R)
  \/ k = "stoppedStopPending" /\ WhenStoppedStopPending(f, s, R)

(* The calls the thread has still to make, in each state. *)
DoingMatches ==
  \/ doing = <<>> /\ (started <=> state = "running")
  \/ /\ ~started
     /\ \/ state \in {"starting", "waitLock"} /\ doing = <<Change(state, "none")>>
        \/ state = "running" /\ doing = <<Change("running", "none"), Call("OnStart")>>
        \/ state = "running" /\ doing = <<Call("OnStart")>>
        \/ state = "stopped" /\ \E r \in Reasons \ {"none"} : doing = <<Change("stopped", r)>>
  \/ /\ started
     /\ \/ state = "running" /\ doing = <<Call("Sample")>>
        \/ state = "stopped" /\
             \E r \in Reasons \ {"none"} : doing = <<Call("OnStop"), Change("stopped", r)>>

(* Clients that hold sampling stopped, the thread, and the start delay. *)
Holding == \A c \in Clients : client[c] = "holding" => ctrl = "stopped"
NoThread == ~thread => state = "stopped" /\ doing = <<>>
DelayKept == state = "starting" => skipped = startDelayCnt

CtrlInv ==
  /\ Expected(ctrl, asyncReqFlags, state, InFlight)
  /\ DoingMatches /\ NoThread /\ Holding /\ DelayKept
  /\ ~panic

IInv == TypeOK /\ CtrlInv

-----------------------------------------------------------------------------
(* The report to be sent, for each list of calls in DoingMatches. *)
LEMMA UnsentNone ==
  /\ Unsent(<<>>) = <<>>
  /\ \A s \in {"starting", "waitLock"} : Unsent(<<Change(s, "none")>>) = <<>>
  /\ Unsent(<<Call("OnStart")>>) = <<>>
  /\ Unsent(<<Call("Sample")>>) = <<>>
  BY DEF Unsent, Change, Call

LEMMA UnsentOne ==
  /\ Unsent(<<Change("running", "none"), Call("OnStart")>>) = <<Run>>
  /\ \A r \in Reasons : Unsent(<<Change("stopped", r)>>) = <<Stop(r)>>
  /\ \A r \in Reasons : Unsent(<<Call("OnStop"), Change("stopped", r)>>) = <<Stop(r)>>
  BY DEF Unsent, Change, Call, Run, Stop

(* Sequences of up to three elements. *)
LEMMA AppendFacts ==
  ASSUME NEW S, NEW a \in S, NEW b \in S, NEW c \in S
  PROVE  /\ Append(<<>>, a) = <<a>>
         /\ Append(<<a>>, b) = <<a, b>>
         /\ Append(<<a, b>>, c) = <<a, b, c>>
<1>1. Append(<<>>, a) = <<a>>
  OBVIOUS
<1>2. Append(<<a>>, b) = <<a, b>>
  <2> DEFINE s == Append(<<a>>, b)
             t == <<a, b>>
  <2>1. s \in Seq(S) /\ Len(s) = 2 /\ s[1] = a /\ s[2] = b
    OBVIOUS
  <2>2. t \in Seq(S) /\ Len(t) = 2 /\ t[1] = a /\ t[2] = b
    OBVIOUS
  <2> HIDE DEF s, t
  <2>3. s = t
    BY <2>1, <2>2
  <2> QED
    BY <2>3 DEF s, t
<1>3. Append(<<a, b>>, c) = <<a, b, c>>
  <2> DEFINE s == Append(<<a, b>>, c)
             t == <<a, b, c>>
  <2>1. s \in Seq(S) /\ Len(s) = 3 /\ s[1] = a /\ s[2] = b /\ s[3] = c
    OBVIOUS
  <2>2. t \in Seq(S) /\ Len(t) = 3 /\ t[1] = a /\ t[2] = b /\ t[3] = c
    OBVIOUS
  <2> HIDE DEF s, t
  <2>3. s = t
    BY <2>1, <2>2
  <2> QED
    BY <2>3 DEF s, t
<1> QED
  BY <1>1, <1>2, <1>3

LEMMA HeadTailFacts ==
  ASSUME NEW a, NEW b, NEW c
  PROVE  /\ Head(<<a>>) = a /\ Head(<<a, b>>) = a /\ Head(<<a, b, c>>) = a
         /\ Tail(<<a>>) = <<>> /\ Tail(<<a, b>>) = <<b>> /\ Tail(<<a, b, c>>) = <<b, c>>
  OBVIOUS

LEMMA ConcatFacts ==
  ASSUME NEW S, NEW s \in Seq(S), NEW a \in S, NEW u \in Seq(S)
  PROVE  /\ s \o <<>> = s
         /\ s \o <<a>> = Append(s, a)
         /\ s # <<>> => Head(s \o u) = Head(s) /\ Tail(s \o u) = Tail(s) \o u
  OBVIOUS

LEMMA CallLists ==
  ASSUME NEW a, NEW b
  PROVE  <<>> \o <<a>> = <<a>> /\ <<a>> \o <<b>> = <<a, b>>
<1> DEFINE S == {a, b}
<1>1. <<>> \o <<a>> = <<a>>
  OBVIOUS
<1>2. <<a>> \o <<b>> = Append(<<a>>, b)
  OBVIOUS
<1>3. Append(<<a>>, b) = <<a, b>>
  <2>1. a \in S /\ b \in S
    OBVIOUS
  <2> HIDE DEF S
  <2> QED
    BY <2>1, AppendFacts
<1> QED
  BY <1>1, <1>2, <1>3

-----------------------------------------------------------------------------
(* How the TTCE moves between the expectations. *)
Reports == {"stopped", "running"} \X Reasons

LEMMA ReportTypes ==
  /\ Run \in Reports
  /\ \A r \in Reasons : Stop(r) \in Reports
  /\ Errors \subseteq Reasons
  BY DEF Reports, Run, Stop, Reasons, Errors

LEMMA RunIsNoStop == \A r : Run[1] = "running" /\ Stop(r)[1] = "stopped" /\ Stop(r)[2] = r
  BY DEF Run, Stop

USE DEF Expected, WhenStopped, WhenStarting, WhenRunning, WhenStopPending,
        WhenStoppedStopPending

(* A request to stop is consumed, a report answers it. *)
LEMMA ExpectedAnswer ==
  ASSUME NEW k, NEW f, NEW s, NEW R, Expected(k, f, s, R), "stop" \in f
  PROVE  Expected(k, f \ {"stop"}, "stopped", Append(R, Stop("reqStopSampling")))
<1> DEFINE q == Stop("reqStopSampling")
<1>1. q \in Reports /\ Run \in Reports /\ \A e \in Errors : Stop(e) \in Reports
  BY ReportTypes DEF Reasons
<1>2. f = {"stop"} /\ f \ {"stop"} = {}
  OBVIOUS
<1> HIDE DEF q
<1>3. /\ Append(<<>>, q) = <<q>> /\ Append(<<Run>>, q) = <<Run, q>>
      /\ \A e \in Errors : /\ Append(<<Stop(e)>>, q) = <<Stop(e), q>>
                           /\ Append(<<Run, Stop(e)>>, q) = <<Run, Stop(e), q>>
  BY <1>1, AppendFacts
<1> QED
  BY <1>2, <1>3 DEF q

(* The request to start is consumed. *)
LEMMA ExpectedStarting ==
  ASSUME NEW k, NEW f, NEW s, NEW R, Expected(k, f, s, R), "start" \in f
  PROVE  Expected(k, f \ {"start"}, "starting", R)
<1>1. f = {"start"} /\ f \ {"start"} = {}
  OBVIOUS
<1> QED
  BY <1>1

LEMMA ExpectedWaitLock ==
  ASSUME NEW k, NEW f, NEW R, Expected(k, f, "starting", R), "stop" \notin f
  PROVE  Expected(k, f, "waitLock", R)
  OBVIOUS

LEMMA ExpectedRunning ==
  ASSUME NEW k, NEW f, NEW R, Expected(k, f, "waitLock", R), "stop" \notin f
  PROVE  Expected(k, f, "running", Append(R, Run))
<1>1. Append(<<>>, Run) = <<Run>>
  BY ReportTypes, AppendFacts
<1> QED
  BY <1>1

(* Sampling, or the wait for it, ends by itself. *)
LEMMA ExpectedError ==
  ASSUME NEW k, NEW f, NEW s, NEW R, Expected(k, f, s, R), NEW e \in Errors,
         s = "running" \/ (s = "waitLock" /\ e = "triggerTimeout")
  PROVE  Expected(k, f, "stopped", Append(R, Stop(e)))
<1>1. Append(<<>>, Stop(e)) = <<Stop(e)>> /\ Append(<<Run>>, Stop(e)) = <<Run, Stop(e)>>
  BY ReportTypes, AppendFacts
<1> QED
  BY <1>1

-----------------------------------------------------------------------------
(* How the controller moves between them. *)
LEMMA ExpectedRequestStart ==
  ASSUME NEW f, NEW s, NEW R, Expected("stopped", f, s, R)
  PROVE  s = "stopped" /\ f = {} /\ Expected("starting", {"start"}, s, R)
  OBVIOUS

LEMMA ExpectedRequestStop ==
  ASSUME NEW k \in {"starting", "running"}, NEW f, NEW s, NEW R, Expected(k, f, s, R)
  PROVE  "stop" \notin f /\ Expected("stopPending", {"stop"}, s, R)
<1>1. "triggerTimeout" \in Errors
  BY DEF Errors
<1> QED
  BY <1>1

(* The first of the reports in flight, and the others. *)
LEMMA FirstReport ==
  /\ Head(<<Run>>)[1] = "running" /\ Tail(<<Run>>) = <<>>
  /\ \A r : /\ Head(<<Stop(r)>>)[1] = "stopped" /\ Head(<<Stop(r)>>)[2] = r
           /\ Tail(<<Stop(r)>>) = <<>>
  /\ \A r : Head(<<Run, Stop(r)>>)[1] = "running" /\ Tail(<<Run, Stop(r)>>) = <<Stop(r)>>
  /\ \A r, q : /\ Head(<<Stop(r), Stop(q)>>)[1] = "stopped" /\ Head(<<Stop(r), Stop(q)>>)[2] = r
              /\ Tail(<<Stop(r), Stop(q)>>) = <<Stop(q)>>
  /\ \A r, q : /\ Head(<<Run, Stop(r), Stop(q)>>)[1] = "running"
              /\ Tail(<<Run, Stop(r), Stop(q)>>) = <<Stop(r), Stop(q)>>
  BY HeadTailFacts, RunIsNoStop

LEMMA OnRunStarting ==
  ASSUME NEW f, NEW s, NEW R, R # <<>>, Head(R)[1] = "running", WhenStarting(f, s, R)
  PROVE  WhenRunning(f, s, Tail(R))
<1>1. CASE f = {} /\ s = "running" /\ R = <<Run>>
  BY <1>1, FirstReport
<1>2. CASE f = {} /\ s = "stopped" /\ \E e \in Errors : R = <<Run, Stop(e)>>
  BY <1>2, FirstReport
<1> QED
  BY <1>1, <1>2, FirstReport

LEMMA OnRunStopPending ==
  ASSUME NEW f, NEW s, NEW R, R # <<>>, Head(R)[1] = "running", WhenStopPending(f, s, R)
  PROVE  WhenStopPending(f, s, Tail(R))
<1>1. CASE f = {"stop"} /\ s = "running" /\ R = <<Run>>
  BY <1>1, FirstReport
<1>2. CASE f = {"stop"} /\ s = "stopped" /\ \E e \in Errors : R = <<Run, Stop(e)>>
  BY <1>2, FirstReport
<1>3. CASE f = {} /\ s = "stopped" /\ R = <<Run, Stop("reqStopSampling")>>
  BY <1>3, FirstReport
<1>4. CASE /\ f = {} /\ s = "stopped"
           /\ \E e \in Errors : R = <<Run, Stop(e), Stop("reqStopSampling")>>
  BY <1>4, FirstReport
<1> QED
  BY <1>1, <1>2, <1>3, <1>4, FirstReport

LEMMA OnStopStarting ==
  ASSUME NEW f, NEW s, NEW R, R # <<>>, Head(R)[1] = "stopped", WhenStarting(f, s, R)
  PROVE  Head(R)[2] = "triggerTimeout" /\ WhenStopped(f, s, Tail(R))
  BY FirstReport

LEMMA OnStopRunning ==
  ASSUME NEW f, NEW s, NEW R, R # <<>>, Head(R)[1] = "stopped", WhenRunning(f, s, R)
  PROVE  Head(R)[2] # "reqStopSampling" /\ WhenStopped(f, s, Tail(R))
<1>1. PICK e \in Errors : f = {} /\ s = "stopped" /\ R = <<Stop(e)>>
  OBVIOUS
<1>2. Head(R)[2] = e /\ Tail(R) = <<>>
  BY <1>1, FirstReport
<1> QED
  BY <1>1, <1>2 DEF Errors

LEMMA OnStopStopPending ==
  ASSUME NEW f, NEW s, NEW R, R # <<>>, Head(R)[1] = "stopped", WhenStopPending(f, s, R)
  PROVE  IF Head(R)[2] = "reqStopSampling" THEN WhenStopped(f, s, Tail(R))
                                           ELSE WhenStoppedStopPending(f, s, Tail(R))
<1>1. CASE f = {"stop"} /\ s = "stopped" /\ \E e \in Errors : R = <<Stop(e)>>
  BY <1>1, FirstReport DEF Errors
<1>2. CASE f = {} /\ s = "stopped" /\ R = <<Stop("reqStopSampling")>>
  BY <1>2, FirstReport
<1>3. CASE f = {} /\ s = "stopped" /\ \E e \in Errors : R = <<Stop(e), Stop("reqStopSampling")>>
  BY <1>3, FirstReport DEF Errors
<1> QED
  BY <1>1, <1>2, <1>3, FirstReport

LEMMA OnStopStoppedStopPending ==
  ASSUME NEW f, NEW s, NEW R, R # <<>>, Head(R)[1] = "stopped",
         WhenStoppedStopPending(f, s, R)
  PROVE  Head(R)[2] = "reqStopSampling" /\ WhenStopped(f, s, Tail(R))
  BY FirstReport

HIDE DEF Expected, WhenStopped, WhenStarting, WhenRunning, WhenStopPending,
         WhenStoppedStopPending

-----------------------------------------------------------------------------
(* What a step does to the reports in flight. *)
LEMMA UnsentIsReports ==
  ASSUME DoingMatches
  PROVE  Unsent(doing) \in Seq(Reports)
<1>1. <<>> \in Seq(Reports) /\ <<Run>> \in Seq(Reports)
      /\ \A r \in Reasons : <<Stop(r)>> \in Seq(Reports)
  BY ReportTypes
<1> QED
  BY <1>1, UnsentNone, UnsentOne DEF DoingMatches

LEMMA Produce ==
  ASSUME wq \in Seq(Reports), NEW r \in Reports, wq' = wq,
         Unsent(doing) = <<>>, Unsent(doing') = <<r>>
  PROVE  InFlight' = Append(InFlight, r)
<1>1. InFlight = wq
  BY ConcatFacts DEF InFlight
<1>2. InFlight' = wq \o <<r>>
  BY DEF InFlight
<1> QED
  BY <1>1, <1>2, ConcatFacts

LEMMA Send ==
  ASSUME wq \in Seq(Reports), NEW r \in Reports, wq' = Append(wq, r),
         Unsent(doing) = <<r>>, Unsent(doing') = <<>>
  PROVE  InFlight' = InFlight
<1>1. InFlight = Append(wq, r)
  BY ConcatFacts DEF InFlight
<1>2. Append(wq, r) \in Seq(Reports) /\ InFlight' = Append(wq, r) \o <<>>
  BY DEF InFlight
<1> QED
  BY <1>1, <1>2, ConcatFacts

LEMMA Consume ==
  ASSUME wq \in Seq(Reports), DoingMatches, wq # <<>>, wq' = Tail(wq), doing' = doing
  PROVE  InFlight # <<>> /\ Head(InFlight) = Head(wq) /\ InFlight' = Tail(InFlight)
<1>1. Unsent(doing) \in Seq(Reports)
  BY UnsentIsReports
<1>2. InFlight' = Tail(wq) \o Unsent(doing)
  BY DEF InFlight
<1>3. Len(InFlight) # 0
  BY <1>1 DEF InFlight
<1> QED
  BY <1>1, <1>2, <1>3, ConcatFacts DEF InFlight

LEMMA Keep ==
  ASSUME wq' = wq, Unsent(doing') = Unsent(doing)
  PROVE  InFlight' = InFlight
  BY DEF InFlight

-----------------------------------------------------------------------------
(* The steps of the TTCE's thread. *)
LEMMA InvFacts ==
  ASSUME IInv
  PROVE  /\ wq \in Seq(Reports)
         /\ doing = <<>> => Unsent(doing) = <<>>
         /\ doing # <<>> => thread
         /\ thread \in BOOLEAN /\ started \in BOOLEAN /\ panic = FALSE
  BY UnsentNone DEF IInv, TypeOK, TTCETypeOK, CtrlInv, NoThread, Reports

LEMMA ThreadStepFrame ==
  ASSUME IInv, thread, UNCHANGED <<thread, ctrl, client, panic>>,
         Expected(ctrl, asyncReqFlags', state', InFlight'), DoingMatches', DelayKept'
  PROVE  CtrlInv'
  BY DEF IInv, CtrlInv, NoThread, Holding

LEMMA RequestedStopStep ==
  ASSUME IInv, Triggered, UNCHANGED <<ctrlVars, clientVars>>,
         NEW calls, calls = (IF state = "running" THEN <<Call("OnStop")>> ELSE <<>>),
         OnRequestedStop(calls)
  PROVE  CtrlInv'
<1> USE DEF Triggered, OnRequestedStop, SwitchTo
<1> DEFINE r == "reqStopSampling"
<1>1. doing' = IF state = "running" THEN <<Call("OnStop"), Change("stopped", r)>>
                                    ELSE <<Change("stopped", r)>>
  BY CallLists
<1>2. started <=> state = "running"
  BY InvFacts DEF IInv, CtrlInv, DoingMatches
<1>3. r \in Reasons \ {"none"} /\ state' = "stopped" /\ started' = started
  BY DEF Reasons
<1>4. Unsent(doing') = <<Stop(r)>> /\ Stop(r) \in Reports
  BY <1>1, <1>3, UnsentOne, ReportTypes
<1>5. wq' = wq /\ ctrl' = ctrl /\ panic' = panic /\ client' = client
  BY DEF ctrlVars, clientVars
<1>6. InFlight' = Append(InFlight, Stop(r))
  BY <1>4, <1>5, InvFacts, Produce
<1>7. Expected(ctrl, asyncReqFlags', state', InFlight')
  BY <1>3, <1>6, ExpectedAnswer DEF IInv, CtrlInv
<1>8. DoingMatches'
  BY <1>1, <1>2, <1>3, InvFacts DEF DoingMatches
<1> QED
  BY <1>3, <1>5, <1>7, <1>8, ThreadStepFrame DEF DelayKept

LEMMA ErrorStep ==
  ASSUME IInv, Triggered, UNCHANGED <<ctrlVars, clientVars>>,
         NEW e \in Errors, state = "running" \/ (state = "waitLock" /\ e = "triggerTimeout"),
         NEW calls, calls = (IF state = "running" THEN <<Call("OnStop")>> ELSE <<>>),
         StopOnError(e, calls)
  PROVE  CtrlInv'
<1> USE DEF Triggered, StopOnError, SwitchTo
<1>1. doing' = IF state = "running" THEN <<Call("OnStop"), Change("stopped", e)>>
                                    ELSE <<Change("stopped", e)>>
  BY CallLists
<1>2. started <=> state = "running"
  BY InvFacts DEF IInv, CtrlInv, DoingMatches
<1>3. e \in Reasons \ {"none"} /\ state' = "stopped" /\ started' = started
  BY DEF Reasons, Errors
<1>4. Unsent(doing') = <<Stop(e)>> /\ Stop(e) \in Reports
  BY <1>1, <1>3, UnsentOne, ReportTypes
<1>5. wq' = wq /\ ctrl' = ctrl /\ panic' = panic /\ client' = client
  BY DEF ctrlVars, clientVars
<1>6. InFlight' = Append(InFlight, Stop(e))
  BY <1>4, <1>5, InvFacts, Produce
<1>7. Expected(ctrl, asyncReqFlags', state', InFlight')
  BY <1>3, <1>6, ExpectedError DEF IInv, CtrlInv
<1>8. DoingMatches'
  BY <1>1, <1>2, <1>3, InvFacts DEF DoingMatches
<1> QED
  BY <1>3, <1>5, <1>7, <1>8, ThreadStepFrame DEF DelayKept

(* The first of the calls to be made, and the others. *)
LEMMA FirstCall ==
  /\ \A s, r : /\ Head(<<Change(s, r)>>) = Change(s, r) /\ Tail(<<Change(s, r)>>) = <<>>
              /\ Change(s, r).call = "OnStateChange"
              /\ Change(s, r).state = s /\ Change(s, r).reason = r
  /\ \A n : /\ Head(<<Call(n)>>) = Call(n) /\ Tail(<<Call(n)>>) = <<>>
           /\ Call(n).call = n /\ Call(n).state = "none"
  /\ \A s, r, n : /\ Head(<<Change(s, r), Call(n)>>) = Change(s, r)
                 /\ Tail(<<Change(s, r), Call(n)>>) = <<Call(n)>>
                 /\ Head(<<Call(n), Change(s, r)>>) = Call(n)
                 /\ Tail(<<Call(n), Change(s, r)>>) = <<Change(s, r)>>
<1>1. \A s, r : /\ Change(s, r).call = "OnStateChange"
               /\ Change(s, r).state = s /\ Change(s, r).reason = r
  BY DEF Change
<1>2. \A n : Call(n).call = n /\ Call(n).state = "none"
  BY DEF Call
<1> QED
  BY <1>1, <1>2, HeadTailFacts

LEMMA CycleStep ==
  ASSUME IInv, Cycle, UNCHANGED <<ctrlVars, clientVars>>
  PROVE  CtrlInv'
<1> USE InvFacts
<1>0. wq' = wq /\ ctrl' = ctrl /\ panic' = panic /\ client' = client
  BY DEF ctrlVars, clientVars
<1>1. CASE InStopped
  <2>1. CASE OnRequestedStop(<<>>)
    BY <1>1, <2>1, RequestedStopStep DEF InStopped
  <2>2. CASE "start" \in asyncReqFlags /\ ~OnRequestedStop(<<>>)
    <3>1. /\ state' = "starting" /\ doing' = <<Change("starting", "none")>>
          /\ asyncReqFlags' = asyncReqFlags \ {"start"}
          /\ UNCHANGED <<thread, started>> /\ skipped' = startDelayCnt'
      BY <1>1, <2>2 DEF InStopped, SwitchTo
    <3>2. ~started /\ doing = <<>> /\ thread
      BY <1>1 DEF InStopped, Triggered, IInv, CtrlInv, DoingMatches
    <3>3. InFlight' = InFlight
      BY <3>1, <3>2, <1>0, UnsentNone, Keep
    <3>4. Expected(ctrl, asyncReqFlags', state', InFlight')
      BY <2>2, <3>1, <3>3, ExpectedStarting DEF IInv, CtrlInv
    <3>5. DoingMatches'
      BY <3>1, <3>2 DEF DoingMatches
    <3> QED
      BY <1>0, <3>1, <3>2, <3>4, <3>5, ThreadStepFrame DEF DelayKept
  <2> QED
    BY <1>1, <2>1, <2>2 DEF InStopped
<1>2. CASE InStarting
  <2>1. CASE OnRequestedStop(<<>>)
    BY <1>2, <2>1, RequestedStopStep DEF InStarting
  <2>2. CASE "stop" \notin asyncReqFlags /\ startDelayCnt = 0
    <3>1. /\ state' = "waitLock" /\ doing' = <<Change("waitLock", "none")>>
          /\ UNCHANGED <<asyncReqFlags, thread, started>>
      BY <1>2, <2>2 DEF InStarting, SwitchTo, OnRequestedStop
    <3>2. ~started /\ doing = <<>> /\ thread /\ state = "starting"
      BY <1>2 DEF InStarting, Triggered, IInv, CtrlInv, DoingMatches
    <3>3. InFlight' = InFlight
      BY <3>1, <3>2, <1>0, UnsentNone, Keep
    <3>4. Expected(ctrl, asyncReqFlags', state', InFlight')
      BY <2>2, <3>1, <3>2, <3>3, ExpectedWaitLock DEF IInv, CtrlInv
    <3>5. DoingMatches'
      BY <3>1, <3>2 DEF DoingMatches
    <3> QED
      BY <1>0, <3>1, <3>2, <3>4, <3>5, ThreadStepFrame DEF DelayKept
  <2>3. CASE "stop" \notin asyncReqFlags /\ startDelayCnt > 0
    <3>1. /\ UNCHANGED <<asyncReqFlags, state, thread, doing, started>>
          /\ startDelayCnt' = startDelayCnt - 1 /\ skipped' = skipped - 1
      BY <1>2, <2>3 DEF InStarting, OnRequestedStop
    <3>2. state = "starting" /\ thread
      BY <1>2 DEF InStarting, Triggered
    <3>3. InFlight' = InFlight
      BY <3>1, <1>0, Keep
    <3> QED
      BY <1>0, <3>1, <3>2, <3>3, ThreadStepFrame DEF DelayKept, IInv, CtrlInv, DoingMatches
  <2> QED
    BY <1>2, <2>1, <2>2, <2>3 DEF InStarting
<1>3. ASSUME NEW timeout \in BOOLEAN, NEW locked \in BOOLEAN, InWaitLock(timeout, locked)
      PROVE  CtrlInv'
  <2>1. CASE StopOnError("triggerTimeout", <<>>)
    BY <1>3, <2>1, ErrorStep DEF InWaitLock, Errors
  <2>2. CASE OnRequestedStop(<<>>)
    BY <1>3, <2>2, RequestedStopStep DEF InWaitLock
  <2>3. CASE /\ "stop" \notin asyncReqFlags
             /\ SwitchTo("running", <<Change("running", "none"), Call("OnStart")>>)
             /\ UNCHANGED <<asyncReqFlags, startDelayCnt, skipped>>
    <3>1. /\ state' = "running" /\ doing' = <<Change("running", "none"), Call("OnStart")>>
          /\ UNCHANGED <<asyncReqFlags, thread, started>>
      BY <2>3 DEF SwitchTo
    <3>2. ~started /\ doing = <<>> /\ thread /\ state = "waitLock"
      BY <1>3 DEF InWaitLock, Triggered, IInv, CtrlInv, DoingMatches
    <3>3. InFlight' = Append(InFlight, Run)
      BY <3>1, <3>2, <1>0, UnsentNone, UnsentOne, ReportTypes, Produce
    <3>4. Expected(ctrl, asyncReqFlags', state', InFlight')
      BY <2>3, <3>1, <3>2, <3>3, ExpectedRunning DEF IInv, CtrlInv
    <3>5. DoingMatches'
      BY <3>1, <3>2 DEF DoingMatches
    <3> QED
      BY <1>0, <3>1, <3>2, <3>4, <3>5, ThreadStepFrame DEF DelayKept
  <2> QED
    BY <1>3, <2>1, <2>2, <2>3 DEF InWaitLock
<1>4. ASSUME NEW timeout \in BOOLEAN, NEW locked \in BOOLEAN, InRunning(timeout, locked)
      PROVE  CtrlInv'
  <2>1. ASSUME NEW e \in Errors, StopOnError(e, <<Call("OnStop")>>)
        PROVE  CtrlInv'
    BY <1>4, <2>1, ErrorStep DEF InRunning
  <2>2. CASE OnRequestedStop(<<Call("OnStop")>>)
    BY <1>4, <2>2, RequestedStopStep DEF InRunning
  <2>3. CASE /\ SwitchTo("running", <<Call("Sample")>>)
             /\ UNCHANGED <<asyncReqFlags, startDelayCnt, skipped>>
    <3>1. /\ state' = state /\ doing' = <<Call("Sample")>>
          /\ UNCHANGED <<asyncReqFlags, thread, started>>
      BY <1>4, <2>3 DEF InRunning, SwitchTo
    <3>2. started /\ doing = <<>> /\ thread /\ state = "running"
      BY <1>4 DEF InRunning, Triggered, IInv, CtrlInv, DoingMatches
    <3>3. InFlight' = InFlight
      BY <3>1, <3>2, <1>0, UnsentNone, Keep
    <3>4. Expected(ctrl, asyncReqFlags', state', InFlight')
      BY <3>1, <3>3 DEF IInv, CtrlInv
    <3>5. DoingMatches'
      BY <3>1, <3>2 DEF DoingMatches
    <3> QED
      BY <1>0, <3>1, <3>2, <3>4, <3>5, ThreadStepFrame DEF DelayKept
  <2> QED
    BY <1>4, <2>1, <2>2, <2>3 DEF InRunning, Errors

<1>5. ASSUME NEW result \in BOOLEAN, SampleReturns(result)
      PROVE  CtrlInv'
  <2>1. doing = <<Call("Sample")>> /\ started /\ state = "running" /\ thread
    <3>1. doing # <<>> /\ Head(doing) = Call("Sample")
      BY <1>5 DEF SampleReturns
    <3>2. /\ \A s, r, n : doing # <<Change(s, r)>> /\ doing # <<Change(s, r), Call(n)>>
          /\ \A r : doing # <<Call("OnStop"), Change("stopped", r)>>
          /\ doing # <<Call("OnStart")>>
      BY <3>1, FirstCall
    <3> QED
      BY <3>1, <3>2 DEF IInv, CtrlInv, DoingMatches
  <2>2. UNCHANGED <<asyncReqFlags, thread, started>>
    BY <1>5 DEF SampleReturns
  <2>3. CASE result
    <3>1. doing' = <<>> /\ state' = state
      BY <1>5, <2>3 DEF SampleReturns
    <3>2. InFlight' = InFlight
      BY <1>0, <2>1, <3>1, UnsentNone, Keep
    <3>3. Expected(ctrl, asyncReqFlags', state', InFlight')
      BY <2>2, <3>1, <3>2 DEF IInv, CtrlInv
    <3>4. DoingMatches'
      BY <2>1, <2>2, <3>1 DEF DoingMatches
    <3> QED
      BY <1>0, <2>1, <2>2, <3>1, <3>3, <3>4, ThreadStepFrame DEF DelayKept
  <2>4. CASE ~result
    <3> DEFINE e == "sampleRetFalse"
    <3>1. doing' = <<Call("OnStop"), Change("stopped", e)>> /\ state' = "stopped"
      BY <1>5, <2>4 DEF SampleReturns
    <3>2. e \in Reasons \ {"none"} /\ e \in Errors
      BY DEF Reasons, Errors
    <3>3. InFlight' = Append(InFlight, Stop(e))
      BY <1>0, <2>1, <3>1, <3>2, UnsentNone, UnsentOne, ReportTypes, Produce
    <3>4. Expected(ctrl, asyncReqFlags', state', InFlight')
      BY <2>1, <2>2, <3>1, <3>2, <3>3, ExpectedError DEF IInv, CtrlInv
    <3>5. DoingMatches'
      BY <2>1, <2>2, <3>1, <3>2 DEF DoingMatches
    <3> QED
      BY <1>0, <2>1, <2>2, <3>1, <3>4, <3>5, ThreadStepFrame DEF DelayKept
  <2> QED
    BY <2>3, <2>4
<1>6. CASE CallHook
  <2>1. /\ doing # <<>> /\ Head(doing).call \in {"OnStart", "OnStop"}
        /\ started' = (Head(doing).call = "OnStart") /\ doing' = Tail(doing)
        /\ UNCHANGED <<asyncReqFlags, state, startDelayCnt, thread, skipped>>
    BY <1>6 DEF CallHook
  <2>2. \/ /\ doing = <<Call("OnStart")>> /\ state = "running"
           /\ doing' = <<>> /\ started'
        \/ \E r \in Reasons \ {"none"} :
             /\ doing = <<Call("OnStop"), Change("stopped", r)>> /\ state = "stopped"
             /\ doing' = <<Change("stopped", r)>> /\ ~started'
    <3>1. CASE doing = <<Call("OnStart")>> /\ state = "running"
      BY <2>1, <3>1, FirstCall
    <3>2. ASSUME NEW r \in Reasons \ {"none"}, state = "stopped",
                 doing = <<Call("OnStop"), Change("stopped", r)>>
          PROVE  doing' = <<Change("stopped", r)>> /\ ~started'
      <4>1. /\ Head(doing) = Call("OnStop") /\ Call("OnStop").call = "OnStop"
            /\ Tail(doing) = <<Change("stopped", r)>>
        BY <3>2, FirstCall
      <4> QED
        BY <2>1, <4>1
    <3>3. ASSUME NEW s, NEW r, doing = <<Change(s, r)>> PROVE FALSE
      BY <2>1, <3>3, FirstCall
    <3>4. ASSUME NEW s, NEW r, NEW n, doing = <<Change(s, r), Call(n)>> PROVE FALSE
      BY <2>1, <3>4, FirstCall
    <3>5. doing # <<Call("Sample")>>
      BY <2>1, FirstCall
    <3> QED
      BY <2>1, <3>1, <3>2, <3>3, <3>4, <3>5 DEF IInv, CtrlInv, DoingMatches
  <2>3. Unsent(doing') = Unsent(doing)
    BY <2>2, UnsentNone, UnsentOne
  <2>4. InFlight' = InFlight
    BY <1>0, <2>3, Keep
  <2>5. Expected(ctrl, asyncReqFlags', state', InFlight')
    BY <2>1, <2>4 DEF IInv, CtrlInv
  <2>6. DoingMatches'
    BY <2>1, <2>2 DEF DoingMatches
  <2> QED
    BY <1>0, <2>1, <2>5, <2>6, ThreadStepFrame DEF DelayKept, IInv, CtrlInv
<1> QED
  BY <1>1, <1>2, <1>3, <1>4, <1>5, <1>6 DEF Cycle

LEMMA ReportStep ==
  ASSUME IInv, NEW s \in States, NEW r \in Reasons, OnTTCEStateChange(s, r)
  PROVE  CtrlInv'
<1> USE InvFacts
<1>1. /\ doing # <<>> /\ Head(doing) = Change(s, r) /\ doing' = Tail(doing)
      /\ UNCHANGED <<asyncReqFlags, state, startDelayCnt, thread, started, skipped>>
      /\ wq' = IF s \in {"stopped", "running"} THEN Append(wq, <<s, r>>) ELSE wq
      /\ panic' = (panic \/ (s = "stopped" /\ r = "none"))
      /\ UNCHANGED <<ctrl, client>>
  BY DEF OnTTCEStateChange, OnStateChange, clientVars
<1>2. ASSUME NEW t, NEW q, Head(doing) = Change(t, q)
      PROVE  t = s /\ q = r
  BY <1>1, <1>2, FirstCall
<1>3. ASSUME NEW n PROVE Head(doing) # Call(n)
  BY <1>1, <1>3, FirstCall DEF States
<1>4. ASSUME s # "stopped" \/ r # "none" PROVE panic' = panic
  BY <1>1, <1>4
<1>5. CASE /\ doing = <<Change(state, "none")>> /\ state \in {"starting", "waitLock"} /\ ~started
  <2>1. s = state /\ r = "none" /\ doing' = <<>>
    BY <1>1, <1>2, <1>5, FirstCall
  <2>2. wq' = wq /\ panic' = panic
    BY <1>1, <1>5, <1>4, <2>1
  <2>3. InFlight' = InFlight
    BY <1>5, <2>1, <2>2, UnsentNone, Keep
  <2>4. DoingMatches'
    BY <1>1, <1>5, <2>1 DEF DoingMatches
  <2>5. Expected(ctrl, asyncReqFlags', state', InFlight')
    BY <1>1, <2>3 DEF IInv, CtrlInv
  <2>6. DelayKept'
    BY <1>1 DEF IInv, CtrlInv, DelayKept
  <2> QED
    BY <1>1, <2>2, <2>4, <2>5, <2>6, ThreadStepFrame
<1>6. CASE /\ doing = <<Change("running", "none"), Call("OnStart")>> /\ state = "running"
           /\ ~started
  <2>1. s = "running" /\ r = "none" /\ doing' = <<Call("OnStart")>>
    BY <1>1, <1>2, <1>6, FirstCall
  <2>2. wq' = Append(wq, Run) /\ panic' = panic
    BY <1>1, <1>4, <2>1 DEF Run
  <2>3. InFlight' = InFlight
    BY <1>6, <2>1, <2>2, UnsentNone, UnsentOne, ReportTypes, Send
  <2>4. DoingMatches'
    BY <1>1, <1>6, <2>1 DEF DoingMatches
  <2>5. Expected(ctrl, asyncReqFlags', state', InFlight')
    BY <1>1, <2>3 DEF IInv, CtrlInv
  <2>6. DelayKept'
    BY <1>1 DEF IInv, CtrlInv, DelayKept
  <2> QED
    BY <1>1, <2>2, <2>4, <2>5, <2>6, ThreadStepFrame
<1>7. ASSUME NEW q \in Reasons \ {"none"}, doing = <<Change("stopped", q)>>,
             state = "stopped", ~started
      PROVE  CtrlInv'
  <2>1. s = "stopped" /\ r = q /\ doing' = <<>>
    BY <1>1, <1>2, <1>7, FirstCall
  <2>2. wq' = Append(wq, Stop(q)) /\ panic' = panic
    BY <1>1, <1>7, <1>4, <2>1 DEF Stop
  <2>3. InFlight' = InFlight
    BY <1>7, <2>1, <2>2, UnsentNone, UnsentOne, ReportTypes, Send
  <2>4. DoingMatches'
    BY <1>1, <1>7, <2>1 DEF DoingMatches
  <2>5. Expected(ctrl, asyncReqFlags', state', InFlight')
    BY <1>1, <2>3 DEF IInv, CtrlInv
  <2>6. DelayKept'
    BY <1>1 DEF IInv, CtrlInv, DelayKept
  <2> QED
    BY <1>1, <2>2, <2>4, <2>5, <2>6, ThreadStepFrame
<1>8. /\ doing # <<Call("OnStart")>> /\ doing # <<Call("Sample")>>
      /\ \A q : doing # <<Call("OnStop"), Change("stopped", q)>>
  BY <1>3, FirstCall
<1> QED
  BY <1>1, <1>5, <1>6, <1>7, <1>8 DEF IInv, CtrlInv, DoingMatches

-----------------------------------------------------------------------------
(* The steps of the controller and its users. *)
LEMMA CtrlStepFrame ==
  ASSUME IInv, UNCHANGED <<state, thread, doing, started>>, DelayKept', ~panic', Holding',
         Expected(ctrl', asyncReqFlags', state', InFlight')
  PROVE  CtrlInv'
  BY DEF IInv, CtrlInv, NoThread, DoingMatches

LEMMA StartEffect ==
  ASSUME IInv, ctrl = "stopped", NEW delay \in 0 .. MaxDelay
  PROVE  MayStart
  BY ExpectedRequestStart DEF IInv, CtrlInv, MayStart

LEMMA StartAsyncStep ==
  ASSUME IInv, StartAsync
  PROVE  CtrlInv'
<1>1. state = "stopped" /\ asyncReqFlags = {}
      /\ Expected("starting", {"start"}, state, InFlight)
  BY ExpectedRequestStart DEF IInv, CtrlInv, StartAsync
<1>2. /\ ctrl' = "starting" /\ asyncReqFlags' = {"start"}
      /\ UNCHANGED <<state, thread, doing, started, wq, panic, client>>
  BY <1>1 DEF StartAsync, MayStart, RequestStartSampling, clientVars
<1>3. InFlight' = InFlight
  BY <1>2 DEF InFlight
<1>4. \A c \in Clients : client[c] = "idle"
  <2> DEFINE Users == {c \in Clients : client[c] # "idle"}
  <2>1. IsFiniteSet(Users) /\ Cardinality(Users) = 0
    BY CtrlAssumption, FS_Subset DEF IInv, TypeOK, StartAsync
  <2>2. Users = {}
    BY <2>1, FS_EmptySet
  <2> QED
    BY <2>2
<1> QED
  BY <1>1, <1>2, <1>3, <1>4, CtrlStepFrame DEF IInv, CtrlInv, DelayKept, Holding

LEMMA StopEffectStep ==
  ASSUME IInv, StopEffect, wq' = wq, UNCHANGED client \/ \E c \in Clients :
           ClientMoves(c, {"locked"}, "checking")
  PROVE  CtrlInv'
<1>1. "stop" \notin asyncReqFlags /\ Expected("stopPending", {"stop"}, state, InFlight)
  BY ExpectedRequestStop DEF IInv, CtrlInv, StopEffect
<1>2. /\ ctrl' = "stopPending" /\ asyncReqFlags' = {"stop"}
      /\ UNCHANGED <<state, thread, doing, started, startDelayCnt, skipped, wq, panic>>
  BY <1>1 DEF StopEffect, MayStop, RequestStopSampling
<1>3. InFlight' = InFlight
  BY <1>2 DEF InFlight
<1>4. Holding'
  BY DEF Holding, IInv, CtrlInv, StopEffect, ClientMoves, TypeOK
<1> QED
  BY <1>1, <1>2, <1>3, <1>4, CtrlStepFrame DEF IInv, CtrlInv, DelayKept

(* Steps that leave the TTCE, the controller and the reports alone. *)
LEMMA ClientStepFrame ==
  ASSUME IInv, UNCHANGED <<ttceVars, ctrl, wq, panic>>, Holding'
  PROVE  CtrlInv'
<1>1. UNCHANGED <<asyncReqFlags, state, startDelayCnt, thread, doing, started, skipped>>
      /\ InFlight' = InFlight
  BY DEF ttceVars, InFlight
<1> QED
  BY <1>1, CtrlStepFrame DEF IInv, CtrlInv, DelayKept

LEMMA ClientMovesStep ==
  ASSUME IInv, UNCHANGED <<ttceVars, ctrl, wq, panic>>,
         NEW c \in Clients, NEW from, NEW to, ClientMoves(c, from, to),
         to = "holding" => ctrl = "stopped"
  PROVE  CtrlInv'
<1>1. Holding'
  BY DEF IInv, TypeOK, CtrlInv, Holding, ClientMoves
<1> QED
  BY <1>1, ClientStepFrame

-----------------------------------------------------------------------------
(* The controller takes a report from the work queue. *)
LEMMA OnRunStep ==
  ASSUME IInv, OnRun_WQ
  PROVE  CtrlInv'
<1> DEFINE R == InFlight
<1>1. /\ wq # <<>> /\ Head(wq)[1] = "running" /\ wq' = Tail(wq)
      /\ ctrl' = (IF ctrl = "starting" THEN "running" ELSE ctrl)
      /\ panic' = (panic \/ ctrl \notin {"starting", "stopPending"})
      /\ UNCHANGED <<asyncReqFlags, state, startDelayCnt, thread, doing, started, skipped, client>>
  BY DEF OnRun_WQ, ttceVars, clientVars
<1>2. R # <<>> /\ Head(R)[1] = "running" /\ R' = Tail(R)
  BY <1>1, InvFacts, Consume DEF IInv, CtrlInv
<1>3. Expected(ctrl, asyncReqFlags, state, R)
  BY DEF IInv, CtrlInv
<1> HIDE DEF R
<1>4. ctrl \in {"starting", "stopPending"}
  BY <1>2, <1>3, FirstReport DEF Expected, WhenStopped, WhenRunning, WhenStoppedStopPending
<1>5. /\ ctrl = "starting" => WhenRunning(asyncReqFlags, state, R')
      /\ ctrl = "stopPending" => WhenStopPending(asyncReqFlags, state, R')
  BY <1>2, <1>3, OnRunStarting, OnRunStopPending DEF Expected
<1>6. Expected(ctrl', asyncReqFlags', state', R')
  BY <1>1, <1>4, <1>5 DEF Expected
<1>7. Holding' /\ ~panic' /\ DelayKept'
  BY <1>1, <1>4, InvFacts DEF IInv, CtrlInv, Holding, DelayKept
<1> QED
  BY <1>1, <1>6, <1>7, CtrlStepFrame DEF R

(* A report of a stop: what the controller makes of it in each state. *)
LEMMA OnStopOutcomes ==
  ASSUME IInv, OnStop_WQ
  PROVE  \/ Unexpected \/ BecomesStopped \/ Becomes("stoppedStopPending")
         \/ \E delay \in 0 .. MaxDelay : Restart(delay) /\ remaining > 0
<1> ctrl \in CtrlStates
  BY DEF IInv, TypeOK
<1>1. CASE ctrl = "running"
  BY <1>1 DEF OnStop_WQ, StopWhenRunning
<1>2. CASE ctrl = "stopPending"
  BY <1>2 DEF OnStop_WQ, StopWhenPending
<1>3. CASE ctrl \in {"stopped", "starting", "stoppedStopPending"}
  BY <1>3 DEF OnStop_WQ
<1> QED
  BY <1>1, <1>2, <1>3 DEF CtrlStates

LEMMA OnStopStep ==
  ASSUME IInv, OnStop_WQ
  PROVE  CtrlInv'
<1> DEFINE R == InFlight
           reason == Head(wq)[2]
<1>1. wq # <<>> /\ Head(wq)[1] = "stopped" /\ wq' = Tail(wq)
  BY DEF OnStop_WQ
<1>2. doing' = doing
  BY OnStopOutcomes DEF Unexpected, Becomes, BecomesStopped, Restart, RequestStartSampling,
                        ttceVars
<1>3. R # <<>> /\ Head(R)[1] = "stopped" /\ Head(R)[2] = reason /\ R' = Tail(R)
  BY <1>1, <1>2, InvFacts, Consume DEF IInv, CtrlInv
<1>4. Expected(ctrl, asyncReqFlags, state, R)
  BY DEF IInv, CtrlInv
<1> HIDE DEF R
<1>5. ctrl # "stopped" /\ \A c \in Clients : client[c] # "holding"
  BY <1>3, <1>4 DEF Expected, WhenStopped, IInv, CtrlInv, Holding
<1>6. ASSUME BecomesStopped, WhenStopped(asyncReqFlags, state, R')
      PROVE  CtrlInv'
  <2>1. /\ ctrl' = "stopped" /\ panic' = panic
        /\ UNCHANGED <<asyncReqFlags, state, startDelayCnt, thread, doing, started, skipped>>
    BY <1>6 DEF BecomesStopped, ttceVars
  <2>2. Expected(ctrl', asyncReqFlags', state', R')
    BY <1>6, <2>1 DEF Expected
  <2>3. Holding' /\ ~panic' /\ DelayKept'
    BY <2>1 DEF IInv, CtrlInv, Holding, DelayKept
  <2> QED
    BY <2>1, <2>2, <2>3, CtrlStepFrame DEF R
<1>7. CASE ctrl = "starting"
  BY <1>3, <1>4, <1>6, <1>7, OnStopStarting DEF Expected, OnStop_WQ
<1>8. CASE ctrl = "stoppedStopPending"
  BY <1>3, <1>4, <1>6, <1>8, OnStopStoppedStopPending DEF Expected, OnStop_WQ
<1>9. CASE ctrl = "stopPending"
  <2>1. IF reason = "reqStopSampling" THEN WhenStopped(asyncReqFlags, state, R')
                                      ELSE WhenStoppedStopPending(asyncReqFlags, state, R')
    BY <1>3, <1>4, <1>9, OnStopStopPending DEF Expected
  <2>2. CASE reason = "reqStopSampling"
    BY <1>6, <1>9, <2>1, <2>2 DEF OnStop_WQ, StopWhenPending
  <2>3. CASE reason # "reqStopSampling"
    <3>1. /\ ctrl' = "stoppedStopPending" /\ panic' = panic /\ client' = client
          /\ UNCHANGED <<asyncReqFlags, state, startDelayCnt, thread, doing, started, skipped>>
      BY <1>9, <2>3 DEF OnStop_WQ, StopWhenPending, Becomes, ttceVars
    <3>2. Expected(ctrl', asyncReqFlags', state', R')
      BY <2>1, <2>3, <3>1 DEF Expected
    <3>3. Holding' /\ ~panic' /\ DelayKept'
      BY <1>5, <3>1 DEF IInv, CtrlInv, Holding, DelayKept
    <3> QED
      BY <3>1, <3>2, <3>3, CtrlStepFrame DEF R
  <2> QED
    BY <2>2, <2>3
<1>10. CASE ctrl = "running"
  <2>1. reason # "reqStopSampling" /\ WhenStopped(asyncReqFlags, state, R')
    BY <1>3, <1>4, <1>10, OnStopRunning DEF Expected
  <2>2. BecomesStopped \/ \E delay \in 0 .. MaxDelay : Restart(delay)
    BY <1>10, <2>1 DEF OnStop_WQ, StopWhenRunning
  <2>3. ASSUME NEW delay \in 0 .. MaxDelay, Restart(delay)
        PROVE  CtrlInv'
    <3>1. state = "stopped" /\ asyncReqFlags = {} /\ Expected("starting", {"start"}, state, R')
      BY <2>1, ExpectedRequestStart DEF Expected
    <3>2. /\ ctrl' = "starting" /\ asyncReqFlags' = {"start"}
          /\ UNCHANGED <<state, thread, doing, started, skipped, panic, client>>
      BY <2>3, <3>1 DEF Restart, MayStart, RequestStartSampling
    <3>3. Holding' /\ ~panic' /\ DelayKept'
      BY <1>5, <3>1, <3>2 DEF IInv, CtrlInv, Holding, DelayKept
    <3> QED
      BY <3>1, <3>2, <3>3, CtrlStepFrame DEF R
  <2> QED
    BY <1>6, <2>1, <2>2, <2>3
<1> QED
  BY <1>5, <1>7, <1>8, <1>9, <1>10 DEF IInv, TypeOK, CtrlStates

-----------------------------------------------------------------------------
(* Every step preserves CtrlInv. *)
LEMMA CtrlInvStep ==
  ASSUME IInv, Next
  PROVE  CtrlInv'
<1>1. CASE StartAsync
  BY <1>1, StartAsyncStep
<1>2. CASE StopAsync
  BY <1>2, StopEffectStep DEF StopAsync, clientVars
<1>3. CASE RefreshRemainingStartAttempts \/ \E n \in 0 .. MaxAttempts : SetRestartAttempts(n)
  <2>1. UNCHANGED <<ttceVars, ctrl, wq, panic, client>>
    BY <1>3 DEF RefreshRemainingStartAttempts, SetRestartAttempts, clientVars
  <2>2. Holding'
    BY <2>1 DEF IInv, CtrlInv, Holding
  <2> QED
    BY <2>1, <2>2, ClientStepFrame
<1>4. CASE OwnerStartsThread
  <2>1. /\ ~thread /\ thread' /\ state' = "stopped"
        /\ UNCHANGED <<asyncReqFlags, startDelayCnt, doing, started, skipped,
                       ctrl, wq, panic, client>>
    BY <1>4 DEF OwnerStartsThread, StartThread, ctrlVars, clientVars
  <2>2. state = "stopped" /\ doing = <<>>
    BY <2>1 DEF IInv, CtrlInv, NoThread
  <2>3. InFlight' = InFlight
    BY <2>1, Keep
  <2> QED
    BY <2>1, <2>2, <2>3 DEF IInv, CtrlInv, DoingMatches, NoThread, Holding, DelayKept
<1>5. CASE OwnerStopsThread
  <2>1. /\ doing = <<>> /\ (\E c \in Clients : client[c] = "holding")
        /\ UNCHANGED <<asyncReqFlags, state, startDelayCnt, doing, started, skipped,
                       ctrl, wq, panic, client>>
    BY <1>5 DEF OwnerStopsThread, StopThread, ctrlVars, clientVars
  <2>2. state = "stopped"
    BY <2>1 DEF IInv, CtrlInv, Holding, Expected, WhenStopped
  <2>3. InFlight' = InFlight
    BY <2>1, Keep
  <2> QED
    BY <2>1, <2>2, <2>3 DEF IInv, CtrlInv, DoingMatches, NoThread, Holding, DelayKept
<1>6. CASE TTCEStep
  BY <1>6, CycleStep, ReportStep DEF TTCEStep
<1>7. CASE QueueStep
  BY <1>7, OnRunStep, OnStopStep DEF QueueStep
<1>8. ASSUME NEW c \in Clients, LockStart(c) \/ WaitUntilStopped(c) \/ UnlockStart(c)
                                \/ SpuriousWakeup(c)
      PROVE  CtrlInv'
  <2> USE ClientMovesStep DEF ctrlVars
  <2>1. CASE LockStart(c)
    BY <2>1 DEF LockStart
  <2>2. CASE WaitUntilStopped(c)
    BY <2>2 DEF WaitUntilStopped
  <2>3. CASE UnlockStart(c)
    BY <2>3 DEF UnlockStart
  <2>4. CASE SpuriousWakeup(c)
    BY <2>4 DEF SpuriousWakeup
  <2> QED
    BY <1>8, <2>1, <2>2, <2>3, <2>4
<1>9. ASSUME NEW c \in Clients, ClientStops(c)
      PROVE  CtrlInv'
  <2>1. ClientMoves(c, {"locked"}, "checking") /\ wq' = wq
    BY <1>9 DEF ClientStops
  <2>2. StopEffect \/ UNCHANGED <<ttceVars, ctrl, panic>>
    BY <1>9 DEF ClientStops
  <2> QED
    BY <2>1, <2>2, StopEffectStep, ClientMovesStep
<1> QED
  BY <1>1, <1>2, <1>3, <1>4, <1>5, <1>6, <1>7, <1>8, <1>9 DEF Next

-----------------------------------------------------------------------------
(* Type correctness; nbOfStartLocks counts the clients that hold a lock. *)
Modes == {"idle", "locked", "checking", "waiting", "woken", "holding"}
Users == {c \in Clients : client[c] # "idle"}

QueueTyped ==
  /\ ctrl \in CtrlStates
  /\ attempts \in 0 .. MaxAttempts /\ remaining \in 0 .. MaxAttempts
  /\ wq \in Seq(Reports)
  /\ panic \in BOOLEAN

LocksTyped ==
  /\ nbOfStartLocks = Cardinality(Users)
  /\ nbOfStartLocks <= MaxNbOfLocks
  /\ client \in [Clients -> Modes]

LEMMA TypeParts == TypeOK <=> TTCETypeOK /\ QueueTyped /\ LocksTyped
  BY DEF TypeOK, QueueTyped, LocksTyped, Reports, Modes, Users

LEMMA TypePartsNext ==
  ASSUME TTCETypeOK', QueueTyped', LocksTyped'
  PROVE  TypeOK'
  BY DEF TypeOK, QueueTyped, LocksTyped, Reports, Modes, Users

LEMMA CallTypes ==
  /\ \A n \in {"OnStart", "OnStop", "Sample"} : Call(n) \in Calls
  /\ \A s \in States, r \in Reasons : Change(s, r) \in Calls
  BY DEF Calls

(* Lists of calls that the thread begins. *)
LEMMA ListTypes ==
  /\ <<>> \in Seq(Calls)
  /\ \A a \in Calls : <<a>> \in Seq(Calls) /\ <<>> \o <<a>> = <<a>>
  /\ \A a, b \in Calls : <<a, b>> \in Seq(Calls) /\ <<a>> \o <<b>> = <<a, b>>
<1>1. /\ <<>> \in Seq(Calls)
      /\ \A a \in Calls : <<a>> \in Seq(Calls)
      /\ \A a, b \in Calls : <<a, b>> \in Seq(Calls)
  OBVIOUS
<1> QED
  BY <1>1, CallLists

LEMMA SwitchTypes ==
  ASSUME TTCETypeOK, NEW s \in States, NEW r \in Reasons,
         NEW calls \in {<<>>, <<Call("OnStop")>>},
         SwitchTo(s, calls \o <<Change(s, r)>>)
  PROVE  state' \in States /\ doing' \in Seq(Calls) /\ thread' \in BOOLEAN /\ started' \in BOOLEAN
<1>1. calls \o <<Change(s, r)>> \in Seq(Calls)
  BY CallTypes, ListTypes
<1> QED
  BY <1>1 DEF SwitchTo, TTCETypeOK

LEMMA RequestedStopTypes ==
  ASSUME TTCETypeOK, NEW calls \in {<<>>, <<Call("OnStop")>>}, OnRequestedStop(calls)
  PROVE  TTCETypeOK'
<1>1. "stopped" \in States /\ "reqStopSampling" \in Reasons
  BY DEF States, Reasons
<1>2. state' \in States /\ doing' \in Seq(Calls) /\ thread' \in BOOLEAN /\ started' \in BOOLEAN
  BY <1>1, SwitchTypes DEF OnRequestedStop
<1>3. asyncReqFlags' = {}
  BY DEF OnRequestedStop, TTCETypeOK
<1> QED
  BY <1>2, <1>3 DEF OnRequestedStop, TTCETypeOK

LEMMA ErrorTypes ==
  ASSUME TTCETypeOK, NEW e \in Reasons, NEW calls \in {<<>>, <<Call("OnStop")>>},
         StopOnError(e, calls)
  PROVE  TTCETypeOK'
<1>1. "stopped" \in States
  BY DEF States
<1>2. state' \in States /\ doing' \in Seq(Calls) /\ thread' \in BOOLEAN /\ started' \in BOOLEAN
  BY <1>1, SwitchTypes DEF StopOnError
<1> QED
  BY <1>2 DEF StopOnError, TTCETypeOK

LEMMA CycleTypes ==
  ASSUME IInv, Cycle
  PROVE  TTCETypeOK'
<1>0. TTCETypeOK /\ MaxDelay \in Nat
  BY MaxDelayAssumption DEF IInv, TypeOK
<1>1. \A s \in States : s \in {"starting", "waitLock", "running"} =>
        <<Change(s, "none")>> \in Seq(Calls)
  BY CallTypes, ListTypes DEF Reasons
<1>2. CASE InStopped
  <2>1. CASE OnRequestedStop(<<>>)
    BY <1>0, <2>1, RequestedStopTypes
  <2>2. CASE ~OnRequestedStop(<<>>)
    <3>1. /\ state' = "starting" /\ doing' = <<Change("starting", "none")>>
          /\ asyncReqFlags' = {} /\ skipped' = startDelayCnt
          /\ UNCHANGED <<thread, started, startDelayCnt>>
      BY <1>0, <1>2, <2>2 DEF InStopped, SwitchTo, TTCETypeOK
    <3> QED
      BY <1>0, <1>1, <3>1 DEF TTCETypeOK, States
  <2> QED
    BY <2>1, <2>2
<1>3. CASE InStarting
  <2>1. CASE OnRequestedStop(<<>>)
    BY <1>0, <2>1, RequestedStopTypes
  <2>2. CASE startDelayCnt = 0 /\ ~OnRequestedStop(<<>>)
    <3>1. /\ state' = "waitLock" /\ doing' = <<Change("waitLock", "none")>>
          /\ UNCHANGED <<asyncReqFlags, thread, started, startDelayCnt, skipped>>
      BY <1>0, <1>3, <2>2 DEF InStarting, SwitchTo
    <3> QED
      BY <1>0, <1>1, <3>1 DEF TTCETypeOK, States
  <2>3. CASE startDelayCnt > 0 /\ ~OnRequestedStop(<<>>)
    <3>1. /\ startDelayCnt' = startDelayCnt - 1 /\ skipped' = skipped - 1
          /\ UNCHANGED <<asyncReqFlags, state, thread, doing, started>>
      BY <1>0, <1>3, <2>3 DEF InStarting, TTCETypeOK
    <3>2. skipped = startDelayCnt
      BY <1>3 DEF InStarting, IInv, CtrlInv, DelayKept
    <3> QED
      BY <1>0, <2>3, <3>1, <3>2 DEF TTCETypeOK
  <2> QED
    BY <1>0, <1>3, <2>1, <2>2, <2>3 DEF InStarting
<1>4. ASSUME NEW timeout \in BOOLEAN, NEW locked \in BOOLEAN, InWaitLock(timeout, locked)
      PROVE  TTCETypeOK'
  <2>1. CASE StopOnError("triggerTimeout", <<>>)
    BY <1>0, <2>1, ErrorTypes DEF Reasons
  <2>2. CASE OnRequestedStop(<<>>)
    BY <1>0, <2>2, RequestedStopTypes
  <2>3. CASE ~StopOnError("triggerTimeout", <<>>) /\ ~OnRequestedStop(<<>>)
    <3>1. /\ state' = "running" /\ doing' = <<Change("running", "none"), Call("OnStart")>>
          /\ UNCHANGED <<asyncReqFlags, thread, started, startDelayCnt, skipped>>
      BY <1>4, <2>3 DEF InWaitLock, SwitchTo
    <3>2. doing' \in Seq(Calls)
      BY <3>1, CallTypes, ListTypes DEF States, Reasons
    <3> QED
      BY <1>0, <3>1, <3>2 DEF TTCETypeOK, States
  <2> QED
    BY <2>1, <2>2, <2>3
<1>5. ASSUME NEW timeout \in BOOLEAN, NEW locked \in BOOLEAN, InRunning(timeout, locked)
      PROVE  TTCETypeOK'
  <2>1. ASSUME NEW e \in Reasons, StopOnError(e, <<Call("OnStop")>>)
        PROVE  TTCETypeOK'
    BY <1>0, <2>1, ErrorTypes
  <2>2. CASE OnRequestedStop(<<Call("OnStop")>>)
    BY <1>0, <2>2, RequestedStopTypes
  <2>3. CASE /\ SwitchTo("running", <<Call("Sample")>>)
             /\ UNCHANGED <<asyncReqFlags, startDelayCnt, skipped>>
    <3>1. <<Call("Sample")>> \in Seq(Calls)
      BY CallTypes, ListTypes
    <3> QED
      BY <1>0, <2>3, <3>1 DEF SwitchTo, TTCETypeOK, States
  <2> QED
    BY <1>5, <2>1, <2>2, <2>3 DEF InRunning, Reasons
<1>6. ASSUME NEW result \in BOOLEAN, SampleReturns(result)
      PROVE  TTCETypeOK'
  <2>1. <<Call("OnStop"), Change("stopped", "sampleRetFalse")>> \in Seq(Calls)
    BY CallTypes, ListTypes DEF States, Reasons
  <2>2. CASE result
    BY <1>0, <1>6, <2>2, ListTypes DEF SampleReturns, TTCETypeOK
  <2>3. CASE ~result
    <3>1. /\ state' = "stopped" /\ doing' \in Seq(Calls)
          /\ UNCHANGED <<asyncReqFlags, startDelayCnt, thread, started, skipped>>
      BY <1>6, <2>1, <2>3 DEF SampleReturns
    <3> QED
      BY <1>0, <3>1 DEF TTCETypeOK, States
  <2> QED
    BY <2>2, <2>3
<1>7. CASE CallHook
  <2>1. doing' \in Seq(Calls) /\ started' \in BOOLEAN
    BY <1>0, <1>7 DEF CallHook, TTCETypeOK
  <2> QED
    BY <1>0, <1>7, <2>1 DEF CallHook, TTCETypeOK
<1> QED
  BY <1>2, <1>3, <1>4, <1>5, <1>6, <1>7 DEF Cycle

LEMMA TTCETypeFrame ==
  ASSUME TTCETypeOK, UNCHANGED ttceVars
  PROVE  TTCETypeOK'
  BY DEF TTCETypeOK, ttceVars

LEMMA ReportTyped ==
  ASSUME IInv, NEW s \in States, NEW r \in Reasons, OnTTCEStateChange(s, r)
  PROVE  TTCETypeOK' /\ QueueTyped'
<1>1. /\ doing # <<>> /\ doing' = Tail(doing)
      /\ UNCHANGED <<asyncReqFlags, state, startDelayCnt, thread, started, skipped>>
      /\ UNCHANGED <<ctrl, attempts, remaining>>
      /\ wq' = (IF s \in {"stopped", "running"} THEN Append(wq, <<s, r>>) ELSE wq)
      /\ panic' \in BOOLEAN
  BY DEF OnTTCEStateChange, OnStateChange
<1>2. TTCETypeOK /\ QueueTyped
  BY TypeParts DEF IInv
<1>3. TTCETypeOK'
  <2>1. doing' \in Seq(Calls)
    BY <1>1, <1>2 DEF TTCETypeOK
  <2> QED
    BY <1>1, <1>2, <2>1 DEF TTCETypeOK
<1>4. wq' \in Seq(Reports)
  <2>1. s \in {"stopped", "running"} => <<s, r>> \in Reports
    BY DEF Reports
  <2> QED
    BY <1>1, <1>2, <2>1 DEF QueueTyped
<1> QED
  BY <1>1, <1>2, <1>3, <1>4 DEF QueueTyped

LEMMA RequestStartTypes ==
  ASSUME TTCETypeOK, NEW delay \in 0 .. MaxDelay, MayStart, RequestStartSampling(delay)
  PROVE  TTCETypeOK'
  BY DEF TTCETypeOK, MayStart, RequestStartSampling

LEMMA StopEffectTypes ==
  ASSUME TTCETypeOK, QueueTyped, StopEffect, UNCHANGED <<attempts, remaining, wq>>
  PROVE  TTCETypeOK' /\ QueueTyped'
<1>1. CASE MayStop
  BY <1>1 DEF StopEffect, RequestStopSampling, TTCETypeOK, QueueTyped, CtrlStates
<1>2. CASE ~MayStop
  <2>1. TTCETypeOK'
    BY <1>2, TTCETypeFrame DEF StopEffect
  <2> QED
    BY <1>2, <2>1 DEF StopEffect, QueueTyped
<1> QED
  BY <1>1, <1>2

LEMMA QueueStepTypes ==
  ASSUME IInv, QueueStep
  PROVE  TTCETypeOK' /\ QueueTyped'
<1>1. TTCETypeOK /\ QueueTyped /\ MaxAttempts \in Nat
  BY TypeParts, CtrlAssumption DEF IInv
<1>2. wq' \in Seq(Reports)
  <2>1. wq # <<>> /\ wq' = Tail(wq)
    BY DEF QueueStep, OnRun_WQ, OnStop_WQ
  <2> QED
    BY <1>1, <2>1 DEF QueueTyped
<1>3. attempts' = attempts
  BY DEF QueueStep, OnRun_WQ, OnStop_WQ
<1>4. CASE OnRun_WQ
  <2>1. TTCETypeOK'
    BY <1>1, <1>4, TTCETypeFrame DEF OnRun_WQ
  <2>2. ctrl' \in CtrlStates /\ remaining' = remaining
    BY <1>1, <1>4 DEF OnRun_WQ, QueueTyped, CtrlStates
  <2>3. panic' \in BOOLEAN
    BY <1>4 DEF OnRun_WQ
  <2> QED
    BY <1>1, <1>2, <1>3, <2>1, <2>2, <2>3 DEF QueueTyped
<1>5. CASE OnStop_WQ
  <2>1. CASE Unexpected \/ BecomesStopped \/ Becomes("stoppedStopPending")
    <3>1. TTCETypeOK'
      BY <1>1, <2>1, TTCETypeFrame DEF Unexpected, BecomesStopped, Becomes
    <3>2. ctrl' \in CtrlStates /\ remaining' = remaining /\ panic' \in BOOLEAN
      BY <1>1, <2>1 DEF Unexpected, BecomesStopped, Becomes, QueueTyped, CtrlStates
    <3> QED
      BY <1>1, <1>2, <1>3, <3>1, <3>2 DEF QueueTyped
  <2>2. ASSUME NEW delay \in 0 .. MaxDelay, Restart(delay), remaining > 0
        PROVE  TTCETypeOK' /\ QueueTyped'
    <3>1. remaining' \in 0 .. MaxAttempts
      BY <1>1, <2>2 DEF Restart, QueueTyped
    <3>2. CASE MayStart
      <4>1. TTCETypeOK'
        BY <1>1, <2>2, <3>2, RequestStartTypes DEF Restart
      <4> QED
        BY <1>1, <1>2, <1>3, <2>2, <3>1, <3>2, <4>1 DEF Restart, QueueTyped, CtrlStates
    <3>3. CASE ~MayStart
      <4>1. TTCETypeOK'
        BY <1>1, <2>2, <3>3, TTCETypeFrame DEF Restart
      <4> QED
        BY <1>1, <1>2, <1>3, <2>2, <3>1, <3>3, <4>1 DEF Restart, QueueTyped
    <3> QED
      BY <3>2, <3>3
  <2> QED
    BY <1>5, <2>1, <2>2, OnStopOutcomes
<1> QED
  BY <1>4, <1>5 DEF QueueStep

-----------------------------------------------------------------------------
(* The count of the start locks. *)
LEMMA UsersFinite == IsFiniteSet(Users)
  BY CtrlAssumption, FS_Subset DEF Users

LEMMA LocksFrame ==
  ASSUME LocksTyped, nbOfStartLocks' = nbOfStartLocks, client' \in [Clients -> Modes],
         \A c \in Clients : client'[c] # "idle" <=> client[c] # "idle"
  PROVE  LocksTyped'
<1>1. Users' = Users
  BY DEF Users
<1> QED
  BY <1>1 DEF LocksTyped

LEMMA MoveFrame ==
  ASSUME LocksTyped, nbOfStartLocks' = nbOfStartLocks, NEW c \in Clients, NEW from,
         NEW to \in Modes \ {"idle"}, "idle" \notin from, ClientMoves(c, from, to)
  PROVE  LocksTyped'
<1>1. client' \in [Clients -> Modes]
  BY DEF ClientMoves, LocksTyped, Modes
<1>2. \A d \in Clients : client'[d] # "idle" <=> client[d] # "idle"
  BY DEF ClientMoves, LocksTyped
<1> QED
  BY <1>1, <1>2, LocksFrame

LEMMA LockStartTypes ==
  ASSUME LocksTyped, NEW c \in Clients, LockStart(c)
  PROVE  LocksTyped'
<1>1. client' \in [Clients -> Modes]
  BY DEF LockStart, ClientMoves, LocksTyped, Modes
<1>2. Users' = Users \cup {c} /\ c \notin Users
  BY DEF LockStart, ClientMoves, LocksTyped, Users
<1>3. Cardinality(Users') = Cardinality(Users) + 1
  BY <1>2, UsersFinite, FS_AddElement
<1>4. Cardinality(Users) \in Nat
  BY UsersFinite, FS_CardinalityType
<1> QED
  BY <1>1, <1>3, <1>4, CtrlAssumption DEF LockStart, LocksTyped

LEMMA UnlockStartTypes ==
  ASSUME LocksTyped, NEW c \in Clients, UnlockStart(c)
  PROVE  LocksTyped'
<1>1. client' \in [Clients -> Modes]
  BY DEF UnlockStart, ClientMoves, LocksTyped, Modes
<1>2. Users' = Users \ {c} /\ c \in Users
  BY DEF UnlockStart, ClientMoves, LocksTyped, Users
<1>3. Cardinality(Users') = Cardinality(Users) - 1
  BY <1>2, UsersFinite, FS_RemoveElement
<1>4. Cardinality(Users) \in Nat
  BY UsersFinite, FS_CardinalityType
<1> QED
  BY <1>1, <1>3, <1>4, CtrlAssumption DEF UnlockStart, LocksTyped

LEMMA StopTypes ==
  ASSUME LocksTyped, OnStop_WQ, IInv
  PROVE  LocksTyped'
<1>1. nbOfStartLocks' = nbOfStartLocks
  BY DEF OnStop_WQ
<1>2. client' = client \/ client' = AfterBroadcast
  BY OnStopOutcomes DEF Unexpected, BecomesStopped, Becomes, Restart
<1>3. client' \in [Clients -> Modes]
  BY <1>2 DEF LocksTyped, AfterBroadcast, Modes
<1>4. \A c \in Clients : client'[c] # "idle" <=> client[c] # "idle"
  BY <1>2 DEF LocksTyped, AfterBroadcast
<1> QED
  BY <1>1, <1>3, <1>4, LocksFrame

-----------------------------------------------------------------------------
LEMMA TypeStep ==
  ASSUME IInv, Next
  PROVE  TypeOK'
<1>0. TTCETypeOK /\ QueueTyped /\ LocksTyped /\ MaxDelay \in Nat /\ MaxAttempts \in Nat
  BY TypeParts, CtrlAssumption, MaxDelayAssumption DEF IInv
<1>1. UNCHANGED clientVars => LocksTyped'
  BY <1>0, LocksFrame DEF clientVars, LocksTyped
<1>2. UNCHANGED ctrlVars => QueueTyped'
  BY <1>0 DEF ctrlVars, QueueTyped
<1>3. CASE StartAsync
  <2>1. MayStart
    BY <1>3, <1>0, StartEffect DEF StartAsync
  <2>2. TTCETypeOK'
    BY <1>0, <1>3, <2>1, RequestStartTypes DEF StartAsync
  <2>3. QueueTyped'
    BY <1>0, <1>3, <2>1 DEF StartAsync, QueueTyped, CtrlStates
  <2> QED
    BY <1>1, <1>3, <2>2, <2>3, TypePartsNext DEF StartAsync
<1>4. CASE StopAsync
  BY <1>0, <1>1, <1>4, StopEffectTypes, TypePartsNext DEF StopAsync
<1>5. CASE RefreshRemainingStartAttempts
  <2>1. TTCETypeOK' /\ LocksTyped'
    BY <1>0, <1>1, <1>5, TTCETypeFrame DEF RefreshRemainingStartAttempts
  <2>2. QueueTyped'
    BY <1>0, <1>5 DEF RefreshRemainingStartAttempts, QueueTyped
  <2> QED
    BY <2>1, <2>2, TypePartsNext
<1>6. ASSUME NEW n \in 0 .. MaxAttempts, SetRestartAttempts(n)
      PROVE  TypeOK'
  <2>1. TTCETypeOK' /\ LocksTyped'
    BY <1>0, <1>1, <1>6, TTCETypeFrame DEF SetRestartAttempts
  <2>2. QueueTyped'
    BY <1>0, <1>6 DEF SetRestartAttempts, QueueTyped
  <2> QED
    BY <2>1, <2>2, TypePartsNext
<1>7. CASE OwnerStartsThread \/ OwnerStopsThread
  <2>1. TTCETypeOK'
    BY <1>0, <1>7
       DEF OwnerStartsThread, OwnerStopsThread, StartThread, StopThread, TTCETypeOK, States
  <2>2. UNCHANGED <<ctrlVars, clientVars>>
    BY <1>7 DEF OwnerStartsThread, OwnerStopsThread
  <2> QED
    BY <1>1, <1>2, <2>1, <2>2, TypePartsNext
<1>8. CASE TTCEStep
  <2>1. CASE Cycle /\ UNCHANGED <<ctrlVars, clientVars>>
    BY <1>1, <1>2, <2>1, CycleTypes, TypePartsNext
  <2>2. ASSUME NEW s \in States, NEW r \in Reasons, OnTTCEStateChange(s, r)
        PROVE  TypeOK'
    BY <1>1, <2>2, ReportTyped, TypePartsNext DEF OnTTCEStateChange
  <2> QED
    BY <1>8, <2>1, <2>2 DEF TTCEStep
<1>9. CASE QueueStep
  <2>1. LocksTyped'
    BY <1>0, <1>1, <1>9, StopTypes DEF QueueStep, OnRun_WQ
  <2> QED
    BY <1>9, <2>1, QueueStepTypes, TypePartsNext
<1>10. ASSUME NEW c \in Clients, LockStart(c) \/ UnlockStart(c)
       PROVE  TypeOK'
  <2>1. LocksTyped'
    BY <1>0, <1>10, LockStartTypes, UnlockStartTypes
  <2>2. UNCHANGED <<ttceVars, ctrlVars>>
    BY <1>10 DEF LockStart, UnlockStart
  <2> QED
    BY <1>0, <1>2, <2>1, <2>2, TTCETypeFrame, TypePartsNext
<1>11. ASSUME NEW c \in Clients, WaitUntilStopped(c) \/ SpuriousWakeup(c)
       PROVE  TypeOK'
  <2>1. LocksTyped'
    BY <1>0, <1>11, MoveFrame DEF WaitUntilStopped, SpuriousWakeup, Modes
  <2>2. UNCHANGED <<ttceVars, ctrlVars>>
    BY <1>11 DEF WaitUntilStopped, SpuriousWakeup
  <2> QED
    BY <1>0, <1>2, <2>1, <2>2, TTCETypeFrame, TypePartsNext
<1>12. ASSUME NEW c \in Clients, ClientStops(c)
       PROVE  TypeOK'
  <2>1. LocksTyped'
    BY <1>0, <1>12, MoveFrame DEF ClientStops, Modes
  <2>2. CASE StopEffect
    BY <1>0, <1>12, <2>1, <2>2, StopEffectTypes, TypePartsNext DEF ClientStops
  <2>3. CASE UNCHANGED <<ttceVars, ctrl, panic>>
    <3>1. QueueTyped'
      BY <1>0, <1>12, <2>3 DEF ClientStops, QueueTyped
    <3> QED
      BY <1>0, <2>1, <2>3, <3>1, TTCETypeFrame, TypePartsNext
  <2> QED
    BY <1>12, <2>2, <2>3 DEF ClientStops
<1> QED
  BY <1>3, <1>4, <1>5, <1>6, <1>7, <1>8, <1>9, <1>10, <1>11, <1>12 DEF Next

LEMMA InitInv == Init => IInv
<1> SUFFICES ASSUME Init PROVE IInv
  OBVIOUS
<1> USE DEF Init, TTCEInit
<1>1. TTCETypeOK
  <2>1. 0 \in 0 .. MaxDelay
    BY MaxDelayAssumption
  <2>2. thread \in BOOLEAN /\ started \in BOOLEAN
    OBVIOUS
  <2>3. doing \in Seq(Calls)
    OBVIOUS
  <2> QED
    BY <2>1, <2>2, <2>3 DEF TTCETypeOK, States
<1>2. QueueTyped
  <2>1. 0 \in 0 .. MaxAttempts
    BY CtrlAssumption
  <2>2. wq \in Seq(Reports)
    OBVIOUS
  <2>3. panic \in BOOLEAN
    OBVIOUS
  <2> QED
    BY <2>1, <2>2, <2>3 DEF QueueTyped, CtrlStates
<1>3. LocksTyped
  <2>1. Users = {}
    BY DEF Users
  <2> QED
    BY <2>1, FS_EmptySet, CtrlAssumption DEF LocksTyped, Modes
<1>4. InFlight = <<>>
  BY UnsentNone DEF InFlight
<1>5. CtrlInv
  BY <1>4 DEF CtrlInv, Expected, WhenStopped, DoingMatches, NoThread, Holding, DelayKept
<1> QED
  BY <1>1, <1>2, <1>3, <1>5, TypeParts DEF IInv

LEMMA StutterInv ==
  ASSUME IInv, UNCHANGED vars
  PROVE  IInv'
<1>1. /\ UNCHANGED <<asyncReqFlags, state, startDelayCnt, thread, doing, started, skipped>>
      /\ UNCHANGED <<ctrl, attempts, remaining, wq, panic, nbOfStartLocks, client>>
  BY DEF vars, ttceVars, ctrlVars, clientVars
<1>2. TypeOK'
  BY <1>1 DEF IInv, TypeOK, TTCETypeOK
<1>3. InFlight' = InFlight
  BY <1>1, Keep
<1>4. CtrlInv'
  BY <1>1, <1>3 DEF IInv, CtrlInv, DoingMatches, NoThread, Holding, DelayKept
<1> QED
  BY <1>2, <1>4 DEF IInv

(* The invariant that all of the following theorems rest on. *)
THEOREM Invariance == Spec => []IInv
<1>1. IInv /\ [Next]_vars => IInv'
  BY TypeStep, CtrlInvStep, StutterInv DEF IInv
<1> QED
  BY InitInv, <1>1, PTL DEF Spec

(* All values have their types, and nbOfStartLocks is the number of clients *)
(* between LockStart() and UnlockStart(), and never above its maximum.      *)
THEOREM TypeCorrect == Spec => []TypeOK
<1>1. IInv => TypeOK
  BY DEF IInv
<1> QED
  BY <1>1, Invariance, PTL

(* No PANIC() of the controller is reachable, and the TTCE refuses none of  *)
(* its requests.                                                            *)
THEOREM Expectable == Spec => []NeverUnexpected
<1>1. IInv => NeverUnexpected
  BY DEF IInv, CtrlInv, NeverUnexpected
<1> QED
  BY <1>1, Invariance, PTL

(* What DoingMatches says of single calls. *)
LEMMA CallsToCome ==
  ASSUME DoingMatches
  PROVE  /\ SamplingBracketed
         /\ Unsent(doing) = <<>> /\ state = "stopped" => doing = <<>>
         /\ (\E i \in 1 .. Len(doing) : doing[i].call = "Sample") => state = "running"
         /\ (doing = <<>> /\ started) => state = "running"
<1>1. CASE doing = <<>> /\ (started <=> state = "running")
  BY <1>1 DEF SamplingBracketed
<1>2. CASE /\ doing = <<Change(state, "none")>> /\ state \in {"starting", "waitLock"}
           /\ ~started
  BY <1>2, FirstCall DEF SamplingBracketed
<1>3. CASE /\ doing = <<Change("running", "none"), Call("OnStart")>> /\ state = "running"
           /\ ~started
  BY <1>3, FirstCall DEF SamplingBracketed
<1>4. CASE doing = <<Call("OnStart")>> /\ state = "running" /\ ~started
  BY <1>4, FirstCall DEF SamplingBracketed
<1>5. ASSUME NEW r \in Reasons \ {"none"}, doing = <<Change("stopped", r)>>,
             state = "stopped", ~started
      PROVE  /\ SamplingBracketed /\ Unsent(doing) # <<>>
             /\ ~(\E i \in 1 .. Len(doing) : doing[i].call = "Sample") /\ doing # <<>>
  BY <1>5, FirstCall, UnsentOne DEF SamplingBracketed
<1>6. CASE doing = <<Call("Sample")>> /\ state = "running" /\ started
  BY <1>6, FirstCall DEF SamplingBracketed
<1>7. ASSUME NEW r \in Reasons \ {"none"}, state = "stopped", started,
             doing = <<Call("OnStop"), Change("stopped", r)>>
      PROVE  /\ SamplingBracketed /\ Unsent(doing) # <<>>
             /\ ~(\E i \in 1 .. Len(doing) : doing[i].call = "Sample") /\ doing # <<>>
  <2>1. Len(doing) = 2 /\ doing[1] = Call("OnStop") /\ doing[2] = Change("stopped", r)
    BY <1>7
  <2>2. ~(\E i \in 1 .. Len(doing) : doing[i].call = "Sample")
    BY <2>1, FirstCall
  <2>3. SamplingBracketed
    BY <1>7, FirstCall DEF SamplingBracketed
  <2> QED
    BY <1>7, <2>2, <2>3, UnsentOne
<1> QED
  BY <1>1, <1>2, <1>3, <1>4, <1>5, <1>6, <1>7 DEF DoingMatches

(* OnStart(), Sample() and OnStop() are called in turn, whichever of its    *)
(* reasons ends sampling.                                                   *)
THEOREM Bracketed == Spec => []SamplingBracketed
<1>1. IInv => SamplingBracketed
  BY CallsToCome DEF IInv, CtrlInv
<1> QED
  BY <1>1, Invariance, PTL

(* When the controller is stopped, the TTCE is stopped, no request is       *)
(* pending and no report is on its way.                                     *)
LEMMA StoppedFacts ==
  ASSUME IInv, ctrl = "stopped"
  PROVE  state = "stopped" /\ asyncReqFlags = {} /\ wq = <<>> /\ doing = <<>> /\ ~started
<1>1. state = "stopped" /\ asyncReqFlags = {} /\ InFlight = <<>>
  BY DEF IInv, CtrlInv, Expected, WhenStopped
<1>2. wq \in Seq(Reports) /\ Unsent(doing) \in Seq(Reports)
  BY InvFacts, UnsentIsReports DEF IInv, CtrlInv
<1>3. Len(wq) + Len(Unsent(doing)) = 0
  BY <1>1, <1>2 DEF InFlight
<1>4. wq = <<>> /\ Unsent(doing) = <<>>
  BY <1>2, <1>3
<1> QED
  BY <1>1, <1>4, CallsToCome DEF IInv, CtrlInv

THEOREM Quiet == Spec => []StoppedIsQuiet
<1>1. IInv => StoppedIsQuiet
  BY StoppedFacts DEF StoppedIsQuiet, Pending
<1> QED
  BY <1>1, Invariance, PTL

(* Between WaitUntilStopped() and UnlockStart() of any client, the          *)
(* controller is stopped and Sample() is not called.                        *)
THEOREM Held == Spec => []HeldStopped
<1>1. IInv => HeldStopped
  BY StoppedFacts DEF HeldStopped, IInv, CtrlInv, Holding
<1> QED
  BY <1>1, Invariance, PTL

(* Sampling begins only when all triggers of the start delay have occurred. *)
THEOREM Delayed == Spec => DelayRespected
<1>1. IInv /\ [Next]_vars => [state = "starting" /\ state' = "waitLock" => skipped = 0]_ttceVars
  <2> SUFFICES ASSUME IInv, [Next]_vars, state = "starting", state' = "waitLock"
               PROVE  skipped = 0
    BY DEF ttceVars
  <2>1. state' # state
    OBVIOUS
  <2>2. ASSUME UNCHANGED state PROVE FALSE
    BY <2>1, <2>2
  <2>3. InStarting
    <3>1. ~UNCHANGED vars
      BY <2>2 DEF vars, ttceVars
    <3>2. CASE Cycle
      BY <3>2 DEF Cycle, InStopped, InWaitLock, InRunning, SampleReturns, CallHook, Triggered
    <3>3. ~(StartAsync \/ StopAsync \/ RefreshRemainingStartAttempts \/ QueueStep)
      BY <2>2, OnStopOutcomes
         DEF StartAsync, StopAsync, StopEffect, RefreshRemainingStartAttempts, QueueStep,
             OnRun_WQ, Unexpected, Becomes, BecomesStopped, Restart, RequestStartSampling,
             RequestStopSampling, ttceVars
    <3>4. ~(OwnerStartsThread \/ OwnerStopsThread)
      BY <2>2 DEF OwnerStartsThread, OwnerStopsThread, StartThread, StopThread
    <3>5. ASSUME NEW n \in 0 .. MaxAttempts, SetRestartAttempts(n) PROVE FALSE
      BY <2>2, <3>5 DEF SetRestartAttempts, ttceVars
    <3>6. ASSUME NEW s \in States, NEW r \in Reasons, OnTTCEStateChange(s, r) PROVE FALSE
      BY <2>2, <3>6 DEF OnTTCEStateChange, OnStateChange
    <3>7. ASSUME NEW c \in Clients,
                 LockStart(c) \/ ClientStops(c) \/ WaitUntilStopped(c) \/ UnlockStart(c)
                 \/ SpuriousWakeup(c)
          PROVE  FALSE
      BY <2>2, <3>7 DEF LockStart, ClientStops, StopEffect, RequestStopSampling,
                        WaitUntilStopped, UnlockStart, SpuriousWakeup, ttceVars
    <3> QED
      BY <3>1, <3>2, <3>3, <3>4, <3>5, <3>6, <3>7 DEF Next, TTCEStep
  <2>4. startDelayCnt = 0
    BY <2>2, <2>3 DEF InStarting, OnRequestedStop, SwitchTo
  <2> QED
    BY <2>4 DEF IInv, CtrlInv, DelayKept
<1> QED
  BY <1>1, Invariance, PTL DEF Spec, DelayRespected

=============================================================================
