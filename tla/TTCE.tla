-------------------------------- MODULE TTCE --------------------------------
(***************************************************************************)
(* gpcc::execution::cyclic::TriggeredThreadedCyclicExec: a thread waits    *)
(* for a cyclic trigger and, once started, calls Sample() for each one     *)
(* until it is asked to stop, the trigger times out, the PLL loses its     *)
(* lock, or Sample() fails.  The virtual methods and the callback          *)
(* OnStateChange are called without the mutex: the thread's calls that are *)
(* still to come are kept in a sequence, and requests interleave with it.  *)
(***************************************************************************)
EXTENDS Integers, Sequences

CONSTANT MaxDelay   \* bound: the largest startDelay used

ASSUME MaxDelayAssumption == MaxDelay \in Nat

VARIABLES
  asyncReqFlags, \* the pending requests
  state,         \* the state of sampling
  startDelayCnt, \* triggers to be skipped in state "starting"
  thread,        \* the thread exists
  doing,         \* the virtual methods and callbacks the thread still has to call
  started,       \* history: OnStart has been called, OnStop has not
  skipped        \* history: triggers in state "starting", startDelay still to come

ttceVars == <<asyncReqFlags, state, startDelayCnt, thread, doing, started, skipped>>

Reasons == {"none", "reqStopSampling", "triggerTimeout", "pllLossOfLock", "sampleRetFalse"}
States == {"stopped", "starting", "waitLock", "running"}
Call(name) == [call |-> name, state |-> "none", reason |-> "none"]
Change(s, reason) == [call |-> "OnStateChange", state |-> s, reason |-> reason]
Calls == {Call(n) : n \in {"OnStart", "OnStop", "Sample"}} \cup
         {Change(s, r) : s \in States, r \in Reasons}

TTCEInit ==
  /\ asyncReqFlags = {}
  /\ state = "stopped"
  /\ startDelayCnt = 0
  /\ thread = FALSE
  /\ doing = <<>>
  /\ started = FALSE
  /\ skipped = 0

-----------------------------------------------------------------------------
(* Both throw std::logic_error, and change nothing, in any other case. *)
MayStart == state = "stopped" /\ asyncReqFlags = {}
MayStop == "stop" \notin asyncReqFlags

RequestStartSampling(startDelay) ==
  /\ MayStart
  /\ asyncReqFlags' = asyncReqFlags \cup {"start"}
  /\ startDelayCnt' = startDelay
  /\ UNCHANGED <<state, thread, doing, started, skipped>>

RequestStopSampling ==
  /\ MayStop
  /\ asyncReqFlags' = {"stop"}
  /\ UNCHANGED <<state, startDelayCnt, thread, doing, started, skipped>>

(* InternalThreadEntry starts in state stopped; requests remain pending. *)
StartThread ==
  /\ ~thread
  /\ thread' = TRUE
  /\ state' = "stopped"
  /\ UNCHANGED <<asyncReqFlags, startDelayCnt, doing, started, skipped>>

(* Cancellation takes effect where the thread waits for a trigger. *)
StopThread ==
  /\ thread /\ doing = <<>>
  /\ thread' = FALSE
  /\ UNCHANGED <<asyncReqFlags, state, startDelayCnt, doing, started, skipped>>

-----------------------------------------------------------------------------
(* The thread has returned from trigger.WaitWithTimeout. *)
Triggered == thread /\ doing = <<>>

SwitchTo(s, calls) ==
  /\ state' = s
  /\ doing' = calls
  /\ UNCHANGED <<thread, started>>

(* A transition of the state machine on a request to stop. *)
OnRequestedStop(calls) ==
  /\ "stop" \in asyncReqFlags
  /\ asyncReqFlags' = asyncReqFlags \ {"stop"}
  /\ SwitchTo("stopped", calls \o <<Change("stopped", "reqStopSampling")>>)
  /\ UNCHANGED <<startDelayCnt, skipped>>

(* Deviation: a request to stop that finds the state stopped is dropped. *)
InStopped_DropsStop ==
  /\ Triggered /\ state = "stopped"
  /\ IF "stop" \in asyncReqFlags
     THEN asyncReqFlags' = {} /\ SwitchTo("stopped", <<>>)
     ELSE /\ "start" \in asyncReqFlags
          /\ asyncReqFlags' = asyncReqFlags \ {"start"}
          /\ SwitchTo("starting", <<Change("starting", "none")>>)
  /\ skipped' = startDelayCnt
  /\ UNCHANGED startDelayCnt

InStopped ==
  /\ Triggered /\ state = "stopped"
  /\ \/ OnRequestedStop(<<>>)
     \/ /\ "stop" \notin asyncReqFlags
        /\ "start" \in asyncReqFlags
        /\ asyncReqFlags' = asyncReqFlags \ {"start"}
        /\ SwitchTo("starting", <<Change("starting", "none")>>)
        /\ skipped' = startDelayCnt
        /\ UNCHANGED startDelayCnt

(* A timeout of the trigger counts as a trigger here. *)
InStarting ==
  /\ Triggered /\ state = "starting"
  /\ \/ OnRequestedStop(<<>>)
     \/ /\ "stop" \notin asyncReqFlags /\ startDelayCnt = 0
        /\ SwitchTo("waitLock", <<Change("waitLock", "none")>>)
        /\ UNCHANGED <<asyncReqFlags, startDelayCnt, skipped>>
     \/ /\ "stop" \notin asyncReqFlags /\ startDelayCnt > 0
        /\ startDelayCnt' = startDelayCnt - 1
        /\ skipped' = skipped - 1
        /\ UNCHANGED <<asyncReqFlags, state, thread, doing, started>>

StopOnError(reason, calls) ==
  /\ SwitchTo("stopped", calls \o <<Change("stopped", reason)>>)
  /\ UNCHANGED <<asyncReqFlags, startDelayCnt, skipped>>

(* A timeout is looked at before a request to stop, which stays pending. *)
InWaitLock(timeout, locked) ==
  /\ Triggered /\ state = "waitLock"
  /\ \/ timeout /\ StopOnError("triggerTimeout", <<>>)
     \/ ~timeout /\ OnRequestedStop(<<>>)
     \/ /\ ~timeout /\ "stop" \notin asyncReqFlags /\ locked
        /\ SwitchTo("running", <<Change("running", "none"), Call("OnStart")>>)
        /\ UNCHANGED <<asyncReqFlags, startDelayCnt, skipped>>

(* Deviation: OnStop is not called after a loss of lock. *)
InRunning_NoOnStop(timeout, locked) ==
  /\ Triggered /\ state = "running"
  /\ \/ timeout /\ StopOnError("triggerTimeout", <<Call("OnStop")>>)
     \/ ~timeout /\ ~locked /\ StopOnError("pllLossOfLock", <<>>)
     \/ ~timeout /\ locked /\ OnRequestedStop(<<Call("OnStop")>>)
     \/ /\ ~timeout /\ locked /\ "stop" \notin asyncReqFlags
        /\ SwitchTo("running", <<Call("Sample")>>)
        /\ UNCHANGED <<asyncReqFlags, startDelayCnt, skipped>>

InRunning(timeout, locked) ==
  /\ Triggered /\ state = "running"
  /\ \/ timeout /\ StopOnError("triggerTimeout", <<Call("OnStop")>>)
     \/ ~timeout /\ ~locked /\ StopOnError("pllLossOfLock", <<Call("OnStop")>>)
     \/ ~timeout /\ locked /\ OnRequestedStop(<<Call("OnStop")>>)
     \/ /\ ~timeout /\ locked /\ "stop" \notin asyncReqFlags
        /\ SwitchTo("running", <<Call("Sample")>>)
        /\ UNCHANGED <<asyncReqFlags, startDelayCnt, skipped>>

SampleReturns(result) ==
  /\ doing # <<>> /\ Head(doing) = Call("Sample")
  /\ IF result
     THEN doing' = <<>> /\ UNCHANGED state
     ELSE /\ state' = "stopped"
          /\ doing' = <<Call("OnStop"), Change("stopped", "sampleRetFalse")>>
  /\ UNCHANGED <<asyncReqFlags, startDelayCnt, thread, started, skipped>>

(* OnStart() or OnStop() is called. *)
CallHook ==
  /\ doing # <<>> /\ Head(doing).call \in {"OnStart", "OnStop"}
  /\ started' = (Head(doing).call = "OnStart")
  /\ doing' = Tail(doing)
  /\ UNCHANGED <<asyncReqFlags, state, startDelayCnt, thread, skipped>>

(* OnStateChange(newState, stopReason) is called. *)
OnStateChange(newState, stopReason) ==
  /\ doing # <<>> /\ Head(doing) = Change(newState, stopReason)
  /\ doing' = Tail(doing)
  /\ UNCHANGED <<asyncReqFlags, state, startDelayCnt, thread, started, skipped>>

-----------------------------------------------------------------------------
(* What the thread does apart from its calls of OnStateChange. *)
Cycle ==
  \/ InStopped \/ InStarting
  \/ \E timeout, locked \in BOOLEAN : InWaitLock(timeout, locked) \/ InRunning(timeout, locked)
  \/ \E result \in BOOLEAN : SampleReturns(result)
  \/ CallHook

-----------------------------------------------------------------------------
TTCETypeOK ==
  /\ asyncReqFlags \in {{}, {"start"}, {"stop"}}
  /\ state \in States
  /\ startDelayCnt \in 0 .. MaxDelay
  /\ thread \in BOOLEAN
  /\ doing \in Seq(Calls)
  /\ started \in BOOLEAN
  /\ skipped \in 0 .. MaxDelay

(* Sample() is called, OnStart() and OnStop() alternate, and no Sample()   *)
(* lies outside of them, whichever of its reasons ends sampling.           *)
SamplingBracketed ==
  /\ doing # <<>> =>
       /\ Head(doing).call \in {"Sample", "OnStop"} => started
       /\ Head(doing).call = "OnStart" => ~started
  /\ thread /\ doing = <<>> => (started <=> state = "running")

(* The state starting is left only after startDelay + 1 triggers.          *)
DelayRespected == [][state = "starting" /\ state' = "waitLock" => skipped = 0]_ttceVars
=============================================================================
