------------------------------ MODULE Endpoint ------------------------------
(***************************************************************************)
(* The sources of sound: audio/loopback_capture (a render endpoint) and    *)
(* audio/process_loopback (one application).                               *)
(*                                                                         *)
(* One caller starts and stops a source.  The source's thread opens the    *)
(* client itself, tells the caller through a promise, and then waits for   *)
(* the stop event or the buffer event; on the latter it hands every packet *)
(* there is to the sink.  For an application the client comes from an      *)
(* asynchronous activation whose completion handler lies on that thread's  *)
(* stack.                                                                  *)
(*                                                                         *)
(* Left out: formats, stamps, the contents of buffers, apartments, the 2 s *)
(* timeout of the wait (it changes nothing), and what a callback destroys  *)
(* whose handler is gone (that it comes to that is HandlerOutlivesIts-     *)
(* Callback's subject).                                                    *)
(***************************************************************************)
EXTENDS Integers

CONSTANTS
  MaxArrivals,   \* bound: packets the device produces in one behaviour
  MaxOpenings,   \* bound: calls of start()
  SourceFaults   \* bound: calls that fail, sinks that throw

ASSUME EndpointAssumption == {MaxArrivals, MaxOpenings, SourceFaults} \subseteq Nat

VARIABLES
  source,      \* "device" or "process"
  caller,      \* start() and stop(): idle, waiting, started, joining
  marked,      \* Impl::running
  opening,     \* Impl::opened, the promise
  pump,        \* the source's thread
  stopEvent,   \* Impl::stop_event is signalled (manual reset)
  bufferEvent, \* Impl::buffer_event is signalled (automatic reset)
  streaming,   \* the client has been started and not stopped
  packets,     \* packets the device holds
  inHand,      \* a buffer is out: GetBuffer without its ReleaseBuffer
  lapse,       \* the last drain ended with a call that failed
  handler,     \* the ActivationHandler is on the stack
  callback,    \* ActivateCompleted: "none", "due", "runs" or "signalled"
  sourceTally  \* packets, openings and faults so far

sourceVars == <<source, caller, marked, opening, pump, stopEvent, bufferEvent, streaming,
                packets, inHand, lapse, handler, callback, sourceTally>>

PumpAt == {"none", "opens", "activates", "activated", "waits", "looks", "sinks", "ended"}

EndpointTypeOK ==
  /\ source \in {"device", "process"}
  /\ caller \in {"idle", "waiting", "started", "joining"}
  /\ opening \in {"none", "ok", "failed"}
  /\ pump \in PumpAt
  /\ {marked, stopEvent, bufferEvent, streaming, inHand, lapse, handler} \subseteq BOOLEAN
  /\ packets \in 0 .. MaxArrivals
  /\ callback \in {"none", "due", "runs", "signalled"}
  /\ sourceTally \in [arrivals : 0 .. MaxArrivals, openings : 0 .. MaxOpenings,
                      faults : 0 .. SourceFaults]

EndpointInit ==
  /\ source \in {"device", "process"}
  /\ caller = "idle" /\ marked = FALSE /\ opening = "none" /\ pump = "none"
  /\ stopEvent = FALSE /\ bufferEvent = FALSE /\ streaming = FALSE
  /\ packets = 0 /\ inHand = FALSE /\ lapse = FALSE
  /\ handler = FALSE /\ callback = "none"
  /\ sourceTally = [arrivals |-> 0, openings |-> 0, faults |-> 0]

SourceFails == /\ sourceTally.faults < SourceFaults
               /\ sourceTally' = [sourceTally EXCEPT !.faults = @ + 1]

-----------------------------------------------------------------------------
(* The caller *)

\* start() up to ready.get(); `running` is set before the thread exists.  Bound: a
\* late callback is over before the next start.
OpensSource ==
  /\ caller = "idle" /\ pump \in {"none", "ended"} /\ callback = "none"
  /\ sourceTally.openings < MaxOpenings
  /\ sourceTally' = [sourceTally EXCEPT !.openings = @ + 1]
  /\ marked' = TRUE /\ opening' = "none"
  /\ pump' = "opens" /\ caller' = "waiting"
  /\ UNCHANGED <<source, stopEvent, bufferEvent, streaming, packets, inHand, lapse,
                 handler, callback>>

SourceStarted ==
  /\ caller = "waiting" /\ opening = "ok"
  /\ caller' = "started"
  /\ UNCHANGED <<source, marked, opening, pump, stopEvent, bufferEvent, streaming, packets,
                 inHand, lapse, handler, callback, sourceTally>>

ThreadIsOver == pump = "ended"

\* start() after a failed opening: the mark is taken back and the thread joined.
SourceRefused ==
  /\ caller = "waiting" /\ opening = "failed" /\ ThreadIsOver
  /\ marked' = FALSE /\ caller' = "idle"
  /\ UNCHANGED <<source, opening, pump, stopEvent, bufferEvent, streaming, packets,
                 inHand, lapse, handler, callback, sourceTally>>

\* stop() up to the join.
StopsSource ==
  /\ caller = "started"
  /\ marked' = FALSE /\ stopEvent' = TRUE /\ caller' = "joining"
  /\ UNCHANGED <<source, opening, pump, bufferEvent, streaming, packets, inHand, lapse,
                 handler, callback, sourceTally>>

SourceJoined ==
  /\ caller = "joining" /\ ThreadIsOver
  /\ streaming' = FALSE /\ packets' = 0 /\ caller' = "idle"
  /\ UNCHANGED <<source, marked, opening, pump, stopEvent, bufferEvent, inHand, lapse,
                 handler, callback, sourceTally>>

-----------------------------------------------------------------------------
(* Opening *)

\* activate_client: the handler is on the stack, the activation under way.
IssuesActivation ==
  /\ source = "process" /\ pump = "opens"
  /\ pump' = "activates" /\ handler' = TRUE /\ callback' = "due"
  /\ UNCHANGED <<source, caller, marked, opening, stopEvent, bufferEvent, streaming,
                 packets, inHand, lapse, sourceTally>>

\* ActivateCompleted, on a thread of the system: it is entered, stores what it
\* got and sets `done_`, and returns.
CallbackProceeds ==
  /\ callback # "none"
  /\ callback' = CASE callback = "due"       -> "runs"
                   [] callback = "runs"      -> "signalled"
                   [] callback = "signalled" -> "none"
  /\ UNCHANGED <<source, caller, marked, opening, pump, stopEvent, bufferEvent, streaming,
                 packets, inHand, lapse, handler, sourceTally>>

\* ActivationHandler::wait returns because `done_` is set; the frame is left.
ActivationEnds ==
  /\ pump = "activates"
  /\ callback \in {"signalled", "none"}
  /\ pump' = "activated" /\ handler' = FALSE
  /\ UNCHANGED <<source, caller, marked, opening, stopEvent, bufferEvent, streaming,
                 packets, inHand, lapse, callback, sourceTally>>

\* ... or because five seconds have passed.
ActivationTimesOut ==
  /\ pump = "activates" /\ callback \in {"due", "runs"}
  /\ pump' = "ended" /\ opening' = "failed" /\ handler' = FALSE
  /\ UNCHANGED <<source, caller, marked, stopEvent, bufferEvent, streaming, packets,
                 inHand, lapse, callback, sourceTally>>

AtTheClient == \/ source = "device" /\ pump = "opens"
               \/ pump = "activated"

\* Initialize, new events, GetService, Start, and the promise.
SourceOpens ==
  /\ AtTheClient
  /\ pump' = "waits" /\ opening' = "ok" /\ streaming' = TRUE
  /\ stopEvent' = FALSE /\ bufferEvent' = FALSE
  /\ inHand' = FALSE /\ lapse' = FALSE
  /\ UNCHANGED <<source, caller, marked, packets, handler, callback, sourceTally>>

SourceOpenFails ==
  /\ AtTheClient \/ pump = "opens"
  /\ SourceFails
  /\ pump' = "ended" /\ opening' = "failed"
  /\ UNCHANGED <<source, caller, marked, stopEvent, bufferEvent, streaming, packets,
                 inHand, lapse, handler, callback>>

-----------------------------------------------------------------------------
(* Capturing *)

\* The device has another packet and says so.
PacketArrives ==
  /\ streaming /\ sourceTally.arrivals < MaxArrivals
  /\ packets' = packets + 1 /\ bufferEvent' = TRUE
  /\ sourceTally' = [sourceTally EXCEPT !.arrivals = @ + 1]
  /\ UNCHANGED <<source, caller, marked, opening, pump, stopEvent, streaming, inHand,
                 lapse, handler, callback>>

\* WaitForMultipleObjects prefers the stop event, the first of the two.
PumpWakes ==
  /\ pump = "waits" /\ bufferEvent /\ ~stopEvent
  /\ pump' = "looks" /\ bufferEvent' = FALSE /\ lapse' = FALSE
  /\ UNCHANGED <<source, caller, marked, opening, stopEvent, streaming, packets, inHand,
                 handler, callback, sourceTally>>

PumpEnds ==
  /\ pump = "waits"
  /\ \/ stopEvent /\ UNCHANGED sourceTally
     \/ SourceFails
  /\ pump' = "ended"
  /\ UNCHANGED <<source, caller, marked, opening, stopEvent, bufferEvent, streaming,
                 packets, inHand, lapse, handler, callback>>

\* GetNextPacketSize and GetBuffer; the sink is called with the buffer.
ObtainsBuffer ==
  /\ pump = "looks" /\ packets > 0 /\ ~inHand
  /\ pump' = "sinks" /\ inHand' = TRUE
  /\ UNCHANGED <<source, caller, marked, opening, stopEvent, bufferEvent, streaming,
                 packets, lapse, handler, callback, sourceTally>>

\* There is no packet; or a call fails, as GetBuffer does for ever once a buffer
\* was not given back.
DrainEnds ==
  /\ pump = "looks"
  /\ \/ packets = 0 /\ UNCHANGED <<lapse, sourceTally>>
     \/ inHand /\ lapse' = TRUE /\ UNCHANGED sourceTally
     \/ SourceFails /\ lapse' = TRUE
  /\ pump' = "waits"
  /\ UNCHANGED <<source, caller, marked, opening, stopEvent, bufferEvent, streaming,
                 packets, inHand, handler, callback>>

\* Mutant: one packet per event.
BackToTheWait == "waits"
BackToTheDrain == "looks"

\* The sink has returned, the buffer is released.
ReleasesBuffer ==
  /\ pump = "sinks"
  /\ inHand' = FALSE /\ packets' = packets - 1
  /\ pump' = BackToTheDrain
  /\ UNCHANGED <<source, caller, marked, opening, stopEvent, bufferEvent, streaming,
                 lapse, handler, callback, sourceTally>>

\* ReleaseBuffer fails: back to the wait with the buffer still out.
ReleaseFails ==
  /\ pump = "sinks" /\ SourceFails
  /\ pump' = "waits" /\ lapse' = TRUE
  /\ UNCHANGED <<source, caller, marked, opening, stopEvent, bufferEvent, streaming,
                 packets, inHand, handler, callback>>

\* An exception out of the sink ends the thread, with the buffer still out.
SinkThrows ==
  /\ pump = "sinks" /\ SourceFails
  /\ pump' = "ended"
  /\ UNCHANGED <<source, caller, marked, opening, stopEvent, bufferEvent, streaming,
                 packets, inHand, lapse, handler, callback>>

EndpointNext ==
  \/ OpensSource \/ SourceStarted \/ SourceRefused \/ StopsSource \/ SourceJoined
  \/ IssuesActivation \/ CallbackProceeds \/ ActivationEnds \/ ActivationTimesOut
  \/ SourceOpens \/ SourceOpenFails
  \/ PacketArrives \/ PumpWakes \/ PumpEnds
  \/ ObtainsBuffer \/ DrainEnds \/ ReleasesBuffer \/ ReleaseFails \/ SinkThrows

EndpointSpec == EndpointInit /\ [][EndpointNext]_sourceVars

-----------------------------------------------------------------------------
(* Properties *)

\* Once stop() has returned, or start() has failed, no thread calls the sink any
\* more (the path behind it may be destroyed), the stream is stopped and
\* running() is false: a failed start "leaves nothing behind".
StopLeavesNothingBehind ==
  caller = "idle" => pump \in {"none", "ended"} /\ ~streaming /\ ~marked

\* The thread never sleeps on sound that nothing will announce: a packet it left
\* in the device has its event still set, unless a call of the device failed.
EveryPacketIsAnnounced ==
  pump = "waits" /\ packets > 0 /\ ~lapse => bufferEvent

\* "activate_client blocks on done_ until the callback has *returned*, so the
\* object cannot outlive its use": while the callback runs its handler exists.
HandlerOutlivesItsCallback == callback \in {"runs", "signalled"} => handler
=============================================================================
