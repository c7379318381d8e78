--------------------------- MODULE DeviceWatcher ----------------------------
(***************************************************************************)
(* gpu/device_watcher.cpp: "changes since you last acknowledged".  Threads *)
(* report the errors they meet; a poll folds what was reported into one    *)
(* answer together with what DXGI says of the adapters; acknowledge makes  *)
(* the present the baseline and drops, for a while, reports by threads     *)
(* that have not noticed yet.  Every report carries, for the properties    *)
(* only, the device stack it is about.                                     *)
(***************************************************************************)
EXTENDS Integers

VARIABLES
    reported,  \* Impl::reported
    settling,  \* the clock is before settle_until_ns
    current,   \* factory->IsCurrent()
    baseline,  \* Impl::adapters
    adapters   \* the machine's adapter set, as a version number

watcherVars == <<reported, settling, current, baseline, adapters>>

(* DeviceReset is answered as DeviceRemoved is.                            *)
Severity == [none |-> 0, topology |-> 1, access |-> 2, removed |-> 4]
Report == [change : DOMAIN Severity, stack : Nat]
NoReport == [change |-> "none", stack |-> 0]

WatcherStarts ==
    /\ reported = NoReport /\ settling = FALSE
    /\ current = TRUE /\ adapters = 1 /\ baseline = adapters

WatcherTypeOK ==
    /\ reported \in Report /\ {settling, current} \subseteq BOOLEAN
    /\ {baseline, adapters} \subseteq Nat

MoreSevere(a, b) == IF Severity[a.change] > Severity[b.change] THEN a ELSE b

ReportDeviceError(change, stack) ==
    /\ reported' = IF settling THEN reported
                   ELSE MoreSevere([change |-> change, stack |-> stack], reported)
    /\ UNCHANGED <<settling, current, baseline, adapters>>

(* A stale factory with the adapters unmoved is the rebuild's own activity,*)
(* which is about no stack.                                                *)
TopologyReport(stack) ==
    [change |-> "topology", stack |-> IF baseline # adapters THEN stack ELSE 0]

Polled(stack) ==
    IF ~current \/ baseline # adapters THEN MoreSevere(TopologyReport(stack), reported) ELSE reported

Poll ==
    /\ reported' = NoReport
    /\ baseline' = adapters
    /\ current' = TRUE
    /\ UNCHANGED <<settling, adapters>>

(* Mutant: what was reported during the rebuild is kept.                   *)
AcknowledgeOnlyAdapters ==
    /\ baseline' = adapters
    /\ current' = TRUE
    /\ settling' = TRUE
    /\ UNCHANGED <<reported, adapters>>

Acknowledge ==
    /\ reported' = NoReport
    /\ baseline' = adapters
    /\ current' = TRUE
    /\ settling' = TRUE
    /\ UNCHANGED adapters

SettleEnds == settling /\ settling' = FALSE /\ UNCHANGED <<reported, current, baseline, adapters>>

(* DXGI: an adapter comes or goes; the factory may or may not tell.        *)
AdaptersChange ==
    /\ adapters' = adapters + 1
    /\ current' \in {FALSE, current}
    /\ UNCHANGED <<reported, settling, baseline>>

(* A device or an encoder is created.                                      *)
DxgiIsUsed == current' = FALSE /\ UNCHANGED <<reported, settling, baseline, adapters>>
=============================================================================
