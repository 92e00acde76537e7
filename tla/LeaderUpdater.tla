---------------------------- MODULE LeaderUpdater ----------------------------
(***************************************************************************)
(* tools-common/src/leader_updater.rs: the five leader updaters, from      *)
(* create_leader_updater to stop, with the two sources of slot events the  *)
(* tools bring along (custom_geyser_node_address_service.rs and            *)
(* yellowstone_leader_tracker.rs).                                         *)
(*                                                                         *)
(* The services behind them belong to libraries and are modelled from      *)
(* their use: a task that follows the slots until it is told to stop, has  *)
(* its token cancelled, or fails.  The four slots of a leader's turn count *)
(* as one, and one leader's turn as known here is the current slot.        *)
(***************************************************************************)
EXTENDS Naturals, Sequences

CONSTANTS
    Kinds,     \* the leader trackers of the command line
    Peers,     \* addresses of leaders
    MaxTurns   \* bound: leader turns of the schedule

VARIABLES
    kind,      \* the leader tracker
    schedule,  \* the leader of each turn
    turn,      \* the current turn, as the updater knows it
    source,    \* the stream of slot events is "open" or has "ended"
    service,   \* the task behind the updater: "none", "up" or "ended"
    exit,      \* stop has been called
    token      \* run_client's token is cancelled

vars == <<kind, schedule, turn, source, service, exit, token>>

UpdaterTypeOK ==
    /\ kind \in Kinds
    /\ schedule \in [1 .. MaxTurns -> Peers] /\ turn \in 1 .. MaxTurns
    /\ source \in {"open", "ended"} /\ service \in {"none", "up", "ended"}
    /\ exit \in BOOLEAN /\ token \in BOOLEAN

\* create_leader_updater has returned an updater.
Init ==
    /\ kind \in Kinds
    /\ schedule \in [1 .. MaxTurns -> Peers] /\ turn = 1
    /\ kind = "pinned" => \A t \in 1 .. MaxTurns : schedule[t] = schedule[1]
    /\ source = "open"
    /\ service = IF kind = "pinned" THEN "none" ELSE "up"
    /\ exit = FALSE /\ token = FALSE

-----------------------------------------------------------------------------
(* What the scheduler asks for. *)

\* get_current_slot: a pinned leader has no slots.
CurrentSlot == IF kind = "pinned" THEN 0 ELSE turn

\* next_leaders: the leaders of the current turn and those that follow it.
\* A pinned leader is returned whatever number is asked for.
NextLeaders(n) ==
    IF kind = "pinned" THEN <<schedule[1]>>
    ELSE SubSeq(schedule, turn, IF turn + n <= MaxTurns THEN turn + n - 1 ELSE MaxTurns)

\* stop: the exit flag of the legacy service, the shutdown of the others.
Stop ==
    /\ exit' = TRUE
    /\ UNCHANGED <<kind, schedule, turn, source, service, token>>

\* stop has returned: the service was waited for.
Stopped == service # "up"

-----------------------------------------------------------------------------
(* The sources of slot events. *)

Statuses == {"FirstShredReceived", "CreatedBank", "Completed", "Confirmed"}

\* map_yellowstone_update_to_slot_event and udp_slot_event_stream: what the
\* service is told of an update.
SlotEvent(status) ==
    CASE status = "FirstShredReceived" -> "Start"
      [] status = "CreatedBank" /\ kind = "yellowstone" -> "Start"
      [] status = "Completed" -> "End"
      [] OTHER -> "none"

\* The turns the service may take to be the current one after an event, which
\* may be late: it does not go back.
Turns(event, t) ==
    {u \in CASE event = "Start" -> {turn, t}
             [] event = "End"   -> {turn, t + 1}
             [] OTHER           -> {turn} :
        u \in turn .. MaxTurns}

Sourced == kind \in {"yellowstone", "custom"} /\ source = "open" /\ service = "up"

HearUpdate(status, t) ==
    /\ Sourced
    /\ turn' \in Turns(SlotEvent(status), t)
    /\ UNCHANGED <<kind, schedule, source, service, exit, token>>

\* A datagram cannot be received: the stream ends.  (An error of Yellowstone
\* is passed over, as is a datagram that cannot be parsed.)
SourceEnds ==
    /\ Sourced /\ kind = "custom"
    /\ source' = "ended"
    /\ UNCHANGED <<kind, schedule, turn, service, exit, token>>

\* The service of a library follows the slots on its own.
LibraryMoves ==
    /\ kind \in {"legacy", "ws"} /\ service = "up" /\ turn < MaxTurns
    /\ turn' = turn + 1
    /\ UNCHANGED <<kind, schedule, source, service, exit, token>>

-----------------------------------------------------------------------------
(* The end of the service. *)

\* It fails too often; or an update of Yellowstone without content, or with
\* an unknown status, makes its task panic.
ServiceFails ==
    /\ service = "up"
    /\ service' = "ended"
    /\ UNCHANGED <<kind, schedule, turn, source, exit, token>>

\* The service is to end.  The legacy one was not given the token.
Told == exit \/ (token /\ kind # "legacy")

ServiceEnds ==
    /\ service = "up" /\ Told
    /\ service' = "ended"
    /\ UNCHANGED <<kind, schedule, turn, source, exit, token>>

CancelToken ==
    /\ token' = TRUE
    /\ UNCHANGED <<kind, schedule, turn, source, service, exit>>

Moves ==
    \/ \E status \in Statuses, t \in 1 .. MaxTurns : HearUpdate(status, t)
    \/ LibraryMoves

Next == Moves \/ SourceEnds \/ ServiceFails \/ ServiceEnds \/ CancelToken \/ Stop

=============================================================================
