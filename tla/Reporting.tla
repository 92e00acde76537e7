----------------------------- MODULE Reporting -----------------------------
(***************************************************************************)
(* What the CSV writer of the rate-latency-tool promises, without its      *)
(* tasks, batches, map and mutex: a ledger of sends and of the rows that   *)
(* are passed on.  A send is made, filed, and told once: either with the   *)
(* first row of a block that is looked up when the send is on file, or as  *)
(* expired, oldest first, and only when it is older than MaxTxAge.  A row  *)
(* that was looked up is passed on later, and meanwhile sends may be filed *)
(* (its own too: it has missed it), expire, or be dumped.  At the end      *)
(* those that wait are dumped, in order and all of them, unless the writer *)
(* has broken or the senders have gone with nothing left to file.          *)
(***************************************************************************)
EXTENDS Naturals, Sequences

CONSTANTS
    MaxTxAge,  \* MAX_TX_AGE_MS
    Ids        \* what a row of a block can carry as its id (0: none)

VARIABLES
    now,        \* wall clock
    sent,       \* send times, by transaction id
    filed,      \* how many of the sends are on file
    rows,       \* rows passed on for the file
    held,       \* the row that was looked up and is not passed on, if any
    cancelled,  \* the end was asked for
    phase,      \* "filing", "dumping" or "over": what is done with sends
    broken      \* rows are no longer taken

vars == <<now, sent, filed, rows, held, cancelled, phase, broken>>

\* The status of send id was given with a row.
Told(id) ==
    \E i \in DOMAIN rows : rows[i].status /\ rows[i].id = id /\ rows[i].by # "dump"

Dumped(id) == \E i \in DOMAIN rows : rows[i].id = id /\ rows[i].by = "dump"

\* It will be, with the row that is held.
ToldSoon(id) == \E row \in held : row.status /\ row.id = id

\* On file and not told.
Waiting == {id \in 1 .. filed : ~Told(id) /\ ~ToldSoon(id)}

Init ==
    /\ now = 0 /\ sent = <<>> /\ filed = 0 /\ rows = <<>> /\ held = {}
    /\ cancelled = FALSE /\ phase = "filing" /\ broken = FALSE

\* A row is passed on, as long as somebody takes it.
Put(row) == ~broken /\ rows' = Append(rows, row)

-----------------------------------------------------------------------------
Tick ==
    /\ now' = now + 1
    /\ UNCHANGED <<sent, filed, rows, held, cancelled, phase, broken>>

Send ==
    /\ phase # "over"
    /\ sent' = Append(sent, now)
    /\ UNCHANGED <<now, filed, rows, held, cancelled, phase, broken>>

Cancel ==
    /\ cancelled' = TRUE
    /\ UNCHANGED <<now, sent, filed, rows, held, phase, broken>>

File ==
    /\ phase = "filing"
    /\ filed' \in filed + 1 .. Len(sent)
    /\ UNCHANGED <<now, sent, rows, held, cancelled, phase, broken>>

\* A row of a block is looked up.  It tells its send if that waits; a row
\* that comes before, or later, gets no status.  While the dump lasts only
\* rows without an id come through.
Look(id) ==
    /\ ~broken /\ held = {}
    /\ phase = "dumping" => id = 0
    /\ held' = {[id |-> id, by |-> "block", status |-> id \in Waiting]}
    /\ UNCHANGED <<now, sent, filed, rows, cancelled, phase, broken>>

\* It is passed on, at any time.
Land ==
    /\ \E row \in held : Put(row)
    /\ held' = {}
    /\ UNCHANGED <<now, sent, filed, cancelled, phase, broken>>

\* The oldest of the sends that wait is given up.
Expire(id) ==
    /\ phase # "dumping"
    /\ id \in Waiting /\ \A o \in Waiting : id <= o
    /\ now > sent[id] + MaxTxAge
    /\ Put([id |-> id, by |-> "flush", status |-> TRUE])
    /\ UNCHANGED <<now, sent, filed, held, cancelled, phase, broken>>

BeginDump ==
    /\ phase = "filing" /\ cancelled
    /\ phase' = "dumping"
    /\ UNCHANGED <<now, sent, filed, rows, held, cancelled, broken>>

\* The next of those that wait, in the order of their ids.
Dump(id) ==
    /\ phase = "dumping"
    /\ id \in Waiting /\ ~Dumped(id)
    /\ \A o \in Waiting : o < id => Dumped(o)
    /\ Put([id |-> id, by |-> "dump", status |-> TRUE])
    /\ UNCHANGED <<now, sent, filed, held, cancelled, phase, broken>>

EndDump ==
    /\ phase = "dumping"
    /\ broken \/ \A id \in Waiting : Dumped(id)
    /\ phase' = "over"
    /\ UNCHANGED <<now, sent, filed, rows, held, cancelled, broken>>

\* The sender has gone and every send is on file: no dump.
Leave ==
    /\ phase = "filing" /\ filed = Len(sent)
    /\ phase' = "over"
    /\ UNCHANGED <<now, sent, filed, rows, held, cancelled, broken>>

\* Writing has failed, from the start (then nothing is filed either) or
\* later, and then the row that is held is lost; or everything is over and
\* the writer leaves.
Break ==
    /\ broken' = TRUE /\ held' = {}
    /\ \/ phase' = phase
       \/ filed = 0 /\ phase' = "over"
    /\ UNCHANGED <<now, sent, filed, rows, cancelled>>

Next ==
    \/ Tick \/ Send \/ Cancel \/ File
    \/ Land \/ \E id \in Ids : Look(id)
    \/ \E id \in Waiting : Expire(id) \/ Dump(id)
    \/ BeginDump \/ EndDump \/ Leave \/ Break

Spec == Init /\ [][Next]_vars

=============================================================================
