---------------------------- MODULE MinerCommandRow ----------------------------
(***************************************************************************)
(* The row of a MinerCommand (api/collector_api.py), and what the handlers  *)
(* that change it compute from the row they have loaded: the poll and the   *)
(* ACK of api/control_plane_api.py, the job of services/lease_recovery.py,  *)
(* and the ORM that writes the result.                                      *)
(***************************************************************************)
EXTENDS Integers

CONSTANTS
    Devices,      \* edge devices, clients of the control plane
    NoOwner,      \* NULL in lease_owner
    MaxRetries,   \* max_retries of every command
    AckStatuses,  \* what devices put in the "status" of an ACK
    MaxDispatch   \* bound: hand-outs of one command that are explored

ASSUME RowAssumption == /\ NoOwner \notin Devices
                        /\ MaxRetries \in Nat
                        /\ MaxDispatch \in Nat
                        /\ AckStatuses \subseteq {"completed", "failed", "deferred"}

TERMINAL_STATES == {"completed", "failed", "expired", "cancelled", "superseded"}
STATUS_TYPES    == {"pending", "sent", "dispatched", "running"} \cup TERMINAL_STATES
Statuses        == STATUS_TYPES \cup AckStatuses \cup {"absent"}  \* an ACK may invent one
Outcomes        == AckStatuses \cup {"completed", "failed", "expired", "none"}

Numbers         == 0 .. MaxDispatch

\* The columns of a row the handlers decide on.  "absent": not yet created.
\* dispatch_nonce is the number of the hand-out it was drawn for, 0 for NULL.
Rows == [status         : Statuses,
         lease_owner    : Devices \cup {NoOwner},
         lease_until    : {"none", "live", "lapsed"},
         retry_count    : 0 .. MaxRetries,
         dispatch_nonce : Numbers]

AbsentRow == [status |-> "absent", lease_owner |-> NoOwner, lease_until |-> "none",
              retry_count |-> 0, dispatch_nonce |-> 0]
NewRow    == [AbsentRow EXCEPT !.status = "pending"]

-----------------------------------------------------------------------------
(* The ORM: an UPDATE names only the columns whose value differs from the  *)
(* one that was loaded, so a commit leaves the others as it finds them.    *)

Net(loaded, new, current) == IF new = loaded THEN current ELSE new

Flush(cur, snap, new) ==
    [status         |-> Net(snap.status, new.status, cur.status),
     lease_owner    |-> Net(snap.lease_owner, new.lease_owner, cur.lease_owner),
     lease_until    |-> Net(snap.lease_until, new.lease_until, cur.lease_until),
     retry_count    |-> Net(snap.retry_count, new.retry_count, cur.retry_count),
     dispatch_nonce |-> Net(snap.dispatch_nonce, new.dispatch_nonce, cur.dispatch_nonce)]

Released(r) == [r EXCEPT !.lease_owner = NoOwner, !.lease_until = "none"]

-----------------------------------------------------------------------------
(* What a poll, an ACK of outcome s, and the recovery job make of a row.    *)

Leased(r, d, n) == [r EXCEPT !.status = "dispatched", !.lease_owner = d,
                             !.lease_until = "live", !.dispatch_nonce = n]

\* Fault: one retry too many.
RetriesOffByOne(snap, s) == s = "failed" /\ snap.retry_count <= MaxRetries

Retries(snap, s) == s = "failed" /\ snap.retry_count < MaxRetries

\* Fault: the lease of a failed command is not released.
AckedRowLeased(snap, s) ==
    IF Retries(snap, s)
    THEN [snap EXCEPT !.status = "pending", !.retry_count = @ + 1]
    ELSE [Released(snap) EXCEPT !.status = s]

AckedRow(snap, s) ==
    IF Retries(snap, s)
    THEN [Released(snap) EXCEPT !.status = "pending", !.retry_count = @ + 1]
    ELSE [Released(snap) EXCEPT !.status = s]

\* Faults: the retry is not counted, the status is not reset, and the last retry
\* is not made.
RecoveredRowFree(snap) ==
    [Released(snap) EXCEPT !.status = IF snap.retry_count < MaxRetries THEN "pending" ELSE "failed"]
RecoveredRowDispatched(snap) ==
    IF snap.retry_count < MaxRetries
    THEN [Released(snap) EXCEPT !.retry_count = @ + 1]
    ELSE [Released(snap) EXCEPT !.status = "failed"]

RecoveredRowEarly(snap) ==
    IF snap.retry_count + 1 < MaxRetries
    THEN [Released(snap) EXCEPT !.status = "pending", !.retry_count = @ + 1]
    ELSE [Released(snap) EXCEPT !.status = "failed"]

RecoveredRow(snap) ==
    IF snap.retry_count < MaxRetries
    THEN [Released(snap) EXCEPT !.status = "pending", !.retry_count = @ + 1]
    ELSE [Released(snap) EXCEPT !.status = "failed"]

-----------------------------------------------------------------------------
Ended(r) == r.status \in TERMINAL_STATES

\* Status and lease columns agree.
Consistent(r) == /\ r.status = "dispatched" <=> r.lease_owner # NoOwner
                 /\ r.lease_owner # NoOwner <=> r.lease_until # "none"
=============================================================================
