--------------------------- MODULE SnapshotCatalog ---------------------------
(***************************************************************************)
(* What the exporter promises its clients about snapshots, without saying  *)
(* how.  A snapshot appears whole, in one step; it stays until somebody    *)
(* deletes it; deleting takes time, and once it is over the snapshot is    *)
(* gone for good.  A request that reads is served by a snapshot that is    *)
(* there when it is answered, and is turned down only for a fault of its   *)
(* own or for a snapshot that is being deleted.                            *)
(***************************************************************************)
CONSTANTS
    Snapshots,   \* snapshots there may ever be
    Clients      \* requests that read, one at a time each

VARIABLES
    state,    \* none, present, leaving or gone
    want,     \* the snapshots that a client's request is about
    answer    \* none, pending, ok, refused, unavailable or failed

vars == <<state, want, answer>>

Here(s) == state[s] \in {"present", "leaving"}

Init ==
    /\ state = [s \in Snapshots |-> "none"]
    /\ want = [q \in Clients |-> {}]
    /\ answer = [q \in Clients |-> "none"]

Move(s, from, to) ==
    /\ state[s] = from
    /\ state' = [state EXCEPT ![s] = to]
    /\ UNCHANGED <<want, answer>>

Create(s) == Move(s, "none", "present")
Leave(s)  == Move(s, "present", "leaving")
Go(s)     == Move(s, "leaving", "gone")

\* A request names snapshots that its client may have heard of.  The list of a
\* VM without snapshots is answered at once.
Ask(q, ids) ==
    /\ answer[q] # "pending"
    /\ want' = [want EXCEPT ![q] = ids]
    /\ answer' = [answer EXCEPT ![q] = IF ids = {} THEN "ok" ELSE "pending"]
    /\ UNCHANGED state

Reply(q, code) ==
    /\ answer[q] = "pending"
    /\ answer' = [answer EXCEPT ![q] = code]
    /\ UNCHANGED <<state, want>>

Serve(q)       == Reply(q, "ok") /\ \E s \in want[q] : Here(s)
Unavailable(q) == Reply(q, "unavailable") /\ \E s \in want[q] : state[s] \in {"leaving", "gone"}
Refuse(q)      == Reply(q, "refused")   \* another VM's, or no such disk
Fail(q)        == Reply(q, "failed")    \* one of the request's own calls failed

\* The requests are lost, the snapshots are not.
Restart ==
    /\ want' = [q \in Clients |-> {}]
    /\ answer' = [q \in Clients |-> "none"]
    /\ UNCHANGED state

Next ==
    \/ \E s \in Snapshots : Create(s) \/ Leave(s) \/ Go(s)
    \/ \E q \in Clients :
         \/ \E ids \in SUBSET {s \in Snapshots : state[s] # "none"} : Ask(q, ids)
         \/ Serve(q) \/ Unavailable(q) \/ Refuse(q) \/ Fail(q)
    \/ Restart

Spec == Init /\ [][Next]_vars
=============================================================================
