---------------------------- MODULE DeliveryPipe ----------------------------
(***************************************************************************)
(* What the cloud synchronisation promises about data files once they are  *)
(* in its queue: they leave in the order they came, one at a time, each is *)
(* handed to a transport once, and it ends either delivered or lost: there *)
(* is no retry.  Files still waiting are only ever in memory.              *)
(***************************************************************************)
EXTENDS Sequences

CONSTANTS Files, \* the data files
          null   \* no file in flight

VARIABLES backlog,   \* files waiting, oldest first
          inFlight,  \* the file handed to a transport
          delivered, \* files a transport reported as written, in order
          lost       \* files whose transport reported an error, in order

vars == <<backlog, inFlight, delivered, lost>>

Elems(s) == {s[i] : i \in DOMAIN s}
Known == Elems(backlog) \cup {inFlight} \cup Elems(delivered) \cup Elems(lost)

Init == /\ backlog = <<>>
        /\ inFlight = null
        /\ delivered = <<>>
        /\ lost = <<>>

Accept(f) == /\ f \notin Known
             /\ backlog' = Append(backlog, f)
             /\ UNCHANGED <<inFlight, delivered, lost>>

Take == /\ inFlight = null
        /\ backlog # <<>>
        /\ inFlight' = Head(backlog)
        /\ backlog' = Tail(backlog)
        /\ UNCHANGED <<delivered, lost>>

Deliver == /\ inFlight # null
           /\ delivered' = Append(delivered, inFlight)
           /\ inFlight' = null
           /\ UNCHANGED <<backlog, lost>>

Lose == /\ inFlight # null
        /\ lost' = Append(lost, inFlight)
        /\ inFlight' = null
        /\ UNCHANGED <<backlog, delivered>>

Next == \/ \E f \in Files : Accept(f)
        \/ Take
        \/ Deliver
        \/ Lose

Spec == Init /\ [][Next]_vars
==============================================================================
