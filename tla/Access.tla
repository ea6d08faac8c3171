-------------------------------- MODULE Access --------------------------------
(***************************************************************************)
(* What totpgated promises the services behind it (src/README.md, "How it  *)
(* works"): an address is let in by a one-time token that advances on all  *)
(* it has used before, and is let in again only while the grant of its     *)
(* last token runs.  The promise is about who gets in, not about staying:  *)
(* an address may be put out at any time.                                  *)
(***************************************************************************)
EXTENDS Integers, Sequences

CONSTANTS
    Clients,    \* source addresses
    Counters,   \* of one-time tokens
    Duration,   \* of a grant, seconds
    Grace       \* seconds by which an expiry may be noticed late

VARIABLES
    open,       \* the clients that are let in
    used,       \* client -> the counters of its tokens, in order
    until,      \* client -> the end of its last grant
    time,       \* monotonic
    slip        \* seconds the wall clock was set back

accessVars == <<open, used, until, time, slip>>

AccessInit ==
    /\ open = {} /\ used = [c \in Clients |-> <<>>] /\ until = [c \in Clients |-> 0]
    /\ time \in Nat /\ slip = 0

TimePasses == time' \in Nat /\ time' >= time /\ slip' >= slip

Advances(seq, n) == \A k \in 1..Len(seq) : seq[k] < n

(* A token opens the gate; a firewall that refuses leaves it shut. *)
Admit(c) ==
    /\ \E n \in Counters :
          /\ Advances(used[c], n)
          /\ used' = [used EXCEPT ![c] = Append(@, n)]
    /\ until' = [until EXCEPT ![c] = time + Duration]
    /\ open' = open \/ open' = open \cup {c}
    /\ TimePasses

(* Access that was interrupted is restored while the grant lasts. *)
Readmit(c) ==
    /\ used[c] # <<>> /\ time < until[c] + slip + Grace
    /\ open' = open \cup {c}
    /\ UNCHANGED <<used, until, time, slip>>

Expel ==
    /\ open' \subseteq open
    /\ UNCHANGED <<used, until, time, slip>>

Wait == TimePasses /\ UNCHANGED <<open, used, until>>

AccessNext == (\E c \in Clients : Admit(c) \/ Readmit(c)) \/ Expel \/ Wait

AccessSpec == AccessInit /\ [][AccessNext]_accessVars
==============================================================================
