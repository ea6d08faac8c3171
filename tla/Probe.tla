-------------------------------- MODULE Probe --------------------------------
(***************************************************************************)
(* The fixed-size open-addressing table that src/ratelimit.c (g_table) and *)
(* src/auth.c (g_replay) both implement: the same 64 slots, the same hash  *)
(* (ip_hash32 of src/addr.h, masked to a slot) and the same probe loop,    *)
(* which walks from the home slot and stops at the first slot that is      *)
(* unused or holds the address it looks for.                               *)
(*                                                                         *)
(* An address is a member of IPs: ip_eq is equality and normalize_src has  *)
(* already turned an IPv4-mapped address into the IPv4 one.  Which home    *)
(* slot ip_hash32 gives an address is a constant, so that a model can make *)
(* addresses collide or not.                                               *)
(***************************************************************************)
EXTENDS Integers

CONSTANTS
    IPs,         \* source addresses
    TableSize,   \* RATE_TABLE_SIZE, REPLAY_TABLE_SIZE
    Hash         \* the home slot of an address

ASSUME ProbeAssumption ==
    /\ TableSize \in Nat \ {0}
    /\ Hash \in [IPs -> 0..(TableSize - 1)]

Slots == 0..(TableSize - 1)

(* (idx + i) & MASK: the i-th slot of the walk. *)
Pos(ip, i) == (Hash[ip] + i) % TableSize

(* The walk for ip gets as far as its i-th slot: every slot before it is   *)
(* used by another address.                                                *)
Walks(t, ip, i) ==
    \A j \in 0..(i - 1) : t[Pos(ip, j)].used /\ t[Pos(ip, j)].ip # ip

(* The walk for ip ends at slot p, which holds ip's entry. *)
Found(t, ip, p) ==
    /\ t[p].used /\ t[p].ip = ip
    /\ \E i \in Slots : p = Pos(ip, i) /\ Walks(t, ip, i)

(* The walk for ip ends at slot p, which is unused. *)
Gap(t, ip, p) ==
    /\ ~t[p].used
    /\ \E i \in Slots : p = Pos(ip, i) /\ Walks(t, ip, i)

(* The walk for ip visits every slot: all are used by other addresses. *)
NoRoom(t, ip) == \A p \in Slots : t[p].used /\ t[p].ip # ip

-----------------------------------------------------------------------------
(* The addresses in use do not share home slots. *)
PerfectHash == \A a, b \in IPs : a # b => Hash[a] # Hash[b]

(* No address can be pushed out of its home slot: either no two share one, *)
(* or there is no other slot to be pushed to.                              *)
NoDisplacement == PerfectHash \/ TableSize = 1

(* Every entry is in its address's home slot. *)
AtHome(t) == \A p \in Slots : t[p].used => p = Hash[t[p].ip]
=============================================================================
