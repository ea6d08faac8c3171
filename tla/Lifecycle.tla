------------------------------ MODULE Lifecycle ------------------------------
(***************************************************************************)
(* The life of a totpgated process and of the nftables tables it leaves in *)
(* the kernel: daemon_run, daemon_setup and daemon_cleanup (src/main.c)    *)
(* with the netlink operations they call (src/netlink.c).  The tables      *)
(* outlive the process, so what a start finds is what the last run, or its *)
(* sudden death, left.                                                     *)
(*                                                                         *)
(* Every netlink operation is one batch that the kernel applies whole or   *)
(* not at all; its refusal may get lost on the way back, and then counts   *)
(* as success.  A table is the sequence of rules of its input chain and    *)
(* the set of addresses in its allowed_ips chain.                          *)
(***************************************************************************)
EXTENDS Integers, Sequences

CONSTANTS
    Clients,       \* source addresses of either family
    NumPorts,      \* cfg->num_ports
    MaxRefusals,   \* bound on the batches the kernel refuses to one process
    MaxStarts      \* bound on the starts of the daemon

ASSUME LifeAssumption ==
    /\ NumPorts \in Nat \ {0} /\ MaxRefusals \in Nat /\ MaxStarts \in Nat
    /\ "established" \notin Clients

Families == {"ip", "ip6"}

VARIABLES
    table,      \* kernel: family -> its totpgate table, or NoTable
    pc,         \* the step the process is at; "down" without a process
    family,     \* the family a loop over the families is at
    g_fd,       \* the netlink socket is open
    epoll_fd, signal_fd, udp_fds, num_udp_fds,   \* struct daemon's descriptors
    capable,    \* the process has CAP_NET_ADMIN
    blocked,    \* SIGTERM and SIGINT are blocked, to be read from signal_fd
    term,       \* one of them is pending
    refused,    \* batches refused to this process
    starts,     \* processes started so far
    own,        \* history: families whose table this process created
    granted,    \* history: addresses this process let in
    unheard,    \* history: families whose table lacks what a process took for made
    exit        \* history: how the last process ended

control == <<pc, family>>
daemonVars == <<epoll_fd, signal_fd, udp_fds, num_udp_fds>>
historyVars == <<own, granted, unheard, exit>>
signalVars == <<blocked, term>>
lifeVars == <<table, control, g_fd, daemonVars, capable, signalVars, refused, starts, historyVars>>

NoTable == [input |-> <<"no table">>, allowed |-> {}]
EmptyTable == [input |-> <<>>, allowed |-> {}]
InputRules == {"established", "jump", "drop"}
Tables == [input : Seq(InputRules), allowed : SUBSET Clients]

Up == pc # "down"

Steps == {"delete", "create", "flush", "established", "jump", "drop", "epoll", "udp",
          "privileges", "serve", "cleanup", "cleanup flush", "cleanup delete",
          "cleanup close", "down"}

LifeTypeOK ==
    /\ table \in [Families -> Tables \cup {NoTable}]
    /\ pc \in Steps /\ family \in Families
    /\ g_fd \in BOOLEAN /\ epoll_fd \in BOOLEAN /\ signal_fd \in BOOLEAN
    /\ udp_fds \subseteq 0..(NumPorts - 1) /\ num_udp_fds \in 0..NumPorts
    /\ capable \in BOOLEAN /\ blocked \in BOOLEAN /\ term \in BOOLEAN
    /\ own \subseteq Families /\ unheard \subseteq Families
    /\ refused \in 0..MaxRefusals /\ starts \in 0..MaxStarts
    /\ granted \subseteq Clients
    /\ exit \in {"none", "returned", "killed"}

-----------------------------------------------------------------------------
Goto(step) == pc' = step /\ family' = "ip"

(* A loop over the families: the other family, or what follows the loop. *)
NextFamily(step, next) ==
    IF family = "ip" THEN pc' = step /\ family' = "ip6" ELSE Goto(next)

(* A step of the setup fails: daemon_cleanup. *)
GiveUp == Goto("cleanup")

(* The kernel can do what a batch asks: the process has the capability and *)
(* there is a table, which only netlink_create_family_batch does without.  *)
Able == capable /\ (pc = "create" \/ table[family] # NoTable)

(* nl_talk_wrapped and nl_batch_talk: the kernel makes the family's table  *)
(* t, or it refuses, if need be for reasons of its own.                    *)
nl_batch_talk(t, ok) ==
    /\ IF ok THEN Able ELSE ~Able \/ refused < MaxRefusals
    /\ refused' = IF ok \/ ~Able THEN refused ELSE refused + 1
    /\ table' = IF ok THEN [table EXCEPT ![family] = t] ELSE table

(* What they return: a failure that the kernel reports.  A failed recv or  *)
(* 100 ms without an answer counts as success.                             *)
process_batch_replies(ok, failed) ==
    /\ failed => ~ok
    /\ unheard' = IF ok \/ failed THEN unheard ELSE unheard \cup {family}

(* One batch of the setup whose failure is fatal. *)
SetupBatch(t, next) ==
    /\ \E ok, failed \in BOOLEAN :
          /\ nl_batch_talk(t, ok) /\ process_batch_replies(ok, failed)
          /\ IF failed THEN GiveUp ELSE NextFamily(pc, next)
    /\ UNCHANGED <<g_fd, daemonVars, capable, signalVars, starts, own, granted, exit>>

(* One batch whose result nobody looks at. *)
HeedlessBatch(t) ==
    /\ \E ok \in BOOLEAN :
          /\ nl_batch_talk(t, ok)
          /\ unheard' = IF ok /\ t = NoTable THEN unheard \ {family} ELSE unheard
    /\ UNCHANGED <<g_fd, daemonVars, capable, signalVars, starts, own, granted, exit>>

-----------------------------------------------------------------------------
(* daemon_run begins: the head of daemon_setup, and netlink_init's socket. *)
Start ==
    /\ pc = "down" /\ starts < MaxStarts
    /\ starts' = starts + 1
    /\ capable' \in BOOLEAN
    /\ blocked' = FALSE /\ term' = FALSE
    /\ refused' = 0 /\ own' = {} /\ granted' = {}
    /\ epoll_fd' = FALSE /\ signal_fd' = FALSE /\ udp_fds' = {} /\ num_udp_fds' = 0
    /\ \/ g_fd' = TRUE /\ Goto("delete")
       \/ g_fd' = FALSE /\ GiveUp
    /\ UNCHANGED <<table, unheard, exit>>

(* netlink_delete_table *)
DeleteTable ==
    /\ pc = "delete"
    /\ HeedlessBatch(NoTable) /\ NextFamily("delete", "create")

(* netlink_create_family_batch, and what netlink_init does when it fails: *)
(* the socket is closed before daemon_cleanup.  An existing table stays.  *)
CreateFamily ==
    /\ pc = "create"
    /\ \E ok, failed \in BOOLEAN :
          /\ nl_batch_talk(IF table[family] = NoTable THEN EmptyTable ELSE table[family], ok)
          /\ process_batch_replies(ok, failed)
          /\ g_fd' = ~failed
          /\ own' = IF ok THEN own \cup {family} ELSE own
          /\ IF failed THEN GiveUp ELSE NextFamily("create", "flush")
    /\ UNCHANGED <<daemonVars, capable, signalVars, starts, granted, exit>>

(* A mutant: the input chain is flushed. *)
FlushInput ==
    /\ pc = "flush"
    /\ HeedlessBatch([table[family] EXCEPT !.input = <<>>])
    /\ NextFamily("flush", "established")

(* netlink_flush_chain *)
FlushChain ==
    /\ pc = "flush"
    /\ HeedlessBatch([table[family] EXCEPT !.allowed = {}])
    /\ NextFamily("flush", "established")

(* A mutant: without NLM_F_APPEND a rule goes to the head of its chain. *)
PrependRule(rule, next) ==
    /\ pc = rule
    /\ SetupBatch([table[family] EXCEPT !.input = <<rule>> \o @], next)

AppendRule(rule, next) ==
    /\ pc = rule
    /\ SetupBatch([table[family] EXCEPT !.input = Append(@, rule)], next)

AddEstablished == AppendRule("established", "jump")
AddJump == AppendRule("jump", "drop")

(* A mutant: nobody looks at the result. *)
AddDropHeedless ==
    /\ pc = "drop"
    /\ HeedlessBatch([table[family] EXCEPT !.input = Append(@, "drop")])
    /\ NextFamily("drop", "epoll")

AddDrop == AppendRule("drop", "epoll")

SetupEpoll ==
    /\ pc = "epoll"
    /\ \/ epoll_fd' = TRUE /\ Goto("udp")
       \/ epoll_fd' = FALSE /\ GiveUp
    /\ UNCHANGED <<table, g_fd, signal_fd, udp_fds, num_udp_fds, capable, signalVars,
                   refused, starts, historyVars>>

(* Mutants: a port too many is opened; a port is counted only once epoll   *)
(* has it.                                                                 *)
OpenPortTooMany ==
    /\ pc = "udp" /\ num_udp_fds <= NumPorts
    /\ udp_fds' = udp_fds \cup {num_udp_fds}
    /\ num_udp_fds' = num_udp_fds + 1
    /\ UNCHANGED <<control, table, g_fd, epoll_fd, signal_fd, capable, signalVars, refused, starts,
                   historyVars>>

OpenPortCountsLate ==
    /\ pc = "udp" /\ num_udp_fds < NumPorts
    /\ udp_fds' = udp_fds \cup {num_udp_fds}
    /\ \/ num_udp_fds' = num_udp_fds + 1 /\ UNCHANGED control
       \/ num_udp_fds' = num_udp_fds /\ GiveUp
    /\ UNCHANGED <<table, g_fd, epoll_fd, signal_fd, capable, signalVars, refused, starts,
                   historyVars>>

(* One turn of the loop over the ports. *)
OpenPort ==
    /\ pc = "udp" /\ num_udp_fds < NumPorts
    /\ \/ /\ udp_fds' = udp_fds \cup {num_udp_fds}
          /\ num_udp_fds' = num_udp_fds + 1
          /\ UNCHANGED control \/ GiveUp          \* epoll_ctl may fail
       \/ UNCHANGED <<udp_fds, num_udp_fds>> /\ GiveUp
    /\ UNCHANGED <<table, g_fd, epoll_fd, signal_fd, capable, signalVars, refused, starts,
                   historyVars>>

(* From here on SIGTERM and SIGINT are blocked, and read from signal_fd. *)
SetupSignal ==
    /\ pc = "udp" /\ num_udp_fds = NumPorts
    /\ \/ signal_fd' = TRUE /\ (Goto("privileges") \/ GiveUp)
       \/ signal_fd' = FALSE /\ GiveUp
    /\ blocked' = TRUE
    /\ UNCHANGED <<table, g_fd, epoll_fd, udp_fds, num_udp_fds, capable, term, refused,
                   starts, historyVars>>

(* drop_privileges keeps CAP_NET_ADMIN or, with a warning only, loses it. *)
DropPrivileges ==
    /\ pc = "privileges"
    /\ capable' \in {capable, FALSE}
    /\ Goto("serve") \/ GiveUp
    /\ UNCHANGED <<table, g_fd, daemonVars, signalVars, refused, starts, historyVars>>

-----------------------------------------------------------------------------
(* While it serves, the daemon changes the allowed_ips chains: it lets     *)
(* addresses in and takes them out again, as module Rules says in detail.  *)
Admit(f, c) ==
    /\ pc = "serve" /\ capable /\ table[f] # NoTable
    /\ table' = [table EXCEPT ![f].allowed = @ \cup {c}]
    /\ granted' = granted \cup {c}
    /\ UNCHANGED <<control, g_fd, daemonVars, capable, signalVars, refused, starts, own, unheard, exit>>

Dismiss(f, c) ==
    /\ pc = "serve" /\ capable
    /\ c \in table[f].allowed
    /\ table' = [table EXCEPT ![f].allowed = @ \ {c}]
    /\ UNCHANGED <<control, g_fd, daemonVars, capable, signalVars, refused, starts, historyVars>>

(* daemon_process returns 1 after a signal, -1 when epoll_wait fails; in   *)
(* test mode the loop ends by itself.                                      *)
Leave ==
    /\ pc = "serve"
    /\ Goto("cleanup")
    /\ UNCHANGED <<table, g_fd, daemonVars, capable, blocked, refused, starts, historyVars>>

StopOnSignal == Leave /\ term /\ term' = FALSE
StopOnError == Leave /\ UNCHANGED term

-----------------------------------------------------------------------------
(* daemon_cleanup up to netlink_cleanup, which does nothing without its    *)
(* socket.                                                                 *)
CloseDescriptors ==
    /\ pc = "cleanup"
    /\ signal_fd' = FALSE /\ epoll_fd' = FALSE
    /\ udp_fds' = udp_fds \ (0..(num_udp_fds - 1)) /\ num_udp_fds' = 0
    /\ Goto(IF g_fd THEN "cleanup flush" ELSE "cleanup close")
    /\ UNCHANGED <<table, g_fd, capable, signalVars, refused, starts, historyVars>>

(* Mutants: the other chain is emptied; the loop stays with its family. *)
CleanupFlushAllowed ==
    /\ pc = "cleanup flush" /\ pc' = "cleanup delete" /\ UNCHANGED family
    /\ HeedlessBatch([table[family] EXCEPT !.allowed = {}])

CleanupForever ==
    /\ pc = "cleanup delete" /\ pc' = "cleanup flush" /\ UNCHANGED family
    /\ HeedlessBatch(NoTable)

(* netlink_cleanup: each family's input chain is emptied, its table        *)
(* deleted.                                                                *)
CleanupFlush ==
    /\ pc = "cleanup flush" /\ pc' = "cleanup delete" /\ UNCHANGED family
    /\ HeedlessBatch([table[family] EXCEPT !.input = <<>>])

CleanupDelete ==
    /\ pc = "cleanup delete"
    /\ HeedlessBatch(NoTable) /\ NextFamily("cleanup flush", "cleanup close")

Return ==
    /\ pc = "cleanup close"
    /\ g_fd' = FALSE
    /\ Goto("down") /\ exit' = "returned"
    /\ UNCHANGED <<table, daemonVars, capable, signalVars, refused, starts, own, granted, unheard>>

-----------------------------------------------------------------------------
(* The process dies; the kernel closes its descriptors and keeps tables.   *)
Die ==
    /\ Goto("down") /\ exit' = "killed"
    /\ g_fd' = FALSE /\ epoll_fd' = FALSE /\ signal_fd' = FALSE
    /\ udp_fds' = {} /\ num_udp_fds' = 0
    /\ UNCHANGED <<table, capable, signalVars, refused, starts, own, granted, unheard>>

Crash == Up /\ Die

(* SIGTERM kills the process as long as it does not block the signal. *)
Terminate ==
    /\ Up /\ ~term
    /\ \/ /\ blocked
          /\ term' = TRUE
          /\ UNCHANGED <<table, control, g_fd, daemonVars, capable, blocked, refused, starts,
                         historyVars>>
       \/ ~blocked /\ Die

-----------------------------------------------------------------------------
LifeInit ==
    /\ table = [f \in Families |-> NoTable]
    /\ pc = "down" /\ family = "ip" /\ g_fd = FALSE
    /\ epoll_fd = FALSE /\ signal_fd = FALSE /\ udp_fds = {} /\ num_udp_fds = 0
    /\ capable = FALSE /\ blocked = FALSE /\ term = FALSE
    /\ refused = 0 /\ starts = 0
    /\ own = {} /\ granted = {} /\ unheard = {} /\ exit = "none"

Setup ==
    \/ DeleteTable \/ CreateFamily \/ FlushChain \/ AddEstablished \/ AddJump \/ AddDrop
    \/ SetupEpoll \/ OpenPort \/ SetupSignal \/ DropPrivileges

Cleanup == CloseDescriptors \/ CleanupFlush \/ CleanupDelete \/ Return

Serve == \E f \in Families, c \in Clients : Admit(f, c) \/ Dismiss(f, c)

LifeNext ==
    \/ Start \/ Setup \/ Serve \/ StopOnSignal \/ StopOnError \/ Cleanup
    \/ Crash \/ Terminate

(* The process gets on with its setup and cleanup, and sees a pending      *)
(* signal: signal_fd is level-triggered, and every pass of the event loop  *)
(* looks at it as long as the passes end.                                  *)
LifeSpec ==
    /\ LifeInit /\ [][LifeNext]_lifeVars
    /\ WF_lifeVars(Setup) /\ WF_lifeVars(Cleanup) /\ WF_lifeVars(StopOnSignal)

-----------------------------------------------------------------------------
(* What the input chain of a table does to a packet for the target port:   *)
(* the first rule with a verdict decides, else the policy, which accepts.  *)
(* A packet is of an open connection, or opens one from a client.  The     *)
(* drop rule does not look at the connection's state.                      *)
Packets == {"established"} \cup Clients

Accepts(t, k, p) ==
    \/ t.input[k] = "established" /\ p = "established"
    \/ t.input[k] = "jump" /\ p \in t.allowed

Dropped(t, p) ==
    \E k \in 1..Len(t.input) :
       /\ t.input[k] = "drop"
       /\ \A j \in 1..(k - 1) : ~Accepts(t, j, p)

(* The tables that are what their processes believe. *)
Heard == Families \ unheard

(* No connection that is already open is ever cut: whatever step, refusal  *)
(* or death of the process the kernel is left with, no table drops its     *)
(* packets (the order in which daemon_setup_netlink, src/main.c, appends   *)
(* the rules of the input chain), unless the refusal of one of its rules   *)
(* went unheard.                                                           *)
EstablishedSurvives == \A f \in Heard : ~Dropped(table[f], "established")

(* A daemon that serves (daemon_run, src/main.c, past its setup) guards    *)
(* the port in both families: a new connection is dropped exactly when its *)
(* source is not in the allowed_ips chain, even when the setup could not   *)
(* get rid of an earlier process's table; an unheard refusal in the other  *)
(* family does not matter.                                                 *)
GateHolds ==
    pc = "serve" =>
        \A f \in Heard, c \in Clients :
            Dropped(table[f], c) <=> c \notin table[f].allowed

(* A daemon that serves lets nobody in on an earlier process's word: the   *)
(* grants a crash left behind are gone, as netlink_init and                *)
(* netlink_flush_chain (src/netlink.c) both remove them and at most one of *)
(* the two is refused.                                                     *)
NoStaleGrants ==
    pc = "serve" => \A f \in Heard : table[f].allowed \subseteq granted

(* A process that returns from daemon_run (src/main.c) with its capability *)
(* leaves no table of its own that drops a packet, though one batch of its *)
(* setup or cleanup may be refused, heard or not.                          *)
ExitOpens ==
    pc = "down" /\ exit = "returned" /\ capable =>
        \A f \in own, p \in Packets : ~Dropped(table[f], p)

(* daemon_cleanup (src/main.c) closes every descriptor, wherever the setup *)
(* stopped.                                                                *)
DescriptorsClosed ==
    pc \in {"cleanup close", "down"} => ~epoll_fd /\ ~signal_fd /\ udp_fds = {}

(* SIGTERM ends the daemon (daemon_handle_signal, src/main.c): once one is *)
(* pending, the process gets to its end.                                   *)
SignalEnds == term ~> ~Up

-----------------------------------------------------------------------------
(* How far the setup has got: it is past its n-th step for family f. *)
Rank(step) ==
    CASE step = "delete" -> 1
      [] step = "create" -> 2
      [] step = "flush" -> 3
      [] step = "established" -> 4
      [] step = "jump" -> 5
      [] step = "drop" -> 6
      [] step \in {"epoll", "udp", "privileges", "serve"} -> 7
      [] OTHER -> 0

Past(n, f) ==
    Rank(pc) > n \/ (Rank(pc) = n /\ f = "ip" /\ family = "ip6")

Has(t, rule) == \E k \in 1..Len(t.input) : t.input[k] = rule

BuiltSoFar ==
    \A f \in Heard :
       /\ Past(2, f) => table[f] # NoTable
       /\ Past(4, f) => Has(table[f], "established")
       /\ Past(5, f) => Has(table[f], "jump")
       /\ Past(6, f) => Has(table[f], "drop")

(* Whatever table is there, every drop comes after its exceptions. *)
Follows(t, k, rule) == \E j \in 1..(k - 1) : t.input[j] = rule

DropsLast(t) ==
    \A k \in 1..Len(t.input) :
        t.input[k] = "drop" => Follows(t, k, "established") /\ Follows(t, k, "jump")

ChainsOrdered == \A f \in Heard : DropsLast(table[f])

(* Nobody gets past netlink_init without the capability, unless unheard. *)
CapableSetup == \A f \in Heard : Past(2, f) /\ pc # "serve" => capable

(* Grants of earlier processes survive the deletion of their table only    *)
(* if it is refused, and then not the flush.                               *)
StaleGrantsGo ==
    /\ Rank(pc) # 0 /\ pc # "serve" => granted = {}
    /\ \A f \in Families :
          /\ Past(1, f) /\ ~Past(3, f) /\ capable /\ table[f].allowed # {} => refused >= 1
          /\ MaxRefusals <= 1 /\ Past(3, f) /\ f \in Heard => table[f].allowed \subseteq granted

TablesInv == LifeTypeOK /\ BuiltSoFar /\ ChainsOrdered /\ CapableSetup /\ StaleGrantsGo

(* Every open descriptor is one that the cleanup knows of, and the netlink *)
(* socket is open throughout the setup.                                    *)
Closed == {"cleanup flush", "cleanup delete", "cleanup close", "down"}

DescriptorsKept ==
    /\ udp_fds \subseteq 0..(num_udp_fds - 1)
    /\ pc \in Closed => ~epoll_fd /\ ~signal_fd /\ udp_fds = {}
    /\ Rank(pc) # 0 => g_fd

(* Families that the cleanup is through with, or that it cannot reach. *)
Wiped(f) ==
    \/ pc = "cleanup" /\ ~g_fd
    \/ pc \in {"cleanup flush", "cleanup delete"} /\ f = "ip" /\ family = "ip6"
    \/ pc = "cleanup close"
    \/ pc = "down" /\ exit = "returned"

(* A drop rule survives the deletion of its table, when the setup begins   *)
(* or at the end, only if that is refused, and then not its own removal.   *)
DropsGo ==
    MaxRefusals <= 1 /\ capable =>
        /\ \A f \in Families :
              Rank(pc) \in {1, 2} /\ Past(1, f) /\ refused = 0 => ~Has(table[f], "drop")
        /\ \A f \in own : Wiped(f) => ~Has(table[f], "drop")
        /\ pc = "cleanup delete" /\ family \in own =>
              ~Has(table[family], "drop") \/ refused >= 1

(* The tables are as complete as the setup (daemon_setup_netlink,          *)
(* src/main.c) has got, with their rules in order, whatever it found when  *)
(* it began, and daemon_cleanup takes back what it made: this is the       *)
(* inductive invariant of the proofs.                                      *)
LifeInv == TablesInv /\ DescriptorsKept /\ DropsGo
=============================================================================
