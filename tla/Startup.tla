------------------------------- MODULE Startup -------------------------------
(***************************************************************************)
(* A totpgated process from its command line to its event loop: main       *)
(* (src/main.c) reads the options and the secret file, then daemon_run     *)
(* sets up, drops its privileges and installs the filter.  What the setup  *)
(* does is in module Lifecycle.                                            *)
(***************************************************************************)
EXTENDS Options, PrivDrop

startupVars == <<optionVars, privVars>>

Configure == OptionsNext /\ UNCHANGED privVars

daemon_run == stage = "run" /\ PrivNext /\ UNCHANGED optionVars

StartupInit == OptionsInit /\ PrivInit

StartupNext == Configure \/ daemon_run

StartupSpec == StartupInit /\ [][StartupNext]_startupVars

(* Every value stays within its array, buffer or range                     *)
(* (parse_daemon_args, src/parse_opts.c), the configuration holds what was *)
(* taken so far, each call of drop_privileges (src/privdrop.c) has done    *)
(* its part by the next one, and nobody drops privileges before the        *)
(* configuration is complete.  Each step preserves it.                     *)
StartupInv ==
    /\ OptionsInv /\ PrivInv
    /\ call # "setup" => stage = "run" /\ ports # <<>>
=============================================================================
