--------------------------------- MODULE MCCli ---------------------------------
(***************************************************************************)
(* A small instance of Cli: every command, a word that is none, and the    *)
(* numbers zero, one that a byte holds and one that it does not.           *)
(***************************************************************************)
EXTENDS Cli

MCWords == {"toggle", "sense", "get_boot", "set_boot", "status", "programming",
            "reboot", "junk"}

MCValue == [zero |-> 0, five |-> 5, big |-> 300]
=============================================================================
