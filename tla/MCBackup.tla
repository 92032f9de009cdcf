------------------------------ MODULE MCBackup ------------------------------
(* Two database paths, one of them no longer in use, and two directories   *)
(* on the remote host.  The crontab names what the defaults do not.        *)
EXTENDS Backup, TLC

CONSTANTS r1, r2

Runs == Permutations(Run)

Unset == [db |-> None, host |-> FALSE, root |-> None]

MCDefaults == [db |-> "old", host |-> FALSE, root |-> "srv"]

MCCrontabs == {None, [db |-> "live", host |-> TRUE, root |-> "root"]}

=============================================================================
