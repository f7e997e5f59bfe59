---------------------------- MODULE MCRedisMulti ----------------------------
(***************************************************************************)
(* Instances of RedisMulti for TLC: the sets of commands of the runs.      *)
(***************************************************************************)
EXTENDS RedisMultiProps, TLC

CONSTANTS x, a

(* Two databases with one key each, and one value: a SET is told from the  *)
(* absence of the key, and a MOVE has somewhere to go.                     *)
TwoDbs == {0, 1}

Cmd(op, to) == [op |-> op, key |-> x, val |-> a, db |-> to]

(* What can change a watched key, but for MOVE. *)
CasCommands ==
    {Cmd(op, 0) : op \in {"set", "del", "expire", "flushdb", "unwatch"}}
        \cup {Cmd("select", 1)}

(* Everything a transaction may hold, but for SAVE. *)
StreamCommands ==
    {Cmd(op, 0) : op \in {"get", "set", "del", "expire", "expirepast", "flushdb", "unwatch"}}
        \cup {Cmd("select", 1), Cmd("move", 1)}

SaveCommands == {Cmd("set", 0), Cmd("save", 0)}

(* The datasets of a master this server may become a slave of. *)
TwoSnapshots == {[p \in Places |-> Absent], [p \in Places |-> a]}

(* The clients are interchangeable in every property. *)
ClientSymmetry == Permutations(Clients)
=============================================================================
