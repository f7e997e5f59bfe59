------------------------ MODULE MCRedisReplication ------------------------
(* Instances of RedisReplication for TLC: how often each kind of event may  *)
(* happen in each run.                                                      *)
EXTENDS RedisReplicationProps

None == [e \in Events |-> 0]
Allow(writes, pings, drops) ==
  [None EXCEPT !["write"] = writes, !["ping"] = pings, !["drop"] = drops]

CrashAndResize == [Allow(2, 1, 1) EXCEPT !["crash"] = 1, !["resize"] = 1, !["forkfail"] = 1]
TwoSlaves      == [Allow(2, 0, 1) EXCEPT !["bgsave"] = 1]
DisklessTwo    == [Allow(1, 0, 1) EXCEPT !["childfail"] = 1, !["forkfail"] = 1]
Live           == [Allow(1, 1, 1) EXCEPT !["bgsave"] = 1, !["childfail"] = 1]
ForeignBgsave  == [Allow(3, 0, 1) EXCEPT !["bgsave"] = 1]
ForkFails      == [Allow(1, 0, 0) EXCEPT !["bgsave"] = 1, !["forkfail"] = 1]

SlaveSymmetry == Permutations(Slaves)
============================================================================
