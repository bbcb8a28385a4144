----------------------- MODULE RedisConsensusTracker -----------------------
(***************************************************************************)
(* The consensus tracker that proxyd instances share through Redis         *)
(* (consensus_tracker.go): stateHeartbeat elects a leader with a lock that *)
(* expires, the leader posts its local state, the others copy it.          *)
(*                                                                         *)
(* A state is a function from Fields (the latest, safe and finalized       *)
(* numbers, which the code treats alike).  The local state is written one  *)
(* number at a time and read without the mutex: the numbers may be written *)
(* in any order here, so that a read at one moment is any mix that a read  *)
(* field by field could see.                                               *)
(*                                                                         *)
(* Every call to Redis is a step.  A call may fail, before or after it had *)
(* its effect.  Lock values are random and never used twice: here a value  *)
(* is taken again only when nobody holds it any more.                      *)
(***************************************************************************)
EXTENDS Integers

CONSTANTS
    Instances,          \* the proxyd processes
    Fields,             \* the numbers of a state
    MaxNumber,          \* bound: the highest block number
    Tokens, NoToken,    \* lock values, and the absence of one
    LockPeriod,         \* in ticks of the clock of Redis
    RedisErrors,        \* whether calls may fail
    CanCrash,           \* whether a process may be restarted
    Monotonic,          \* whether the pollers only go forward
    Prompt              \* whether heartbeats come well within the lock period

ASSUME PeriodAssumption == LockPeriod \in Nat \ {0}

ASSUME TokensAssumption == NoToken \notin Tokens

ASSUME NumberAssumption == MaxNumber \in Nat

ASSUME FlagsAssumption == {RedisErrors, CanCrash, Monotonic, Prompt} \subseteq BOOLEAN

States == [Fields -> 0 .. MaxNumber]
Unset == [f \in Fields |-> 0]

VARIABLES
    lock, lockLeft,     \* the key "mutex": its value, and the time it has left
    posted, postLeft,   \* the keys "state:<value>"
    local, remote,      \* the two InMemoryConsensusTrackers of an instance
    leader, redlock,    \* the leader flag, and the value of its lock
    pc, val, payload    \* where stateHeartbeat is, the lock it read, the JSON

redisVars == <<lock, lockLeft, posted, postLeft>>
instanceVars == <<remote, leader, redlock, pc, val, payload>>
vars == <<redisVars, local, instanceVars>>

Init ==
    /\ lock = NoToken /\ lockLeft = 0
    /\ posted = [t \in Tokens |-> Unset] /\ postLeft = [t \in Tokens |-> 0]
    /\ local = [i \in Instances |-> Unset] /\ remote = [i \in Instances |-> Unset]
    /\ leader = [i \in Instances |-> FALSE]
    /\ redlock = [i \in Instances |-> NoToken]
    /\ pc = [i \in Instances |-> "idle"]
    /\ val = [i \in Instances |-> NoToken]
    /\ payload = [i \in Instances |-> Unset]

-----------------------------------------------------------------------------
(* Redis and the processes.                                                *)

\* The time a key has left one tick later.
Elapse(n) == IF n = 0 THEN 0 ELSE n - 1

\* The leader is about to lose its lock.
LastMoment ==
    /\ lock # NoToken /\ lockLeft = 1
    /\ \E i \in Instances : leader[i] /\ redlock[i] = lock

\* Keys expire.
Tick ==
    /\ Prompt => ~ LastMoment
    /\ lockLeft' = Elapse(lockLeft)
    /\ lock' = IF lockLeft' = 0 THEN NoToken ELSE lock
    /\ postLeft' = [t \in Tokens |-> Elapse(postLeft[t])]
    /\ posted' = [t \in Tokens |-> IF postLeft'[t] = 0 THEN Unset ELSE posted[t]]
    /\ UNCHANGED <<local, instanceVars>>

\* A process dies and starts again with nothing.
Restart(i) ==
    /\ CanCrash
    /\ local' = [local EXCEPT ![i] = Unset]
    /\ remote' = [remote EXCEPT ![i] = Unset]
    /\ leader' = [leader EXCEPT ![i] = FALSE]
    /\ redlock' = [redlock EXCEPT ![i] = NoToken]
    /\ pc' = [pc EXCEPT ![i] = "idle"]
    /\ val' = [val EXCEPT ![i] = NoToken]
    /\ payload' = [payload EXCEPT ![i] = Unset]
    /\ UNCHANGED redisVars

\* SetLatestBlockNumber, SetSafeBlockNumber, SetFinalizedBlockNumber: the poller
\* of the instance writes its local state.
SetNumber(i) ==
    /\ \E f \in Fields, n \in 0 .. MaxNumber :
         /\ Monotonic => n >= local[i][f]
         /\ local' = [local EXCEPT ![i][f] = n]
    /\ UNCHANGED <<redisVars, instanceVars>>

-----------------------------------------------------------------------------
(* stateHeartbeat.                                                         *)

Valid(s) == \A f \in Fields : s[f] > 0

Behind(s, other) == \E f \in Fields : s[f] < other[f]

\* The heartbeat returns.
Return(i) ==
    /\ pc' = [pc EXCEPT ![i] = "idle"]
    /\ val' = [val EXCEPT ![i] = NoToken]
    /\ payload' = [payload EXCEPT ![i] = Unset]

ReadLockFails(i) ==
    /\ pc[i] = "idle" /\ RedisErrors
    /\ leader[i]
    /\ pc' = [pc EXCEPT ![i] = "release"]
    /\ UNCHANGED <<redisVars, local, remote, leader, redlock, val, payload>>

\* The lock exists: the leader extends it, the others follow its holder.
ReadLock(i) ==
    /\ pc[i] = "idle"
    /\ lock # NoToken
    /\ val' = [val EXCEPT ![i] = lock]
    /\ pc' = [pc EXCEPT ![i] = IF leader[i] THEN "extend" ELSE "readLeader"]
    /\ UNCHANGED <<redisVars, local, remote, leader, redlock, payload>>

MutantElectable(i) == Valid(local[i])

\* The checks before an election.
Electable(i) ==
    /\ Valid(local[i])
    /\ ~ (Valid(remote[i]) /\ Behind(local[i], remote[i]))

MutantReadNoLock(i) ==
    /\ pc[i] = "idle" /\ ~ leader[i]
    /\ lock = NoToken
    /\ Electable(i)
    /\ pc' = [pc EXCEPT ![i] = "lock"]
    /\ UNCHANGED <<redisVars, local, remote, leader, redlock, val, payload>>

\* The lock does not exist: run for leader.
ReadNoLock(i) ==
    /\ pc[i] = "idle"
    /\ lock = NoToken
    /\ Electable(i)
    /\ pc' = [pc EXCEPT ![i] = "lock"]
    /\ UNCHANGED <<redisVars, local, remote, leader, redlock, val, payload>>

\* redsync: the lock is extended or released only if it still has the value of
\* this mutex.
Holds(i) == redlock[i] # NoToken /\ lock = redlock[i]

MutantExtendAny(i) ==
    /\ pc[i] = "extend"
    /\ lock # NoToken
    /\ lockLeft' = LockPeriod
    /\ payload' = [payload EXCEPT ![i] = local[i]]
    /\ pc' = [pc EXCEPT ![i] = "post"]
    /\ UNCHANGED <<lock, posted, postLeft, local, remote, leader, redlock, val>>

\* The lock is extended, and the state to post is marshalled.
Extend(i) ==
    /\ pc[i] = "extend"
    /\ Holds(i)
    /\ lockLeft' = LockPeriod
    /\ payload' = [payload EXCEPT ![i] = local[i]]
    /\ pc' = [pc EXCEPT ![i] = "post"]
    /\ UNCHANGED <<lock, posted, postLeft, local, remote, leader, redlock, val>>

ExtendFails(i) ==
    /\ pc[i] = "extend"
    /\ \/ ~ Holds(i) /\ UNCHANGED lockLeft
       \/ RedisErrors /\ UNCHANGED lockLeft
       \/ RedisErrors /\ Holds(i) /\ lockLeft' = LockPeriod
    /\ pc' = [pc EXCEPT ![i] = "release"]
    /\ UNCHANGED <<lock, posted, postLeft, local, remote, leader, redlock, val,
                   payload>>

Release(i) ==
    /\ pc[i] = "release"
    /\ Holds(i)
    /\ lock' = NoToken /\ lockLeft' = 0
    /\ leader' = [leader EXCEPT ![i] = FALSE]
    /\ Return(i)
    /\ UNCHANGED <<posted, postLeft, local, remote, redlock>>

\* When the lock is not released the instance stays leader.
ReleaseFails(i) ==
    /\ pc[i] = "release"
    /\ \/ ~ Holds(i) /\ UNCHANGED <<lock, lockLeft>>
       \/ RedisErrors /\ UNCHANGED <<lock, lockLeft>>
       \/ RedisErrors /\ Holds(i) /\ lock' = NoToken /\ lockLeft' = 0
    /\ Return(i)
    /\ UNCHANGED <<posted, postLeft, local, remote, leader, redlock>>

\* Lock values nothing refers to.
Fresh == {t \in Tokens : /\ t # lock /\ postLeft[t] = 0
                         /\ \A i \in Instances : t \notin {redlock[i], val[i]}}

Acquire(i) ==
    /\ pc[i] = "lock"
    /\ lock = NoToken
    /\ \E t \in Fresh :
         /\ lock' = t
         /\ redlock' = [redlock EXCEPT ![i] = t]
         /\ val' = [val EXCEPT ![i] = t]
    /\ lockLeft' = LockPeriod
    /\ leader' = [leader EXCEPT ![i] = TRUE]
    /\ payload' = [payload EXCEPT ![i] = local[i]]
    /\ pc' = [pc EXCEPT ![i] = "post"]
    /\ UNCHANGED <<posted, postLeft, local, remote>>

\* Another instance was faster, or the call failed: then the lock may have been
\* set all the same, and nobody knows its value.
AcquireFails(i) ==
    /\ pc[i] = "lock"
    /\ \/ lock # NoToken /\ UNCHANGED <<lock, lockLeft>>
       \/ RedisErrors /\ UNCHANGED <<lock, lockLeft>>
       \/ RedisErrors /\ lock = NoToken /\ lock' \in Fresh /\ lockLeft' = LockPeriod
    /\ leader' = [leader EXCEPT ![i] = FALSE]
    /\ Return(i)
    /\ UNCHANGED <<posted, postLeft, local, remote, redlock>>

MutantStatePeriod == LockPeriod - 1

\* The time to live of the state key.
StatePeriod == LockPeriod

PutState(i) ==
    /\ posted' = [posted EXCEPT ![val[i]] = payload[i]]
    /\ postLeft' = [postLeft EXCEPT ![val[i]] = StatePeriod]

\* postPayload: the state, then the name of the leader, then the own copy, which
\* is read from the local state once more.
PostState(i) ==
    /\ pc[i] = "post"
    /\ PutState(i)
    /\ pc' = [pc EXCEPT ![i] = "postLeader"]
    /\ UNCHANGED <<lock, lockLeft, local, remote, leader, redlock, val, payload>>

PostStateFails(i) ==
    /\ pc[i] = "post" /\ RedisErrors
    /\ PutState(i) \/ UNCHANGED <<posted, postLeft>>
    /\ leader' = [leader EXCEPT ![i] = FALSE]
    /\ Return(i)
    /\ UNCHANGED <<lock, lockLeft, local, remote, redlock>>

PostLeader(i) ==
    /\ pc[i] = "postLeader"
    /\ remote' = [remote EXCEPT ![i] = local[i]]
    /\ Return(i)
    /\ UNCHANGED <<redisVars, local, leader, redlock>>

PostLeaderFails(i) ==
    /\ pc[i] = "postLeader" /\ RedisErrors
    /\ leader' = [leader EXCEPT ![i] = FALSE]
    /\ Return(i)
    /\ UNCHANGED <<redisVars, local, remote, redlock>>

\* A follower reads the name of the leader, then the state.
ReadLeader(i) ==
    /\ pc[i] = "readLeader"
    /\ pc' = [pc EXCEPT ![i] = "readState"]
    /\ UNCHANGED <<redisVars, local, remote, leader, redlock, val, payload>>

FollowFails(i) ==
    /\ \/ pc[i] \in {"readLeader", "readState"} /\ RedisErrors
       \/ pc[i] = "readState" /\ postLeft[val[i]] = 0
    /\ Return(i)
    /\ UNCHANGED <<redisVars, local, remote, leader, redlock>>

ReadState(i) ==
    /\ pc[i] = "readState"
    /\ postLeft[val[i]] > 0
    /\ remote' = [remote EXCEPT ![i] = posted[val[i]]]
    /\ Return(i)
    /\ UNCHANGED <<redisVars, local, leader, redlock>>

-----------------------------------------------------------------------------

Heartbeat(i) ==
    \/ ReadLockFails(i) \/ ReadLock(i) \/ ReadNoLock(i)
    \/ Extend(i) \/ ExtendFails(i) \/ Release(i) \/ ReleaseFails(i)
    \/ Acquire(i) \/ AcquireFails(i)
    \/ PostState(i) \/ PostStateFails(i) \/ PostLeader(i) \/ PostLeaderFails(i)
    \/ ReadLeader(i) \/ FollowFails(i) \/ ReadState(i)

Next ==
    \/ Tick
    \/ \E i \in Instances : Restart(i) \/ SetNumber(i) \/ Heartbeat(i)

Spec == Init /\ [][Next]_vars

\* The heartbeat goroutine of every instance keeps running, and time passes.
FairSpec ==
    /\ Spec
    /\ WF_vars(Tick)
    /\ \A i \in Instances : WF_vars(Heartbeat(i))

-----------------------------------------------------------------------------
(* Properties.                                                             *)

Places == {"idle", "extend", "release", "lock", "post", "postLeader", "readLeader",
           "readState"}

\* The values the variables take; the lock has a value exactly as long as it has
\* time left.
TypeOK ==
    /\ lock \in Tokens \union {NoToken} /\ lockLeft \in 0 .. LockPeriod
    /\ lock = NoToken <=> lockLeft = 0
    /\ posted \in [Tokens -> States] /\ postLeft \in [Tokens -> 0 .. LockPeriod]
    /\ local \in [Instances -> States] /\ remote \in [Instances -> States]
    /\ leader \in [Instances -> BOOLEAN]
    /\ redlock \in [Instances -> Tokens \union {NoToken}]
    /\ pc \in [Instances -> Places]
    /\ val \in [Instances -> Tokens \union {NoToken}]
    /\ payload \in [Instances -> States]

\* An instance posts a state only under the lock value it acquired itself, however
\* late its calls are and whoever has taken the lock meanwhile: the state a
\* follower reads under a lock is never the one of another instance.
PostsUnderOwnLock ==
    \A i, j \in Instances :
      /\ pc[i] \in {"post", "postLeader"} => val[i] = redlock[i]
      /\ i # j /\ redlock[i] # NoToken => redlock[i] # redlock[j]

\* As long as calls do not fail, the state outlives the lock: whenever a leader
\* that is between two heartbeats holds the lock, its state is there to be read.
StateOutlivesLock ==
    ~ RedisErrors =>
      \A i \in Instances :
        leader[i] /\ Holds(i) /\ pc[i] = "idle" => postLeft[lock] >= lockLeft

\* When its poller goes forward only, an instance never takes its own clients back
\* by becoming or staying the leader: what it posts is not behind what it served
\* before, its own or another leader's.
LeaderDoesNotGoBack ==
    [][Monotonic =>
         \A i \in Instances : PostLeader(i) => ~ Behind(remote'[i], remote[i])]_vars

\* There is a leader again and again, when from some time on every instance stays
\* fit for the election.
LockIsTaken ==
    <>[](\A i \in Instances : Electable(i)) => []<>(lock # NoToken)

\* remote "holds a copy of the remote shared state": when one instance keeps the
\* lock, and the state it posts stays the same and readable, every instance ends
\* up with it.
EveryoneHasSharedState ==
    \A i, j \in Instances :
      \A s \in States :
        <>[](leader[j] /\ Holds(j) /\ local[j] = s /\ postLeft[lock] > 0)
          => <>[](remote[i] = s)

=============================================================================
