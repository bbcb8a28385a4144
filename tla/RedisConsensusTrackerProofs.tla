-------------------- MODULE RedisConsensusTrackerProofs --------------------
(***************************************************************************)
(* Proofs about the shared tracker, for any number of instances, lock      *)
(* values and numbers, whatever calls fail and whichever process restarts. *)
(***************************************************************************)
EXTENDS RedisConsensusTracker, TLAPS

\* The state of a new tracker is a state.
LEMMA UnsetType == Unset \in States
  BY NumberAssumption DEF Unset, States

\* Posting a state keeps the types of the state keys.
LEMMA PutStateType ==
    ASSUME TypeOK, NEW i \in Instances, PutState(i)
    PROVE  posted' \in [Tokens -> States] /\ postLeft' \in [Tokens -> 0 .. LockPeriod]
  <1>1. LockPeriod \in 0 .. LockPeriod
    BY PeriodAssumption
  <1>. QED
    BY <1>1, Zenon DEF PutState, StatePeriod, TypeOK

\* The end of a heartbeat keeps the types of what it resets.
LEMMA ReturnType ==
    ASSUME TypeOK, NEW i \in Instances, Return(i)
    PROVE  /\ pc' \in [Instances -> Places]
           /\ val' \in [Instances -> Tokens \union {NoToken}]
           /\ payload' \in [Instances -> States]
  BY UnsetType, Zenon DEF Return, TypeOK, Places

\* A heartbeat that goes on after the lock was read has read a lock value.
HasRead == {"extend", "post", "postLeader", "readLeader", "readState"}
LockIsRead == \A i \in Instances : pc[i] \in HasRead => val[i] \in Tokens

\* The types hold after NewRedisConsensusTracker.
LEMMA TypeInit == Init => TypeOK /\ LockIsRead
  BY UnsetType, PeriodAssumption DEF Init, TypeOK, Places, LockIsRead, HasRead

\* Every step keeps the types.
LEMMA TypeStep ==
    ASSUME TypeOK, LockIsRead, [Next]_vars
    PROVE  TypeOK'
  <1>. USE DEF redisVars, instanceVars
  <1>0. LockPeriod \in 0 .. LockPeriod /\ 0 \in 0 .. LockPeriod /\ LockPeriod # 0
    BY PeriodAssumption
  <1>1. CASE Tick
    <2>1. lockLeft' \in 0 .. LockPeriod /\ postLeft' \in [Tokens -> 0 .. LockPeriod]
      BY <1>1, PeriodAssumption, SMTT(60) DEF Tick, Elapse, TypeOK
    <2>2. posted' \in [Tokens -> States]
      BY <1>1, UnsetType, Zenon DEF Tick, TypeOK
    <2>3. lock' \in Tokens \union {NoToken} /\ (lock' = NoToken <=> lockLeft' = 0)
      BY <1>1, PeriodAssumption, Zenon DEF Tick, Elapse, TypeOK
    <2>. QED
      BY <1>1, <2>1, <2>2, <2>3, Zenon DEF Tick, TypeOK
  <1>2. ASSUME NEW i \in Instances, Restart(i) PROVE TypeOK'
    BY <1>2, UnsetType, Zenon DEF Restart, TypeOK, Places
  <1>3. ASSUME NEW i \in Instances, SetNumber(i) PROVE TypeOK'
    <2>1. PICK f \in Fields, n \in 0 .. MaxNumber :
            local' = [local EXCEPT ![i][f] = n]
      BY <1>3, Zenon DEF SetNumber
    <2>2. local' \in [Instances -> States]
      BY <2>1, Zenon DEF TypeOK, States
    <2>. QED
      BY <1>3, <2>2, Zenon DEF SetNumber, TypeOK
  <1>4. ASSUME NEW i \in Instances, ReadLockFails(i) \/ ReadLock(i) \/ ReadNoLock(i)
        PROVE  TypeOK'
    BY <1>4 DEF ReadLockFails, ReadLock, ReadNoLock, TypeOK, Places
  <1>5. ASSUME NEW i \in Instances, Extend(i) PROVE TypeOK'
    BY <1>0, <1>5, Zenon DEF Extend, Holds, TypeOK, Places
  <1>6. ASSUME NEW i \in Instances, ExtendFails(i) PROVE TypeOK'
    BY <1>0, <1>6, Zenon DEF ExtendFails, Holds, TypeOK, Places
  <1>7. ASSUME NEW i \in Instances, Release(i) PROVE TypeOK'
    BY <1>0, <1>7, ReturnType, Zenon DEF Release, TypeOK
  <1>8. ASSUME NEW i \in Instances, ReleaseFails(i) PROVE TypeOK'
    BY <1>0, <1>8, ReturnType, Zenon DEF ReleaseFails, TypeOK
  <1>9. ASSUME NEW i \in Instances, Acquire(i) PROVE TypeOK'
    BY <1>0, <1>9, TokensAssumption DEF Acquire, Fresh, TypeOK, Places
  <1>10. ASSUME NEW i \in Instances, AcquireFails(i) PROVE TypeOK'
    BY <1>0, <1>10, ReturnType, TokensAssumption, Zenon DEF AcquireFails, Fresh, TypeOK
  <1>11. ASSUME NEW i \in Instances, PostState(i) PROVE TypeOK'
    BY <1>11, PutStateType, Zenon DEF PostState, TypeOK, Places
  <1>12. ASSUME NEW i \in Instances, PostStateFails(i) PROVE TypeOK'
    BY <1>12, PutStateType, ReturnType, Zenon DEF PostStateFails, TypeOK
  <1>13. ASSUME NEW i \in Instances, PostLeader(i) \/ PostLeaderFails(i) PROVE TypeOK'
    BY <1>13, ReturnType, Zenon DEF PostLeader, PostLeaderFails, TypeOK
  <1>14. ASSUME NEW i \in Instances, ReadLeader(i) PROVE TypeOK'
    BY <1>14, Zenon DEF ReadLeader, TypeOK, Places
  <1>15. ASSUME NEW i \in Instances, FollowFails(i) PROVE TypeOK'
    BY <1>15, ReturnType, Zenon DEF FollowFails, TypeOK
  <1>16. ASSUME NEW i \in Instances, ReadState(i) PROVE TypeOK'
    <2>1. val[i] \in Tokens
      BY <1>16, Zenon DEF ReadState, LockIsRead, HasRead
    <2>. QED
      BY <1>16, <2>1, ReturnType, Zenon DEF ReadState, TypeOK
  <1>17. CASE UNCHANGED vars
    BY <1>17, Zenon DEF vars, TypeOK
  <1>. QED
    BY <1>1, <1>2, <1>3, <1>4, <1>5, <1>6, <1>7, <1>8, <1>9, <1>10, <1>11, <1>12,
       <1>13, <1>14, <1>15, <1>16, <1>17, Zenon DEF Next, Heartbeat

\* Every step keeps LockIsRead.
LEMMA LockIsReadStep ==
    ASSUME TypeOK, LockIsRead, [Next]_vars
    PROVE  LockIsRead'
  <1>. USE DEF redisVars, instanceVars, LockIsRead, HasRead, TypeOK
  <1>1. CASE Tick
    BY <1>1, Zenon DEF Tick
  <1>2. ASSUME NEW i \in Instances, Restart(i) \/ SetNumber(i) PROVE LockIsRead'
    BY <1>2 DEF Restart, SetNumber
  <1>3. ASSUME NEW i \in Instances, ReadLockFails(i) \/ ReadLock(i) \/ ReadNoLock(i)
        PROVE  LockIsRead'
    BY <1>3 DEF ReadLockFails, ReadLock, ReadNoLock
  <1>4. ASSUME NEW i \in Instances,
               Extend(i) \/ ExtendFails(i) \/ Release(i) \/ ReleaseFails(i)
        PROVE  LockIsRead'
    BY <1>4 DEF Extend, ExtendFails, Release, ReleaseFails, Return
  <1>5. ASSUME NEW i \in Instances, Acquire(i) \/ AcquireFails(i) PROVE LockIsRead'
    BY <1>5 DEF Acquire, AcquireFails, Fresh, Return
  <1>6. ASSUME NEW i \in Instances, \/ PostState(i) \/ PostStateFails(i)
                                   \/ PostLeader(i) \/ PostLeaderFails(i)
        PROVE  LockIsRead'
    BY <1>6, ZenonT(60) DEF PostState, PostStateFails, PostLeader, PostLeaderFails, Return
  <1>7. ASSUME NEW i \in Instances, ReadLeader(i) \/ FollowFails(i) \/ ReadState(i)
        PROVE  LockIsRead'
    BY <1>7 DEF ReadLeader, FollowFails, ReadState, Return
  <1>8. CASE UNCHANGED vars
    BY <1>8, Zenon DEF vars
  <1>. QED
    BY <1>1, <1>2, <1>3, <1>4, <1>5, <1>6, <1>7, <1>8, Zenon DEF Next, Heartbeat

\* Type correctness of the tracker: in particular the lock exists exactly as long
\* as it has time left, whatever stateHeartbeat extends, releases or lets expire.
THEOREM TypeCorrect == Spec => []TypeOK
  <1>1. TypeOK /\ LockIsRead /\ [Next]_vars => (TypeOK /\ LockIsRead)'
    BY TypeStep, LockIsReadStep, Zenon
  <1>. QED
    BY TypeInit, <1>1, PTL DEF Spec

\* The types and LockIsRead hold throughout.
LEMMA Typed == Spec => [](TypeOK /\ LockIsRead)
  <1>1. TypeOK /\ LockIsRead /\ [Next]_vars => (TypeOK /\ LockIsRead)'
    BY TypeStep, LockIsReadStep, Zenon
  <1>. QED
    BY TypeInit, <1>1, PTL DEF Spec

-----------------------------------------------------------------------------
(* PostsUnderOwnLock.  A lock value that an instance read and that is its  *)
(* own cannot have become somebody else's, since a new value is fresh; so  *)
(* an extension that succeeds was for the value that was read.             *)

ExtendsWhatItRead ==
    \A i \in Instances : pc[i] = "extend" /\ Holds(i) => val[i] = redlock[i]

OwnInv == PostsUnderOwnLock /\ ExtendsWhatItRead

\* The invariant about lock values holds after NewRedisConsensusTracker.
LEMMA OwnInit == Init => OwnInv
  BY Zenon DEF Init, OwnInv, PostsUnderOwnLock, ExtendsWhatItRead

\* Every step keeps the invariant about lock values.
LEMMA OwnStep ==
    ASSUME TypeOK, OwnInv, [Next]_vars
    PROVE  OwnInv'
  <1>. USE DEF redisVars, instanceVars, OwnInv, PostsUnderOwnLock, ExtendsWhatItRead,
               Holds, TypeOK
  <1>1. CASE Tick
    BY <1>1, Zenon DEF Tick
  <1>2. ASSUME NEW i \in Instances, Restart(i) \/ SetNumber(i) PROVE OwnInv'
    BY <1>2, SMTT(60) DEF Restart, SetNumber
  <1>3. ASSUME NEW i \in Instances, ReadLockFails(i) \/ ReadLock(i) \/ ReadNoLock(i)
        PROVE  OwnInv'
    BY <1>3 DEF ReadLockFails, ReadLock, ReadNoLock
  <1>4. ASSUME NEW i \in Instances, Extend(i) \/ ExtendFails(i) PROVE OwnInv'
    BY <1>4 DEF Extend, ExtendFails
  <1>5. ASSUME NEW i \in Instances, Release(i) \/ ReleaseFails(i) PROVE OwnInv'
    BY <1>5 DEF Release, ReleaseFails, Return
  <1>6. ASSUME NEW i \in Instances, Acquire(i) PROVE OwnInv'
    <2>1. PICK t \in Fresh : /\ lock' = t
                             /\ redlock' = [redlock EXCEPT ![i] = t]
                             /\ val' = [val EXCEPT ![i] = t]
      BY <1>6, Zenon DEF Acquire
    <2>2. \A j \in Instances : t # redlock[j]
      BY Zenon DEF Fresh
    <2>. QED
      BY <1>6, <2>1, <2>2 DEF Acquire
  <1>7. ASSUME NEW i \in Instances, AcquireFails(i) PROVE OwnInv'
    <2>1. \A j \in Instances : redlock[j] # NoToken /\ lock' = redlock[j] => lock = lock'
      BY <1>7, Zenon DEF AcquireFails, Fresh
    <2>. QED
      BY <1>7, <2>1, Zenon DEF AcquireFails, Return
  <1>8. ASSUME NEW i \in Instances, \/ PostState(i) \/ PostStateFails(i)
                                   \/ PostLeader(i) \/ PostLeaderFails(i)
        PROVE  OwnInv'
    BY <1>8 DEF PostState, PostStateFails, PostLeader, PostLeaderFails, Return
  <1>9. ASSUME NEW i \in Instances, ReadLeader(i) \/ FollowFails(i) \/ ReadState(i)
        PROVE  OwnInv'
    BY <1>9 DEF ReadLeader, FollowFails, ReadState, Return
  <1>10. CASE UNCHANGED vars
    BY <1>10, Zenon DEF vars
  <1>. QED
    BY <1>1, <1>2, <1>3, <1>4, <1>5, <1>6, <1>7, <1>8, <1>9, <1>10, Zenon DEF Next, Heartbeat

\* Whatever calls fail and whenever processes restart, an instance posts only under
\* the lock value it acquired itself (postPayload is called with the value that was
\* read before the lock was extended).
THEOREM PostsAreOwn == Spec => []PostsUnderOwnLock
  <1>1. OwnInv /\ TypeOK /\ [Next]_vars => OwnInv'
    BY OwnStep, Zenon
  <1>2. OwnInv => PostsUnderOwnLock
    BY Zenon DEF OwnInv
  <1>. QED
    BY Typed, OwnInit, <1>1, <1>2, PTL DEF Spec

-----------------------------------------------------------------------------
(* StateOutlivesLock.  Without errors an extension of the lock is always   *)
(* followed by a post of the same leader, so the state may have less time  *)
(* left than the lock only between the two.                                *)

OutlivesInv ==
    ~ RedisErrors =>
      \A i \in Instances :
        leader[i] /\ Holds(i) /\ pc[i] # "post" => postLeft[lock] >= lockLeft

\* Every step keeps the invariant about the times to live.
LEMMA OutlivesStep ==
    ASSUME TypeOK, OwnInv, OutlivesInv, [Next]_vars
    PROVE  OutlivesInv'
  <1>. USE DEF redisVars, instanceVars, OutlivesInv, Holds, TypeOK
  <1>. SUFFICES ASSUME ~ RedisErrors
                PROVE  OutlivesInv'
    BY Zenon
  <1>1. CASE Tick
    <2>1. \A m, n \in 0 .. LockPeriod : m >= n => Elapse(m) >= Elapse(n)
      BY PeriodAssumption DEF Elapse
    <2>2. \A t \in Tokens : postLeft'[t] = Elapse(postLeft[t])
      BY <1>1, Zenon DEF Tick
    <2>. QED
      BY <1>1, <2>1, <2>2, TokensAssumption, Zenon DEF Tick
  <1>2. ASSUME NEW i \in Instances, Restart(i) \/ SetNumber(i) PROVE OutlivesInv'
    BY <1>2, ZenonT(60) DEF Restart, SetNumber
  <1>3. ASSUME NEW i \in Instances, ReadLockFails(i) \/ ReadLock(i) \/ ReadNoLock(i)
        PROVE  OutlivesInv'
    BY <1>3, ZenonT(60) DEF ReadLockFails, ReadLock, ReadNoLock
  <1>4. ASSUME NEW i \in Instances, Extend(i) \/ ExtendFails(i) PROVE OutlivesInv'
    <2>1. \A j \in Instances : j # i /\ Holds(i) => ~ Holds(j)
      BY Zenon DEF OwnInv, PostsUnderOwnLock
    <2>. QED
      BY <1>4, <2>1, Zenon DEF Extend, ExtendFails
  <1>5. ASSUME NEW i \in Instances, Release(i) \/ ReleaseFails(i) PROVE OutlivesInv'
    BY <1>5, Zenon DEF Release, ReleaseFails, Return
  <1>6. ASSUME NEW i \in Instances, Acquire(i) PROVE OutlivesInv'
    <2>1. \A j \in Instances : j # i => redlock'[j] = redlock[j] /\ lock' # redlock[j]
      BY <1>6, Zenon DEF Acquire, Fresh
    <2>2. pc'[i] = "post"
      BY <1>6, Zenon DEF Acquire
    <2>. QED
      BY <2>1, <2>2, Zenon
  <1>7. ASSUME NEW i \in Instances, AcquireFails(i) PROVE OutlivesInv'
    BY <1>7, Zenon DEF AcquireFails, Return
  <1>8. ASSUME NEW i \in Instances, PostState(i) PROVE OutlivesInv'
    <2>1. val[i] = redlock[i]
      BY <1>8, Zenon DEF PostState, OwnInv, PostsUnderOwnLock
    <2>2. \A t \in Tokens : postLeft'[t] = IF t = redlock[i] THEN LockPeriod ELSE postLeft[t]
      BY <1>8, <2>1, Zenon DEF PostState, PutState, StatePeriod
    <2>3. \A j \in Instances : j # i => pc'[j] = pc[j]
      BY <1>8, Zenon DEF PostState
    <2>4. ASSUME NEW j \in Instances, leader'[j], Holds(j)', pc'[j] # "post"
          PROVE  postLeft'[lock'] >= lockLeft'
      <3>1. lock \in Tokens /\ lock' = lock /\ lockLeft' = lockLeft
            /\ leader[j] /\ Holds(j) /\ redlock' = redlock
        BY <1>8, <2>4, Zenon DEF PostState
      <3>2. CASE lock = redlock[i]
        BY <3>1, <3>2, <2>2, PeriodAssumption
      <3>3. CASE lock # redlock[i]
        BY <3>1, <3>3, <2>2, <2>3, <2>4, Zenon
      <3>. QED
        BY <3>2, <3>3, Zenon
    <2>. QED
      BY <2>4, Zenon
  <1>9. ASSUME NEW i \in Instances, \/ PostStateFails(i)
                                   \/ PostLeader(i) \/ PostLeaderFails(i)
        PROVE  OutlivesInv'
    BY <1>9 DEF PostStateFails, PostLeader, PostLeaderFails, Return
  <1>10. ASSUME NEW i \in Instances, ReadLeader(i) \/ FollowFails(i) \/ ReadState(i)
        PROVE  OutlivesInv'
    BY <1>10 DEF ReadLeader, FollowFails, ReadState, Return
  <1>11. CASE UNCHANGED vars
    BY <1>11, Zenon DEF vars
  <1>. QED
    BY <1>1, <1>2, <1>3, <1>4, <1>5, <1>6, <1>7, <1>8, <1>9, <1>10, <1>11, Zenon
       DEF Next, Heartbeat

\* Without errors of Redis a follower that reads the lock between two heartbeats of
\* the leader finds the state (both keys are written with the same time to live,
\* the state after the lock).
THEOREM StatesOutliveLocks == Spec => []StateOutlivesLock
  <1>1. OutlivesInv /\ OwnInv /\ TypeOK /\ [Next]_vars => (OutlivesInv /\ OwnInv)'
    BY OwnStep, OutlivesStep, Zenon
  <1>2. OutlivesInv => StateOutlivesLock
    BY Zenon DEF OutlivesInv, StateOutlivesLock
  <1>3. Init => OutlivesInv
    BY Zenon DEF Init, OutlivesInv
  <1>. QED
    BY Typed, OwnInit, <1>1, <1>2, <1>3, PTL DEF Spec

-----------------------------------------------------------------------------
(* LeaderDoesNotGoBack.  The check before the election compares with the   *)
(* copy of the shared state only when that copy is valid: every state that *)
(* is posted is, and a copy that is not is the empty one.  From the check  *)
(* to the end of the leadership the copy is written from the local state   *)
(* only.                                                                   *)

PostsAreValid == \A t \in Tokens : postLeft[t] > 0 => Valid(posted[t])

PayloadIsValid == \A i \in Instances : pc[i] = "post" => Valid(payload[i])

CopyIsEmptyOrValid == \A i \in Instances : remote[i] = Unset \/ Valid(remote[i])

CandidateIsAhead ==
    \A i \in Instances :
      leader[i] \/ pc[i] = "lock" => Valid(local[i]) /\ ~ Behind(local[i], remote[i])

Roles ==
    \A i \in Instances :
      /\ pc[i] \in {"extend", "release", "post", "postLeader"} => leader[i]
      /\ pc[i] \in {"readLeader", "readState"} => ~ leader[i]

ForwardInv ==
    Monotonic => PostsAreValid /\ PayloadIsValid /\ CopyIsEmptyOrValid /\ CandidateIsAhead

\* Every step keeps leaders and followers apart.
LEMMA RolesStep ==
    ASSUME TypeOK, Roles, [Next]_vars
    PROVE  Roles'
  <1>. USE DEF redisVars, instanceVars, Roles, TypeOK
  <1>1. CASE Tick
    BY <1>1, Zenon DEF Tick
  <1>2. ASSUME NEW i \in Instances, Restart(i) \/ SetNumber(i) PROVE Roles'
    BY <1>2 DEF Restart, SetNumber
  <1>3. ASSUME NEW i \in Instances, ReadLockFails(i) \/ ReadLock(i) \/ ReadNoLock(i)
        PROVE  Roles'
    BY <1>3 DEF ReadLockFails, ReadLock, ReadNoLock
  <1>4. ASSUME NEW i \in Instances,
               Extend(i) \/ ExtendFails(i) \/ Release(i) \/ ReleaseFails(i)
        PROVE  Roles'
    BY <1>4 DEF Extend, ExtendFails, Release, ReleaseFails, Return
  <1>5. ASSUME NEW i \in Instances, Acquire(i) \/ AcquireFails(i) PROVE Roles'
    BY <1>5 DEF Acquire, AcquireFails, Return
  <1>6. ASSUME NEW i \in Instances, \/ PostState(i) \/ PostStateFails(i)
                                   \/ PostLeader(i) \/ PostLeaderFails(i)
        PROVE  Roles'
    BY <1>6, ZenonT(60) DEF PostState, PostStateFails, PostLeader, PostLeaderFails, Return
  <1>7. ASSUME NEW i \in Instances, ReadLeader(i) \/ FollowFails(i) \/ ReadState(i)
        PROVE  Roles'
    BY <1>7, ZenonT(60) DEF ReadLeader, FollowFails, ReadState, Return
  <1>8. CASE UNCHANGED vars
    BY <1>8, Zenon DEF vars
  <1>. QED
    BY <1>1, <1>2, <1>3, <1>4, <1>5, <1>6, <1>7, <1>8, Zenon DEF Next, Heartbeat

\* Every step keeps the invariant about going forward.
LEMMA ForwardStep ==
    ASSUME TypeOK, LockIsRead, Roles, ForwardInv, [Next]_vars
    PROVE  ForwardInv'
  <1>. USE DEF redisVars, instanceVars, PostsAreValid, PayloadIsValid, CopyIsEmptyOrValid,
               CandidateIsAhead, TypeOK
  <1>. SUFFICES ASSUME Monotonic
                PROVE  (PostsAreValid /\ PayloadIsValid /\ CopyIsEmptyOrValid
                        /\ CandidateIsAhead)'
    BY Zenon DEF ForwardInv
  <1>0. PostsAreValid /\ PayloadIsValid /\ CopyIsEmptyOrValid /\ CandidateIsAhead
    BY Zenon DEF ForwardInv
  <1>. DEFINE Fwd == PostsAreValid /\ PayloadIsValid /\ CopyIsEmptyOrValid
                     /\ CandidateIsAhead
  <1>1. CASE Tick
    <2>1. \A t \in Tokens : postLeft'[t] > 0 => postLeft[t] > 0 /\ posted'[t] = posted[t]
      BY <1>1, PeriodAssumption DEF Tick, Elapse
    <2>. QED
      BY <1>0, <1>1, <2>1, Zenon DEF Tick
  <1>2. ASSUME NEW i \in Instances, Restart(i) PROVE Fwd'
    BY <1>0, <1>2, Zenon DEF Restart
  <1>3. ASSUME NEW i \in Instances, SetNumber(i) PROVE Fwd'
    <2>1. PICK f \in Fields, n \in 0 .. MaxNumber :
            n >= local[i][f] /\ local' = [local EXCEPT ![i][f] = n]
      BY <1>3, Zenon DEF SetNumber
    <2>2. \A j \in Instances, g \in Fields : local'[j][g] >= local[j][g]
      BY <2>1, NumberAssumption DEF States
    <2>3. /\ \A j \in Instances, g \in Fields : local'[j][g] \in Int /\ local[j][g] \in Int
          /\ \A j \in Instances, g \in Fields : remote[j][g] \in Int
      BY <2>1, NumberAssumption DEF States
    <2>4. \A j \in Instances : Valid(local[j]) => Valid(local'[j])
      BY <2>2, <2>3 DEF Valid
    <2>5. \A j \in Instances : ~ Behind(local[j], remote[j]) => ~ Behind(local'[j], remote[j])
      BY <2>2, <2>3, SMTT(60) DEF Behind
    <2>. QED
      BY <1>0, <1>3, <2>4, <2>5, Zenon DEF SetNumber
  <1>4. ASSUME NEW i \in Instances, ReadLockFails(i) \/ ReadLock(i) PROVE Fwd'
    BY <1>0, <1>4 DEF ReadLockFails, ReadLock
  <1>5. ASSUME NEW i \in Instances, ReadNoLock(i) PROVE Fwd'
    <2>1. remote[i] = Unset => ~ Behind(local[i], remote[i])
      BY NumberAssumption DEF Behind, Unset, States
    <2>2. Valid(local[i]) /\ ~ Behind(local[i], remote[i])
      BY <1>0, <1>5, <2>1, Zenon DEF ReadNoLock, Electable
    <2>. QED
      BY <1>0, <1>5, <2>2, Zenon DEF ReadNoLock
  <1>6. ASSUME NEW i \in Instances, Extend(i) \/ ExtendFails(i) PROVE Fwd'
    <2>1. Valid(local[i])
      BY <1>0, <1>6, Zenon DEF Extend, ExtendFails, Roles
    <2>. QED
      BY <1>0, <1>6, <2>1 DEF Extend, ExtendFails
  <1>7. ASSUME NEW i \in Instances, Release(i) \/ ReleaseFails(i) PROVE Fwd'
    BY <1>0, <1>7 DEF Release, ReleaseFails, Return
  <1>8. ASSUME NEW i \in Instances, Acquire(i) \/ AcquireFails(i) PROVE Fwd'
    BY <1>0, <1>8 DEF Acquire, AcquireFails, Return
  <1>9. ASSUME NEW i \in Instances, PostState(i) \/ PostStateFails(i) PROVE Fwd'
    <2>1. Valid(payload[i]) /\ val[i] \in Tokens
      BY <1>0, <1>9, Zenon DEF PostState, PostStateFails, LockIsRead, HasRead
    <2>2. PostsAreValid'
      BY <1>0, <1>9, <2>1, Zenon DEF PostState, PostStateFails, PutState
    <2>. QED
      BY <1>0, <1>9, <2>2, ZenonT(60) DEF PostState, PostStateFails, Return
  <1>10. ASSUME NEW i \in Instances, PostLeader(i) PROVE Fwd'
    <2>1. Valid(local[i])
      BY <1>0, <1>10, Zenon DEF PostLeader, Roles
    <2>2. ~ Behind(local[i], local[i])
      BY NumberAssumption DEF Behind, States
    <2>. QED
      BY <1>0, <1>10, <2>1, <2>2, Zenon DEF PostLeader, Return
  <1>11. ASSUME NEW i \in Instances, PostLeaderFails(i) PROVE Fwd'
    BY <1>0, <1>11, Zenon DEF PostLeaderFails, Return
  <1>12. ASSUME NEW i \in Instances, ReadLeader(i) \/ FollowFails(i) PROVE Fwd'
    BY <1>0, <1>12 DEF ReadLeader, FollowFails, Return
  <1>13. ASSUME NEW i \in Instances, ReadState(i) PROVE Fwd'
    <2>1. ~ leader[i] /\ val[i] \in Tokens /\ Valid(posted[val[i]])
      BY <1>0, <1>13, Zenon DEF ReadState, Roles, LockIsRead, HasRead
    <2>. QED
      BY <1>0, <1>13, <2>1, Zenon DEF ReadState, Return
  <1>14. CASE UNCHANGED vars
    BY <1>0, <1>14, Zenon DEF vars
  <1>. QED
    BY <1>1, <1>2, <1>3, <1>4, <1>5, <1>6, <1>7, <1>8, <1>9, <1>10, <1>11, <1>12, ZenonT(40),
       <1>13, <1>14 DEF Next, Heartbeat

\* What stateHeartbeat copies to the remote tracker of a leader is never behind what
\* that instance served before, if its own poller goes forward only.
THEOREM LeadersGoForward == Spec => LeaderDoesNotGoBack
  <1>. DEFINE Inv == Roles /\ ForwardInv
              Forward == Monotonic => \A i \in Instances :
                           PostLeader(i) => ~ Behind(remote'[i], remote[i])
  <1>1. Init => Inv
    BY TokensAssumption DEF Init, Roles, ForwardInv, PostsAreValid, PayloadIsValid,
       CopyIsEmptyOrValid, CandidateIsAhead
  <1>2. Inv /\ TypeOK /\ LockIsRead /\ [Next]_vars => Inv'
    BY RolesStep, ForwardStep, Zenon
  <1>3. Inv /\ TypeOK => Forward
    <2>. SUFFICES ASSUME Inv, TypeOK, Monotonic, NEW i \in Instances, PostLeader(i)
                  PROVE  ~ Behind(remote'[i], remote[i])
      BY Zenon
    <2>1. leader[i]
      BY Zenon DEF Roles, PostLeader
    <2>. QED
      BY <2>1, Zenon DEF ForwardInv, CandidateIsAhead, PostLeader, TypeOK
  <1>4. Spec => []Inv
    <2>. HIDE DEF Inv
    <2>. QED
      BY Typed, <1>1, <1>2, PTL DEF Spec
  <1>5. [](Inv /\ TypeOK) => [][Forward]_vars
    <2>1. Inv /\ TypeOK => [Forward]_vars
      BY <1>3, Zenon
    <2>. HIDE DEF Inv, Forward
    <2>. QED
      BY <2>1, PTL
  <1>. HIDE DEF Inv
  <1>. QED
    BY Typed, <1>4, <1>5, PTL DEF LeaderDoesNotGoBack

=============================================================================
