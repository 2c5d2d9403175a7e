-------------------------- MODULE IoSchedulerProofs --------------------------
(***************************************************************************)
(* Theorems about IoScheduler, for every set of lanes, batch size and      *)
(* number of spurious wakeups.                                             *)
(***************************************************************************)
EXTENDS IoScheduler, FiniteSetTheorems, TLAPS

Running == opc \in {"notify", "enter", "waiting"}

\* The lane that holds the lock is the one that is looping.
LockInv == \A w \in Lanes : mu = w <=> wpc[w] = "loop"

\* Claimed jobs belong to the batch and to one lane each.
ClaimInv ==
    /\ \A w \in Busy : idx[w] < next
    /\ \A v, w \in Busy : idx[v] = idx[w] => v = w
    /\ fn \subseteq 0 .. count - 1

\* What has run and what has been reported so far.
ProgressInv ==
    /\ \A i \in Jobs : ran[i] =
          IF i < next /\ ~ \E w \in Lanes : wpc[w] = "call" /\ idx[w] = i THEN 1 ELSE 0
    /\ \A w \in Lanes : wpc[w] = "finish" => ok[w] = (idx[w] \notin fn)
    /\ failed <=> \E i \in fn : i < next /\ ~ \E w \in Busy : idx[w] = i

IInv ==
    /\ TypeOK /\ LockInv /\ ClaimInv /\ ProgressInv
    /\ PendingCounts /\ CallerOutlivesJobs

-----------------------------------------------------------------------------
\* Busy lanes can be counted.
LEMMA BusyFinite == IsFiniteSet(Busy) /\ Cardinality(Busy) \in Nat
  <1>1. Busy \in SUBSET Lanes
    BY DEF Busy
  <1> QED BY <1>1, LaneAssumption, FS_Subset, FS_CardinalityType

\* A new scheduler satisfies the invariant.
LEMMA InitIInv == Init => IInv
  <1> SUFFICES ASSUME Init PROVE IInv
    OBVIOUS
  <1>1. TypeOK
    <2>1. 0 \in Jobs /\ 0 \in 0 .. MaxJobs /\ 0 \in 0 .. MaxSpurious
      BY LaneAssumption DEF Jobs
    <2>2. /\ idx \in [Lanes -> Jobs] /\ ran \in [Jobs -> Nat]
          /\ ok \in [Lanes -> BOOLEAN]
      BY <2>1 DEF Init
    <2>3. failed \in BOOLEAN /\ shutdown \in BOOLEAN /\ result \in BOOLEAN
      BY DEF Init
    <2> QED BY <2>1, <2>2, <2>3 DEF Init, TypeOK
  <1>2. LockInv
    BY LaneAssumption DEF Init, LockInv
  <1>3. Busy = {}
    BY DEF Init, Busy
  <1>4. ClaimInv
    BY <1>3 DEF Init, ClaimInv
  <1>5. ProgressInv
    BY <1>3 DEF Init, ProgressInv, Jobs
  <1>6. PendingCounts /\ CallerOutlivesJobs
    BY <1>3, FS_EmptySet DEF Init, PendingCounts, CallerOutlivesJobs
  <1> QED BY <1>1, <1>2, <1>4, <1>5, <1>6 DEF IInv

\* Types are kept by every step.
LEMMA TypeStep ==
    ASSUME IInv, [Next]_vars
    PROVE  TypeOK'
  <1> USE DEF batch, owner, worker
  <1>0. TypeOK /\ ClaimInv
    BY DEF IInv
  <1>1. ASSUME NEW n \in 1 .. MaxJobs, NEW b \in SUBSET (0 .. n - 1), Publish(n, b)
        PROVE  TypeOK'
    <2>1. b \subseteq Jobs /\ n \in 0 .. MaxJobs /\ n \in Int /\ 0 \in 0 .. MaxJobs
      BY LaneAssumption DEF Jobs
    <2>2. ran' \in [Jobs -> Nat]
      BY <1>1 DEF Publish
    <2> QED BY <1>0, <1>1, <2>1, <2>2 DEF Publish, TypeOK
  <1>2. CASE Notify \/ NotifyStop
    <2>1. WakeAll \in [Lanes -> {"lock", "loop", "asleep", "call", "finish", "exited"}]
      BY <1>0 DEF WakeAll, TypeOK
    <2> QED BY <1>0, <1>2, <2>1 DEF Notify, NotifyStop, TypeOK
  <1>3. CASE RunEmpty \/ Wait \/ RunReturn \/ Shutdown \/ Join \/ Gone
    BY <1>0, <1>3 DEF RunEmpty, Wait, RunReturn, Shutdown, Join, Gone, vars, TypeOK
  <1>4. ASSUME NEW w \in Lanes, Lock(w) \/ Sleep(w) \/ Exit(w) PROVE TypeOK'
    BY <1>0, <1>4 DEF Lock, Sleep, Exit, TypeOK
  <1>5. ASSUME NEW w \in Lanes, Claim(w) PROVE TypeOK'
    <2>1. next \in Jobs /\ next + 1 \in 0 .. MaxJobs
      BY <1>0, <1>5, LaneAssumption DEF Claim, TypeOK, Jobs
    <2> QED BY <1>0, <1>5, <2>1 DEF Claim, TypeOK
  <1>6. ASSUME NEW w \in Lanes, Call(w) PROVE TypeOK'
    <2>1. idx[w] \in Jobs
      BY <1>0 DEF TypeOK
    <2>2. ran' \in [Jobs -> Nat]
      BY <1>0, <1>6, <2>1 DEF Call, TypeOK
    <2>3. ok' \in [Lanes -> BOOLEAN]
      BY <1>0, <1>6 DEF Call, TypeOK
    <2> QED BY <1>0, <1>6, <2>2, <2>3 DEF Call, TypeOK
  <1>7. ASSUME NEW w \in Lanes, Finish(w) PROVE TypeOK'
    <2>1. failed' \in BOOLEAN /\ pending' \in Int
      BY <1>0, <1>7 DEF Finish, TypeOK
    <2>2. opc' \in {"idle", "notify", "enter", "waiting", "stop", "join", "gone"}
      BY <1>0, <1>7 DEF Finish, TypeOK
    <2> QED BY <1>0, <1>7, <2>1, <2>2 DEF Finish, TypeOK
  <1>8. ASSUME NEW w \in Lanes, SpuriousWork(w) PROVE TypeOK'
    BY <1>0, <1>8, LaneAssumption DEF SpuriousWork, TypeOK
  <1>9. CASE SpuriousDone
    BY <1>0, <1>9, LaneAssumption DEF SpuriousDone, TypeOK
  <1>10. CASE UNCHANGED vars
    BY <1>0, <1>10 DEF vars, TypeOK
  <1> QED BY <1>1, <1>2, <1>3, <1>4, <1>5, <1>6, <1>7, <1>8, <1>9, <1>10
          DEF Next, OwnerStep, WorkerStep

\* Steps that neither claim, call nor finish a job, and install no batch.
Idle ==
    /\ UNCHANGED <<batch, idx, ok, ran>>
    /\ \A w \in Lanes :
        \/ wpc'[w] = wpc[w]
        \/ /\ wpc[w] \in {"lock", "loop", "asleep", "exited"}
           /\ wpc'[w] \in {"lock", "loop", "asleep", "exited"}
    /\ wpc' \in [Lanes -> {"lock", "loop", "asleep", "call", "finish", "exited"}]

\* The idle parts of worker_loop claim nothing.
LEMMA IdleKeeps ==
    ASSUME IInv, Idle
    PROVE  Busy' = Busy /\ ClaimInv' /\ ProgressInv' /\ PendingCounts'
  <1>1. Busy' = Busy
    BY DEF Idle, Busy
  <1>2. \A w \in Lanes : /\ wpc'[w] = "call" <=> wpc[w] = "call"
                         /\ wpc'[w] = "finish" <=> wpc[w] = "finish"
    BY DEF Idle
  <1>3. UNCHANGED <<fn, count, next, pending, failed, idx, ok, ran>>
    BY DEF Idle, batch
  <1>4. ClaimInv'
    BY <1>1, <1>3 DEF IInv, ClaimInv
  <1>5. ProgressInv'
    <2>0. ProgressInv
      BY DEF IInv
    <2>1. \A i \in Jobs : (\E w \in Lanes : wpc'[w] = "call" /\ idx[w] = i)
                          <=> (\E w \in Lanes : wpc[w] = "call" /\ idx[w] = i)
      BY <1>2
    <2>2. \A i \in Jobs : ran'[i] =
             IF i < next' /\ ~ \E w \in Lanes : wpc'[w] = "call" /\ idx'[w] = i THEN 1 ELSE 0
      BY <2>0, <2>1, <1>3 DEF ProgressInv
    <2>3. \A w \in Lanes : wpc'[w] = "finish" => ok'[w] = (idx'[w] \notin fn')
      BY <2>0, <1>2, <1>3 DEF ProgressInv
    <2>4. failed' <=> \E i \in fn' : i < next' /\ ~ \E w \in Busy' : idx'[w] = i
      BY <2>0, <1>1, <1>3 DEF ProgressInv
    <2> QED BY <2>2, <2>3, <2>4 DEF ProgressInv
  <1>6. PendingCounts'
    BY <1>1, <1>3 DEF IInv, PendingCounts
  <1> QED BY <1>1, <1>4, <1>5, <1>6

\* A step of the owner that installs a batch finds no lane at work.
LEMMA PublishKeeps ==
    ASSUME IInv, NEW n \in 1 .. MaxJobs, NEW b \in SUBSET (0 .. n - 1), Publish(n, b)
    PROVE  LockInv' /\ ClaimInv' /\ ProgressInv' /\ PendingCounts' /\ CallerOutlivesJobs'
  <1>1. Busy = {}
    BY DEF IInv, CallerOutlivesJobs, Publish
  <1>2. wpc' = wpc /\ mu' = mu /\ opc' = "notify" /\ Busy' = {}
    BY <1>1 DEF Publish, worker, Busy
  <1>3. fn' = b /\ count' = n /\ next' = 0 /\ pending' = n /\ failed' = FALSE
    BY DEF Publish
  <1>4. LockInv'
    BY <1>2 DEF IInv, LockInv
  <1>5. ClaimInv'
    BY <1>2, <1>3 DEF ClaimInv
  <1>6. ProgressInv'
    <2>1. \A w \in Lanes : wpc'[w] # "finish"
      BY <1>2 DEF Busy
    <2>2. \A i \in Jobs : ran'[i] = 0 /\ ~(i < next')
      BY <1>3 DEF Publish, Jobs
    <2>3. \A i \in fn' : ~(i < next')
      BY <1>3
    <2> QED BY <1>3, <2>1, <2>2, <2>3 DEF ProgressInv
  <1>7. PendingCounts'
    BY <1>2, <1>3, FS_EmptySet DEF PendingCounts
  <1>8. CallerOutlivesJobs'
    BY <1>2 DEF CallerOutlivesJobs
  <1> QED BY <1>4, <1>5, <1>6, <1>7, <1>8

\* A lane takes the next index under the lock.
LEMMA ClaimKeeps ==
    ASSUME IInv, NEW w \in Lanes, Claim(w)
    PROVE  LockInv' /\ ClaimInv' /\ ProgressInv' /\ PendingCounts' /\ CallerOutlivesJobs'
  <1>0. TypeOK /\ LockInv /\ ClaimInv /\ ProgressInv /\ PendingCounts /\ CallerOutlivesJobs
    BY DEF IInv
  <1>1. /\ wpc[w] = "loop" /\ next < count /\ next' = next + 1 /\ mu' = "free"
        /\ wpc' = [wpc EXCEPT ![w] = "call"] /\ idx' = [idx EXCEPT ![w] = next]
        /\ UNCHANGED <<fn, count, pending, failed, opc, ok, ran>>
    BY DEF Claim, owner
  <1>2. w \notin Busy /\ Busy' = Busy \cup {w}
    BY <1>0, <1>1 DEF Busy, TypeOK
  <1>3. next \in Nat /\ count \in Nat /\ next \in Jobs
    BY <1>0, <1>1, LaneAssumption DEF TypeOK, Jobs
  <1>4. LockInv'
    BY <1>0, <1>1, LaneAssumption DEF LockInv, TypeOK
  <1>5. \A v \in Busy : idx'[v] = idx[v] /\ idx[v] < next /\ idx[v] \in Int
    BY <1>0, <1>1, <1>2 DEF ClaimInv, TypeOK, Jobs, Busy
  <1>6. idx'[w] = next
    BY <1>0, <1>1 DEF TypeOK
  <1>7. ClaimInv'
    BY <1>0, <1>1, <1>2, <1>3, <1>5, <1>6 DEF ClaimInv
  <1>8. ProgressInv'
    <2>1. ASSUME NEW i \in Jobs
          PROVE  ran'[i] = IF i < next' /\ ~ \E v \in Lanes : wpc'[v] = "call" /\ idx'[v] = i
                           THEN 1 ELSE 0
      <3>1. i \in Int
        BY DEF Jobs
      <3>2. ran[i] = IF i < next /\ ~ \E v \in Lanes : wpc[v] = "call" /\ idx[v] = i
                     THEN 1 ELSE 0
        BY <1>0 DEF ProgressInv
      <3>3. CASE i = next
        <4>1. wpc'[w] = "call" /\ idx'[w] = i
          BY <1>0, <1>1, <1>6, <3>3 DEF TypeOK
        <4> QED BY <1>1, <1>3, <3>1, <3>2, <3>3, <4>1
      <3>4. CASE i # next
        <4>1. i < next' <=> i < next
          BY <1>1, <1>3, <3>1, <3>4
        <4>2. \A v \in Lanes : wpc'[v] = "call" /\ idx'[v] = i <=> wpc[v] = "call" /\ idx[v] = i
          BY <1>0, <1>1, <1>6, <3>4 DEF TypeOK
        <4> QED BY <1>1, <3>2, <4>1, <4>2
      <3> QED BY <3>3, <3>4
    <2>2. \A v \in Lanes : wpc'[v] = "finish" => ok'[v] = (idx'[v] \notin fn')
      BY <1>0, <1>1 DEF ProgressInv, TypeOK
    <2>3. failed' <=> \E i \in fn' : i < next' /\ ~ \E v \in Busy' : idx'[v] = i
      <3>1. \A i \in fn : i \in Int
        BY <1>0 DEF TypeOK, Jobs
      <3>2. \A i \in fn : (i < next' /\ ~ \E v \in Busy' : idx'[v] = i)
                           <=> (i < next /\ ~ \E v \in Busy : idx[v] = i)
        BY <1>1, <1>2, <1>3, <1>5, <1>6, <3>1
      <3> QED BY <1>0, <1>1, <3>2 DEF ProgressInv
    <2> QED BY <2>1, <2>2, <2>3 DEF ProgressInv
  <1>9. PendingCounts'
    <2>1. Cardinality(Busy') = Cardinality(Busy) + 1 /\ Cardinality(Busy) \in Nat
      BY <1>2, BusyFinite, FS_AddElement
    <2> QED BY <1>0, <1>1, <1>3, <2>1 DEF PendingCounts
  <1>10. pending # 0
    BY <1>0, <1>1, <1>3, BusyFinite DEF PendingCounts
  <1>11. CallerOutlivesJobs'
    BY <1>0, <1>1, <1>10 DEF CallerOutlivesJobs
  <1> QED BY <1>4, <1>7, <1>8, <1>9, <1>11

\* A lane runs its job outside the lock.
LEMMA CallKeeps ==
    ASSUME IInv, NEW w \in Lanes, Call(w)
    PROVE  LockInv' /\ ClaimInv' /\ ProgressInv' /\ PendingCounts' /\ CallerOutlivesJobs'
  <1>0. TypeOK /\ LockInv /\ ClaimInv /\ ProgressInv /\ PendingCounts /\ CallerOutlivesJobs
    BY DEF IInv
  <1>1. /\ wpc[w] = "call" /\ wpc' = [wpc EXCEPT ![w] = "finish"]
        /\ ok' = [ok EXCEPT ![w] = idx[w] \notin fn]
        /\ ran' = [ran EXCEPT ![idx[w]] = @ + 1]
        /\ UNCHANGED <<fn, count, next, pending, failed, opc, mu, idx>>
    BY DEF Call, owner, batch
  <1>2. w \in Busy /\ Busy' = Busy
    BY <1>0, <1>1 DEF Busy, TypeOK
  <1>3. LockInv'
    BY <1>0, <1>1 DEF LockInv, TypeOK
  <1>4. ClaimInv'
    BY <1>0, <1>1, <1>2 DEF ClaimInv
  <1>5. ProgressInv'
    <2>1. ASSUME NEW i \in Jobs
          PROVE  ran'[i] = IF i < next' /\ ~ \E v \in Lanes : wpc'[v] = "call" /\ idx'[v] = i
                           THEN 1 ELSE 0
      <3>1. ran[i] = IF i < next /\ ~ \E v \in Lanes : wpc[v] = "call" /\ idx[v] = i
                     THEN 1 ELSE 0
        BY <1>0 DEF ProgressInv
      <3>2. CASE i = idx[w]
        <4>1. ran[i] = 0 /\ i < next
          BY <1>0, <1>1, <1>2, <3>1, <3>2 DEF ClaimInv
        <4>2. ran'[i] = 1
          BY <1>0, <1>1, <3>2, <4>1 DEF TypeOK
        <4>3. ~ \E v \in Lanes : wpc'[v] = "call" /\ idx'[v] = i
          BY <1>0, <1>1, <1>2, <3>2 DEF ClaimInv, TypeOK, Busy
        <4> QED BY <1>1, <4>1, <4>2, <4>3
      <3>3. CASE i # idx[w]
        <4>1. ran'[i] = ran[i]
          BY <1>0, <1>1, <3>3 DEF TypeOK
        <4>2. \A v \in Lanes : wpc'[v] = "call" /\ idx'[v] = i <=> wpc[v] = "call" /\ idx[v] = i
          BY <1>0, <1>1, <3>3 DEF TypeOK
        <4> QED BY <1>1, <3>1, <4>1, <4>2
      <3> QED BY <3>2, <3>3
    <2>2. \A v \in Lanes : wpc'[v] = "finish" => ok'[v] = (idx'[v] \notin fn')
      BY <1>0, <1>1 DEF ProgressInv, TypeOK
    <2> QED BY <1>0, <1>1, <1>2, <2>1, <2>2 DEF ProgressInv
  <1>6. PendingCounts' /\ CallerOutlivesJobs'
    BY <1>0, <1>1, <1>2 DEF PendingCounts, CallerOutlivesJobs
  <1> QED BY <1>3, <1>4, <1>5, <1>6

\* A lane reports its job under the lock.
LEMMA FinishKeeps ==
    ASSUME IInv, NEW w \in Lanes, Finish(w)
    PROVE  LockInv' /\ ClaimInv' /\ ProgressInv' /\ PendingCounts' /\ CallerOutlivesJobs'
  <1>0. TypeOK /\ LockInv /\ ClaimInv /\ ProgressInv /\ PendingCounts /\ CallerOutlivesJobs
    BY DEF IInv
  <1>1. /\ wpc[w] = "finish" /\ wpc' = [wpc EXCEPT ![w] = "loop"]
        /\ mu = "free" /\ mu' = w
        /\ failed' = (failed \/ ~ok[w]) /\ pending' = pending - 1
        /\ UNCHANGED <<fn, count, next, idx, ok, ran>>
    BY DEF Finish
  <1>2. w \in Busy /\ Busy' = Busy \ {w}
    BY <1>0, <1>1 DEF Busy, TypeOK
  <1>3. LockInv'
    BY <1>0, <1>1, LaneAssumption DEF LockInv, TypeOK
  <1>4. ClaimInv'
    BY <1>0, <1>1, <1>2 DEF ClaimInv
  <1>5. ProgressInv'
    <2>1. \A v \in Lanes : /\ wpc'[v] = "call" <=> wpc[v] = "call"
                           /\ wpc'[v] = "finish" => wpc[v] = "finish"
      BY <1>0, <1>1 DEF TypeOK
    <2>2. idx[w] < next /\ \A v \in Busy' : idx[v] # idx[w]
      BY <1>0, <1>2 DEF ClaimInv
    <2>3. ok[w] = (idx[w] \notin fn)
      BY <1>0, <1>1 DEF ProgressInv
    <2>4. failed' <=> \E i \in fn' : i < next' /\ ~ \E v \in Busy' : idx'[v] = i
      <3>1. failed <=> \E i \in fn : i < next /\ ~ \E v \in Busy : idx[v] = i
        BY <1>0 DEF ProgressInv
      <3>2. \A i \in fn : i # idx[w] =>
              ((\E v \in Busy' : idx[v] = i) <=> (\E v \in Busy : idx[v] = i))
        BY <1>2
      <3>3. CASE idx[w] \in fn
        BY <1>1, <2>2, <2>3, <3>3
      <3>4. CASE idx[w] \notin fn
        BY <1>1, <2>3, <3>1, <3>2, <3>4
      <3> QED BY <3>3, <3>4
    <2>5. \A v \in Lanes : wpc'[v] = "finish" => ok'[v] = (idx'[v] \notin fn')
      BY <1>0, <1>1, <2>1 DEF ProgressInv
    <2>6. \A i \in Jobs : ran'[i] =
             IF i < next' /\ ~ \E v \in Lanes : wpc'[v] = "call" /\ idx'[v] = i THEN 1 ELSE 0
      BY <1>0, <1>1, <2>1 DEF ProgressInv
    <2> QED BY <2>4, <2>5, <2>6 DEF ProgressInv
  <1>6. PendingCounts'
    <2>1. Cardinality(Busy') = Cardinality(Busy) - 1 /\ Cardinality(Busy) \in Nat
      BY <1>2, BusyFinite, FS_RemoveElement
    <2>2. count \in Int /\ next \in Int /\ pending \in Int
      BY <1>0, LaneAssumption DEF TypeOK
    <2> QED BY <1>0, <1>1, <2>1, <2>2 DEF PendingCounts
  <1>7. CallerOutlivesJobs'
    BY <1>0, <1>2 DEF CallerOutlivesJobs, Finish
  <1> QED BY <1>3, <1>4, <1>5, <1>6, <1>7

-----------------------------------------------------------------------------
\* The other steps move threads between the states in which they hold no job.
LEMMA IdleSteps ==
    ASSUME IInv, [Next]_vars
    PROVE  \/ \E n \in 1 .. MaxJobs : \E b \in SUBSET (0 .. n - 1) : Publish(n, b)
           \/ \E w \in Lanes : Claim(w) \/ Call(w) \/ Finish(w)
           \/ Idle /\ LockInv' /\ CallerOutlivesJobs'
  <1> USE DEF batch, owner, worker
  <1> DEFINE Goal == Idle /\ LockInv' /\ CallerOutlivesJobs'
  <1>0. TypeOK /\ LockInv /\ PendingCounts /\ CallerOutlivesJobs
    BY DEF IInv
  <1>1. CASE Notify \/ NotifyStop
    <2>1. wpc' = WakeAll /\ mu' = mu /\ pending' = pending /\ Idle
      BY <1>0, <1>1 DEF Notify, NotifyStop, WakeAll, Idle, TypeOK
    <2>2. \A w \in Lanes : wpc'[w] = "loop" <=> wpc[w] = "loop"
      BY <1>0, <2>1 DEF WakeAll, TypeOK
    <2>3. LockInv'
      BY <1>0, <2>1, <2>2 DEF LockInv
    <2>4. Busy' = Busy
      BY <2>1, IdleKeeps
    <2> QED BY <1>0, <1>1, <2>1, <2>3, <2>4 DEF Notify, NotifyStop, CallerOutlivesJobs
  <1>2. CASE RunEmpty \/ Wait \/ RunReturn \/ Shutdown \/ Join \/ SpuriousDone \/ UNCHANGED vars
    <2>1. Idle /\ wpc' = wpc /\ mu' = mu /\ pending' = pending
      BY <1>0, <1>2 DEF RunEmpty, Wait, RunReturn, Shutdown, Join, SpuriousDone, vars,
                        Idle, TypeOK
    <2>2. LockInv' /\ Busy' = Busy
      BY <1>0, <2>1 DEF LockInv, Busy
    <2>3. CallerOutlivesJobs'
      <3>1. CASE RunReturn
        <4>1. pending = 0 /\ Busy = {}
          <5>1. pending = 0 /\ count - next \in Nat
            BY <1>0, <3>1, LaneAssumption DEF RunReturn, PendingCounts, TypeOK
          <5>2. Cardinality(Busy) = 0
            BY <1>0, <5>1, BusyFinite DEF PendingCounts
          <5> QED BY <5>1, <5>2, BusyFinite, FS_EmptySet
        <4> QED BY <2>1, <2>2, <4>1 DEF CallerOutlivesJobs
      <3>2. CASE ~RunReturn
        BY <1>0, <1>2, <2>1, <2>2, <3>2
           DEF RunEmpty, Wait, Shutdown, Join, SpuriousDone, vars, CallerOutlivesJobs
      <3> QED BY <3>1, <3>2
    <2> QED BY <2>1, <2>2, <2>3
  <1>3. ASSUME NEW w \in Lanes, Lock(w) \/ Sleep(w) \/ Exit(w) \/ SpuriousWork(w)
        PROVE  Goal
    <2>1. Idle /\ opc' = opc /\ pending' = pending
      BY <1>0, <1>3 DEF Lock, Sleep, Exit, SpuriousWork, Idle, TypeOK
    <2>2. LockInv'
      BY <1>0, <1>3, LaneAssumption DEF Lock, Sleep, Exit, SpuriousWork, LockInv, TypeOK
    <2>3. Busy' = Busy
      BY <2>1, IdleKeeps
    <2> QED BY <1>0, <2>1, <2>2, <2>3 DEF CallerOutlivesJobs
  <1> QED BY <1>1, <1>2, <1>3 DEF Next, OwnerStep, WorkerStep, Gone

\* The inductive invariant holds in every reachable state.
THEOREM Inductive == Spec => []IInv
  <1>1. IInv /\ [Next]_vars => IInv'
    <2> SUFFICES ASSUME IInv, [Next]_vars PROVE IInv'
      OBVIOUS
    <2>1. LockInv' /\ ClaimInv' /\ ProgressInv' /\ PendingCounts' /\ CallerOutlivesJobs'
      BY IdleSteps, IdleKeeps, PublishKeeps, ClaimKeeps, CallKeeps, FinishKeeps
    <2> QED BY <2>1, TypeStep DEF IInv
  <1> QED BY InitIInv, <1>1, PTL DEF Spec

\* Type correctness of the lane pool.
THEOREM TypeCorrect == Spec => []TypeOK
  <1>1. IInv => TypeOK
    BY DEF IInv
  <1> QED BY Inductive, <1>1, PTL

\* pending_ counts the jobs that have not reported, so run wakes up when and
\* only when the batch is complete.
THEOREM PendingIsExact == Spec => []PendingCounts
  <1>1. IInv => PendingCounts
    BY DEF IInv
  <1> QED BY Inductive, <1>1, PTL

\* No lane calls the job function after run has returned, nor while the next
\* run replaces it.
THEOREM NoCallAfterReturn == Spec => []CallerOutlivesJobs
  <1>1. IInv => CallerOutlivesJobs
    BY DEF IInv
  <1> QED BY Inductive, <1>1, PTL

-----------------------------------------------------------------------------
(* Refinement.                                                             *)

\* The call of a job is the step of the batch that does it.
LEMMA CallIsDo ==
    ASSUME IInv, NEW w \in Lanes, Call(w)
    PROVE  \E i \in Batch!Jobs : Batch!Do(i)
  <1>0. TypeOK /\ ClaimInv /\ ProgressInv /\ PendingCounts /\ CallerOutlivesJobs
    BY DEF IInv
  <1>1. /\ wpc[w] = "call" /\ ran' = [ran EXCEPT ![idx[w]] = @ + 1]
        /\ UNCHANGED <<fn, count, opc, result>>
    BY DEF Call, owner, batch
  <1>2. w \in Busy /\ idx[w] \in Jobs
    BY <1>0, <1>1 DEF Busy, TypeOK
  <1>3. idx[w] < count
    BY <1>0, <1>2, LaneAssumption DEF ClaimInv, PendingCounts, TypeOK, Jobs
  <1>4. ran[idx[w]] = 0
    BY <1>0, <1>1, <1>2 DEF ProgressInv
  <1>5. ran' = [ran EXCEPT ![idx[w]] = 1]
    BY <1>0, <1>1, <1>2, <1>4 DEF TypeOK
  <1>6. opc \in {"notify", "enter", "waiting"}
    BY <1>0, <1>2 DEF CallerOutlivesJobs
  <1>7. Batch!Do(idx[w])
    BY <1>1, <1>3, <1>4, <1>5, <1>6 DEF Batch!Do
  <1> QED BY <1>2, <1>7 DEF Batch!Jobs, Jobs

\* run() returns as the batch does: all jobs done, the result their conjunction.
LEMMA RunReturnIsReturn ==
    ASSUME IInv, RunReturn
    PROVE  Batch!Return
  <1>0. TypeOK /\ ClaimInv /\ ProgressInv /\ PendingCounts
    BY DEF IInv
  <1>1. /\ opc = "enter" /\ pending = 0 /\ opc' = "idle" /\ result' = ~failed
        /\ UNCHANGED <<fn, count, ran>>
    BY DEF RunReturn, batch
  <1>2. count \in Nat /\ next \in Nat /\ count <= MaxJobs
    BY <1>0, LaneAssumption DEF TypeOK
  <1>3. next = count /\ Cardinality(Busy) = 0
    BY <1>0, <1>1, <1>2, BusyFinite DEF PendingCounts
  <1>4. Busy = {}
    BY <1>3, BusyFinite, FS_EmptySet
  <1>5. \A i \in 0 .. count - 1 : ran[i] = 1
    <2>1. \A w \in Lanes : wpc[w] # "call"
      BY <1>4 DEF Busy
    <2>2. \A i \in 0 .. count - 1 : i \in Jobs /\ i < next
      BY <1>2, <1>3, LaneAssumption DEF Jobs
    <2> QED BY <1>0, <2>1, <2>2 DEF ProgressInv
  <1>6. failed <=> fn # {}
    <2>1. \A i \in fn : i < next
      BY <1>0, <1>2, <1>3 DEF ClaimInv
    <2> QED BY <1>0, <1>4, <2>1 DEF ProgressInv
  <1>7. result' = (fn = {})
    BY <1>0, <1>1, <1>6 DEF TypeOK
  <1> QED BY <1>1, <1>5, <1>7 DEF Batch!Return

\* run executes every job of its batch exactly once, returns after the last
\* one and returns false iff one failed, for any number of lanes and any
\* interleaving of them.
THEOREM RefinesBatch == Spec => ImplementsBatch
  <1>1. Init => Batch!Init
    BY DEF Init, Batch!Init, Batch!Jobs, Jobs
  <1>2. IInv /\ [Next]_vars => [Batch!Next]_(Batch!bvars)
    <2> SUFFICES ASSUME IInv, [Next]_vars
                 PROVE  \/ Batch!Next
                        \/ UNCHANGED <<opc \in {"notify", "enter", "waiting"},
                                       count, fn, ran, result>>
      BY DEF Batch!bvars
    <2> DEFINE Same == UNCHANGED <<opc \in {"notify", "enter", "waiting"},
                                   count, fn, ran, result>>
    <2> USE DEF batch, owner, worker
    <2>1. ASSUME NEW n \in 1 .. MaxJobs, NEW b \in SUBSET (0 .. n - 1), Publish(n, b)
          PROVE  Batch!Next
      BY <2>1 DEF Publish, Batch!Next, Batch!Start, Batch!Jobs, Jobs
    <2>2. CASE RunEmpty
      BY <2>2 DEF RunEmpty, Batch!Next, Batch!Empty
    <2>3. CASE RunReturn
      BY <2>3, RunReturnIsReturn DEF Batch!Next
    <2>4. ASSUME NEW w \in Lanes, Call(w) PROVE Batch!Next
      BY <2>4, CallIsDo DEF Batch!Next
    <2>5. ASSUME NEW w \in Lanes, Finish(w) PROVE Same
      BY <2>5 DEF Finish
    <2>6. CASE Notify \/ Wait \/ Shutdown \/ NotifyStop \/ Join \/ SpuriousDone \/ UNCHANGED vars
      BY <2>6 DEF Notify, Wait, Shutdown, NotifyStop, Join, SpuriousDone, vars
    <2>7. ASSUME NEW w \in Lanes,
                 Lock(w) \/ Sleep(w) \/ Exit(w) \/ Claim(w) \/ SpuriousWork(w)
          PROVE  Same
      BY <2>7 DEF Lock, Sleep, Exit, Claim, SpuriousWork
    <2> QED BY <2>1, <2>2, <2>3, <2>4, <2>5, <2>6, <2>7
            DEF Next, OwnerStep, WorkerStep, Gone
  <1> QED BY Inductive, <1>1, <1>2, PTL DEF Spec, ImplementsBatch, Batch!Spec
==============================================================================
