------------------------- MODULE HostLifecycle_proofs -------------------------
(***************************************************************************)
(* Theorems about the hosts of a view, for any number of boards, runners   *)
(* and instances: types, that whoever serves owns its endpoint, that two   *)
(* runners never keep an agent, that a host is replaced only when its      *)
(* runner ended, and that a request to stop is not lost.                   *)
(***************************************************************************)
EXTENDS HostLifecycle, TLAPS

----------------------------------------------------------------------------
(* The inductive invariants.                                               *)

\* A board that spawns, records or watches is at an instance that was claimed, and
\* so is every runner; whom a board or the record names was born; only a runner that
\* was born finishes.
Born(r) == runner[r].pc # "unborn"
Live(r) == Born(r) /\ runner[r].pc # "gone"
Unspawned == host.state = "starting" /\ ~host.spawned

Placed ==
    /\ \A b \in Boards :
          /\ board[b].pc \notin {"idle", "lock", "claim", "dead"} => board[b].inst \in Instances
          /\ board[b].pc = "record" => board[b].made \in Runners /\ Born(board[b].made)
    /\ \A r \in Runners : IF Born(r) THEN runner[r].inst \in Instances
                          ELSE runner[r].fin = "no"
    /\ host.runner # None => Born(host.runner)

Typed == TypeOK /\ Placed

\* Past its bind and before it finishes, a runner has the endpoint of its instance,
\* and only from there does it start an agent.
Started(r) == runner[r].pc \in {"ready", "serve", "gone"}
Bound(r) == runner[r].pc \in {"publish", "start", "ready", "serve"} /\ runner[r].fin = "no"

EndpointInvariant ==
    \A r \in Runners :
        /\ Bound(r) => endpoint[runner[r].inst] = r
        /\ agent[r] = "runs" => Started(r)

\* With no dying board and no contended write: a board holds the lease for as long as
\* it claims, spawns, records or replaces, ...
Holding == {"claim", "spawn", "record", "replace"}

LeaseInvariant ==
    /\ deaths.boards = 0 /\ faults = 0
    /\ \A b \in Boards : /\ board[b].pc # "dead"
                         /\ board[b].pc \in Holding => lease = b

\* ... every runner that is not over is the one of the current instance and in the
\* record, or about to be recorded, and no instance gets a second one, ...
Recording(r) == \E b \in Boards : board[b].pc = "record" /\ board[b].made = r

RunnerInvariant ==
    /\ \A r \in Runners :
          /\ Born(r) => runner[r].inst <= host.inst
          /\ Live(r) => runner[r].inst = host.inst /\ (host.runner = r \/ Recording(r))
          /\ Born(r) /\ runner[r].inst = host.inst /\ Unspawned => Recording(r)
          /\ \A s \in Runners : Born(r) /\ Born(s) /\ runner[r].inst = runner[s].inst => r = s
    /\ \A i \in Instances : endpoint[i] # None => /\ Born(endpoint[i])
                                                 /\ runner[endpoint[i]].inst = i

\* ... and a recovery that passed its gate finds nobody about to spawn or record a
\* runner of its instance, and replaces the host when the last one is over.
NoneBorn(i) == \A r \in Runners : Born(r) => runner[r].inst # i
NoneLive == \A r \in Runners : ~Live(r)

Idle(c) == board[c].pc \notin {"spawn", "record"}

BoardAt(b) ==
    /\ board[b].inst <= host.inst
    /\ board[b].pc = "spawn" => board[b].inst = host.inst /\ NoneBorn(host.inst)
    /\ board[b].pc = "record" => /\ board[b].inst = host.inst
                                 /\ runner[board[b].made].inst = host.inst
    /\ board[b].pc = "replace" => board[b].inst = host.inst /\ NoneLive
    /\ board[b].inst = host.inst =>
          /\ board[b].pc = "gate" /\ Unspawned => ~NoneBorn(host.inst)
          /\ board[b].pc \in {"revoke", "watch", "reclaim"} =>
                ~Unspawned /\ \A c \in Boards : Idle(c)
          /\ board[b].pc = "reclaim" => NoneLive

BoardInvariant == \A b \in Boards : BoardAt(b)

ReplaceInvariant == LeaseInvariant /\ RunnerInvariant /\ BoardInvariant

BoardPcs == {"idle", "lock", "claim", "spawn", "record", "gate", "revoke", "watch", "reclaim",
             "replace", "dead"}
RunnerPcs == {"unborn", "boot", "bind", "publish", "start", "ready", "serve", "gone"}
Whys == {"none", "owner_lost", "failed", "stopped"}

\* What the transactions write in the record is a record.
LEMMA RecordWrites ==
  ASSUME host \in Record
  PROVE  /\ \A i \in Instances : FreshClaim(i) \in Record
         /\ StopRequested \in Record /\ Stopping \in Record
         /\ \A s \in Active \cup Terminal : [host EXCEPT !.state = s] \in Record
         /\ \A r \in Runners : /\ Published(r) \in Record
                               /\ [host EXCEPT !.runner = r, !.spawned = TRUE] \in Record
                               /\ [host EXCEPT !.state = "alive", !.ready = TRUE,
                                               !.agent = r] \in Record
         /\ [host EXCEPT !.state = "exited", !.spawned = FALSE, !.runner = None,
                         !.agent = None] \in Record
         /\ \A s \in Terminal :
              [host EXCEPT !.state = s, !.ready = FALSE, !.stop = FALSE] \in Record
<1>1. \A i \in Instances : FreshClaim(i) \in Record
  <2>1. NoHost \in Record
    BY HostAssumption DEF Record, NoHost, Active, Terminal
  <2>2. \A i \in Instances : i \in 0..MaxInstances
    BY HostAssumption DEF Instances
  <2> QED
    BY <2>1, <2>2 DEF Record, FreshClaim, Active
<1>2. StopRequested \in Record /\ Stopping \in Record
  BY DEF Record, StopRequested, Stopping, Active, Terminal
<1>3. \A s \in Active \cup Terminal : [host EXCEPT !.state = s] \in Record
  BY DEF Record
<1>4. ASSUME NEW r \in Runners
      PROVE  /\ Published(r) \in Record
             /\ [host EXCEPT !.runner = r, !.spawned = TRUE] \in Record
             /\ [host EXCEPT !.state = "alive", !.ready = TRUE, !.agent = r] \in Record
  BY DEF Record, Published, Active, Terminal
<1>5. [host EXCEPT !.state = "exited", !.spawned = FALSE, !.runner = None, !.agent = None]
         \in Record
  BY DEF Record, Active, Terminal
<1>6. \A s \in Terminal :
         [host EXCEPT !.state = s, !.ready = FALSE, !.stop = FALSE] \in Record
  BY DEF Record, Terminal
<1> QED
  BY <1>1, <1>2, <1>3, <1>4, <1>5, <1>6

\* A contended or refused write leaves a record and a count of faults.
LEMMA TryWriteTyped ==
  ASSUME host \in Record, faults \in 0..MaxFaults, NEW i, NEW record \in Record,
         TryWrite(i, record)
  PROVE  host' \in Record /\ faults' \in 0..MaxFaults
  BY HostAssumption DEF TryWrite, Write, Miss

LEMMA MissTyped ==
  ASSUME host \in Record, faults \in 0..MaxFaults, NEW i, Miss(i)
  PROVE  host' \in Record /\ faults' \in 0..MaxFaults
  BY HostAssumption DEF Miss

\* Where a board goes next.
LEMMA AtTyped ==
  ASSUME board \in [Boards -> Board], NEW b \in Boards, NEW pc \in BoardPcs,
         NEW i \in 0..MaxInstances, At(b, pc, i)
  PROVE  board' \in [Boards -> Board]
<1>1. [pc |-> pc, inst |-> i, made |-> None] \in Board
  BY DEF Board, BoardPcs
<1> QED
  BY <1>1 DEF At

LEMMA LeaveTyped ==
  ASSUME board \in [Boards -> Board], NEW b \in Boards, Leave(b)
  PROVE  board' \in [Boards -> Board]
  BY HostAssumption, AtTyped DEF Leave, BoardPcs

\* Where a runner goes next.
LEMMA RunnerWrites ==
  ASSUME runner \in [Runners -> Runner], NEW r \in Runners
  PROVE  /\ \A pc \in RunnerPcs : Step(r, pc) \in [Runners -> Runner]
         /\ \A why \in Whys : /\ Finishing(r, why) \in [Runners -> Runner]
                              /\ [Finishing(r, why) EXCEPT ![r].pc = "ready"]
                                    \in [Runners -> Runner]
         /\ \A i \in Instances :
              [runner EXCEPT ![r].pc = "boot", ![r].inst = i] \in [Runners -> Runner]
         /\ [runner EXCEPT ![r].pc = "start", ![r].claimed = TRUE] \in [Runners -> Runner]
         /\ [runner EXCEPT ![r].fin = "reap"] \in [Runners -> Runner]
<1>1. runner[r] \in Runner
  OBVIOUS
<1>2. \A pc \in RunnerPcs : Step(r, pc) \in [Runners -> Runner]
  BY <1>1 DEF Step, Runner, RunnerPcs
<1>3. \A why \in Whys : Finishing(r, why) \in [Runners -> Runner]
  BY <1>1 DEF Finishing, Runner, Whys
<1>4. ASSUME NEW why \in Whys
      PROVE  [Finishing(r, why) EXCEPT ![r].pc = "ready"] \in [Runners -> Runner]
  <2>1. Finishing(r, why) \in [Runners -> Runner] /\ Finishing(r, why)[r] \in Runner
    BY <1>3
  <2>2. [Finishing(r, why)[r] EXCEPT !.pc = "ready"] \in Runner
    BY <2>1 DEF Runner
  <2> QED
    BY <2>1, <2>2
<1>5. \A i \in Instances :
         [runner EXCEPT ![r].pc = "boot", ![r].inst = i] \in [Runners -> Runner]
  <2>1. \A i \in Instances : i \in 0..MaxInstances
    BY HostAssumption DEF Instances
  <2>2. \A i \in Instances : [runner[r] EXCEPT !.pc = "boot", !.inst = i] \in Runner
    BY <1>1, <2>1 DEF Runner
  <2> QED
    BY <1>1, <2>2
<1>6. /\ [runner EXCEPT ![r].pc = "start", ![r].claimed = TRUE] \in [Runners -> Runner]
      /\ [runner EXCEPT ![r].fin = "reap"] \in [Runners -> Runner]
  BY <1>1 DEF Runner
<1> QED
  BY <1>2, <1>3, <1>4, <1>5, <1>6

LEMMA UnboundTyped ==
  ASSUME endpoint \in [Instances -> Runners \cup {None}], NEW r \in Runners
  PROVE  Unbound(r) \in [Instances -> Runners \cup {None}]
  BY DEF Unbound

LEMMA FinishTyped ==
  ASSUME TypeOK, NEW r \in Runners, NEW why \in Whys, NEW record \in Record,
         Finish(r, why, record)
  PROVE  /\ host' \in Record /\ faults' \in 0..MaxFaults
         /\ runner' \in [Runners -> Runner]
         /\ endpoint' \in [Instances -> Runners \cup {None}]
  BY RunnerWrites, UnboundTyped, TryWriteTyped DEF Finish, TypeOK

LEMMA TypeStep ==
  ASSUME Typed, [Next]_vars PROVE TypeOK'
<1> USE DEF Typed
<1>1. ASSUME NEW b \in Boards, Launch(b) PROVE TypeOK'
  BY <1>1, HostAssumption, AtTyped DEF Launch, BoardOnly, TypeOK, Board, BoardPcs, Record
<1>2. ASSUME NEW b \in Boards, LockStart(b) PROVE TypeOK'
  BY <1>2, HostAssumption, AtTyped, LeaveTyped
  DEF LockStart, LeaseFree, BoardOnly, TypeOK, Board, BoardPcs
<1>3. ASSUME NEW b \in Boards, ClaimHost(b) PROVE TypeOK'
  <2>1. host' \in Record /\ faults' \in 0..MaxFaults
    <3>1. host.inst < MaxInstances => host.inst + 1 \in Instances
      BY HostAssumption DEF TypeOK, Record, Instances
    <3>2. host.inst < MaxInstances => FreshClaim(host.inst + 1) \in Record
      BY <3>1, RecordWrites DEF TypeOK
    <3> QED
      BY <1>3, <3>2, MissTyped DEF ClaimHost, TypeOK
  <2>2. board' \in [Boards -> Board]
    BY <1>3, HostAssumption, AtTyped, LeaveTyped DEF ClaimHost, TypeOK, BoardPcs, Record
  <2> QED
    BY <1>3, <2>1, <2>2 DEF ClaimHost, DropLease, BoardOnly, TypeOK
<1>4. ASSUME NEW b \in Boards, Adopt(b) PROVE TypeOK'
  BY <1>4, HostAssumption, AtTyped
  DEF Adopt, LeaseFree, BoardOnly, TypeOK, Board, BoardPcs, Record
<1>5. ASSUME NEW b \in Boards, SpawnRunner(b) PROVE TypeOK'
  <2>1. PICK r \in Runners :
           /\ runner' = [runner EXCEPT ![r].pc = "boot", ![r].inst = board[b].inst]
           /\ board' = [board EXCEPT ![b].pc = "record", ![b].made = r]
    BY <1>5 DEF SpawnRunner
  <2>2. runner' \in [Runners -> Runner]
    BY <1>5, <2>1, RunnerWrites DEF SpawnRunner, TypeOK, Placed
  <2>3. board[b] \in Board
    BY DEF TypeOK
  <2>4. board' \in [Boards -> Board]
    BY <2>1, <2>3 DEF TypeOK, Board
  <2> QED
    BY <1>5, <2>2, <2>4 DEF SpawnRunner, TypeOK
<1>6. ASSUME NEW b \in Boards, SpawnFails(b) PROVE TypeOK'
  BY <1>6, HostAssumption, LeaveTyped, MissTyped, TryWriteTyped, RecordWrites
  DEF SpawnFails, DropLease, BoardOnly, Write, Miss, TypeOK, Board, BoardPcs, Active,
      Terminal
<1>7. ASSUME NEW b \in Boards, RecordRunner(b) PROVE TypeOK'
  <2>1. board[b].made \in Runners
    BY <1>7 DEF RecordRunner, Placed
  <2>2. host' \in Record /\ faults' \in 0..MaxFaults
    BY <1>7, <2>1, RecordWrites, TryWriteTyped DEF RecordRunner, TypeOK
  <2>3. board' \in [Boards -> Board]
    BY <1>7, LeaveTyped DEF RecordRunner, TypeOK
  <2> QED
    BY <1>7, <2>2, <2>3 DEF RecordRunner, DropLease, BoardOnly, TypeOK
<1>8. ASSUME NEW b \in Boards, RequestHostStop(b) PROVE TypeOK'
  BY <1>8, HostAssumption, MissTyped, TryWriteTyped, RecordWrites
  DEF RequestHostStop, BoardOnly, Write, Miss, TypeOK, Board, BoardPcs, Active, Terminal
<1>9. ASSUME NEW b \in Boards, Suspect(b) PROVE TypeOK'
  BY <1>9, HostAssumption, AtTyped DEF Suspect, BoardOnly, TypeOK, Board, BoardPcs, Record
<1>10. ASSUME NEW b \in Boards, Gate(b) PROVE TypeOK'
  BY <1>10, HostAssumption, AtTyped, LeaveTyped
  DEF Gate, LeaseFree, BoardOnly, TypeOK, Board, BoardPcs, Record
<1>11. ASSUME NEW b \in Boards, Revoke(b) PROVE TypeOK'
  BY <1>11, HostAssumption, AtTyped, MissTyped, TryWriteTyped, RecordWrites
  DEF Revoke, BoardOnly, Write, Miss, TypeOK, Board, BoardPcs, Active, Terminal
<1>12. ASSUME NEW b \in Boards, SignalRunner(b) PROVE TypeOK'
  <2>1. host.runner \in Runners
    BY <1>12, HostAssumption DEF SignalRunner, RunnerEnded, Dead, TypeOK, Record
  <2>2. runner' \in [Runners -> Runner]
    <3>1. Step(host.runner, "gone") \in [Runners -> Runner]
      BY <2>1, RunnerWrites DEF RunnerPcs, TypeOK
    <3> QED
      BY <1>12, <3>1 DEF SignalRunner, Step, TypeOK
  <2> QED
    BY <1>12, <2>1, <2>2 DEF SignalRunner, TypeOK
<1>13. ASSUME NEW b \in Boards, SignalAgent(b) PROVE TypeOK'
  BY <1>13, HostAssumption
  DEF SignalAgent, Watching, RunnerEnded, AgentEnded, Dead, TypeOK, Board, BoardPcs,
      Record
<1>14. ASSUME NEW b \in Boards, BothEnded(b) PROVE TypeOK'
  BY <1>14, HostAssumption, AtTyped
  DEF BothEnded, Watching, BoardOnly, TypeOK, Board, BoardPcs
<1>15. ASSUME NEW b \in Boards, GiveUp(b) PROVE TypeOK'
  BY <1>15, HostAssumption, LeaveTyped
  DEF GiveUp, LeaseFree, BoardOnly, TypeOK, Board, BoardPcs
<1>16. ASSUME NEW b \in Boards, FinalizeOld(b) PROVE TypeOK'
  BY <1>16, HostAssumption, AtTyped, LeaveTyped, MissTyped, RecordWrites
  DEF FinalizeOld, LeaseFree, Write, Miss, BoardOnly, TypeOK, Board, BoardPcs, Active,
      Terminal
<1>17. ASSUME NEW b \in Boards, ClaimReplacement(b) PROVE TypeOK'
  <2>1. host' \in Record /\ faults' \in 0..MaxFaults
    <3>1. host.inst < MaxInstances => host.inst + 1 \in Instances
      BY HostAssumption DEF TypeOK, Record, Instances
    <3>2. host.inst < MaxInstances => FreshClaim(host.inst + 1) \in Record
      BY <3>1, RecordWrites DEF TypeOK
    <3> QED
      BY <1>17, <3>2, MissTyped DEF ClaimReplacement, TypeOK
  <2>2. board' \in [Boards -> Board]
    BY <1>17, LeaveTyped DEF ClaimReplacement, TypeOK
  <2> QED
    BY <1>17, <2>1, <2>2 DEF ClaimReplacement, DropLease, BoardOnly, TypeOK
<1>18. ASSUME NEW b \in Boards, BoardDies(b) PROVE TypeOK'
  BY <1>18, HostAssumption, AtTyped DEF BoardDies, TypeOK, Board, BoardPcs
<1>19. ASSUME NEW r \in Runners, TakeLease(r) PROVE TypeOK'
  <2>1. runner' \in [Runners -> Runner]
    <3>1. Step(r, "bind") \in [Runners -> Runner]
      BY RunnerWrites DEF RunnerPcs, Whys, TypeOK
    <3>2. Step(r, "gone") \in [Runners -> Runner]
      BY RunnerWrites DEF RunnerPcs, Whys, TypeOK
    <3> QED
      BY <1>19, <3>1, <3>2 DEF TakeLease, Exit, TypeOK
  <2> QED
    BY <1>19, <2>1 DEF TakeLease, TypeOK
<1>20. ASSUME NEW r \in Runners, LeaseTimeout(r) PROVE TypeOK'
  BY <1>20, HostAssumption, RunnerWrites
  DEF LeaseTimeout, Is, LeaseFree, Exit, TypeOK, RunnerPcs, Whys
<1>21. ASSUME NEW r \in Runners, Bind(r) PROVE TypeOK'
  <2>1. runner' \in [Runners -> Runner]
    <3>1. Step(r, "publish") \in [Runners -> Runner]
      BY RunnerWrites DEF RunnerPcs, Whys, TypeOK
    <3>2. Step(r, "gone") \in [Runners -> Runner]
      BY RunnerWrites DEF RunnerPcs, Whys, TypeOK
    <3> QED
      BY <1>21, <3>1, <3>2 DEF Bind, Exit, TypeOK
  <2>2. endpoint' \in [Instances -> Runners \cup {None}]
    BY <1>21 DEF Bind, TypeOK
  <2> QED
    BY <1>21, <2>1, <2>2 DEF Bind, DropLease, TypeOK
<1>22. ASSUME NEW r \in Runners, PublishRunner(r) PROVE TypeOK'
  <2>1. host' \in Record /\ faults' \in 0..MaxFaults
    BY <1>22, RecordWrites, MissTyped DEF PublishRunner, Write, TypeOK
  <2>2. runner' \in [Runners -> Runner]
    <3>1. [runner EXCEPT ![r].pc = "start", ![r].claimed = TRUE] \in [Runners -> Runner]
      BY RunnerWrites DEF RunnerPcs, Whys, TypeOK
    <3>2. Step(r, "ready") \in [Runners -> Runner]
      BY RunnerWrites DEF RunnerPcs, Whys, TypeOK
    <3>3. [Finishing(r, "owner_lost") EXCEPT ![r].pc = "ready"] \in [Runners -> Runner]
      BY RunnerWrites DEF RunnerPcs, Whys, TypeOK
    <3> QED
      BY <1>22, <3>1, <3>2, <3>3 DEF PublishRunner, TypeOK
  <2>3. endpoint' \in [Instances -> Runners \cup {None}]
    BY <1>22, UnboundTyped DEF PublishRunner, TypeOK
  <2> QED
    BY <1>22, <2>1, <2>2, <2>3 DEF PublishRunner, TypeOK
<1>23. ASSUME NEW r \in Runners, StartAgent(r) PROVE TypeOK'
  BY <1>23, HostAssumption, RunnerWrites DEF StartAgent, Is, TypeOK, RunnerPcs, Whys
<1>24. ASSUME NEW r \in Runners, StartFails(r) PROVE TypeOK'
  BY <1>24, HostAssumption, MissTyped, RunnerWrites, TryWriteTyped, UnboundTyped,
     RecordWrites
  DEF StartFails, Is, Write, Miss, TypeOK, RunnerPcs, Whys, Active, Terminal
<1>25. ASSUME NEW r \in Runners, PublishReady(r) PROVE TypeOK'
  <2>1. host' \in Record /\ faults' \in 0..MaxFaults
    <3>1. [host EXCEPT !.state = "alive", !.ready = TRUE, !.agent = r] \in Record
      BY RecordWrites DEF TypeOK
    <3> QED
      BY <1>25, <3>1, MissTyped DEF PublishReady, Write, TypeOK
  <2>2. runner' \in [Runners -> Runner]
    <3>1. Step(r, "serve") \in [Runners -> Runner]
      BY RunnerWrites DEF RunnerPcs, Whys, TypeOK
    <3>2. Finishing(r, "stopped") \in [Runners -> Runner]
      BY RunnerWrites DEF RunnerPcs, Whys, TypeOK
    <3>3. Finishing(r, "owner_lost") \in [Runners -> Runner]
      BY RunnerWrites DEF RunnerPcs, Whys, TypeOK
    <3> QED
      BY <1>25, <3>1, <3>2, <3>3 DEF PublishReady, TypeOK
  <2>3. endpoint' \in [Instances -> Runners \cup {None}]
    BY <1>25, UnboundTyped DEF PublishReady, TypeOK
  <2> QED
    BY <1>25, <2>1, <2>2, <2>3 DEF PublishReady, DropLease, TypeOK
<1>26. ASSUME NEW r \in Runners, Heartbeat(r) PROVE TypeOK'
  BY <1>26, HostAssumption, FinishTyped, RecordWrites
  DEF Heartbeat, Is, Owner, TypeOK, RunnerPcs, Whys, Active, Terminal
<1>27. ASSUME NEW r \in Runners, AgentExits(r) PROVE TypeOK'
  BY <1>27, HostAssumption DEF AgentExits, TypeOK, RunnerPcs, Whys
<1>28. ASSUME NEW r \in Runners, NoticeExit(r) PROVE TypeOK'
  BY <1>28, HostAssumption, FinishTyped, RecordWrites
  DEF NoticeExit, TypeOK, RunnerPcs, Whys, Active, Terminal
<1>29. ASSUME NEW r \in Runners, OnSignal(r) PROVE TypeOK'
  BY <1>29, HostAssumption, FinishTyped, RecordWrites
  DEF OnSignal, TypeOK, RunnerPcs, Whys, Active, Terminal
<1>30. ASSUME NEW r \in Runners, Throw(r) PROVE TypeOK'
  <2>1. host' \in Record /\ faults' \in 0..MaxFaults
    BY <1>30, RecordWrites, TryWriteTyped DEF Throw, TypeOK, Active, Terminal
  <2>2. runner' \in [Runners -> Runner]
    BY <1>30, RunnerWrites DEF Throw, Whys, TypeOK
  <2>3. endpoint' \in [Instances -> Runners \cup {None}]
    BY <1>30, UnboundTyped DEF Throw, TypeOK
  <2>4. deaths' \in [boards : 0..MaxBoardDeaths, runners : 0..MaxRunnerDeaths]
    BY <1>30, HostAssumption DEF Throw, TypeOK
  <2> QED
    BY <1>30, <2>1, <2>2, <2>3, <2>4 DEF Throw, TypeOK
<1>31. ASSUME NEW r \in Runners, KillAgent(r) PROVE TypeOK'
  <2>1. runner' \in [Runners -> Runner]
    <3>1. [runner EXCEPT ![r].fin = "reap"] \in [Runners -> Runner]
      BY RunnerWrites DEF RunnerPcs, Whys, TypeOK
    <3> QED
      BY <1>31, <3>1 DEF KillAgent, TypeOK
  <2>2. agent' \in [Runners -> {"none", "runs", "gone"}]
    BY <1>31 DEF KillAgent, TypeOK
  <2> QED
    BY <1>31, <2>1, <2>2 DEF KillAgent, TypeOK
<1>32. ASSUME NEW r \in Runners, Conclude(r) PROVE TypeOK'
  BY <1>32, HostAssumption, MissTyped, RunnerWrites, TryWriteTyped, RecordWrites
  DEF Conclude, Exit, DropLease, Write, Miss, TypeOK, RunnerPcs, Whys, Active, Terminal
<1>33. ASSUME NEW r \in Runners, RunnerDies(r) PROVE TypeOK'
  <2>1. runner' \in [Runners -> Runner]
    BY <1>33, RunnerWrites DEF RunnerDies, Exit, RunnerPcs, TypeOK
  <2>2. deaths' \in [boards : 0..MaxBoardDeaths, runners : 0..MaxRunnerDeaths]
    BY <1>33, HostAssumption DEF RunnerDies, TypeOK
  <2> QED
    BY <1>33, <2>1, <2>2 DEF RunnerDies, TypeOK
<1>34. CASE UNCHANGED vars
  BY <1>34 DEF vars, TypeOK
<1> QED
  BY <1>1, <1>2, <1>3, <1>4, <1>5, <1>6, <1>7, <1>8, <1>9, <1>10, <1>11, <1>12, <1>13,
     <1>14, <1>15, <1>16, <1>17, <1>18, <1>19, <1>20, <1>21, <1>22, <1>23, <1>24, <1>25,
     <1>26, <1>27, <1>28, <1>29, <1>30, <1>31, <1>32, <1>33, <1>34
  DEF Next, Transaction, Run

----------------------------------------------------------------------------
(* Frames: what a step leaves alone.                                       *)

\* A runner keeps its instance once it is born, and is not born or revived but
\* by a board that spawns it.
Spawned(r) == \E b \in Boards : SpawnRunner(b) /\ runner'[r].pc = "boot"
                                /\ runner'[r].inst = board[b].inst /\ board'[b].made = r

LEMMA RunnerStep ==
  ASSUME Typed, [Next]_vars, NEW r \in Runners
  PROVE  \/ Spawned(r) /\ ~Born(r)
         \/ /\ IF Born(r) THEN Born(r)' ELSE runner'[r] = runner[r]
            /\ runner'[r].inst = runner[r].inst
            /\ Live(r)' => Live(r)
            /\ Started(r) => Started(r)'
<1> DEFINE Kept(s) == /\ IF Born(s) THEN Born(s)' ELSE runner'[s] = runner[s]
                      /\ runner'[s].inst = runner[s].inst
                      /\ Live(s)' => Live(s)
                      /\ Started(s) => Started(s)'
<1> USE DEF Typed, Born, Live, Started
<1>1. ASSUME UNCHANGED runner PROVE Kept(r)
  BY <1>1
<1>2. ASSUME NEW b \in Boards, Launch(b) \/ LockStart(b) \/ ClaimHost(b) \/ Adopt(b) \/
   SpawnFails(b) \/ RecordRunner(b) \/ RequestHostStop(b) \/ Suspect(b) \/ Gate(b) \/
   Revoke(b) \/ SignalAgent(b) \/ BothEnded(b) \/ GiveUp(b) \/ FinalizeOld(b) \/
   ClaimReplacement(b) \/ BoardDies(b) PROVE UNCHANGED runner
  BY <1>2 DEF Launch, LockStart, ClaimHost, Adopt, SpawnFails, RecordRunner,
     RequestHostStop, Suspect, Gate, Revoke, SignalAgent, BothEnded, GiveUp,
     FinalizeOld, ClaimReplacement, BoardDies, BoardOnly
<1>3. ASSUME NEW b \in Boards, SpawnRunner(b) PROVE (Spawned(r) /\ ~Born(r)) \/ Kept(r)
  <2>1. PICK s \in Runners :
           /\ runner[s].pc = "unborn"
           /\ runner' = [runner EXCEPT ![s].pc = "boot", ![s].inst = board[b].inst]
           /\ board' = [board EXCEPT ![b].pc = "record", ![b].made = s]
    BY <1>3 DEF SpawnRunner
  <2>2. CASE r = s
    <3>1. runner'[r].pc = "boot" /\ runner'[r].inst = board[b].inst /\ board'[b].made = r
      BY <2>1, <2>2 DEF TypeOK, Runner, Board
    <3> QED
      BY <1>3, <2>1, <2>2, <3>1 DEF Spawned
  <2>3. CASE r # s
    BY <2>1, <2>3 DEF TypeOK
  <2> QED
    BY <2>2, <2>3
<1>4. ASSUME NEW b \in Boards, SignalRunner(b) PROVE Kept(r)
  <2>1. host.runner \in Runners /\ Live(host.runner)
    BY <1>4, HostAssumption DEF SignalRunner, RunnerEnded, Dead, TypeOK, Record, Placed
  <2>2. runner' = runner \/ runner' = [runner EXCEPT ![host.runner].pc = "gone"]
    BY <1>4 DEF SignalRunner
  <2> QED
    BY <2>1, <2>2 DEF TypeOK, Runner
<1>5. ASSUME NEW s \in Runners, TakeLease(s) PROVE Kept(r)
  BY <1>5 DEF TakeLease, Is, Step, Exit, TypeOK, Runner
<1>6. ASSUME NEW s \in Runners, LeaseTimeout(s) PROVE Kept(r)
  BY <1>6 DEF LeaseTimeout, Is, Exit, Step, TypeOK, Runner
<1>7. ASSUME NEW s \in Runners, Bind(s) PROVE Kept(r)
  BY <1>7 DEF Bind, Is, Step, Exit, TypeOK, Runner
<1>8. ASSUME NEW s \in Runners, PublishRunner(s) PROVE Kept(r)
  BY <1>8 DEF PublishRunner, Is, Step, Finishing, TypeOK, Runner
<1>9. ASSUME NEW s \in Runners, StartAgent(s) PROVE Kept(r)
  BY <1>9 DEF StartAgent, Is, Step, TypeOK, Runner
<1>10. ASSUME NEW s \in Runners, StartFails(s) PROVE Kept(r)
  BY <1>10 DEF StartFails, Is, Finishing, TypeOK, Runner
<1>11. ASSUME NEW s \in Runners, PublishReady(s) PROVE Kept(r)
  BY <1>11 DEF PublishReady, Is, Step, Finishing, TypeOK, Runner
<1>12. ASSUME NEW s \in Runners, Heartbeat(s) PROVE Kept(r)
  <2>1. runner' = Finishing(s, "owner_lost") \/ runner' = Finishing(s, "stopped")
    BY <1>12 DEF Heartbeat, Finish
  <2> QED
    BY <1>12, <2>1 DEF Heartbeat, Is, Finishing, TypeOK, Runner
<1>13. ASSUME NEW s \in Runners, AgentExits(s) PROVE Kept(r)
  BY <1>13 DEF AgentExits, TypeOK, Runner
<1>14. ASSUME NEW s \in Runners, NoticeExit(s) PROVE Kept(r)
  BY <1>14 DEF NoticeExit, Finish, Finishing, TypeOK, Runner
<1>15. ASSUME NEW s \in Runners, OnSignal(s) PROVE Kept(r)
  BY <1>15 DEF OnSignal, Finish, Finishing, TypeOK, Runner
<1>16. ASSUME NEW s \in Runners, Throw(s) PROVE Kept(r)
  BY <1>16 DEF Throw, Finishing, TypeOK, Runner
<1>17. ASSUME NEW s \in Runners, KillAgent(s) PROVE Kept(r)
  BY <1>17 DEF KillAgent, TypeOK, Runner, Placed
<1>18. ASSUME NEW s \in Runners, Conclude(s) PROVE Kept(r)
  BY <1>18 DEF Conclude, Exit, Step, TypeOK, Runner, Placed
<1>19. ASSUME NEW s \in Runners, RunnerDies(s) PROVE Kept(r)
  BY <1>19 DEF RunnerDies, Exit, Step, TypeOK, Runner
<1> QED
  BY <1>1, <1>2, <1>3, <1>4, <1>5, <1>6, <1>7, <1>8, <1>9, <1>10, <1>11, <1>12, <1>13,
     <1>14, <1>15, <1>16, <1>17, <1>18, <1>19 DEF Next, Transaction, Run, vars

\* The record changes hands only when a host is claimed, recorded, published or
\* finalized; nothing else makes it one that waits for its runner.
SameHost == /\ host'.inst = host.inst /\ host'.runner = host.runner
            /\ Unspawned' => Unspawned
Claims(b) == /\ ClaimHost(b) \/ ClaimReplacement(b)
             /\ host' = FreshClaim(host.inst + 1)
Records(b) == /\ RecordRunner(b)
              /\ host' = [host EXCEPT !.runner = board[b].made, !.spawned = TRUE]
Finalizes(b) == /\ FinalizeOld(b)
                /\ host' = [host EXCEPT !.state = "exited", !.spawned = FALSE,
                                        !.runner = None, !.agent = None]
Publishes(r) == PublishRunner(r) /\ host' = Published(r)

LEMMA NextInstance ==
  ASSUME Typed
  PROVE  LET next == FreshClaim(host.inst + 1)
         IN  /\ next.inst = host.inst + 1 /\ next.inst # host.inst /\ next.runner = None
             /\ next.state = "starting" /\ ~next.spawned
<1>1. host.inst \in Nat
  BY HostAssumption DEF Typed, TypeOK, Record
<1> QED
  BY <1>1 DEF FreshClaim, NoHost

LEMMA HostStep ==
  ASSUME Typed, [Next]_vars
  PROVE  \/ SameHost
         \/ \E b \in Boards : Claims(b) \/ Records(b) \/ Finalizes(b)
         \/ \E r \in Runners : Publishes(r)
<1> USE DEF Typed
<1>1. UNCHANGED host => SameHost
  BY DEF SameHost, Unspawned
<1>2. ASSUME NEW b \in Boards,
            Launch(b) \/ LockStart(b) \/ Adopt(b) \/ SpawnRunner(b) \/ Suspect(b) \/
               Gate(b) \/ SignalRunner(b) \/ SignalAgent(b) \/ BothEnded(b) \/ GiveUp(b)
               \/ BoardDies(b)
      PROVE  SameHost
  BY <1>1, <1>2 DEF Launch, LockStart, Adopt, SpawnRunner, Suspect, Gate, SignalRunner,
     SignalAgent, BothEnded, GiveUp, BoardDies, BoardOnly
<1>3. ASSUME NEW r \in Runners,
            TakeLease(r) \/ LeaseTimeout(r) \/ Bind(r) \/ StartAgent(r) \/ AgentExits(r)
               \/ KillAgent(r) \/ RunnerDies(r)
      PROVE  SameHost
  BY <1>1, <1>3 DEF TakeLease, LeaseTimeout, Bind, StartAgent, AgentExits, KillAgent,
     RunnerDies
<1>4. ASSUME NEW b \in Boards, ClaimHost(b) PROVE SameHost \/ Claims(b)
  BY <1>4 DEF ClaimHost, Claims, Miss, SameHost, Unspawned
<1>5. ASSUME NEW b \in Boards, SpawnFails(b) PROVE SameHost
  BY <1>5 DEF SpawnFails, TryWrite, Write, Miss, SameHost, Unspawned, TypeOK, Record,
     Active, Terminal
<1>6. ASSUME NEW b \in Boards, RecordRunner(b) PROVE SameHost \/ Records(b)
  BY <1>6 DEF RecordRunner, Records, TryWrite, Write, Miss, SameHost, Unspawned
<1>7. ASSUME NEW b \in Boards, RequestHostStop(b) PROVE SameHost
  BY <1>7 DEF RequestHostStop, TryWrite, StopRequested, Write, Miss, SameHost,
     Unspawned, TypeOK, Record, Active, Terminal
<1>8. ASSUME NEW b \in Boards, Revoke(b) PROVE SameHost
  BY <1>8 DEF Revoke, TryWrite, StopRequested, Write, Miss, SameHost, Unspawned, TypeOK,
     Record, Active, Terminal
<1>9. ASSUME NEW b \in Boards, FinalizeOld(b) PROVE SameHost \/ Finalizes(b)
  BY <1>9 DEF FinalizeOld, Finalizes, Write, Miss, SameHost, Unspawned
<1>10. ASSUME NEW b \in Boards, ClaimReplacement(b) PROVE SameHost \/ Claims(b)
  BY <1>10 DEF ClaimReplacement, Claims, Miss, SameHost, Unspawned
<1>11. ASSUME NEW r \in Runners, PublishRunner(r) PROVE SameHost \/ Publishes(r)
  BY <1>11 DEF PublishRunner, Publishes, Write, Miss, SameHost, Unspawned
<1>12. ASSUME NEW r \in Runners, StartFails(r) PROVE SameHost
  BY <1>12 DEF StartFails, TryWrite, Stopping, Write, Miss, SameHost, Unspawned, TypeOK,
     Record, Active, Terminal
<1>13. ASSUME NEW r \in Runners, PublishReady(r) PROVE SameHost
  BY <1>13 DEF PublishReady, Write, Miss, SameHost, Unspawned, TypeOK, Record, Active,
     Terminal
<1>14. ASSUME NEW r \in Runners, Heartbeat(r) PROVE SameHost
  BY <1>14 DEF Heartbeat, Finish, Stopping, TryWrite, Write, Miss, SameHost, Unspawned,
     TypeOK, Record, Active, Terminal
<1>15. ASSUME NEW r \in Runners, NoticeExit(r) PROVE SameHost
  BY <1>15 DEF NoticeExit, Finish, Stopping, TryWrite, Write, Miss, SameHost, Unspawned,
     TypeOK, Record, Active, Terminal
<1>16. ASSUME NEW r \in Runners, OnSignal(r) PROVE SameHost
  BY <1>16 DEF OnSignal, Finish, Stopping, TryWrite, Write, Miss, SameHost, Unspawned,
     TypeOK, Record, Active, Terminal
<1>17. ASSUME NEW r \in Runners, Throw(r) PROVE SameHost
  BY <1>17 DEF Throw, TryWrite, Write, Miss, SameHost, Unspawned, TypeOK, Record,
     Active, Terminal
<1>18. ASSUME NEW r \in Runners, Conclude(r) PROVE SameHost
  <2>1. \/ UNCHANGED host
        \/ \E s \in Terminal :
              host' = [host EXCEPT !.state = s, !.ready = FALSE, !.stop = FALSE]
    BY <1>18 DEF Conclude, TryWrite, Write, Miss, Terminal
  <2> QED
    BY <1>1, <2>1 DEF SameHost, Unspawned, TypeOK, Record, Terminal
<1> QED
  BY <1>1, <1>2, <1>3, <1>4, <1>5, <1>6, <1>7, <1>8, <1>9, <1>10, <1>11, <1>12, <1>13,
     <1>14, <1>15, <1>16, <1>17, <1>18 DEF Next, Transaction, Run, vars

\* A runner binds a free endpoint of its own instance, or gives up its own.
LEMMA EndpointStep ==
  ASSUME Typed, [Next]_vars
  PROVE  \/ \E r \in Runners : /\ Live(r)
                               /\ endpoint[runner[r].inst] = None
                               /\ runner'[r].pc = "publish"
                               /\ endpoint' = [endpoint EXCEPT ![runner[r].inst] = r]
         \/ \E r \in Runners : Live(r) /\ runner'[r].fin # "no" /\ endpoint' = Unbound(r)
         \/ UNCHANGED endpoint
<1> USE DEF Typed, Born, Live
<1>1. ASSUME NEW b \in Boards,
            Launch(b) \/ LockStart(b) \/ ClaimHost(b) \/ Adopt(b) \/ SpawnRunner(b) \/
               SpawnFails(b) \/ RecordRunner(b) \/ RequestHostStop(b) \/ Suspect(b) \/
               Gate(b) \/ Revoke(b) \/ SignalRunner(b) \/ SignalAgent(b) \/ BothEnded(b)
               \/ GiveUp(b) \/ FinalizeOld(b) \/ ClaimReplacement(b) \/ BoardDies(b)
      PROVE  UNCHANGED endpoint
  BY <1>1 DEF Launch, LockStart, ClaimHost, Adopt, SpawnRunner, SpawnFails,
     RecordRunner, RequestHostStop, Suspect, Gate, Revoke, SignalRunner, SignalAgent,
     BothEnded, GiveUp, FinalizeOld, ClaimReplacement, BoardDies, BoardOnly
<1>2. ASSUME NEW r \in Runners,
            TakeLease(r) \/ LeaseTimeout(r) \/ StartAgent(r) \/ AgentExits(r) \/
               KillAgent(r) \/ Conclude(r) \/ RunnerDies(r)
      PROVE  UNCHANGED endpoint
  BY <1>2 DEF TakeLease, LeaseTimeout, StartAgent, AgentExits, KillAgent, Conclude,
     RunnerDies
<1>3. ASSUME NEW r \in Runners, Bind(r)
      PROVE  \/ /\ Live(r) /\ endpoint[runner[r].inst] = None
                /\ runner'[r].pc = "publish"
                /\ endpoint' = [endpoint EXCEPT ![runner[r].inst] = r]
             \/ UNCHANGED endpoint
  BY <1>3 DEF Bind, Step, Is, TypeOK, Runner
<1>4. ASSUME NEW r \in Runners, PublishRunner(r)
      PROVE  \/ Live(r) /\ runner'[r].fin # "no" /\ endpoint' = Unbound(r)
             \/ UNCHANGED endpoint
  BY <1>4 DEF PublishRunner, Is, Finishing, TypeOK, Runner
<1>5. ASSUME NEW r \in Runners, StartFails(r)
      PROVE  \/ Live(r) /\ runner'[r].fin # "no" /\ endpoint' = Unbound(r)
             \/ UNCHANGED endpoint
  BY <1>5 DEF StartFails, Is, Finishing, TypeOK, Runner
<1>6. ASSUME NEW r \in Runners, PublishReady(r)
      PROVE  \/ Live(r) /\ runner'[r].fin # "no" /\ endpoint' = Unbound(r)
             \/ UNCHANGED endpoint
  BY <1>6 DEF PublishReady, Is, Finishing, TypeOK, Runner
<1>7. ASSUME NEW r \in Runners, Heartbeat(r)
      PROVE  \/ Live(r) /\ runner'[r].fin # "no" /\ endpoint' = Unbound(r)
             \/ UNCHANGED endpoint
  BY <1>7 DEF Heartbeat, Is, Finish, Finishing, TypeOK, Runner
<1>8. ASSUME NEW r \in Runners, NoticeExit(r)
      PROVE  \/ Live(r) /\ runner'[r].fin # "no" /\ endpoint' = Unbound(r)
             \/ UNCHANGED endpoint
  BY <1>8 DEF NoticeExit, Finish, Finishing, TypeOK, Runner
<1>9. ASSUME NEW r \in Runners, OnSignal(r)
      PROVE  \/ Live(r) /\ runner'[r].fin # "no" /\ endpoint' = Unbound(r)
             \/ UNCHANGED endpoint
  BY <1>9 DEF OnSignal, Finish, Finishing, TypeOK, Runner
<1>10. ASSUME NEW r \in Runners, Throw(r)
      PROVE  \/ Live(r) /\ runner'[r].fin # "no" /\ endpoint' = Unbound(r)
             \/ UNCHANGED endpoint
  BY <1>10 DEF Throw, Finishing, TypeOK, Runner
<1> QED
  BY <1>1, <1>2, <1>3, <1>4, <1>5, <1>6, <1>7, <1>8, <1>9, <1>10 DEF Next, Transaction,
     Run, vars

\* How a board moves.
LEMMA BoardStep ==
  ASSUME Typed, [Next]_vars, NEW b \in Boards
  PROVE  \/ board'[b] = board[b]
         \/ /\ board'[b].pc \in {"idle", "lock", "claim", "dead"} /\ board'[b].inst = 0
            /\ board'[b].pc = "claim" => LockStart(b)
            /\ board'[b].pc = "dead" => BoardDies(b)
            /\ board[b].pc = "record" => RecordRunner(b) \/ BoardDies(b)
         \/ Claims(b) /\ board'[b].pc = "spawn" /\ board'[b].inst = host.inst + 1
         \/ Adopt(b) /\ board'[b].pc = "spawn" /\ board'[b].inst = host.inst
         \/ /\ SpawnRunner(b) /\ board'[b].pc = "record" /\ board'[b].inst = board[b].inst
            /\ board'[b].made \in Runners /\ Spawned(board'[b].made)
         \/ Suspect(b) /\ board'[b].pc = "gate" /\ board'[b].inst = host.inst
         \/ Gate(b) /\ board'[b].pc = "revoke" /\ board'[b].inst = host.inst
         \/ Revoke(b) /\ board'[b].pc = "watch" /\ board'[b].inst = board[b].inst
         \/ BothEnded(b) /\ board'[b].pc = "reclaim" /\ board'[b].inst = board[b].inst
         \/ Finalizes(b) /\ board'[b].pc = "replace" /\ board'[b].inst = host.inst
<1> DEFINE Moved(c) ==
         \/ board'[c] = board[c]
         \/ /\ board'[c].pc \in {"idle", "lock", "claim", "dead"} /\ board'[c].inst = 0
            /\ board'[c].pc = "claim" => LockStart(c)
            /\ board'[c].pc = "dead" => BoardDies(c)
            /\ board[c].pc = "record" => RecordRunner(c) \/ BoardDies(c)
         \/ Claims(c) /\ board'[c].pc = "spawn" /\ board'[c].inst = host.inst + 1
         \/ Adopt(c) /\ board'[c].pc = "spawn" /\ board'[c].inst = host.inst
         \/ /\ SpawnRunner(c) /\ board'[c].pc = "record" /\ board'[c].inst = board[c].inst
            /\ board'[c].made \in Runners /\ Spawned(board'[c].made)
         \/ Suspect(c) /\ board'[c].pc = "gate" /\ board'[c].inst = host.inst
         \/ Gate(c) /\ board'[c].pc = "revoke" /\ board'[c].inst = host.inst
         \/ Revoke(c) /\ board'[c].pc = "watch" /\ board'[c].inst = board[c].inst
         \/ BothEnded(c) /\ board'[c].pc = "reclaim" /\ board'[c].inst = board[c].inst
         \/ Finalizes(c) /\ board'[c].pc = "replace" /\ board'[c].inst = host.inst
<1> USE DEF Typed
<1>1. ASSUME NEW c \in Boards, RequestHostStop(c) \/ SignalRunner(c) \/ SignalAgent(c)
      PROVE  UNCHANGED board
  BY <1>1 DEF RequestHostStop, SignalRunner, SignalAgent
<1>2. ASSUME NEW r \in Runners,
            TakeLease(r) \/ LeaseTimeout(r) \/ Bind(r) \/ PublishRunner(r) \/
               StartAgent(r) \/ StartFails(r) \/ PublishReady(r) \/ Heartbeat(r) \/
               AgentExits(r) \/ NoticeExit(r) \/ OnSignal(r) \/ Throw(r) \/ KillAgent(r)
               \/ Conclude(r) \/ RunnerDies(r)
      PROVE  UNCHANGED board
  BY <1>2 DEF TakeLease, LeaseTimeout, Bind, PublishRunner, StartAgent, StartFails,
     PublishReady, Heartbeat, AgentExits, NoticeExit, OnSignal, Throw, KillAgent,
     Conclude, RunnerDies
<1>3. ASSUME NEW c \in Boards, SpawnRunner(c) PROVE Moved(b)
  <2>1. PICK r \in Runners :
           /\ runner[r].pc = "unborn"
           /\ runner' = [runner EXCEPT ![r].pc = "boot", ![r].inst = board[c].inst]
           /\ board' = [board EXCEPT ![c].pc = "record", ![c].made = r]
    BY <1>3 DEF SpawnRunner
  <2>2. CASE b = c
    <3>1. /\ board'[b].pc = "record" /\ board'[b].inst = board[b].inst /\ board'[b].made = r
          /\ runner'[r].pc = "boot" /\ runner'[r].inst = board[b].inst
      BY <2>1, <2>2 DEF TypeOK, Board, Runner
    <3> QED
      BY <1>3, <2>2, <3>1 DEF Spawned
  <2>3. CASE b # c
    BY <2>1, <2>3 DEF TypeOK
  <2> QED
    BY <2>2, <2>3
<1>4. ASSUME NEW c \in Boards, Launch(c) PROVE Moved(b)
  BY <1>4 DEF Launch, At, TypeOK, Board
<1>5. ASSUME NEW c \in Boards, LockStart(c) PROVE Moved(b)
  BY <1>5 DEF At, Leave, LockStart, TypeOK, Board
<1>6. ASSUME NEW c \in Boards, ClaimHost(c) PROVE Moved(b)
  BY <1>6 DEF ClaimHost, At, Leave, Claims, TypeOK, Board
<1>7. ASSUME NEW c \in Boards, Adopt(c) PROVE Moved(b)
  BY <1>7 DEF Adopt, At, TypeOK, Board
<1>8. ASSUME NEW c \in Boards, SpawnFails(c) PROVE Moved(b)
  BY <1>8 DEF SpawnFails, At, Leave, TypeOK, Board
<1>9. ASSUME NEW c \in Boards, RecordRunner(c) PROVE Moved(b)
  BY <1>9 DEF RecordRunner, At, Leave, TypeOK, Board
<1>10. ASSUME NEW c \in Boards, Suspect(c) PROVE Moved(b)
  BY <1>10 DEF Suspect, At, TypeOK, Board
<1>11. ASSUME NEW c \in Boards, Gate(c) PROVE Moved(b)
  BY <1>11 DEF Gate, At, Leave, TypeOK, Board
<1>12. ASSUME NEW c \in Boards, Revoke(c) PROVE Moved(b)
  BY <1>12 DEF Revoke, At, TypeOK, Board
<1>13. ASSUME NEW c \in Boards, BothEnded(c) PROVE Moved(b)
  BY <1>13 DEF BothEnded, At, TypeOK, Board
<1>14. ASSUME NEW c \in Boards, GiveUp(c) PROVE Moved(b)
  BY <1>14 DEF GiveUp, At, Leave, TypeOK, Board
<1>15. ASSUME NEW c \in Boards, FinalizeOld(c) PROVE Moved(b)
  BY <1>15 DEF FinalizeOld, At, Leave, Finalizes, Write, TypeOK, Board
<1>16. ASSUME NEW c \in Boards, ClaimReplacement(c) PROVE Moved(b)
  BY <1>16 DEF ClaimReplacement, At, Leave, Claims, TypeOK, Board
<1>17. ASSUME NEW c \in Boards, BoardDies(c) PROVE Moved(b)
  BY <1>17 DEF BoardDies, At, TypeOK, Board
<1> QED
  BY <1>1, <1>2, <1>3, <1>4, <1>5, <1>6, <1>7, <1>8, <1>9, <1>10, <1>11, <1>12, <1>13,
     <1>14, <1>15, <1>16, <1>17 DEF Next, Transaction, Run, vars

LEMMA PlacedStep ==
  ASSUME Typed, [Next]_vars PROVE Placed'
<1> USE DEF Typed
<1>1. \A r \in Runners : /\ Born(r) => Born(r)'
                         /\ IF Born(r)' THEN runner'[r].inst \in Instances
                            ELSE runner'[r].fin = "no"
  <2> TAKE r \in Runners
  <2>1. CASE Spawned(r)
    BY <2>1 DEF Spawned, SpawnRunner, Placed, Born
  <2>2. CASE ~Spawned(r)
    BY <2>2, RunnerStep DEF Placed, Born
  <2> QED
    BY <2>1, <2>2
<1>2. (host.runner # None => Born(host.runner))'
  <2>1. host.runner \in Runners \cup {None}
    BY DEF TypeOK, Record
  <2>2. CASE SameHost
    BY <1>1, <2>1, <2>2 DEF SameHost, Placed, Born
  <2>3. CASE \E b \in Boards : Claims(b) \/ Records(b) \/ Finalizes(b)
    <3>1. PICK b \in Boards : Claims(b) \/ Records(b) \/ Finalizes(b)
      BY <2>3
    <3>2. CASE Claims(b) \/ Finalizes(b)
      BY <3>2 DEF Claims, Finalizes, FreshClaim, NoHost, TypeOK, Record
    <3>3. CASE Records(b)
      <4>1. board[b].made \in Runners /\ Born(board[b].made)
        BY <3>3 DEF Records, RecordRunner, Placed
      <4>2. host'.runner = board[b].made
        BY <3>3 DEF Records, TypeOK, Record
      <4> QED
        BY <1>1, <4>1, <4>2 DEF Born
    <3> QED
      BY <3>1, <3>2, <3>3
  <2>4. CASE \E r \in Runners : Publishes(r)
    <3>1. PICK r \in Runners : Publishes(r)
      BY <2>4
    <3>2. Born(r) /\ host'.runner = r
      BY <3>1 DEF Publishes, PublishRunner, Is, Born, Published, TypeOK, Record
    <3> QED
      BY <1>1, <3>2 DEF Born
  <2> QED
    BY <2>2, <2>3, <2>4, HostStep
<1>3. ASSUME NEW b \in Boards
      PROVE  (/\ board[b].pc \notin {"idle", "lock", "claim", "dead"} =>
                    board[b].inst \in Instances
              /\ board[b].pc = "record" => board[b].made \in Runners /\ Born(board[b].made))'
  <2>1. board'[b] = board[b] /\ board[b].pc = "record" => Born(board[b].made)'
    BY <1>1 DEF Placed, Born
  <2>2. host.inst \in Nat /\ (host.inst # 0 => host.inst \in Instances)
    BY HostAssumption DEF TypeOK, Record, Instances
  <2>3. ASSUME Claims(b), board'[b].pc = "spawn" PROVE host.inst + 1 \in Instances
    <3>1. ClaimHost(b) /\ board[b].pc = "claim"
      BY <2>3 DEF Claims, ClaimHost, ClaimReplacement, Leave, At, TypeOK, Board
    <3>2. host.inst < MaxInstances
      BY <2>3, <3>1, <2>2
      DEF Claims, ClaimHost, FreshClaim, NoHost, TypeOK, Record, Leave, At, Board
    <3> QED
      BY <2>2, <3>2, HostAssumption DEF Instances
  <2>4. ASSUME Spawned(board'[b].made), board'[b].made \in Runners
        PROVE  Born(board[b].made)'
    BY <2>4 DEF Spawned, Born
  <2>5. (Adopt(b) => host.inst # 0) /\ (Suspect(b) => host.inst # 0)
    BY DEF Adopt, Suspect
  <2>6. ASSUME Gate(b) \/ Revoke(b) \/ BothEnded(b) \/ SpawnRunner(b) \/ Finalizes(b)
        PROVE  board[b].inst \in Instances
    BY <2>6
    DEF Gate, Revoke, BothEnded, Watching, SpawnRunner, Finalizes, FinalizeOld, Placed
  <2>7. (Gate(b) /\ board'[b].pc = "revoke") \/ Finalizes(b) => host.inst = board[b].inst
    BY DEF Gate, Finalizes, FinalizeOld, Leave, At, TypeOK, Board
  <2> QED
    BY BoardStep, <2>1, <2>2, <2>3, <2>4, <2>5, <2>6, <2>7 DEF Placed
<1> QED
  BY <1>1, <1>2, <1>3 DEF Placed

LEMMA TypedInit == Init => Typed
  BY HostAssumption
  DEF Init, Typed, TypeOK, Placed, NoHost, Record, Board, Runner, Active, Terminal,
      Instances, Born

LEMMA TypedStep ==
  ASSUME Typed, [Next]_vars PROVE Typed'
  BY TypeStep, PlacedStep DEF Typed

----------------------------------------------------------------------------
(* Whoever serves is behind its endpoint.                                  *)

\* A runner that is past its bind and has not finished took that step earlier, or
\* now and found the endpoint free.
LEMMA BoundStep ==
  ASSUME Typed, [Next]_vars, NEW r \in Runners, Bound(r)'
  PROVE  Bound(r) \/ (endpoint[runner[r].inst] = None
                      /\ endpoint' = [endpoint EXCEPT ![runner[r].inst] = r])
<1> USE DEF Typed, Bound
<1>1. ASSUME NEW b \in Boards,
            Launch(b) \/ LockStart(b) \/ ClaimHost(b) \/ Adopt(b) \/ SpawnFails(b) \/
               RecordRunner(b) \/ RequestHostStop(b) \/ Suspect(b) \/ Gate(b) \/
               Revoke(b) \/ SignalAgent(b) \/ BothEnded(b) \/ GiveUp(b) \/
               FinalizeOld(b) \/ ClaimReplacement(b) \/ BoardDies(b)
      PROVE  UNCHANGED runner
  BY <1>1 DEF Launch, LockStart, ClaimHost, Adopt, SpawnFails, RecordRunner,
     RequestHostStop, Suspect, Gate, Revoke, SignalAgent, BothEnded, GiveUp,
     FinalizeOld, ClaimReplacement, BoardDies, BoardOnly
<1>2. ASSUME NEW b \in Boards, SpawnRunner(b) PROVE Bound(r)
  BY <1>2 DEF SpawnRunner, TypeOK, Runner
<1>3. ASSUME NEW b \in Boards, SignalRunner(b) PROVE Bound(r)
  BY <1>3 DEF SignalRunner, RunnerEnded, Dead, TypeOK, Runner
<1>4. ASSUME NEW s \in Runners, TakeLease(s) PROVE Bound(r)
  BY <1>4 DEF TakeLease, Is, Step, Exit, TypeOK, Runner
<1>5. ASSUME NEW s \in Runners, LeaseTimeout(s) PROVE Bound(r)
  BY <1>5 DEF LeaseTimeout, Is, Exit, Step, TypeOK, Runner
<1>6. ASSUME NEW s \in Runners, Bind(s)
      PROVE  Bound(r) \/ (endpoint[runner[r].inst] = None
                          /\ endpoint' = [endpoint EXCEPT ![runner[r].inst] = r])
  BY <1>6 DEF Bind, Is, Step, Exit, TypeOK, Runner
<1>7. ASSUME NEW s \in Runners, PublishRunner(s) PROVE Bound(r)
  <2>1. /\ runner[s].pc = "publish"
        /\ \/ runner' = [runner EXCEPT ![s].pc = "start", ![s].claimed = TRUE]
           \/ runner' = Step(s, "ready") /\ runner[s].fin # "no"
           \/ runner' = [Finishing(s, "owner_lost") EXCEPT ![s].pc = "ready"]
    BY <1>7 DEF PublishRunner, Is
  <2>2. CASE runner' = [runner EXCEPT ![s].pc = "start", ![s].claimed = TRUE]
    BY <2>1, <2>2 DEF TypeOK, Runner
  <2>3. CASE runner' = Step(s, "ready") /\ runner[s].fin # "no"
    BY <2>1, <2>3 DEF Step, TypeOK, Runner
  <2>4. CASE runner' = [Finishing(s, "owner_lost") EXCEPT ![s].pc = "ready"]
    BY <2>1, <2>4 DEF Finishing, TypeOK, Runner
  <2> QED
    BY <2>1, <2>2, <2>3, <2>4
<1>8. ASSUME NEW s \in Runners, StartAgent(s) PROVE Bound(r)
  BY <1>8 DEF StartAgent, Is, Step, TypeOK, Runner
<1>9. ASSUME NEW s \in Runners, StartFails(s) PROVE Bound(r)
  BY <1>9 DEF StartFails, Is, Finishing, TypeOK, Runner
<1>10. ASSUME NEW s \in Runners, PublishReady(s) PROVE Bound(r)
  BY <1>10 DEF PublishReady, Is, Step, Finishing, TypeOK, Runner
<1>11. ASSUME NEW s \in Runners, Heartbeat(s) PROVE Bound(r)
  BY <1>11 DEF Heartbeat, Is, Finish, Finishing, TypeOK, Runner
<1>12. ASSUME NEW s \in Runners, AgentExits(s) PROVE Bound(r)
  BY <1>12 DEF AgentExits, TypeOK, Runner
<1>13. ASSUME NEW s \in Runners, NoticeExit(s) PROVE Bound(r)
  BY <1>13 DEF NoticeExit, Finish, Finishing, TypeOK, Runner
<1>14. ASSUME NEW s \in Runners, OnSignal(s) PROVE Bound(r)
  BY <1>14 DEF OnSignal, Finish, Finishing, TypeOK, Runner
<1>15. ASSUME NEW s \in Runners, Throw(s) PROVE Bound(r)
  BY <1>15 DEF Throw, Finishing, TypeOK, Runner
<1>16. ASSUME NEW s \in Runners, KillAgent(s) PROVE Bound(r)
  BY <1>16 DEF KillAgent, TypeOK, Runner
<1>17. ASSUME NEW s \in Runners, Conclude(s) PROVE Bound(r)
  BY <1>17 DEF Conclude, Exit, Step, TypeOK, Runner
<1>18. ASSUME NEW s \in Runners, RunnerDies(s) PROVE Bound(r)
  BY <1>18 DEF RunnerDies, Exit, Step, TypeOK, Runner
<1> QED
  BY <1>1, <1>2, <1>3, <1>4, <1>5, <1>6, <1>7, <1>8, <1>9, <1>10, <1>11, <1>12, <1>13,
     <1>14, <1>15, <1>16, <1>17, <1>18 DEF Next, Transaction, Run, vars

LEMMA AgentStep ==
  ASSUME Typed, [Next]_vars, NEW r \in Runners, agent'[r] = "runs"
  PROVE  agent[r] = "runs" \/ Started(r)'
<1> USE DEF Typed
<1>1. ASSUME NEW b \in Boards,
            Launch(b) \/ LockStart(b) \/ ClaimHost(b) \/ Adopt(b) \/ SpawnRunner(b) \/
               SpawnFails(b) \/ RecordRunner(b) \/ RequestHostStop(b) \/ Suspect(b) \/
               Gate(b) \/ Revoke(b) \/ SignalRunner(b) \/ BothEnded(b) \/ GiveUp(b) \/
               FinalizeOld(b) \/ ClaimReplacement(b) \/ BoardDies(b)
      PROVE  UNCHANGED agent
  BY <1>1 DEF Launch, LockStart, ClaimHost, Adopt, SpawnRunner, SpawnFails,
     RecordRunner, RequestHostStop, Suspect, Gate, Revoke, SignalRunner, BothEnded,
     GiveUp, FinalizeOld, ClaimReplacement, BoardDies, BoardOnly
<1>2. ASSUME NEW s \in Runners,
            TakeLease(s) \/ LeaseTimeout(s) \/ Bind(s) \/ PublishRunner(s) \/
               StartFails(s) \/ PublishReady(s) \/ Heartbeat(s) \/ NoticeExit(s) \/
               OnSignal(s) \/ Throw(s) \/ Conclude(s) \/ RunnerDies(s)
      PROVE  UNCHANGED agent
  BY <1>2 DEF TakeLease, LeaseTimeout, Bind, PublishRunner, StartFails, PublishReady,
     Heartbeat, NoticeExit, OnSignal, Throw, Conclude, RunnerDies
<1>3. ASSUME NEW b \in Boards, SignalAgent(b) PROVE agent[r] = "runs"
  BY <1>3 DEF SignalAgent, TypeOK
<1>4. ASSUME NEW s \in Runners, StartAgent(s) PROVE agent[r] = "runs" \/ Started(r)'
  BY <1>4 DEF StartAgent, Step, Started, TypeOK
<1>5. ASSUME NEW s \in Runners, AgentExits(s) PROVE agent[r] = "runs"
  BY <1>5 DEF AgentExits, TypeOK
<1>6. ASSUME NEW s \in Runners, KillAgent(s) PROVE agent[r] = "runs"
  BY <1>6 DEF KillAgent, TypeOK
<1> QED
  BY <1>1, <1>2, <1>3, <1>4, <1>5, <1>6 DEF Next, Transaction, Run, vars

LEMMA EndpointInvariantStep ==
  ASSUME Typed, EndpointInvariant, [Next]_vars
  PROVE  EndpointInvariant'
<1>1. ASSUME NEW r \in Runners, Bound(r)' PROVE (endpoint[runner[r].inst] = r)'
  <2>1. CASE Bound(r)
    <3>1. /\ endpoint[runner[r].inst] = r /\ Born(r)
          /\ runner[r].inst \in Instances /\ runner'[r].inst = runner[r].inst
      BY <2>1, RunnerStep DEF EndpointInvariant, Bound, Born, Typed, Placed
    <3> QED
      BY <1>1, <2>1, <3>1, EndpointStep, HostAssumption
      DEF Unbound, Bound, Typed, TypeOK
  <2>2. CASE /\ endpoint[runner[r].inst] = None
             /\ endpoint' = [endpoint EXCEPT ![runner[r].inst] = r]
    <3>1. Born(r) /\ runner'[r].inst = runner[r].inst
      BY <1>1, <2>2, RunnerStep DEF Bound, Born, Spawned
    <3> QED
      BY <2>2, <3>1 DEF Typed, TypeOK, Placed
  <2> QED
    BY <1>1, <2>1, <2>2, BoundStep
<1>2. ASSUME NEW r \in Runners, agent'[r] = "runs" PROVE Started(r)'
  <2>1. CASE agent[r] = "runs"
    BY <2>1, RunnerStep DEF EndpointInvariant, Started, Born
  <2> QED
    BY <1>2, <2>1, AgentStep
<1> QED
  BY <1>1, <1>2 DEF EndpointInvariant

LEMMA BasicInvariance == Spec => [](Typed /\ EndpointInvariant)
<1>1. Init => Typed /\ EndpointInvariant
  BY TypedInit DEF Init, EndpointInvariant, Bound
<1>2. Typed /\ EndpointInvariant /\ [Next]_vars => (Typed /\ EndpointInvariant)'
  BY TypedStep, EndpointInvariantStep
<1> QED
  BY <1>1, <1>2, PTL DEF Spec

\* Whatever the boards and the runners do, the record, the lease, the endpoints and
\* the processes have their types.
THEOREM TypeCorrect == Spec => []TypeOK
<1>1. Typed => TypeOK
  BY DEF Typed
<1> QED
  BY <1>1, BasicInvariance, PTL

\* A runner that serves is the one behind the endpoint of its instance: neither a
\* duplicate that fails to bind nor one that finishes takes it away (server.listen
\* and the unlink of a finish in runner/pty-runner.mjs).
THEOREM ServesItsEndpoint == Spec => []Served
<1>1. EndpointInvariant => Served
  BY DEF EndpointInvariant, Served, Bound
<1> QED
  BY <1>1, BasicInvariance, PTL

\* No two runners of one instance keep an agent, whoever died and whatever failed.
OneAgentPerInstance ==
    \A r, s \in Runners : Keeps(r) /\ Keeps(s) /\ runner[r].inst = runner[s].inst => r = s

THEOREM KeptOncePerInstance == Spec => []OneAgentPerInstance
<1>1. EndpointInvariant => OneAgentPerInstance
  BY DEF EndpointInvariant, OneAgentPerInstance, Bound, Started, Keeps
<1> QED
  BY <1>1, BasicInvariance, PTL

\* Only what ends a host or claims the next one takes a request to stop back.
StopKept == host.stop /\ host'.inst = host.inst => host'.stop \/ host'.state \in Terminal

LEMMA StopStep ==
  ASSUME Typed, [Next]_vars PROVE StopKept
<1> USE DEF Typed
<1>1. UNCHANGED host => StopKept
  BY DEF StopKept
<1>2. ASSUME NEW b \in Boards,
            Launch(b) \/ LockStart(b) \/ Adopt(b) \/ SpawnRunner(b) \/ Suspect(b) \/
               Gate(b) \/ SignalRunner(b) \/ SignalAgent(b) \/ BothEnded(b) \/ GiveUp(b)
               \/ BoardDies(b)
      PROVE  StopKept
  BY <1>1, <1>2 DEF Launch, LockStart, Adopt, SpawnRunner, Suspect, Gate, SignalRunner,
     SignalAgent, BothEnded, GiveUp, BoardDies, BoardOnly
<1>3. ASSUME NEW r \in Runners,
            TakeLease(r) \/ LeaseTimeout(r) \/ Bind(r) \/ StartAgent(r) \/ AgentExits(r)
               \/ KillAgent(r) \/ RunnerDies(r)
      PROVE  StopKept
  BY <1>1, <1>3 DEF TakeLease, LeaseTimeout, Bind, StartAgent, AgentExits, KillAgent,
     RunnerDies
<1>4. ASSUME NEW b \in Boards, ClaimHost(b) PROVE StopKept
  BY <1>1, <1>4, NextInstance DEF ClaimHost, Miss, StopKept
<1>5. ASSUME NEW b \in Boards, SpawnFails(b) PROVE StopKept
  BY <1>1, <1>5 DEF SpawnFails, TryWrite, Write, Miss, StopKept, TypeOK, Record,
     Terminal
<1>6. ASSUME NEW b \in Boards, RecordRunner(b) PROVE StopKept
  BY <1>1, <1>6 DEF RecordRunner, TryWrite, Write, Miss, StopKept, TypeOK, Record,
     Terminal
<1>7. ASSUME NEW b \in Boards, RequestHostStop(b) PROVE StopKept
  BY <1>1, <1>7 DEF RequestHostStop, TryWrite, StopRequested, Write, Miss, StopKept,
     TypeOK, Record, Terminal
<1>8. ASSUME NEW b \in Boards, Revoke(b) PROVE StopKept
  BY <1>1, <1>8 DEF Revoke, TryWrite, StopRequested, Write, Miss, StopKept, TypeOK,
     Record, Terminal
<1>9. ASSUME NEW b \in Boards, FinalizeOld(b) PROVE StopKept
  BY <1>1, <1>9 DEF FinalizeOld, Write, Miss, StopKept, TypeOK, Record, Terminal
<1>10. ASSUME NEW b \in Boards, ClaimReplacement(b) PROVE StopKept
  BY <1>1, <1>10, NextInstance DEF ClaimReplacement, Miss, StopKept
<1>11. ASSUME NEW r \in Runners, PublishRunner(r) PROVE StopKept
  BY <1>1, <1>11 DEF PublishRunner, Write, Published, Miss, StopKept, TypeOK, Record,
     Terminal
<1>12. ASSUME NEW r \in Runners, StartFails(r) PROVE StopKept
  BY <1>1, <1>12 DEF StartFails, TryWrite, Stopping, Write, Miss, StopKept, TypeOK,
     Record, Terminal
<1>13. ASSUME NEW r \in Runners, PublishReady(r) PROVE StopKept
  BY <1>1, <1>13 DEF PublishReady, Write, Miss, StopKept, TypeOK, Record, Terminal
<1>14. ASSUME NEW r \in Runners, Heartbeat(r) PROVE StopKept
  BY <1>1, <1>14 DEF Heartbeat, Finish, Stopping, TryWrite, Write, Miss, StopKept,
     TypeOK, Record, Terminal
<1>15. ASSUME NEW r \in Runners, NoticeExit(r) PROVE StopKept
  BY <1>1, <1>15 DEF NoticeExit, Finish, Stopping, TryWrite, Write, Miss, StopKept,
     TypeOK, Record, Terminal
<1>16. ASSUME NEW r \in Runners, OnSignal(r) PROVE StopKept
  BY <1>1, <1>16 DEF OnSignal, Finish, Stopping, TryWrite, Write, Miss, StopKept,
     TypeOK, Record, Terminal
<1>17. ASSUME NEW r \in Runners, Throw(r) PROVE StopKept
  BY <1>1, <1>17 DEF Throw, TryWrite, Write, Miss, StopKept, TypeOK, Record, Terminal
<1>18. ASSUME NEW r \in Runners, Conclude(r) PROVE StopKept
  BY <1>1, <1>18 DEF Conclude, TryWrite, Write, Miss, StopKept, TypeOK, Record, Terminal
<1> QED
  BY <1>1, <1>2, <1>3, <1>4, <1>5, <1>6, <1>7, <1>8, <1>9, <1>10, <1>11, <1>12, <1>13,
     <1>14, <1>15, <1>16, <1>17, <1>18 DEF Next, Transaction, Run, vars

\* A request to stop a host stays in its record until the host is over, whatever the
\* runner writes about itself meanwhile (updateOwnedHost, publish and ready writes).
THEOREM StopSticks == Spec => RevokeSticks
<1>1. Typed /\ [Next]_vars => [StopKept]_host
  BY StopStep
<1> QED
  BY <1>1, BasicInvariance, PTL DEF Spec, RevokeSticks, StopKept

----------------------------------------------------------------------------
(* One agent, and no replacement before the end, while nobody who holds    *)
(* the host-start lease dies and no write stays contended.                 *)

\* Without contention a write is refused only by another instance.
LEMMA NoFault ==
  ASSUME Typed, MaxFaults = 0
  PROVE  \A i : Miss(i) => host.inst # i /\ UNCHANGED host
  BY DEF Miss, Typed, TypeOK

\* The lease keeps the holders apart, and it is free only when nobody holds it.
LEMMA Holders ==
  ASSUME Typed, LeaseInvariant
  PROVE  /\ LeaseFree => \A b \in Boards : board[b].pc \notin Holding
         /\ \A b, c \in Boards : board[b].pc \in Holding /\ board[c].pc \in Holding => b = c
  BY HostAssumption DEF LeaseInvariant, LeaseFree, Dead

\* The lease is taken when it is free, and let go by whoever held it.
LEMMA LeaseStep ==
  ASSUME Typed, [Next]_vars
  PROVE  \/ lease' = lease \/ LeaseFree
         \/ \E r \in Runners : DropLease(r)
         \/ \E b \in Boards : DropLease(b) /\ board'[b].pc = "idle"
<1> USE DEF Typed
<1>1. ASSUME NEW b \in Boards,
            Launch(b) \/ SpawnRunner(b) \/ RequestHostStop(b) \/ Suspect(b) \/ Gate(b)
               \/ Revoke(b) \/ SignalRunner(b) \/ SignalAgent(b) \/ BothEnded(b) \/
               GiveUp(b) \/ BoardDies(b)
      PROVE  UNCHANGED lease
  BY <1>1 DEF Launch, SpawnRunner, RequestHostStop, Suspect, Gate, Revoke, SignalRunner,
     SignalAgent, BothEnded, GiveUp, BoardDies, BoardOnly
<1>2. ASSUME NEW s \in Runners,
            LeaseTimeout(s) \/ PublishRunner(s) \/ StartAgent(s) \/ StartFails(s) \/
               Heartbeat(s) \/ AgentExits(s) \/ NoticeExit(s) \/ OnSignal(s) \/ Throw(s)
               \/ KillAgent(s) \/ RunnerDies(s)
      PROVE  UNCHANGED lease
  BY <1>2 DEF LeaseTimeout, PublishRunner, StartAgent, StartFails, Heartbeat,
     AgentExits, NoticeExit, OnSignal, Throw, KillAgent, RunnerDies
<1>3. ASSUME NEW b \in Boards, LockStart(b)
      PROVE  lease' = lease \/ LeaseFree \/ (DropLease(b) /\ board'[b].pc = "idle")
  BY <1>3 DEF LockStart, Leave, At, TypeOK, Board
<1>4. ASSUME NEW b \in Boards, ClaimHost(b)
      PROVE  lease' = lease \/ LeaseFree \/ (DropLease(b) /\ board'[b].pc = "idle")
  BY <1>4 DEF ClaimHost, Leave, At, TypeOK, Board
<1>5. ASSUME NEW b \in Boards, Adopt(b)
      PROVE  lease' = lease \/ LeaseFree \/ (DropLease(b) /\ board'[b].pc = "idle")
  BY <1>5 DEF Adopt, Leave, At, TypeOK, Board
<1>6. ASSUME NEW b \in Boards, SpawnFails(b)
      PROVE  lease' = lease \/ LeaseFree \/ (DropLease(b) /\ board'[b].pc = "idle")
  BY <1>6 DEF SpawnFails, Leave, At, TypeOK, Board
<1>7. ASSUME NEW b \in Boards, RecordRunner(b)
      PROVE  lease' = lease \/ LeaseFree \/ (DropLease(b) /\ board'[b].pc = "idle")
  BY <1>7 DEF RecordRunner, Leave, At, TypeOK, Board
<1>8. ASSUME NEW b \in Boards, FinalizeOld(b)
      PROVE  lease' = lease \/ LeaseFree \/ (DropLease(b) /\ board'[b].pc = "idle")
  BY <1>8 DEF FinalizeOld, Leave, At, TypeOK, Board
<1>9. ASSUME NEW b \in Boards, ClaimReplacement(b)
      PROVE  lease' = lease \/ LeaseFree \/ (DropLease(b) /\ board'[b].pc = "idle")
  BY <1>9 DEF ClaimReplacement, Leave, At, TypeOK, Board
<1>10. ASSUME NEW r \in Runners, TakeLease(r)
      PROVE  lease' = lease \/ LeaseFree \/ DropLease(r)
  BY <1>10 DEF TakeLease
<1>11. ASSUME NEW r \in Runners, Bind(r)
      PROVE  lease' = lease \/ LeaseFree \/ DropLease(r)
  BY <1>11 DEF Bind
<1>12. ASSUME NEW r \in Runners, PublishReady(r)
      PROVE  lease' = lease \/ LeaseFree \/ DropLease(r)
  BY <1>12 DEF PublishReady
<1>13. ASSUME NEW r \in Runners, Conclude(r)
      PROVE  lease' = lease \/ LeaseFree \/ DropLease(r)
  BY <1>13 DEF Conclude
<1> QED
  BY <1>1, <1>2, <1>3, <1>4, <1>5, <1>6, <1>7, <1>8, <1>9, <1>10, <1>11, <1>12, <1>13
     DEF Next, Transaction, Run, vars

LEMMA LeaseInvariantStep ==
  ASSUME MaxBoardDeaths = 0, MaxFaults = 0, Typed, LeaseInvariant, [Next]_vars
  PROVE  LeaseInvariant'
<1>1. Typed'
  BY TypedStep
<1>2. (deaths.boards = 0 /\ faults = 0)'
  BY <1>1 DEF Typed, TypeOK
<1>3. ASSUME NEW b \in Boards PROVE board'[b].pc # "dead"
  <2>1. board[b].pc # "dead" /\ ~BoardDies(b)
    BY DEF LeaseInvariant, BoardDies
  <2> QED
    BY <2>1, BoardStep
<1>4. ASSUME NEW b \in Boards, board'[b].pc \in Holding PROVE lease' = b
  <2>1. CASE board'[b] = board[b]
    <3>1. lease = b /\ ~LeaseFree
      BY <1>4, <2>1, Holders DEF LeaseInvariant
    <3>2. ~DropLease(b) \/ board'[b].pc # "idle"
      BY <1>4 DEF Holding
    <3> QED
      BY <1>4, <3>1, LeaseStep, HostAssumption DEF DropLease, Holding
  <2>2. CASE board'[b].pc = "claim" /\ LockStart(b)
    BY <2>2 DEF LockStart, Leave, At, Typed, TypeOK, Board
  <2>3. CASE Claims(b) /\ board'[b].pc = "spawn"
    BY <2>3 DEF Claims, ClaimHost, ClaimReplacement, Leave, At, Typed, TypeOK, Board,
       LeaseInvariant, Holding
  <2>4. CASE Adopt(b)
    BY <2>4 DEF Adopt
  <2>5. CASE SpawnRunner(b)
    BY <2>5 DEF SpawnRunner, LeaseInvariant, Holding
  <2>6. CASE Finalizes(b) /\ board'[b].pc = "replace"
    BY <2>6 DEF Finalizes, FinalizeOld, Leave, At, Typed, TypeOK, Board
  <2> QED
    BY <1>4, <2>1, <2>2, <2>3, <2>4, <2>5, <2>6, BoardStep DEF Holding
<1> QED
  BY <1>2, <1>3, <1>4 DEF LeaseInvariant

\* What the invariants say of one step: instances follow each other, a spawned runner
\* is the first of its instance and about to be recorded, and who is recorded stays.
LEMMA RunnersAndBoards ==
  ASSUME MaxBoardDeaths = 0, MaxFaults = 0, Typed, ReplaceInvariant, [Next]_vars
  PROVE  /\ \/ host'.inst = host.inst
            \/ host'.inst = host.inst + 1 /\ \E b \in Boards : Claims(b)
         /\ \A r \in Runners :
               Spawned(r) => /\ ~Born(r) /\ runner'[r].inst = host.inst
                             /\ NoneBorn(host.inst) /\ Recording(r)'
                             /\ \A b \in Boards : ~Claims(b) /\ ~Finalizes(b)
                             /\ \A s \in Runners : Spawned(s) => r = s
         /\ \A b \in Boards :
               board[b].pc = "record" => \/ board'[b] = board[b]
                                         \/ Records(b) /\ host'.runner = board[b].made
                                                       /\ host'.spawned
<1> USE DEF Typed
<1>0. Typed'
  BY TypedStep
<1>1. \/ host'.inst = host.inst
      \/ host'.inst = host.inst + 1 /\ \E b \in Boards : Claims(b)
  BY HostStep, NextInstance
  DEF SameHost, Claims, Records, Finalizes, Publishes, Published, TypeOK, Record
<1>2. ASSUME NEW r \in Runners, Spawned(r)
      PROVE  /\ ~Born(r) /\ runner'[r].inst = host.inst
             /\ NoneBorn(host.inst) /\ Recording(r)'
             /\ \A b \in Boards : ~Claims(b) /\ ~Finalizes(b)
             /\ \A s \in Runners : Spawned(s) => r = s
  <2>1. PICK b \in Boards : SpawnRunner(b) /\ runner'[r].pc = "boot"
                            /\ runner'[r].inst = board[b].inst /\ board'[b].made = r
    BY <1>2 DEF Spawned
  <2>2. board[b].pc = "spawn" /\ board[b].inst = host.inst /\ NoneBorn(host.inst)
    BY <2>1 DEF SpawnRunner, ReplaceInvariant, BoardInvariant, BoardAt
  <2>3. board'[b].pc = "record"
    BY <2>1 DEF SpawnRunner, TypeOK, Board
  <2>4. ~Born(r)
    BY <1>2, RunnerStep, <2>1, <2>2 DEF NoneBorn, Born
  <2>5. ASSUME NEW c \in Boards, board[c].pc \in Holding PROVE c = b
    BY <2>2, <2>5, Holders DEF Holding, ReplaceInvariant
  <2>6. ASSUME NEW c \in Boards PROVE ~Claims(c) /\ ~Finalizes(c)
    BY <2>2, <2>5, Holders
    DEF Claims, ClaimHost, ClaimReplacement, Finalizes, FinalizeOld, Holding,
        ReplaceInvariant
  <2>7. ASSUME NEW s \in Runners, Spawned(s) PROVE r = s
    BY <2>1, <2>5, <2>7 DEF Spawned, SpawnRunner, Holding
  <2> QED
    BY <2>1, <2>2, <2>3, <2>4, <2>6, <2>7 DEF Recording
<1>3. ASSUME NEW b \in Boards, board[b].pc = "record"
      PROVE  \/ board'[b] = board[b]
             \/ Records(b) /\ host'.runner = board[b].made /\ host'.spawned
  <2>1. ~BoardDies(b)
    BY DEF ReplaceInvariant, LeaseInvariant, BoardDies
  <2>2. board[b].inst = host.inst
    BY <1>3 DEF ReplaceInvariant, BoardInvariant, BoardAt
  <2>3. RecordRunner(b) => Records(b)
    BY <2>2, NoFault DEF RecordRunner, Records, TryWrite, Write
  <2>4. Records(b) => host'.runner = board[b].made /\ host'.spawned
    BY <1>3 DEF Records, Placed, TypeOK, Record
  <2>5. board'[b] = board[b] \/ RecordRunner(b)
    BY <1>3, <2>1, BoardStep
    DEF Claims, ClaimHost, ClaimReplacement, Adopt, SpawnRunner, Suspect, Gate, Revoke,
        BothEnded, Watching, Finalizes, FinalizeOld
  <2> QED
    BY <2>3, <2>4, <2>5
<1> QED
  BY <1>1, <1>2, <1>3

LEMMA RunnerInvariantStep ==
  ASSUME MaxBoardDeaths = 0, MaxFaults = 0, Typed, ReplaceInvariant, [Next]_vars
  PROVE  RunnerInvariant'
<1> USE DEF Typed
<1>0. host.inst \in Nat /\ host'.inst \in Nat
  BY TypedStep, HostAssumption DEF TypeOK, Record
<1>1. ASSUME NEW r \in Runners
      PROVE  Born(r)' => runner'[r].inst <= host.inst
  <2>1. runner[r].inst \in Nat
    BY HostAssumption DEF TypeOK, Runner
  <2> QED
    BY <1>0, <2>1, RunnerStep, RunnersAndBoards
    DEF ReplaceInvariant, RunnerInvariant, Born
<1>2. ASSUME NEW r \in Runners, Live(r)'
      PROVE  runner'[r].inst = host'.inst /\ (host'.runner = r \/ Recording(r)')
  <2>1. CASE Spawned(r)
    BY <2>1, RunnersAndBoards
  <2>2. CASE ~Spawned(r)
    <3>1. Live(r) /\ runner'[r].inst = runner[r].inst
      BY <1>2, <2>2, RunnerStep
    <3>2. runner[r].inst = host.inst /\ (host.runner = r \/ Recording(r))
      BY <3>1 DEF ReplaceInvariant, RunnerInvariant
    <3>3. Recording(r) => Recording(r)' \/ host'.runner = r
      BY RunnersAndBoards DEF Recording
    <3>4. CASE SameHost
      BY <3>1, <3>2, <3>3, <3>4 DEF SameHost
    <3>5. ASSUME NEW b \in Boards, Claims(b) \/ Finalizes(b) PROVE FALSE
      <4>1. CASE board[b].pc = "claim"
        <5>1. RunnerEnded
          BY <3>5, <4>1, NextInstance
          DEF Claims, ClaimHost, ClaimReplacement, Replaceable, Miss, Finalizes,
              FinalizeOld
        <5>2. host.runner # r
          BY <3>1, <5>1 DEF RunnerEnded, Dead, Live
        <5>3. ~Recording(r)
          BY <4>1, Holders DEF Recording, Holding, ReplaceInvariant
        <5> QED
          BY <3>2, <5>2, <5>3
      <4>2. CASE board[b].pc # "claim"
        <5>1. NoneLive
          BY <3>5, <4>2
          DEF Claims, ClaimHost, ClaimReplacement, Finalizes, FinalizeOld,
              ReplaceInvariant, BoardInvariant, BoardAt
        <5> QED
          BY <3>1, <5>1 DEF NoneLive
      <4> QED
        BY <4>1, <4>2
    <3>6. ASSUME NEW b \in Boards, Records(b)
          PROVE  host'.inst = host.inst /\ host'.runner = r
      <4>1. /\ board[b].made \in Runners /\ Born(board[b].made)
            /\ runner[board[b].made].inst = host.inst
        BY <3>6
        DEF Records, RecordRunner, Placed, ReplaceInvariant, BoardInvariant, BoardAt
      <4>2. board[b].made = r
        BY <3>1, <3>2, <4>1 DEF Live, ReplaceInvariant, RunnerInvariant
      <4> QED
        BY <3>6, <4>2 DEF Records, TypeOK, Record
    <3>7. ASSUME NEW s \in Runners, Publishes(s)
          PROVE  host'.inst = host.inst /\ host'.runner = r
      <4>1. Born(s) /\ host'.inst = host.inst /\ host'.runner = s
        BY <3>7 DEF Publishes, PublishRunner, Is, Born, Published, TypeOK, Record
      <4>2. Live(s)
        BY <3>7 DEF Publishes, PublishRunner, Is, Born, Live
      <4>3. s = r
        BY <3>1, <3>2, <4>2 DEF Live, ReplaceInvariant, RunnerInvariant
      <4> QED
        BY <4>1, <4>3
    <3> QED
      BY <3>1, <3>2, <3>4, <3>5, <3>6, <3>7, HostStep
  <2> QED
    BY <2>1, <2>2
<1>3. ASSUME NEW r \in Runners, Born(r)', runner'[r].inst = host'.inst, Unspawned'
      PROVE  Recording(r)'
  <2>1. CASE Spawned(r)
    BY <2>1, RunnersAndBoards
  <2>2. CASE ~Spawned(r)
    <3>1. Born(r) /\ runner'[r].inst = runner[r].inst /\ runner[r].inst <= host.inst
      BY <1>3, <2>2, RunnerStep DEF ReplaceInvariant, RunnerInvariant, Born
    <3>2. host'.inst = host.inst
      BY <1>0, <1>3, <3>1, RunnersAndBoards
    <3>3. \A b \in Boards : ~Claims(b) /\ ~Records(b) /\ ~Finalizes(b)
      BY <1>0, <1>3, <3>2, NextInstance
      DEF Claims, Records, Finalizes, Unspawned, TypeOK, Record
    <3>4. \A s \in Runners : ~Publishes(s)
      BY <1>3 DEF Publishes, Published, Unspawned, TypeOK, Record
    <3>5. Unspawned
      BY <1>3, <3>3, <3>4, HostStep DEF SameHost
    <3>6. Recording(r)
      BY <1>3, <3>1, <3>2, <3>5 DEF ReplaceInvariant, RunnerInvariant
    <3> QED
      BY <3>3, <3>6, RunnersAndBoards DEF Recording
  <2> QED
    BY <2>1, <2>2
<1>4. ASSUME NEW r \in Runners, NEW s \in Runners, Born(r)', Born(s)',
             runner'[r].inst = runner'[s].inst
      PROVE  r = s
  <2>1. ASSUME NEW q \in Runners, Born(q)', ~Spawned(q)
        PROVE  Born(q) /\ runner'[q].inst = runner[q].inst
    BY <2>1, RunnerStep DEF Born
  <2>2. CASE Spawned(r) /\ Spawned(s)
    BY <2>2, RunnersAndBoards
  <2>3. CASE Spawned(r) /\ ~Spawned(s)
    BY <1>4, <2>1, <2>3, RunnersAndBoards DEF NoneBorn
  <2>4. CASE ~Spawned(r) /\ Spawned(s)
    BY <1>4, <2>1, <2>4, RunnersAndBoards DEF NoneBorn
  <2>5. CASE ~Spawned(r) /\ ~Spawned(s)
    BY <1>4, <2>1, <2>5 DEF ReplaceInvariant, RunnerInvariant
  <2> QED
    BY <2>2, <2>3, <2>4, <2>5
<1>5. ASSUME NEW i \in Instances, endpoint'[i] # None
      PROVE  Born(endpoint[i])' /\ runner'[endpoint'[i]].inst = i
  <2>1. ASSUME NEW r \in Runners, Born(r), runner[r].inst = i
        PROVE  Born(r)' /\ runner'[r].inst = i
    BY <2>1, RunnerStep DEF Born
  <2>2. endpoint[i] \in Runners \cup {None}
    BY DEF TypeOK
  <2>3. endpoint[i] # None => Born(endpoint[i]) /\ runner[endpoint[i]].inst = i
    BY DEF ReplaceInvariant, RunnerInvariant
  <2>4. \/ endpoint'[i] = endpoint[i]
        \/ \E r \in Runners : Live(r) /\ runner[r].inst = i /\ endpoint'[i] = r
    BY <1>5, EndpointStep DEF Unbound, TypeOK
  <2> QED
    BY <1>5, <2>1, <2>2, <2>3, <2>4 DEF Live, Born
<1>6. ASSUME NEW r \in Runners, Born(r)' PROVE runner'[r].inst <= host'.inst
  <2>1. runner'[r].inst \in Nat
    BY TypedStep, HostAssumption DEF TypeOK, Runner
  <2> QED
    BY <1>0, <1>1, <1>6, <2>1, RunnersAndBoards
<1> QED
  BY <1>2, <1>3, <1>4, <1>5, <1>6 DEF RunnerInvariant

LEMMA BoardInvariantStep ==
  ASSUME MaxBoardDeaths = 0, MaxFaults = 0, Typed, ReplaceInvariant, [Next]_vars
  PROVE  BoardInvariant'
<1> USE DEF Typed
<1>0. host.inst \in Nat /\ host'.inst \in Nat
  BY TypedStep, HostAssumption DEF TypeOK, Record
<1>1. \A b \in Boards : BoardAt(b) /\ board[b].inst \in Nat
  BY HostAssumption DEF ReplaceInvariant, BoardInvariant, TypeOK, Board
<1>2. ASSUME NEW r \in Runners, ~Spawned(r)
      PROVE  /\ Born(r)' <=> Born(r)
             /\ runner'[r].inst = runner[r].inst
             /\ Live(r)' => Live(r)
  BY <1>2, RunnerStep DEF Born
<1>3. ASSUME NEW b \in Boards, board[b].pc \in Holding, board'[b] = board[b]
      PROVE  host'.inst = host.inst /\ \A r \in Runners : ~Spawned(r)
  <2>1. ASSUME NEW c \in Boards, Claims(c) PROVE FALSE
    <3>1. c = b
      BY <1>3, <2>1, Holders
      DEF Claims, ClaimHost, ClaimReplacement, Holding, ReplaceInvariant
    <3>2. ClaimHost(b) \/ ClaimReplacement(b)
      BY <2>1, <3>1 DEF Claims
    <3> QED
      BY <1>3, <3>2 DEF ClaimHost, ClaimReplacement, Leave, At, TypeOK, Board
  <2>2. ASSUME NEW c \in Boards, SpawnRunner(c) PROVE FALSE
    <3>1. c = b
      BY <1>3, <2>2, Holders DEF SpawnRunner, Holding, ReplaceInvariant
    <3>2. board[b].pc = "spawn" /\ SpawnRunner(b)
      BY <2>2, <3>1 DEF SpawnRunner
    <3>3. board'[b].pc = "record"
      BY <3>2 DEF SpawnRunner, TypeOK, Board
    <3> QED
      BY <1>3, <3>2, <3>3
  <2> QED
    BY <2>1, <2>2, RunnersAndBoards DEF Spawned
<1>4. host'.inst = host.inst /\ Unspawned' => Unspawned
  <2>1. \A b \in Boards : Unspawned' /\ host'.inst = host.inst =>
                             ~Claims(b) /\ ~Records(b) /\ ~Finalizes(b)
    BY NextInstance DEF Claims, Records, Finalizes, Unspawned, TypeOK, Record
  <2>2. \A r \in Runners : Unspawned' => ~Publishes(r)
    BY DEF Publishes, Published, Unspawned, TypeOK, Record
  <2> QED
    BY <2>1, <2>2, HostStep DEF SameHost
<1>5. ASSUME host'.inst = host.inst, ~Unspawned, \A c \in Boards : Idle(c)
      PROVE  /\ \A c \in Boards : Idle(c)'
             /\ \A r \in Runners : ~Spawned(r)
             /\ NoneLive => NoneLive'
  <2>1. \A c \in Boards : ~SpawnRunner(c) /\ ~Adopt(c)
    BY <1>5 DEF SpawnRunner, Adopt, Idle, Unspawned
  <2>2. \A c \in Boards : ~Claims(c)
    BY <1>0, <1>5, NextInstance DEF Claims
  <2>3. \A c \in Boards : Idle(c)'
    BY <1>5, <2>1, <2>2, BoardStep DEF Idle
  <2>4. \A r \in Runners : ~Spawned(r)
    BY <2>1 DEF Spawned
  <2> QED
    BY <1>2, <2>3, <2>4 DEF NoneLive
<1>6. ASSUME LeaseFree
      PROVE  /\ host'.inst = host.inst
             /\ \A c \in Boards : Idle(c)
             /\ \A r \in Runners : ~Spawned(r)
  <2>1. \A c \in Boards : board[c].pc \notin Holding
    BY <1>6, Holders DEF ReplaceInvariant
  <2> QED
    BY <2>1, RunnersAndBoards
    DEF Holding, Claims, ClaimHost, ClaimReplacement, Spawned, SpawnRunner, Idle
<1>7. ASSUME \A c \in Boards : Idle(c)
      PROVE  /\ Unspawned => NoneBorn(host.inst)
             /\ RunnerEnded => NoneLive
  <2>1. \A r \in Runners : ~Recording(r)
    BY <1>7 DEF Recording, Idle
  <2> QED
    BY <2>1
    DEF ReplaceInvariant, RunnerInvariant, NoneBorn, NoneLive, RunnerEnded, Dead, Live
<1>8. ASSUME NEW b \in Boards PROVE BoardAt(b)'
  <2>1. CASE board'[b] = board[b]
    <3>1. board'[b].inst <= host'.inst
      BY <1>0, <1>1, <2>1, RunnersAndBoards DEF BoardAt
    <3>2. ASSUME board[b].pc = "spawn"
          PROVE  (board[b].inst = host.inst /\ NoneBorn(host.inst))'
      BY <1>1, <1>2, <1>3, <2>1, <3>2 DEF BoardAt, Holding, NoneBorn
    <3>3. ASSUME board[b].pc = "record"
          PROVE  (board[b].inst = host.inst /\ runner[board[b].made].inst = host.inst)'
      BY <1>1, <1>2, <1>3, <2>1, <3>3 DEF BoardAt, Holding, Placed
    <3>4. ASSUME board[b].pc = "replace" PROVE (board[b].inst = host.inst /\ NoneLive)'
      BY <1>1, <1>2, <1>3, <2>1, <3>4 DEF BoardAt, Holding, NoneLive
    <3>5. ASSUME board'[b].inst = host'.inst PROVE host'.inst = host.inst
      BY <1>0, <1>1, <2>1, <3>5, RunnersAndBoards DEF BoardAt
    <3>6. ASSUME board'[b].inst = host'.inst, board[b].pc = "gate", Unspawned'
          PROVE  ~NoneBorn(host.inst)'
      <4>1. ~NoneBorn(host.inst)
        BY <1>1, <1>4, <2>1, <3>5, <3>6 DEF BoardAt
      <4> QED
        BY <3>5, <3>6, <4>1, RunnerStep DEF NoneBorn, Born
    <3>7. ASSUME board'[b].inst = host'.inst, board[b].pc \in {"revoke", "watch", "reclaim"}
          PROVE  /\ ~Unspawned' /\ \A c \in Boards : Idle(c)'
                 /\ board[b].pc = "reclaim" => NoneLive'
      BY <1>1, <1>4, <1>5, <2>1, <3>5, <3>7 DEF BoardAt
    <3> QED
      BY <2>1, <3>1, <3>2, <3>3, <3>4, <3>6, <3>7 DEF BoardAt
  <2>2. CASE board'[b].pc \in {"idle", "lock", "claim", "dead"} /\ board'[b].inst = 0
    BY <1>0, <2>2 DEF BoardAt
  <2>3. CASE Claims(b) /\ board'[b].pc = "spawn" /\ board'[b].inst = host.inst + 1
    <3>1. host'.inst = host.inst + 1
      BY <2>3, NextInstance DEF Claims
    <3>2. \A r \in Runners : ~Spawned(r)
      BY <2>3, RunnersAndBoards
    <3>3. ASSUME NEW r \in Runners, Born(r)' PROVE runner'[r].inst # host'.inst
      <4>1. Born(r) /\ runner'[r].inst = runner[r].inst /\ runner[r].inst <= host.inst
        BY <1>2, <3>2, <3>3 DEF ReplaceInvariant, RunnerInvariant
      <4> QED
        BY <1>0, <3>1, <4>1
    <3> QED
      BY <1>0, <2>3, <3>1, <3>3 DEF BoardAt, NoneBorn
  <2>4. CASE Adopt(b) /\ board'[b].pc = "spawn" /\ board'[b].inst = host.inst
    <3>1. LeaseFree /\ Unspawned
      BY <2>4 DEF Adopt, Unspawned
    <3>2. NoneBorn(host.inst)
      BY <1>6, <1>7, <3>1
    <3> QED
      BY <1>0, <1>2, <1>6, <2>4, <3>1, <3>2 DEF BoardAt, NoneBorn
  <2>5. CASE /\ SpawnRunner(b) /\ board'[b].pc = "record" /\ board'[b].inst = board[b].inst
             /\ board'[b].made \in Runners /\ Spawned(board'[b].made)
    <3>1. board[b].inst = host.inst /\ host'.inst = host.inst
      BY <1>1, <2>5 DEF SpawnRunner, BoardAt
    <3>2. runner'[board'[b].made].inst = host.inst
      BY <2>5, RunnersAndBoards
    <3> QED
      BY <1>0, <2>5, <3>1, <3>2 DEF BoardAt
  <2>6. CASE Suspect(b) /\ board'[b].pc = "gate" /\ board'[b].inst = host.inst
    <3>1. UNCHANGED <<host, runner>> /\ host.inst \in Instances
      BY <2>6, <1>0, HostAssumption DEF Suspect, BoardOnly, Instances, TypeOK, Record
    <3>2. Unspawned => endpoint[host.inst] # None
      BY <2>6 DEF Suspect, Unspawned
    <3>3. Unspawned => ~NoneBorn(host.inst)
      BY <3>1, <3>2 DEF ReplaceInvariant, RunnerInvariant, NoneBorn, TypeOK
    <3> QED
      BY <1>0, <2>6, <3>1, <3>3 DEF BoardAt, NoneBorn, Born, Unspawned
  <2>7. CASE Gate(b) /\ board'[b].pc = "revoke" /\ board'[b].inst = host.inst
    <3>1. LeaseFree /\ host.inst = board[b].inst /\ board[b].pc = "gate" /\ UNCHANGED host
      BY <2>7 DEF Gate, Leave, At, TypeOK, Board
    <3>2. ~Unspawned
      BY <1>1, <1>6, <1>7, <3>1 DEF BoardAt
    <3> QED
      BY <1>0, <1>4, <1>5, <1>6, <2>7, <3>1, <3>2 DEF BoardAt
  <2>8. CASE Revoke(b) /\ board'[b].pc = "watch" /\ board'[b].inst = board[b].inst
    <3>1. board[b].pc = "revoke"
      BY <2>8 DEF Revoke
    <3>2. board[b].inst <= host'.inst
      BY <1>0, <1>1, RunnersAndBoards DEF BoardAt
    <3>3. ASSUME board[b].inst = host'.inst
          PROVE  ~Unspawned' /\ \A c \in Boards : Idle(c)'
      <4>1. host'.inst = host.inst
        BY <1>0, <1>1, <3>3, RunnersAndBoards DEF BoardAt
      <4> QED
        BY <1>1, <1>4, <1>5, <3>1, <3>3, <4>1 DEF BoardAt
    <3> QED
      BY <2>8, <3>2, <3>3 DEF BoardAt
  <2>9. CASE BothEnded(b) /\ board'[b].pc = "reclaim" /\ board'[b].inst = board[b].inst
    <3>1. board[b].pc = "watch" /\ host.inst = board[b].inst /\ UNCHANGED host /\ RunnerEnded
      BY <2>9 DEF BothEnded, Watching
    <3>2. ~Unspawned /\ (\A c \in Boards : Idle(c)) /\ NoneLive
      BY <1>1, <1>7, <3>1 DEF BoardAt
    <3> QED
      BY <1>0, <1>4, <1>5, <2>9, <3>1, <3>2 DEF BoardAt
  <2>10. CASE Finalizes(b) /\ board'[b].pc = "replace" /\ board'[b].inst = host.inst
    <3>1. LeaseFree /\ board[b].pc = "reclaim" /\ host.inst = board[b].inst
      BY <2>10 DEF Finalizes, FinalizeOld
    <3>2. NoneLive
      BY <1>1, <3>1 DEF BoardAt
    <3> QED
      BY <1>0, <1>2, <1>6, <2>10, <3>1, <3>2 DEF BoardAt, NoneLive
  <2> QED
    BY <2>1, <2>2, <2>3, <2>4, <2>5, <2>6, <2>7, <2>8, <2>9, <2>10, BoardStep
<1> QED
  BY <1>8 DEF BoardInvariant

LEMMA ReplaceInvariance ==
  ASSUME MaxBoardDeaths = 0, MaxFaults = 0
  PROVE  Spec => [](Typed /\ EndpointInvariant /\ ReplaceInvariant)
<1>1. Init => ReplaceInvariant
  BY HostAssumption
  DEF Init, ReplaceInvariant, LeaseInvariant, RunnerInvariant, BoardInvariant, BoardAt,
      NoHost, Holding, Born, Live, Recording, Unspawned
<1>2. Typed /\ ReplaceInvariant /\ [Next]_vars => ReplaceInvariant'
  BY LeaseInvariantStep, RunnerInvariantStep, BoardInvariantStep DEF ReplaceInvariant
<1> QED
  BY <1>1, <1>2, BasicInvariance, PTL DEF Spec

\* No two runners keep an agent on the view's session file: of one instance never, and
\* of two instances never while no board that holds the host-start lease dies and no
\* write stays contended (host-start.lock, updateOwnedHost, recoverHost).
THEOREM OneAgentOnly ==
  ASSUME MaxInstances <= 1 \/ (MaxBoardDeaths = 0 /\ MaxFaults = 0)
  PROVE  Spec => []OneAgent
<1>1. CASE MaxInstances <= 1
  <2>1. ASSUME Typed, EndpointInvariant, NEW r \in Runners, NEW s \in Runners,
               Keeps(r), Keeps(s)
        PROVE  r = s
    <3>1. runner[r].inst \in Instances /\ runner[s].inst \in Instances
      BY <2>1 DEF Typed, Placed, Keeps, EndpointInvariant, Started, Born
    <3>2. runner[r].inst = runner[s].inst
      BY <1>1, <3>1, HostAssumption DEF Instances
    <3> QED
      BY <2>1, <3>2 DEF Keeps, EndpointInvariant, Started, Bound
  <2>2. Typed /\ EndpointInvariant => OneAgent
    BY <2>1 DEF OneAgent
  <2> QED
    BY <2>2, BasicInvariance, PTL
<1>2. CASE MaxBoardDeaths = 0 /\ MaxFaults = 0
  <2>1. Typed /\ EndpointInvariant /\ ReplaceInvariant => OneAgent
    BY DEF OneAgent, Keeps, EndpointInvariant, Started, ReplaceInvariant, RunnerInvariant,
       Live, Born
  <2>2. Spec => [](Typed /\ EndpointInvariant /\ ReplaceInvariant)
    BY <1>2, ReplaceInvariance
  <2> QED
    BY <2>1, <2>2, PTL
<1> QED
  BY <1>1, <1>2

\* Under the same conditions a new instance is claimed only when no runner keeps an
\* agent of the old one (recoverHost, replaceTerminalHostClaim).
THEOREM ReplacesAfterTheEnd ==
  ASSUME MaxBoardDeaths = 0, MaxFaults = 0
  PROVE  Spec => ReplacedWhenEnded
<1>1. ASSUME Typed, EndpointInvariant, ReplaceInvariant, [Next]_vars, host'.inst # host.inst,
             NEW r \in Runners
      PROVE  ~Keeps(r)
  <2>1. PICK b \in Boards : Claims(b)
    BY <1>1, RunnersAndBoards
  <2>2. ~Live(r)
    <3>1. CASE board[b].pc = "claim"
      <4>1. RunnerEnded
        BY <1>1, <2>1, <3>1, NextInstance
        DEF Claims, ClaimHost, ClaimReplacement, Replaceable, Miss
      <4>2. ~Recording(r)
        BY <1>1, <3>1, Holders DEF Recording, Holding, ReplaceInvariant
      <4> QED
        BY <1>1, <4>1, <4>2
        DEF RunnerEnded, Dead, Live, ReplaceInvariant, RunnerInvariant
    <3>2. CASE board[b].pc # "claim"
      BY <1>1, <2>1, <3>2
      DEF Claims, ClaimHost, ClaimReplacement, ReplaceInvariant, BoardInvariant, BoardAt,
          NoneLive
    <3> QED
      BY <3>1, <3>2
  <2> QED
    BY <1>1, <2>2 DEF Keeps, EndpointInvariant, Started, Live, Born
<1>2. Typed /\ EndpointInvariant /\ ReplaceInvariant /\ [Next]_vars =>
        [host'.inst # host.inst =>
            \A r \in Runners : runner[r].inst = host.inst => ~Keeps(r)]_host
  BY <1>1
<1> QED
  BY <1>2, ReplaceInvariance, PTL DEF Spec, ReplacedWhenEnded
=============================================================================
