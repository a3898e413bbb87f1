--------------------------- MODULE Executor_proof ---------------------------
(***************************************************************************)
(* The safety properties of Executor for any number of sessions, blocks    *)
(* and processes.  The inductive invariant says at which steps of the main *)
(* thread the store is open, that tables are torn only under the lock, and *)
(* that the sessions are started in order.                                 *)
(***************************************************************************)
EXTENDS Executor, TLAPS

\* Steps of the main thread at which the store is open, and at which it is not;
\* at the remaining two it is open only after a failed backup.
Open == {"initialize", "warnings", "milestone", "start", "wait", "closing",
         "close", "backup"}
Shut == {"off", "dispatch", "open", "restore", "create_path", "create",
         "stopper", "stopped", "exit"}
Ending == {"return", "join"}
Active == {"start", "subscribe", "run", "running", "failed"}

Disk == [path : BOOLEAN, locked : BOOLEAN, tables : {"none", "sound", "torn"},
         height : Nat, snapshot : Nat]

\* What the store, the node and the sessions rely on.
StoreInv ==
    /\ disk \in Disk
    /\ loaded \in BOOLEAN /\ unsaved \in BOOLEAN /\ success \in BOOLEAN
    /\ main \in Open \union Shut \union Ending
    /\ disk.tables = "torn" => disk.locked
    /\ loaded => disk.locked /\ disk.tables = "sound"
    /\ main \in Open => loaded
    /\ main \in Shut => ~loaded
    /\ main \in Ending /\ loaded => unsaved
    /\ success => /\ main \in Shut \union Ending /\ main \notin {"dispatch", "open",
                        "restore", "create_path", "create"}
                  /\ ~loaded /\ ~disk.locked /\ disk.tables = "sound"

\* The node acts only while the main thread waits for it.
NodeInv ==
    /\ node \in Active \union {"none", "closed"}
    /\ node \in Active => main \in {"wait", "closing"}
    /\ node \in {"subscribe", "run", "running"} => disk.height > 0

\* The sessions started are those before the next.
SessionInv ==
    /\ session \in 1..(Sessions + 1)
    /\ served = 1..(session - 1)
    /\ node = "running" \/ status = "running" => session = Sessions + 1

IInv == StoreInv /\ NodeInv /\ SessionInv
-----------------------------------------------------------------------------
\* The processes begin with nothing on the disk.
LEMMA InitInv == Init => IInv
  <1> SUFFICES ASSUME Init PROVE IInv
    OBVIOUS
  <1>1. StoreInv
    BY Zenon DEF Init, StoreInv, Disk, Open, Shut, Ending
  <1>2. NodeInv
    BY DEF Init, NodeInv, Active
  <1>3. SessionInv
    BY SessionsAssumption DEF Init, SessionInv
  <1> QED
    BY <1>1, <1>2, <1>3 DEF IInv

\* The store: only the steps that open it leave it open, and whoever leaves it
\* open leaves its lock.
LEMMA StoreInvStep ==
  ASSUME IInv, [Next]_vars
  PROVE  StoreInv'
  <1> USE DEF IInv, StoreInv, NodeInv, Disk, Open, Shut, Ending, Active
  <1>1. ASSUME NEW c \in Commands, NEW m \in Managers, Boot(c, m)
         PROVE  StoreInv'
    BY <1>1, Zenon DEF Boot
  <1>2. CASE dispatch
    BY <1>2 DEF dispatch, Main, store
  <1>3. ASSUME NEW code \in {"success", "flush_lock", "error"}, OpenStore(code)
         PROVE  StoreInv'
    BY <1>3, Zenon DEF OpenStore, open_store_coded, Main, Opened, Failure
  <1>4. ASSUME NEW ok \in BOOLEAN, RestoreStore(ok) PROVE StoreInv'
    BY <1>4, Zenon DEF RestoreStore, restore_store, Main, Opened, Failure
  <1>5. ASSUME NEW ok \in BOOLEAN, CreatePath(ok) PROVE StoreInv'
    BY <1>5, Zenon DEF CreatePath, create_store_path, Main, Failure
  <1>6. ASSUME NEW ok \in BOOLEAN, CreateStore(ok) PROVE StoreInv'
    BY <1>6, Zenon DEF CreateStore, create_store, Main, Failure
  <1>7. ASSUME NEW ok \in BOOLEAN, InitializeStore(ok) PROVE StoreInv'
    <2>1. main = "initialize" /\ loaded
      BY <1>7 DEF InitializeStore, Main
    <2>2. CASE ok
      BY <1>7, <2>1, <2>2 DEF InitializeStore, initialize_store, Main, Opened
    <2>3. CASE ~ok
      <3>1. PICK closed \in BOOLEAN : close_store(closed)
        BY <1>7, <2>3 DEF InitializeStore, initialize_store
      <3> QED
        BY <1>7, <2>1, <2>3, <3>1, Zenon DEF InitializeStore, close_store, Main, Failure
    <2> QED
      BY <2>2, <2>3
  <1>8. ASSUME NEW ok \in BOOLEAN, ColdBackup(ok) PROVE StoreInv'
    BY <1>8 DEF ColdBackup, cold_backup_store, Main
  <1>9. CASE prompt_warnings
    BY <1>9, ZenonT(30) DEF prompt_warnings, prompt, close_store, store
  <1>10. CASE prompt_milestone_store
    BY <1>10, ZenonT(30) DEF prompt_milestone_store, prompt, close_store, store
  <1>11. CASE StartNode
    BY <1>11 DEF StartNode, Main, store
  <1>12. CASE wait_for_stopping
    BY <1>12 DEF wait_for_stopping, Main, store
  <1>13. CASE CloseNode
    BY <1>13 DEF CloseNode, Main, store
  <1>14. ASSUME NEW ok \in BOOLEAN, CloseStore(ok) PROVE StoreInv'
    BY <1>14, Zenon DEF CloseStore, close_store, Main, Failure
  <1>15. CASE stopper
    BY <1>15 DEF stopper, Main, store
  <1>16. CASE AwaitLog
    BY <1>16 DEF AwaitLog, Main, store
  <1>17. CASE uninitialize_stop
    BY <1>17 DEF uninitialize_stop, Main, store
  <1>18. CASE Exit
    BY <1>18, Zenon DEF Exit, Abandoned, Main
  <1>19. CASE Crash
    BY <1>19, Zenon DEF Crash, Abandoned
  <1>20. CASE ArchiveBlock
    BY <1>20 DEF ArchiveBlock
  <1>21. ASSUME NEW saved \in BOOLEAN, hot_backup_store(saved) PROVE StoreInv'
    BY <1>21 DEF hot_backup_store
  <1>22. ASSUME NEW ec \in BOOLEAN, handle_started(ec) PROVE StoreInv'
    BY <1>22 DEF handle_started, fail, store
  <1>23. ASSUME NEW ec \in BOOLEAN, handle_subscribed(ec) PROVE StoreInv'
    BY <1>23, SMTT(30) DEF handle_subscribed, fail, store
  <1>24. ASSUME NEW ec \in BOOLEAN, start_session(ec) PROVE StoreInv'
    BY <1>24 DEF start_session, fail, store
  <1>25. CASE handle_running
    BY <1>25 DEF handle_running, store
  <1>26. CASE handle_stopped
    BY <1>26, SMTT(30) DEF handle_stopped, fail, store
  <1>27. CASE PollerStep
    BY <1>27, SMTT(30) DEF PollerStep, notify_starting, poll_for_stopping,
       notify_stopping, store
  <1>28. CASE handle_stop
    BY <1>28, SMTT(30) DEF handle_stop, store
  <1>29. CASE do_hot_backup
    BY <1>29, SMTT(30) DEF do_hot_backup, store
  <1>30. CASE do_close
    BY <1>30 DEF do_close, store
  <1>31. CASE StopLog
    BY <1>31 DEF StopLog, store
  <1>32. CASE UNCHANGED vars
    BY <1>32, ZenonT(30) DEF vars
  <1> QED
    BY <1>1, <1>2, <1>3, <1>4, <1>5, <1>6, <1>7, <1>8, <1>9, <1>10, <1>11,
       <1>12, <1>13, <1>14, <1>15, <1>16, <1>17, <1>18, <1>19, <1>20, <1>21,
       <1>22, <1>23, <1>24, <1>25, <1>26, <1>27, <1>28, <1>29, <1>30, <1>31,
       <1>32, ZenonT(30) DEF Next, MainStep, NetworkStep

\* The node: it starts after the store is opened and is closed before it.
LEMMA NodeInvStep ==
  ASSUME IInv, [Next]_vars
  PROVE  NodeInv'
  <1> USE DEF IInv, StoreInv, NodeInv, Disk, Active
  <1>1. ASSUME NEW c \in Commands, NEW m \in Managers, Boot(c, m) PROVE NodeInv'
    BY <1>1 DEF Boot
  <1>2. CASE dispatch
    BY <1>2 DEF dispatch, Main, store, network
  <1>3. ASSUME NEW code \in {"success", "flush_lock", "error"}, OpenStore(code)
         PROVE  NodeInv'
    BY <1>3 DEF OpenStore, open_store_coded, Main, Opened, Failure, network
  <1>4. ASSUME NEW ok \in BOOLEAN, RestoreStore(ok) PROVE NodeInv'
    BY <1>4 DEF RestoreStore, restore_store, Main, Opened, Failure, network
  <1>5. ASSUME NEW ok \in BOOLEAN, CreatePath(ok) PROVE NodeInv'
    BY <1>5 DEF CreatePath, create_store_path, Main, Failure, network
  <1>6. ASSUME NEW ok \in BOOLEAN, CreateStore(ok) PROVE NodeInv'
    BY <1>6 DEF CreateStore, create_store, Main, Failure, network
  <1>7. ASSUME NEW ok \in BOOLEAN, InitializeStore(ok) PROVE NodeInv'
    BY <1>7 DEF InitializeStore, initialize_store, close_store, Main, Opened,
       Failure, network
  <1>8. ASSUME NEW ok \in BOOLEAN, ColdBackup(ok) PROVE NodeInv'
    BY <1>8 DEF ColdBackup, cold_backup_store, Main, network
  <1>9. CASE prompt_warnings
    BY <1>9 DEF prompt_warnings, prompt, close_store, store, network
  <1>10. CASE prompt_milestone_store
    BY <1>10 DEF prompt_milestone_store, prompt, close_store, store, network
  <1>11. CASE StartNode
    BY <1>11 DEF StartNode, Main, store
  <1>12. CASE wait_for_stopping
    BY <1>12 DEF wait_for_stopping, Main, store, network
  <1>13. CASE CloseNode
    BY <1>13 DEF CloseNode, Main, store
  <1>14. ASSUME NEW ok \in BOOLEAN, CloseStore(ok) PROVE NodeInv'
    BY <1>14 DEF CloseStore, close_store, Main, Failure, network
  <1>15. CASE stopper
    BY <1>15 DEF stopper, Main, store, network
  <1>16. CASE AwaitLog
    BY <1>16 DEF AwaitLog, Main, store, network
  <1>17. CASE uninitialize_stop
    BY <1>17 DEF uninitialize_stop, Main, store, network
  <1>18. CASE Exit
    BY <1>18 DEF Exit, Abandoned, Main, network
  <1>19. CASE Crash
    BY <1>19 DEF Crash, Abandoned
  <1>20. CASE ArchiveBlock
    BY <1>20 DEF ArchiveBlock, network
  <1>21. ASSUME NEW saved \in BOOLEAN, hot_backup_store(saved) PROVE NodeInv'
    BY <1>21 DEF hot_backup_store, network
  <1>22. ASSUME NEW ec \in BOOLEAN, handle_started(ec) PROVE NodeInv'
    BY <1>22 DEF handle_started, fail, store
  <1>23. ASSUME NEW ec \in BOOLEAN, handle_subscribed(ec) PROVE NodeInv'
    BY <1>23 DEF handle_subscribed, fail, store
  <1>24. ASSUME NEW ec \in BOOLEAN, start_session(ec) PROVE NodeInv'
    BY <1>24 DEF start_session, fail, store
  <1>25. CASE handle_running
    BY <1>25 DEF handle_running, store
  <1>26. CASE handle_stopped
    BY <1>26 DEF handle_stopped, fail, store
  <1>27. CASE PollerStep
    BY <1>27, Zenon DEF PollerStep, notify_starting, poll_for_stopping,
       notify_stopping, store, network
  <1>28. CASE handle_stop
    BY <1>28 DEF handle_stop, store, network
  <1>29. CASE do_hot_backup
    BY <1>29 DEF do_hot_backup, store, network
  <1>30. CASE do_close
    BY <1>30 DEF do_close, store, network
  <1>31. CASE StopLog
    BY <1>31 DEF StopLog, store, network
  <1>32. CASE UNCHANGED vars
    BY <1>32, Zenon DEF vars
  <1> QED
    BY <1>1, <1>2, <1>3, <1>4, <1>5, <1>6, <1>7, <1>8, <1>9, <1>10, <1>11,
       <1>12, <1>13, <1>14, <1>15, <1>16, <1>17, <1>18, <1>19, <1>20, <1>21,
       <1>22, <1>23, <1>24, <1>25, <1>26, <1>27, <1>28, <1>29, <1>30, <1>31,
       <1>32, Zenon DEF Next, MainStep, NetworkStep

\* The sessions: each starts after the one before it.
LEMMA SessionInvStep ==
  ASSUME IInv, [Next]_vars
  PROVE  SessionInv'
  <1> USE SessionsAssumption DEF IInv, SessionInv
  <1>1. ASSUME NEW c \in Commands, NEW m \in Managers, Boot(c, m)
         PROVE  SessionInv'
    BY <1>1 DEF Boot
  <1>2. CASE dispatch
    BY <1>2 DEF dispatch, network, reports
  <1>3. ASSUME NEW code \in {"success", "flush_lock", "error"}, OpenStore(code)
         PROVE  SessionInv'
    BY <1>3 DEF OpenStore, network, reports
  <1>4. ASSUME NEW ok \in BOOLEAN, RestoreStore(ok) PROVE SessionInv'
    BY <1>4 DEF RestoreStore, network, reports
  <1>5. ASSUME NEW ok \in BOOLEAN, CreatePath(ok) PROVE SessionInv'
    BY <1>5 DEF CreatePath, network, reports
  <1>6. ASSUME NEW ok \in BOOLEAN, CreateStore(ok) PROVE SessionInv'
    BY <1>6 DEF CreateStore, network, reports
  <1>7. ASSUME NEW ok \in BOOLEAN, InitializeStore(ok) PROVE SessionInv'
    BY <1>7 DEF InitializeStore, network, reports
  <1>8. ASSUME NEW ok \in BOOLEAN, ColdBackup(ok) PROVE SessionInv'
    BY <1>8 DEF ColdBackup, network, reports
  <1>9. CASE prompt_warnings
    BY <1>9 DEF prompt_warnings, network, reports
  <1>10. CASE prompt_milestone_store
    BY <1>10 DEF prompt_milestone_store, network, reports
  <1>11. CASE StartNode
    BY <1>11 DEF StartNode, reports
  <1>12. CASE wait_for_stopping
    BY <1>12 DEF wait_for_stopping, network, reports
  <1>13. CASE CloseNode
    BY <1>13 DEF CloseNode, reports
  <1>14. ASSUME NEW ok \in BOOLEAN, CloseStore(ok) PROVE SessionInv'
    BY <1>14 DEF CloseStore, network, reports
  <1>15. CASE stopper
    BY <1>15 DEF stopper, network, reports
  <1>16. CASE AwaitLog
    BY <1>16 DEF AwaitLog, network, reports
  <1>17. CASE uninitialize_stop
    BY <1>17 DEF uninitialize_stop, network
  <1>18. CASE Exit
    BY <1>18 DEF Exit, network, reports
  <1>19. CASE Crash
    BY <1>19 DEF Crash
  <1>20. CASE ArchiveBlock
    BY <1>20 DEF ArchiveBlock, network, reports
  <1>21. ASSUME NEW saved \in BOOLEAN, hot_backup_store(saved) PROVE SessionInv'
    BY <1>21 DEF hot_backup_store, network, reports
  <1>22. ASSUME NEW ec \in BOOLEAN, handle_started(ec) PROVE SessionInv'
    BY <1>22 DEF handle_started, fail, reports
  <1>23. ASSUME NEW ec \in BOOLEAN, handle_subscribed(ec) PROVE SessionInv'
    BY <1>23 DEF handle_subscribed, fail, reports
  <1>24. ASSUME NEW ec \in BOOLEAN, start_session(ec) PROVE SessionInv'
    <2>1. session \in Nat /\ session > 0 /\ status' = status
      BY <1>24 DEF start_session, reports
    <2>2. CASE session' = session /\ served' = served /\ node' = "failed"
      BY <2>1, <2>2
    <2>3. CASE session' = session + 1 /\ session <= Sessions /\ node' = "run"
               /\ served' = served \union {session}
      BY <2>1, <2>3
    <2> QED
      BY <1>24, <2>2, <2>3 DEF start_session, fail
  <1>25. CASE handle_running
    BY <1>25 DEF handle_running
  <1>26. CASE handle_stopped
    BY <1>26, SMTT(30) DEF handle_stopped, fail, reports
  <1>27. CASE PollerStep
    BY <1>27 DEF PollerStep, notify_starting, poll_for_stopping,
       notify_stopping, network
  <1>28. CASE handle_stop
    BY <1>28 DEF handle_stop, network
  <1>29. CASE do_hot_backup
    BY <1>29 DEF do_hot_backup, network, reports
  <1>30. CASE do_close
    BY <1>30 DEF do_close, network, reports
  <1>31. CASE StopLog
    BY <1>31 DEF StopLog, network, reports
  <1>32. CASE UNCHANGED vars
    BY <1>32 DEF vars
  <1> QED
    BY <1>1, <1>2, <1>3, <1>4, <1>5, <1>6, <1>7, <1>8, <1>9, <1>10, <1>11,
       <1>12, <1>13, <1>14, <1>15, <1>16, <1>17, <1>18, <1>19, <1>20, <1>21,
       <1>22, <1>23, <1>24, <1>25, <1>26, <1>27, <1>28, <1>29, <1>30, <1>31,
       <1>32, ZenonT(30) DEF Next, MainStep, NetworkStep

\* IInv holds throughout, whatever crashes and whatever fails.
LEMMA Invariance == Spec => []IInv
  <1>1. IInv /\ [Next]_vars => IInv'
    BY StoreInvStep, NodeInvStep, SessionInvStep DEF IInv
  <1> QED
    BY InitInv, <1>1, PTL DEF Spec

-----------------------------------------------------------------------------
\* The node of executor_runner.cpp runs only over a store that the process
\* holds open, sound and initialized, after any history of crashes, failed
\* restores and failed closes.
THEOREM NodeOverSoundStoreTheorem == Spec => []NodeOverSoundStore
  <1>1. IInv => NodeOverSoundStore
    BY DEF IInv, StoreInv, NodeInv, NodeOverSoundStore, Active, Open
  <1> QED
    BY Invariance, <1>1, PTL

\* No path through dispatch leaves the store open, failed backups excepted, and
\* success is returned only over a store that close_store has flushed.
THEOREM CleanExitTheorem == Spec => []CleanExit
  <1>1. IInv => CleanExit
    BY DEF IInv, StoreInv, CleanExit, Ending
  <1> QED
    BY Invariance, <1>1, PTL

\* notify_running follows the start of every session of server_node, however
\* many there are.
THEOREM ReadyWhenServedTheorem == Spec => []ReadyWhenServed
  <1>1. IInv => ReadyWhenServed
    BY SessionsAssumption DEF IInv, SessionInv, ReadyWhenServed
  <1> QED
    BY Invariance, <1>1, PTL
=============================================================================
