------------------------------ MODULE Executor ------------------------------
(***************************************************************************)
(* The life of the server process: executor (console/) about server_node   *)
(* (server_node.cpp), over a store that survives the process.              *)
(*                                                                         *)
(* Five threads meet here.  The main thread runs one command: it opens,    *)
(* restores or creates the store, starts the node and waits.  The network  *)
(* strand starts the sessions one after another and calls back.  The poller*)
(* turns the signal into the promise the main thread waits on, and reports *)
(* progress to a service manager.  The capture thread executes console     *)
(* commands.  The log thread delivers the last message.                    *)
(*                                                                         *)
(* The store, the node and its sessions are external: an open store is     *)
(* marked on disk by its flush lock, which only close removes; restore     *)
(* needs the lock and returns to the last snapshot.  A process that dies   *)
(* with the store open leaves its tables torn.                             *)
(***************************************************************************)
EXTENDS Naturals, FiniteSets

CONSTANTS
    Sessions,       \* number of sessions the node starts (ten)
    Managers,       \* of "none", "systemd", "windows": who supervises
    Commands,       \* of "run", "newstore", "backup", "restore", "scan"
    MaxBlocks,      \* bound: height of the store (one is the genesis block)
    MaxBoots        \* bound: times the program is started

ASSUME SessionsAssumption == Sessions \in Nat \ {0}

VARIABLES
    disk,           \* [path, locked, tables, height, snapshot]
    loaded,         \* the store is open in this process
    main,           \* where the main thread is
    command, manager, boots,
    success,        \* what dispatch returns
    unsaved,        \* a command line backup failed
    node,           \* where the node's start sequence is
    session,        \* the next session to start
    served,         \* sessions that accept connections
    result,         \* result_
    signalled,      \* signal_ is set
    promised,       \* stopping_ is set
    starting, exited,
    poller, status, \* the poller, and the last report to the manager
    capture,        \* the capture thread
    logged          \* stopped_ is set: the log has ended

vars == <<disk, loaded, main, command, manager, boots, success, unsaved,
          node, session, served, result, signalled, promised, starting,
          exited, poller, status, capture, logged>>
store == <<disk, loaded, unsaved>>
boot == <<command, manager, boots>>
network == <<node, session, served, result>>
reports == <<starting, exited, poller, status>>

service == manager # "none"
canceled == signalled

\* A process that ends with the store open has not flushed it.
Abandoned == IF loaded THEN [disk EXCEPT !.tables = "torn"] ELSE disk

-----------------------------------------------------------------------------
(* Store functions, as relations on the store and an outcome.              *)

\* store_.close: the lock is removed, or the tables are not flushed.
close_store(closed) ==
    /\ capture # "backup"       \* holds the transactor lock
    /\ loaded' = FALSE
    /\ \/ /\ closed
          /\ disk' = [disk EXCEPT !.locked = FALSE]
       \/ /\ ~closed
          /\ disk' = [disk EXCEPT !.tables = "torn"]
    /\ UNCHANGED unsaved

\* check_store_path(true): the directory is created, or is not.
create_store_path(created) ==
    /\ disk' = IF created THEN [disk EXCEPT !.path = TRUE] ELSE disk
    /\ UNCHANGED <<loaded, unsaved>>

\* store_.create: empty tables, open.
create_store(created) ==
    /\ disk' = IF created
               THEN [disk EXCEPT !.locked = TRUE, !.tables = "sound", !.height = 0]
               ELSE disk
    /\ loaded' = created
    /\ UNCHANGED unsaved

\* query_.initialize pushes the genesis block; when it fails the store is closed.
initialize_store(initialized) ==
    \/ /\ initialized
       /\ disk' = [disk EXCEPT !.height = 1]
       /\ UNCHANGED <<loaded, unsaved>>
    \/ /\ ~initialized
       /\ \E closed \in BOOLEAN : close_store(closed)

\* Mutant: the flush lock is not tested.
open_store_coded_unlocked(code) ==
    /\ \/ code = "success" /\ disk.tables # "none"
       \/ code = "error"
    /\ disk' = IF code = "success" THEN [disk EXCEPT !.locked = TRUE] ELSE disk
    /\ loaded' = (code = "success")
    /\ UNCHANGED unsaved

\* store_.open: refused by the lock of a process that did not close, by absent
\* tables, or for another reason (schema, files).
open_store_coded(code) ==
    /\ \/ code = "success" /\ ~disk.locked /\ disk.tables # "none"
       \/ code = "flush_lock" /\ disk.locked
       \/ code = "error" /\ ~disk.locked
    /\ disk' = IF code = "success" THEN [disk EXCEPT !.locked = TRUE] ELSE disk
    /\ loaded' = (code = "success")
    /\ UNCHANGED unsaved

\* store_.restore: the last snapshot, or empty tables when there is none.
restore_store(restored) ==
    /\ restored => disk.locked
    /\ disk' = IF restored
               THEN [disk EXCEPT !.tables = "sound", !.height = disk.snapshot]
               ELSE disk
    /\ loaded' = restored
    /\ UNCHANGED unsaved

\* store_.snapshot of a command line backup.
cold_backup_store(saved) ==
    /\ disk' = IF saved THEN [disk EXCEPT !.snapshot = disk.height] ELSE disk
    /\ unsaved' = ~saved
    /\ UNCHANGED loaded

-----------------------------------------------------------------------------
(* The main thread.                                                        *)

\* A run ends through stopper, another command returns.
Failure == IF command = "run" THEN "stopper" ELSE "return"

\* What a command does with an open store.
Opened == CASE command = "run" -> "warnings"
            [] command = "backup" -> "backup"
            [] OTHER -> "close"

Main(at, to) == main = at /\ main' = to

\* executor(): the poller starts and the handlers are set; dispatch chooses.
Boot(c, m) ==
    /\ main \in {"off", "exit"} /\ boots < MaxBoots
    /\ m # "none" => c = "run"
    /\ boots' = boots + 1 /\ command' = c /\ manager' = m
    /\ main' = "dispatch" /\ success' = FALSE /\ unsaved' = FALSE
    /\ node' = "none" /\ session' = 1 /\ served' = {} /\ result' = TRUE
    /\ signalled' = FALSE /\ promised' = FALSE
    /\ starting' = TRUE /\ exited' = FALSE /\ poller' = "poll"
    /\ status' = IF m = "windows" THEN "starting" ELSE "none"
    /\ capture' = "off" /\ logged' = FALSE
    /\ UNCHANGED <<disk, loaded>>

\* The command line; a run without its log sinks ends at once.
dispatch ==
    /\ \/ command = "run" /\ Main("dispatch", "return")
       \/ Main("dispatch", CASE command = "newstore" -> "create_path"
                             [] disk.path /\ command = "restore" -> "restore"
                             [] disk.path -> "open"
                             [] command = "run" -> "create_path"
                             [] OTHER -> "return")
    /\ UNCHANGED <<store, boot, success, network, signalled, promised, reports,
                   capture, logged>>

OpenStore(code) ==
    /\ open_store_coded(code)
    /\ Main("open", CASE code = "success" -> Opened
                      [] code = "flush_lock" /\ command = "run" -> "restore"
                      [] OTHER -> Failure)
    /\ UNCHANGED <<boot, success, network, signalled, promised, reports,
                   capture, logged>>

RestoreStore(restored) ==
    /\ restore_store(restored)
    /\ Main("restore", IF ~restored THEN Failure
                       ELSE IF disk.snapshot = 0 THEN "initialize" ELSE Opened)
    /\ UNCHANGED <<boot, success, network, signalled, promised, reports,
                   capture, logged>>

CreatePath(created) ==
    /\ create_store_path(created)
    /\ Main("create_path", IF created THEN "create" ELSE Failure)
    /\ UNCHANGED <<boot, success, network, signalled, promised, reports,
                   capture, logged>>

CreateStore(created) ==
    /\ create_store(created)
    /\ Main("create", IF created THEN "initialize" ELSE Failure)
    /\ UNCHANGED <<boot, success, network, signalled, promised, reports,
                   capture, logged>>

InitializeStore(initialized) ==
    /\ initialize_store(initialized)
    /\ Main("initialize", IF initialized THEN Opened ELSE Failure)
    /\ UNCHANGED <<boot, success, network, signalled, promised, reports,
                   capture, logged>>

ColdBackup(saved) ==
    /\ cold_backup_store(saved)
    /\ Main("backup", IF saved THEN "close" ELSE "return")
    /\ UNCHANGED <<boot, success, network, signalled, promised, reports,
                   capture, logged>>

\* Mutant: the store is left open when the operator halts at the prompt.
prompt_open(next) ==
    \/ main' = next /\ UNCHANGED store
    \/ ~service /\ main' = "stopper" /\ UNCHANGED store

\* No warning, no console, or an empty line goes on; halted, or canceled before
\* the next line, closes the store.
prompt(next) ==
    \/ main' = next /\ UNCHANGED store
    \/ ~service /\ main' = "stopper" /\ \E closed \in BOOLEAN : close_store(closed)

prompt_warnings ==
    /\ main = "warnings"
    /\ prompt("milestone")
    /\ UNCHANGED <<boot, success, network, signalled, promised, reports,
                   capture, logged>>

prompt_milestone_store ==
    /\ main = "milestone"
    /\ prompt("start")
    /\ UNCHANGED <<boot, success, network, signalled, promised, reports,
                   capture, logged>>

\* capture_.start, the node is created and its start is posted.
StartNode ==
    /\ Main("start", "wait")
    /\ capture' = IF service THEN "off" ELSE "idle"
    /\ node' = "start"
    /\ UNCHANGED <<store, boot, success, session, served, result, signalled,
                   promised, reports, logged>>

wait_for_stopping ==
    /\ promised
    /\ Main("wait", "closing")
    /\ UNCHANGED <<store, boot, success, network, signalled, promised, reports,
                   capture, logged>>

\* node_->close: joins the threads of the network.
CloseNode ==
    /\ Main("closing", "close")
    /\ node' = "closed"
    /\ UNCHANGED <<store, boot, success, session, served, result, signalled,
                   promised, reports, capture, logged>>

CloseStore(closed) ==
    /\ close_store(closed)
    /\ Main("close", Failure)
    /\ success' = (closed /\ result)
    /\ UNCHANGED <<boot, network, signalled, promised, reports, capture, logged>>

\* capture_.stop joins its thread; then the log is stopped and its last message
\* awaited.
stopper ==
    /\ capture # "backup"
    /\ Main("stopper", "stopped")
    /\ capture' = "off"
    /\ UNCHANGED <<store, boot, success, network, signalled, promised, reports, logged>>

AwaitLog ==
    /\ logged
    /\ Main("stopped", "return")
    /\ UNCHANGED <<store, boot, success, network, signalled, promised, reports,
                   capture, logged>>

\* uninitialize_stop; a windows service first reports that it has stopped.
uninitialize_stop ==
    /\ Main("return", "join")
    /\ signalled' = TRUE
    /\ exited' = TRUE
    /\ status' = IF manager = "windows" THEN "stopped" ELSE status
    /\ UNCHANGED <<store, boot, success, network, promised, starting, poller,
                   capture, logged>>

Exit ==
    /\ poller = "done"
    /\ Main("join", "exit")
    /\ loaded' = FALSE
    /\ disk' = Abandoned
    /\ UNCHANGED <<unsaved, boot, success, network, signalled, promised, reports,
                   capture, logged>>

\* The process dies.
Crash ==
    /\ main \notin {"off", "exit"}
    /\ main' = "off"
    /\ loaded' = FALSE
    /\ disk' = Abandoned
    /\ node' = "none" /\ poller' = "done" /\ capture' = "off"
    /\ UNCHANGED <<unsaved, boot, success, session, served, result, signalled,
                   promised, starting, exited, status, logged>>

-----------------------------------------------------------------------------
(* The network strand.                                                     *)

\* The handlers of the executor on an error.
fail ==
    /\ result' = FALSE
    /\ signalled' = TRUE
    /\ node' = "failed"

\* Mutant: a failed start is only logged.
handle_started_logged(ec) ==
    /\ node = "start"
    /\ disk.height = 0 => ec
    /\ \/ ec /\ result' = FALSE /\ node' = "failed" /\ UNCHANGED signalled
       \/ ~ec /\ node' = "subscribe" /\ UNCHANGED <<result, signalled>>
    /\ UNCHANGED <<store, boot, main, success, session, served, promised, reports,
                   capture, logged>>

\* The node does not start over a store without its genesis block.
handle_started(ec) ==
    /\ node = "start"
    /\ disk.height = 0 => ec
    /\ \/ ec /\ fail
       \/ ~ec /\ node' = "subscribe" /\ UNCHANGED <<result, signalled>>
    /\ UNCHANGED <<store, boot, main, success, session, served, promised, reports,
                   capture, logged>>

handle_subscribed(ec) ==
    /\ node = "subscribe"
    /\ \/ ec /\ fail
       \/ ~ec /\ node' = "run" /\ UNCHANGED <<result, signalled>>
    /\ UNCHANGED <<store, boot, main, success, session, served, promised, reports,
                   capture, logged>>

\* Mutant: a session that does not start is passed over.
start_session_skip(ec) ==
    /\ node = "run" /\ session <= Sessions
    /\ served' = IF ec THEN served ELSE served \union {session}
    /\ session' = session + 1
    /\ UNCHANGED <<node, result, signalled>>
    /\ UNCHANGED <<store, boot, main, success, promised, reports, capture, logged>>

\* start_admin ... start_bitcoind_zmq: attaches and starts the session, and goes
\* on only if it started; else the handler is invoked with its code.
start_session(ec) ==
    /\ node = "run" /\ session <= Sessions
    /\ \/ /\ ec /\ fail
          /\ UNCHANGED <<session, served>>
       \/ /\ ~ec
          /\ served' = served \union {session}
          /\ session' = session + 1
          /\ UNCHANGED <<node, result, signalled>>
    /\ UNCHANGED <<store, boot, main, success, promised, reports, capture, logged>>

\* handle_running, when the last session has started; notify_running.
handle_running ==
    /\ node = "run" /\ session > Sessions
    /\ node' = "running"
    /\ starting' = FALSE
    /\ status' = IF service THEN "running" ELSE status
    /\ UNCHANGED <<store, boot, main, success, session, served, result, signalled,
                   promised, exited, poller, capture, logged>>

\* The node stops itself with an error.
handle_stopped ==
    /\ node \in {"run", "running"}
    /\ fail
    /\ UNCHANGED <<store, boot, main, success, session, served, promised, reports,
                   capture, logged>>

\* The node organizes a block (external).
ArchiveBlock ==
    /\ node \in {"run", "running"} /\ disk.height < MaxBlocks
    /\ disk' = [disk EXCEPT !.height = @ + 1]
    /\ UNCHANGED <<loaded, unsaved, boot, main, success, network, signalled, promised,
                   reports, capture, logged>>

-----------------------------------------------------------------------------
(* Signals, the poller, the capture thread and the log.                    *)

\* handle_stop, from a signal or from service_handler.
handle_stop ==
    /\ main \notin {"off", "exit"} /\ ~signalled
    /\ signalled' = TRUE
    /\ status' = IF manager = "windows" THEN "stopping" ELSE status
    /\ UNCHANGED <<store, boot, main, success, network, promised, starting, exited,
                   poller, capture, logged>>

\* notify_starting tests starting_ and then reports.
notify_starting ==
    /\ service
    /\ \/ /\ poller = "poll" /\ ~canceled /\ starting
          /\ poller' = "report" /\ UNCHANGED status
       \/ /\ poller = "report"
          /\ poller' = "poll" /\ status' = "starting"
    /\ UNCHANGED <<store, boot, main, success, network, signalled, promised, starting,
                   exited, capture, logged>>

poll_for_stopping ==
    /\ poller = "poll" /\ canceled
    /\ promised' = TRUE
    /\ poller' = IF service THEN "drain" ELSE "done"
    /\ UNCHANGED <<store, boot, main, success, network, signalled, starting, exited,
                   status, capture, logged>>

\* The loop tests exited_, sleeps and then reports.
notify_stopping ==
    /\ \/ /\ poller = "drain"
          /\ poller' = IF exited THEN "done" ELSE "sleep"
          /\ UNCHANGED status
       \/ /\ poller = "sleep"
          /\ poller' = "drain" /\ status' = "stopping"
    /\ UNCHANGED <<store, boot, main, success, network, signalled, promised, starting,
                   exited, capture, logged>>

\* do_hot_backup: the snapshot suspends the network and locks the store.
do_hot_backup ==
    /\ capture = "idle" /\ node # "none"
    /\ capture' = "backup"
    /\ UNCHANGED <<store, boot, main, success, network, signalled, promised, reports, logged>>

\* hot_backup_store: a closed store is not saved.
hot_backup_store(saved) ==
    /\ capture = "backup"
    /\ capture' = "idle"
    /\ saved => loaded
    /\ disk' = IF saved THEN [disk EXCEPT !.snapshot = disk.height] ELSE disk
    /\ UNCHANGED <<loaded, unsaved, boot, main, success, network, signalled, promised,
                   reports, logged>>

do_close ==
    /\ capture = "idle" /\ ~signalled
    /\ signalled' = TRUE
    /\ UNCHANGED <<store, boot, main, success, network, promised, reports, capture, logged>>

\* subscribe_log's handler of the message that stops the log.
StopLog ==
    /\ main = "stopped" /\ ~logged
    /\ logged' = TRUE
    /\ UNCHANGED <<store, boot, main, success, network, signalled, promised, reports, capture>>
-----------------------------------------------------------------------------
Init ==
    /\ disk = [path |-> FALSE, locked |-> FALSE, tables |-> "none", height |-> 0,
               snapshot |-> 0]
    /\ loaded = FALSE /\ main = "off" /\ success = FALSE /\ unsaved = FALSE
    /\ command = "run" /\ manager = "none" /\ boots = 0
    /\ node = "none" /\ session = 1 /\ served = {} /\ result = TRUE
    /\ signalled = FALSE /\ promised = FALSE /\ starting = TRUE /\ exited = FALSE
    /\ poller = "done" /\ status = "none" /\ capture = "off" /\ logged = FALSE

Prompting == main \in {"warnings", "milestone"}

MainStep ==
    \/ dispatch \/ StartNode \/ wait_for_stopping \/ CloseNode \/ stopper
    \/ AwaitLog \/ uninitialize_stop \/ Exit
    \/ \E code \in {"success", "flush_lock", "error"} : OpenStore(code)
    \/ \E ok \in BOOLEAN :
        \/ RestoreStore(ok) \/ CreatePath(ok) \/ CreateStore(ok)
        \/ InitializeStore(ok) \/ ColdBackup(ok) \/ CloseStore(ok)

NetworkStep ==
    \/ \E ec \in BOOLEAN :
        handle_started(ec) \/ handle_subscribed(ec) \/ start_session(ec)
    \/ handle_running

PollerStep == notify_starting \/ poll_for_stopping \/ notify_stopping

Next ==
    \/ \E c \in Commands, m \in Managers : Boot(c, m)
    \/ MainStep \/ prompt_warnings \/ prompt_milestone_store
    \/ NetworkStep \/ handle_stopped \/ ArchiveBlock
    \/ PollerStep \/ StopLog
    \/ do_hot_backup \/ do_close \/ \E saved \in BOOLEAN : hot_backup_store(saved)
    \/ handle_stop
    \/ Crash

\* The threads of the process run; nobody needs to answer a prompt and nothing
\* needs to be started again.  The store is closed between two backups, which
\* the operator does not request without end.
Spec ==
    /\ Init /\ [][Next]_vars
    /\ SF_vars(MainStep)
    /\ WF_vars(NetworkStep)
    /\ WF_vars(PollerStep)
    /\ WF_vars(StopLog)
    /\ WF_vars(\E saved \in BOOLEAN : hot_backup_store(saved))

-----------------------------------------------------------------------------
(* Properties.                                                             *)

\* Whatever crashed before, the node only runs over a store that this process
\* holds open, whose tables are those of a clean close or of a snapshot, and
\* that has its genesis block; the store outlives the threads of the node.
NodeOverSoundStore ==
    /\ node \in {"start", "subscribe", "run", "running", "failed"} =>
        loaded /\ disk.locked /\ disk.tables = "sound"
    /\ node \in {"run", "running"} => disk.height > 0

\* A command that ends by itself does not end with the store open, however it
\* ends, so that the next does not fall back to a snapshot: unless a command line
\* backup failed (do_backup then returns without closing).  It returns success
\* only with the store closed and flushed.
CleanExit ==
    /\ main = "join" /\ loaded => unsaved
    /\ main = "exit" /\ success => ~disk.locked /\ disk.tables = "sound"

\* The manager is told that the service runs only when every session accepts
\* connections: one that does not start ends the chain.
ReadyWhenServed ==
    node = "running" \/ status = "running" => served = 1..Sessions

\* A signal, a session that does not start and a node that stops itself each
\* end the process, unless it awaits the operator at a prompt.
StopEnds ==
    signalled \/ ~result ~> main \in {"off", "exit"} \/ Prompting
=============================================================================
