------------------------------ MODULE StateEvents -----------------------------
(***************************************************************************)
(* What route_service tells the broker about its devices: the state of     *)
(* every device and the directory of all of them, on retained topics.      *)
(* Each change is published as it happens; after a reconnection the main   *)
(* thread asks for a full snapshot.  RuntimeExternalBridge stands between  *)
(* the threads of the runtime and the MQTT client; its mutex is held for a *)
(* whole publication or replay.                                            *)
(*                                                                         *)
(* A record is abstracted to its revision and to the revision that last    *)
(* changed what the directory shows of it.  A publication on a living      *)
(* connection reaches the retained topic; on a dead one the library keeps  *)
(* it and it may or may not get there.                                     *)
(***************************************************************************)
EXTENDS MqttSession

CONSTANT Devices   \* devices of the registry

VARIABLES record,             \* the registry: [rev, entry] per device
          snapshotRequested,  \* external_snapshot_requested_
          bridgeEnabled,      \* enabled of RuntimeExternalBridge
          bridgeClient,       \* its pointer to the MQTT client is set
          bridgeLock,         \* its mutex: "free" or the thread in a replay
          directory,          \* device_directory (0: no entry)
          retained            \* external: what the broker keeps

bridgeVars == <<bridgeEnabled, bridgeClient, bridgeLock>>
eventVars == <<record, snapshotRequested, bridgeVars, directory, retained>>

(* The payloads, by the revisions that tell them apart: BuildStateEvent,   *)
(* and what BuildDeviceDirectorySnapshot shows of every device             *)
StateOf(rec, d) == rec[d].rev
EntryOf(rec) == [d \in Devices |-> rec[d].entry]

(* DeviceDirectory::Update and Replace *)
Update(rec, d) == [directory EXCEPT ![d] = rec[d].entry]
Replace(rec) == EntryOf(rec)

WithoutMutex == TRUE
BridgeFree == bridgeLock = "free"

(* PublishStateEvent for the topics in sent, with their new contents *)
Retain(states, withDirectory, rec, dir) ==
    \E lost \in IF link = "up" THEN {{}} ELSE SUBSET (states \cup {"directory"}) :
        retained' = [state |-> [d \in Devices |->
                                    IF d \in states \ lost THEN StateOf(rec, d)
                                    ELSE retained.state[d]],
                     directory |-> IF withDirectory /\ "directory" \notin lost
                                   THEN dir ELSE retained.directory]

CanPublish == bridgeEnabled /\ bridgeClient

(* DeviceService::Mark ends with RuntimeExternalBridge::Publish: the       *)
(* directory is published when Update changed it.                          *)
PublishChange(d, rec) ==
    LET dir == Update(rec, d) IN
    /\ BridgeFree
    /\ record' = rec
    /\ directory' = IF bridgeEnabled THEN dir ELSE directory
    /\ IF CanPublish THEN Retain({d}, dir # directory, rec, dir)
                     ELSE UNCHANGED retained
    /\ UNCHANGED <<snapshotRequested, bridgeVars>>

(* A changed device: only telemetry, or something the directory shows *)
Changed(d, shown) ==
    [record EXCEPT ![d].rev = @ + 1,
                   ![d].entry = IF shown THEN record[d].rev + 1 ELSE @]

(* PublishCurrentSnapshot and PublishFullSnapshot: the directory goes out  *)
(* even if Replace found nothing new.                                      *)
OnlyNewDirectory == directory # EntryOf(record)
SnapshotDirectory == TRUE

PublishSnapshot ==
    /\ snapshotRequested /\ BridgeFree
    /\ snapshotRequested' = FALSE
    /\ directory' = IF bridgeEnabled THEN Replace(record) ELSE directory
    /\ IF CanPublish
       THEN Retain(Devices, SnapshotDirectory, record, Replace(record))
       ELSE UNCHANGED retained
    /\ UNCHANGED <<record, bridgeVars>>

(* RequestExternalSnapshot; it is refused after Close *)
RequestSnapshot(closed) ==
    /\ snapshotRequested' = (snapshotRequested \/ ~closed)
    /\ UNCHANGED <<record, bridgeVars, directory, retained>>

AttachClient ==
    /\ BridgeFree
    /\ bridgeClient' = TRUE
    /\ UNCHANGED <<record, snapshotRequested, bridgeEnabled, bridgeLock, directory,
                   retained>>

(* Disable waits for the mutex, and so for a replay that is under way. *)
DisableBridge ==
    /\ BridgeFree
    /\ bridgeEnabled' = FALSE
    /\ bridgeClient' = FALSE
    /\ UNCHANGED <<record, snapshotRequested, bridgeLock, directory, retained>>

LockBridge(t) ==
    /\ BridgeFree
    /\ bridgeLock' = t
    /\ UNCHANGED <<record, snapshotRequested, bridgeEnabled, bridgeClient, directory,
                   retained>>

UnlockBridge ==
    /\ bridgeLock' = "free"
    /\ UNCHANGED <<record, snapshotRequested, bridgeEnabled, bridgeClient, directory,
                   retained>>

(* The retained topics are what an earlier process left. *)
InitEvents ==
    /\ record = [d \in Devices |-> [rev |-> 1, entry |-> 1]]
    /\ snapshotRequested = FALSE
    /\ bridgeEnabled = TRUE /\ bridgeClient = FALSE /\ bridgeLock = "free"
    /\ directory = [d \in Devices |-> 0]
    /\ retained = [state |-> [d \in Devices |-> 0],
                   directory |-> [d \in Devices |-> 0]]

RetainedIsRecord ==
    /\ \A d \in Devices : retained.state[d] = StateOf(record, d)
    /\ retained.directory = EntryOf(record)
===============================================================================
