---------------------------- MODULE DeviceRegistry ----------------------------
(***************************************************************************)
(* DeviceRegistry of route_service: the devices in memory and what a       *)
(* message or the activity scan makes of a record.                         *)
(*                                                                         *)
(* Contents are abstracted to the revision that last set them: meta (role  *)
(* label, capabilities, product, version), st (status), seen               *)
(* (last_seen_at) and tel (latest telemetry).  A label and the status are  *)
(* kept themselves, because the registry compares them.  All devices are   *)
(* of one school, so a label belongs to at most one of them.               *)
(***************************************************************************)
EXTENDS Integers

CONSTANTS Devices,      \* device_ids
          Registered,   \* devices that are in the tables at the start
          Labels,       \* role labels (dcdw_label)
          Statuses,     \* statuses of registrations: TRUE is online
          NoLabel,      \* a record or message without a label
          MaxRevision   \* bound: revisions of one device

ASSUME RegistryAssumption ==
    /\ Registered \subseteq Devices
    /\ Statuses \subseteq BOOLEAN
    /\ NoLabel \notin Labels
    /\ MaxRevision \in Nat

VARIABLES known,   \* device_ids of records_
          rec      \* records_ (Blank for a device that is not known)

registryVars == <<known, rec>>

LabelOrNone == Labels \cup {NoLabel}
Record == [rev : Nat, online : BOOLEAN, label : LabelOrNone,
           meta : Nat, st : Nat, seen : Nat, tel : Nat]
Blank == [rev |-> 0, online |-> FALSE, label |-> NoLabel,
          meta |-> 0, st |-> 0, seen |-> 0, tel |-> 0]

(* A registration may be a last will (offline); a label is optional. *)
Registration == [online : Statuses, label : LabelOrNone]

(* roles_: some other device in memory has the label *)
NeverTaken(d, l) == FALSE
Taken(d, l) == \E e \in known \ {d} : rec[e].label = l

(* What ApplyRegistration leaves: a conflicting label is refused, the rest *)
(* of the message is accepted.                                             *)
AfterRegistration(r, d, reg) ==
    [rev    |-> r.rev + 1,
     online |-> reg.online,
     label  |-> IF reg.label = NoLabel \/ Taken(d, reg.label)
                THEN r.label ELSE reg.label,
     meta   |-> r.rev + 1,
     st     |-> r.rev + 1,
     seen   |-> IF reg.online THEN r.rev + 1 ELSE r.seen,
     tel    |-> r.tel]

(* ApplyTelemetry: the device is online; an empty label may be completed. *)
AfterTelemetry(r, d, l) ==
    [rev    |-> r.rev + 1,
     online |-> TRUE,
     label  |-> IF r.label = NoLabel /\ ~Taken(d, l) THEN l ELSE r.label,
     meta   |-> r.meta,
     st     |-> IF r.online THEN r.st ELSE r.rev + 1,
     seen   |-> r.rev + 1,
     tel    |-> r.rev + 1]

(* ExpireInactive *)
Expired(r) ==
    [rev    |-> r.rev + 1,
     online |-> FALSE,
     label  |-> r.label,
     meta   |-> r.meta,
     st     |-> r.rev + 1,
     seen   |-> r.seen,
     tel    |-> r.tel]

(* AddProvisioned accepts the record of the table *)
CanAdd(d, r) == d \notin known /\ (r.label = NoLabel \/ ~Taken(d, r.label))
===============================================================================
