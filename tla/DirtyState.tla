------------------------------ MODULE DirtyState ------------------------------
(***************************************************************************)
(* DirtyState of route_service, for one device: which groups of columns    *)
(* wait to be written and which were handed to the database thread.        *)
(* NoEntry stands for a device that entries_ does not contain.             *)
(***************************************************************************)
EXTENDS DeviceRegistry

Groups == {"metadata", "status", "telemetry"}

(* DesiredDeviceWrite; its revision is the one of its record. *)
Write == [record : Record, groups : SUBSET Groups, urgent : BOOLEAN]
NoWrite == [record |-> Blank, groups |-> {}, urgent |-> FALSE]

(* dirty_revision and in_flight_revision of each field, 0 if unset *)
Entry == [record : Record, dirty : [Groups -> Nat], fly : [Groups -> Nat],
          urgent : BOOLEAN]
Clean == [g \in Groups |-> 0]
NoEntry == [record |-> Blank, dirty |-> Clean, fly |-> Clean, urgent |-> FALSE]

Larger(m, n) == IF m >= n THEN m ELSE n

HasDirty(e) == \E g \in Groups : e.dirty[g] # 0
HasWork(e) == HasDirty(e) \/ \E g \in Groups : e.fly[g] # 0

(* Mark: the newest record, the union of the groups, the higher urgency *)
Mark(e, w) ==
    [record |-> IF w.record.rev >= e.record.rev THEN w.record ELSE e.record,
     dirty  |-> [g \in Groups |-> IF g \in w.groups
                                  THEN Larger(e.dirty[g], w.record.rev)
                                  ELSE e.dirty[g]],
     fly    |-> e.fly,
     urgent |-> e.urgent \/ w.urgent]

(* TakeMatching: the write it returns and the entry it leaves *)
TakenWrite(e) == [record |-> e.record,
                  groups |-> {g \in Groups : e.dirty[g] # 0},
                  urgent |-> e.urgent]
AfterTake(e) == [record |-> e.record,
                 dirty  |-> Clean,
                 fly    |-> [g \in Groups |-> Larger(e.fly[g], e.dirty[g])],
                 urgent |-> FALSE]

(* Complete: an entry without work is erased *)
Complete(e, w) ==
    LET done == [e EXCEPT !.fly =
                   [g \in Groups |-> IF g \in w.groups /\ e.fly[g] <= w.record.rev
                                     THEN 0 ELSE e.fly[g]]]
    IN  IF HasWork(done) THEN done ELSE NoEntry

(* Restore: a write that could not be submitted is dirty again *)
Restore(e, w) ==
    [Mark(e, w) EXCEPT !.fly =
        [g \in Groups |-> IF g \in w.groups /\ e.fly[g] <= w.record.rev
                          THEN 0 ELSE e.fly[g]]]
===============================================================================
