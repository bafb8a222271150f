------------------------------ MODULE MCStore ------------------------------
(***************************************************************************)
(* Small instances of the store for TLC: its transactions called in any    *)
(* order, and called by the daemon.  A behaviour stays with its caller.    *)
(* One submission is a row of the old schema.                              *)
(***************************************************************************)
EXTENDS Daemon, TLC

CONSTANTS s1, s2, a1, a2, src1, src2, ws1

VARIABLE caller   \* who calls the store: anybody, or the daemon

Req(key, ws, writable, nb, dl, sources) ==
  [key |-> key, workspace |-> ws, writable |-> writable, priority |-> 0,
   not_before |-> nb, start_deadline |-> dl, sources |-> sources]

(* A writer and a reader of one workspace, and one request without a
   workspace that has a start window. *)
MCRequest == {Req(1, ws1, TRUE, None, None, <<src1>>),
              Req(2, ws1, FALSE, None, 2, <<src1, src2>>),
              Req(3, None, FALSE, 1, None, <<src1>>)}

MCPatch == {[priority |-> Keep, not_before |-> 2, start_deadline |-> Keep],
            [priority |-> Keep, not_before |-> None, start_deadline |-> 1]}

MCLimit == [src \in Source |-> 1]
MCReserve == [src \in Source |-> 0]
MCMonitor == [src \in Source |-> IF src = src1 THEN "static" ELSE "command"]
MCAnswer == {None, [health |-> "healthy", kind |-> "external_in_use",
                    count |-> 0, sampled |-> 0]}

MCSymmetry == Permutations({a1, a2})

(* An attempt that has ended has at least five events.  Only the daemon
   promises to append none after them, so others append below that. *)
Anybody == INSTANCE Store WITH MaxLog <- 4

CallersInit == Init /\ caller \in {"anybody", "daemon"}

CallersNext ==
  \/ caller = "anybody" /\ Anybody!StoreNext
     /\ UNCHANGED <<caller, now, faults, schedVars, procVars>>
  \/ caller = "daemon" /\ Next /\ UNCHANGED caller

CallersSpec == CallersInit /\ [][CallersNext]_<<vars, caller>>
=============================================================================
