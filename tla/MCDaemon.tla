------------------------------ MODULE MCDaemon ------------------------------
(* Small instances of the daemon for TLC. *)
EXTENDS Daemon, TLC

CONSTANTS s1, s2, a1, a2, src1, src2, ws1

MCLimit == [src \in Source |-> 1]
MCReserve == [src \in Source |-> 0]
MCStatic == [src \in Source |-> "static"]
MCProbed == [src \in Source |-> "command"]

Req(key, ws, writable, nb, dl, sources) ==
  [key |-> key, workspace |-> ws, writable |-> writable, priority |-> 0,
   not_before |-> nb, start_deadline |-> dl, sources |-> sources]

(* A writer and a reader of one workspace that compete for one slot; the
   reader may also use a second source. *)
MCRequest == {Req(1, ws1, TRUE, None, None, <<src1>>),
              Req(2, ws1, FALSE, None, 1, <<src1, src2>>)}

(* The second submission may also do without the workspace: then only the
   slots keep the two apart. *)
MCRequestFree == MCRequest \cup {Req(2, None, FALSE, None, 1, <<src1>>)}

(* The first pair without the second source. *)
MCRequestOne == {Req(1, ws1, TRUE, None, None, <<src1>>),
                 Req(2, ws1, FALSE, None, 1, <<src1>>)}

MCPatch == {[priority |-> Keep, not_before |-> 1, start_deadline |-> None]}

MCAnswer == {None, [health |-> "healthy", kind |-> "external_in_use",
                    count |-> 0, sampled |-> 0]}

MCSymmetry == Permutations({s1, s2}) \cup Permutations({a1, a2})
=============================================================================
