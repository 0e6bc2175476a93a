--------------------------- MODULE MCConnections ---------------------------
EXTENDS Connections

CONSTANTS c1, c2, r1, r2, s1

A(status, default) == [status |-> status, default |-> default, set |-> Blank]
Rows(a, b) == [c \in Conns |-> IF c = c1 THEN a ELSE b]
W(inputs, rows0, conns, reqs, n) ==
  [inputs |-> inputs, rows |-> rows0, conns |-> conns, reqs |-> reqs,
   set |-> {s1}, prefetch |-> 1, restarts |-> n]

(* The workloads, each with one kind of difficulty: requests that compete  *)
(* for the default, a deletion against a session that starts and pairs,    *)
(* a request against two handlers at a time, and two requests against one, *)
(* that write the same status, restarts of either process, the advanced    *)
(* settings, and a broker and a database that fail.                        *)
Rivals   == W({"update", "default", "delete"},
              Rows(A("CONNECTED", TRUE), A("CONNECTED", FALSE)), {}, {r1, r2}, 0)
Orphans  == W({"create", "delete", "worker", "network"}, Clean, {c1}, {r1}, 0)
(* The worker restarts and restores a session whose row may be gone by then. *)
Returned == W({"create", "delete", "worker"}, Clean, {c1}, {r1}, 1)
Status   == [W({"start", "logout", "worker", "dberror"},
               Rows(A("DISCONNECTED", FALSE), None), {}, {r1}, 0) EXCEPT !.prefetch = 2]
Crossing == W({"start", "logout", "worker", "dberror", "unavailable"},
              Rows(A("DISCONNECTED", FALSE), None), {}, {r1, r2}, 0)
Restart  == W({"start", "worker", "backend"}, Rows(A("DISCONNECTED", FALSE), None), {}, {r1}, 1)
Advanced == W({"start", "update", "worker"}, Rows(A("DISCONNECTED", FALSE), None), {}, {r1}, 0)
Offline  == W({"create", "start", "logout", "unavailable", "default", "dberror"}, Clean, {c1, c2}, {r1}, 0)

MCOrphans   == {Orphans, Returned}
MCWorkloads == {Rivals, Orphans, Status, Crossing, Restart, Advanced, Offline}
=============================================================================
