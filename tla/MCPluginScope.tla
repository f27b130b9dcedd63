---------------------------- MODULE MCPluginScope ----------------------------
(* One process, one request, one operation in it; two tasks work in the      *)
(* request and one in the operation.                                         *)
EXTENDS PluginScope

CONSTANTS process, request, operation, t1, t2, t3, k1, k2

MCScopes == {process, request, operation}
MCParent == [n \in {request, operation} |-> IF n = request THEN process ELSE request]
MCTasks  == {t1, t2, t3}
MCHome   == [i \in MCTasks |-> IF i = t3 THEN operation ELSE request]
MCKeys   == {k1, k2}
=============================================================================
