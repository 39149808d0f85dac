----------------------------- MODULE MCRefresh -----------------------------
(* orders and customers are captured first, items from the orders captured. *)
EXTENDS Refresh

CONSTANTS orders, customers, items, warehouse

Family == [s \in Source |-> IF s = items THEN {orders} ELSE {}]
Shared == [s \in Source |-> warehouse]
=============================================================================
