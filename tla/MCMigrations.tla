----------------------------- MODULE MCMigrations -----------------------------
(* Three migrations, the second without a Down function, registered out of    *)
(* order.                                                                     *)
EXTENDS Migrations

MCRegistered == <<2, 3, 1>>
MCTablesOf == <<<<"tx", "batch">>, <<"token">>, <<"account">>>>
==============================================================================
