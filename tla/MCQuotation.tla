----------------------------- MODULE MCQuotation -----------------------------
(* Small instances of Quotation for TLC. *)
EXTENDS Quotation

(* A sales manager owns the quotation; an administrator may stand in. *)
MCRoleOf == [a \in Staff |-> IF a = "mia" THEN "SALES_MANAGER"
                             ELSE IF a = "fin" THEN "FINANCE" ELSE "ADMIN"]

(* Auto-approved, or cleared by the sales manager and then finance. *)
MCRoutes == {<<>>, <<"SALES_MANAGER", "FINANCE">>}
===============================================================================
