-------------------------- MODULE ConnectContract --------------------------
(***************************************************************************)
(* The contract of module Connecting as a specification: connections are   *)
(* asked for, one at a time, each answered in one step; the caller closes. *)
(***************************************************************************)
EXTENDS Connecting

VARIABLE conn            \* .errs, .socks; .pc: "idle", "asked", "ok" or "failed"

ContractInit == conn = [pc |-> "idle", errs |-> {}, socks |-> {}]

Ask == conn.pc = "idle" /\ conn' = [conn EXCEPT !.pc = "asked"]

Connect ==
    /\ conn.pc = "asked"
    /\ \E c \in HTDoConnect(conn, "net") :
          conn' = [c.r EXCEPT !.pc = IF c.ok THEN "ok" ELSE "failed"]

Close ==
    /\ conn.pc \in {"ok", "failed"}
    /\ conn' = [pc |-> "idle", errs |-> {}, socks |-> {}]

ContractSpec == ContractInit /\ [][Ask \/ Connect \/ Close]_conn

=============================================================================
