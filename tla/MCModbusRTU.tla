----------------------------- MODULE MCModbusRTU -----------------------------
(* Two single writes; a write of two registers; a run of reads too long for *)
(* one request; a read of two registers and a single write; coils in two    *)
(* bytes and in one; coils in three bytes and a register.                   *)
EXTENDS ModbusRTU

Entry(id, cmd, addr) == [id |-> id, cmd |-> cmd, addr |-> addr]
MCLong   == [k \in 1 .. 5 |-> Entry(1, "coils", k)] \o <<Entry(2, "read", 1)>>
MCTables == {<<Entry(1, "write", 5), Entry(1, "write", 6)>>,
             <<Entry(1, "writes", 5), Entry(1, "writes", 6)>>,
             [k \in 1 .. 6 |-> Entry(1, "read", k)],
             <<Entry(1, "read", 1), Entry(1, "read", 2), Entry(2, "write", 4)>>,
             [k \in 1 .. 3 |-> Entry(1, "coils", k)] \o <<Entry(2, "coils", 1)>>,
             MCLong}
MCCoils  == {MCLong}
=============================================================================
