----------------------------- MODULE MCToolCall -----------------------------
(***************************************************************************)
(* Small instances of ToolCall for TLC: two calls that meet at one bucket, *)
(* the second request of the one and the only request of the other.        *)
(***************************************************************************)
EXTENDS ToolCall

CONSTANTS t1, t2

MCCalls == {t1, t2}
MCUsed  == [t \in MCCalls |-> IF t = t1 THEN {"send_dm", "poll_events"}
                              ELSE {"send_message"}]
=============================================================================
