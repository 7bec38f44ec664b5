---------------------------- MODULE MCMailOutbox ----------------------------
(* Two messages and two processes, as while one replaces the other: enough   *)
(* for a batch that is interrupted and a claim that runs out under a pass.   *)
EXTENDS MailOutbox

CONSTANTS m1, m2, p1, p2

MCMessage == {m1, m2}
MCProcess == {p1, p2}
=============================================================================
