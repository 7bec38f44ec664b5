---------------------------- MODULE MCPushOutbox ----------------------------
(***************************************************************************)
(* One telephone two people sign in on one after the other, a message for  *)
(* the first of them, that the pass writes or the route of the test, and   *)
(* two processes.                                                          *)
(***************************************************************************)
EXTENDS PushOutbox, TLC

CONSTANTS anna, ben, hers, his, telephone, message, p1, p2

MCPerson == {anna, ben}
MCSession == {hers, his}
MCTelephone == {telephone}
MCPersonOf == (hers :> anna) @@ (his :> ben)
MCTelephoneOf == [s \in MCSession |-> telephone]
MCRow == {1}
MCCause == {message}
MCPersonFor == (message :> anna)
MCProcess == {p1, p2}

=============================================================================
