------------------------------ MODULE MCSafeMeta ------------------------------
(***************************************************************************)
(* SafeMeta on a chain of creators: plan -> sub -> leaf (-> tip).          *)
(***************************************************************************)
EXTENDS SafeMeta

CONSTANTS plan, sub, leaf, tip

Chain3 == {plan, sub, leaf}
Chain4 == {plan, sub, leaf, tip}

ChainParent == [s \in Step |-> CASE s = plan -> Root
                                 [] s = sub -> plan
                                 [] s = leaf -> sub
                                 [] s = tip -> leaf]
=============================================================================
