------------------------- MODULE MCSPSCTimeoutQueue -------------------------
(***************************************************************************)
(* The timeout queue with one closing thread, two slots to fill and four   *)
(* distinct items.                                                         *)
(***************************************************************************)
EXTENDS SPSCTimeoutQueue
CONSTANTS producer, consumer, closer

(* The n-th item pushed is n: the queue never looks at an item, so what it  *)
(* does with these it does with any, and two items that change places or    *)
(* one that is delivered twice show.                                        *)
Stream == \A n \in 1 .. MaxItems :
    Len(sent) = n - 1 /\ pc[Producer] = "idle" /\ pc'[Producer] = "enter" => item' = n
StreamSpec == Init /\ [][Next /\ Stream]_vars /\ Fairness
=============================================================================
