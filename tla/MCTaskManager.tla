--------------------------- MODULE MCTaskManager ----------------------------
(***************************************************************************)
(* Instances of TaskManager: the bursts and priorities of four tasks, three*)
(* of which are those of kernelMain (kernel.cpp:109-111).                  *)
(***************************************************************************)
EXTENDS TaskManager

CONSTANTS fast, medium, slow, idle

MCTask == {fast, medium, slow, idle}

MCBurst == [t \in MCTask |-> CASE t = fast   -> 3
                               [] t = medium -> 6
                               [] t = slow   -> 10
                               [] t = idle   -> 0]

MCPriority == [t \in MCTask |-> IF t = slow THEN 0 ELSE 1]
=============================================================================
