--------------------------- MODULE MCBatchLifecycle ---------------------------
(* Two items, batches of up to two, one crash or error.                    *)
EXTENDS BatchLifecycle
===============================================================================
