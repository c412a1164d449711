--------------------------- MODULE MCTransferQueue ---------------------------
(* TLC instances of the transfer queue.                                    *)
EXTENDS TransferQueue

BigAndUp == {<<"big", "up">>}
BigOnly == {<<"big">>}
SmallOnly == {<<"small">>}

=============================================================================
