----------------------------- MODULE MCUartMsx ------------------------------
(* UartMsx with the bytes of the test bench, 55 and AA, bit 0 first.       *)
EXTENDS UartMsx

MCBytes == {<<1, 0, 1, 0, 1, 0, 1, 0>>, <<0, 1, 0, 1, 0, 1, 0, 1>>}
=============================================================================
