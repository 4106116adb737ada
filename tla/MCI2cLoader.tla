---------------------------- MODULE MCI2cLoader -----------------------------
(* I2cLoader with the table of i2c_loader.vhd, lines 89-107.               *)
EXTENDS I2cLoader

Table == <<0, 0, 0, 8, 2, 128, 4, 121, 6, 121, 8, 16, 10, 6, 12, 98, 14, 2, 16, 29, 18, 1>>
=============================================================================
