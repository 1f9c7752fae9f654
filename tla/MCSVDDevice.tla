---------------------------- MODULE MCSVDDevice ----------------------------
(* The instances of SVDDevice that TLC checks. *)
EXTENDS SVDDevice

CONSTANTS spi1, spi2, spi3

Listed == <<spi2, spi1, spi3>>
=============================================================================
