------------------------- MODULE MCFirmwareUpdate ---------------------------
EXTENDS FirmwareUpdateProofs

(* The new image is one that a bootloader may mishear when it restarts in  *)
(* the middle of a packet: the information block's packet has SYNC for its *)
(* checksum, the body holds SYNC, and the last byte of the body with the   *)
(* checksum behind it is a GET.                                            *)
Info(version) == <<0, 161, 192, 16, 16, version, 0, 0>>
WithCrc == <<Info(1), <<1, 2, 3, 4, 5, 6, 7, 8>>, <<205, 171, 0, 0, 255, 255, 255, 255>>>>
WithoutCrc == <<Info(25), <<3, 127, 1, 0, 2, 9, 142, 0>>,
                <<120, 86, 52, 18, 255, 255, 255, 255>>>>

(* Pages 15 and 16, the last one the first of the application, and all. *)
PagesOrAll == {<<1, 15, 16, 30>>, <<255, 0>>}
=============================================================================
