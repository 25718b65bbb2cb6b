--------------------------- MODULE MCDeviceGateway ---------------------------
(***************************************************************************)
(* Model checking of DeviceGateway, with and without a tenant context for  *)
(* the requests of devices.                                                *)
(***************************************************************************)
EXTENDS DeviceGateway, TLC
=============================================================================
