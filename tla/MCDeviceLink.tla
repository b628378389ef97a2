---------------------------- MODULE MCDeviceLink ----------------------------
(* A small instance of DeviceLink: one tab of the trusted browser. *)
EXTENDS DeviceLink
=============================================================================
