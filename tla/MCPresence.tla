---------------------------- MODULE MCPresence ----------------------------
(* A phone with a socket on each namespace. *)
EXTENDS Presence, TLC

CONSTANTS phoneMain, phoneMessages, phone

MCDeviceOf == phoneMain :> phone @@ phoneMessages :> phone
=============================================================================
